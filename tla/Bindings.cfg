\* One keyboard; configurations of up to three bindings, loaded at will.
SPECIFICATION Spec
CONSTANTS
  a = a
  b = b
  ctrl = ctrl
  act = act
  reload = reload
  Roots = {1, 2}
  Keyboards = {k1}
  Keys = {a, b}
  Modifiers = {ctrl}
  Actions = {act, reload}
  Reload = reload
  Offered <- OfferedBindings
  Buttons = {left}
  MaxKeySeq = 3
  MaxAdd = 3
  None = none
INVARIANTS TrieShape StartsOnce GrabsLive
PROPERTIES ImplementsKeyMap
