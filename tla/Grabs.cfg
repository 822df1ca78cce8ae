SPECIFICATION Spec
CONSTANTS
  Window = {a, b}
  Place = {left, right}
  Own = {small}
  MaxButtons = 2
  MaxKeys = 2
  MaxAsks = 3
  Second = 2
  None = None
SYMMETRY Symmetry
INVARIANTS
  PointerGrabGrounded
  KeyboardGrabGrounded
PROPERTIES
  Restored
CHECK_DEADLOCK FALSE
