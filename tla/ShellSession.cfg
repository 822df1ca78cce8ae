CONSTANTS
  Output = {1, 2, 3}
  Slots = 2
  MaxUi = 3
  Widget = {clock}
  Menu = menu
  Notification = notification
  None = None
  MaxClicks = 1
  MaxEnters = 2
  MaxPosts = 1
  MaxRequests = 1
  MaxTurns = 2
  Loss = {pointer}
  Starts <- MCStarts
SPECIFICATION Spec
CHECK_DEADLOCK FALSE
INVARIANTS
  SidesAgree
  ClosesItsOwn
  LosersLive
  SpaceKnown
