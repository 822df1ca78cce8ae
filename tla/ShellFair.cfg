CONSTANTS
  Output = {1}
  Slots = 1
  MaxUi = 3
  Widget = {clock}
  Menu = menu
  Notification = notification
  None = None
  MaxClicks = 1
  MaxEnters = 2
  MaxPosts = 1
  MaxRequests = 1
  MaxTurns = 1
  Loss = {pointer}
  Starts <- OneOrNone
SPECIFICATION FairSpec
CHECK_DEADLOCK FALSE
PROPERTIES
  LockArrives
  WidgetCloses
