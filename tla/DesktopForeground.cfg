\* Only windows of the active workspace send requests.
SPECIFICATION Spec
CONSTANTS
  Views = {v1, v2, x1}
  XViews = {x1}
  MaxWorkspace = 1
  Background = FALSE
  LeafBound = 2
  Nowhere = nowhere
  NoView = noview
SYMMETRY WindowSymmetry
CHECK_DEADLOCK FALSE
INVARIANTS RecentIsWorkspace TreeFollowsLayer StaysUp
PROPERTIES TaskSwitchRotates
