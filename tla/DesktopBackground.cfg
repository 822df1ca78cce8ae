\* Any window sends requests at any time.
SPECIFICATION Spec
CONSTANTS
  Views = {v1, v2}
  XViews = {}
  MaxWorkspace = 1
  Background = TRUE
  LeafBound = 2
  Nowhere = nowhere
  NoView = noview
SYMMETRY WindowSymmetry
CHECK_DEADLOCK FALSE
INVARIANTS LiveOnLayer LayerFitsView OneRecentPlace RecentFollowsLayer OnlyActiveShown FocusShown
