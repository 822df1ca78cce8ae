\* A window that changed its workspace by a request, then closed.
SPECIFICATION Spec
CONSTANTS
  Views = {v1}
  XViews = {}
  MaxWorkspace = 1
  Background = TRUE
  LeafBound = 2
  Nowhere = nowhere
  NoView = noview
SYMMETRY WindowSymmetry
CHECK_DEADLOCK FALSE
INVARIANT RemovedEverywhere
