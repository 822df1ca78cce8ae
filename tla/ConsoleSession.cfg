SPECIFICATION Spec
CONSTANTS
  Surface = {1, 2}
  Entry = {"files", "firefox"}
  Results <- MCResults
  MaxPosts = 2
  MaxStarts = 2
  MaxIdle = 2
  None = None
CHECK_DEADLOCK FALSE
INVARIANTS ExecInOrder ChoiceLostOnlyByDraw SurfaceKnown
PROPERTIES ExecArrives
