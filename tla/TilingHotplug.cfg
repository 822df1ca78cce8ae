\* Two screens that come and go, rows that may be full.
SPECIFICATION Spec
CONSTANTS
  Views = {v1, v2, v3}
  Outputs = {o1, o2}
  Nodes = {1, 2, 3, 4, 5, 6}
  MaxLevel = 2
  Fits = {TRUE, FALSE}
  NoNode = 0
  NoView = noview
  NoOutput = nooutput
SYMMETRY ScreenSymmetry
VIEW Structure
CHECK_DEADLOCK FALSE
INVARIANTS WellFormed OwnPlace
PROPERTY TouchesOneWindow
