\* One screen that is never short of space.
SPECIFICATION SteadySpec
CONSTANTS
  Views = {v1, v2, v3}
  Outputs = {o1}
  Nodes = {1, 2, 3, 4, 5, 6, 7}
  MaxLevel = 4
  Fits = {TRUE}
  NoNode = 0
  NoView = noview
  NoOutput = nooutput
SYMMETRY ViewSymmetry
VIEW Structure
CHECK_DEADLOCK FALSE
INVARIANTS NoHollowNode
PROPERTIES ImplementsRow
