\* Indices beyond a usize: violated; decoding stops when it returns.
CONSTANTS
  WordBits = 15
  Table <- MCTable
  Tree <- MCTree
  Depth <- MCDepth
  Root = "root"
  Fields <- MCOneField
  MaxLines = 1
  Excess = TRUE
SPECIFICATION Spec
INVARIANTS ExcessIsError
CHECK_DEADLOCK FALSE
