\* Header blocks in every form, whole, cut and refused; decoding stops when it returns.
CONSTANTS
  WordBits = 15
  Table <- MCTable
  Tree <- MCTree
  Depth <- MCDepth
  Root = "root"
  Fields <- MCFields
  MaxLines = 2
  Excess = FALSE
SPECIFICATION Spec
INVARIANTS TypeOK DecodesSent ShortIsPrefix
CHECK_DEADLOCK FALSE
