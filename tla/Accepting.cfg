\* Three clients of any kind, an application that stops at errors or not; the
\* application may have stopped.
CONSTANTS
  Conns = {1, 2, 3}
  Kinds <- MCKinds
  Patience = {TRUE, FALSE}
SPECIFICATION FairSpec
INVARIANTS TypeOK NoneForgotten
PROPERTIES Served ConnectReturns
CHECK_DEADLOCK FALSE
