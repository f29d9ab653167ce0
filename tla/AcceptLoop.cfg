\* Accept loops in both directions and an open_uni behind a QPACK stream.
CONSTANTS
  u1 = u1  u2 = u2
  tu = tu  tb = tb
  Streams = {u1, u2}
  Called = {u2}
  Tasks = {tu, tb}
  NoTask = NoTask
  Ids <- MCIds
  SessionId = 0
  Kind <- BlockedKind
  Roles <- PairRoles
SPECIFICATION OpenFairSpec
INVARIANTS OpenTypeOK NoLostWakeup OursNeverLost OnlyOpened
PROPERTIES OpenedDelivered CallAnswered
