\* H3 streams are not kept: violated.
CONSTANTS
  u1 = u1  u2 = u2  b1 = b1
  tu = tu  tb = tb  t1 = t1  t2 = t2
  Streams = {u1, u2, b1}
  Tasks = {tu, tb}
  NoTask = NoTask
  Ids <- MCIds
  SessionId = 0
  Kind <- MixedKind
  Roles <- PairRoles
SPECIFICATION Spec
INVARIANTS PlaceholdersKept
