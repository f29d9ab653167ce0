\* Two clones accept in the same direction: violated.
CONSTANTS
  u1 = u1  u2 = u2  b1 = b1
  tu = tu  tb = tb  t1 = t1  t2 = t2
  Streams = {u1, u2}
  Tasks = {t1, t2}
  NoTask = NoTask
  Ids <- MCIds
  SessionId = 0
  Kind <- PlainKind
  Roles <- SharedRoles
SPECIFICATION Spec
INVARIANTS NoLostWakeup
