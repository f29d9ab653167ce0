\* A push stream beside a stream of the session, an unknown one, one task.
CONSTANTS
  u1 = u1  u2 = u2  b1 = b1
  tu = tu  tb = tb  t1 = t1  t2 = t2
  Streams = {u1, u2, b1}
  Tasks = {tu}
  NoTask = NoTask
  Ids <- MCIds
  SessionId = 0
  Kind <- InboxKind
  Roles <- BothRoles
SPECIFICATION Spec
INVARIANTS TypeOK NoLostWakeup
PROPERTIES ImplementsInbox
