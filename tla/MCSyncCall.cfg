CONSTANTS
  c1 = c1
  c2 = c2
  i1 = i1
  i2 = i2
  Threads = {t1, t2}
  Clients = {c1, c2}
  Ioctls = {i1, i2}
  Requests <- MCRequests
  NumSlots = 2
  MaxEvents = 2
  None = None
SPECIFICATION FairSpec
INVARIANTS
  NoMissedAnswer
PROPERTIES
  ServiceSpec
  CallReturns
