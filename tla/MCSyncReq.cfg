CONSTANTS
  Threads = {t1, t2}
  Clients = {c1, c2}
  IndIds = {i1}
  NumSlots = 1
  MaxRetry = 1
  None = None
SPECIFICATION FairSpec
INVARIANTS
  NoWriteAfterReturn
  AnswerMatchesRequest
  SlotHasCaller
PROPERTY CallReturns
