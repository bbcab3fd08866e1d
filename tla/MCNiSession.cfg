CONSTANTS
  MaxReq = 2
  MaxRestarts = 1
SPECIFICATION FairSpec
INVARIANTS
  AnsweredOnce
  RequestAccounted
PROPERTY SessionEnds
CHECK_DEADLOCK FALSE
