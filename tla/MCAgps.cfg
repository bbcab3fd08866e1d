CONSTANTS
  Subscribers = {atl, bit, wifi}
  WaitForClose = {wifi}
  MaxQueue = 2
  MaxRestarts = 1
SPECIFICATION FairSpec
INVARIANTS
  GrantIsTruth
  HeldForSomeone
PROPERTY SubscriberServed
