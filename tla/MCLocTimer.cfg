CONSTANTS
  Clients = {c1, c2}
  None = None
  MaxStarts = 3
  MaxTime = 3
  Delays = {1, 2}
SPECIFICATION FairTimerSpec
INVARIANTS
  NoDeletedDelegate
  ArmedForSoonest
PROPERTIES
  EndsOnce
  TimerEnds
CHECK_DEADLOCK FALSE
