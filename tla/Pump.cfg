CONSTANTS
  Delays <- MCDelays
  MaxTimerDelay = 3
  Placeholder = 9
  DrainTurns = 2
  MaxMessages = 3
SPECIFICATION FairSpec
INVARIANTS
  TypeOK
  NoRequestLost
  DelayedCallInTime
  NeverStalls
PROPERTIES
  NeverLate
  WorkIsDone
CHECK_DEADLOCK FALSE
