SPECIFICATION FairSpec
INVARIANTS
  TypeOK
  ClosuresLive
  JoinsThreads
PROPERTIES
  ImplementsLife
  StopReturns
CHECK_DEADLOCK FALSE
