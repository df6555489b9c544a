SPECIFICATION FairSpec
CONSTANTS
  QueueSize = 72
  WakeThreshold = 24
  Sizes = {8, 24}
  Ids = {1, 2}
  SyncSize = 8
  SyncBudget = 24
  Synchronises = TRUE
INVARIANTS
  TypeOK
  SignalIsForThisSync
  DummyInBounds
PROPERTIES
  NoSleepOverThreshold
  ImplementsStream
  CallsReturn
