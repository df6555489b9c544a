SPECIFICATION FairSpec
CONSTANTS
  QueueSize = 48
  WakeThreshold = 16
  Sizes = {12, 16}
  Ids = {1}
  SyncSize = 12
  SyncBudget = 16
  Synchronises = TRUE
PROPERTIES
  AllocationReturns
