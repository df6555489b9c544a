SPECIFICATION Spec
CONSTANTS
  QueueSize = 40
  WakeThreshold = 16
  Sizes = {8, 12}
  Ids = {1, 2}
  SyncSize = 12
  SyncBudget = 0
  Synchronises = FALSE
PROPERTIES
  ImplementsStream
