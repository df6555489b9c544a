CONSTANTS
  NumSectorBuffers = 2
  ResponseBound = 2
SPECIFICATION Spec
INVARIANTS TypeOK DriveGoesOn NothingForgotten CommandsWait ResponseIsForPending NoLateSecondResponse SectorsAdvance
