SPECIFICATION FairSpec
CONSTANTS
  ReadaheadCount = 2
  LastLBA = 2
  RequestLBAs = {0, 1, 2}
  CountModulus = 8
  Interrupts = {}
  Reboot = FALSE
INVARIANTS
  TypeOK
  SectorIsRequested
  HeldSectorStable
  NoSlotRace
  CountInBounds
  MediaNotMovedInUse
PROPERTIES
  CallsReturn
