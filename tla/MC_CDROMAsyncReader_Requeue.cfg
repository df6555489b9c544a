SPECIFICATION Spec
CONSTANTS
  ReadaheadCount = 2
  LastLBA = 2
  RequestLBAs = {0, 1, 2}
  CountModulus = 8
  Interrupts = {"queue"}
  Reboot = FALSE
INVARIANTS
  SectorIsRequested
