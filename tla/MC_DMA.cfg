CONSTANTS
  Order <- MCOrder
  Mode <- MCMode
  Starts <- MCStarts
  Stops = {"GPU", "SPU", "OTC"}
  DpcrSettings <- MCDpcr
  IrqSettings <- MCIrq
SPECIFICATION DMAFairSpec
INVARIANTS ReadyChannelRuns BlocksOnce
PROPERTIES TransfersEnd
