CONSTANTS
  Order <- MCOrder
  Mode <- MCMode
  Starts <- MCStarts
  Stops = {"MDECin", "MDECout"}
  Enables <- MCEnables
  DpcrSettings <- MCDpcr
  IrqSettings = {}
  InSize = 4
  Threshold = 2
  BlockWords = 2
  OutSize = 2
  Commands <- MCCommands
SPECIFICATION Spec
CONSTRAINT ReentersOnce
INVARIANTS TypeOK OnlyInputReenters RequestsFresh RoomForBlock OutputFits CommandsAligned
