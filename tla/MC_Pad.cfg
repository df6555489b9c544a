CONSTANTS
  FrameSize = 2
  Slots = 2
  AnswerLength = 2
  Connections <- MCConnections
  Controls <- MCControls
  Bytes <- MCBytes
  LoadedCards <- MCLoadedCards
SPECIFICATION Spec
INVARIANTS TypeOK TransferGoesOn TapInStep FileKeepsUp AnswerAsAnnounced
PROPERTY OnlyRefusedLeavesByte
CONSTRAINT SecondPortUsed
