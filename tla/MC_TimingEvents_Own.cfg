CONSTANTS
  spu = spu
  cd = cd
  pad = pad
  Events = {spu, cd, pad}
  Permanent = spu
  FirstInterval <- MCFirstInterval
  Uses <- MCUses
  Durations = {2}
  Bursts = {1}
  OthersInCallbacks = FALSE
  MaxOwed = 2
  MaxDowncount = 2
  MaxLate = 1
  MaxPending = 2
  MaxDepth = 2
SPECIFICATION FairSpec
INVARIANTS TypeOK TicksConserved TicksNotNegative EventsSorted
PROPERTY NoStarvation
