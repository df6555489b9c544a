CONSTANTS
  spu = spu
  cd = cd
  pad = pad
  Events = {spu, cd, pad}
  Permanent = spu
  FirstInterval <- MCFirstInterval
  Uses <- MCFewUses
  Durations = {2}
  Bursts = {1}
  OthersInCallbacks = TRUE
  MaxOwed = 1
  MaxDowncount = 2
  MaxLate = 1
  MaxPending = 2
  MaxDepth = 2
SPECIFICATION Spec
INVARIANT EventsSorted
