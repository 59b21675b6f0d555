SPECIFICATION FairSpec
CONSTANTS
  TickUnit = 3
  Khz <- TwoClocks
  Wrap = 4
  TickMod = 12
  LoadVals <- Loads
  MaxIdle = 7
  MaxLate = 2
  MaxMsgs = 2
INVARIANTS
  TypeOK
  InterrupterFollows
  DueAtZero
PROPERTIES
  CountsEveryTick
  OneStrayAtMost
  PeriodicKeepsTicking
