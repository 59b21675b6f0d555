SPECIFICATION Spec
CONSTANTS
  TickUnit = 2
  Khz <- TwoClocks
  Wrap = 4
  TickMod = 16
  LoadVals <- OddLoads
  MaxIdle = 7
  MaxLate = 2
  MaxMsgs = 2
PROPERTY DisabledIsQuiet
