SPECIFICATION Spec
CONSTANTS
  NumVectors = 1
  Devices <- OneUart
  SoftSources <- Nothing
  CntlVals <- Nothing
  BlockModes <- NoGdb
  Ticking <- Nothing
  CfgVals <- ShenaOn
  MaxAccesses = 1
  MaxBus = 1
INVARIANT NoSleepOnPending
\* A halted CPU waits for a device, and the only one here owes it nothing.
CHECK_DEADLOCK FALSE
