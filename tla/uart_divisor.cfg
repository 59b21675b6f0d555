SPECIFICATION Spec
CONSTANTS
  FullFifo = 2
  CtrlVals <- NoCtrl
  FenVals <- FenOn
  MidVals <- MidChoice
  LowVals <- LowThree
  HackInfRx = FALSE
  Writers <- JustRun
  MaxBus = 2
  MaxTyped = 0
  MaxAccepted = 0
INVARIANT DocumentedDivisorAccepted
