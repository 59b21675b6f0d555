SPECIFICATION Spec
CONSTANTS
  FullFifo = 3
  CtrlVals <- RxCtrl
  FenVals <- AnyFen
  MidVals <- NoVals
  LowVals <- NoVals
  HackInfRx = FALSE
  Writers <- JustRun
  MaxBus = 2
  MaxTyped = 5
  MaxAccepted = 0
INVARIANTS
  TimeoutMeansData
  NoParkedByte
PROPERTY
  RxIsPipe
