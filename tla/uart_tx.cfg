SPECIFICATION Spec
CONSTANTS
  FullFifo = 3
  CtrlVals <- TxCtrl
  FenVals <- AnyFen
  MidVals <- MidChoice
  LowVals <- LowThree
  HackInfRx = FALSE
  Writers <- RunOrNone
  MaxBus = 2
  MaxTyped = 0
  MaxAccepted = 5
INVARIANTS
  TxAccounting
  CtsMeansIdleWire
  ShutdownFlushed
PROPERTY TxIsPipe
