SPECIFICATION FairSpec
CONSTANTS
  FullFifo = 2
  CtrlVals <- LiveCtrl
  FenVals <- FenOn
  MidVals <- NoVals
  LowVals <- NoVals
  HackInfRx = FALSE
  Writers <- RunOrNone
  MaxBus = 2
  MaxTyped = 1
  MaxAccepted = 2
PROPERTIES
  BytesReachHost
  ByteIsNoticed
  SettledLevelReachesVic
  ShutdownCompletes
\* The process stops for good once it has ended; a stop before that is what
\* ShutdownCompletes looks for.
CHECK_DEADLOCK FALSE
