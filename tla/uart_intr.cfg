SPECIFICATION Spec
CONSTANTS
  FullFifo = 2
  CtrlVals <- MixCtrl
  FenVals <- AnyFen
  MidVals <- NoVals
  LowVals <- NoVals
  HackInfRx = TRUE
  Writers <- JustRun
  MaxBus = 2
  MaxTyped = 2
  MaxAccepted = 2
INVARIANTS
  TypeOK
  LinesTrackCauses
  VicTracksUart
PROPERTIES
  LinesAreDevices
  FlagsStayUsable
