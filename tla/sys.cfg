SPECIFICATION FairSpec
CONSTANTS
  NumVectors = 1
  Devices <- TimerAndUart
  SoftSources <- Nothing
  CntlVals <- Nothing
  BlockModes <- AnyMode
  Ticking <- OneTimer
  CfgVals <- ShenaOn
  MaxAccesses = 2
  MaxBus = 2
INVARIANTS
  TypeOK
  NoExceptionOwed
  VicSeesDevices
  OnlyRaisesWhileAsleep
PROPERTIES
  HaltWakes
  SleepEndsOnArrival
  InterruptIsTaken
