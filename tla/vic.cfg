SPECIFICATION VicSpec
CONSTANTS
  NumVectors = 2
  Devices <- ThreeDevices
  SoftSources <- OneSoft
  CntlVals <- SomeCntl
INVARIANTS
  VectAddrServesHighest
  VectorIsPending
