SPECIFICATION FairSpec
CONSTANTS
  RamSize = 12
  Register <- Registers
  Pcs <- SomePcs
  Vector = 0
  Exit = 8
  Accesses <- SomeAccesses
  MaxAccesses = 3
  Loaded <- Code
  Marks <- SomeMarks
  Pokes <- SomePokes
  MaxMarks = 2
  CheckEvery = 2
  NoAsanRam = FALSE
INVARIANTS
  TypeOK
  UninitIsTold
PROPERTIES
  IsDebuggee
  WatchReported
  StopsOnRequest
