SPECIFICATION FairSpec
CONSTANT MaxQueue = 3
INVARIANT TerminalMode
PROPERTIES
  CtrlCTerminates
  OutputIsPrinted
  DropEnds
