SPECIFICATION FairSpec
CONSTANTS
  HarqIds = {0, 1, 2}
  MaxRv = 3
  Length = 4
  UlSymbols <- TwoOfFour
  K2 <- SameK2
  TbSymbols = {2}
  TbUnits = {1, 2}
  BsrStep = 2
  SrDelay = 0
  DciDelay = 1
  DecodeDelay = 1
  MaxReports = 3
  MaxCorrupted = 3
INVARIANTS
  TypeOK
  InFlightIsCurrent
  NackIsKept
PROPERTIES
  DataIsSent
  ImplementsStopAndWait
