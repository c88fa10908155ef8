SPECIFICATION FairSpec
CONSTANTS
  UeSeq <- ThreeUes
  BeamOf <- Beams
  NumHarq = 2
  Stream = {0, 1}
  MaxRv = 2
  Bandwidth = 2
  Length = 3
  DlSymbols <- FullAndShort
  FeedbackDelay <- ToUplink
  MaxReports = 2
INVARIANTS
  TypeOK
  InFlightIsCurrent
  NackIsKept
  BlocksAreDisjoint
PROPERTIES
  BlocksFinishUnlessBeamsCompete
  ImplementsStopAndWait
