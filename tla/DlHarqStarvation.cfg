SPECIFICATION FairSpec
CONSTANTS
  UeSeq <- TwoUes
  BeamOf <- Beams
  NumHarq = 2
  Stream = {0}
  MaxRv = 1
  Bandwidth = 2
  Length = 3
  DlSymbols <- FullAndShort
  FeedbackDelay <- ToUplink
  MaxReports = 2
PROPERTY BlocksFinish
