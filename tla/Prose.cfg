SPECIFICATION FairSpec
CONSTANTS
  u1 = u1
  u2 = u2
  u3 = u3
  UE = {u1, u2, u3}
  Code = {0, 1, 4, 5}
  CodeModulus = 4
  Requested <- TwoRemotes
  CodePairs <- HelperPairs
  Provided <- RelayU2
  RtxMax = 1
  MaxLost = 1
INVARIANTS
  TypeOK
  NoFatalError
  TimerCoversWait
PROPERTIES
  ImplementsAgreement
  EstablishedDespiteLoss
CHECK_DEADLOCK FALSE
