SPECIFICATION Spec
CONSTANTS
  Patterns <- TddPatterns
  N1Delays = {0, 1, 2, 4}
  N2Delays = {0, 1, 2, 4}
  HalfFrame = 5
  MaxPreambles = 1
  MaxIdle = 2
  MaxDelay = 4
  MaxLength = 5
  MaxSlot = 12
INVARIANTS
  TypeOK
  SlotsAgree
  FeedbackOnTime
  NoCtrlLeftOverUnlessDelayed
CHECK_DEADLOCK FALSE
