CONSTANTS
  T0 = 3
  Tproc0 = 1
  T1 = 1
  T2 = 3
  SlotsPerMs = 1
  TotalSubCh = 2
  Threshold <- MinusEight
  Percentage = 30
  ReservePeriods = {0, 2, 5}
  Params <- NarrowAndWide
  Scis <- TwoScis
  MaxScis = 4
  MaxSlot = 8
SPECIFICATION Spec
INVARIANTS
  TypeOK
  NoConflictingCandidate
  DeafSlotsAvoided
  OutdatedEntriesLeaveSoon
PROPERTIES
  FreshEntriesKept
CHECK_DEADLOCK FALSE
