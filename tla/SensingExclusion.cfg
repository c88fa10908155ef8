CONSTANTS
  T0 = 3
  Tproc0 = 1
  T1 = 1
  T2 = 4
  SlotsPerMs = 1
  TotalSubCh = 2
  Threshold <- MinusEight
  Percentage = 20
  ReservePeriods = {0, 2, 5}
  Params <- Wide
  Scis <- TwoScis
  MaxScis = 4
  MaxSlot = 7
SPECIFICATION Spec
INVARIANT ExcludesOnlyConflicting
CHECK_DEADLOCK FALSE
