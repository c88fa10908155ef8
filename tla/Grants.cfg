CONSTANTS
  PrioToSps = TRUE
  Channel = {1, 2}
  Destination = {1, 2}
  DstOf <- Apart
  Priority <- SpsFirst
  Rri <- SpsAndDynamic
  HarqIds = {0, 1}
  T1 = 1
  T2 = 3
  MaxTx = 2
  ReselCounters = {1, 2}
  ReselFactor = 10
  KeepProbable = TRUE
  MaxBuffer = 2
  MaxSlot = 8
SPECIFICATION Spec
INVARIANTS
  TypeOK
  HarqFollowsGrants
  HarqIdsReservedOnce
  GrantsStayOnSchedule
  NoStaleSlotUnlessKept
  HarqFreeWhenPublished
  ReservationsHoldWholeBlocks
CHECK_DEADLOCK FALSE
