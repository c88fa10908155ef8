CONSTANTS
  PrioToSps = TRUE
  Channel = {1, 2, 3}
  Destination = {1, 2}
  DstOf <- ThreeApart
  Priority <- ThreePriorities
  Rri <- SpsDynamicSps
  HarqIds = {0, 1}
  T1 = 1
  T2 = 3
  MaxTx = 2
  ReselCounters = {1}
  ReselFactor = 1
  KeepProbable = TRUE
  MaxBuffer = 1
  MaxSlot = 6
SPECIFICATION Spec
INVARIANTS
  OneTransmissionPerSlot
  OneGrantPerChannel
  SelectsSameAttributesIfNoneEmptied
CHECK_DEADLOCK FALSE
