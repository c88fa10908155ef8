SPECIFICATION FairSpec
CONSTANTS
  u1 = u1
  u2 = u2
  g = g
  UE = {u1, u2}
  Group = {g}
  Service <- Services
  Scenario <- Partners
  CodeModulus = 4
  Interval = 2
  MaxStarts <- TwoThenOne
  MaxLost = 1
INVARIANTS
  TypeOK
  OneChainPerStart
  ResponsesAreSolicited
PROPERTIES
  ServicesAreDiscovered
  RemovedServicesFallSilent
