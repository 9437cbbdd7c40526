SPECIFICATION FairSpec
CONSTANTS
  k1 = k1
  k2 = k2
  g1 = g1
  g2 = g2
  g3 = g3
  Keys = {k1, k2}
  KeyLen <- TwoLens
  Lens = {1, 4}
  MaxBytes = 5
  Callers = {g1, g2, g3}
  Remote = {k2}
  None = None
  Failed = Failed
INVARIANTS
  TypeOK
  SingleFlight
  NoReload
PROPERTIES
  ImplementsLruSpec
  GetReturns
CHECK_DEADLOCK FALSE
