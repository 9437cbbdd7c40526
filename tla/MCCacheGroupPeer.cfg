SPECIFICATION Spec
CONSTANTS
  k1 = k1
  k2 = k2
  g1 = g1
  g2 = g2
  Keys = {k1, k2}
  KeyLen <- TwoLens
  Lens = {1, 2}
  MaxBytes = 4
  Callers = {g1, g2}
  Remote = {k2}
  None = None
  Failed = Failed
INVARIANTS
  PeerAnswerDelivered
CHECK_DEADLOCK FALSE
