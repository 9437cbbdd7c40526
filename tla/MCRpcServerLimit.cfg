SPECIFICATION Spec
CONSTANTS
  c1 = c1
  c2 = c2
  r1 = r1
  r2 = r2
  m1 = m1
  m2 = m2
  Conns = {c1, c2}
  Reqs = {r1}
  ConnOf <- Single
  Receivers <- TwoTypes
  Targets <- ATargets
  Target <- OfFirst
  Limited = {c1}
  Leaving = {c1}
  NoReq = NoReq
INVARIANTS
  OwnLimit
CHECK_DEADLOCK FALSE
