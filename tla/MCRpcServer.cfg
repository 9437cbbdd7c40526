SPECIFICATION FairSpec
CONSTANTS
  c1 = c1
  c2 = c2
  r1 = r1
  r2 = r2
  m1 = m1
  m2 = m2
  Conns = {c1, c2}
  Reqs = {r1, r2}
  ConnOf <- Shared
  Receivers <- TwoTypes
  Targets <- ATargets
  Target <- OfBoth
  Limited = {c1}
  Leaving = {c1}
  NoReq = NoReq
INVARIANTS
  TypeOK
  AnsweredOnce
  ResponsesWhole
PROPERTIES
  StaysKnown
  WorkerFreed
  LimitedAnswered
  ReaderEnds
CHECK_DEADLOCK FALSE
