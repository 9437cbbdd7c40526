SPECIFICATION FairSpec
CONSTANTS
  s1 = s1
  s2 = s2
  g1 = g1
  Addrs = {s1, s2}
  Callers = {g1}
  MaxDials = 2
  Limited = TRUE
  None = None
INVARIANTS
  TypeOK
  NoLeak
  ReplySettled
PROPERTIES
  DialersEnd
  BroadcastReturns
