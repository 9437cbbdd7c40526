SPECIFICATION Spec
CONSTANTS
  s1 = s1
  s2 = s2
  SyncCalls = {s1, s2}
  AsyncCalls = {}
  CtxCalls = {s1}
  DoneCap = 1
  Receiver = Receiver
  Nobody = Nobody
INVARIANTS
  AllCallsNotified
CHECK_DEADLOCK FALSE
