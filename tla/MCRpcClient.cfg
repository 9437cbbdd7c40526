SPECIFICATION FairSpec
CONSTANTS
  s1 = s1
  a2 = a2
  a1 = a1
  SyncCalls = {s1}
  AsyncCalls = {a1, a2}
  CtxCalls = {s1}
  DoneCap = 1
  Receiver = Receiver
  Nobody = Nobody
INVARIANTS
  TypeOK
  SignalledAtMostOnce
  ReplyToOwnRequest
  NoStrandedCall
PROPERTIES
  SettledReplyStable
  DisconnectReturnsCalls
CHECK_DEADLOCK FALSE
