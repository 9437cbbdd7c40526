SPECIFICATION Spec
CONSTANTS
  Addrs = {1, 2}
  Timeout = 4
  Period = 1
  Latency = 1
  TTL = 2
  MaxStarts = 2
INVARIANTS
  TypeOK
  BeatingListed
  StaleBounded
  EvenTurns
