SPECIFICATION FairSpec
CONSTANTS
  a = a
  b = b
  k1 = k1
  u1 = u1
  u2 = u2
  Nodes = {a, b}
  Keys = {k1}
  Replicas = 2
  NodeHash <- Hashes
  KeyHash <- KeyHashes
  Users = {u1, u2}
  Hops = 2
  Orders <- Lists
  None = None
INVARIANTS
  TypeOK
  OneLoader
PROPERTIES
  GetsEnd
CHECK_DEADLOCK FALSE
