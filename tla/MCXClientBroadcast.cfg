SPECIFICATION Spec
CONSTANTS
  s1 = s1
  s2 = s2
  Addrs = {s1, s2}
  Callers = {}
  MaxDials = 3
  Limited = FALSE
  None = None
INVARIANTS
  AllServersRan
