---------------------------- MODULE MCCacheGroup -----------------------------
(* Instances of CacheGroup with two keys, of one and of two bytes.         *)
EXTENDS CacheGroup

CONSTANTS k1, k2

TwoLens == [k \in {k1, k2} |-> IF k = k1 THEN 1 ELSE 2]
==============================================================================
