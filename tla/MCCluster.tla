------------------------------ MODULE MCCluster ------------------------------
(* Two nodes with two virtual nodes each, the first place of which they    *)
(* share: the node that is added last owns it.  The key is behind the last *)
(* place and goes to the first one.                                        *)
EXTENDS Cluster

CONSTANTS a, b, k1

Hashes == [n \in {a, b} |-> [i \in 0 .. 1 |-> IF n = a THEN 1 + i ELSE 1 + 2 * i]]
KeyHashes == [k \in {k1} |-> 4]
Lists == {<<a, b>>, <<b, a>>, <<>>}
==============================================================================
