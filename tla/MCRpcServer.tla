----------------------------- MODULE MCRpcServer -----------------------------
(* Instances of RpcServer for TLC.                                         *)
EXTENDS RpcServer, TLC

CONSTANTS c1, c2, r1, r2, m1, m2

\* All requests on one connection; the other one only brings its Option.
Shared == [r \in {r1, r2} |-> c1]

\* One request on the first connection.
Single == [r \in {r1} |-> c1]

Good == [in |-> 3, out |-> 1, error |-> TRUE, arg |-> "plain", reply |-> "pointer"]
NoPointer == [Good EXCEPT !.reply = "plain"]

\* Two types of the same name: one has both methods, one that can be called
\* only through the first.
TwoTypes ==
  {[name |-> "A", methods |-> [m \in {m1, m2} |-> Good]],
   [name |-> "A", methods |-> (m1 :> Good) @@ (m2 :> NoPointer)]}

\* The requests name one method each.
OfBoth ==
  [r \in {r1, r2} |-> [service |-> "A", method |-> IF r = r1 THEN m1 ELSE m2]]
OfFirst == [r \in {r1} |-> [service |-> "A", method |-> m1]]
ATargets == {[service |-> "A", method |-> m] : m \in {m1, m2}}
==============================================================================
