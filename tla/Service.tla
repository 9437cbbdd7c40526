------------------------------- MODULE Service -------------------------------
(***************************************************************************)
(* aoirpc/service.go with Register and findService of server.go: which     *)
(* methods of the values a program registers can be called.  What Go's     *)
(* reflection tells of a receiver is given: the name of its type, which is *)
(* exported (newService ends the program when it is not), and its exported *)
(* methods with their signatures.                                          *)
(***************************************************************************)
EXTENDS Naturals

CONSTANTS
  Receivers,  \* what Register is called with
  Targets     \* what requests name: [service, method]

\* A type has no name and no package when it is a pointer; it is hidden when
\* it has a package and a name that is not exported.
Types == {"pointer", "plain", "hidden"}

\* in counts the receiver; error: whether the first result is an error.
Signature ==
  [in : Nat, out : Nat, error : BOOLEAN, arg : Types, reply : Types]

ASSUME ServiceAssumption ==
  \A v \in Receivers : \A m \in DOMAIN v.methods : v.methods[m] \in Signature

VARIABLE serviceMap     \* Server.serviceMap: receivers, one of each name

\* registerMethods: the methods f.Call can be made with.
Suitable(s) ==
  /\ s.in = 3 /\ s.out = 1 /\ s.error
  /\ s.arg # "hidden" /\ s.reply = "pointer"

Methods(v) == {m \in DOMAIN v.methods : Suitable(v.methods[m])}

\* Fault: the last registration of a name counts.
Stored(v) == {u \in serviceMap : u.name # v.name} \cup {v}

\* serviceMap.LoadOrStore
LoadedOrStored(v) ==
  IF \E u \in serviceMap : u.name = v.name THEN serviceMap
  ELSE serviceMap \cup {v}

\* Register; a name that is taken is an error.
Register(v) == serviceMap' = LoadedOrStored(v)

\* findService finds the target t.
Found(t) ==
  \E v \in serviceMap : v.name = t.service /\ t.method \in Methods(v)
==============================================================================
