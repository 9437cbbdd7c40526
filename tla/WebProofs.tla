------------------------------ MODULE WebProofs ------------------------------
(***************************************************************************)
(* Whatever the handlers of a chain do, each is run once and in its order, *)
(* whatever is registered, no path of a route is lost, and where no route  *)
(* is hidden behind a wild one the closest route answers, for which the    *)
(* middlewares of its groups run: the proofs of all the safety properties  *)
(* of Web, for any routes, groups and middlewares and any nesting of Next  *)
(* and panics.                                                             *)
(***************************************************************************)
EXTENDS Web, FiniteSetTheorems, WellFoundedInduction, SequenceTheorems, TLAPS

------------------------------------------------------------------------------
(* Least and greatest elements.                                            *)

\* A set of natural numbers that is not empty has a least element.
LEMMA LeastOfNat ==
  ASSUME NEW S \in SUBSET Nat, S # {}
  PROVE  \E x \in S : \A y \in S : x <= y
<1> DEFINE T == {0 .. n : n \in S}
<1>1. T \subseteq FiniteSubsetsOf(Nat)
  <2>1. \A n \in Nat : IsFiniteSet(0 .. n) /\ 0 .. n \subseteq Nat
    BY FS_Interval
  <2> QED
    BY <2>1 DEF FiniteSubsetsOf
<1>2. T # {}
  OBVIOUS
<1>3. PICK I \in T : \A J \in T : <<J, I>> \notin StrictSubsetOrdering(Nat)
  <2> HIDE DEF T
  <2> QED
    BY <1>1, <1>2, FS_StrictSubsetOrderingWellFounded, WFMin, Zenon
<1>4. PICK x \in S : I = 0 .. x
  OBVIOUS
<1>5. ASSUME NEW y \in S, y < x PROVE FALSE
  <2>1. x \in Nat /\ y \in Nat /\ <<0 .. y, 0 .. x>> \notin StrictSubsetOrdering(Nat)
    BY <1>3, <1>4
  <2>2. 0 .. y \subseteq 0 .. x /\ x \in 0 .. x /\ x \notin 0 .. y
    BY <1>5, <2>1
  <2>3. 0 .. y # 0 .. x
    BY <2>2
  <2> QED
    BY <2>1, <2>2, <2>3 DEF StrictSubsetOrdering
<1> QED
  BY <1>5

\* Min of such a set is its least element.
LEMMA MinOfNat ==
  ASSUME NEW S \in SUBSET Nat, S # {}
  PROVE  Min(S) \in S /\ \A y \in S : Min(S) <= y
<1>1. \E x \in S : \A y \in S : x <= y
  BY LeastOfNat
<1> QED
  BY <1>1 DEF Min

\* Max of a set of positions is one of them.
LEMMA MaxOfPositions ==
  ASSUME NEW n \in Nat, NEW S \in SUBSET (1 .. n), S # {}
  PROVE  Max(S) \in S
<1> DEFINE T == {n - j : j \in S}
<1>0. \A j \in S : j \in Nat /\ n - j \in Nat
  OBVIOUS
<1>1. T \in SUBSET Nat /\ T # {}
  BY <1>0
<1>2. PICK x \in T : \A y \in T : x <= y
  <2> HIDE DEF T
  <2> QED
    BY <1>1, LeastOfNat
<1>3. PICK j \in S : x = n - j
  OBVIOUS
<1>4. \A y \in S : j >= y
  <2> TAKE y \in S
  <2>1. n - j <= n - y
    BY <1>2, <1>3
  <2>2. j \in Nat /\ y \in Nat
    BY <1>0
  <2> QED
    BY <2>1, <2>2
<1> QED
  BY <1>4 DEF Max

------------------------------------------------------------------------------
(* The middlewares of a path are a sequence of kinds.                      *)

\* What FlattenSeq's recursive function is, as far as n.
Flat(seqs, n, h) ==
  h = [i \in 1 .. n |-> IF i = 1 THEN seqs[i] ELSE h[i - 1] \o seqs[i]]

\* There is such a function ...
LEMMA FlatExists ==
  ASSUME NEW seqs, NEW n \in Nat \ {0}
  PROVE  \E h : Flat(seqs, n, h)
<1> DEFINE Bad == {k \in 1 .. n : ~ \E h : Flat(seqs, k, h)}
<1>1. SUFFICES ASSUME Bad # {} PROVE FALSE
  OBVIOUS
<1>2. PICK k \in Bad : \A j \in Bad : k <= j
  <2>1. Bad \in SUBSET Nat
    OBVIOUS
  <2> HIDE DEF Bad
  <2> QED
    BY <1>1, <2>1, LeastOfNat
<1>3. CASE k = 1
  <2> DEFINE g == [i \in 1 .. 1 |-> seqs[i]]
  <2>1. Flat(seqs, 1, g)
    BY DEF Flat
  <2> QED
    BY <1>2, <1>3, <2>1
<1>4. CASE k # 1
  <2>1. k - 1 \in 1 .. n /\ k - 1 \notin Bad
    BY <1>2, <1>4
  <2>2. PICK h : Flat(seqs, k - 1, h)
    BY <2>1
  <2> DEFINE g == [i \in 1 .. k |-> IF i = k THEN h[k - 1] \o seqs[k] ELSE h[i]]
  <2>3. \A i \in 1 .. k : g[i] = IF i = 1 THEN seqs[i] ELSE g[i - 1] \o seqs[i]
    <3> TAKE i \in 1 .. k
    <3>1. CASE i = k
      <4>1. k \in 1 .. k /\ k - 1 \in 1 .. k /\ k - 1 # k
        BY <1>4, <2>1
      <4>2. g[k - 1] = h[k - 1] /\ g[k] = h[k - 1] \o seqs[k]
        BY <4>1
      <4> QED
        BY <1>4, <3>1, <4>2
    <3>2. CASE i # k
      <4>1. i \in 1 .. k - 1 /\ g[i] = h[i] /\ (i # 1 => g[i - 1] = h[i - 1])
        BY <3>2
      <4>2. h[i] = IF i = 1 THEN seqs[i] ELSE h[i - 1] \o seqs[i]
        BY <2>2, <4>1 DEF Flat
      <4> QED
        BY <4>1, <4>2
    <3> QED
      BY <3>1, <3>2
  <2>4. Flat(seqs, k, g)
    BY <2>3 DEF Flat
  <2> QED
    BY <1>2, <2>4
<1> QED
  BY <1>3, <1>4

\* ... and its values are sequences over what the parts are over.
LEMMA FlatType ==
  ASSUME NEW T, NEW seqs \in Seq(Seq(T)), NEW h, Flat(seqs, Len(seqs), h)
  PROVE  \A i \in 1 .. Len(seqs) : h[i] \in Seq(T)
<1>1. Len(seqs) \in Nat /\ \A i \in 1 .. Len(seqs) : seqs[i] \in Seq(T)
  BY LenProperties, ElementOfSeq
<1> DEFINE Bad == {i \in 1 .. Len(seqs) : h[i] \notin Seq(T)}
<1>2. SUFFICES ASSUME Bad # {} PROVE FALSE
  OBVIOUS
<1>3. PICK k \in Bad : \A j \in Bad : k <= j
  <2>1. Bad \in SUBSET Nat
    OBVIOUS
  <2> HIDE DEF Bad
  <2> QED
    BY <1>2, <2>1, LeastOfNat
<1>4. k \in 1 .. Len(seqs) /\ h[k] \notin Seq(T)
  OBVIOUS
<1>5. h[k] = IF k = 1 THEN seqs[k] ELSE h[k - 1] \o seqs[k]
  BY <1>4 DEF Flat
<1>6. CASE k = 1
  BY <1>1, <1>4, <1>5, <1>6
<1>7. CASE k # 1
  <2>1. k - 1 \in 1 .. Len(seqs) /\ k - 1 \notin Bad
    BY <1>1, <1>3, <1>4, <1>7
  <2>2. h[k - 1] \in Seq(T)
    BY <2>1
  <2>3. h[k - 1] \o seqs[k] \in Seq(T)
    BY <1>1, <1>4, <2>2, ConcatProperties
  <2> QED
    BY <1>4, <1>5, <1>7, <2>3
<1> QED
  BY <1>6, <1>7

LEMMA FlattenType ==
  ASSUME NEW T, NEW seqs \in Seq(Seq(T))
  PROVE  FlattenSeq(seqs) \in Seq(T)
<1>1. CASE Len(seqs) = 0
  <2>1. seqs = <<>>
    BY <1>1, EmptySeq
  <2> QED
    BY <1>1, <2>1, EmptySeq DEF FlattenSeq
<1>2. CASE Len(seqs) # 0
  <2>1. Len(seqs) \in Nat \ {0}
    BY <1>2, LenProperties
  <2>2. PICK g : Flat(seqs, Len(seqs), g)
    BY <2>1, FlatExists
  <2>3. \E h : Flat(seqs, Len(seqs), h) /\ FlattenSeq(seqs) = h[Len(seqs)]
    BY <1>2, <2>2 DEF FlattenSeq, Flat
  <2> QED
    BY <2>1, <2>3, FlatType
<1> QED
  BY <1>1, <1>2

------------------------------------------------------------------------------
(* The invariant.                                                          *)

GroupType == [prefix : Seq(Segments), uses : Seq(Kinds), parent : Nat]

Frame == [pos : Nat, called : BOOLEAN]

\* Context.index is the place the chain has been run up to, or beyond its
\* end; a chain nobody broke off is over only there.
ChainInv ==
  /\ groups \in Seq(GroupType) /\ stack \in Seq(Frame)
  /\ chain \in Seq(Kinds) /\ index \in Nat
  /\ pc = "idle" => chain = <<>> /\ index = 0 /\ stack = <<>>
  /\ pc = "serving" => stack # <<>>
  /\ pc = "over" => stack = <<>>
  /\ pc = "over" /\ ~aborted => index > Len(chain)
  /\ ran = 1 .. (IF index <= Len(chain) THEN index ELSE Len(chain))
  /\ ~again

LEMMA ChainInit == Init => ChainInv
<1> SUFFICES ASSUME Init PROVE ChainInv
  OBVIOUS
<1>1. groups \in Seq(GroupType)
  <2> DEFINE r == [prefix |-> <<>>, uses |-> <<>>, parent |-> 0]
  <2>1. r \in GroupType
    BY EmptySeq DEF GroupType
  <2> HIDE DEF r
  <2>2. <<r>> \in Seq(GroupType)
    BY <2>1
  <2> QED
    BY <2>2 DEF Init, r
<1>2. stack = <<>> /\ chain = <<>> /\ Len(chain) = 0
  BY EmptySeq DEF Init
<1>3. stack \in Seq(Frame) /\ chain \in Seq(Kinds)
  BY <1>2, EmptySeq
<1>4. /\ pc = "idle" /\ index = 0 /\ ran = {} /\ ~again /\ 1 .. 0 = {}
  BY DEF Init
<1> QED
  BY <1>1, <1>2, <1>3, <1>4 DEF ChainInv

\* The loop of one of the Next goes on at the next position.
LEMMA GoesOn ==
  ASSUME ChainInv, NEW rest \in Seq(Frame), pc' # "idle",
         groups' = groups, chain' = chain, aborted' = aborted,
         GoOn(rest, index + 1, Len(chain))
  PROVE  ChainInv'
<1> DEFINE n == Len(chain)
           f == [pos |-> index + 1, called |-> FALSE]
<1>1. n \in Nat /\ index \in Nat
  BY LenProperties DEF ChainInv
<1>2. f \in Frame
  BY <1>1 DEF Frame
<1> HIDE DEF f
<1>3. Append(rest, f) \in Seq(Frame) /\ Append(rest, f) # <<>>
  BY <1>2, AppendProperties, EmptySeq
<1>4. /\ index' = index + 1 /\ index' \in Nat
      /\ stack' = IF index + 1 <= n THEN Append(rest, f) ELSE rest
      /\ ran' = IF index + 1 <= n THEN ran \cup {index + 1} ELSE ran
      /\ again' = (again \/ index + 1 \in ran)
      /\ pc' = IF stack' = <<>> THEN "over" ELSE "serving"
  BY <1>1 DEF GoOn, f
<1>5. ran' = 1 .. (IF index' <= n THEN index' ELSE n) /\ index + 1 \notin ran
  <2>1. CASE index + 1 <= n
    <3>1. ran = 1 .. index /\ ran' = (1 .. index) \cup {index + 1}
      BY <1>1, <1>4, <2>1 DEF ChainInv
    <3>2. (1 .. index) \cup {index + 1} = 1 .. index + 1
      BY <1>1
    <3>3. index + 1 \notin 1 .. index
      BY <1>1
    <3> QED
      BY <1>4, <2>1, <3>1, <3>2, <3>3
  <2>2. CASE ~(index + 1 <= n)
    <3>1. ran = 1 .. n /\ ran' = ran
      <4>1. ~(index <= n) \/ index = n
        BY <1>1, <2>2
      <4> QED
        BY <1>4, <2>2, <4>1 DEF ChainInv
    <3>2. index + 1 \notin 1 .. n
      BY <1>1, <2>2
    <3> QED
      BY <1>4, <2>2, <3>1, <3>2
  <2> QED
    BY <2>1, <2>2
<1>6. stack' \in Seq(Frame) /\ (stack' = <<>> => index' > n)
  BY <1>1, <1>3, <1>4
<1> QED
  BY <1>4, <1>5, <1>6 DEF ChainInv

\* The groups keep their type.
LEMMA SetUpKeeps ==
  ASSUME ChainInv, NEW g \in DOMAIN groups,
         \/ \E sub \in Subs : Group(g, sub)
         \/ \E kind \in Kinds : Use(g, kind)
  PROVE  groups' \in Seq(GroupType) /\ UNCHANGED chainVars
<1>1. /\ groups \in Seq(GroupType) /\ g \in Nat /\ g \in 1 .. Len(groups)
      /\ groups[g] \in GroupType
  BY LenProperties, ElementOfSeq DEF ChainInv
<1>2. ASSUME NEW sub \in Subs, Group(g, sub)
      PROVE  groups' \in Seq(GroupType) /\ UNCHANGED chainVars
  <2> DEFINE r == [prefix |-> groups[g].prefix \o sub, uses |-> <<>>, parent |-> g]
  <2>1. groups[g].prefix \o sub \in Seq(Segments)
    BY <1>1, WebAssumption, ConcatProperties DEF GroupType
  <2>2. r \in GroupType
    BY <1>1, <2>1, EmptySeq DEF GroupType
  <2>3. groups' = Append(groups, r) /\ UNCHANGED chainVars
    BY <1>2 DEF Group
  <2> HIDE DEF r
  <2> QED
    BY <1>1, <2>2, <2>3, AppendProperties
<1>3. ASSUME NEW kind \in Kinds, Use(g, kind)
      PROVE  groups' \in Seq(GroupType) /\ UNCHANGED chainVars
  <2> DEFINE r == [groups[g] EXCEPT !.uses = Append(groups[g].uses, kind)]
  <2>1. Append(groups[g].uses, kind) \in Seq(Kinds)
    BY <1>1, AppendProperties DEF GroupType
  <2>2. r \in GroupType
    BY <1>1, <2>1 DEF GroupType
  <2>3. groups' = [groups EXCEPT ![g] = r] /\ UNCHANGED chainVars
    BY <1>3 DEF Use
  <2> HIDE DEF r
  <2> QED
    BY <1>1, <2>2, <2>3, ExceptSeq
<1> QED
  BY <1>2, <1>3

\* Every step keeps the invariant.
LEMMA ChainStep == ChainInv /\ [Next]_vars => ChainInv'
<1> SUFFICES ASSUME ChainInv, [Next]_vars PROVE ChainInv'
  OBVIOUS
<1>0. /\ stack \in Seq(Frame) /\ Len(stack) \in Nat /\ DOMAIN stack = 1 .. Len(stack)
      /\ pc = "serving" => Len(stack) # 0
  BY LenProperties, EmptySeq DEF ChainInv
<1>1. ASSUME NEW g \in DOMAIN groups,
             \/ \E sub \in Subs : Group(g, sub)
             \/ \E kind \in Kinds : Use(g, kind)
      PROVE  ChainInv'
  <2>1. groups' \in Seq(GroupType) /\ UNCHANGED chainVars
    BY <1>1, SetUpKeeps
  <2> QED
    BY <2>1 DEF ChainInv, chainVars
<1>2. ASSUME NEW g \in DOMAIN groups, NEW suffix \in Patterns, Register(g, suffix)
      PROVE  ChainInv'
  <2>1. UNCHANGED <<groups, chainVars>>
    BY <1>2 DEF Register
  <2> QED
    BY <2>1 DEF ChainInv, chainVars
<1>3. ASSUME NEW path \in Paths, Serve(path) PROVE ChainInv'
  <2> DEFINE m == [g \in DOMAIN groups |->
                     IF HasPrefix(path, groups[g].prefix) THEN groups[g].uses ELSE <<>>]
             last == IF Found(PartsOf(path)) = None THEN <<>> ELSE <<"user">>
             handlers == Middlewares(path) \o last
             f == [pos |-> 1, called |-> FALSE]
  <2>1. m \in Seq(Seq(Kinds))
    <3>1. /\ Len(groups) \in Nat /\ DOMAIN groups = 1 .. Len(groups)
          /\ \A g \in 1 .. Len(groups) : groups[g] \in GroupType
      BY LenProperties, ElementOfSeq DEF ChainInv
    <3>2. m \in [1 .. Len(groups) -> Seq(Kinds)]
      BY <3>1, EmptySeq DEF GroupType
    <3> HIDE DEF m
    <3> QED
      BY <3>1, <3>2, IsASeq
  <2>2. Middlewares(path) \in Seq(Kinds)
    <3>1. Middlewares(path) = FlattenSeq(m)
      BY DEF Middlewares
    <3> HIDE DEF m
    <3> QED
      BY <2>1, <3>1, FlattenType
  <2>3. last \in Seq(Kinds)
    <3>1. <<>> \in Seq(Kinds) /\ "user" \in Kinds
      BY EmptySeq DEF Kinds
    <3>2. <<"user">> \in Seq(Kinds)
      BY <3>1
    <3> QED
      BY <3>1, <3>2
  <2> HIDE DEF last
  <2>4. handlers \in Seq(Kinds) /\ Len(handlers) \in Nat
    BY <2>2, <2>3, ConcatProperties, LenProperties
  <2>5. /\ pc = "idle" /\ chain' = handlers /\ groups' = groups
        /\ GoOn(<<>>, 1, Len(handlers))
    BY <1>3 DEF Serve, last
  <2>6. index = 0 /\ ran = {} /\ ~again
    <3>1. index = 0 /\ Len(chain) = 0
      BY <2>5, EmptySeq DEF ChainInv
    <3> QED
      BY <3>1 DEF ChainInv
  <2> HIDE DEF handlers
  <2>7. f \in Frame
    BY DEF Frame
  <2> HIDE DEF f
  <2>8. <<>> \in Seq(Frame) /\ Append(<<>>, f) \in Seq(Frame) /\ Append(<<>>, f) # <<>>
    BY <2>7, EmptySeq, AppendProperties
  <2>9. /\ index' = 1
        /\ stack' = IF 1 <= Len(handlers) THEN Append(<<>>, f) ELSE <<>>
        /\ ran' = IF 1 <= Len(handlers) THEN {1} ELSE {}
        /\ ~again'
        /\ pc' = IF stack' = <<>> THEN "over" ELSE "serving"
    BY <2>5, <2>6 DEF GoOn, f
  <2>10. ran' = 1 .. (IF index' <= Len(chain') THEN index' ELSE Len(chain'))
    <3>1. 1 .. 1 = {1} /\ 1 .. 0 = {}
      OBVIOUS
    <3>2. Len(handlers) = 0 \/ 1 <= Len(handlers)
      BY <2>4
    <3> QED
      BY <2>4, <2>5, <2>9, <3>1, <3>2
  <2>11. stack' \in Seq(Frame) /\ (stack' = <<>> => index' > Len(chain'))
    BY <2>4, <2>5, <2>8, <2>9
  <2> QED
    BY <2>4, <2>5, <2>9, <2>10, <2>11 DEF ChainInv
<1>4. ASSUME CallNext PROVE ChainInv'
  <2> DEFINE top == Len(stack)
             rest == [stack EXCEPT ![top].called = TRUE]
  <2>1. top \in 1 .. Len(stack) /\ stack[top] \in Frame
    BY <1>0, <1>4, ElementOfSeq DEF CallNext
  <2>2. rest \in Seq(Frame)
    <3> DEFINE r == [stack[top] EXCEPT !.called = TRUE]
    <3>1. r \in Frame /\ rest = [stack EXCEPT ![top] = r]
      BY <2>1 DEF Frame
    <3> HIDE DEF r
    <3> QED
      BY <1>0, <2>1, <3>1, ExceptSeq
  <2>3. GoOn(rest, index + 1, Len(chain)) /\ UNCHANGED <<groups, chain, aborted>>
    BY <1>4 DEF CallNext
  <2>4. pc' # "idle"
    BY <2>3 DEF GoOn
  <2> HIDE DEF rest
  <2> QED
    BY <2>2, <2>3, <2>4, GoesOn
<1>5. ASSUME HandlerReturns PROVE ChainInv'
  <2>1. Front(stack) \in Seq(Frame)
    BY <1>0, <1>5, SubSeqProperties DEF HandlerReturns, Front
  <2>2. /\ GoOn(Front(stack), index + 1, Len(chain))
        /\ UNCHANGED <<groups, chain, aborted>>
    BY <1>5 DEF HandlerReturns, NextIndex
  <2>3. pc' # "idle"
    BY <2>2 DEF GoOn
  <2> QED
    BY <2>1, <2>2, <2>3, GoesOn
<1>6. ASSUME PanicRecovered PROVE ChainInv'
  <2> DEFINE at == {i \in 1 .. Len(stack) - 1 : Kind(i) = "recovery"}
             rest == SubSeq(stack, 1, Max(at) - 1)
  <2>1. at \in SUBSET (1 .. Len(stack)) /\ at # {}
    BY <1>0, <1>6 DEF PanicRecovered
  <2>2. GoOn(rest, index + 1, Len(chain)) /\ UNCHANGED <<groups, chain, aborted>>
    BY <1>6 DEF PanicRecovered, IndexAfterPanic
  <2> HIDE DEF at
  <2>3. Max(at) \in 1 .. Len(stack)
    BY <1>0, <2>1, MaxOfPositions
  <2>4. rest \in Seq(Frame)
    BY <1>0, <2>3, SubSeqProperties
  <2>5. pc' # "idle"
    BY <2>2 DEF GoOn
  <2> HIDE DEF rest
  <2> QED
    BY <2>2, <2>4, <2>5, GoesOn
<1>7. ASSUME PanicAborts PROVE ChainInv'
  <2>1. /\ stack' = <<>> /\ pc' = "over" /\ aborted'
        /\ UNCHANGED <<groups, chain, index, ran, again>>
    BY <1>7 DEF PanicAborts
  <2>2. stack' \in Seq(Frame)
    BY <2>1, EmptySeq
  <2> QED
    BY <2>1, <2>2 DEF ChainInv
<1>8. ASSUME Finish PROVE ChainInv'
  <2>1. /\ pc' = "idle" /\ chain' = <<>> /\ index' = 0 /\ ran' = {} /\ ~again'
        /\ groups' = groups /\ stack' = stack /\ pc = "over"
    BY <1>8 DEF Finish
  <2>2. chain' \in Seq(Kinds) /\ Len(chain') = 0
    BY <2>1, EmptySeq
  <2>3. stack' = <<>> /\ stack' \in Seq(Frame) /\ groups' \in Seq(GroupType)
    BY <2>1 DEF ChainInv
  <2> QED
    BY <2>1, <2>2, <2>3 DEF ChainInv
<1>9. ASSUME UNCHANGED vars PROVE ChainInv'
  BY <1>9 DEF ChainInv, vars, chainVars
<1> QED
  BY <1>1, <1>2, <1>3, <1>4, <1>5, <1>6, <1>7, <1>8, <1>9 DEF Next, Step

THEOREM ChainInvariance == Spec => []ChainInv
  BY ChainInit, ChainStep, PTL DEF Spec

\* Whatever routes there are, however many middlewares, and whichever handlers
\* call Next, return or panic: the handlers of a request are run in their
\* order, none twice and, unless a panic leaves the chain, none left out
\* (context.go:102-108, recover.go:12-22).
THEOREM ChainsComplete == Spec => []ChainComplete
<1>1. ChainInv => ChainComplete
  <2> SUFFICES ASSUME ChainInv PROVE ChainComplete
    OBVIOUS
  <2>1. Len(chain) \in Nat /\ DOMAIN chain = 1 .. Len(chain) /\ index \in Nat
    BY LenProperties DEF ChainInv
  <2>2. \A k \in Nat : Cardinality(1 .. k) = k
    <3> TAKE k \in Nat
    <3>1. CASE k = 0
      BY <3>1, FS_EmptySet
    <3>2. CASE k # 0
      BY <3>2, FS_Interval
    <3> QED
      BY <3>1, <3>2
  <2>3. PICK k \in Nat : ran = 1 .. k /\ (index > Len(chain) => k = Len(chain))
    <3>1. CASE index <= Len(chain)
      <4>1. ran = 1 .. index /\ ~(index > Len(chain))
        BY <2>1, <3>1 DEF ChainInv
      <4> QED
        BY <2>1, <4>1
    <3>2. CASE ~(index <= Len(chain))
      BY <2>1, <3>2 DEF ChainInv
    <3> QED
      BY <3>1, <3>2
  <2>4. ran = 1 .. Cardinality(ran)
    BY <2>2, <2>3
  <2> QED
    BY <2>1, <2>3, <2>4 DEF ChainInv, ChainComplete
<1> QED
  BY ChainInvariance, <1>1, PTL

------------------------------------------------------------------------------
(* The trie.                                                               *)

\* Induction, for a set instead of a predicate.
LEMMA SetInduction ==
  ASSUME NEW S \in SUBSET Nat, 0 \in S, \A n \in S : n + 1 \in S
  PROVE  S = Nat
<1> SUFFICES ASSUME Nat \ S # {} PROVE FALSE
  OBVIOUS
<1>1. PICK x \in Nat \ S : \A y \in Nat \ S : x <= y
  <2>1. Nat \ S \in SUBSET Nat
    OBVIOUS
  <2> QED
    BY <2>1, LeastOfNat
<1>2. x - 1 \in Nat /\ (x - 1) + 1 = x /\ ~(x <= x - 1)
  OBVIOUS
<1>3. x - 1 \in S
  BY <1>1, <1>2
<1> QED
  BY <1>2, <1>3

\* The nodes are closed under their parents, the children of a node are listed
\* there, and none is deeper than some bound.
TrieInv ==
  /\ DOMAIN kids \subseteq Seq(Parts) /\ DOMAIN leaf = DOMAIN kids
  /\ <<>> \in DOMAIN kids
  /\ \A n \in DOMAIN kids : kids[n] \in Seq(Parts)
  /\ \A n \in Seq(Parts), x \in Parts :
       Append(n, x) \in DOMAIN kids => n \in DOMAIN kids
  /\ \A n \in DOMAIN kids, x \in Parts :
       Append(n, x) \in DOMAIN kids <=> Contains(kids[n], x)
  /\ \E d \in Nat : \A n \in DOMAIN kids : Len(n) <= d

\* The node n stands for the pattern p, with a wild part for some of its parts.
StandsFor(n, p) ==
  /\ Len(n) = Len(p) /\ \A i \in 1 .. Len(p) : n[i] = p[i] \/ Wild(n[i])

\* A node behind a '*' is a leaf, and every pattern has one that stands for it.
LeafInv ==
  /\ \A n \in Seq(Parts), x \in Stars :
       Append(n, x) \in DOMAIN kids => leaf[Append(n, x)] # None
  /\ DOMAIN owner \subseteq Seq(Parts)
  /\ \A p \in DOMAIN owner :
       \E n \in DOMAIN kids : leaf[n] # None /\ StandsFor(n, p)

\* The recursive function of Reached, as far as m.
Ats(p, m, at) ==
  at = [i \in 0 .. m |-> IF i = 0 THEN <<>>
                         ELSE Append(at[i - 1], MatchChild(at[i - 1], p[i]))]

LEMMA AtsExist ==
  ASSUME NEW p, NEW m \in Nat PROVE \E at : Ats(p, m, at)
<1> DEFINE S == {k \in Nat : \E at : Ats(p, k, at)}
<1>1. 0 \in S
  <2> DEFINE at == [i \in 0 .. 0 |-> <<>>]
  <2>1. Ats(p, 0, at)
    BY DEF Ats
  <2> HIDE DEF at
  <2> QED
    BY <2>1
<1>2. ASSUME NEW k \in S PROVE k + 1 \in S
  <2>1. k \in Nat
    OBVIOUS
  <2>2. PICK f : Ats(p, k, f)
    OBVIOUS
  <2> DEFINE x == Append(f[k], MatchChild(f[k], p[k + 1]))
             g == [i \in 0 .. k + 1 |-> IF i = k + 1 THEN x ELSE f[i]]
  <2>3. ASSUME NEW i \in 0 .. k + 1
        PROVE  g[i] = IF i = 0 THEN <<>>
                      ELSE Append(g[i - 1], MatchChild(g[i - 1], p[i]))
    <3>1. CASE i = k + 1
      <4>1. g[i - 1] = f[k] /\ g[i] = x /\ i # 0
        BY <2>1, <3>1
      <4> QED
        BY <3>1, <4>1
    <3>2. CASE i # k + 1 /\ i # 0
      <4>1. i \in 0 .. k /\ i - 1 \in 0 .. k /\ i - 1 # k + 1 /\ i - 1 \in 0 .. k + 1
        BY <2>1, <3>2
      <4>2. f[i] = Append(f[i - 1], MatchChild(f[i - 1], p[i]))
        BY <2>2, <3>2, <4>1 DEF Ats
      <4>3. g[i] = f[i] /\ g[i - 1] = f[i - 1]
        BY <3>2, <4>1
      <4> HIDE DEF g
      <4> QED
        BY <3>2, <4>2, <4>3
    <3>3. CASE i = 0
      <4>1. f[0] = <<>>
        BY <2>1, <2>2 DEF Ats
      <4> QED
        BY <2>1, <3>3, <4>1
    <3> QED
      BY <3>1, <3>2, <3>3
  <2>4. Ats(p, k + 1, g)
    <3>1. g = [i \in 0 .. k + 1 |-> g[i]]
      OBVIOUS
    <3> HIDE DEF g
    <3> QED
      BY <2>3, <3>1 DEF Ats
  <2> HIDE DEF g
  <2> QED
    BY <2>1, <2>4
<1>3. S \in SUBSET Nat
  OBVIOUS
<1> HIDE DEF S
<1>4. S = Nat
  BY <1>1, <1>2, <1>3, SetInduction
<1> QED
  BY <1>4 DEF S

\* The child that insert goes on with.
LEMMA ChildFacts ==
  ASSUME TrieInv, NEW n \in Seq(Parts), NEW part \in Parts
  PROVE  LET c == MatchChild(n, part)
         IN  /\ c \in Parts /\ (c = part \/ Wild(c))
             /\ c = part \/ Append(n, c) \in DOMAIN kids
<1> DEFINE m == {i \in DOMAIN Kids(n) : Match(Kids(n)[i], part)}
<1>1. CASE m = {}
  BY <1>1 DEF MatchChild
<1>2. CASE m # {}
  <2>1. n \in DOMAIN kids /\ Kids(n) = kids[n]
    <3>1. SUFFICES ASSUME n \notin DOMAIN kids PROVE FALSE
      BY DEF Kids
    <3>2. Kids(n) = <<>> /\ DOMAIN <<>> = {}
      BY <3>1 DEF Kids
    <3> QED
      BY <1>2, <3>2
  <2>2. /\ kids[n] \in Seq(Parts) /\ Len(kids[n]) \in Nat
        /\ DOMAIN kids[n] = 1 .. Len(kids[n])
    BY <2>1, LenProperties DEF TrieInv
  <2>3. Min(m) \in m
    <3>1. m \in SUBSET Nat
      BY <2>1, <2>2
    <3> HIDE DEF m
    <3>2. \E x \in m : \A y \in m : x <= y
      BY <1>2, <3>1, LeastOfNat
    <3> QED
      BY <3>2 DEF Min
  <2>4. Min(m) \in 1 .. Len(kids[n]) /\ Match(kids[n][Min(m)], part)
    BY <2>1, <2>2, <2>3
  <2>5. MatchChild(n, part) = kids[n][Min(m)]
    BY <1>2, <2>1 DEF MatchChild
  <2> HIDE DEF m
  <2>6. MatchChild(n, part) \in Parts
    BY <2>2, <2>4, <2>5, ElementOfSeq
  <2>7. Contains(kids[n], MatchChild(n, part))
    BY <2>4, <2>5 DEF Contains
  <2> QED
    BY <2>1, <2>4, <2>5, <2>6, <2>7 DEF TrieInv, Match
<1> QED
  BY <1>1, <1>2

\* The nodes on the way of insert.
Way(p, at) ==
  /\ at \in [0 .. Len(p) -> Seq(Parts)] /\ at[0] = <<>> /\ at[Len(p)] = Place(p)
  /\ \A i \in 0 .. Len(p) : Len(at[i]) = i
  /\ \A i \in 1 .. Len(p) :
       /\ Place(p)[i] = MatchChild(at[i - 1], p[i]) /\ Place(p)[i] \in Parts
       /\ at[i] = Append(at[i - 1], Place(p)[i])

LEMMA WayFacts ==
  ASSUME TrieInv, NEW p \in Seq(Parts)
  PROVE  /\ Place(p) \in Seq(Parts) /\ Len(Place(p)) = Len(p)
         /\ \E at : /\ Way(p, at)
                    /\ \A i \in 0 .. Len(p) : SubSeq(Place(p), 1, i) = at[i]
<1> DEFINE L == Len(p)
<1>1. L \in Nat /\ \A i \in 1 .. L : p[i] \in Parts
  BY LenProperties, ElementOfSeq
<1> HIDE DEF L
<1>2. PICK g : Ats(p, L, g)
  BY <1>1, AtsExist
<1>3. PICK at : Ats(p, L, at) /\ Place(p) = at[L]
  BY <1>2 DEF Place, Reached, Ats, L
<1>4. /\ at[0] = <<>> /\ DOMAIN at = 0 .. L
      /\ \A i \in 1 .. L : at[i] = Append(at[i - 1], MatchChild(at[i - 1], p[i]))
  <2>1. 0 \in 0 .. L /\ \A i \in 1 .. L : i \in 0 .. L /\ i # 0
    BY <1>1
  <2>2. DOMAIN at = 0 .. L
    BY <1>3 DEF Ats
  <2>3. \A i \in 0 .. L : at[i] = IF i = 0 THEN <<>>
                                ELSE Append(at[i - 1], MatchChild(at[i - 1], p[i]))
    BY <1>3 DEF Ats
  <2> QED
    BY <2>1, <2>2, <2>3
<1> DEFINE c(i) == MatchChild(at[i - 1], p[i])
           Good(i) == /\ at[i] \in Seq(Parts) /\ Len(at[i]) = i
                      /\ \A j \in 1 .. i : at[i][j] = c(j) /\ c(j) \in Parts
           S == {i \in Nat : i <= L => Good(i)}
<1>5. 0 \in S
  <2>1. Good(0)
    BY <1>4, EmptySeq
  <2> QED
    BY <2>1
<1>6. ASSUME NEW i \in S PROVE i + 1 \in S
  <2>0. i \in Nat /\ (i <= L => Good(i))
    OBVIOUS
  <2> SUFFICES ASSUME i + 1 <= L PROVE Good(i + 1)
    BY <2>0
  <2>1. Good(i) /\ i + 1 \in 1 .. L /\ (i + 1) - 1 = i
    BY <1>1, <2>0
  <2>2. at[i + 1] = Append(at[i], c(i + 1))
    BY <1>4, <2>1
  <2>3. c(i + 1) \in Parts
    <3>1. c(i + 1) = MatchChild(at[i], p[i + 1]) /\ p[i + 1] \in Parts
      BY <1>1, <2>1
    <3> QED
      BY <2>1, <3>1, ChildFacts
  <2> HIDE DEF c
  <2>4. /\ at[i + 1] \in Seq(Parts) /\ Len(at[i + 1]) = i + 1
        /\ \A j \in 1 .. i : at[i + 1][j] = at[i][j]
        /\ at[i + 1][i + 1] = c(i + 1)
    BY <2>1, <2>2, <2>3, AppendProperties
  <2>5. ASSUME NEW j \in 1 .. i + 1 PROVE at[i + 1][j] = c(j) /\ c(j) \in Parts
    <3>1. CASE j = i + 1
      BY <2>3, <2>4, <3>1
    <3>2. CASE j # i + 1
      <4>1. j \in 1 .. i
        BY <2>0, <3>2
      <4> QED
        BY <2>1, <2>4, <4>1
    <3> QED
      BY <3>1, <3>2
  <2> QED
    BY <2>4, <2>5
<1>7. S \in SUBSET Nat
  OBVIOUS
<1>8. S = Nat
  <2> HIDE DEF S
  <2> QED
    BY <1>5, <1>6, <1>7, SetInduction
<1>9. \A i \in 0 .. L : Good(i)
  <2> TAKE i \in 0 .. L
  <2>1. i \in S /\ i <= L
    BY <1>1, <1>8
  <2> HIDE DEF Good
  <2> QED
    BY <2>1
<1> HIDE DEF S
<1>10. at \in [0 .. L -> Seq(Parts)]
  <2>1. \A i \in 0 .. L : at[i] \in Seq(Parts)
    BY <1>9
  <2>2. at = [i \in 0 .. L |-> at[i]]
    BY <1>3 DEF Ats
  <2> QED
    BY <2>1, <2>2
<1>11. Good(L)
  BY <1>1, <1>9
<1>12. ASSUME NEW i \in 1 .. L
       PROVE  /\ Place(p)[i] = MatchChild(at[i - 1], p[i]) /\ Place(p)[i] \in Parts
              /\ at[i] = Append(at[i - 1], Place(p)[i])
  BY <1>3, <1>4, <1>11
<1>13. ASSUME NEW i \in 0 .. L PROVE SubSeq(Place(p), 1, i) = at[i]
  <2>1. Good(i) /\ i \in Nat /\ i <= L
    BY <1>1, <1>9
  <2> DEFINE t == SubSeq(Place(p), 1, i)
  <2>2. \A j \in 1 .. i : j \in 1 .. L /\ Place(p)[j] \in Parts
    BY <1>1, <1>12, <2>1
  <2>3. /\ t \in Seq(Parts) /\ Len(t) = i
        /\ \A j \in 1 .. i : t[j] = Place(p)[j]
    <3>1. i \in Int /\ 1 \in Int /\ (1 <= i => i - 1 + 1 = i) /\ (~(1 <= i) => i = 0)
      BY <2>1
    <3>2. /\ t \in Seq(Parts) /\ Len(t) = IF 1 <= i THEN i - 1 + 1 ELSE 0
          /\ \A j \in 1 .. i - 1 + 1 : t[j] = Place(p)[1 + j - 1]
      BY <2>2, <3>1, SubSeqProperties
    <3>3. \A j \in 1 .. i : j \in 1 .. i - 1 + 1 /\ 1 + j - 1 = j
      BY <3>1
    <3> HIDE DEF t
    <3> QED
      BY <3>1, <3>2, <3>3
  <2> HIDE DEF t
  <2>4. \A j \in 1 .. i : t[j] = at[i][j]
    BY <1>3, <1>11, <2>1, <2>2, <2>3
  <2>5. t = at[i]
    BY <2>1, <2>3, <2>4, SeqEqual
  <2> QED
    BY <2>5 DEF t
<1>14. \A i \in 0 .. L : Len(at[i]) = i
  BY <1>9
<1>15. Way(p, at)
  BY <1>3, <1>4, <1>10, <1>12, <1>14 DEF Way, L
<1>16. Place(p) \in Seq(Parts) /\ Len(Place(p)) = L
  BY <1>3, <1>11
<1> QED
  BY <1>13, <1>15, <1>16 DEF L

\* The nodes there are after a pattern was added, and what is new of them.
WayEnd(p, at) ==
  /\ Prefixes(Place(p)) = {at[i] : i \in 0 .. Len(p)}
  /\ \A n \in Seq(Parts) : IsStrictPrefix(n, Place(p)) <=>
       \E i \in 1 .. Len(p) : n = at[i - 1]
  /\ \A n \in Seq(Parts), x \in Parts :
       (\E i \in 0 .. Len(p) : Append(n, x) = at[i]) <=>
         \E i \in 1 .. Len(p) : n = at[i - 1] /\ x = Place(p)[i]

LEMMA WayEnds ==
  ASSUME NEW p \in Seq(Parts), NEW at, Way(p, at),
         \A i \in 0 .. Len(p) : SubSeq(Place(p), 1, i) = at[i],
         Place(p) \in Seq(Parts), Len(Place(p)) = Len(p)
  PROVE  WayEnd(p, at)
<1> DEFINE L == Len(p)
           q == Place(p)
<1>1. L \in Nat
  BY LenProperties
<1>2. Prefixes(q) = {at[i] : i \in 0 .. L}
  BY DEF Prefixes
<1>3. ASSUME NEW n \in Seq(Parts)
      PROVE  IsStrictPrefix(n, q) <=> \E i \in 1 .. L : n = at[i - 1]
  <2>1. Len(n) \in Nat /\ SubSeq(n, 1, Len(n)) = n
    BY LenProperties, SubSeqFull
  <2>2. ASSUME IsStrictPrefix(n, q) PROVE \E i \in 1 .. L : n = at[i - 1]
    <3>1. Len(n) <= L /\ n = SubSeq(q, 1, Len(n)) /\ n # q
      BY <2>1, <2>2 DEF IsStrictPrefix, IsPrefix
    <3>2. Len(n) \in 0 .. L /\ n = at[Len(n)]
      <4>1. Len(n) \in 0 .. L
        BY <1>1, <2>1, <3>1
      <4>2. SubSeq(q, 1, Len(n)) = at[Len(n)]
        BY <4>1
      <4> QED
        BY <3>1, <4>1, <4>2
    <3>3. Len(n) # L
      BY <3>1, <3>2 DEF Way
    <3>4. Len(n) + 1 \in 1 .. L /\ (Len(n) + 1) - 1 = Len(n)
      BY <1>1, <2>1, <3>2, <3>3
    <3> QED
      BY <3>2, <3>4
  <2>3. ASSUME NEW i \in 1 .. L, n = at[i - 1] PROVE IsStrictPrefix(n, q)
    <3>1. i - 1 \in 0 .. L /\ i - 1 <= L /\ i - 1 # L
      BY <1>1
    <3>2. Len(n) = i - 1 /\ SubSeq(q, 1, i - 1) = n
      BY <2>3, <3>1 DEF Way
    <3> QED
      BY <2>1, <3>1, <3>2 DEF IsStrictPrefix, IsPrefix
  <2> QED
    BY <2>2, <2>3
<1>4. ASSUME NEW n \in Seq(Parts), NEW x \in Parts
      PROVE  (\E i \in 0 .. L : Append(n, x) = at[i]) <=>
               \E i \in 1 .. L : n = at[i - 1] /\ x = q[i]
  <2>0. \A i \in 1 .. L : /\ i - 1 \in 0 .. L /\ i \in 0 .. L
    BY <1>1
  <2>1. ASSUME NEW i \in 0 .. L, Append(n, x) = at[i]
        PROVE  \E j \in 1 .. L : n = at[j - 1] /\ x = q[j]
    <3>1. i # 0
      BY <2>1, AppendProperties DEF Way
    <3>2. i \in 1 .. L
      BY <1>1, <3>1
    <3>3. at[i] = Append(at[i - 1], q[i]) /\ at[i - 1] \in Seq(Parts) /\ q[i] \in Parts
      BY <2>0, <3>2 DEF Way
    <3>4. n = at[i - 1] /\ x = q[i]
      BY <2>1, <3>3, AppendInjective
    <3> QED
      BY <3>2, <3>4
  <2>2. ASSUME NEW i \in 1 .. L, n = at[i - 1], x = q[i]
        PROVE  \E j \in 0 .. L : Append(n, x) = at[j]
    BY <2>0, <2>2 DEF Way
  <2> QED
    BY <2>1, <2>2
<1> QED
  BY <1>2, <1>3, <1>4 DEF WayEnd

LEMMA ContainsAppend ==
  ASSUME NEW l \in Seq(Parts), NEW e \in Parts, NEW x
  PROVE  Contains(Append(l, e), x) <=> Contains(l, x) \/ x = e
<1> DEFINE r == Append(l, e)
<1>1. /\ Len(l) \in Nat /\ Len(r) = Len(l) + 1 /\ r[Len(l) + 1] = e
      /\ \A i \in 1 .. Len(l) : r[i] = l[i]
  BY LenProperties, AppendProperties
<1> HIDE DEF r
<1>2. ASSUME NEW i \in 1 .. Len(r), r[i] = x PROVE Contains(l, x) \/ x = e
  <2>1. CASE i = Len(l) + 1
    BY <1>1, <1>2, <2>1
  <2>2. CASE i # Len(l) + 1
    <3>1. i \in 1 .. Len(l)
      BY <1>1, <2>2
    <3> QED
      BY <1>1, <1>2, <3>1 DEF Contains
  <2> QED
    BY <2>1, <2>2
<1>3. ASSUME NEW i \in 1 .. Len(l), l[i] = x PROVE Contains(r, x)
  <2>1. i \in 1 .. Len(r) /\ r[i] = x
    BY <1>1, <1>3
  <2> QED
    BY <2>1 DEF Contains
<1>4. Contains(r, e)
  <2>1. Len(l) + 1 \in 1 .. Len(r)
    BY <1>1
  <2> QED
    BY <1>1, <2>1 DEF Contains
<1> QED
  BY <1>2, <1>3, <1>4 DEF Contains, r

\* addRoute keeps the shape of the trie, and every pattern its node.
LEMMA AddKeeps ==
  ASSUME TrieInv, LeafInv, NEW p \in Seq(Parts), NEW who, AddRoute(p, who),
         \A i \in 1 .. Len(p) - 1 : p[i] \notin Stars
  PROVE  TrieInv' /\ LeafInv'
<1> DEFINE L == Len(p)
           q == Place(p)
           D == DOMAIN kids
<1>1. L \in Nat /\ \A i \in 1 .. L : p[i] \in Parts
  BY LenProperties, ElementOfSeq
<1>2. /\ q \in Seq(Parts) /\ Len(q) = L
      /\ \E at : Way(p, at) /\ \A i \in 0 .. L : SubSeq(q, 1, i) = at[i]
  BY WayFacts
<1>3. PICK at : Way(p, at) /\ \A i \in 0 .. L : SubSeq(q, 1, i) = at[i]
  BY <1>2
<1> DEFINE New == {at[i] : i \in 0 .. L}
           OnWay(n) == IsStrictPrefix(n, q)
           After(n) == q[Len(n) + 1]
<1>4. /\ Prefixes(q) = New
      /\ \A n \in Seq(Parts) : OnWay(n) <=> \E i \in 1 .. L : n = at[i - 1]
      /\ \A n \in Seq(Parts), x \in Parts :
           Append(n, x) \in New <=> \E i \in 1 .. L : n = at[i - 1] /\ x = q[i]
  <2>1. \A n \in Seq(Parts), x \in Parts :
          Append(n, x) \in New <=> \E i \in 0 .. L : Append(n, x) = at[i]
    OBVIOUS
  <2>2. /\ Prefixes(q) = {at[i] : i \in 0 .. L}
        /\ \A n \in Seq(Parts) : IsStrictPrefix(n, q) <=>
             \E i \in 1 .. L : n = at[i - 1]
        /\ \A n \in Seq(Parts), x \in Parts :
             (\E i \in 0 .. L : Append(n, x) = at[i]) <=>
               \E i \in 1 .. L : n = at[i - 1] /\ x = q[i]
    <3>1. WayEnd(p, at)
      BY <1>2, <1>3, WayEnds
    <3> QED
      BY <3>1 DEF WayEnd
  <2> HIDE DEF L, q
  <2>3. /\ Prefixes(q) = New
        /\ \A n \in Seq(Parts) : OnWay(n) <=> \E i \in 1 .. L : n = at[i - 1]
    BY <2>2
  <2> HIDE DEF New
  <2>4. \A n \in Seq(Parts), x \in Parts :
          Append(n, x) \in New <=> \E i \in 1 .. L : n = at[i - 1] /\ x = q[i]
    BY <2>1, <2>2
  <2> QED
    BY <2>3, <2>4
<1>5. /\ kids' = [n \in D \cup New |->
                    IF OnWay(n) /\ ~Contains(Kids(n), After(n))
                    THEN Append(Kids(n), After(n)) ELSE Kids(n)]
      /\ leaf' = [n \in D \cup New |->
                    IF n = q THEN p ELSE IF n \in D THEN leaf[n] ELSE None]
      /\ DOMAIN owner' = DOMAIN owner \cup {p}
  BY <1>4 DEF AddRoute, NewKid, TrieInv
<1>6. /\ at \in [0 .. L -> Seq(Parts)] /\ at[0] = <<>> /\ at[L] = q
      /\ \A i \in 0 .. L : Len(at[i]) = i
      /\ \A i \in 1 .. L :
           /\ q[i] = MatchChild(at[i - 1], p[i]) /\ q[i] \in Parts
           /\ at[i] = Append(at[i - 1], q[i])
  BY <1>3 DEF Way
<1>7. /\ D \subseteq Seq(Parts) /\ DOMAIN leaf = D /\ <<>> \in D
      /\ \A n \in D : kids[n] \in Seq(Parts)
      /\ \A n \in Seq(Parts), x \in Parts : Append(n, x) \in D => n \in D
      /\ \A n \in D, x \in Parts : Append(n, x) \in D <=> Contains(kids[n], x)
  BY DEF TrieInv
<1>8. \A i \in 1 .. L : i - 1 \in 0 .. L /\ i \in 0 .. L /\ (i - 1) + 1 = i
  BY <1>1
<1> HIDE DEF L, q, D, OnWay, After, New
<1>9. \A n \in New : n \in Seq(Parts)
  BY <1>6 DEF New
<1>10. ASSUME NEW n \in Seq(Parts)
       PROVE  /\ Kids(n) \in Seq(Parts)
              /\ \A x \in Parts : Append(n, x) \in D <=> Contains(Kids(n), x)
  <2>1. CASE n \in D
    BY <1>7, <2>1 DEF Kids, D
  <2>2. CASE n \notin D
    <3>1. Kids(n) = <<>>
      BY <2>2 DEF Kids, D
    <3>2. ~ \E i \in 1 .. 0 : TRUE
      OBVIOUS
    <3>3. <<>> \in Seq(Parts) /\ Len(<<>>) = 0
      BY EmptySeq
    <3>4. \A x : ~Contains(<<>>, x)
      BY <3>2, <3>3 DEF Contains
    <3> QED
      BY <1>7, <2>2, <3>1, <3>3, <3>4
  <2> QED
    BY <2>1, <2>2
<1>11. ASSUME NEW n \in D \cup New
       PROVE  /\ kids'[n] \in Seq(Parts)
              /\ \A x \in Parts : Contains(kids'[n], x) <=>
                   Append(n, x) \in D \/ Append(n, x) \in New
  <2>1. n \in Seq(Parts)
    BY <1>7, <1>9
  <2>2. CASE OnWay(n)
    <3>1. PICK i \in 1 .. L : n = at[i - 1]
      BY <1>4, <2>1, <2>2
    <3>2. After(n) = q[i] /\ q[i] \in Parts
      BY <1>6, <1>8, <3>1 DEF After
    <3>3. \A x \in Parts : Append(n, x) \in New <=> x = q[i]
      <4>1. ASSUME NEW j \in 1 .. L, n = at[j - 1] PROVE j = i
        <5>1. Len(at[j - 1]) = j - 1 /\ Len(at[i - 1]) = i - 1
          BY <1>6, <1>8
        <5>2. j - 1 = i - 1
          BY <3>1, <4>1, <5>1
        <5> QED
          BY <1>1, <5>2
      <4> QED
        BY <1>4, <2>1, <3>1, <4>1
    <3>4. CASE Contains(Kids(n), q[i])
      <4>1. kids'[n] = Kids(n)
        BY <1>5, <3>2, <3>4
      <4> QED
        BY <1>10, <2>1, <3>3, <3>4, <4>1
    <3>5. CASE ~Contains(Kids(n), q[i])
      <4>1. kids'[n] = Append(Kids(n), q[i])
        BY <1>5, <2>2, <3>2, <3>5
      <4>2. /\ Append(Kids(n), q[i]) \in Seq(Parts)
            /\ \A x : Contains(Append(Kids(n), q[i]), x) <=>
                        Contains(Kids(n), x) \/ x = q[i]
        BY <1>10, <2>1, <3>2, AppendProperties, ContainsAppend
      <4> QED
        BY <1>10, <2>1, <3>3, <4>1, <4>2
    <3> QED
      BY <3>4, <3>5
  <2>3. CASE ~OnWay(n)
    <3>1. kids'[n] = Kids(n)
      BY <1>5, <2>3
    <3>2. \A x \in Parts : Append(n, x) \notin New
      BY <1>4, <2>1, <2>3
    <3> QED
      BY <1>10, <2>1, <3>1, <3>2
  <2> QED
    BY <2>2, <2>3
<1>12. DOMAIN kids' = D \cup New /\ DOMAIN leaf' = D \cup New
  BY <1>5
<1>13. TrieInv'
  <2>1. DOMAIN kids' \subseteq Seq(Parts) /\ <<>> \in DOMAIN kids'
    BY <1>7, <1>9, <1>12
  <2>2. ASSUME NEW n \in Seq(Parts), NEW x \in Parts, Append(n, x) \in DOMAIN kids'
        PROVE  n \in DOMAIN kids'
    <3>1. CASE Append(n, x) \in D
      BY <1>7, <1>12, <3>1
    <3>2. CASE Append(n, x) \in New
      <4>1. PICK i \in 1 .. L : n = at[i - 1]
        BY <1>4, <3>2
      <4> QED
        BY <1>8, <1>12, <4>1 DEF New
    <3> QED
      BY <1>12, <2>2, <3>1, <3>2
  <2>3. \E d \in Nat : \A n \in DOMAIN kids' : Len(n) <= d
    <3>1. PICK d \in Nat : \A n \in D : Len(n) <= d
      BY DEF TrieInv, D
    <3> DEFINE e == IF d <= L THEN L ELSE d
    <3>2. e \in Nat /\ d <= e /\ L <= e
      BY <1>1
    <3> HIDE DEF e
    <3>3. ASSUME NEW n \in D PROVE Len(n) <= e
      <4>1. Len(n) \in Nat /\ Len(n) <= d
        BY <1>7, <3>1, LenProperties
      <4> QED
        BY <3>2, <4>1
    <3>4. ASSUME NEW n \in New PROVE Len(n) <= e
      <4>1. PICK i \in 0 .. L : n = at[i]
        BY DEF New
      <4> QED
        BY <1>1, <1>6, <3>2, <4>1
    <3> QED
      BY <1>12, <3>2, <3>3, <3>4
  <2> QED
    BY <1>11, <1>12, <2>1, <2>2, <2>3 DEF TrieInv
<1>14. /\ \A n \in D : leaf[n] # None => leaf'[n] # None
       /\ leaf'[q] # None /\ q \in DOMAIN kids'
  <2>1. p # None
    BY RouterAssumption
  <2>2. q \in New
    BY <1>1, <1>6 DEF New
  <2> QED
    BY <1>5, <1>12, <2>1, <2>2
<1>15. ASSUME NEW n \in Seq(Parts), NEW x \in Stars, Append(n, x) \in DOMAIN kids'
       PROVE  leaf'[Append(n, x)] # None
  <2>0. x \in Parts
    BY DEF Parts
  <2>1. CASE Append(n, x) \in D
    <3>1. leaf[Append(n, x)] # None
      BY <2>1 DEF LeafInv, D
    <3> QED
      BY <1>14, <2>1, <3>1
  <2>2. CASE Append(n, x) \notin D
    <3>1. Append(n, x) \in New
      BY <1>12, <1>15, <2>2
    <3>2. PICK i \in 1 .. L : n = at[i - 1] /\ x = q[i]
      BY <1>4, <2>0, <3>1
    <3>3. q[i] = MatchChild(at[i - 1], p[i]) /\ at[i - 1] \in Seq(Parts) /\ p[i] \in Parts
      BY <1>1, <1>6, <1>8
    <3>4. q[i] = p[i] \/ Append(at[i - 1], q[i]) \in D
      BY <3>3, ChildFacts DEF D
    <3>5. p[i] \in Stars
      BY <2>2, <3>2, <3>4
    <3>6. i = L
      <4>1. i \notin 1 .. L - 1
        BY <3>5 DEF L
      <4> QED
        BY <1>1, <4>1
    <3>7. Append(n, x) = q
      BY <1>6, <3>2, <3>6
    <3> QED
      BY <1>14, <3>7
  <2> QED
    BY <2>1, <2>2
<1>16. ASSUME NEW r \in DOMAIN owner'
       PROVE  /\ r \in Seq(Parts)
              /\ \E n \in DOMAIN kids' : leaf'[n] # None /\ StandsFor(n, r)
  <2>1. CASE r \in DOMAIN owner
    <3>1. r \in Seq(Parts)
      BY <2>1 DEF LeafInv
    <3>2. PICK n \in D : leaf[n] # None /\ StandsFor(n, r)
      BY <2>1 DEF LeafInv, D
    <3> QED
      BY <1>12, <1>14, <3>1, <3>2
  <2>2. CASE r = p
    <3>1. ASSUME NEW i \in 1 .. L PROVE q[i] = p[i] \/ Wild(q[i])
      <4>1. q[i] = MatchChild(at[i - 1], p[i]) /\ at[i - 1] \in Seq(Parts) /\ p[i] \in Parts
        BY <1>1, <1>6, <1>8
      <4> QED
        BY <4>1, ChildFacts
    <3>2. StandsFor(q, p)
      BY <1>2, <3>1 DEF StandsFor, L, q
    <3> QED
      BY <1>14, <2>2, <3>2
  <2> QED
    BY <1>5, <2>1, <2>2
<1>17. LeafInv'
  BY <1>15, <1>16 DEF LeafInv
<1> QED
  BY <1>13, <1>17

------------------------------------------------------------------------------
(* The search.                                                             *)

\* The recursive function of Found.
Hits(path, f, n) ==
  {i \in DOMAIN kids[n] : /\ Match(kids[n][i], path[Len(n) + 1])
                          /\ f[Append(n, kids[n][i])] # None}

Searched(path, f, n) ==
  IF AtEnd(n, path) THEN leaf[n]
  ELSE IF Hits(path, f, n) = {} THEN None
       ELSE f[Append(n, kids[n][Min(Hits(path, f, n))])]

Search(path, f) == f = [n \in DOMAIN kids |-> Searched(path, f, n)]

\* The children of a node.
LEMMA HitFacts ==
  ASSUME TrieInv, NEW n \in DOMAIN kids
  PROVE  /\ Len(n) \in Nat
         /\ \A i \in DOMAIN kids[n] : /\ Append(n, kids[n][i]) \in DOMAIN kids
                                      /\ Len(Append(n, kids[n][i])) = Len(n) + 1
         /\ \A path, f : Hits(path, f, n) # {} =>
              Min(Hits(path, f, n)) \in Hits(path, f, n)
<1>1. /\ n \in Seq(Parts) /\ kids[n] \in Seq(Parts)
  BY DEF TrieInv
<1>2. /\ Len(n) \in Nat /\ Len(kids[n]) \in Nat /\ DOMAIN kids[n] = 1 .. Len(kids[n])
  BY <1>1, LenProperties
<1>3. ASSUME NEW i \in DOMAIN kids[n]
      PROVE  /\ Append(n, kids[n][i]) \in DOMAIN kids
             /\ Len(Append(n, kids[n][i])) = Len(n) + 1
  <2>1. kids[n][i] \in Parts /\ Contains(kids[n], kids[n][i])
    BY <1>1, <1>2, ElementOfSeq DEF Contains
  <2> QED
    BY <1>1, <2>1, AppendProperties DEF TrieInv
<1>4. ASSUME NEW path, NEW f, Hits(path, f, n) # {}
      PROVE  Min(Hits(path, f, n)) \in Hits(path, f, n)
  <2> DEFINE H == Hits(path, f, n)
  <2>1. H \in SUBSET Nat
    BY <1>2 DEF Hits
  <2> HIDE DEF H
  <2>2. \E x \in H : \A y \in H : x <= y
    BY <1>4, <2>1, LeastOfNat DEF H
  <2>3. Min(H) \in H
    BY <2>2 DEF Min
  <2> QED
    BY <2>3 DEF H
<1> QED
  BY <1>2, <1>3, <1>4

\* Two functions that agree on the children of a node find the same there.
LEMMA SearchedAgree ==
  ASSUME TrieInv, NEW n \in DOMAIN kids, NEW path, NEW f, NEW g,
         \A i \in DOMAIN kids[n] :
           f[Append(n, kids[n][i])] = g[Append(n, kids[n][i])]
  PROVE  Searched(path, f, n) = Searched(path, g, n)
<1>1. Hits(path, f, n) = Hits(path, g, n)
  BY DEF Hits
<1>2. CASE Hits(path, f, n) = {}
  BY <1>1, <1>2 DEF Searched
<1>3. CASE Hits(path, f, n) # {}
  <2>1. Min(Hits(path, f, n)) \in DOMAIN kids[n]
    BY <1>3, HitFacts DEF Hits
  <2> QED
    BY <1>1, <2>1 DEF Searched
<1> QED
  BY <1>2, <1>3

\* There is one, from the deepest nodes upwards.
LEMMA SearchExists ==
  ASSUME TrieInv, NEW path PROVE \E f : Search(path, f)
<1>1. PICK d \in Nat : \A n \in DOMAIN kids : Len(n) <= d
  BY DEF TrieInv
<1> DEFINE From(k, f) == \A n \in DOMAIN kids :
                           Len(n) + k >= d + 1 => f[n] = Searched(path, f, n)
           S == {k \in Nat : \E f : From(k, f)}
<1>2. 0 \in S
  <2>1. From(0, [n \in DOMAIN kids |-> None])
    <3>1. \A n \in DOMAIN kids : ~(Len(n) + 0 >= d + 1)
      BY <1>1, HitFacts
    <3> QED
      BY <3>1
  <2> HIDE DEF From
  <2> QED
    BY <2>1
<1>3. ASSUME NEW k \in S PROVE k + 1 \in S
  <2>1. k \in Nat
    OBVIOUS
  <2>2. PICK f : From(k, f)
    OBVIOUS
  <2> DEFINE g == [n \in DOMAIN kids |-> Searched(path, f, n)]
  <2>3. ASSUME NEW n \in DOMAIN kids, Len(n) + (k + 1) >= d + 1
        PROVE  g[n] = Searched(path, g, n)
    <3>1. ASSUME NEW i \in DOMAIN kids[n]
          PROVE  f[Append(n, kids[n][i])] = g[Append(n, kids[n][i])]
      <4> DEFINE m == Append(n, kids[n][i])
      <4>1. m \in DOMAIN kids /\ Len(m) = Len(n) + 1 /\ Len(n) \in Nat
        BY HitFacts
      <4> HIDE DEF m
      <4>2. Len(m) + k >= d + 1
        BY <2>1, <2>3, <4>1
      <4>3. f[m] = Searched(path, f, m)
        BY <2>2, <4>1, <4>2
      <4>4. g[m] = Searched(path, f, m)
        BY <4>1
      <4> QED
        BY <4>3, <4>4 DEF m
    <3>2. g[n] = Searched(path, f, n)
      OBVIOUS
    <3> HIDE DEF g
    <3>3. Searched(path, f, n) = Searched(path, g, n)
      BY <3>1, SearchedAgree
    <3> QED
      BY <3>2, <3>3
  <2> HIDE DEF g
  <2>4. From(k + 1, g)
    BY <2>3
  <2> HIDE DEF From
  <2> QED
    BY <2>1, <2>4
<1>4. S \in SUBSET Nat
  OBVIOUS
<1>5. S = Nat
  <2> HIDE DEF S
  <2> QED
    BY <1>2, <1>3, <1>4, SetInduction
<1>6. PICK f : From(d + 1, f)
  <2>1. d + 1 \in S
    <3> HIDE DEF S
    <3> QED
      BY <1>5
  <2> HIDE DEF From
  <2> QED
    BY <2>1
<1>7. \A n \in DOMAIN kids : f[n] = Searched(path, f, n)
  <2> TAKE n \in DOMAIN kids
  <2>1. Len(n) + (d + 1) >= d + 1
    BY HitFacts
  <2> QED
    BY <1>6, <2>1
<1> DEFINE g == [n \in DOMAIN kids |-> f[n]]
<1>8. \A n \in DOMAIN kids : g[n] = Searched(path, g, n)
  <2> TAKE n \in DOMAIN kids
  <2>1. \A i \in DOMAIN kids[n] :
          f[Append(n, kids[n][i])] = g[Append(n, kids[n][i])]
    BY HitFacts
  <2>2. g[n] = f[n]
    OBVIOUS
  <2> HIDE DEF g
  <2>3. Searched(path, f, n) = Searched(path, g, n)
    BY <2>1, SearchedAgree
  <2> QED
    BY <1>7, <2>2, <2>3
<1>9. g = [n \in DOMAIN kids |-> g[n]]
  OBVIOUS
<1> HIDE DEF g
<1>10. Search(path, g)
  BY <1>8, <1>9 DEF Search
<1> QED
  BY <1>10

\* A leaf whose parts match a path of its length keeps the path from being
\* lost: search comes to it, unless it ends at another leaf before.
LEMMA Finds ==
  ASSUME TrieInv, LeafInv, NEW path, NEW n \in DOMAIN kids, leaf[n] # None,
         Len(n) = Len(path), \A i \in 1 .. Len(n) : Match(n[i], path[i])
  PROVE  Found(path) # None
<1> DEFINE L == Len(n)
           way(i) == SubSeq(n, 1, i)
<1>1. L \in Nat /\ n \in Seq(Parts) /\ \A i \in 1 .. L : n[i] \in Parts
  BY LenProperties, ElementOfSeq DEF TrieInv
<1>2. PICK f : Search(path, f) /\ Found(path) = f[<<>>]
  <2>1. PICK g : Search(path, g)
    BY SearchExists
  <2> QED
    BY <2>1 DEF Found, Search, Searched, Hits
<1>3. \A m \in DOMAIN kids : f[m] = Searched(path, f, m)
  BY <1>2 DEF Search
<1>4. /\ way(L) = n /\ way(0) = <<>>
      /\ \A i \in 0 .. L : way(i) \in Seq(Parts) /\ Len(way(i)) = i
      /\ \A i \in 1 .. L : way(i) = Append(way(i - 1), n[i])
  <2>1. way(L) = n
    BY <1>1, SubSeqFull
  <2>2. way(0) = <<>>
    BY SubSeqEmpty
  <2>3. ASSUME NEW i \in 0 .. L PROVE way(i) \in Seq(Parts) /\ Len(way(i)) = i
    <3>1. i \in Int /\ (1 <= i => i - 1 + 1 = i) /\ (~(1 <= i) => i = 0)
      BY <1>1
    <3>2. \A j \in 1 .. i : n[j] \in Parts
      BY <1>1
    <3>3. way(i) \in Seq(Parts) /\ Len(way(i)) = IF 1 <= i THEN i - 1 + 1 ELSE 0
      BY <3>1, <3>2, SubSeqProperties
    <3> HIDE DEF way
    <3> QED
      BY <3>1, <3>3
  <2>4. ASSUME NEW i \in 1 .. L PROVE way(i) = Append(way(i - 1), n[i])
    <3>1. 1 \in 1 .. L /\ i \in 1 .. L /\ i - 1 \in 0 .. L
      BY <1>1
    <3>2. way(i) = way(i - 1) \o <<n[i]>>
      BY <1>1, <3>1, SubSeqRecursiveSecond
    <3>3. way(i - 1) \in Seq(Parts) /\ n[i] \in Parts
      BY <1>1, <2>3, <3>1
    <3> HIDE DEF way
    <3> QED
      BY <3>2, <3>3, AppendIsConcat
  <2> QED
    BY <2>1, <2>2, <2>3, <2>4
<1> HIDE DEF L, way
<1> DEFINE Good(i) == way(i) \in DOMAIN kids /\ f[way(i)] # None
           S == {k \in Nat : k <= L => Good(L - k)}
<1>5. 0 \in S
  <2>1. AtEnd(n, path)
    BY DEF AtEnd
  <2>2. f[n] = leaf[n]
    BY <1>3, <2>1 DEF Searched
  <2>3. Good(L) /\ L - 0 = L
    BY <1>1, <1>4, <2>2
  <2> HIDE DEF Good
  <2> QED
    BY <2>3
<1>6. ASSUME NEW k \in S PROVE k + 1 \in S
  <2>0. k \in Nat /\ (k <= L => Good(L - k))
    OBVIOUS
  <2> HIDE DEF Good
  <2> SUFFICES ASSUME k + 1 <= L PROVE Good(L - (k + 1))
    BY <2>0
  <2> DEFINE i == L - k
             m == way(i - 1)
             x == n[i]
  <2>1. /\ i \in 1 .. L /\ i - 1 \in 0 .. L /\ L - (k + 1) = i - 1 /\ i - 1 # L
        /\ i - 1 + 1 = i /\ i \in 0 .. L
    BY <1>1, <2>0
  <2>2. Good(i)
    BY <1>1, <2>0
  <2> HIDE DEF i
  <2>3. /\ m \in Seq(Parts) /\ Len(m) = i - 1 /\ x \in Parts
        /\ Append(m, x) \in DOMAIN kids /\ f[Append(m, x)] # None
    BY <1>1, <1>4, <2>1, <2>2 DEF Good
  <2> HIDE DEF m, x
  <2>4. m \in DOMAIN kids
    BY <2>3 DEF TrieInv
  <2>5. f[m] # None
    <3>1. CASE AtEnd(m, path)
      <4>1. f[m] = leaf[m]
        BY <1>3, <2>4, <3>1 DEF Searched
      <4>2. Len(m) # Len(path)
        BY <2>1, <2>3 DEF L
      <4>3. m # <<>> /\ Last(m) \in Stars
        BY <3>1, <4>2 DEF AtEnd
      <4>4. PICK u \in Seq(Parts), y \in Parts : m = Append(u, y)
        BY <2>3, <4>3, SequenceEmptyOrAppend
      <4>5. Last(m) = y
        <5>1. Len(m) = Len(u) + 1 /\ m[Len(u) + 1] = y
          BY <4>4, AppendProperties
        <5> QED
          BY <5>1 DEF Last
      <4>6. leaf[m] # None
        BY <2>4, <4>3, <4>4, <4>5 DEF LeafInv
      <4> QED
        BY <4>1, <4>6
    <3>2. CASE ~AtEnd(m, path)
      <4>1. Contains(kids[m], x) /\ kids[m] \in Seq(Parts)
        BY <2>3, <2>4 DEF TrieInv
      <4>2. PICK j \in 1 .. Len(kids[m]) : kids[m][j] = x
        BY <4>1 DEF Contains
      <4>3. j \in DOMAIN kids[m]
        BY <4>1, LenProperties
      <4>4. Match(x, path[Len(m) + 1])
        BY <2>1, <2>3 DEF x, L
      <4>5. j \in Hits(path, f, m)
        BY <2>3, <4>2, <4>3, <4>4 DEF Hits
      <4>6. Min(Hits(path, f, m)) \in Hits(path, f, m)
        BY <2>4, <4>5, HitFacts
      <4>7. f[Append(m, kids[m][Min(Hits(path, f, m))])] # None
        BY <4>6 DEF Hits
      <4>8. Hits(path, f, m) # {}
        BY <4>5
      <4>9. f[m] = f[Append(m, kids[m][Min(Hits(path, f, m))])]
        BY <1>3, <2>4, <3>2, <4>8 DEF Searched
      <4> QED
        BY <4>7, <4>9
    <3> QED
      BY <3>1, <3>2
  <2> QED
    BY <2>1, <2>4, <2>5 DEF Good, m
<1>7. S \in SUBSET Nat
  OBVIOUS
<1>8. S = Nat
  <2> HIDE DEF S
  <2> QED
    BY <1>5, <1>6, <1>7, SetInduction
<1>9. Good(0)
  <2>1. L \in S /\ L <= L /\ L - L = 0
    <3> HIDE DEF S
    <3> QED
      BY <1>1, <1>8
  <2> HIDE DEF Good
  <2> QED
    BY <2>1
<1> QED
  BY <1>2, <1>4, <1>9

\* The parts of p begin with those of n.
Starts(n, p) == Len(n) <= Len(p) /\ \A j \in 1 .. Len(n) : n[j] = p[j]

LEMMA ConcatStarts ==
  ASSUME NEW S, NEW a \in Seq(S), NEW b \in Seq(S)
  PROVE  Starts(a, a \o b)
<1>1. /\ Len(a) \in Nat /\ Len(b) \in Nat /\ Len(a \o b) = Len(a) + Len(b)
      /\ \A i \in 1 .. Len(a) + Len(b) :
           (a \o b)[i] = IF i <= Len(a) THEN a[i] ELSE b[i - Len(a)]
  BY LenProperties, ConcatProperties
<1>2. ASSUME NEW i \in 1 .. Len(a) PROVE a[i] = (a \o b)[i]
  <2>1. i \in 1 .. Len(a) + Len(b) /\ i <= Len(a)
    BY <1>1
  <2> QED
    BY <1>1, <2>1
<1>3. Len(a) <= Len(a \o b)
  BY <1>1
<1> HIDE DEF Starts
<1> QED
  BY <1>2, <1>3 DEF Starts

------------------------------------------------------------------------------
(* The parts of a pattern or a path.                                       *)

\* The recursive function of PartsOf.
Parsing(raw, at) ==
  at = [i \in 0 .. Len(raw) |-> IF i = 0 THEN <<>> ELSE Parsed(at[i - 1], raw[i])]

LEMMA ParsingExists ==
  ASSUME NEW raw, Len(raw) \in Nat
  PROVE  \E at : Parsing(raw, at) /\ PartsOf(raw) = at[Len(raw)]
<1> DEFINE Upto(k, at) ==
             at = [i \in 0 .. k |-> IF i = 0 THEN <<>> ELSE Parsed(at[i - 1], raw[i])]
           S == {k \in Nat : \E at : Upto(k, at)}
<1>1. 0 \in S
  <2> DEFINE at == [i \in 0 .. 0 |-> <<>>]
  <2>1. Upto(0, at)
    OBVIOUS
  <2> HIDE DEF at, Upto
  <2> QED
    BY <2>1
<1>2. ASSUME NEW k \in S PROVE k + 1 \in S
  <2>1. k \in Nat
    OBVIOUS
  <2>2. PICK h : Upto(k, h)
    OBVIOUS
  <2> DEFINE g == [i \in 0 .. k + 1 |->
                     IF i = k + 1 THEN Parsed(h[k], raw[k + 1]) ELSE h[i]]
  <2>3. ASSUME NEW i \in 0 .. k + 1
        PROVE  g[i] = IF i = 0 THEN <<>> ELSE Parsed(g[i - 1], raw[i])
    <3>1. CASE i = k + 1
      <4>1. g[i - 1] = h[k] /\ g[i] = Parsed(h[k], raw[i]) /\ i # 0
        BY <2>1, <3>1
      <4> QED
        BY <4>1
    <3>2. CASE i # k + 1 /\ i # 0
      <4>1. i \in 0 .. k /\ i - 1 \in 0 .. k /\ i - 1 # k + 1 /\ i - 1 \in 0 .. k + 1
        BY <2>1, <3>2
      <4>2. h[i] = Parsed(h[i - 1], raw[i])
        BY <2>2, <3>2, <4>1
      <4>3. g[i] = h[i] /\ g[i - 1] = h[i - 1]
        BY <3>2, <4>1
      <4> HIDE DEF g
      <4> QED
        BY <3>2, <4>2, <4>3
    <3>3. CASE i = 0
      <4>1. h[0] = <<>> /\ 0 # k + 1
        BY <2>1, <2>2
      <4> QED
        BY <2>1, <3>3, <4>1
    <3> QED
      BY <3>1, <3>2, <3>3
  <2>4. Upto(k + 1, g)
    <3>1. g = [i \in 0 .. k + 1 |-> g[i]]
      OBVIOUS
    <3> HIDE DEF g
    <3> QED
      BY <2>3, <3>1
  <2> HIDE DEF g, Upto
  <2> QED
    BY <2>1, <2>4
<1>3. S \in SUBSET Nat
  OBVIOUS
<1> HIDE DEF S
<1>4. S = Nat
  BY <1>1, <1>2, <1>3, SetInduction
<1>5. PICK h : Upto(Len(raw), h)
  BY <1>4 DEF S
<1>6. \E at : Upto(Len(raw), at) /\ PartsOf(raw) = at[Len(raw)]
  BY <1>5 DEF PartsOf
<1> QED
  BY <1>6 DEF Parsing

\* What parsePattern makes of one more segment.
LEMMA OneMore ==
  ASSUME NEW parts \in Seq(Parts), NEW segment \in Segments,
         NEW more, more = Parsed(parts, segment)
  PROVE  /\ more \in Seq(Parts)
         /\ Len(more) \in Len(parts) .. Len(parts) + 1
         /\ \A j \in 1 .. Len(parts) : more[j] = parts[j]
         /\ (\A j \in 1 .. Len(parts) - 1 : parts[j] \notin Stars) =>
              \A j \in 1 .. Len(more) - 1 : more[j] \notin Stars
         /\ segment # Empty /\ (\A j \in 1 .. Len(parts) : parts[j] \notin Stars) =>
              /\ Len(more) = Len(parts) + 1
              /\ more[Len(parts) + 1] = segment
<1> DEFINE n == Len(parts)
<1>1. n \in Nat /\ (parts # <<>> => n # 0 /\ Last(parts) = parts[n])
  BY LenProperties, EmptySeq DEF Last
<1>2. CASE more = parts /\
           (segment = Empty \/ (parts # <<>> /\ Last(parts) \in Stars))
  <2>1. parts # <<>> => n \in 1 .. n
    BY <1>1
  <2> QED
    BY <1>1, <1>2, <2>1
<1>3. CASE /\ more = Append(parts, segment)
           /\ segment # Empty /\ ~(parts # <<>> /\ Last(parts) \in Stars)
  <2>1. segment \in Parts
    BY <1>3 DEF Segments
  <2>2. /\ more \in Seq(Parts) /\ Len(more) = n + 1 /\ more[n + 1] = segment
        /\ \A j \in 1 .. n : more[j] = parts[j]
    BY <1>3, <2>1, AppendProperties
  <2>3. ASSUME \A j \in 1 .. n - 1 : parts[j] \notin Stars, NEW j \in 1 .. n
        PROVE  more[j] \notin Stars
    <3>1. CASE j = n
      <4>1. parts # <<>>
        BY <1>1, <3>1, EmptySeq
      <4> QED
        BY <1>1, <1>3, <2>2, <3>1, <4>1
    <3>2. CASE j # n
      <4>1. j \in 1 .. n - 1
        BY <1>1, <3>2
      <4> QED
        BY <2>2, <2>3, <4>1
    <3> QED
      BY <3>1, <3>2
  <2>4. Len(more) - 1 = n /\ Len(more) \in n .. n + 1
    BY <1>1, <2>2
  <2> HIDE DEF n
  <2>5. (\A j \in 1 .. n - 1 : parts[j] \notin Stars) =>
          \A j \in 1 .. Len(more) - 1 : more[j] \notin Stars
    BY <2>3, <2>4
  <2> QED
    BY <1>3, <2>2, <2>4, <2>5 DEF n
<1> QED
  BY <1>2, <1>3 DEF Parsed

\* The parts are no more than the segments, and a star is only at the end.
LEMMA PartsTyped ==
  ASSUME NEW raw \in Seq(Segments)
  PROVE  /\ PartsOf(raw) \in Seq(Parts) /\ Len(PartsOf(raw)) <= Len(raw)
         /\ \A j \in 1 .. Len(PartsOf(raw)) - 1 : PartsOf(raw)[j] \notin Stars
<1>1. Len(raw) \in Nat /\ \A i \in 1 .. Len(raw) : raw[i] \in Segments
  BY LenProperties, ElementOfSeq
<1>2. PICK at : Parsing(raw, at) /\ PartsOf(raw) = at[Len(raw)]
  BY <1>1, ParsingExists
<1>3. \A i \in 0 .. Len(raw) :
        at[i] = IF i = 0 THEN <<>> ELSE Parsed(at[i - 1], raw[i])
  BY <1>2 DEF Parsing
<1> DEFINE Good(k) == /\ at[k] \in Seq(Parts) /\ Len(at[k]) <= k
                      /\ \A j \in 1 .. Len(at[k]) - 1 : at[k][j] \notin Stars
           S == {k \in Nat : k <= Len(raw) => Good(k)}
<1>4. 0 \in S
  <2>1. at[0] = <<>>
    BY <1>1, <1>3
  <2>2. <<>> \in Seq(Parts) /\ Len(<<>>) = 0
    BY EmptySeq
  <2>3. Good(0)
    BY <2>1, <2>2
  <2> HIDE DEF Good
  <2> QED
    BY <2>3
<1>5. ASSUME NEW k \in S PROVE k + 1 \in S
  <2>1. k \in Nat /\ (k <= Len(raw) => Good(k))
    OBVIOUS
  <2> SUFFICES ASSUME k + 1 <= Len(raw) PROVE Good(k + 1)
    BY <2>1
  <2>2. /\ k <= Len(raw) /\ k + 1 \in 0 .. Len(raw) /\ k + 1 \in 1 .. Len(raw)
        /\ k + 1 # 0 /\ (k + 1) - 1 = k
    BY <1>1, <2>1
  <2>3. at[k + 1] = Parsed(at[k], raw[k + 1]) /\ raw[k + 1] \in Segments
    BY <1>1, <1>3, <2>2
  <2>4. /\ at[k] \in Seq(Parts) /\ Len(at[k]) <= k
        /\ \A j \in 1 .. Len(at[k]) - 1 : at[k][j] \notin Stars
    BY <2>1, <2>2
  <2>5. Len(at[k]) \in Nat
    BY <2>4, LenProperties
  <2>6. /\ at[k + 1] \in Seq(Parts)
        /\ Len(at[k + 1]) \in Len(at[k]) .. Len(at[k]) + 1
        /\ \A j \in 1 .. Len(at[k + 1]) - 1 : at[k + 1][j] \notin Stars
    <3> DEFINE old == at[k]
               new == at[k + 1]
               piece == raw[k + 1]
    <3>1. /\ old \in Seq(Parts) /\ piece \in Segments /\ new = Parsed(old, piece)
          /\ \A j \in 1 .. Len(old) - 1 : old[j] \notin Stars
      BY <2>3, <2>4
    <3> HIDE DEF old, new, piece
    <3>2. /\ new \in Seq(Parts) /\ Len(new) \in Len(old) .. Len(old) + 1
          /\ \A j \in 1 .. Len(new) - 1 : new[j] \notin Stars
      BY <3>1, OneMore
    <3> QED
      BY <3>2 DEF old, new
  <2>7. Len(at[k + 1]) <= k + 1
    BY <2>1, <2>4, <2>5, <2>6
  <2> QED
    BY <2>6, <2>7
<1>6. S \in SUBSET Nat
  OBVIOUS
<1>7. Good(Len(raw))
  <2> HIDE DEF Good
  <2>1. Len(raw) \in S
    <3> HIDE DEF S
    <3> QED
      BY <1>1, <1>4, <1>5, <1>6, SetInduction
  <2> QED
    BY <1>1, <2>1
<1> QED
  BY <1>2, <1>7

\* Static parts at the beginning are parts.
LEMMA StaticStart ==
  ASSUME NEW raw \in Seq(Segments), NEW a \in Seq(Static), Starts(a, raw)
  PROVE  Starts(a, PartsOf(raw))
<1>1. /\ Len(raw) \in Nat /\ \A i \in 1 .. Len(raw) : raw[i] \in Segments
      /\ Len(a) \in Nat /\ \A i \in 1 .. Len(a) : a[i] \in Static
      /\ Len(a) <= Len(raw) /\ \A i \in 1 .. Len(a) : a[i] = raw[i]
  BY LenProperties, ElementOfSeq DEF Starts
<1>2. PICK at : Parsing(raw, at) /\ PartsOf(raw) = at[Len(raw)]
  BY <1>1, ParsingExists
<1>3. \A i \in 0 .. Len(raw) :
        at[i] = IF i = 0 THEN <<>> ELSE Parsed(at[i - 1], raw[i])
  BY <1>2 DEF Parsing
<1>4. \A s \in Static : s \notin Stars /\ s # Empty
  BY RouterAssumption DEF Parts
<1> DEFINE Good(k) == /\ at[k] \in Seq(Parts)
                      /\ k <= Len(a) => Len(at[k]) = k
                      /\ k >= Len(a) => Len(at[k]) >= Len(a)
                      /\ \A j \in 1 .. Len(a) : j <= k => at[k][j] = a[j]
           S == {k \in Nat : k <= Len(raw) => Good(k)}
<1>5. 0 \in S
  <2>1. at[0] = <<>>
    BY <1>1, <1>3
  <2>2. <<>> \in Seq(Parts) /\ Len(<<>>) = 0
    BY EmptySeq
  <2>3. Good(0)
    BY <1>1, <2>1, <2>2
  <2> HIDE DEF Good
  <2> QED
    BY <2>3
<1>6. ASSUME NEW k \in S PROVE k + 1 \in S
  <2>1. k \in Nat /\ (k <= Len(raw) => Good(k))
    OBVIOUS
  <2> SUFFICES ASSUME k + 1 <= Len(raw) PROVE Good(k + 1)
    BY <2>1
  <2>2. /\ k <= Len(raw) /\ k + 1 \in 0 .. Len(raw) /\ k + 1 \in 1 .. Len(raw)
        /\ k + 1 # 0 /\ (k + 1) - 1 = k
    BY <1>1, <2>1
  <2>3. at[k + 1] = Parsed(at[k], raw[k + 1]) /\ raw[k + 1] \in Segments
    BY <1>1, <1>3, <2>2
  <2>4. /\ at[k] \in Seq(Parts)
        /\ k <= Len(a) => Len(at[k]) = k
        /\ k >= Len(a) => Len(at[k]) >= Len(a)
        /\ \A j \in 1 .. Len(a) : j <= k => at[k][j] = a[j]
    BY <2>1, <2>2
  <2>5. Len(at[k]) \in Nat
    BY <2>4, LenProperties
  <2>6. /\ at[k + 1] \in Seq(Parts)
        /\ Len(at[k + 1]) \in Len(at[k]) .. Len(at[k]) + 1
        /\ \A j \in 1 .. Len(at[k]) : at[k + 1][j] = at[k][j]
        /\ raw[k + 1] # Empty /\ (\A j \in 1 .. Len(at[k]) : at[k][j] \notin Stars) =>
             /\ Len(at[k + 1]) = Len(at[k]) + 1
             /\ at[k + 1][Len(at[k]) + 1] = raw[k + 1]
    <3> DEFINE old == at[k]
               new == at[k + 1]
               piece == raw[k + 1]
    <3>1. old \in Seq(Parts) /\ piece \in Segments /\ new = Parsed(old, piece)
      BY <2>3, <2>4
    <3> HIDE DEF old, new, piece, Good, S
    <3>2. /\ new \in Seq(Parts) /\ Len(new) \in Len(old) .. Len(old) + 1
          /\ \A j \in 1 .. Len(old) : new[j] = old[j]
      BY <3>1, OneMore
    <3>3. ASSUME piece # Empty, \A j \in 1 .. Len(old) : old[j] \notin Stars
          PROVE  Len(new) = Len(old) + 1 /\ new[Len(old) + 1] = piece
      BY <3>1, <3>3, OneMore, Zenon
    <3> QED
      BY <3>2, <3>3 DEF old, new, piece
  <2>7. CASE k + 1 <= Len(a)
    <3>1. Len(at[k]) = k /\ \A j \in 1 .. k : at[k][j] = a[j] /\ j \in 1 .. Len(a)
      BY <1>1, <2>1, <2>4, <2>7
    <3>2. \A j \in 1 .. Len(at[k]) : at[k][j] \notin Stars
      BY <1>1, <1>4, <3>1
    <3>3. k + 1 \in 1 .. Len(a) /\ raw[k + 1] = a[k + 1] /\ raw[k + 1] # Empty
      BY <1>1, <1>4, <2>1, <2>7
    <3>4. Len(at[k + 1]) = k + 1 /\ at[k + 1][k + 1] = a[k + 1]
      BY <2>6, <3>1, <3>2, <3>3
    <3>5. \A j \in 1 .. Len(a) : j <= k + 1 => at[k + 1][j] = a[j]
      <4> TAKE j \in 1 .. Len(a)
      <4>1. CASE j = k + 1
        BY <3>4, <4>1
      <4>2. CASE j # k + 1
        <5>1. j <= k + 1 => j \in 1 .. k
          BY <2>1, <4>2
        <5> QED
          BY <2>6, <3>1, <5>1
      <4> QED
        BY <4>1, <4>2
    <3>6. k + 1 >= Len(a) => Len(at[k + 1]) >= Len(a)
      BY <1>1, <2>1, <3>4
    <3> QED
      BY <2>6, <3>4, <3>5, <3>6
  <2>8. CASE ~(k + 1 <= Len(a))
    <3>1. k >= Len(a) /\ Len(at[k]) >= Len(a)
      BY <1>1, <2>1, <2>4, <2>8
    <3>2. Len(at[k + 1]) >= Len(a)
      BY <1>1, <2>5, <2>6, <3>1
    <3>3. \A j \in 1 .. Len(a) : j <= k /\ j \in 1 .. Len(at[k])
      BY <1>1, <2>1, <2>5, <3>1
    <3>4. \A j \in 1 .. Len(a) : at[k + 1][j] = a[j]
      BY <2>4, <2>6, <3>3
    <3> QED
      BY <2>6, <2>8, <3>2, <3>4
  <2> QED
    BY <2>7, <2>8
<1>7. S \in SUBSET Nat
  OBVIOUS
<1>8. Good(Len(raw))
  <2> HIDE DEF Good
  <2>1. Len(raw) \in S
    <3> HIDE DEF S
    <3> QED
      BY <1>1, <1>5, <1>6, <1>7, SetInduction
  <2> QED
    BY <1>1, <2>1
<1>9. Len(a) <= Len(at[Len(raw)]) /\ \A j \in 1 .. Len(a) : a[j] = at[Len(raw)][j]
  <2>1. \A j \in 1 .. Len(a) : j <= Len(raw)
    BY <1>1
  <2> QED
    BY <1>1, <1>8, <2>1
<1> QED
  BY <1>2, <1>9 DEF Starts

\* What a group registers begins, as it is written, with its prefix.
Written(p, prefix) ==
  \E raw \in Seq(Segments) : p = PartsOf(raw) /\ Starts(prefix, raw)

LEMMA Patterned ==
  ASSUME ChainInv, NEW g \in DOMAIN groups, NEW suffix \in Patterns
  PROVE  LET p == PartsOf(groups[g].prefix \o suffix)
         IN  /\ p \in Seq(Parts) /\ Written(p, groups[g].prefix)
             /\ \A i \in 1 .. Len(p) - 1 : p[i] \notin Stars
<1> DEFINE a == groups[g].prefix
           raw == a \o suffix
<1>1. groups[g] \in GroupType
  BY LenProperties, ElementOfSeq DEF ChainInv
<1>2. a \in Seq(Segments) /\ suffix \in Seq(Segments)
  BY <1>1, WebAssumption DEF GroupType
<1> HIDE DEF a
<1>3. raw \in Seq(Segments) /\ Starts(a, raw)
  BY <1>2, ConcatProperties, ConcatStarts
<1> HIDE DEF raw
<1>4. /\ PartsOf(raw) \in Seq(Parts) /\ Written(PartsOf(raw), a)
      /\ \A i \in 1 .. Len(PartsOf(raw)) - 1 : PartsOf(raw)[i] \notin Stars
  BY <1>3, PartsTyped DEF Written
<1> QED
  BY <1>4 DEF a, raw

------------------------------------------------------------------------------
(* No path is lost.                                                        *)

LEMMA TrieInit == Init => TrieInv /\ LeafInv
<1> SUFFICES ASSUME Init PROVE TrieInv /\ LeafInv
  OBVIOUS
<1>1. /\ DOMAIN kids = {<<>>} /\ kids[<<>>] = <<>> /\ DOMAIN leaf = {<<>>}
      /\ DOMAIN owner = {}
  BY DEF Init, RouterInit
<1>2. <<>> \in Seq(Parts) /\ Len(<<>>) = 0
  BY EmptySeq
<1>3. \A n \in Seq(Parts), x \in Parts : Append(n, x) # <<>>
  BY AppendProperties
<1>4. \A x : ~Contains(<<>>, x)
  <2>1. ~ \E i \in 1 .. 0 : TRUE
    OBVIOUS
  <2> QED
    BY <1>2, <2>1 DEF Contains
<1>5. Stars \subseteq Parts
  BY DEF Parts
<1>6. TrieInv
  <2>1. \A n \in DOMAIN kids : Len(n) <= 0
    BY <1>1, <1>2
  <2> QED
    BY <1>1, <1>2, <1>3, <1>4, <2>1 DEF TrieInv
<1>7. LeafInv
  BY <1>1, <1>3, <1>5 DEF LeafInv
<1> QED
  BY <1>6, <1>7

LEMMA TrieStep ==
  ASSUME ChainInv, TrieInv, LeafInv, [Next]_vars PROVE TrieInv' /\ LeafInv'
<1>1. ASSUME NEW g \in DOMAIN groups, NEW suffix \in Patterns, Register(g, suffix)
      PROVE  TrieInv' /\ LeafInv'
  <2> DEFINE p == PartsOf(groups[g].prefix \o suffix)
  <2>1. p \in Seq(Parts) /\ \A i \in 1 .. Len(p) - 1 : p[i] \notin Stars
    BY Patterned
  <2>2. AddRoute(p, g)
    BY <1>1 DEF Register
  <2> HIDE DEF p
  <2> QED
    BY <2>1, <2>2, AddKeeps
<1>2. CASE UNCHANGED routerVars
  BY <1>2 DEF routerVars, TrieInv, LeafInv, StandsFor
<1> QED
  BY <1>1, <1>2
  DEF Next, Group, Use, Serve, Step, CallNext, HandlerReturns, PanicRecovered,
      PanicAborts, Finish, vars

THEOREM TrieInvariance == Spec => [](TrieInv /\ LeafInv)
  BY ChainInvariance, TrieInit, TrieStep, PTL DEF Spec

\* trie.go:33-73: for any patterns, groups and order of registration, a path
\* for which a pattern without '*' was registered is answered by some route.
\* insert leaves each pattern at a node that stands for it, and search comes
\* back from every child below which there is none.
THEOREM NothingLost == Spec => []NeverLost
<1>1. TrieInv /\ LeafInv => NeverLost
  <2> SUFFICES ASSUME TrieInv, LeafInv, NEW p \in DOMAIN owner, NEW path \in Requested,
                      Matches(p, path), p = <<>> \/ Last(p) \notin Stars
               PROVE  Found(path) # None
    BY DEF NeverLost
  <2>1. PICK n \in DOMAIN kids : leaf[n] # None /\ StandsFor(n, p)
    BY DEF LeafInv
  <2>2. /\ p \in Seq(Parts) /\ DOMAIN p = 1 .. Len(p) /\ Len(path) = Len(p)
        /\ \A i \in 1 .. Len(p) : Match(p[i], path[i])
    <3>1. p \in Seq(Parts)
      BY DEF LeafInv
    <3> QED
      BY <3>1, LenProperties DEF Matches
  <2>3. Len(n) = Len(path) /\ \A i \in 1 .. Len(n) : Match(n[i], path[i])
    BY <2>1, <2>2 DEF StandsFor, Match
  <2> QED
    BY <2>1, <2>3, Finds
<1> QED
  BY TrieInvariance, <1>1, PTL

------------------------------------------------------------------------------
(* Routes in order.                                                        *)

\* What was registered, by whom, and for which prefix.
OwnerInv ==
  /\ routes \in Seq(Seq(Parts))
  /\ \A p : p \in DOMAIN owner <=> Contains(routes, p)
  /\ \A p \in DOMAIN owner :
       /\ \A i \in 1 .. Len(p) - 1 : p[i] \notin Stars
       /\ owner[p] \in DOMAIN groups /\ Written(p, groups[owner[p]].prefix)

\* Children differ, and a leaf has a registered pattern of its own depth.
NodeInv ==
  \A n \in DOMAIN kids :
    /\ IsInjective(kids[n])
    /\ leaf[n] # None => leaf[n] \in DOMAIN owner /\ Len(leaf[n]) = Len(n)

\* While routes are in order every pattern is at its own node, every node is
\* on the way to a pattern, and a wild child is the last of its siblings.
RouteInv ==
  Orderly =>
    /\ \A p \in DOMAIN owner :
         p \in DOMAIN kids /\ leaf[p] = p /\ Prefixes(p) \subseteq DOMAIN kids
    /\ \A n \in DOMAIN kids :
         /\ leaf[n] # None => leaf[n] = n /\ n \in DOMAIN owner
         /\ n # <<>> => \E r \in DOMAIN routes : Starts(n, routes[r])
         /\ \A i \in DOMAIN kids[n] : Wild(kids[n][i]) => i = Len(kids[n])

\* No route has a wild part where p is the first to differ.
Fits(p) ==
  \A r \in DOMAIN routes :
    ~\E i \in DOMAIN routes[r] \cap DOMAIN p :
       /\ Wild(routes[r][i]) /\ routes[r][i] # p[i]
       /\ \A j \in 1 .. i - 1 : routes[r][j] = p[j]

LEMMA PrefixStarts ==
  ASSUME NEW p \in Seq(Parts), NEW n \in Prefixes(p)
  PROVE  n \in Seq(Parts) /\ Starts(n, p)
<1>1. PICK l \in 0 .. Len(p) : n = SubSeq(p, 1, l)
  BY DEF Prefixes
<1>2. /\ Len(p) \in Nat /\ l \in Int /\ 1 \in Int
      /\ \A j \in 1 .. Len(p) : p[j] \in Parts
  BY LenProperties, ElementOfSeq
<1>3. \A j \in 1 .. l : j \in 1 .. Len(p) /\ 1 + j - 1 = j
  BY <1>2
<1>4. /\ n \in Seq(Parts) /\ Len(n) = IF 1 <= l THEN l - 1 + 1 ELSE 0
      /\ \A j \in 1 .. l - 1 + 1 : n[j] = p[1 + j - 1]
  BY <1>1, <1>2, <1>3, SubSeqProperties
<1>5. Len(n) = l /\ l - 1 + 1 = l
  BY <1>2, <1>4
<1> QED
  BY <1>2, <1>3, <1>4, <1>5 DEF Starts

\* A child of a node, when routes are in order, is on the way of one of them.
LEMMA OnTheWay ==
  ASSUME TrieInv, OwnerInv, RouteInv, Orderly,
         NEW n \in Seq(Parts), NEW x \in Parts, Append(n, x) \in DOMAIN kids
  PROVE  \E r \in DOMAIN routes :
           /\ Len(n) + 1 \in DOMAIN routes[r] /\ routes[r][Len(n) + 1] = x
           /\ \A j \in 1 .. Len(n) : routes[r][j] = n[j]
<1> DEFINE m == Append(n, x)
<1>1. /\ Len(n) \in Nat /\ Len(m) = Len(n) + 1 /\ m[Len(n) + 1] = x
      /\ \A j \in 1 .. Len(n) : m[j] = n[j]
  BY LenProperties, AppendProperties
<1>2. m # <<>>
  BY <1>1, EmptySeq
<1>3. PICK r \in DOMAIN routes : Starts(m, routes[r])
  BY <1>2 DEF RouteInv
<1> HIDE DEF m
<1>4. routes[r] \in Seq(Parts)
  BY LenProperties, ElementOfSeq DEF OwnerInv
<1>5. Len(routes[r]) \in Nat /\ DOMAIN routes[r] = 1 .. Len(routes[r])
  BY <1>4, LenProperties
<1>6. /\ Len(n) + 1 <= Len(routes[r]) /\ m[Len(n) + 1] = routes[r][Len(n) + 1]
      /\ \A j \in 1 .. Len(n) : m[j] = routes[r][j]
  BY <1>1, <1>3 DEF Starts
<1> QED
  BY <1>1, <1>5, <1>6

\* A pattern that fits is left at its own node.
LEMMA PlaceOfFit ==
  ASSUME TrieInv, OwnerInv, RouteInv, Orderly, NEW p \in Seq(Parts), Fits(p)
  PROVE  Place(p) = p
<1> DEFINE L == Len(p)
           q == Place(p)
<1>1. /\ L \in Nat /\ DOMAIN p = 1 .. L /\ \A i \in 1 .. L : p[i] \in Parts
  BY LenProperties, ElementOfSeq
<1>2. /\ q \in Seq(Parts) /\ Len(q) = L
      /\ \E at : Way(p, at) /\ \A i \in 0 .. L : SubSeq(q, 1, i) = at[i]
  BY WayFacts
<1>3. PICK at : Way(p, at) /\ \A i \in 0 .. L : SubSeq(q, 1, i) = at[i]
  BY <1>2
<1>4. /\ at \in [0 .. L -> Seq(Parts)] /\ \A i \in 0 .. L : Len(at[i]) = i
      /\ \A i \in 1 .. L : q[i] = MatchChild(at[i - 1], p[i])
  BY <1>3 DEF Way
<1>5. ASSUME NEW i \in 0 .. L, NEW j \in 1 .. i PROVE at[i][j] = q[j]
  <2>1. at[i] \in Prefixes(q)
    BY <1>2, <1>3 DEF Prefixes
  <2>2. Starts(at[i], q)
    BY <1>2, <2>1, PrefixStarts
  <2> QED
    BY <1>4, <2>2 DEF Starts
<1> HIDE DEF L, q
<1> DEFINE S == {k \in Nat : k <= L => \A j \in 1 .. k : q[j] = p[j]}
<1>6. 0 \in S
  OBVIOUS
<1>7. ASSUME NEW k \in S PROVE k + 1 \in S
  <2>0. k \in Nat /\ (k <= L => \A j \in 1 .. k : q[j] = p[j])
    OBVIOUS
  <2> SUFFICES ASSUME k + 1 <= L PROVE \A j \in 1 .. k + 1 : q[j] = p[j]
    BY <2>0
  <2> DEFINE n == at[k]
             c == MatchChild(n, p[k + 1])
  <2>1. k \in 0 .. L /\ k + 1 \in 1 .. L /\ (k + 1) - 1 = k /\ k <= L
    BY <1>1, <2>0
  <2>2. n \in Seq(Parts) /\ Len(n) = k /\ p[k + 1] \in Parts /\ q[k + 1] = c
    BY <1>1, <1>4, <2>1
  <2>3. c \in Parts /\ (c = p[k + 1] \/ (Wild(c) /\ Append(n, c) \in DOMAIN kids))
    BY <2>2, ChildFacts
  <2> HIDE DEF c
  <2>4. c = p[k + 1]
    <3> SUFFICES ASSUME c # p[k + 1] PROVE FALSE
      OBVIOUS
    <3>1. PICK r \in DOMAIN routes :
            /\ k + 1 \in DOMAIN routes[r] /\ routes[r][k + 1] = c
            /\ \A j \in 1 .. k : routes[r][j] = n[j]
      BY <2>2, <2>3, OnTheWay
    <3>2. \A j \in 1 .. (k + 1) - 1 : routes[r][j] = p[j]
      BY <1>5, <2>0, <2>1, <3>1
    <3> QED
      BY <1>1, <2>1, <2>3, <3>1, <3>2 DEF Fits
  <2>5. \A j \in 1 .. k + 1 : j = k + 1 \/ j \in 1 .. k
    BY <2>0
  <2> QED
    BY <2>0, <2>1, <2>2, <2>4, <2>5
<1>8. S \in SUBSET Nat
  OBVIOUS
<1>9. S = Nat
  <2> HIDE DEF S
  <2> QED
    BY <1>6, <1>7, <1>8, SetInduction
<1>10. \A j \in 1 .. L : q[j] = p[j]
  <2>1. L \in S
    <3> HIDE DEF S
    <3> QED
      BY <1>1, <1>9
  <2> QED
    BY <1>1, <2>1
<1> QED
  BY <1>1, <1>2, <1>10, SeqEqual DEF L, q

\* What addRoute does, in terms of the node it comes to.
LEMMA Added ==
  ASSUME TrieInv, NEW p \in Seq(Parts), NEW who, AddRoute(p, who)
  PROVE  /\ Place(p) \in Seq(Parts) /\ Len(Place(p)) = Len(p)
         /\ Place(p) \in Prefixes(Place(p))
         /\ DOMAIN kids' = DOMAIN kids \cup Prefixes(Place(p))
         /\ \A n \in DOMAIN kids' :
              \/ kids'[n] = Kids(n)
              \/ \E x \in Parts :
                   /\ Append(n, x) \in Prefixes(Place(p)) /\ ~Contains(Kids(n), x)
                   /\ kids'[n] = Append(Kids(n), x)
         /\ leaf' = [n \in DOMAIN kids' |->
                       IF n = Place(p) THEN p
                       ELSE IF n \in DOMAIN kids THEN leaf[n] ELSE None]
<1> DEFINE L == Len(p)
           q == Place(p)
           OnWay(n) == IsStrictPrefix(n, q)
           After(n) == q[Len(n) + 1]
<1>1. L \in Nat
  BY LenProperties
<1>2. /\ q \in Seq(Parts) /\ Len(q) = L
      /\ \E at : Way(p, at) /\ \A i \in 0 .. L : SubSeq(q, 1, i) = at[i]
  BY WayFacts
<1>3. PICK at : Way(p, at) /\ \A i \in 0 .. L : SubSeq(q, 1, i) = at[i]
  BY <1>2
<1>4. WayEnd(p, at)
  BY <1>2, <1>3, WayEnds
<1>5. /\ kids' = [n \in DOMAIN kids \cup Prefixes(q) |->
                    IF OnWay(n) /\ ~Contains(Kids(n), After(n))
                    THEN Append(Kids(n), After(n)) ELSE Kids(n)]
      /\ leaf' = [n \in DOMAIN kids' |->
                    IF n = q THEN p ELSE IF n \in DOMAIN kids THEN leaf[n] ELSE None]
  BY DEF AddRoute, NewKid, TrieInv
<1>6. q \in Prefixes(q)
  <2>1. SubSeq(q, 1, L) = q /\ L \in 0 .. L
    BY <1>1, <1>2, SubSeqFull
  <2> QED
    BY <1>2, <2>1 DEF Prefixes
<1> HIDE DEF OnWay, After
<1>7. ASSUME NEW n \in DOMAIN kids', OnWay(n)
      PROVE  After(n) \in Parts /\ Append(n, After(n)) \in Prefixes(q)
  <2>1. n \in Seq(Parts)
    BY <1>2, <1>5, PrefixStarts DEF TrieInv
  <2>2. PICK i \in 1 .. L : n = at[i - 1]
    BY <1>4, <1>7, <2>1 DEF WayEnd, OnWay
  <2>3. i - 1 \in 0 .. L /\ i \in 0 .. L /\ (i - 1) + 1 = i
    BY <1>1
  <2>4. Len(n) = i - 1 /\ at[i] = Append(n, q[i]) /\ q[i] \in Parts
    BY <1>3, <2>2, <2>3 DEF Way
  <2>5. After(n) = q[i]
    BY <2>3, <2>4 DEF After
  <2> QED
    BY <1>4, <2>3, <2>4, <2>5 DEF WayEnd
<1>8. ASSUME NEW n \in DOMAIN kids'
      PROVE  \/ kids'[n] = Kids(n)
             \/ \E x \in Parts :
                  /\ Append(n, x) \in Prefixes(q) /\ ~Contains(Kids(n), x)
                  /\ kids'[n] = Append(Kids(n), x)
  <2>1. CASE OnWay(n) /\ ~Contains(Kids(n), After(n))
    <3>1. kids'[n] = Append(Kids(n), After(n))
      BY <1>5, <2>1
    <3> QED
      BY <1>7, <2>1, <3>1
  <2>2. CASE ~(OnWay(n) /\ ~Contains(Kids(n), After(n)))
    BY <1>5, <2>2
  <2> QED
    BY <2>1, <2>2
<1> HIDE DEF q
<1>9. DOMAIN kids' = DOMAIN kids \cup Prefixes(q)
  BY <1>5
<1> QED
  BY <1>2, <1>5, <1>6, <1>8, <1>9 DEF q, L

\* The children of a node, or of a node there is not.
LEMMA KidFacts ==
  ASSUME TrieInv, NEW n \in Seq(Parts)
  PROVE  /\ Kids(n) \in Seq(Parts) /\ Len(Kids(n)) \in Nat
         /\ DOMAIN Kids(n) = 1 .. Len(Kids(n))
         /\ \A i \in DOMAIN Kids(n) :
              /\ n \in DOMAIN kids /\ Kids(n) = kids[n] /\ Kids(n)[i] \in Parts
              /\ Append(n, Kids(n)[i]) \in DOMAIN kids
<1>1. CASE n \in DOMAIN kids
  <2>1. kids[n] \in Seq(Parts) /\ Kids(n) = kids[n]
    BY <1>1 DEF TrieInv, Kids
  <2>2. Len(kids[n]) \in Nat /\ DOMAIN kids[n] = 1 .. Len(kids[n])
    BY <2>1, LenProperties
  <2>3. ASSUME NEW i \in 1 .. Len(kids[n])
        PROVE  kids[n][i] \in Parts /\ Append(n, kids[n][i]) \in DOMAIN kids
    <3>1. kids[n][i] \in Parts /\ Contains(kids[n], kids[n][i])
      BY <2>1, ElementOfSeq DEF Contains
    <3> QED
      BY <1>1, <3>1 DEF TrieInv
  <2> QED
    BY <1>1, <2>1, <2>2, <2>3
<1>2. CASE n \notin DOMAIN kids
  <2>1. Kids(n) = <<>>
    BY <1>2 DEF Kids
  <2>2. <<>> \in Seq(Parts) /\ Len(<<>>) = 0 /\ DOMAIN <<>> = {} /\ 1 .. 0 = {}
    BY EmptySeq
  <2> QED
    BY <2>1, <2>2
<1> QED
  BY <1>1, <1>2

\* If the routes are in order with the last one, they were without it.
LEMMA OrderBefore ==
  ASSUME routes \in Seq(Seq(Parts)), NEW p \in Seq(Parts),
         routes' = Append(routes, p), Orderly'
  PROVE  /\ Orderly /\ Fits(p)
         /\ DOMAIN routes' = DOMAIN routes \cup {Len(routes) + 1}
         /\ routes'[Len(routes) + 1] = p
         /\ \A r \in DOMAIN routes : routes'[r] = routes[r]
<1> DEFINE L == Len(routes)
<1>1. L \in Nat /\ DOMAIN routes = 1 .. L
  BY LenProperties
<1>2. /\ routes' \in Seq(Seq(Parts)) /\ Len(routes') = L + 1
      /\ routes'[L + 1] = p /\ \A r \in 1 .. L : routes'[r] = routes[r]
  BY AppendProperties
<1>3. DOMAIN routes' = 1 .. L + 1
  BY <1>2, LenProperties
<1> HIDE DEF L
<1>4. DOMAIN routes' = DOMAIN routes \cup {L + 1}
  BY <1>1, <1>3
<1> DEFINE Ok(q, s) == ~\E i \in DOMAIN q \cap DOMAIN s :
                         /\ Wild(q[i]) /\ q[i] # s[i]
                         /\ \A j \in 1 .. i - 1 : q[j] = s[j]
<1>5. \A r, s \in DOMAIN routes' : r < s => Ok(routes'[r], routes'[s])
  BY DEF Orderly
<1>6. Orderly
  <2>1. \A r, s \in DOMAIN routes : r < s => Ok(routes[r], routes[s])
    <3> HIDE DEF Ok
    <3> QED
      BY <1>1, <1>2, <1>4, <1>5
  <2> QED
    BY <2>1 DEF Orderly
<1>7. Fits(p)
  <2>1. \A r \in DOMAIN routes : Ok(routes[r], p)
    <3>1. \A r \in DOMAIN routes : r < L + 1 /\ r \in DOMAIN routes' /\ r \in 1 .. L
      BY <1>1, <1>4
    <3>2. L + 1 \in DOMAIN routes'
      BY <1>4
    <3> HIDE DEF Ok
    <3> QED
      BY <1>2, <1>5, <3>1, <3>2
  <2> QED
    BY <2>1 DEF Fits
<1> QED
  BY <1>1, <1>2, <1>4, <1>6, <1>7 DEF L

\* addRoute keeps every pattern at its node and wild children last.
LEMMA AddInOrder ==
  ASSUME TrieInv, OwnerInv, RouteInv, NEW p \in Seq(Parts), NEW who, AddRoute(p, who)
  PROVE  RouteInv'
<1> SUFFICES ASSUME Orderly'
             PROVE  /\ \A s \in DOMAIN owner' :
                         /\ s \in DOMAIN kids' /\ leaf'[s] = s
                         /\ Prefixes(s) \subseteq DOMAIN kids'
                    /\ \A n \in DOMAIN kids' :
                         /\ leaf'[n] # None => leaf'[n] = n /\ n \in DOMAIN owner'
                         /\ n # <<>> => \E r \in DOMAIN routes' : Starts(n, routes'[r])
                         /\ \A i \in DOMAIN kids'[n] :
                              Wild(kids'[n][i]) => i = Len(kids'[n])
  BY DEF RouteInv
<1>1. /\ routes' = Append(routes, p) /\ DOMAIN owner' = DOMAIN owner \cup {p}
      /\ routes \in Seq(Seq(Parts))
  BY DEF AddRoute, OwnerInv
<1>2. /\ Orderly /\ Fits(p)
      /\ DOMAIN routes' = DOMAIN routes \cup {Len(routes) + 1}
      /\ routes'[Len(routes) + 1] = p
      /\ \A r \in DOMAIN routes : routes'[r] = routes[r]
  BY <1>1, OrderBefore
<1>3. Place(p) = p
  BY <1>2, PlaceOfFit
<1>4. /\ p \in Prefixes(p) /\ DOMAIN kids' = DOMAIN kids \cup Prefixes(p)
      /\ \A n \in DOMAIN kids' :
           \/ kids'[n] = Kids(n)
           \/ \E x \in Parts : /\ Append(n, x) \in Prefixes(p) /\ ~Contains(Kids(n), x)
                               /\ kids'[n] = Append(Kids(n), x)
      /\ leaf' = [n \in DOMAIN kids' |->
                    IF n = p THEN p ELSE IF n \in DOMAIN kids THEN leaf[n] ELSE None]
  BY <1>3, Added
<1>5. /\ \A s \in DOMAIN owner :
           s \in DOMAIN kids /\ leaf[s] = s /\ Prefixes(s) \subseteq DOMAIN kids
      /\ \A n \in DOMAIN kids :
           /\ leaf[n] # None => leaf[n] = n /\ n \in DOMAIN owner
           /\ n # <<>> => \E r \in DOMAIN routes : Starts(n, routes[r])
           /\ \A i \in DOMAIN kids[n] : Wild(kids[n][i]) => i = Len(kids[n])
  BY <1>2 DEF RouteInv
<1>6. ASSUME NEW s \in DOMAIN owner'
      PROVE  /\ s \in DOMAIN kids' /\ leaf'[s] = s
             /\ Prefixes(s) \subseteq DOMAIN kids'
  BY <1>1, <1>4, <1>5
<1>7. ASSUME NEW n \in DOMAIN kids', leaf'[n] # None
      PROVE  leaf'[n] = n /\ n \in DOMAIN owner'
  BY <1>1, <1>4, <1>5, <1>7
<1>8. ASSUME NEW n \in DOMAIN kids', n # <<>>
      PROVE  \E r \in DOMAIN routes' : Starts(n, routes'[r])
  <2>1. CASE n \in DOMAIN kids
    BY <1>2, <1>5, <1>8, <2>1
  <2>2. CASE n \in Prefixes(p)
    <3>1. Starts(n, p)
      BY <2>2, PrefixStarts
    <3> QED
      BY <1>2, <3>1
  <2> QED
    BY <1>4, <2>1, <2>2
<1>9. ASSUME NEW n \in DOMAIN kids', NEW i \in DOMAIN kids'[n], Wild(kids'[n][i])
      PROVE  i = Len(kids'[n])
  <2>1. n \in Seq(Parts)
    BY <1>4, PrefixStarts DEF TrieInv
  <2>2. /\ Kids(n) \in Seq(Parts) /\ Len(Kids(n)) \in Nat
        /\ DOMAIN Kids(n) = 1 .. Len(Kids(n))
        /\ \A j \in DOMAIN Kids(n) :
             /\ n \in DOMAIN kids /\ Kids(n) = kids[n] /\ Kids(n)[j] \in Parts
             /\ Append(n, Kids(n)[j]) \in DOMAIN kids
    BY <2>1, KidFacts
  <2>3. CASE kids'[n] = Kids(n)
    BY <1>5, <1>9, <2>2, <2>3
  <2>4. ASSUME NEW x \in Parts, Append(n, x) \in Prefixes(p), ~Contains(Kids(n), x),
               kids'[n] = Append(Kids(n), x)
        PROVE  i = Len(kids'[n])
    <3> DEFINE K == Len(Kids(n))
    <3>1. /\ kids'[n] \in Seq(Parts) /\ Len(kids'[n]) = K + 1
          /\ \A j \in 1 .. K : kids'[n][j] = Kids(n)[j]
      BY <2>2, <2>4, AppendProperties
    <3>2. i \in 1 .. K + 1
      BY <3>1, LenProperties
    <3> SUFFICES ASSUME i # K + 1 PROVE FALSE
      BY <3>1
    <3> DEFINE w == Kids(n)[i]
    <3>3. i \in 1 .. K /\ Wild(w) /\ w \in Parts /\ Append(n, w) \in DOMAIN kids
      BY <1>9, <2>2, <3>1, <3>2
    <3>4. w # x
      BY <2>4, <3>3 DEF Contains
    <3> HIDE DEF w
    <3>5. PICK r \in DOMAIN routes :
            /\ Len(n) + 1 \in DOMAIN routes[r] /\ routes[r][Len(n) + 1] = w
            /\ \A j \in 1 .. Len(n) : routes[r][j] = n[j]
      BY <1>2, <2>1, <3>3, OnTheWay
    <3>6. Starts(Append(n, x), p)
      BY <2>4, PrefixStarts
    <3>7. /\ Len(n) \in Nat /\ Len(p) \in Nat /\ DOMAIN p = 1 .. Len(p)
          /\ Len(Append(n, x)) = Len(n) + 1 /\ Append(n, x)[Len(n) + 1] = x
          /\ \A j \in 1 .. Len(n) : Append(n, x)[j] = n[j]
      BY <2>1, LenProperties, AppendProperties
    <3>8. Len(n) + 1 <= Len(p) /\ \A j \in 1 .. Len(n) + 1 : Append(n, x)[j] = p[j]
      BY <3>6, <3>7 DEF Starts
    <3>9. p[Len(n) + 1] = x /\ \A j \in 1 .. Len(n) : n[j] = p[j]
      BY <3>7, <3>8
    <3>10. Len(n) + 1 \in DOMAIN routes[r] \cap DOMAIN p /\ (Len(n) + 1) - 1 = Len(n)
      BY <3>5, <3>7, <3>8
    <3> QED
      BY <1>2, <3>3, <3>4, <3>5, <3>9, <3>10 DEF Fits
  <2> QED
    BY <1>4, <2>3, <2>4
<1> QED
  BY <1>6, <1>7, <1>8, <1>9

\* A group comes after the one it was made from, and its prefix begins there.
GroupInv ==
  \A g \in DOMAIN groups :
    /\ groups[g].parent \in 0 .. g - 1
    /\ groups[g].parent # 0 =>
         Starts(groups[groups[g].parent].prefix, groups[g].prefix)

RoutesInv == OwnerInv /\ NodeInv /\ RouteInv /\ GroupInv

\* addRoute appends a child only where there was none like it.
LEMMA AddNode ==
  ASSUME TrieInv, NodeInv, OwnerInv, NEW p \in Seq(Parts), NEW who, AddRoute(p, who)
  PROVE  NodeInv'
<1>1. /\ Len(Place(p)) = Len(p)
      /\ DOMAIN kids' = DOMAIN kids \cup Prefixes(Place(p))
      /\ \A n \in DOMAIN kids' :
           \/ kids'[n] = Kids(n)
           \/ \E x \in Parts :
                /\ Append(n, x) \in Prefixes(Place(p)) /\ ~Contains(Kids(n), x)
                /\ kids'[n] = Append(Kids(n), x)
      /\ leaf' = [n \in DOMAIN kids' |->
                    IF n = Place(p) THEN p
                    ELSE IF n \in DOMAIN kids THEN leaf[n] ELSE None]
      /\ Place(p) \in Seq(Parts)
  BY Added
<1>2. DOMAIN owner' = DOMAIN owner \cup {p}
  BY DEF AddRoute
<1>3. ASSUME NEW n \in DOMAIN kids', leaf'[n] # None
      PROVE  leaf'[n] \in DOMAIN owner' /\ Len(leaf'[n]) = Len(n)
  <2>1. CASE n = Place(p)
    BY <1>1, <1>2, <2>1
  <2>2. CASE n # Place(p)
    <3>1. n \in DOMAIN kids /\ leaf'[n] = leaf[n]
      BY <1>1, <1>3, <2>2
    <3> QED
      BY <1>2, <1>3, <3>1 DEF NodeInv
  <2> QED
    BY <2>1, <2>2
<1>4. ASSUME NEW n \in DOMAIN kids' PROVE IsInjective(kids'[n])
  <2>1. n \in Seq(Parts)
    BY <1>1, PrefixStarts DEF TrieInv
  <2>2. /\ Kids(n) \in Seq(Parts) /\ Len(Kids(n)) \in Nat
        /\ DOMAIN Kids(n) = 1 .. Len(Kids(n))
        /\ \A j \in DOMAIN Kids(n) : n \in DOMAIN kids /\ Kids(n) = kids[n]
    BY <2>1, KidFacts
  <2>3. IsInjective(Kids(n))
    <3>1. CASE n \in DOMAIN kids
      BY <3>1 DEF NodeInv, Kids
    <3>2. CASE n \notin DOMAIN kids
      BY <2>2, <3>2 DEF IsInjective
    <3> QED
      BY <3>1, <3>2
  <2>4. ASSUME NEW x \in Parts, ~Contains(Kids(n), x), kids'[n] = Append(Kids(n), x)
        PROVE  IsInjective(kids'[n])
    <3> DEFINE K == Len(Kids(n))
               s == kids'[n]
    <3>1. /\ s \in Seq(Parts) /\ Len(s) = K + 1 /\ s[K + 1] = x
          /\ \A j \in 1 .. K : s[j] = Kids(n)[j]
      BY <2>2, <2>4, AppendProperties
    <3>2. DOMAIN s = 1 .. K + 1
      BY <3>1, LenProperties
    <3>3. \A j \in 1 .. K : Kids(n)[j] # x
      BY <2>4 DEF Contains
    <3>4. \A i, j \in 1 .. K : Kids(n)[i] = Kids(n)[j] => i = j
      BY <2>2, <2>3 DEF IsInjective
    <3>5. \A i \in 1 .. K + 1 : i = K + 1 \/ i \in 1 .. K
      BY <2>2
    <3> HIDE DEF K, s
    <3>6. \A i, j \in 1 .. K + 1 : s[i] = s[j] => i = j
      BY <3>1, <3>3, <3>4, <3>5
    <3> QED
      BY <3>2, <3>6 DEF IsInjective, s
  <2> QED
    BY <1>1, <2>3, <2>4
<1> QED
  BY <1>3, <1>4 DEF NodeInv

LEMMA RoutesInit == Init => RoutesInv
<1> SUFFICES ASSUME Init PROVE RoutesInv
  OBVIOUS
<1>1. /\ DOMAIN kids = {<<>>} /\ kids[<<>>] = <<>> /\ leaf[<<>>] = None
      /\ DOMAIN owner = {} /\ routes = <<>>
      /\ groups = <<[prefix |-> <<>>, uses |-> <<>>, parent |-> 0]>>
  BY DEF Init, RouterInit
<1>2. /\ <<>> \in Seq(Seq(Parts)) /\ Len(<<>>) = 0 /\ DOMAIN <<>> = {} /\ 1 .. 0 = {}
  BY EmptySeq
<1>3. OwnerInv
  BY <1>1, <1>2 DEF OwnerInv, Contains
<1>4. NodeInv
  BY <1>1, <1>2 DEF NodeInv, IsInjective
<1>5. RouteInv
  BY <1>1, <1>2 DEF RouteInv
<1>6. GroupInv
  <2>1. DOMAIN groups = {1} /\ groups[1].parent = 0 /\ 0 \in 0 .. 1 - 1
    BY <1>1
  <2> QED
    BY <2>1 DEF GroupInv
<1> QED
  BY <1>3, <1>4, <1>5, <1>6 DEF RoutesInv

LEMMA RoutesStep ==
  ASSUME ChainInv, TrieInv, RoutesInv, [Next]_vars PROVE RoutesInv'
<1>0. /\ OwnerInv /\ NodeInv /\ RouteInv /\ GroupInv
      /\ groups \in Seq(GroupType) /\ Len(groups) \in Nat
      /\ DOMAIN groups = 1 .. Len(groups)
  BY LenProperties DEF RoutesInv, ChainInv
<1>1. ASSUME NEW g \in DOMAIN groups, NEW suffix \in Patterns, Register(g, suffix)
      PROVE  RoutesInv'
  <2> DEFINE p == PartsOf(groups[g].prefix \o suffix)
  <2>1. /\ p \in Seq(Parts) /\ Written(p, groups[g].prefix)
        /\ \A i \in 1 .. Len(p) - 1 : p[i] \notin Stars
    BY Patterned
  <2>2. AddRoute(p, g) /\ groups' = groups
    BY <1>1 DEF Register
  <2> HIDE DEF p
  <2>3. RouteInv' /\ NodeInv'
    BY <1>0, <2>1, <2>2, AddInOrder, AddNode
  <2>4. GroupInv'
    BY <1>0, <2>2 DEF GroupInv
  <2>5. OwnerInv'
    <3>1. /\ routes' = Append(routes, p)
          /\ owner' = [q \in DOMAIN owner \cup {p} |-> IF q = p THEN g ELSE owner[q]]
      BY <2>2 DEF AddRoute
    <3>2. routes \in Seq(Seq(Parts)) /\ routes' \in Seq(Seq(Parts))
      BY <1>0, <2>1, <3>1, AppendProperties DEF OwnerInv
    <3>3. \A q : Contains(routes', q) <=> Contains(routes, q) \/ q = p
      <4>1. /\ Len(routes) \in Nat /\ Len(routes') = Len(routes) + 1
            /\ routes'[Len(routes) + 1] = p
            /\ \A i \in 1 .. Len(routes) : routes'[i] = routes[i]
        BY <2>1, <3>1, <3>2, LenProperties, AppendProperties
      <4>2. \A i \in 1 .. Len(routes) + 1 : i = Len(routes) + 1 \/ i \in 1 .. Len(routes)
        BY <4>1
      <4>3. /\ Len(routes) + 1 \in 1 .. Len(routes')
            /\ \A i \in 1 .. Len(routes) : i \in 1 .. Len(routes')
        BY <4>1
      <4> QED
        BY <4>1, <4>2, <4>3 DEF Contains
    <3>4. \A q : q \in DOMAIN owner' <=> Contains(routes', q)
      BY <1>0, <3>1, <3>3 DEF OwnerInv
    <3>5. ASSUME NEW q \in DOMAIN owner'
          PROVE  /\ \A i \in 1 .. Len(q) - 1 : q[i] \notin Stars
                 /\ owner'[q] \in DOMAIN groups /\ Written(q, groups[owner'[q]].prefix)
      <4>1. CASE q = p
        BY <2>1, <3>1, <4>1
      <4>2. CASE q # p
        <5>1. q \in DOMAIN owner /\ owner'[q] = owner[q]
          BY <3>1, <4>2
        <5> QED
          BY <1>0, <5>1 DEF OwnerInv
      <4> QED
        BY <4>1, <4>2
    <3> QED
      BY <2>2, <3>2, <3>4, <3>5 DEF OwnerInv
  <2> QED
    BY <2>3, <2>4, <2>5 DEF RoutesInv
<1>2. ASSUME UNCHANGED routerVars, DOMAIN groups \subseteq DOMAIN groups', GroupInv',
             \A g \in DOMAIN groups : groups'[g].prefix = groups[g].prefix
      PROVE  RoutesInv'
  <2>1. OwnerInv'
    BY <1>0, <1>2 DEF OwnerInv, routerVars
  <2>2. NodeInv' /\ RouteInv'
    BY <1>0, <1>2 DEF NodeInv, RouteInv, Orderly, routerVars
  <2> QED
    BY <1>2, <2>1, <2>2 DEF RoutesInv
<1>3. ASSUME NEW g \in DOMAIN groups, NEW sub \in Subs, Group(g, sub) PROVE RoutesInv'
  <2> DEFINE N == Len(groups)
             r == [prefix |-> groups[g].prefix \o sub, uses |-> <<>>, parent |-> g]
  <2>1. groups[g].prefix \in Seq(Segments) /\ sub \in Seq(Segments)
    <3>1. groups[g] \in GroupType
      BY <1>0, ElementOfSeq
    <3> QED
      BY <3>1, WebAssumption DEF GroupType
  <2>2. r \in GroupType /\ Starts(groups[g].prefix, r.prefix)
    <3>1. groups[g].prefix \o sub \in Seq(Segments)
      BY <2>1, ConcatProperties
    <3>2. g \in Nat
      BY <1>0
    <3>3. r \in GroupType
      BY <3>1, <3>2, EmptySeq DEF GroupType
    <3> QED
      BY <2>1, <3>3, ConcatStarts
  <2>3. groups' = Append(groups, r) /\ UNCHANGED routerVars
    BY <1>3 DEF Group
  <2>4. r.parent = g
    OBVIOUS
  <2> HIDE DEF r
  <2>5. /\ groups' \in Seq(GroupType) /\ Len(groups') = N + 1 /\ groups'[N + 1] = r
        /\ \A h \in 1 .. N : groups'[h] = groups[h]
    BY <1>0, <2>2, <2>3, AppendProperties
  <2>6. DOMAIN groups' = 1 .. N + 1
    BY <2>5, LenProperties
  <2>7. ASSUME NEW h \in 1 .. N + 1
        PROVE  /\ groups'[h].parent \in 0 .. h - 1
               /\ groups'[h].parent # 0 =>
                    Starts(groups'[groups'[h].parent].prefix, groups'[h].prefix)
    <3>1. CASE h = N + 1
      <4>1. g \in 0 .. h - 1 /\ g \in 1 .. N
        BY <1>0, <3>1
      <4> QED
        BY <2>2, <2>4, <2>5, <3>1, <4>1
    <3>2. CASE h # N + 1
      <4>1. h \in 1 .. N
        BY <1>0, <3>2
      <4>2. /\ groups[h].parent \in 0 .. h - 1
            /\ groups[h].parent # 0 =>
                 Starts(groups[groups[h].parent].prefix, groups[h].prefix)
        BY <1>0, <4>1 DEF GroupInv
      <4>3. groups[h].parent # 0 => groups[h].parent \in 1 .. N
        BY <1>0, <4>1, <4>2
      <4> QED
        BY <2>5, <4>1, <4>2, <4>3
    <3> QED
      BY <3>1, <3>2
  <2>8. GroupInv'
    BY <2>6, <2>7 DEF GroupInv
  <2>9. DOMAIN groups \subseteq DOMAIN groups'
    BY <1>0, <2>6
  <2> QED
    BY <1>0, <1>2, <2>3, <2>5, <2>8, <2>9
<1>4. ASSUME NEW g \in DOMAIN groups, NEW kind \in Kinds, Use(g, kind) PROVE RoutesInv'
  <2>1. groups' = [groups EXCEPT ![g].uses = Append(@, kind)] /\ UNCHANGED routerVars
    BY <1>4 DEF Use
  <2>2. \A h \in DOMAIN groups : groups[h] \in GroupType
    BY <1>0, ElementOfSeq
  <2>3. DOMAIN groups' = DOMAIN groups
    BY <2>1
  <2>4. ASSUME NEW h \in DOMAIN groups
        PROVE  groups'[h].prefix = groups[h].prefix /\ groups'[h].parent = groups[h].parent
    BY <2>1, <2>2 DEF GroupType
  <2>5. GroupInv'
    <3>1. ASSUME NEW h \in DOMAIN groups, groups[h].parent # 0
          PROVE  groups[h].parent \in DOMAIN groups
      <4>1. groups[h].parent \in 0 .. h - 1
        BY <1>0 DEF GroupInv
      <4> QED
        BY <1>0, <3>1, <4>1
    <3> QED
      BY <1>0, <2>3, <2>4, <3>1 DEF GroupInv
  <2> QED
    BY <1>2, <2>1, <2>3, <2>4, <2>5
<1>5. ASSUME UNCHANGED <<routerVars, groups>> PROVE RoutesInv'
  <2>1. GroupInv'
    BY <1>0, <1>5 DEF GroupInv
  <2> QED
    BY <1>2, <1>5, <2>1
<1> QED
  BY <1>1, <1>3, <1>4, <1>5
  DEF Next, Serve, Step, CallNext, HandlerReturns, PanicRecovered,
      PanicAborts, Finish, vars

------------------------------------------------------------------------------
(* The closest route.                                                      *)

LEMMA StartsPrefix ==
  ASSUME NEW p \in Seq(Parts), NEW n \in Seq(Parts), Starts(n, p)
  PROVE  n \in Prefixes(p)
<1> DEFINE l == Len(n)
           t == SubSeq(p, 1, l)
<1>1. /\ Len(p) \in Nat /\ l \in Nat /\ l <= Len(p)
      /\ \A j \in 1 .. Len(p) : p[j] \in Parts
      /\ \A j \in 1 .. l : n[j] = p[j]
  BY LenProperties, ElementOfSeq DEF Starts
<1>2. /\ l \in Int /\ 1 \in Int /\ \A j \in 1 .. l : j \in 1 .. Len(p) /\ 1 + j - 1 = j
      /\ l - 1 + 1 = l /\ (~(1 <= l) => l = 0)
  BY <1>1
<1> HIDE DEF l
<1>3. /\ t \in Seq(Parts) /\ Len(t) = IF 1 <= l THEN l - 1 + 1 ELSE 0
      /\ \A j \in 1 .. l - 1 + 1 : t[j] = p[1 + j - 1]
  BY <1>1, <1>2, SubSeqProperties
<1> HIDE DEF t
<1>4. Len(t) = l /\ \A j \in 1 .. l : t[j] = n[j]
  BY <1>1, <1>2, <1>3
<1>5. t = n
  BY <1>3, <1>4, SeqEqual DEF l
<1>6. l \in 0 .. Len(p)
  BY <1>1
<1> QED
  BY <1>5, <1>6 DEF Prefixes, t

\* The routes for a path that lead through the node n.
Through(path, n) == {p \in DOMAIN owner : Matches(p, path) /\ Starts(n, p)}

\* r is the closest of them, or None if there is none.
Closest(path, n, r) ==
  IF Through(path, n) = {} THEN r = None
  ELSE /\ r \in Through(path, n)
       /\ \A q \in Through(path, n) \ {r} : Closer(r, q)

\* The node n is on the way of search.
OnPath(path, n) ==
  Len(n) <= Len(path) /\ \A j \in 1 .. Len(n) : Match(n[j], path[j])

\* A route that leads through the node n is at n, or further down.
LEMMA ThroughFacts ==
  ASSUME OwnerInv, NEW path, NEW n \in Seq(Parts), NEW p \in Through(path, n)
  PROVE  /\ p \in DOMAIN owner /\ Matches(p, path) /\ Starts(n, p)
         /\ p \in Seq(Parts) /\ p # None
         /\ Len(p) \in Nat /\ DOMAIN p = 1 .. Len(p)
         /\ Len(n) \in Nat /\ (p = n \/ Len(n) < Len(p))
<1>1. p \in DOMAIN owner /\ Matches(p, path) /\ Starts(n, p)
  BY DEF Through
<1>2. p \in Seq(Parts)
  <2>1. PICK i \in 1 .. Len(routes) : routes[i] = p
    BY <1>1 DEF OwnerInv, Contains
  <2> QED
    BY <2>1, ElementOfSeq DEF OwnerInv
<1>3. Len(p) \in Nat /\ DOMAIN p = 1 .. Len(p) /\ Len(n) \in Nat
  BY <1>2, LenProperties
<1>4. Len(n) <= Len(p) /\ \A j \in 1 .. Len(n) : n[j] = p[j]
  BY <1>1 DEF Starts
<1>5. Len(n) = Len(p) => p = n
  BY <1>2, <1>4, SeqEqual
<1> QED
  BY <1>1, <1>2, <1>3, <1>4, <1>5, RouterAssumption

\* Where search is over, the route of the node is the only one through it.
LEMMA EndClosest ==
  ASSUME TrieInv, OwnerInv, RouteInv, Orderly, NEW path, Len(path) \in Nat,
         NEW n \in DOMAIN kids, OnPath(path, n), AtEnd(n, path)
  PROVE  Closest(path, n, leaf[n])
<1>1. /\ n \in Seq(Parts) /\ n # None /\ Len(n) \in Nat /\ DOMAIN n = 1 .. Len(n)
      /\ n # <<>> => Len(n) # 0
  BY LenProperties, EmptySeq, RouterAssumption DEF TrieInv
<1>2. ASSUME NEW q \in Through(path, n) PROVE q = n
  <2>1. /\ q \in DOMAIN owner /\ Matches(q, path) /\ Starts(n, q)
        /\ Len(q) \in Nat /\ DOMAIN q = 1 .. Len(q)
        /\ q = n \/ Len(n) < Len(q)
    BY <1>1, ThroughFacts
  <2> SUFFICES ASSUME Len(n) < Len(q) PROVE FALSE
    BY <2>1
  <2>2. CASE n # <<>> /\ Last(n) \in Stars
    <3>1. Len(n) \in 1 .. Len(q) - 1 /\ Len(n) \in 1 .. Len(n)
      BY <1>1, <2>1, <2>2
    <3>2. q[Len(n)] \in Stars
      BY <2>1, <2>2, <3>1 DEF Starts, Last
    <3> QED
      BY <2>1, <3>1, <3>2 DEF OwnerInv
  <2>3. CASE Len(n) = Len(path)
    <3>1. Len(path) >= Len(q)
      BY <2>1 DEF Matches
    <3> QED
      BY <1>1, <2>1, <2>3, <3>1
  <2> QED
    BY <2>2, <2>3 DEF AtEnd
<1>3. ASSUME n \in DOMAIN owner PROVE n \in Through(path, n) /\ leaf[n] = n
  <2>1. Matches(n, path)
    <3>1. \A i \in DOMAIN n : Match(n[i], path[i])
      BY <1>1 DEF OnPath
    <3>2. CASE n # <<>> /\ Last(n) \in Stars
      <4>1. Len(path) >= Len(n)
        BY <1>1 DEF OnPath
      <4> QED
        BY <3>1, <3>2, <4>1 DEF Matches
    <3>3. CASE ~(n # <<>> /\ Last(n) \in Stars)
      BY <3>1, <3>3 DEF Matches, AtEnd
    <3> QED
      BY <3>2, <3>3
  <2>2. Starts(n, n)
    BY <1>1 DEF Starts
  <2> QED
    BY <1>3, <2>1, <2>2 DEF Through, RouteInv
<1>4. CASE leaf[n] = None
  <2>1. n \notin DOMAIN owner
    BY <1>1, <1>3, <1>4
  <2>2. Through(path, n) = {}
    BY <1>2, <2>1 DEF Through
  <2> QED
    BY <1>4, <2>2 DEF Closest
<1>5. CASE leaf[n] # None
  <2>1. n \in DOMAIN owner
    BY <1>5 DEF RouteInv
  <2>2. Through(path, n) = {n} /\ leaf[n] = n
    BY <1>2, <1>3, <2>1
  <2> QED
    BY <2>2 DEF Closest
<1> QED
  BY <1>4, <1>5

\* Elsewhere the first child that has one has the closest one.
LEMMA InnerClosest ==
  ASSUME TrieInv, OwnerInv, NodeInv, RouteInv, Orderly,
         NEW path, Len(path) \in Nat, NEW f, NEW n \in DOMAIN kids,
         ~AtEnd(n, path), Len(n) < Len(path),
         \A i \in DOMAIN kids[n] : Match(kids[n][i], path[Len(n) + 1]) =>
           Closest(path, Append(n, kids[n][i]), f[Append(n, kids[n][i])])
  PROVE  Closest(path, n, Searched(path, f, n))
<1> DEFINE N == Len(n)
           m(i) == Append(n, kids[n][i])
           H == Hits(path, f, n)
<1>1. /\ n \in Seq(Parts) /\ N \in Nat /\ kids[n] \in Seq(Parts)
      /\ DOMAIN kids[n] = 1 .. Len(kids[n]) /\ Len(kids[n]) \in Nat
  BY LenProperties DEF TrieInv
<1>2. ASSUME NEW i \in DOMAIN kids[n]
      PROVE  /\ kids[n][i] \in Parts /\ m(i) \in Seq(Parts) /\ m(i) \in DOMAIN kids
             /\ Len(m(i)) = N + 1 /\ m(i)[N + 1] = kids[n][i]
             /\ \A j \in 1 .. N : m(i)[j] = n[j]
  <2>1. kids[n][i] \in Parts
    BY <1>1, ElementOfSeq
  <2> QED
    BY <1>1, <2>1, HitFacts, AppendProperties
<1>3. H = {i \in DOMAIN kids[n] : Match(kids[n][i], path[N + 1]) /\ f[m(i)] # None}
  BY DEF Hits
<1> HIDE DEF N, m, H
<1>4. ASSUME NEW i \in DOMAIN kids[n], NEW q \in Through(path, m(i))
      PROVE  /\ q \in Through(path, n) /\ q \in Seq(Parts) /\ q # None
             /\ N + 1 \in DOMAIN q /\ q[N + 1] = kids[n][i]
             /\ \A j \in 1 .. N : q[j] = n[j]
  <2>1. /\ q \in DOMAIN owner /\ Matches(q, path) /\ Starts(m(i), q)
        /\ q \in Seq(Parts) /\ q # None
        /\ Len(q) \in Nat /\ DOMAIN q = 1 .. Len(q)
    BY <1>2, ThroughFacts
  <2>2. N + 1 <= Len(q) /\ \A j \in 1 .. N + 1 : m(i)[j] = q[j]
    BY <1>2, <2>1 DEF Starts
  <2>3. q[N + 1] = kids[n][i] /\ \A j \in 1 .. N : q[j] = n[j]
    BY <1>1, <1>2, <2>2
  <2>4. Starts(n, q) /\ N + 1 \in DOMAIN q
    BY <1>1, <2>1, <2>2, <2>3 DEF Starts, N
  <2> QED
    BY <2>1, <2>3, <2>4 DEF Through
<1>5. ASSUME NEW q \in Through(path, n)
      PROVE  \E i \in DOMAIN kids[n] :
               q \in Through(path, m(i)) /\ Match(kids[n][i], path[N + 1])
  <2>1. /\ q \in DOMAIN owner /\ Matches(q, path) /\ Starts(n, q)
        /\ q \in Seq(Parts) /\ Len(q) \in Nat /\ DOMAIN q = 1 .. Len(q)
        /\ q = n \/ N < Len(q)
    BY <1>1, ThroughFacts DEF N
  <2>2. q # n
    BY <2>1 DEF Matches, AtEnd
  <2> DEFINE x == q[N + 1]
             k == Append(n, x)
  <2>3. N + 1 \in DOMAIN q /\ N + 1 <= Len(q) /\ x \in Parts
    <3>1. N + 1 \in 1 .. Len(q)
      BY <1>1, <2>1, <2>2
    <3> QED
      BY <2>1, <3>1, ElementOfSeq
  <2>4. Match(x, path[N + 1])
    BY <2>1, <2>3 DEF Matches
  <2> HIDE DEF x
  <2>5. /\ k \in Seq(Parts) /\ Len(k) = N + 1 /\ k[N + 1] = x
        /\ \A j \in 1 .. N : k[j] = n[j]
    BY <1>1, <2>3, AppendProperties DEF N
  <2> HIDE DEF k
  <2>6. Starts(k, q)
    <3>1. \A j \in 1 .. N : n[j] = q[j]
      BY <2>1 DEF Starts, N
    <3>2. \A j \in 1 .. N + 1 : j = N + 1 \/ j \in 1 .. N
      BY <1>1
    <3>3. \A j \in 1 .. N + 1 : k[j] = q[j]
      BY <2>5, <3>1, <3>2 DEF x
    <3> QED
      BY <2>3, <2>5, <3>3 DEF Starts
  <2>7. k \in DOMAIN kids
    BY <2>1, <2>5, <2>6, StartsPrefix DEF RouteInv
  <2>8. PICK i \in DOMAIN kids[n] : kids[n][i] = x
    BY <1>1, <2>3, <2>7 DEF TrieInv, Contains, k
  <2>9. m(i) = k
    BY <2>8 DEF m, k
  <2> QED
    BY <2>1, <2>4, <2>6, <2>8, <2>9 DEF Through
<1>6. ASSUME NEW i \in DOMAIN kids[n], Match(kids[n][i], path[N + 1])
      PROVE  /\ f[m(i)] = None => Through(path, m(i)) = {}
             /\ f[m(i)] # None =>
                  /\ f[m(i)] \in Through(path, m(i))
                  /\ \A q \in Through(path, m(i)) \ {f[m(i)]} : Closer(f[m(i)], q)
  <2>1. Closest(path, m(i), f[m(i)])
    BY <1>6 DEF m, N
  <2>2. \A q \in Through(path, m(i)) : q # None
    BY <1>4
  <2> QED
    BY <2>1, <2>2 DEF Closest
<1>7. CASE H = {}
  <2>1. Through(path, n) = {}
    BY <1>3, <1>5, <1>6, <1>7
  <2>2. Searched(path, f, n) = None
    BY <1>7 DEF Searched, H
  <2> QED
    BY <2>1, <2>2 DEF Closest
<1>8. CASE H # {}
  <2> DEFINE h == Min(H)
             r == f[m(h)]
  <2>1. h \in H /\ \A i \in H : h <= i
    <3>1. H \in SUBSET Nat
      BY <1>1, <1>3
    <3> QED
      BY <1>8, <3>1, MinOfNat
  <2>2. Searched(path, f, n) = r
    BY <1>8 DEF Searched, H, m
  <2> HIDE DEF h
  <2>3. /\ h \in DOMAIN kids[n] /\ r # None /\ r \in Through(path, m(h))
        /\ \A q \in Through(path, m(h)) \ {r} : Closer(r, q)
    BY <1>3, <1>6, <2>1
  <2> HIDE DEF r
  <2>4. /\ r \in Through(path, n) /\ N + 1 \in DOMAIN r /\ r[N + 1] = kids[n][h]
        /\ \A j \in 1 .. N : r[j] = n[j]
    BY <1>4, <2>3
  <2>5. ASSUME NEW q \in Through(path, n) \ {r} PROVE Closer(r, q)
    <3>1. PICK i \in DOMAIN kids[n] :
            q \in Through(path, m(i)) /\ Match(kids[n][i], path[N + 1])
      BY <1>5
    <3>2. i \in H
      BY <1>3, <1>6, <3>1
    <3>3. /\ N + 1 \in DOMAIN q /\ q[N + 1] = kids[n][i]
          /\ \A j \in 1 .. N : q[j] = n[j]
      BY <1>4, <3>1
    <3>4. CASE i = h
      BY <2>3, <3>1, <3>4
    <3>5. CASE i # h
      <4>1. h < i /\ i <= Len(kids[n]) /\ h # Len(kids[n])
        BY <1>1, <2>1, <2>3, <3>2, <3>5
      <4>2. ~Wild(kids[n][h])
        BY <2>3, <4>1 DEF RouteInv
      <4>3. kids[n][h] # kids[n][i]
        BY <2>3, <3>5 DEF NodeInv, IsInjective
      <4>4. (N + 1) - 1 = N /\ N + 1 \in DOMAIN r \cap DOMAIN q
        BY <1>1, <2>4, <3>3
      <4> QED
        BY <2>4, <3>3, <4>2, <4>3, <4>4 DEF Closer
    <3> QED
      BY <3>4, <3>5
  <2> QED
    BY <2>2, <2>4, <2>5 DEF Closest
<1> QED
  BY <1>7, <1>8

\* search finds the closest match of all routes.
LEMMA FindsClosest ==
  ASSUME TrieInv, OwnerInv, NodeInv, RouteInv, Orderly, NEW path, Len(path) \in Nat
  PROVE  Closest(path, <<>>, Found(path))
<1>1. PICK f : Search(path, f) /\ Found(path) = f[<<>>]
  <2>1. PICK g : Search(path, g)
    BY SearchExists
  <2> QED
    BY <2>1 DEF Found, Search, Searched, Hits
<1>2. \A n \in DOMAIN kids : f[n] = Searched(path, f, n)
  BY <1>1 DEF Search
<1>3. ASSUME NEW n \in DOMAIN kids, OnPath(path, n), AtEnd(n, path)
      PROVE  Closest(path, n, f[n])
  <2>1. f[n] = leaf[n]
    BY <1>2, <1>3 DEF Searched
  <2> QED
    BY <1>3, <2>1, EndClosest
<1> DEFINE Good(k) == \A n \in DOMAIN kids :
                        OnPath(path, n) /\ Len(n) + k = Len(path) => Closest(path, n, f[n])
           S == {k \in Nat : Good(k)}
<1>4. 0 \in S
  <2>1. \A n \in DOMAIN kids : Len(n) + 0 = Len(path) => AtEnd(n, path)
    BY HitFacts DEF AtEnd
  <2> QED
    BY <1>3, <2>1
<1>5. ASSUME NEW k \in S PROVE k + 1 \in S
  <2>0. k \in Nat /\ Good(k)
    OBVIOUS
  <2>1. ASSUME NEW n \in DOMAIN kids, OnPath(path, n), Len(n) + (k + 1) = Len(path),
               ~AtEnd(n, path)
        PROVE  Closest(path, n, f[n])
    <3>1. /\ n \in Seq(Parts) /\ Len(n) \in Nat /\ Len(n) < Len(path)
          /\ (Len(n) + 1) + k = Len(path) /\ Len(n) + 1 <= Len(path)
          /\ kids[n] \in Seq(Parts) /\ DOMAIN kids[n] = 1 .. Len(kids[n])
      BY <2>0, <2>1, LenProperties DEF TrieInv
    <3>2. ASSUME NEW i \in DOMAIN kids[n], Match(kids[n][i], path[Len(n) + 1])
          PROVE  Closest(path, Append(n, kids[n][i]), f[Append(n, kids[n][i])])
      <4> DEFINE m == Append(n, kids[n][i])
      <4>1. kids[n][i] \in Parts
        BY <3>1, ElementOfSeq
      <4>2. /\ m \in DOMAIN kids /\ Len(m) = Len(n) + 1 /\ m[Len(n) + 1] = kids[n][i]
            /\ \A j \in 1 .. Len(n) : m[j] = n[j]
        BY <3>1, <4>1, HitFacts, AppendProperties
      <4> HIDE DEF m
      <4>3. \A j \in 1 .. Len(m) : j = Len(n) + 1 \/ j \in 1 .. Len(n)
        BY <3>1, <4>2
      <4>4. OnPath(path, m)
        BY <2>1, <3>1, <3>2, <4>2, <4>3 DEF OnPath
      <4> QED
        BY <2>0, <3>1, <4>2, <4>4 DEF m
    <3>3. Closest(path, n, Searched(path, f, n))
      BY <2>1, <3>1, <3>2, InnerClosest
    <3> QED
      BY <1>2, <3>3
  <2>2. Good(k + 1)
    BY <1>3, <2>1
  <2> HIDE DEF Good
  <2> QED
    BY <2>0, <2>2
<1>6. S \in SUBSET Nat
  OBVIOUS
<1>7. S = Nat
  <2> HIDE DEF S
  <2> QED
    BY <1>4, <1>5, <1>6, SetInduction
<1>8. Good(Len(path))
  <2>1. Len(path) \in S
    <3> HIDE DEF S
    <3> QED
      BY <1>7
  <2> HIDE DEF Good
  <2> QED
    BY <2>1
<1>9. <<>> \in DOMAIN kids /\ Len(<<>>) = 0
  BY EmptySeq DEF TrieInv
<1>10. OnPath(path, <<>>) /\ Len(<<>>) + Len(path) = Len(path)
  BY <1>9 DEF OnPath
<1> QED
  BY <1>1, <1>8, <1>9, <1>10

\* A path is routed by its parts, of which it has no more than segments.
LEMMA RequestTyped ==
  /\ Paths \subseteq Seq(Segments)
  /\ \A path \in Paths : PartsOf(path) \in Seq(Parts) /\ Len(PartsOf(path)) <= Len(path)
  /\ Requested \subseteq Seq(Parts)
<1>1. Plain \subseteq Segments
  BY DEF Plain, Segments, Parts
<1>2. Paths \subseteq Seq(Segments)
  BY <1>1, WebAssumption, SeqMonotonic
<1> QED
  BY <1>2, PartsTyped DEF Requested

THEOREM RoutesInvariance == Spec => []RoutesInv
  BY ChainInvariance, TrieInvariance, RoutesInit, RoutesStep, PTL DEF Spec

\* trie.go:33-73: for any patterns and groups, as long as no route differs from
\* an earlier one where that is wild, search finds the closest of the routes
\* that match a path, and nothing when none does.
THEOREM ClosestRoute == Spec => []RoutedRight
<1>1. TrieInv /\ RoutesInv => RoutedRight
  <2> SUFFICES ASSUME TrieInv, RoutesInv, Orderly, NEW path \in Requested
               PROVE  LET all == {p \in DOMAIN owner : Matches(p, path)} IN
                      IF all = {} THEN Found(path) = None
                      ELSE /\ Found(path) \in all
                           /\ \A q \in all \ {Found(path)} : Closer(Found(path), q)
    BY DEF RoutedRight
  <2>1. Len(path) \in Nat
    BY RequestTyped, LenProperties
  <2>2. Closest(path, <<>>, Found(path))
    BY <2>1, FindsClosest DEF RoutesInv
  <2>3. Through(path, <<>>) = {p \in DOMAIN owner : Matches(p, path)}
    <3>1. ASSUME NEW p \in DOMAIN owner PROVE Starts(<<>>, p)
      <4>1. p \in Seq(Parts)
        <5>1. PICK i \in 1 .. Len(routes) : routes[i] = p
          BY DEF RoutesInv, OwnerInv, Contains
        <5> QED
          BY <5>1, ElementOfSeq DEF RoutesInv, OwnerInv
      <4>2. Len(<<>>) = 0 /\ Len(p) \in Nat
        BY <4>1, EmptySeq, LenProperties
      <4> QED
        BY <4>2 DEF Starts
    <3> QED
      BY <3>1 DEF Through
  <2> QED
    BY <2>2, <2>3 DEF Closest
<1> QED
  BY TrieInvariance, RoutesInvariance, <1>1, PTL

------------------------------------------------------------------------------
(* Groups.                                                                 *)

\* The recursive function of Lineage, as far as the group k.
Up(k, up) ==
  up = [h \in 0 .. k |-> IF h = 0 THEN {} ELSE {h} \cup up[groups[h].parent]]

LEMMA UpExists ==
  ASSUME GroupInv, NEW N \in Nat, DOMAIN groups = 1 .. N
  PROVE  \E up : Up(N, up)
<1> DEFINE S == {k \in Nat : k <= N => \E up : Up(k, up)}
<1>1. 0 \in S
  <2> DEFINE up == [h \in 0 .. 0 |-> {}]
  <2>1. Up(0, up)
    BY DEF Up
  <2> HIDE DEF up
  <2> QED
    BY <2>1
<1>2. ASSUME NEW k \in S PROVE k + 1 \in S
  <2>0. k \in Nat /\ (k <= N => \E up : Up(k, up))
    OBVIOUS
  <2> SUFFICES ASSUME k + 1 <= N PROVE \E up : Up(k + 1, up)
    BY <2>0
  <2>1. PICK f : Up(k, f)
    BY <2>0
  <2> DEFINE par(h) == groups[h].parent
             g == [h \in 0 .. k + 1 |-> IF h = k + 1 THEN {h} \cup f[par(h)] ELSE f[h]]
  <2>2. \A h \in 1 .. N : par(h) \in 0 .. h - 1
    BY DEF GroupInv
  <2> HIDE DEF par
  <2>3. \A h \in 0 .. k : f[h] = IF h = 0 THEN {} ELSE {h} \cup f[par(h)]
    BY <2>1 DEF Up, par
  <2>4. ASSUME NEW h \in 0 .. k + 1
        PROVE  g[h] = IF h = 0 THEN {} ELSE {h} \cup g[par(h)]
    <3>1. CASE h = 0
      <4>1. 0 # k + 1 /\ 0 \in 0 .. k
        BY <2>0
      <4> QED
        BY <2>3, <3>1, <4>1
    <3>2. CASE h # 0
      <4>1. /\ h \in 1 .. N /\ par(h) \in 0 .. k /\ par(h) \in 0 .. k + 1
            /\ par(h) # k + 1
        BY <2>0, <2>2, <3>2
      <4>2. g[par(h)] = f[par(h)]
        BY <4>1
      <4>3. CASE h = k + 1
        BY <3>2, <4>2, <4>3
      <4>4. CASE h # k + 1
        <5>1. h \in 0 .. k /\ g[h] = f[h]
          BY <2>0, <4>4
        <5> HIDE DEF g
        <5> QED
          BY <2>3, <3>2, <4>2, <5>1
      <4> QED
        BY <4>3, <4>4
    <3> QED
      BY <3>1, <3>2
  <2>5. g = [h \in 0 .. k + 1 |-> g[h]]
    OBVIOUS
  <2> HIDE DEF g
  <2>6. Up(k + 1, g)
    BY <2>4, <2>5 DEF Up, par
  <2> QED
    BY <2>6
<1>3. S \in SUBSET Nat
  OBVIOUS
<1>4. S = Nat
  <2> HIDE DEF S
  <2> QED
    BY <1>1, <1>2, <1>3, SetInduction
<1>5. N \in S /\ N <= N
  <2> HIDE DEF S
  <2> QED
    BY <1>4
<1> QED
  BY <1>5

\* The prefix of a group begins with those of the groups it was made from.
LEMMA LineageStarts ==
  ASSUME ChainInv, GroupInv, NEW h \in DOMAIN groups, NEW g \in Lineage(h)
  PROVE  g \in DOMAIN groups /\ Starts(groups[g].prefix, groups[h].prefix)
<1> DEFINE N == Len(groups)
<1>1. N \in Nat /\ DOMAIN groups = 1 .. N
  BY LenProperties DEF ChainInv
<1>2. PICK up : Up(N, up) /\ Lineage(h) = up[h]
  <2>1. PICK f : Up(N, f)
    BY <1>1, UpExists
  <2> QED
    BY <2>1 DEF Lineage, Up
<1>3. ASSUME NEW k \in DOMAIN groups PROVE Len(groups[k].prefix) \in Nat
  <2>1. groups[k] \in GroupType
    BY <1>1, ElementOfSeq DEF ChainInv
  <2>2. groups[k].prefix \in Seq(Segments)
    BY <2>1 DEF GroupType
  <2> QED
    BY <2>2, LenProperties
<1> HIDE DEF N
<1> DEFINE Good(k) == \A i \in up[k] :
                        i \in DOMAIN groups /\ Starts(groups[i].prefix, groups[k].prefix)
           S == {k \in Nat : \A l \in 0 .. k : l <= N => Good(l)}
<1>4. \A k \in 0 .. N : up[k] = IF k = 0 THEN {} ELSE {k} \cup up[groups[k].parent]
  BY <1>2 DEF Up
<1>5. up[0] = {} /\ Good(0)
  <2>1. 0 \in 0 .. N
    BY <1>1
  <2>2. up[0] = {}
    BY <1>4, <2>1
  <2> QED
    BY <2>2
<1>6. 0 \in S
  <2> HIDE DEF Good
  <2> QED
    BY <1>5
<1>7. ASSUME NEW k \in S PROVE k + 1 \in S
  <2>0. k \in Nat /\ \A l \in 0 .. k : l <= N => Good(l)
    OBVIOUS
  <2>1. ASSUME k + 1 <= N PROVE Good(k + 1)
    <3> DEFINE par == groups[k + 1].parent
    <3>1. k + 1 \in DOMAIN groups /\ k + 1 \in 0 .. N /\ k + 1 # 0 /\ (k + 1) - 1 = k
      BY <1>1, <2>0, <2>1
    <3>2. par \in 0 .. k /\ up[k + 1] = {k + 1} \cup up[par]
      BY <1>4, <3>1 DEF GroupInv
    <3>3. Good(par)
      <4>1. par <= N
        BY <1>1, <2>0, <2>1, <3>2
      <4> HIDE DEF Good
      <4> QED
        BY <2>0, <3>2, <4>1
    <3>4. Starts(groups[k + 1].prefix, groups[k + 1].prefix)
      BY <1>3, <3>1 DEF Starts
    <3>5. ASSUME NEW i \in up[par]
          PROVE  i \in DOMAIN groups /\ Starts(groups[i].prefix, groups[k + 1].prefix)
      <4>1. i \in DOMAIN groups /\ Starts(groups[i].prefix, groups[par].prefix)
        BY <3>3
      <4>2. par # 0
        BY <1>5, <3>5
      <4>3. par \in DOMAIN groups /\ Starts(groups[par].prefix, groups[k + 1].prefix)
        <5>1. par \in 1 .. N
          BY <1>1, <2>0, <2>1, <3>2, <4>2
        <5> QED
          BY <1>1, <3>1, <4>2, <5>1 DEF GroupInv
      <4> DEFINE a == groups[i].prefix
                 b == groups[par].prefix
                 c == groups[k + 1].prefix
      <4>4. Len(a) \in Nat /\ Len(b) \in Nat /\ Len(c) \in Nat
        BY <1>3, <3>1, <4>1, <4>3
      <4> HIDE DEF a, b, c
      <4>5. Starts(a, b) /\ Starts(b, c)
        BY <4>1, <4>3 DEF a, b, c
      <4>6. Starts(a, c)
        BY <4>4, <4>5 DEF Starts
      <4> QED
        BY <4>1, <4>6 DEF a, c
    <3> QED
      BY <3>1, <3>2, <3>4, <3>5
  <2>2. \A l \in 0 .. k + 1 : l = k + 1 \/ l \in 0 .. k
    BY <2>0
  <2> HIDE DEF Good
  <2> QED
    BY <2>0, <2>1, <2>2
<1>8. S \in SUBSET Nat
  OBVIOUS
<1>9. S = Nat
  <2> HIDE DEF S
  <2> QED
    BY <1>6, <1>7, <1>8, SetInduction
<1>10. Good(h)
  <2>1. h \in S /\ h \in 0 .. h /\ h <= N
    <3> HIDE DEF S
    <3> QED
      BY <1>1, <1>9
  <2> HIDE DEF Good
  <2> QED
    BY <2>1
<1> QED
  BY <1>2, <1>10

\* aoi.go:23-29, group.go:17-41: for any groups, nested as they may be, and any
\* routes in order, a path that leads to a handler has the prefix of the group
\* of the handler and of all the groups around it, if that has static parts only
\* and the path no empty part within it: their middlewares run.
THEOREM GroupsGuard == Spec => []GroupGuarded
<1>1. ChainInv /\ RoutesInv /\ RoutedRight => GroupGuarded
  <2> SUFFICES ASSUME ChainInv, RoutesInv, RoutedRight, pc = "idle", Orderly,
                      NEW path \in Paths, Found(PartsOf(path)) # None,
                      NEW g \in Lineage(owner[Found(PartsOf(path))]),
                      Comparable(path, groups[g].prefix)
               PROVE  HasPrefix(path, groups[g].prefix)
    BY DEF GroupGuarded
  <2> DEFINE parts == PartsOf(path)
             p == Found(parts)
             a == groups[g].prefix
  <2>1. p \in DOMAIN owner /\ Matches(p, parts)
    BY DEF RoutedRight, Requested
  <2> HIDE DEF p
  <2>2. owner[p] \in DOMAIN groups /\ Written(p, groups[owner[p]].prefix)
    BY <2>1 DEF RoutesInv, OwnerInv
  <2>3. g \in DOMAIN groups /\ Starts(a, groups[owner[p]].prefix)
    BY <2>2, LineageStarts DEF RoutesInv, p
  <2>4. \A k \in DOMAIN groups : groups[k].prefix \in Seq(Segments)
    <3> TAKE k \in DOMAIN groups
    <3>1. groups[k] \in GroupType
      BY LenProperties, ElementOfSeq DEF ChainInv
    <3> QED
      BY <3>1 DEF GroupType
  <2>5. /\ a \in Seq(Segments) /\ Len(a) \in Nat /\ DOMAIN a = 1 .. Len(a)
        /\ Len(groups[owner[p]].prefix) \in Nat
    BY <2>2, <2>3, <2>4, LenProperties
  <2> HIDE DEF a
  <2>6. \A i \in 1 .. Len(a) : a[i] \in Static
    BY <2>5 DEF Comparable, ToSet, a
  <2>7. a \in Seq(Static)
    BY <2>5, <2>6, SeqDef
  <2>8. Starts(a, p)
    <3>1. PICK raw \in Seq(Segments) :
            p = PartsOf(raw) /\ Starts(groups[owner[p]].prefix, raw)
      BY <2>2 DEF Written
    <3>2. Len(raw) \in Nat
      BY <3>1, LenProperties
    <3>3. Starts(a, raw)
      <4> DEFINE b == groups[owner[p]].prefix
      <4>1. Starts(a, b) /\ Starts(b, raw) /\ Len(b) \in Nat
        BY <2>3, <2>5, <3>1
      <4> HIDE DEF b
      <4> QED
        BY <2>5, <3>2, <4>1 DEF Starts
    <3> QED
      BY <2>7, <3>1, <3>3, StaticStart
  <2>9. /\ p \in Seq(Parts) /\ Len(p) \in Nat /\ DOMAIN p = 1 .. Len(p)
        /\ path \in Seq(Plain) /\ path \in Seq(Segments) /\ Len(path) \in Nat
        /\ DOMAIN path = 1 .. Len(path) /\ \A i \in 1 .. Len(path) : path[i] \in Plain
        /\ Len(parts) \in Nat /\ Len(parts) <= Len(path)
    <3>1. PICK i \in 1 .. Len(routes) : routes[i] = p
      BY <2>1 DEF RoutesInv, OwnerInv, Contains
    <3>2. p \in Seq(Parts)
      BY <3>1, ElementOfSeq DEF RoutesInv, OwnerInv
    <3> QED
      BY <3>2, RequestTyped, WebAssumption, LenProperties, ElementOfSeq
  <2> HIDE DEF parts
  <2>10. Len(p) <= Len(parts) /\ \A i \in 1 .. Len(p) : Match(p[i], parts[i])
    BY <2>1, <2>9 DEF Matches
  <2>11. Len(a) <= Len(path) /\ \A i \in 1 .. Len(a) : i \in 1 .. Len(p) /\ a[i] = p[i]
    BY <2>5, <2>8, <2>9, <2>10 DEF Starts
  <2>12. \A i \in 1 .. Len(a) : i \in 1 .. Len(path) /\ path[i] \in Static
    <3> TAKE i \in 1 .. Len(a)
    <3>1. i \in 1 .. Len(path)
      BY <2>5, <2>9, <2>11
    <3>2. path[i] # Empty
      BY <2>5, <2>9, <3>1 DEF Comparable, a
    <3> QED
      BY <2>9, <3>1, <3>2 DEF Plain
  <2>13. \A i \in 1 .. Len(a) : path[i] = parts[i]
    <3> DEFINE b == [i \in 1 .. Len(a) |-> path[i]]
    <3>1. b \in Seq(Static)
      BY <2>5, <2>12, SeqDef
    <3>2. Len(b) = Len(a)
      BY <2>5, <3>1, LenProperties
    <3>3. \A i \in 1 .. Len(a) : b[i] = path[i]
      OBVIOUS
    <3> HIDE DEF b
    <3>4. Starts(b, path)
      BY <2>11, <3>2, <3>3 DEF Starts
    <3>5. Starts(b, parts)
      BY <2>9, <3>1, <3>4, StaticStart DEF parts
    <3> QED
      BY <3>2, <3>3, <3>5 DEF Starts
  <2>14. ASSUME NEW i \in DOMAIN a PROVE path[i] = a[i] /\ <<path[i], a[i]>> \in Begins
    <3>1. i \in 1 .. Len(p) /\ a[i] = p[i] /\ a[i] \in Static /\ path[i] = parts[i]
      BY <2>5, <2>6, <2>11, <2>13
    <3>2. ~Wild(a[i])
      BY <3>1, RouterAssumption DEF Wild
    <3>3. path[i] = a[i]
      BY <2>10, <3>1, <3>2 DEF Match
    <3>4. a[i] \in Plain
      BY <3>1 DEF Plain
    <3> QED
      BY <3>3, <3>4, WebAssumption
  <2>15. HasPrefix(path, a)
    BY <2>11, <2>14 DEF HasPrefix
  <2> QED
    BY <2>15 DEF a
<1> QED
  BY ChainInvariance, RoutesInvariance, ClosestRoute, <1>1, PTL

------------------------------------------------------------------------------
(* How far Context.index goes.                                             *)

\* The handler on top of the stack may still call Next.
Callable == IF stack # <<>> /\ ~stack[Len(stack)].called THEN 1 ELSE 0

\* A handler under another one has called Next.  Up to the end of the chain
\* there is no more than one loop for each position; behind it every loop may
\* count once more, and so may the call that the last handler has left.
LoopInv ==
  /\ pc \in {"idle", "serving", "over"} /\ aborted \in BOOLEAN /\ again \in BOOLEAN
  /\ \A i \in 1 .. Len(stack) - 1 : stack[i].called
  /\ \A i \in DOMAIN stack : stack[i].pos \in ran
  /\ index <= Len(chain) => Len(stack) <= index
  /\ index > Len(chain) => index + Len(stack) + Callable <= 2 * Len(chain) + 1

LEMMA LoopGoesOn ==
  ASSUME ChainInv, LoopInv, NEW rest \in Seq(Frame), chain' = chain, aborted' = aborted,
         GoOn(rest, index + 1, Len(chain)),
         \A i \in DOMAIN rest : rest[i].pos \in ran /\ rest[i].called,
         index <= Len(chain) => Len(rest) <= index,
         index > Len(chain) => index + 1 + Len(rest) <= 2 * Len(chain) + 1
  PROVE  LoopInv'
<1> DEFINE n == Len(chain)
           L == Len(rest)
           f == [pos |-> index + 1, called |-> FALSE]
<1>1. n \in Nat /\ index \in Nat /\ L \in Nat /\ DOMAIN rest = 1 .. L
  BY LenProperties DEF ChainInv
<1>2. f \in Frame /\ f.pos = index + 1 /\ f.called = FALSE
  BY <1>1 DEF Frame
<1>3. /\ index' = index + 1 /\ chain' = chain
      /\ stack' = IF index + 1 <= n THEN Append(rest, f) ELSE rest
      /\ ran' = IF index + 1 <= n THEN ran \cup {index + 1} ELSE ran
      /\ again' \in BOOLEAN /\ pc' \in {"serving", "over"}
  BY DEF GoOn
<1> HIDE DEF f
<1>4. CASE index + 1 <= n
  <2>1. /\ stack' \in Seq(Frame) /\ Len(stack') = L + 1 /\ stack'[L + 1] = f
        /\ \A i \in 1 .. L : stack'[i] = rest[i]
    BY <1>2, <1>3, <1>4, AppendProperties
  <2>2. DOMAIN stack' = 1 .. L + 1
    BY <2>1, LenProperties
  <2>3. \A i \in 1 .. L + 1 : i = L + 1 \/ i \in 1 .. L
    BY <1>1
  <2>4. \A i \in DOMAIN stack' : stack'[i].pos \in ran'
    BY <1>1, <1>2, <1>3, <1>4, <2>1, <2>2, <2>3
  <2>5. \A i \in 1 .. Len(stack') - 1 : stack'[i].called
    <3>1. (L + 1) - 1 = L
      BY <1>1
    <3> QED
      BY <1>1, <2>1, <3>1
  <2>6. index' <= Len(chain') /\ Len(stack') <= index' /\ ~(index' > Len(chain'))
    BY <1>1, <1>3, <1>4, <2>1
  <2> QED
    BY <1>3, <2>4, <2>5, <2>6 DEF LoopInv
<1>5. CASE ~(index + 1 <= n)
  <2>1. stack' = rest /\ ran' = ran
    BY <1>3, <1>5
  <2>2. Callable' = 0
    <3>1. CASE rest = <<>>
      BY <2>1, <3>1 DEF Callable
    <3>2. CASE rest # <<>>
      <4>1. L \in Nat \ {0}
        BY <3>2, EmptySeq
      <4>2. L \in DOMAIN rest
        BY <1>1, <4>1
      <4> QED
        BY <2>1, <4>2 DEF Callable
    <3> QED
      BY <3>1, <3>2
  <2>3. index' + L + 0 <= 2 * n + 1
    <3>1. CASE index <= n
      BY <1>1, <1>3, <1>5, <3>1
    <3>2. CASE ~(index <= n)
      BY <1>1, <1>3, <3>2
    <3> QED
      BY <3>1, <3>2
  <2>4. \A i \in 1 .. L - 1 : i \in DOMAIN rest
    BY <1>1
  <2>5. ~(index' <= Len(chain'))
    BY <1>1, <1>3, <1>5
  <2>6. index' + Len(stack') + Callable' <= 2 * Len(chain') + 1
    BY <1>3, <2>1, <2>2, <2>3
  <2> QED
    BY <1>3, <2>1, <2>4, <2>5, <2>6 DEF LoopInv
<1> QED
  BY <1>4, <1>5

LEMMA LoopInit == Init => LoopInv
<1> SUFFICES ASSUME Init PROVE LoopInv
  OBVIOUS
<1>1. /\ chain = <<>> /\ stack = <<>> /\ index = 0 /\ pc = "idle"
      /\ aborted = FALSE /\ again = FALSE
  BY DEF Init
<1>2. Len(<<>>) = 0 /\ DOMAIN <<>> = {} /\ ~(0 > 0) /\ 1 .. 0 - 1 = {}
  BY EmptySeq
<1> QED
  BY <1>1, <1>2 DEF LoopInv

LEMMA LoopStep ==
  ASSUME ChainInv, LoopInv, ChainInv', [Next]_vars PROVE LoopInv'
<1> DEFINE n == Len(chain)
           L == Len(stack)
<1>0. /\ stack \in Seq(Frame) /\ L \in Nat /\ DOMAIN stack = 1 .. L
      /\ n \in Nat /\ index \in Nat
      /\ pc = "serving" => L # 0
      /\ \A i \in 1 .. L : stack[i] \in Frame
  BY LenProperties, EmptySeq, ElementOfSeq DEF ChainInv
<1>a. L \in Nat /\ n \in Nat /\ index \in Nat
  BY <1>0
<1>1. ASSUME UNCHANGED chainVars PROVE LoopInv'
  BY <1>1 DEF LoopInv, Callable, chainVars
<1>2. ASSUME NEW path \in Paths, Serve(path) PROVE LoopInv'
  <2> DEFINE m == Len(chain')
             f == [pos |-> 1, called |-> FALSE]
  <2>1. /\ GoOn(<<>>, 1, m) /\ aborted' = aborted /\ pc = "idle"
    BY <1>2 DEF Serve
  <2>2. m \in Nat
    BY LenProperties DEF ChainInv
  <2>3. /\ index' = 1 /\ again' \in BOOLEAN /\ pc' \in {"serving", "over"}
        /\ stack' = IF 1 <= m THEN Append(<<>>, f) ELSE <<>>
        /\ ran' = IF 1 <= m THEN ran \cup {1} ELSE ran
    BY <2>1 DEF GoOn
  <2>4. f \in Frame /\ f.pos = 1
    BY DEF Frame
  <2>5. CASE 1 <= m
    <3>1. /\ stack' \in Seq(Frame) /\ Len(stack') = 1 /\ stack'[1] = f
      <4>1. <<>> \in Seq(Frame) /\ Len(<<>>) = 0
        BY EmptySeq
      <4> HIDE DEF f
      <4> QED
        BY <2>3, <2>4, <2>5, <4>1, AppendProperties
    <3>2. DOMAIN stack' = {1} /\ 1 .. Len(stack') - 1 = {}
      <4>1. 1 .. 1 = {1} /\ 1 .. 1 - 1 = {}
        OBVIOUS
      <4> QED
        BY <3>1, <4>1, LenProperties
    <3>3. index' <= Len(chain') /\ ~(index' > Len(chain')) /\ Len(stack') <= index'
      BY <2>2, <2>3, <2>5, <3>1
    <3> HIDE DEF f
    <3> QED
      BY <2>1, <2>3, <2>4, <2>5, <3>1, <3>2, <3>3 DEF LoopInv
  <2>6. CASE ~(1 <= m)
    <3>1. m = 0 /\ stack' = <<>> /\ Len(stack') = 0 /\ DOMAIN stack' = {}
      BY <2>2, <2>3, <2>6, EmptySeq
    <3>2. Callable' = 0 /\ 1 .. Len(stack') - 1 = {}
      BY <3>1 DEF Callable
    <3> QED
      BY <2>1, <2>3, <3>1, <3>2 DEF LoopInv
  <2> QED
    BY <2>5, <2>6
<1>3. ASSUME CallNext PROVE LoopInv'
  <2> DEFINE rest == [stack EXCEPT ![L].called = TRUE]
             r == [stack[L] EXCEPT !.called = TRUE]
  <2>1. L \in 1 .. L /\ ~stack[L].called /\ stack # <<>>
    BY <1>0, <1>3, EmptySeq DEF CallNext
  <2>2. r \in Frame /\ rest = [stack EXCEPT ![L] = r] /\ r.pos = stack[L].pos /\ r.called
    BY <1>0, <2>1 DEF Frame
  <2>3. /\ GoOn(rest, index + 1, n) /\ chain' = chain /\ aborted' = aborted
    BY <1>3 DEF CallNext
  <2> HIDE DEF r, rest
  <2>4. /\ rest \in Seq(Frame) /\ Len(rest) = L
        /\ \A i \in 1 .. L : rest[i] = IF i = L THEN r ELSE stack[i]
    BY <1>0, <2>1, <2>2, ExceptSeq
  <2>5. DOMAIN rest = 1 .. L
    BY <2>4, LenProperties
  <2>6. \A i \in 1 .. L : i = L \/ i \in 1 .. L - 1
    BY <1>a
  <2>7. \A i \in DOMAIN rest : rest[i].pos \in ran /\ rest[i].called
    BY <1>0, <2>1, <2>2, <2>4, <2>5, <2>6 DEF LoopInv
  <2>8. Callable = 1
    BY <2>1 DEF Callable
  <2>9. /\ index <= n => Len(rest) <= index
        /\ index > n => index + 1 + Len(rest) <= 2 * n + 1
    <3>1. Len(rest) = L
      BY <2>4
    <3> QED
      BY <1>a, <2>8, <3>1 DEF LoopInv
  <2> QED
    BY <2>3, <2>4, <2>7, <2>9, LoopGoesOn
<1>4. ASSUME NEW l \in 0 .. L - 1, L # 0,
             GoOn(SubSeq(stack, 1, l), index + 1, n), chain' = chain, aborted' = aborted
      PROVE  LoopInv'
  <2> DEFINE rest == SubSeq(stack, 1, l)
  <2>1. /\ l \in Int /\ 1 \in Int /\ l - 1 + 1 = l /\ (~(1 <= l) => l = 0)
        /\ \A i \in 1 .. l : i \in 1 .. L /\ i \in 1 .. L - 1 /\ 1 + i - 1 = i
    BY <1>0
  <2>2. /\ rest \in Seq(Frame) /\ Len(rest) = IF 1 <= l THEN l - 1 + 1 ELSE 0
        /\ \A i \in 1 .. l - 1 + 1 : rest[i] = stack[1 + i - 1]
    BY <1>0, <2>1, SubSeqProperties
  <2> HIDE DEF rest
  <2>3. Len(rest) = l /\ DOMAIN rest = 1 .. l /\ \A i \in 1 .. l : rest[i] = stack[i]
    <3>1. Len(rest) = l
      BY <2>1, <2>2
    <3> QED
      BY <2>1, <2>2, <3>1, LenProperties
  <2>4. \A i \in DOMAIN rest : rest[i].pos \in ran /\ rest[i].called
    BY <1>0, <2>1, <2>3 DEF LoopInv
  <2>5. Callable \in {0, 1}
    BY DEF Callable
  <2>6. /\ index <= n => Len(rest) <= index
        /\ index > n => index + 1 + Len(rest) <= 2 * n + 1
    BY <1>0, <2>3, <2>5 DEF LoopInv
  <2> QED
    BY <1>4, <2>2, <2>4, <2>6, LoopGoesOn DEF rest
<1>5. ASSUME HandlerReturns PROVE LoopInv'
  <2>1. /\ L # 0 /\ GoOn(SubSeq(stack, 1, L - 1), index + 1, n)
        /\ chain' = chain /\ aborted' = aborted
    BY <1>0, <1>5 DEF HandlerReturns, NextIndex, Front
  <2>2. L - 1 \in 0 .. L - 1
    BY <1>0, <2>1
  <2> QED
    BY <1>4, <2>1, <2>2
<1>6. ASSUME PanicRecovered PROVE LoopInv'
  <2> DEFINE at == {i \in 1 .. L - 1 : Kind(i) = "recovery"}
  <2>1. /\ at # {} /\ GoOn(SubSeq(stack, 1, Max(at) - 1), index + 1, n)
        /\ chain' = chain /\ aborted' = aborted
    BY <1>6 DEF PanicRecovered, IndexAfterPanic
  <2>2. at \in SUBSET (1 .. L - 1) /\ L - 1 \in Nat /\ L # 0
    BY <1>0, <1>6 DEF PanicRecovered
  <2> HIDE DEF at
  <2>3. Max(at) \in 1 .. L - 1
    <3>1. Max(at) \in at
      BY <2>1, <2>2, MaxOfPositions
    <3> QED
      BY <2>2, <3>1
  <2>4. Max(at) - 1 \in 0 .. L - 1
    BY <1>0, <2>3
  <2> QED
    BY <1>4, <2>1, <2>2, <2>4
<1>7. ASSUME PanicAborts PROVE LoopInv'
  <2>1. /\ stack' = <<>> /\ pc' = "over" /\ aborted' = TRUE
        /\ UNCHANGED <<chain, index, ran, again>>
    BY <1>7 DEF PanicAborts
  <2>2. Len(stack') = 0 /\ DOMAIN stack' = {} /\ Callable' = 0 /\ 1 .. 0 - 1 = {}
    BY <2>1, EmptySeq DEF Callable
  <2>3. Callable \in {0, 1}
    BY DEF Callable
  <2>4. /\ index' <= Len(chain') => Len(stack') <= index'
        /\ index' > Len(chain') => index' + Len(stack') + Callable' <= 2 * Len(chain') + 1
    BY <1>0, <2>1, <2>2, <2>3 DEF LoopInv
  <2> QED
    BY <2>1, <2>2, <2>4 DEF LoopInv
<1>8. ASSUME Finish PROVE LoopInv'
  <2>1. /\ chain' = <<>> /\ stack' = <<>> /\ index' = 0 /\ pc' = "idle"
        /\ aborted' = FALSE /\ again' = FALSE
    BY <1>8 DEF Finish, ChainInv
  <2>2. Len(<<>>) = 0 /\ DOMAIN <<>> = {} /\ ~(0 > 0) /\ 1 .. 0 - 1 = {}
    BY EmptySeq
  <2> QED
    BY <2>1, <2>2 DEF LoopInv
<1> QED
  BY <1>1, <1>2, <1>3, <1>5, <1>6, <1>7, <1>8
  DEF Next, Step, Group, Use, Register, vars

THEOREM LoopInvariance == Spec => []LoopInv
  BY ChainInvariance, LoopInit, LoopStep, PTL DEF Spec

\* Every variable of the router and of a request keeps its type: the children
\* of a node are the nodes below it, each once, a leaf has a registered pattern
\* of its depth, and Context.index counts at most once more for each handler
\* behind the end of the chain, however often they call Next (context.go:102).
THEOREM TypeCorrect == Spec => []TypeOK
<1>1. ChainInv /\ TrieInv /\ RoutesInv /\ LoopInv => TypeOK
  <2> SUFFICES ASSUME ChainInv, TrieInv, RoutesInv, LoopInv PROVE TypeOK
    OBVIOUS
  <2>1. ASSUME NEW n \in DOMAIN kids
        PROVE  {Append(n, kids[n][i]) : i \in DOMAIN kids[n]} =
                 {m \in DOMAIN kids : m # <<>> /\ Front(m) = n}
    <3>1. n \in Seq(Parts) /\ kids[n] \in Seq(Parts) /\ DOMAIN kids[n] = 1 .. Len(kids[n])
      BY LenProperties DEF TrieInv
    <3>2. \A s \in Seq(Parts), e \in Parts : Append(s, e) # <<>> /\ Front(Append(s, e)) = s
      <4> TAKE s \in Seq(Parts), e \in Parts
      <4> DEFINE t == Append(s, e)
      <4>1. /\ t \in Seq(Parts) /\ t # <<>> /\ Len(s) \in Nat /\ Len(t) = Len(s) + 1
            /\ (Len(s) + 1) - 1 = Len(s) /\ \A i \in 1 .. Len(s) : t[i] = s[i]
        BY LenProperties, AppendProperties
      <4> HIDE DEF t
      <4>2. Starts(s, t)
        BY <4>1 DEF Starts
      <4>3. s \in Prefixes(t)
        BY <4>1, <4>2, StartsPrefix
      <4>4. PICK l \in 0 .. Len(t) : s = SubSeq(t, 1, l)
        BY <4>3 DEF Prefixes
      <4>5. Len(s) = l
        <5>1. /\ l \in Int /\ 1 \in Int /\ (1 <= l => l - 1 + 1 = l) /\ (~(1 <= l) => l = 0)
              /\ \A i \in 1 .. l : i \in 1 .. Len(t)
          BY <4>1
        <5>2. \A i \in 1 .. l : t[i] \in Parts
          BY <4>1, <5>1, ElementOfSeq
        <5>3. Len(s) = IF 1 <= l THEN l - 1 + 1 ELSE 0
          BY <4>4, <5>1, <5>2, SubSeqProperties
        <5> QED
          BY <5>1, <5>3
      <4> QED
        BY <4>1, <4>4, <4>5 DEF Front, t
    <3>3. ASSUME NEW i \in DOMAIN kids[n]
          PROVE  /\ Append(n, kids[n][i]) \in DOMAIN kids /\ Append(n, kids[n][i]) # <<>>
                 /\ Front(Append(n, kids[n][i])) = n
      <4>1. kids[n][i] \in Parts
        BY <3>1, ElementOfSeq
      <4> QED
        BY <3>1, <3>2, <4>1, HitFacts
    <3>4. ASSUME NEW m \in DOMAIN kids, m # <<>>, Front(m) = n
          PROVE  \E i \in DOMAIN kids[n] : m = Append(n, kids[n][i])
      <4>1. PICK s \in Seq(Parts), e \in Parts : m = Append(s, e)
        BY <3>4, SequenceEmptyOrAppend DEF TrieInv
      <4>2. s = n
        BY <3>2, <3>4, <4>1
      <4> QED
        BY <3>1, <3>4, <4>1, <4>2 DEF TrieInv, Contains
    <3> QED
      BY <3>3, <3>4
  <2>2. \A g \in DOMAIN groups :
          /\ groups[g].prefix \in Seq(Segments) /\ groups[g].uses \in Seq(Kinds)
          /\ groups[g].parent \in 0 .. g - 1
    <3> TAKE g \in DOMAIN groups
    <3>1. groups[g] \in GroupType
      BY LenProperties, ElementOfSeq DEF ChainInv
    <3> QED
      BY <3>1 DEF GroupType, RoutesInv, GroupInv
  <2>3. ran \subseteq DOMAIN chain /\ index \in 0 .. 2 * Len(chain) + 1
    <3>1. /\ Len(chain) \in Nat /\ DOMAIN chain = 1 .. Len(chain) /\ index \in Nat
          /\ Len(stack) \in Nat /\ Callable \in {0, 1}
      BY LenProperties DEF ChainInv, Callable
    <3>2. CASE index <= Len(chain)
      <4>1. ran = 1 .. index
        BY <3>2 DEF ChainInv
      <4> QED
        BY <3>1, <3>2, <4>1
    <3>3. CASE ~(index <= Len(chain))
      <4>1. ran = 1 .. Len(chain)
        BY <3>3 DEF ChainInv
      <4>2. index + Len(stack) + Callable <= 2 * Len(chain) + 1
        BY <3>1, <3>3 DEF LoopInv
      <4> QED
        BY <3>1, <4>1, <4>2
    <3> QED
      BY <3>2, <3>3
  <2>4. \A i \in DOMAIN stack : stack[i].pos \in ran /\ stack[i].called \in BOOLEAN
    <3> TAKE i \in DOMAIN stack
    <3>1. stack[i] \in Frame
      BY LenProperties, ElementOfSeq DEF ChainInv
    <3> QED
      BY <3>1 DEF LoopInv, Frame
  <2>5. \A n \in DOMAIN kids :
          /\ IsInjective(kids[n])
          /\ {Append(n, kids[n][i]) : i \in DOMAIN kids[n]} =
               {m \in DOMAIN kids : m # <<>> /\ Front(m) = n}
          /\ leaf[n] # None => leaf[n] \in DOMAIN owner /\ Len(leaf[n]) = Len(n)
    BY <2>1 DEF RoutesInv, NodeInv
  <2>6. \A p \in DOMAIN owner : owner[p] \in DOMAIN groups /\ Contains(routes, p)
    BY DEF RoutesInv, OwnerInv
  <2>7. /\ pc \in {"idle", "serving", "over"} /\ aborted \in BOOLEAN
        /\ chain \in Seq(Kinds) /\ again \in BOOLEAN
    BY DEF ChainInv, LoopInv
  <2> QED
    BY <2>2, <2>3, <2>4, <2>5, <2>6, <2>7 DEF TypeOK, TrieInv
<1> QED
  BY ChainInvariance, TrieInvariance, RoutesInvariance, LoopInvariance, <1>1, PTL

\* So many steps the handlers of a request can still take.
StepsLeft == IF pc = "serving" THEN 2 * Len(chain) + 2 - index ELSE 0

\* context.go:102-108, recover.go:12-22: whatever a handler does, it brings the
\* request closer to its end.  That a request ends (RequestEnds) needs nothing
\* else but that its handlers go on.
THEOREM StepsRunOut == Spec => [][Step => StepsLeft' \in Nat /\ StepsLeft' < StepsLeft]_vars
<1>1. ASSUME TypeOK, TypeOK', ChainInv, Step
      PROVE  StepsLeft' \in Nat /\ StepsLeft' < StepsLeft
  <2>1. pc = "serving" /\ chain' = chain /\ (pc' = "over" \/ index' = index + 1)
    BY <1>1 DEF Step, CallNext, HandlerReturns, PanicRecovered, PanicAborts, GoOn,
                NextIndex, IndexAfterPanic
  <2>2. /\ Len(chain) \in Nat /\ index \in 0 .. 2 * Len(chain) + 1
        /\ index' \in 0 .. 2 * Len(chain) + 1
    BY <1>1, <2>1, LenProperties DEF TypeOK
  <2> QED
    BY <2>1, <2>2 DEF StepsLeft
<1> QED
  BY <1>1, TypeCorrect, ChainInvariance, PTL

==============================================================================
