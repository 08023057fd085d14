--------------------------- MODULE FrontendProofs ---------------------------
(***************************************************************************)
(* What the front ends count, for any number of requests and of replicas.  *)
(*                                                                         *)
(* FrontendInv is the inductive invariant: the types, that the counters    *)
(* are the requests at work and the lost ones, and that the samples of the *)
(* traffic watch are right until a request is lost.  The two front ends    *)
(* are proved one after the other; a step of one is a request that moves,  *)
(* and what that does to a counted set is a lemma.                         *)
(***************************************************************************)
EXTENDS Frontend, Sequences, TLAPS, FiniteSetTheorems, WellFoundedInduction

-----------------------------------------------------------------------------
(* Finite sets.                                                            *)

\* Both front ends count with the Cardinality of FiniteSets, of which an instance has its own name.
LEMMA SameCount == \A S : Balancer!Cardinality(S) = Cardinality(S) /\ OneEngine!Cardinality(S) = Cardinality(S)
  BY DEF Balancer!Cardinality, OneEngine!Cardinality, Cardinality

\* A set of naturals that is not empty has a least element.
LEMMA LeastOf ==
  ASSUME NEW S \in SUBSET Nat, S # {}
  PROVE  \E x \in S : \A y \in S : x <= y
<1>1. PICK x \in S : \A y \in S : ~(<<y, x>> \in OpToRel(<, Nat))
  BY WFMin, NatLessThanWellFounded
<1>2. \A y \in S : ~(y < x)
  BY <1>1 DEF OpToRel
<1> QED BY <1>2

\* In a finite set of naturals there is one that k others precede, for every k below its size.
LEMMA RankExists ==
  ASSUME NEW S \in SUBSET Nat, IsFiniteSet(S), NEW k \in 0..(Cardinality(S) - 1)
  PROVE  \E x \in S : Cardinality({y \in S : y < x}) = k
<1> DEFINE Below(x) == {y \in S : y < x}
           n == Cardinality(S)
           rank == [x \in S |-> Cardinality(Below(x))]
<1>1. n \in Nat
  BY FS_CardinalityType
<1>2. \A x \in S : IsFiniteSet(Below(x)) /\ Cardinality(Below(x)) \in 0..(n - 1)
  <2> TAKE x \in S
  <2>1. Below(x) \in SUBSET (S \ {x})
    OBVIOUS
  <2>2. IsFiniteSet(S \ {x}) /\ Cardinality(S \ {x}) = n - 1
    BY FS_RemoveElement
  <2>3. IsFiniteSet(Below(x)) /\ Cardinality(Below(x)) <= n - 1
    BY <2>1, <2>2, FS_Subset
  <2> HIDE DEF Below, n
  <2> QED BY <2>3, FS_CardinalityType, <1>1
<1>3. \A x, z \in S : x < z => Cardinality(Below(x)) < Cardinality(Below(z))
  <2> SUFFICES ASSUME NEW x \in S, NEW z \in S, x < z
               PROVE  Cardinality(Below(x)) < Cardinality(Below(z))
    OBVIOUS
  <2>0. \A y \in S : y < x => y < z
    OBVIOUS
  <2>1. Below(x) \cup {x} \in SUBSET Below(z) /\ x \notin Below(x)
    <3>1. ~(x < x)
      OBVIOUS
    <3>2. \A y \in Below(x) : y \in Below(z)
      BY <2>0
    <3> QED BY <3>1, <3>2
  <2>2. Cardinality(Below(x) \cup {x}) = Cardinality(Below(x)) + 1
    BY <1>2, <2>1, FS_AddElement
  <2>3. Cardinality(Below(x) \cup {x}) <= Cardinality(Below(z))
    BY <1>2, <2>1, FS_Subset
  <2> HIDE DEF Below, n
  <2> QED BY <1>2, <2>2, <2>3
<1>4. rank \in Injection(S, 0..(n - 1))
  <2>1. rank \in [S -> 0..(n - 1)]
    BY <1>2
  <2>2. \A x, z \in S : rank[x] = rank[z] => x = z
    <3> SUFFICES ASSUME NEW x \in S, NEW z \in S, rank[x] = rank[z], x # z PROVE FALSE
      OBVIOUS
    <3>1. x < z \/ z < x
      OBVIOUS
    <3>2. Cardinality(Below(x)) = Cardinality(Below(z))
      OBVIOUS
    <3> HIDE DEF Below, rank, n
    <3> QED BY <1>2, <1>3, <3>1, <3>2
  <2> QED BY <2>1, <2>2 DEF Injection, IsInjective
<1>5. IsFiniteSet(0..(n - 1)) /\ Cardinality(0..(n - 1)) = n
  BY <1>1, FS_Interval
<1>6. rank \in Surjection(S, 0..(n - 1))
  BY <1>4, <1>5, FS_Injection
<1> QED BY <1>6 DEF Surjection

\* A request that joins, or leaves, a set of requests that is counted.
LEMMA CountOne ==
  ASSUME NEW S \in SUBSET Requests, NEW q
  PROVE  /\ IsFiniteSet(S) /\ Cardinality(S) \in Nat
         /\ q \in Requests \ S => Cardinality(S \cup {q}) = Cardinality(S) + 1
         /\ q \in S => Cardinality(S \ {q}) = Cardinality(S) - 1 /\ Cardinality(S) > 0
<1>1. IsFiniteSet(S)
  BY RequestsAssumption, FS_Subset
<1>2. Cardinality(S) \in Nat
  BY <1>1, FS_CardinalityType
<1>3. q \in S => Cardinality(S) # 0
  BY <1>1, FS_EmptySet
<1>4. q \in Requests \ S => Cardinality(S \cup {q}) = Cardinality(S) + 1
  BY <1>1, FS_AddElement
<1>5. q \in S => Cardinality(S \ {q}) = Cardinality(S) - 1
  BY <1>1, FS_RemoveElement
<1> QED BY <1>1, <1>2, <1>3, <1>4, <1>5

-----------------------------------------------------------------------------
(* The balancer.                                                           *)

\* Some replica has the fewest requests, so that there is one to pick.
LEMMA PickIsTied ==
  ASSUME Balancer!TypeOKBalancer
  PROVE  Balancer!Pick \in Balancer!Tied
<1> DEFINE Tied == Balancer!Tied
           Counts == {inflight[i] : i \in Balancer!Replicas}
           k == rr % Cardinality(Tied)
<1>a. 0 \in Balancer!Replicas /\ Balancer!Replicas \subseteq Nat /\ IsFiniteSet(Balancer!Replicas)
  BY NAssumption, FS_Interval DEF Balancer!Replicas
<1>b. rr \in Nat /\ inflight \in [Balancer!Replicas -> Nat]
  BY DEF Balancer!TypeOKBalancer
<1>1. Counts \in SUBSET Nat /\ Counts # {}
  BY <1>a, <1>b
<1>2. PICK least \in Counts : \A c \in Counts : least <= c
  BY <1>1, LeastOf
<1>3. PICK i \in Balancer!Replicas : inflight[i] = least
  BY <1>2
<1>4. i \in Tied
  BY <1>2, <1>3 DEF Balancer!Tied
<1>5. Tied \in SUBSET Nat /\ IsFiniteSet(Tied)
  <2>1. Tied \in SUBSET Balancer!Replicas
    BY DEF Balancer!Tied
  <2> QED BY <1>a, <2>1, FS_Subset
<1>6. Cardinality(Tied) \in Nat /\ Cardinality(Tied) # 0
  BY <1>4, <1>5, FS_CardinalityType, FS_EmptySet
<1> HIDE DEF Tied, k
<1>9. Balancer!Pick = CHOOSE x \in Tied : Cardinality({y \in Tied : y < x}) = k
  BY SameCount, Zenon DEF Balancer!Pick, Balancer!NthTied, Tied, k
<1>7. k \in 0..(Cardinality(Tied) - 1)
  BY <1>b, <1>6 DEF k
<1>8. \E x \in Tied : Cardinality({y \in Tied : y < x}) = k
  BY <1>5, <1>7, RankExists
<1> QED BY <1>8, <1>9 DEF Tied

\* What a handler of the balancer does: it takes a replica, goes on, is lost, or counts itself out.
BalancerMoves(q) ==
  \/ /\ pc[q] = "new" /\ pc' = [pc EXCEPT ![q] = "body"]
     /\ chosen' = [chosen EXCEPT ![q] = Balancer!Pick]
     /\ inflight' = [inflight EXCEPT ![Balancer!Pick] = @ + 1]
     /\ rr' = rr + 1
  \/ /\ pc[q] \in {"body", "send", "stream", "read", "close"}
     /\ \E l \in {"body", "send", "stream", "read", "close", "lost"} : pc' = [pc EXCEPT ![q] = l]
     /\ UNCHANGED <<chosen, inflight, rr>>
  \/ /\ pc[q] \in {"body", "send", "stream", "read", "close"}
     /\ pc' = [pc EXCEPT ![q] = "done"]
     /\ Balancer!Release(chosen[q])
     /\ UNCHANGED <<chosen, rr>>

LEMMA BalancerStepMoves == Balancer!Next => \E q \in Requests : BalancerMoves(q)
<1> SUFFICES ASSUME Balancer!Next PROVE \E q \in Requests : BalancerMoves(q)
  OBVIOUS
<1>1. PICK q \in Requests :
        \/ Balancer!Choose(q) \/ Balancer!BodyRead(q) \/ Balancer!BodyLost(q) \/ Balancer!SendAnswered(q)
        \/ Balancer!SendFails(q) \/ Balancer!StreamEnds(q) \/ Balancer!StreamBreaks(q)
        \/ Balancer!ReadEnds(q) \/ Balancer!ReadBreaks(q) \/ Balancer!Close(q)
  BY DEF Balancer!Next
<1> USE DEF BalancerMoves, Balancer!Goto
<1>2. CASE Balancer!Choose(q)
  BY <1>2 DEF Balancer!Choose
<1>3. CASE Balancer!BodyRead(q) \/ Balancer!BodyLost(q)
  BY <1>3 DEF Balancer!BodyRead, Balancer!BodyLost
<1>4. CASE Balancer!SendAnswered(q) \/ Balancer!StreamEnds(q) \/ Balancer!StreamBreaks(q)
  BY <1>4 DEF Balancer!SendAnswered, Balancer!StreamEnds, Balancer!StreamBreaks
<1>5. CASE Balancer!ReadEnds(q) \/ Balancer!ReadBreaks(q)
  BY <1>5 DEF Balancer!ReadEnds, Balancer!ReadBreaks
<1>6. CASE Balancer!SendFails(q) \/ Balancer!Close(q)
  BY <1>6 DEF Balancer!SendFails, Balancer!Close
<1> QED BY <1>1, <1>2, <1>3, <1>4, <1>5, <1>6

LEMMA BalancerStep ==
  ASSUME Balancer!BalancerInv, NEW q \in Requests, BalancerMoves(q)
  PROVE  Balancer!BalancerInv'
<1> DEFINE Open(i) == Balancer!Open(i)
           Lost(i) == Balancer!Lost(i)
           Replicas == Balancer!Replicas
           At == {"body", "send", "stream", "read", "close"}
<1>a. /\ Balancer!TypeOKBalancer
      /\ \A i \in Replicas : inflight[i] = Cardinality(Open(i)) + Cardinality(Lost(i))
  BY SameCount DEF Balancer!BalancerInv, Balancer!Accounted
<1>b. /\ pc \in [Requests -> At \cup {"new", "done", "lost"}]
      /\ chosen \in [Requests -> Replicas \cup {Balancer!NoReplica}]
      /\ inflight \in [Replicas -> Nat] /\ rr \in Nat
      /\ \A r \in Requests : pc[r] = "new" <=> chosen[r] = Balancer!NoReplica
  BY <1>a DEF Balancer!TypeOKBalancer
<1>c. Balancer!Pick \in Replicas /\ Balancer!NoReplica \notin Replicas
  BY <1>a, PickIsTied, NAssumption DEF Balancer!Tied, Balancer!Replicas, Balancer!NoReplica
<1>d. \A i \in Replicas : Open(i) \in SUBSET Requests /\ Lost(i) \in SUBSET Requests
  BY DEF Balancer!Open, Balancer!Lost
<1> SUFFICES /\ Balancer!TypeOKBalancer'
             /\ \A i \in Replicas : inflight'[i] = Cardinality(Open(i)') + Cardinality(Lost(i)')
  BY SameCount DEF Balancer!BalancerInv, Balancer!Accounted, Balancer!Replicas
<1>1. CASE pc[q] = "new"
  <2>1. /\ pc' = [pc EXCEPT ![q] = "body"] /\ chosen' = [chosen EXCEPT ![q] = Balancer!Pick]
        /\ inflight' = [inflight EXCEPT ![Balancer!Pick] = @ + 1] /\ rr' = rr + 1
    BY <1>1 DEF BalancerMoves
  <2>2. Balancer!TypeOKBalancer'
    BY <1>b, <1>c, <2>1 DEF Balancer!TypeOKBalancer, Balancer!Replicas, Balancer!NoReplica
  <2>3. ASSUME NEW i \in Replicas
        PROVE  inflight'[i] = Cardinality(Open(i)') + Cardinality(Lost(i)')
    <3>1. Lost(i)' = Lost(i)
      BY <1>1, <1>b, <1>c, <2>1 DEF Balancer!Lost
    <3>2. CASE i = Balancer!Pick
      <4>1. q \notin Open(i) /\ Open(i)' = Open(i) \cup {q}
        BY <1>1, <1>b, <1>c, <2>1, <3>2 DEF Balancer!Open
      <4> HIDE DEF Open, Lost
      <4>2. Cardinality(Open(i) \cup {q}) = Cardinality(Open(i)) + 1
        BY <1>d, <4>1, CountOne
      <4>3. Cardinality(Open(i)) \in Nat /\ Cardinality(Lost(i)) \in Nat
        BY <1>d, CountOne
      <4>4. inflight'[i] = inflight[i] + 1
        BY <1>b, <2>1, <3>2
      <4> QED BY <1>a, <3>1, <4>1, <4>2, <4>3, <4>4
    <3>3. CASE i # Balancer!Pick
      <4>1. Open(i)' = Open(i)
        BY <1>1, <1>b, <1>c, <2>1, <3>3 DEF Balancer!Open
      <4> HIDE DEF Open, Lost
      <4> QED BY <1>a, <1>b, <2>1, <3>1, <3>3, <4>1
    <3> QED BY <3>2, <3>3
  <2> QED BY <2>2, <2>3
<1>2. CASE pc[q] \in At /\ ~(pc' = [pc EXCEPT ![q] = "done"])
  <2>1. PICK l \in At \cup {"lost"} : pc' = [pc EXCEPT ![q] = l]
    BY <1>2 DEF BalancerMoves
  <2>2. UNCHANGED <<chosen, inflight, rr>>
    BY <1>2 DEF BalancerMoves
  <2>3. Balancer!TypeOKBalancer'
    BY <1>2, <1>b, <2>1, <2>2 DEF Balancer!TypeOKBalancer, Balancer!Replicas, Balancer!NoReplica
  <2>4. ASSUME NEW i \in Replicas
        PROVE  inflight'[i] = Cardinality(Open(i)') + Cardinality(Lost(i)')
    <3>1. CASE l # "lost" \/ chosen[q] # i
      <4>1. Open(i)' = Open(i) /\ Lost(i)' = Lost(i)
        BY <1>2, <1>b, <2>1, <2>2, <3>1 DEF Balancer!Open, Balancer!Lost
      <4> QED BY <1>a, <2>2, <4>1
    <3>2. CASE l = "lost" /\ chosen[q] = i
      <4>1. /\ q \in Open(i) /\ Open(i)' = Open(i) \ {q}
            /\ q \notin Lost(i) /\ Lost(i)' = Lost(i) \cup {q}
        BY <1>2, <1>b, <2>1, <2>2, <3>2 DEF Balancer!Open, Balancer!Lost
      <4> HIDE DEF Open, Lost
      <4>2. /\ Cardinality(Open(i) \ {q}) = Cardinality(Open(i)) - 1
            /\ Cardinality(Lost(i) \cup {q}) = Cardinality(Lost(i)) + 1
            /\ Cardinality(Open(i)) \in Nat /\ Cardinality(Lost(i)) \in Nat
        BY <1>d, <4>1, CountOne
      <4> QED BY <1>a, <2>2, <4>1, <4>2
    <3> QED BY <3>1, <3>2
  <2> QED BY <2>3, <2>4
<1>3. CASE pc[q] \in At /\ pc' = [pc EXCEPT ![q] = "done"]
  <2>1. Balancer!Release(chosen[q]) /\ UNCHANGED <<chosen, rr>>
    <3>1. pc'[q] = "done"
      BY <1>3, <1>b
    <3> QED BY <1>3, <1>b, <3>1 DEF BalancerMoves
  <2>2. chosen[q] \in Replicas
    BY <1>3, <1>b
  <2>3. inflight' = [inflight EXCEPT ![chosen[q]] = IF @ > 0 THEN @ - 1 ELSE 0]
    BY <2>1 DEF Balancer!Release
  <2>4. Balancer!TypeOKBalancer'
    BY <1>3, <1>b, <2>1, <2>2, <2>3 DEF Balancer!TypeOKBalancer, Balancer!Replicas, Balancer!NoReplica
  <2>5. ASSUME NEW i \in Replicas
        PROVE  inflight'[i] = Cardinality(Open(i)') + Cardinality(Lost(i)')
    <3>1. Lost(i)' = Lost(i)
      BY <1>3, <1>b, <2>1 DEF Balancer!Lost
    <3>2. CASE chosen[q] # i
      <4>1. Open(i)' = Open(i)
        BY <1>3, <1>b, <2>1, <3>2 DEF Balancer!Open
      <4> HIDE DEF Open, Lost
      <4> QED BY <1>a, <1>b, <2>3, <3>1, <3>2, <4>1
    <3>3. CASE chosen[q] = i
      <4>1. q \in Open(i) /\ Open(i)' = Open(i) \ {q}
        BY <1>3, <1>b, <2>1, <3>3 DEF Balancer!Open
      <4> HIDE DEF Open, Lost
      <4>2. /\ Cardinality(Open(i) \ {q}) = Cardinality(Open(i)) - 1 /\ Cardinality(Open(i)) > 0
            /\ Cardinality(Open(i)) \in Nat /\ Cardinality(Lost(i)) \in Nat
        BY <1>d, <4>1, CountOne
      <4>3. inflight'[i] = IF inflight[i] > 0 THEN inflight[i] - 1 ELSE 0
        BY <1>b, <2>3, <3>3
      <4> QED BY <1>a, <3>1, <4>1, <4>2, <4>3
    <3> QED BY <3>2, <3>3
  <2> QED BY <2>4, <2>5
<1> QED BY <1>1, <1>2, <1>3 DEF BalancerMoves

\* A request that gets a replica gets one with the fewest requests at work, if none was lost.
LEMMA BalancerChooses ==
  ASSUME Balancer!BalancerInv, Balancer!Next
  PROVE  Balancer!BalancedUnlessLost
<1> SUFFICES ASSUME \A i \in Balancer!Replicas : Balancer!Lost(i) = {},
                    NEW q \in Requests, pc[q] = "new", pc'[q] # "new",
                    NEW j \in Balancer!Replicas
             PROVE  Balancer!Outstanding(chosen'[q]) <= Balancer!Outstanding(j)
  BY Zenon DEF Balancer!BalancedUnlessLost, Balancer!ChoosesLeast
<1>1. PICK r \in Requests : BalancerMoves(r)
  BY BalancerStepMoves
<1>2. r = q
  BY <1>1 DEF BalancerMoves, Balancer!BalancerInv, Balancer!TypeOKBalancer
<1>3. chosen'[q] = Balancer!Pick
  BY <1>1, <1>2 DEF BalancerMoves, Balancer!BalancerInv, Balancer!TypeOKBalancer
<1>4. Balancer!Pick \in Balancer!Replicas /\ inflight[Balancer!Pick] <= inflight[j]
  BY PickIsTied DEF Balancer!BalancerInv, Balancer!Tied
<1>5. \A i \in Balancer!Replicas : inflight[i] = Cardinality(Balancer!Open(i))
  <2> TAKE i \in Balancer!Replicas
  <2>1. inflight[i] = Cardinality(Balancer!Open(i)) + Cardinality(Balancer!Lost(i))
    BY SameCount DEF Balancer!BalancerInv, Balancer!Accounted
  <2>2. Cardinality(Balancer!Lost(i)) = 0
    BY FS_EmptySet
  <2>3. Cardinality(Balancer!Open(i)) \in Nat
    BY CountOne DEF Balancer!Open
  <2> QED BY <2>1, <2>2, <2>3
<1> QED BY <1>3, <1>4, <1>5, SameCount DEF Balancer!Outstanding

-----------------------------------------------------------------------------
(* The proxy and its traffic watch.                                        *)

\* deque.append keeps a sequence of naturals within its window.
LEMMA PushTyped ==
  ASSUME NEW s \in Seq(Nat), Len(s) <= Window, NEW x \in Nat
  PROVE  OneEngine!Push(s, x) \in Seq(Nat) /\ Len(OneEngine!Push(s, x)) <= Window
<1>1. CASE Len(s) < Window
  <2>1. Append(s, x) \in Seq(Nat) /\ Len(Append(s, x)) = Len(s) + 1 /\ Len(s) \in Nat
    OBVIOUS
  <2> QED BY <1>1, <2>1, WatchAssumption DEF OneEngine!Push
<1>2. CASE ~(Len(s) < Window)
  <2>1. Len(s) = Window /\ Len(s) # 0
    BY <1>2, WatchAssumption
  <2>2. Tail(s) \in Seq(Nat) /\ Len(Tail(s)) = Len(s) - 1
    BY <2>1
  <2>3. Append(Tail(s), x) \in Seq(Nat) /\ Len(Append(Tail(s), x)) = Len(Tail(s)) + 1
    BY <2>2
  <2> QED BY <1>2, <2>1, <2>2, <2>3 DEF OneEngine!Push
<1> QED BY <1>1, <1>2

\* What a handler of the proxy does: it begins, goes on, is lost, or counts itself out and may warn.
ProxyMoves(q) ==
  \/ /\ pc[q] = "new" /\ pc' = [pc EXCEPT ![q] = "send"]
     /\ OneEngine!Began
     /\ truth' = OneEngine!Push(truth, OneEngine!Cardinality(OneEngine!Open) + 1)
     /\ UNCHANGED warned
  \/ /\ pc[q] \in OneEngine!OpenPc
     /\ \E l \in OneEngine!OpenPc \cup {"lost"} : pc' = [pc EXCEPT ![q] = l]
     /\ UNCHANGED proxyState
  \/ /\ pc[q] \in OneEngine!OpenPc /\ pc' = [pc EXCEPT ![q] = "done"]
     /\ OneEngine!Ended
     /\ UNCHANGED warned \/ OneEngine!MayWarn
     /\ UNCHANGED <<requests, concurrency, truth>>

LEMMA ProxyStepMoves == OneEngine!Next => \E q \in Requests : ProxyMoves(q)
<1> SUFFICES ASSUME OneEngine!Next PROVE \E q \in Requests : ProxyMoves(q)
  OBVIOUS
<1>1. PICK q \in Requests :
        \/ OneEngine!Begin(q) \/ OneEngine!SendFails(q) \/ OneEngine!SendAnswered(q) \/ OneEngine!StreamEnds(q)
        \/ OneEngine!FinishStream(q) \/ OneEngine!StreamBreaks(q) \/ OneEngine!ReadEnds(q) \/ OneEngine!ReadBreaks(q)
  BY DEF OneEngine!Next
<1> USE DEF ProxyMoves, OneEngine!Goto, OneEngine!OpenPc, OneEngine!watch, proxyState
<1>2. CASE OneEngine!Begin(q)
  BY <1>2 DEF OneEngine!Begin
<1>3. CASE OneEngine!SendFails(q) \/ OneEngine!FinishStream(q) \/ OneEngine!ReadEnds(q)
  BY <1>3 DEF OneEngine!SendFails, OneEngine!FinishStream, OneEngine!ReadEnds
<1>4. CASE OneEngine!SendAnswered(q) \/ OneEngine!StreamEnds(q)
  BY <1>4 DEF OneEngine!SendAnswered, OneEngine!StreamEnds
<1>5. CASE OneEngine!StreamBreaks(q) \/ OneEngine!ReadBreaks(q)
  BY <1>5 DEF OneEngine!StreamBreaks, OneEngine!ReadBreaks
<1> QED BY <1>1, <1>2, <1>3, <1>4, <1>5

LEMMA ProxyStep ==
  ASSUME OneEngine!ProxyInv, NEW q \in Requests, ProxyMoves(q)
  PROVE  OneEngine!ProxyInv'
<1> DEFINE Open == OneEngine!Open
           Lost == OneEngine!Lost
<1>a. OneEngine!TypeOKProxy /\ inFlight = Cardinality(Open) + Cardinality(Lost) /\ (Lost = {} => concurrency = truth)
  BY SameCount DEF OneEngine!ProxyInv, OneEngine!FlightAccounted, OneEngine!SamplesTrue
<1>b. /\ pc \in [Requests -> OneEngine!OpenPc \cup {"new", "done", "lost"}]
      /\ requests \in Nat /\ inFlight \in Nat /\ warned \in BOOLEAN
      /\ concurrency \in Seq(Nat) /\ Len(concurrency) <= Window
      /\ truth \in Seq(Nat) /\ Len(truth) <= Window
  BY <1>a DEF OneEngine!TypeOKProxy
<1>c. Open \in SUBSET Requests /\ Lost \in SUBSET Requests
  BY DEF OneEngine!Open, OneEngine!Lost
<1>d. Cardinality(Open) \in Nat /\ Cardinality(Lost) \in Nat
  BY <1>c, CountOne
<1> SUFFICES OneEngine!TypeOKProxy' /\ inFlight' = Cardinality(Open') + Cardinality(Lost')
               /\ (Lost' = {} => concurrency' = truth')
  BY SameCount DEF OneEngine!ProxyInv, OneEngine!FlightAccounted, OneEngine!SamplesTrue
<1>1. CASE pc[q] = "new"
  <2>1. /\ pc' = [pc EXCEPT ![q] = "send"]
        /\ requests' = requests + 1 /\ inFlight' = inFlight + 1
        /\ concurrency' = OneEngine!Push(concurrency, inFlight + 1)
        /\ truth' = OneEngine!Push(truth, Cardinality(Open) + 1)
        /\ warned' = warned
    BY <1>1, SameCount DEF ProxyMoves, OneEngine!Began, OneEngine!OpenPc
  <2>2. /\ concurrency' \in Seq(Nat) /\ Len(concurrency') <= Window
        /\ truth' \in Seq(Nat) /\ Len(truth') <= Window
    <3>1. inFlight + 1 \in Nat /\ Cardinality(Open) + 1 \in Nat
      BY <1>b, <1>d
    <3> QED BY <1>b, <2>1, <3>1, PushTyped
  <2>3. OneEngine!TypeOKProxy'
    BY <1>b, <2>1, <2>2 DEF OneEngine!TypeOKProxy, OneEngine!OpenPc
  <2>4. Lost' = Lost /\ q \notin Open /\ Open' = Open \cup {q}
    BY <1>1, <1>b, <2>1 DEF OneEngine!Open, OneEngine!Lost, OneEngine!OpenPc
  <2> HIDE DEF Open, Lost
  <2>5. Cardinality(Open \cup {q}) = Cardinality(Open) + 1
    BY <1>c, <2>4, CountOne
  <2>6. inFlight' = Cardinality(Open') + Cardinality(Lost')
    BY <1>a, <1>d, <2>1, <2>4, <2>5
  <2>7. ASSUME Lost' = {} PROVE concurrency' = truth'
    <3>1. Cardinality(Lost) = 0
      BY <2>4, <2>7, FS_EmptySet
    <3>2. inFlight = Cardinality(Open) /\ concurrency = truth
      BY <1>a, <1>d, <2>4, <2>7, <3>1
    <3> QED BY <2>1, <3>2
  <2> QED BY <2>3, <2>6, <2>7
<1>2. CASE pc[q] \in OneEngine!OpenPc /\ ~(pc' = [pc EXCEPT ![q] = "done"])
  <2>1. PICK l \in OneEngine!OpenPc \cup {"lost"} : pc' = [pc EXCEPT ![q] = l]
    BY <1>2 DEF ProxyMoves, OneEngine!OpenPc
  <2>2. UNCHANGED <<inFlight, requests, concurrency, warned, truth>>
    BY <1>2 DEF ProxyMoves, OneEngine!OpenPc, proxyState
  <2>3. OneEngine!TypeOKProxy'
    BY <1>2, <1>b, <2>1, <2>2 DEF OneEngine!TypeOKProxy, OneEngine!OpenPc
  <2>4. CASE l # "lost"
    <3>1. Open' = Open /\ Lost' = Lost
      BY <1>2, <1>b, <2>1, <2>4 DEF OneEngine!Open, OneEngine!Lost, OneEngine!OpenPc
    <3> QED BY <1>a, <2>2, <2>3, <3>1
  <2>5. CASE l = "lost"
    <3>1. /\ q \in Open /\ Open' = Open \ {q}
          /\ q \notin Lost /\ Lost' = Lost \cup {q}
      BY <1>2, <1>b, <2>1, <2>5 DEF OneEngine!Open, OneEngine!Lost, OneEngine!OpenPc
    <3> HIDE DEF Open, Lost
    <3>2. /\ Cardinality(Open \ {q}) = Cardinality(Open) - 1
          /\ Cardinality(Lost \cup {q}) = Cardinality(Lost) + 1
      BY <1>c, <3>1, CountOne
    <3> QED BY <1>a, <1>d, <2>2, <2>3, <3>1, <3>2
  <2> QED BY <2>4, <2>5
<1>3. CASE pc[q] \in OneEngine!OpenPc /\ pc' = [pc EXCEPT ![q] = "done"]
  <2>1. /\ OneEngine!Ended /\ (UNCHANGED warned \/ OneEngine!MayWarn)
        /\ UNCHANGED <<requests, concurrency, truth>>
    <3>1. pc'[q] = "done"
      BY <1>3, <1>b
    <3> QED BY <1>3, <1>b, <3>1 DEF ProxyMoves, OneEngine!OpenPc
  <2>2. inFlight' = IF inFlight > 0 THEN inFlight - 1 ELSE 0
    BY <2>1 DEF OneEngine!Ended
  <2>3. warned' \in BOOLEAN
    BY <1>b, <2>1, Zenon DEF OneEngine!MayWarn, OneEngine!Busier
  <2>4. OneEngine!TypeOKProxy'
    BY <1>3, <1>b, <2>1, <2>2, <2>3 DEF OneEngine!TypeOKProxy, OneEngine!OpenPc
  <2>5. q \in Open /\ Open' = Open \ {q} /\ Lost' = Lost
    BY <1>3, <1>b DEF OneEngine!Open, OneEngine!Lost, OneEngine!OpenPc
  <2> HIDE DEF Open, Lost
  <2>6. Cardinality(Open \ {q}) = Cardinality(Open) - 1 /\ Cardinality(Open) > 0
    BY <1>c, <2>5, CountOne
  <2> QED BY <1>a, <1>d, <2>1, <2>2, <2>4, <2>5, <2>6
<1> QED BY <1>1, <1>2, <1>3 DEF ProxyMoves

\* The warning is given in the one step that looks at the window, and the window is the truth then.
LEMMA ProxyWarns ==
  ASSUME OneEngine!ProxyInv, OneEngine!Next
  PROVE  OneEngine!WarnsOfRealDrift
<1> SUFFICES ASSUME ~warned, warned', OneEngine!Lost = {}
             PROVE  OneEngine!Busier(truth, requests)
  BY DEF OneEngine!WarnsOfRealDrift
<1>1. PICK q \in Requests : ProxyMoves(q)
  BY ProxyStepMoves
<1>2. OneEngine!MayWarn
  BY <1>1, Zenon DEF ProxyMoves, proxyState
<1>3. OneEngine!Busier(concurrency, requests)
  BY <1>2, Zenon DEF OneEngine!MayWarn
<1>4. concurrency = truth
  BY DEF OneEngine!ProxyInv, OneEngine!SamplesTrue
<1> QED BY <1>3, <1>4

-----------------------------------------------------------------------------
(* The theorems.                                                           *)

LEMMA InitFrontend == Init => FrontendInv
<1> SUFFICES ASSUME Init PROVE FrontendInv
  OBVIOUS
<1>1. CASE app = "balancer"
  <2>1. Balancer!TypeOKBalancer
    BY NAssumption DEF Init, Balancer!Init, Balancer!TypeOKBalancer, Balancer!NoReplica, Balancer!Replicas
  <2>2. \A i \in Balancer!Replicas : inflight[i] = 0 /\ Balancer!Open(i) = {} /\ Balancer!Lost(i) = {}
    BY DEF Init, Balancer!Init, Balancer!Open, Balancer!Lost
  <2>3. Balancer!Accounted
    BY <2>2, SameCount, FS_EmptySet DEF Balancer!Accounted
  <2> QED BY <1>1, <2>1, <2>3 DEF FrontendInv, Balancer!BalancerInv
<1>2. CASE app = "proxy"
  <2>1. OneEngine!TypeOKProxy
    <3>1. pc \in [Requests -> {"new", "done", "lost"} \cup OneEngine!OpenPc]
      BY <1>2 DEF Init, OneEngine!Init
    <3>2. inFlight \in Nat /\ requests \in Nat /\ warned \in BOOLEAN
      BY <1>2 DEF Init, OneEngine!Init
    <3>3. <<>> \in Seq(Nat) /\ Len(<<>>) <= Window
      BY WatchAssumption
    <3>4. concurrency = <<>> /\ truth = <<>>
      BY <1>2 DEF Init, OneEngine!Init
    <3> QED BY <3>1, <3>2, <3>3, <3>4 DEF OneEngine!TypeOKProxy
  <2>2. inFlight = 0 /\ OneEngine!Open = {} /\ OneEngine!Lost = {} /\ concurrency = truth
    BY DEF Init, OneEngine!Init, OneEngine!Open, OneEngine!Lost, OneEngine!OpenPc
  <2>3. OneEngine!FlightAccounted /\ OneEngine!SamplesTrue
    BY <2>2, SameCount, FS_EmptySet DEF OneEngine!FlightAccounted, OneEngine!SamplesTrue
  <2> QED BY <1>2, <2>1, <2>3 DEF FrontendInv, OneEngine!ProxyInv
<1> QED BY <1>1, <1>2 DEF Init

LEMMA NextFrontend == FrontendInv /\ [Next]_fvars => FrontendInv'
<1> SUFFICES ASSUME FrontendInv, [Next]_fvars PROVE FrontendInv'
  OBVIOUS
<1>1. CASE app = "balancer" /\ Balancer!Next /\ UNCHANGED <<app, proxyState>>
  BY <1>1, BalancerStepMoves, BalancerStep DEF FrontendInv
<1>2. CASE app = "proxy" /\ OneEngine!Next /\ UNCHANGED <<app, balancerState>>
  BY <1>2, ProxyStepMoves, ProxyStep DEF FrontendInv
<1>3. CASE UNCHANGED fvars
  <2>1. UNCHANGED <<app, pc, chosen, inflight, rr, inFlight, requests, concurrency, warned, truth>>
    BY <1>3 DEF fvars, balancerState, proxyState
  <2>2. Balancer!BalancerInv => Balancer!BalancerInv'
    BY <2>1 DEF Balancer!BalancerInv, Balancer!TypeOKBalancer, Balancer!Accounted, Balancer!Open, Balancer!Lost,
                Balancer!Replicas, Balancer!NoReplica
  <2>3. OneEngine!ProxyInv => OneEngine!ProxyInv'
    BY <2>1 DEF OneEngine!ProxyInv, OneEngine!TypeOKProxy, OneEngine!FlightAccounted, OneEngine!SamplesTrue,
                OneEngine!Open, OneEngine!Lost
  <2> QED BY <2>1, <2>2, <2>3 DEF FrontendInv
<1> QED BY <1>1, <1>2, <1>3 DEF Next

\* The inductive invariant of the front end.
THEOREM FrontendCounts == Spec => []FrontendInv
  BY InitFrontend, NextFrontend, PTL DEF Spec

\* Every counter is the number of requests at work and of those that were lost: no path through a
\* handler counts a request out twice, for any number of requests and replicas.
THEOREM RequestsAccounted == Spec => []Accounted
<1>1. FrontendInv => Accounted
  BY DEF FrontendInv, Accounted, Balancer!BalancerInv, OneEngine!ProxyInv
<1> QED BY <1>1, FrontendCounts, PTL

\* The replica with the fewest requests at work gets the next one, until a request is lost.
THEOREM LeastLoadedChosen == Spec => BalancedUnlessLost
<1>1. FrontendInv /\ [Next]_fvars => [app = "balancer" => Balancer!BalancedUnlessLost]_fvars
  <2> SUFFICES ASSUME FrontendInv, Next, app = "balancer" PROVE Balancer!BalancedUnlessLost
    OBVIOUS
  <2>1. Balancer!Next
    BY DEF Next
  <2> QED BY <2>1, BalancerChooses DEF FrontendInv
<1> QED BY <1>1, FrontendCounts, PTL DEF Spec, BalancedUnlessLost

\* The operator is told of drift only when traffic has drifted, until a request is lost.
THEOREM DriftIsReal == Spec => WarnsOfRealDrift
<1>1. FrontendInv /\ [Next]_fvars => [app = "proxy" => OneEngine!WarnsOfRealDrift]_fvars
  <2> SUFFICES ASSUME FrontendInv, Next, app = "proxy" PROVE OneEngine!WarnsOfRealDrift
    OBVIOUS
  <2>1. OneEngine!Next
    BY DEF Next
  <2> QED BY <2>1, ProxyWarns DEF FrontendInv
<1> QED BY <1>1, FrontendCounts, PTL DEF Spec, WarnsOfRealDrift
=============================================================================
