---------------------------- MODULE LoadBalancer ----------------------------
(***************************************************************************)
(* The front end over N identical replicas: polyserve/layout.py,           *)
(* create_lb_app.                                                          *)
(*                                                                         *)
(* Every request is a coroutine of one event loop.  It picks the replica   *)
(* with the fewest outstanding requests, counts itself in, and counts      *)
(* itself out when it is over, on some of its paths.  A request that ended *)
(* without counting itself out is "lost".                                  *)
(***************************************************************************)
EXTENDS Naturals, FiniteSets

CONSTANTS
  Requests,         \* the requests of the clients
  N                 \* the number of replicas

Replicas == 0..(N - 1)
NoReplica == N

VARIABLES
  pc,               \* pc[q]: where the handler of request q is
  chosen,           \* chosen[q]: the replica it was given
  inflight,         \* state["inflight"]
  rr                \* the next value of the round-robin counter

vars == <<pc, chosen, inflight, rr>>

\* The requests that are at work on replica i, and those that only seem to be.
Open(i) == {q \in Requests : chosen[q] = i /\ pc[q] \in {"body", "send", "stream", "read", "close"}}
Lost(i) == {q \in Requests : chosen[q] = i /\ pc[q] = "lost"}

\* The types; a request has a replica from its first step on.
TypeOKBalancer ==
  /\ pc \in [Requests -> {"new", "body", "send", "stream", "read", "close", "done", "lost"}]
  /\ chosen \in [Requests -> Replicas \cup {NoReplica}]
  /\ inflight \in [Replicas -> Nat]
  /\ rr \in Nat
  /\ \A q \in Requests : pc[q] = "new" <=> chosen[q] = NoReplica

Init ==
  /\ pc = [q \in Requests |-> "new"]
  /\ chosen = [q \in Requests |-> NoReplica]
  /\ inflight = [i \in Replicas |-> 0]
  /\ rr = 0

Goto(q, l) == pc' = [pc EXCEPT ![q] = l]

-----------------------------------------------------------------------------
(* _choose and _release.                                                   *)

Tied == {i \in Replicas : \A j \in Replicas : inflight[i] <= inflight[j]}

\* Round robin over all replicas.
Pick_RoundRobin == rr % N

\* tied[k], of the replicas in their order: the one that k of them precede.
NthTied(k) == CHOOSE i \in Tied : Cardinality({j \in Tied : j < i}) = k

\* tied[next(rr) % len(tied)]
Pick == NthTied(rr % Cardinality(Tied))

Choose(q) ==
  /\ pc[q] = "new"
  /\ chosen' = [chosen EXCEPT ![q] = Pick]
  /\ inflight' = [inflight EXCEPT ![Pick] = @ + 1]
  /\ rr' = rr + 1
  /\ Goto(q, "body")

Release(i) == inflight' = [inflight EXCEPT ![i] = IF @ > 0 THEN @ - 1 ELSE 0]

-----------------------------------------------------------------------------
(* forward(): every await is a step.                                       *)

BodyRead(q) ==
  /\ pc[q] = "body"
  /\ Goto(q, "send")
  /\ UNCHANGED <<chosen, inflight, rr>>

\* The client goes away before its body has arrived: the exception of request.body()
\* leaves the handler after the choice.
BodyLost(q) ==
  /\ pc[q] = "body"
  /\ Goto(q, "lost")
  /\ UNCHANGED <<chosen, inflight, rr>>

\* The replica answers with its headers; the body is streamed or read.
SendAnswered(q) ==
  /\ pc[q] = "send"
  /\ Goto(q, "stream") \/ Goto(q, "read")
  /\ UNCHANGED <<chosen, inflight, rr>>

\* A handler that counts a failed request out and closes it too.
SendFails_CloseToo(q) ==
  /\ pc[q] = "send"
  /\ Release(chosen[q])
  /\ Goto(q, "close")
  /\ UNCHANGED <<chosen, rr>>

\* The replica is unavailable: 502, counted out.
SendFails(q) ==
  /\ pc[q] = "send"
  /\ Release(chosen[q])
  /\ Goto(q, "done")
  /\ UNCHANGED <<chosen, rr>>

\* The stream is over, or the client has gone: the background task will close.
StreamEnds(q) ==
  /\ pc[q] = "stream"
  /\ Goto(q, "close")
  /\ UNCHANGED <<chosen, inflight, rr>>

\* The replica dies in the middle of its stream: the exception of aiter_raw() leaves the
\* response, and its background task does not run.
StreamBreaks(q) ==
  /\ pc[q] = "stream"
  /\ Goto(q, "lost")
  /\ UNCHANGED <<chosen, inflight, rr>>

ReadEnds(q) ==
  /\ pc[q] = "read"
  /\ Goto(q, "close")
  /\ UNCHANGED <<chosen, inflight, rr>>

\* aread() raises outside any try block.
ReadBreaks(q) ==
  /\ pc[q] = "read"
  /\ Goto(q, "lost")
  /\ UNCHANGED <<chosen, inflight, rr>>

Close(q) ==
  /\ pc[q] = "close"
  /\ Release(chosen[q])
  /\ Goto(q, "done")
  /\ UNCHANGED <<chosen, rr>>

Next ==
  \E q \in Requests :
    \/ Choose(q) \/ BodyRead(q) \/ BodyLost(q) \/ SendAnswered(q) \/ SendFails(q)
    \/ StreamEnds(q) \/ StreamBreaks(q) \/ ReadEnds(q) \/ ReadBreaks(q) \/ Close(q)

Spec == Init /\ [][Next]_vars

-----------------------------------------------------------------------------
(* Properties.                                                             *)

\* The counter of a replica is the number of requests at work on it and of those it has
\* lost: no path counts a request out twice, which the clamp at 0 would hide, and no
\* replica looks idle while it works.
Accounted ==
  \A i \in Replicas : inflight[i] = Cardinality(Open(i)) + Cardinality(Lost(i))

BalancerInv == TypeOKBalancer /\ Accounted

Outstanding(i) == Cardinality(Open(i))

\* A step that gives request q a replica gives it one with the fewest requests at work.
ChoosesLeast ==
  \A q \in Requests : pc[q] = "new" /\ pc'[q] # "new" =>
    \A j \in Replicas : Outstanding(chosen'[q]) <= Outstanding(j)

\* As long as no request was lost, the replica with the fewest outstanding requests gets
\* the next one, in whatever order the requests before it were answered.
BalancedUnlessLost == (\A i \in Replicas : Lost(i) = {}) => ChoosesLeast
=============================================================================
