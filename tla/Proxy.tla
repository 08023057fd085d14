------------------------------- MODULE Proxy -------------------------------
(***************************************************************************)
(* The OpenAI-compatible front end of one engine: polyserve/serve/proxy.py *)
(* passthrough, and what it feeds to the traffic watch of                  *)
(* polyserve/drift.py.                                                     *)
(*                                                                         *)
(* Of the watch the module keeps what the handlers race for: the number of *)
(* requests in flight, the rolling window of it that began() samples, and  *)
(* the warning that is given once.  Token counts and latencies come out of *)
(* one reply each and are left out; that the median length has drifted is  *)
(* not modelled, that the median concurrency has is.                       *)
(***************************************************************************)
EXTENDS Naturals, FiniteSets, Sequences, TLC

CONSTANTS
  Requests,
  Window,           \* samples kept
  MinRequests,      \* requests seen before anything is said
  Top               \* the highest concurrency the profile was calibrated at

VARIABLES
  pc,               \* pc[q]: where the handler of request q is
  inFlight,         \* watch.in_flight
  requests,         \* watch.requests
  concurrency,      \* watch.concurrency, oldest first
  warned,           \* watch._warned
  truth             \* the samples as they should be: requests really open, oldest first

watch == <<inFlight, requests, concurrency, warned, truth>>
vars == <<pc, watch>>

OpenPc == {"send", "stream", "drained", "read"}
Open == {q \in Requests : pc[q] \in OpenPc}
Lost == {q \in Requests : pc[q] = "lost"}

\* The types.
TypeOKProxy ==
  /\ pc \in [Requests -> {"new", "done", "lost"} \cup OpenPc]
  /\ requests \in Nat
  /\ inFlight \in Nat
  /\ concurrency \in Seq(Nat) /\ Len(concurrency) <= Window
  /\ truth \in Seq(Nat) /\ Len(truth) <= Window
  /\ warned \in BOOLEAN

Init ==
  /\ pc = [q \in Requests |-> "new"]
  /\ inFlight = 0
  /\ requests = 0
  /\ concurrency = <<>>
  /\ warned = FALSE
  /\ truth = <<>>

Goto(q, l) == pc' = [pc EXCEPT ![q] = l]

-----------------------------------------------------------------------------
(* TrafficWatch.                                                           *)

\* deque(maxlen=window).append
Push(s, x) == IF Len(s) < Window THEN Append(s, x) ELSE Append(Tail(s), x)

\* Twice the median of a non-empty sequence: the sum of its middle two.
TwiceMedian(s) ==
  LET sorted == SortSeq(s, <)
  IN  sorted[(Len(s) + 1) \div 2] + sorted[(Len(s) + 2) \div 2]

\* The finding "traffic runs at N concurrent requests", over a window of samples.
Busier(samples, seen) ==
  /\ seen >= MinRequests
  /\ samples # <<>>
  /\ TwiceMedian(samples) > 2 * Top

Began ==
  /\ requests' = requests + 1
  /\ inFlight' = inFlight + 1
  /\ concurrency' = Push(concurrency, inFlight + 1)

Ended == inFlight' = IF inFlight > 0 THEN inFlight - 1 ELSE 0

\* should_warn(): true once.
MayWarn == warned' = (warned \/ Busier(concurrency, requests))

-----------------------------------------------------------------------------
(* passthrough(), from the call of began() on; every await is a step.      *)

Begin(q) ==
  /\ pc[q] = "new"
  /\ Began
  /\ truth' = Push(truth, Cardinality(Open) + 1)
  /\ Goto(q, "send")
  /\ UNCHANGED warned

\* A failed request that stays in the count.
SendFails_NotEnded(q) ==
  /\ pc[q] = "send"
  /\ Goto(q, "done")
  /\ UNCHANGED watch

\* A failed request that is counted out here and when its reply is closed.
SendFails_EndedTwice(q) ==
  /\ pc[q] = "send"
  /\ Ended
  /\ Goto(q, "drained")
  /\ UNCHANGED <<requests, concurrency, warned, truth>>

\* The engine is unavailable: 502.
SendFails(q) ==
  /\ pc[q] = "send"
  /\ Ended
  /\ Goto(q, "done")
  /\ UNCHANGED <<requests, concurrency, warned, truth>>

SendAnswered(q) ==
  /\ pc[q] = "send"
  /\ Goto(q, "stream") \/ Goto(q, "read")
  /\ UNCHANGED watch

\* The last chunk has passed through _tee, or the client has gone.
StreamEnds(q) ==
  /\ pc[q] = "stream"
  /\ Goto(q, "drained")
  /\ UNCHANGED watch

\* _finish_stream, the background task.
FinishStream(q) ==
  /\ pc[q] = "drained"
  /\ Ended
  /\ Goto(q, "done")
  /\ UNCHANGED <<requests, concurrency, warned, truth>>

\* The engine dies in the middle of a stream: the exception of _tee() leaves the response,
\* whose background task does not run.
StreamBreaks(q) ==
  /\ pc[q] = "stream"
  /\ Goto(q, "lost")
  /\ UNCHANGED watch

\* A whole reply: counted out, and the one place that may warn.
ReadEnds(q) ==
  /\ pc[q] = "read"
  /\ Ended
  /\ MayWarn
  /\ Goto(q, "done")
  /\ UNCHANGED <<requests, concurrency, truth>>

\* aread() raises outside any try block.
ReadBreaks(q) ==
  /\ pc[q] = "read"
  /\ Goto(q, "lost")
  /\ UNCHANGED watch

Next ==
  \E q \in Requests :
    \/ Begin(q) \/ SendFails(q) \/ SendAnswered(q) \/ StreamEnds(q) \/ FinishStream(q)
    \/ StreamBreaks(q) \/ ReadEnds(q) \/ ReadBreaks(q)

Spec == Init /\ [][Next]_vars

-----------------------------------------------------------------------------
(* Properties.                                                             *)

\* The watch counts the open requests and the ones the proxy lost: no path ends a request
\* twice, which the clamp at 0 would hide.
FlightAccounted == inFlight = Cardinality(Open) + Cardinality(Lost)

\* What the watch has sampled is what was really open, until a request is lost.
SamplesTrue == Lost = {} => concurrency = truth

ProxyInv == TypeOKProxy /\ FlightAccounted /\ SamplesTrue

\* Unless requests were lost, the operator is told that traffic is busier than calibrated
\* only when it is: the samples behind the median are the requests that were really open.
WarnsOfRealDrift == (~warned /\ warned' /\ Lost = {}) => Busier(truth, requests)
=============================================================================
