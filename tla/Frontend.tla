------------------------------ MODULE Frontend ------------------------------
(***************************************************************************)
(* The front end that cli.py serve puts before the backend: the load       *)
(* balancer over replicas when the profile has several, the proxy of one   *)
(* engine otherwise.  The third, the splitter of a prefill/decode pair,    *)
(* keeps no state from one request to the next and is not a module.        *)
(***************************************************************************)
EXTENDS Naturals, FiniteSets

CONSTANTS
  Requests,         \* the requests of the clients
  N,                \* the replicas behind the balancer
  Window, MinRequests, Top    \* of the traffic watch of the proxy

ASSUME RequestsAssumption == IsFiniteSet(Requests)
ASSUME NAssumption == N \in Nat \ {0}
ASSUME WatchAssumption == Window \in Nat \ {0} /\ MinRequests \in Nat /\ Top \in Nat

VARIABLES
  app,              \* the front end that serves: "balancer" or "proxy"
  pc,               \* of the handlers, whichever it is
  chosen, inflight, rr,                               \* the balancer's
  inFlight, requests, concurrency, warned, truth      \* the proxy's

balancerState == <<chosen, inflight, rr>>
proxyState == <<inFlight, requests, concurrency, warned, truth>>
fvars == <<app, pc, balancerState, proxyState>>

Balancer == INSTANCE LoadBalancer
OneEngine == INSTANCE Proxy

Init ==
  /\ app \in {"balancer", "proxy"}
  /\ Balancer!Init
  /\ OneEngine!Init

Next ==
  \/ app = "balancer" /\ Balancer!Next /\ UNCHANGED <<app, proxyState>>
  \/ app = "proxy" /\ OneEngine!Next /\ UNCHANGED <<app, balancerState>>

Spec == Init /\ [][Next]_fvars

-----------------------------------------------------------------------------
(* The properties of whichever is at work.                                 *)

\* The inductive invariant.
FrontendInv ==
  /\ app \in {"balancer", "proxy"}
  /\ app = "balancer" => Balancer!BalancerInv
  /\ app = "proxy" => OneEngine!ProxyInv

\* The balancer's count of a replica, and the traffic watch's of the one engine, is the number of
\* requests at work there and of those the front end has lost: no path counts a request out twice,
\* which the clamps at 0 would hide, and nothing looks idle while it works.
Accounted == IF app = "balancer" THEN Balancer!Accounted ELSE OneEngine!FlightAccounted

\* As long as no request was lost, the replica with the fewest outstanding requests gets the next
\* one, in whatever order the requests before it were answered.
BalancedUnlessLost == [][app = "balancer" => Balancer!BalancedUnlessLost]_fvars

\* Unless requests were lost, the operator is told that traffic is busier than calibrated only when
\* it is: the samples behind the median are the requests that were really open.
WarnsOfRealDrift == [][app = "proxy" => OneEngine!WarnsOfRealDrift]_fvars
=============================================================================
