------------------------------ MODULE LoadGen ------------------------------
(***************************************************************************)
(* One level of load: polyserve/calibrate/measure.py, _drive and           *)
(* _drive_clients.                                                         *)
(*                                                                         *)
(* The prompts of a level are positions 0..n-1, dealt to client processes  *)
(* in turn.  Each client reports that it is up, waits for the common       *)
(* start, sends its share under a semaphore of its own and posts the       *)
(* outcomes; the parent collects them from a queue with a timeout, and     *)
(* looks at the processes only when the queue is quiet.  A client may die  *)
(* at any step.  With one client the parent drives the load itself.        *)
(*                                                                         *)
(* The timeouts (1 s and 5 s on the queues, 180 s for the start) may pass  *)
(* whenever what they wait for has not come.                               *)
(***************************************************************************)
EXTENDS Naturals, FiniteSets, FiniteSetsExt

CONSTANTS
  MaxPrompts,   \* the most prompts of a level
  MaxClients,   \* the most client processes
  MaxDeaths     \* bound: the clients that die in all

ASSUME LoadBoundsAssumption == MaxPrompts \in Nat /\ MaxClients \in Nat \ {0} /\ MaxDeaths \in Nat

VARIABLES
  dpc,          \* the parent: "off", "starting", "collect", "quiet", "gone", "inline", "joined", "merged", "raised"
  ask,          \* what is asked for: [n, c, clients]
  req,          \* req[p]: "none", "wait", "flight", "ok", "failed"
  client,       \* client[i]: "none", "starting", "up", "driving", "posted", "exited", "dead"
  ready,        \* clients whose ready message is unread
  started,      \* clients that were counted as up
  late,         \* the deadline of the start has passed
  out,          \* clients whose outcomes are unread
  results,      \* clients whose outcomes the parent has
  merged,       \* merged[p]: the outcome the level reports for position p
  deaths        \* clients that died (bound)

lvars == <<dpc, ask, req, client, ready, started, late, out, results, merged, deaths>>

Positions == 0..(MaxPrompts - 1)
NoLevel == [n |-> 0, c |-> 1, clients |-> 1]
Clients == 0..(MaxClients - 1)

-----------------------------------------------------------------------------
(* The split of a level.                                                   *)

\* workload.prompts[i::clients]
Shard(i) == {p \in Positions : p < ask.n /\ p % ask.clients = i}

\* Empty shards get no process.
Procs == IF ask.clients = 1 THEN {} ELSE {i \in Clients : i < ask.clients /\ Shard(i) # {}}

\* A split that gives every process the whole concurrency.
PerClient_Whole == ask.c

\* Every process gets the concurrency divided by their number, rounded up.
PerClient == Max({1, (ask.c + Cardinality(Procs) - 1) \div Cardinality(Procs)})

IsAlive(i) == client[i] \in {"starting", "up", "driving", "posted"}

InFlight == {p \in Positions : req[p] = "flight"}

\* worker(): the semaphore is served in the order of the prompts.
Begin(p, share, limit) ==
  /\ req[p] = "wait"
  /\ \A q \in share : q < p => req[q] # "wait"
  /\ Cardinality(share \cap InFlight) < limit
  /\ req' = [req EXCEPT ![p] = "flight"]

\* _one_request: tokens arrive, or an HTTP error, a timeout or an empty answer.
End(p, share) ==
  /\ p \in share \cap InFlight
  /\ \E o \in {"ok", "failed"} : req' = [req EXCEPT ![p] = o]

Served(share) == \A p \in share : req[p] \in {"ok", "failed"}

-----------------------------------------------------------------------------
(* The client processes.                                                   *)

\* _client_main: ready.put(index)
ClientUp(i) ==
  /\ client[i] = "starting"
  /\ client' = [client EXCEPT ![i] = "up"]
  /\ ready' = ready \cup {i}
  /\ UNCHANGED <<dpc, ask, req, started, late, out, results, merged, deaths>>

Gone == {"collect", "quiet", "gone", "joined", "merged"}

\* go.wait(): the event is set once the parent has left its first loop.
ClientGo(i) ==
  /\ client[i] = "up"
  /\ dpc \in Gone
  /\ client' = [client EXCEPT ![i] = "driving"]
  /\ UNCHANGED <<dpc, ask, req, ready, started, late, out, results, merged, deaths>>

ClientBegin(i, p) ==
  /\ client[i] = "driving"
  /\ p \in Shard(i)
  /\ Begin(p, Shard(i), PerClient)
  /\ UNCHANGED <<dpc, ask, client, ready, started, late, out, results, merged, deaths>>

ClientEnd(i, p) ==
  /\ client[i] = "driving"
  /\ End(p, Shard(i))
  /\ UNCHANGED <<dpc, ask, client, ready, started, late, out, results, merged, deaths>>

\* out.put(): a process does not exit before its outcomes are in the pipe.
ClientPost(i) ==
  /\ client[i] = "driving"
  /\ Served(Shard(i))
  /\ client' = [client EXCEPT ![i] = "posted"]
  /\ out' = out \cup {i}
  /\ UNCHANGED <<dpc, ask, req, ready, started, late, results, merged, deaths>>

ClientExit(i) ==
  /\ client[i] = "posted"
  /\ client' = [client EXCEPT ![i] = "exited"]
  /\ UNCHANGED <<dpc, ask, req, ready, started, late, out, results, merged, deaths>>

\* Killed, out of memory, or an exception of _drive that no handler takes; its requests end
\* with it.
ClientDies(i) ==
  /\ IsAlive(i)
  /\ deaths < MaxDeaths
  /\ deaths' = deaths + 1
  /\ client' = [client EXCEPT ![i] = "dead"]
  /\ req' = [p \in Positions |-> IF p \in Shard(i) /\ req[p] \in {"wait", "flight"} THEN "none" ELSE req[p]]
  /\ UNCHANGED <<dpc, ask, ready, started, late, out, results, merged>>

ClientStep(i) ==
  \/ ClientUp(i) \/ ClientGo(i) \/ ClientPost(i) \/ ClientExit(i)
  \/ \E p \in Positions : ClientBegin(i, p) \/ ClientEnd(i, p)

-----------------------------------------------------------------------------
(* The parent.                                                             *)

\* The level is asked for: the processes are started.
DriveLevel(n, c, clients) ==
  /\ dpc = "off"
  /\ ask' = [n |-> n, c |-> c, clients |-> clients]
  /\ req' = [p \in Positions |-> IF p < n THEN "wait" ELSE "none"]
  /\ client' = [i \in Clients |-> IF clients > 1 /\ i < clients /\ i < n THEN "starting" ELSE "none"]
  /\ dpc' = IF clients > 1 THEN "starting" ELSE "inline"
  /\ late' = FALSE
  /\ ready' = {} /\ started' = {} /\ out' = {} /\ results' = {}
  /\ merged' = [p \in Positions |-> "none"]
  /\ UNCHANGED deaths

StartCounts ==
  /\ dpc = "starting" /\ started # Procs /\ ~late
  /\ \E i \in ready : ready' = ready \ {i} /\ started' = started \cup {i}
  /\ UNCHANGED <<dpc, ask, req, client, late, out, results, merged, deaths>>

\* One second without a message and no process alive: nobody will come up.
StartQuiet ==
  /\ dpc = "starting" /\ started # Procs /\ ready = {}
  /\ \A i \in Procs : ~IsAlive(i)
  /\ dpc' = "collect"
  /\ UNCHANGED <<ask, req, client, ready, started, late, out, results, merged, deaths>>

StartLate ==
  /\ dpc = "starting" /\ started # Procs /\ ~late
  /\ late' = TRUE
  /\ UNCHANGED <<dpc, ask, req, client, ready, started, out, results, merged, deaths>>

\* The clock starts and the event is set.
StartGo ==
  /\ dpc = "starting" /\ (started = Procs \/ late)
  /\ dpc' = "collect"
  /\ UNCHANGED <<ask, req, client, ready, started, late, out, results, merged, deaths>>

CollectOne ==
  /\ dpc = "collect" /\ results # Procs
  /\ \E i \in out : out' = out \ {i} /\ results' = results \cup {i}
  /\ UNCHANGED <<dpc, ask, req, client, ready, started, late, merged, deaths>>

\* Five seconds without a message: are any processes left?
CollectQuiet ==
  /\ dpc = "collect" /\ results # Procs /\ out = {}
  /\ dpc' = "quiet"
  /\ UNCHANGED <<ask, req, client, ready, started, late, out, results, merged, deaths>>

\* A look at the processes that trusts the queue it has just found empty.
CollectLooks_OnlyAlive ==
  /\ dpc = "quiet"
  /\ dpc' = IF \E i \in Procs : IsAlive(i) THEN "collect" ELSE "joined"
  /\ UNCHANGED <<ask, req, client, ready, started, late, out, results, merged, deaths>>

\* A parent that waits for every result, whoever is left to send one.
CollectLooks_Never ==
  /\ dpc = "quiet"
  /\ dpc' = "collect"
  /\ UNCHANGED <<ask, req, client, ready, started, late, out, results, merged, deaths>>

CollectLooks ==
  /\ dpc = "quiet"
  /\ dpc' = IF \E i \in Procs : IsAlive(i) THEN "collect" ELSE "gone"
  /\ UNCHANGED <<ask, req, client, ready, started, late, out, results, merged, deaths>>

\* None alive: the queue is asked once more, since the last of them may have posted.
CollectLast ==
  /\ dpc = "gone"
  /\ dpc' = IF out = {} THEN "joined" ELSE "collect"
  /\ UNCHANGED <<ask, req, client, ready, started, late, out, results, merged, deaths>>

CollectDone ==
  /\ dpc = "collect" /\ results = Procs
  /\ dpc' = "joined"
  /\ UNCHANGED <<ask, req, client, ready, started, late, out, results, merged, deaths>>

\* p.join, and the outcomes of every shard; a process without any counts as failed.
Merge ==
  /\ dpc = "joined"
  /\ merged' = [p \in Positions |->
                  IF \E i \in results : p \in Shard(i) THEN req[p] ELSE IF p < ask.n THEN "failed" ELSE "none"]
  /\ dpc' = "merged"
  /\ UNCHANGED <<ask, req, client, ready, started, late, out, results, deaths>>

\* One client: asyncio.run(_drive(...)) in the parent.
InlineBegin(p) ==
  /\ dpc = "inline"
  /\ Begin(p, Shard(0), ask.c)
  /\ UNCHANGED <<dpc, ask, client, ready, started, late, out, results, merged, deaths>>

InlineEnd(p) ==
  /\ dpc = "inline"
  /\ End(p, Shard(0))
  /\ UNCHANGED <<dpc, ask, client, ready, started, late, out, results, merged, deaths>>

InlineDone ==
  /\ dpc = "inline" /\ Served(Shard(0))
  /\ merged' = req
  /\ dpc' = "merged"
  /\ UNCHANGED <<ask, req, client, ready, started, late, out, results, deaths>>

\* An exception that _one_request does not take leaves gather() and the level.
InlineRaises ==
  /\ dpc = "inline" /\ InFlight # {}
  /\ deaths < MaxDeaths
  /\ deaths' = deaths + 1
  /\ dpc' = "raised"
  /\ UNCHANGED <<ask, req, client, ready, started, late, out, results, merged>>

ParentStep ==
  \/ StartCounts \/ StartQuiet \/ StartLate \/ StartGo
  \/ CollectOne \/ CollectQuiet \/ CollectLooks \/ CollectLast \/ CollectDone \/ Merge
  \/ InlineDone \/ \E p \in Positions : InlineBegin(p) \/ InlineEnd(p)

LoadStep ==
  \/ ParentStep \/ InlineRaises
  \/ \E i \in Clients : ClientStep(i) \/ ClientDies(i)

\* The outcomes are taken, or the exception: the call and its locals are gone.
EndDrive ==
  /\ dpc' = "off"
  /\ ask' = NoLevel
  /\ req' = [p \in Positions |-> "none"]
  /\ client' = [i \in Clients |-> "none"]
  /\ ready' = {} /\ started' = {} /\ out' = {} /\ results' = {}
  /\ late' = FALSE
  /\ merged' = [p \in Positions |-> "none"]
  /\ UNCHANGED deaths

InitLoad ==
  /\ dpc = "off"
  /\ ask = NoLevel
  /\ req = [p \in Positions |-> "none"]
  /\ client = [i \in Clients |-> "none"]
  /\ ready = {} /\ started = {} /\ out = {} /\ results = {}
  /\ late = FALSE
  /\ merged = [p \in Positions |-> "none"]
  /\ deaths = 0

-----------------------------------------------------------------------------
(* Properties of a level.                                                  *)

\* A level reports one outcome for each of its prompts and none for others, whatever died:
\* what a client has posted is reported as the client saw it, and only the prompts of
\* clients that never posted are padded with failures.
Reported ==
  dpc = "merged" =>
    \A p \in Positions :
      /\ merged[p] # "none" <=> p < ask.n
      /\ \A i \in Procs : p \in Shard(i) =>
           merged[p] = IF client[i] \in {"posted", "exited"} \/ i \in out \cup results THEN req[p] ELSE "failed"

\* The clients together keep at most the level's concurrency in flight, but for what
\* rounding each share up adds: less than one request for each client.
LoadAsAsked ==
  Cardinality(InFlight) <= ask.c + (IF Procs = {} THEN 0 ELSE Cardinality(Procs) - 1)

-----------------------------------------------------------------------------
(* The inductive invariant of a level.                                     *)

Alone == {"inline", "raised"}
Parted == {"starting", "collect", "quiet", "gone", "joined"}

TypeOKLoad ==
  /\ dpc \in {"off", "merged"} \cup Alone \cup Parted
  /\ ask \in [n : 0..MaxPrompts, c : Nat \ {0}, clients : 1..MaxClients]
  /\ req \in [Positions -> {"none", "wait", "flight", "ok", "failed"}]
  /\ client \in [Clients -> {"none", "starting", "up", "driving", "posted", "exited", "dead"}]
  /\ ready \subseteq Clients /\ started \subseteq Clients
  /\ out \subseteq Clients /\ results \subseteq Clients
  /\ late \in BOOLEAN
  /\ merged \in [Positions -> {"none", "ok", "failed"}]
  /\ deaths \in 0..MaxDeaths

\* Requests and processes exist for what was asked for, while the level is driven.
AsAsked ==
  /\ dpc \in Alone => ask.clients = 1
  /\ dpc \in Parted => ask.clients > 1
  /\ \A p \in Positions : req[p] # "none" => dpc # "off" /\ p < ask.n
  /\ dpc = "inline" => \A p \in Positions : p < ask.n => req[p] # "none"
  /\ \A i \in Clients : client[i] # "none" => dpc # "off" /\ i \in Procs
  /\ dpc # "off" => \A i \in Procs : client[i] # "none"

\* Outcomes are those of a client that has seen its whole share answered.
PostedServed ==
  \A i \in Clients :
    /\ i \in out \cup results => client[i] \in {"posted", "exited", "dead"} /\ Served(Shard(i))
    /\ client[i] \in {"posted", "exited"} => i \in out \cup results

\* The parent stops to collect only when it has everything, or nobody can send the rest.
NoneMissed ==
  /\ dpc = "gone" => \A i \in Procs : ~IsAlive(i)
  /\ dpc \in {"joined", "merged"} => \A i \in Procs : i \in results \/ (client[i] = "dead" /\ i \notin out)

\* Each semaphore keeps its share.
SharesKept ==
  /\ \A i \in Procs : Cardinality(Shard(i) \cap InFlight) <= PerClient
  /\ ask.clients = 1 => Cardinality(Shard(0) \cap InFlight) <= ask.c

LoadInv == TypeOKLoad /\ AsAsked /\ PostedServed /\ NoneMissed /\ SharesKept /\ Reported
=============================================================================
