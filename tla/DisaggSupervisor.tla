-------------------------- MODULE DisaggSupervisor --------------------------
(***************************************************************************)
(* The supervisor of a prefill/decode pair: polyserve/disagg.py,           *)
(* launch_pair, PDProcesses and DisaggSupervisor, and the router addresses *)
(* cli.py serve takes from it.                                             *)
(*                                                                         *)
(* As in module Supervisor a main thread starts and stops the pair and a   *)
(* watcher relaunches it.  What differs: a launch is two engines on two    *)
(* GPUs, stopping a pair swallows exceptions, self.pair is assigned only   *)
(* when both engines are ready, and every launch takes new ports.  The     *)
(* ports of a launch are represented by its number.                        *)
(***************************************************************************)
EXTENDS Process

CONSTANTS
  MaxRestarts,
  Main, Watcher

Role == {"prefill", "decode"}
Launches == 0..MaxRestarts

ASSUME MaxRestartsAssumption == MaxRestarts \in Nat
ASSUME EnginesAssumption == Procs = Launches \X Role
ASSUME ThreadsAssumption == Main # Watcher /\ Threads = {Main, Watcher}

VARIABLES
  pc,         \* pc[t]: thread t of the supervisor
  sub,        \* sub[t]: where t is inside launch_pair() or PDProcesses.stop()
  on,         \* on[t]: the launch it works on there
  pair,       \* self.pair, as the number of its launch
  router,     \* the launch whose addresses the router was created with
  restarts,
  misses,
  stopFlag,
  power

svars == <<pc, sub, on, pair, router, restarts, misses, stopFlag, power>>
vars == <<pvars, svars>>

MissLimit == 3
NoLaunch == MaxRestarts + 1

MainPc == {"new", "launching", "running", "joining", "stopping", "stopped", "failed", "exited"}
WatcherPc == {"off", "wait", "probing", "missed", "reaping", "backoff", "launching", "gone"}
SubPc == {"none", "bootPrefill", "bootDecode", "stopDecode", "stopPrefill",
          "ready", "stopped", "raised"}

\* The types; the restarts stay within their budget.
TypeOKPair ==
  /\ TypeOKProcess
  /\ pc \in [Threads -> MainPc \cup WatcherPc]
  /\ sub \in [Threads -> SubPc]
  /\ on \in [Threads -> Launches \cup {NoLaunch}]
  /\ pair \in Launches \cup {NoLaunch}
  /\ router \in Launches \cup {NoLaunch}
  /\ restarts \in Launches
  /\ misses \in 0..MissLimit
  /\ stopFlag \in BOOLEAN
  /\ power \in {"default", "capped", "stuck"}

Init ==
  /\ InitProcess
  /\ pc = [t \in Threads |-> IF t = Main THEN "new" ELSE "off"]
  /\ sub = [t \in Threads |-> "none"]
  /\ on = [t \in Threads |-> NoLaunch]
  /\ pair = NoLaunch
  /\ router = NoLaunch
  /\ restarts = 0
  /\ misses = 0
  /\ stopFlag = FALSE
  /\ power = "default"

\* Daemon threads end with the interpreter.
Runs(t) == pc[Main] # "exited"

Goto(t, l) == pc' = [pc EXCEPT ![t] = l]

\* PDProcesses.alive()
PairAlive(k) == \A r \in Role : Alive(<<k, r>>)

\* Both engines answer their health endpoints.
PairServes(k) == \A r \in Role : leader[<<k, r>>] = "serving"

CallOver(t) == call[t].pc \in {"returned", "raised"}

-----------------------------------------------------------------------------
(* launch_pair() and PDProcesses.stop(), as run by thread t.               *)

LaunchPair(t, k) ==
  /\ \A r \in Role : leader[<<k, r>>] = "unborn"
  /\ leader' = [p \in Procs |-> IF p[1] = k THEN "starting" ELSE leader[p]]
  /\ sub' = [sub EXCEPT ![t] = "bootPrefill"]
  /\ on' = [on EXCEPT ![t] = k]
  /\ UNCHANGED <<kids, call>>

\* Popen of the decode engine raises: the prefill engine has been started, and nobody
\* holds it.
LaunchHalf(t, k) ==
  /\ Start(<<k, "prefill">>)
  /\ sub' = [sub EXCEPT ![t] = "raised"]
  /\ on' = [on EXCEPT ![t] = k]

PrefillReady(t) ==
  /\ sub[t] = "bootPrefill"
  /\ WaitReady(<<on[t], "prefill">>)
  /\ sub' = [sub EXCEPT ![t] = "bootDecode"]
  /\ UNCHANGED <<pvars, on>>

DecodeReady(t) ==
  /\ sub[t] = "bootDecode"
  /\ WaitReady(<<on[t], "decode">>)
  /\ sub' = [sub EXCEPT ![t] = "ready"]
  /\ UNCHANGED <<pvars, on>>

\* Either engine exits or misses its deadline: pair.stop(), decode engine first.
NotReady(t) ==
  /\ \/ sub[t] = "bootPrefill" /\ WaitFails(<<on[t], "prefill">>)
     \/ sub[t] = "bootDecode" /\ WaitFails(<<on[t], "decode">>)
  /\ StopEnter(t, <<on[t], "decode">>)
  /\ sub' = [sub EXCEPT ![t] = "stopDecode"]
  /\ UNCHANGED on

StopPair(t, k) ==
  /\ StopEnter(t, <<k, "decode">>)
  /\ sub' = [sub EXCEPT ![t] = "stopDecode"]
  /\ on' = [on EXCEPT ![t] = k]

\* A pair stop that gives up when the first engine raises.
DecodeStopped_Raises(t) ==
  /\ sub[t] = "stopDecode"
  /\ CallOver(t)
  /\ IF call[t].pc = "raised"
       THEN UNCHANGED pvars /\ sub' = [sub EXCEPT ![t] = "stopped"]
       ELSE StopEnter(t, <<on[t], "prefill">>) /\ sub' = [sub EXCEPT ![t] = "stopPrefill"]
  /\ UNCHANGED on

\* An exception of the first stop() is logged and the second engine is stopped all the same.
DecodeStopped(t) ==
  /\ sub[t] = "stopDecode"
  /\ CallOver(t)
  /\ StopEnter(t, <<on[t], "prefill">>)
  /\ sub' = [sub EXCEPT ![t] = "stopPrefill"]
  /\ UNCHANGED on

PrefillStopped(t) ==
  /\ sub[t] = "stopPrefill"
  /\ CallOver(t)
  /\ sub' = [sub EXCEPT ![t] = "stopped"]
  /\ UNCHANGED <<pvars, on>>

PairStep(t) ==
  /\ Runs(t)
  /\ \/ PrefillReady(t) \/ DecodeReady(t) \/ NotReady(t)
     \/ DecodeStopped(t) \/ PrefillStopped(t)
     \/ StopStep(t) /\ UNCHANGED <<sub, on>>
  /\ UNCHANGED <<pc, pair, router, restarts, misses, stopFlag, power>>

-----------------------------------------------------------------------------
(* The main thread: start(), the router, stop().                           *)

StartLaunch ==
  /\ pc[Main] = "new"
  /\ LaunchPair(Main, 0) \/ LaunchHalf(Main, 0)
  /\ Goto(Main, "launching")
  /\ UNCHANGED <<pair, router, restarts, misses, stopFlag, power>>

\* start() returns; create_pd_app() is given the addresses the pair has now.
StartServing ==
  /\ pc[Main] = "launching"
  /\ sub[Main] = "ready"
  /\ pair' = on[Main]
  /\ router' = on[Main]
  /\ power' \in {"default", "capped"}
  /\ pc' = [pc EXCEPT ![Main] = "running", ![Watcher] = "wait"]
  /\ UNCHANGED <<pvars, sub, on, restarts, misses, stopFlag>>

StartFailed ==
  /\ pc[Main] = "launching"
  /\ sub[Main] \in {"stopped", "raised"}
  /\ Goto(Main, "failed")
  /\ UNCHANGED <<pvars, sub, on, pair, router, restarts, misses, stopFlag, power>>

BeginStop ==
  /\ pc[Main] \in {"running", "stopped"}
  /\ stopFlag' = TRUE
  /\ Goto(Main, "joining")
  /\ UNCHANGED <<pvars, sub, on, pair, router, restarts, misses, power>>

\* A stop() that takes the dead for stopped.
JoinWatcher_OnlyStopTheLiving ==
  /\ pc[Main] = "joining"
  /\ pc[Watcher] \notin {"wait", "missed"}
  /\ IF PairAlive(pair)
       THEN StopPair(Main, pair)
       ELSE /\ sub' = [sub EXCEPT ![Main] = "stopped"]
            /\ on' = [on EXCEPT ![Main] = pair]
            /\ UNCHANGED pvars
  /\ Goto(Main, "stopping")
  /\ UNCHANGED <<pair, router, restarts, misses, stopFlag, power>>

\* join(timeout=5) is over: the watcher has ended, or is in a call that blocks for longer.
JoinWatcher ==
  /\ pc[Main] = "joining"
  /\ pc[Watcher] \notin {"wait", "missed"}
  /\ StopPair(Main, pair)
  /\ Goto(Main, "stopping")
  /\ UNCHANGED <<pair, router, restarts, misses, stopFlag, power>>

StopRestores ==
  /\ pc[Main] = "stopping"
  /\ sub[Main] = "stopped"
  /\ power' \in IF power = "capped" THEN {"default", "stuck"} ELSE {power}
  /\ Goto(Main, "stopped")
  /\ UNCHANGED <<pvars, sub, on, pair, router, restarts, misses, stopFlag>>

Exit ==
  /\ pc[Main] \in {"stopped", "failed"}
  /\ Goto(Main, "exited")
  /\ UNCHANGED <<pvars, sub, on, pair, router, restarts, misses, stopFlag, power>>

-----------------------------------------------------------------------------
(* The watcher.                                                            *)

WatchStops ==
  /\ pc[Watcher] = "wait"
  /\ stopFlag
  /\ Goto(Watcher, "gone")
  /\ UNCHANGED <<pvars, sub, on, pair, router, restarts, misses, stopFlag, power>>

WatchProbes ==
  /\ pc[Watcher] = "wait"
  /\ ~stopFlag
  /\ Goto(Watcher, "probing")
  /\ UNCHANGED <<pvars, sub, on, pair, router, restarts, misses, stopFlag, power>>

\* A probe that asks the prefill engine only.
ProbeHealthy_PrefillOnly ==
  /\ pc[Watcher] = "probing"
  /\ pair # NoLaunch /\ leader[<<pair, "prefill">>] = "serving"
  /\ misses' = 0
  /\ Goto(Watcher, "wait")
  /\ UNCHANGED <<pvars, sub, on, pair, router, restarts, stopFlag, power>>

ProbeHealthy ==
  /\ pc[Watcher] = "probing"
  /\ PairServes(pair)
  /\ misses' = 0
  /\ Goto(Watcher, "wait")
  /\ UNCHANGED <<pvars, sub, on, pair, router, restarts, stopFlag, power>>

ProbeMisses ==
  /\ pc[Watcher] = "probing"
  /\ misses' = IF misses < MissLimit THEN misses + 1 ELSE misses
  /\ Goto(Watcher, "missed")
  /\ UNCHANGED <<pvars, sub, on, pair, router, restarts, stopFlag, power>>

Transient == misses < MissLimit /\ PairAlive(pair)

WatchWaits ==
  /\ pc[Watcher] = "missed"
  /\ Transient
  /\ Goto(Watcher, "wait")
  /\ UNCHANGED <<pvars, sub, on, pair, router, restarts, misses, stopFlag, power>>

WatchGivesUp ==
  /\ pc[Watcher] = "missed"
  /\ ~Transient
  /\ restarts >= MaxRestarts
  /\ Goto(Watcher, "gone")
  /\ UNCHANGED <<pvars, sub, on, pair, router, restarts, misses, stopFlag, power>>

WatchRestarts ==
  /\ pc[Watcher] = "missed"
  /\ ~Transient
  /\ restarts < MaxRestarts
  /\ restarts' = restarts + 1
  /\ StopPair(Watcher, pair)
  /\ Goto(Watcher, "reaping")
  /\ UNCHANGED <<pair, router, misses, stopFlag, power>>

WatchReaped ==
  /\ pc[Watcher] = "reaping"
  /\ sub[Watcher] = "stopped"
  /\ Goto(Watcher, "backoff")
  /\ UNCHANGED <<pvars, sub, on, pair, router, restarts, misses, stopFlag, power>>

WatchLaunches ==
  /\ pc[Watcher] = "backoff"
  /\ LaunchPair(Watcher, restarts) \/ LaunchHalf(Watcher, restarts)
  /\ Goto(Watcher, "launching")
  /\ UNCHANGED <<pair, router, restarts, misses, stopFlag, power>>

WatchReady ==
  /\ pc[Watcher] = "launching"
  /\ sub[Watcher] = "ready"
  /\ pair' = on[Watcher]
  /\ misses' = 0
  /\ Goto(Watcher, "wait")
  /\ UNCHANGED <<pvars, sub, on, router, restarts, stopFlag, power>>

WatchLaunchFailed ==
  /\ pc[Watcher] = "launching"
  /\ sub[Watcher] \in {"stopped", "raised"}
  /\ Goto(Watcher, "wait")
  /\ UNCHANGED <<pvars, sub, on, pair, router, restarts, misses, stopFlag, power>>

-----------------------------------------------------------------------------
(* The specification.                                                      *)

MainStep ==
  \/ StartLaunch \/ StartServing \/ StartFailed
  \/ JoinWatcher \/ StopRestores
  \/ PairStep(Main)

WatcherStep ==
  /\ Runs(Watcher)
  /\ \/ WatchStops \/ WatchProbes \/ ProbeHealthy \/ ProbeMisses \/ WatchWaits
     \/ WatchGivesUp \/ WatchRestarts \/ WatchReaped \/ WatchLaunches
     \/ WatchReady \/ WatchLaunchFailed
     \/ PairStep(Watcher)

EnvironmentStep == \E p \in Procs : Environment(p) /\ UNCHANGED svars

Next ==
  \/ MainStep
  \/ BeginStop
  \/ Exit
  \/ WatcherStep
  \/ EnvironmentStep

Fairness == WF_vars(MainStep) /\ WF_vars(WatcherStep)

Spec == Init /\ [][Next]_vars /\ Fairness

-----------------------------------------------------------------------------
(* Properties.                                                             *)

\* Both engines of the launch were started.
Whole(k) == leader[<<k, "decode">>] # "unborn"

\* An engine that works on its GPU: its server, or a child of it, is alive and not under
\* SIGKILL.
Works(p) == leader[p] \in {"starting", "serving", "hung"} \/ kids[p] = "live"

\* No two launches work on the same GPU, apart from a prefill engine whose decode engine
\* could not be started: a pair is relaunched only when SIGKILL has reached whatever
\* is left of both engines of the former one, their children included; its memory may still
\* be held by what the kernel has not ended.
ExclusivePair ==
  \A j, k \in Launches, r \in Role :
    Whole(j) /\ Whole(k) /\ Works(<<j, r>>) /\ Works(<<k, r>>) => j = k

\* When stop() has returned and the watcher is gone, no engine of a whole launch works and
\* no cap is left that could be lifted, unless the watcher has put another pair in place
\* behind the back of stop().
CleanStop ==
  pc[Main] = "stopped" /\ pc[Watcher] = "gone" /\ on[Main] = pair =>
    /\ \A k \in Launches, r \in Role : Whole(k) => ~Works(<<k, r>>)
    /\ power # "capped"

\* The router sends requests to the pair that is in place ("A router sends each request to
\* the prefill engine", docs/usage.md:132; "restarted together if either engine dies",
\* docs/usage.md:136).
RouterFollowsPair ==
  pc[Main] = "running" => router = pair

\* A watcher told to stop stops, from wherever it is in a restart.
WatcherQuits ==
  stopFlag ~> (pc[Watcher] = "gone" \/ pc[Main] = "exited")

\* A pair in place of which one engine died, or both hang, is replaced by a serving one,
\* unless the restarts are used up or the supervisor is told to stop.
PairRecovers ==
  (pc[Watcher] = "wait" /\ \E k \in Launches : pair = k /\ \E r \in Role : leader[<<k, r>>] \in {"dead", "hung"})
    ~> ((\E k \in Launches : pair = k /\ PairServes(k)) \/ stopFlag \/ pc[Watcher] = "gone")

\* The supervisor implements the lease of the two GPUs of a pair, which are leased together:
\* the whole launches of which an engine works are the holders, those ever made have been
\* granted it.  A prefill engine whose decode engine could not be started has no lease.
L == INSTANCE Lease WITH
       Terms   <- Launches,
       holders <- {k \in Launches : Whole(k) /\ \E r \in Role : Works(<<k, r>>)},
       granted <- {k \in Launches : Whole(k)}

ImplementsLease == L!Spec

-----------------------------------------------------------------------------
(* The inductive invariant.                                                *)

\* SIGKILL has reached the engine or it is dead, and so with its children: for good.
Killed(p) == leader[p] \in {"doomed", "dead"} /\ kids[p] # "live"

Over(k) == \A r \in Role : Killed(<<k, r>>)

\* A launch starts the prefill engine first.
PrefillFirst == \A k \in Launches : Whole(k) => leader[<<k, "prefill">>] # "unborn"

\* How far thread t has come inside launch_pair() or PDProcesses.stop().
Inside(t) ==
  /\ sub[t] # "none" => on[t] \in Launches
  /\ sub[t] \in {"bootPrefill", "bootDecode", "ready"} => Whole(on[t])
  /\ sub[t] = "raised" => leader[<<on[t], "prefill">>] # "unborn" /\ ~Whole(on[t])
  /\ sub[t] \in {"stopDecode", "stopPrefill"} => call[t].pc # "idle"
  /\ sub[t] = "stopDecode" => call[t].proc = <<on[t], "decode">>
  /\ sub[t] = "stopPrefill" => call[t].proc = <<on[t], "prefill">> /\ Killed(<<on[t], "decode">>)
  /\ sub[t] = "stopped" => Over(on[t])

\* The watcher exists exactly when start() has returned, and then there is a pair.
ThreadsAgree ==
  /\ pc[Watcher] = "off" => pc[Main] \in {"new", "launching", "failed", "exited"} /\ pair = NoLaunch
  /\ pc[Watcher] # "off" =>
       /\ pc[Main] \in {"running", "joining", "stopping", "stopped", "exited"}
       /\ pair \in Launches /\ Whole(pair)
  /\ pc[Watcher] = "reaping" => on[Watcher] = pair
  /\ pc[Watcher] \in {"backoff", "launching"} => Over(pair)
  /\ pc[Main] = "stopped" => sub[Main] = "stopped" /\ power # "capped"

\* The launches that may be at work: the pair in place and one that is being made.
Live(k) == k = pair \/ \E t \in Threads : pc[t] = "launching" /\ k = on[t]

FormerOver == \A k \in Launches : Whole(k) /\ ~Live(k) => Over(k)

PairInv ==
  /\ TypeOKPair
  /\ StopProgress
  /\ PrefillFirst
  /\ \A t \in Threads : Inside(t)
  /\ ThreadsAgree
  /\ FormerOver

\* The launches are made in the order of their numbers, each once: what the lease needs
\* beyond PairInv.
LaunchesInOrder ==
  /\ pc[Main] = "new" => \A k \in Launches : ~Whole(k)
  /\ \A k \in Launches : Whole(k) =>
       /\ k <= restarts
       /\ pc[Watcher] \in {"reaping", "backoff"} => k < restarts
=============================================================================
