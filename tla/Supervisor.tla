----------------------------- MODULE Supervisor -----------------------------
(***************************************************************************)
(* The supervisor of one served backend: polyserve/serve/supervisor.py,    *)
(* and the way cli.py serve drives it.                                     *)
(*                                                                         *)
(* Two threads share the supervisor.  The main thread runs start(), serves *)
(* requests, and calls stop() from the SIGTERM handler and again from the  *)
(* finally block.  The watcher is the daemon thread of _watch(): it probes *)
(* the backend, and stops and relaunches it when it is unhealthy.          *)
(*                                                                         *)
(* Launch number k is made with restarts = k, so launches are numbered     *)
(* 0 .. MaxRestarts and no other bound is needed.  _launch() holds _lock,  *)
(* but start() ends before the watcher exists, so the lock is never        *)
(* contended and is left out.                                              *)
(***************************************************************************)
EXTENDS Process

CONSTANTS
  MaxRestarts,    \* the restart budget, max_restarts
  Main, Watcher   \* the two threads

ASSUME MaxRestartsAssumption == MaxRestarts \in Nat
ASSUME LaunchesAssumption == Procs = 0..MaxRestarts
ASSUME ThreadsAssumption == Main # Watcher /\ Threads = {Main, Watcher}

VARIABLES
  mpc,        \* the main thread: start(), serving, stop()
  wpc,        \* the watcher thread
  process,    \* self.process, as the number of its launch
  restarts,   \* self.restarts
  misses,     \* the watcher's count of failed probes in a row, saturated at MissLimit
  stopFlag,   \* the event self._stop
  lastError,  \* self.last_error is set
  power       \* the device: "default", "capped" by start(), or "stuck" when the restore failed

svars == <<mpc, wpc, process, restarts, misses, stopFlag, lastError, power>>
vars == <<pvars, svars>>

\* Probes that must fail in a row before a living backend is restarted.
MissLimit == 3

MainPc == {"new", "booting", "bootfail", "booted", "running", "joining",
           "stopping", "restoring", "stopped", "stopRaised", "failed", "exited"}

\* "gone": _watch returned; "crashed": an exception of process.stop() ended the thread.
WatcherPc == {"off", "wait", "probing", "missed", "reaping", "backoff",
              "booting", "bootfail", "gone", "crashed"}

\* The types; the restarts stay within their budget.
TypeOKSupervisor ==
  /\ TypeOKProcess
  /\ mpc \in MainPc
  /\ wpc \in WatcherPc
  /\ process \in Procs \cup {NoProc}
  /\ restarts \in 0..MaxRestarts
  /\ misses \in 0..MissLimit
  /\ stopFlag \in BOOLEAN
  /\ lastError \in BOOLEAN
  /\ power \in {"default", "capped", "stuck"}

Init ==
  /\ InitProcess
  /\ mpc = "new"
  /\ wpc = "off"
  /\ process = NoProc
  /\ restarts = 0
  /\ misses = 0
  /\ stopFlag = FALSE
  /\ lastError = FALSE
  /\ power = "default"

\* The watcher is a daemon thread: it ends with the interpreter.
WatcherRuns == mpc # "exited"

\* What the current launch is doing.
Current == IF process = NoProc THEN "unborn" ELSE leader[process]

Returned(t) == call[t].pc = "returned"
Raised(t) == call[t].pc = "raised"

-----------------------------------------------------------------------------
(* start(): _launch, _apply_power, spawn the watcher.                      *)

StartLaunch ==
  /\ mpc = "new"
  /\ Start(0)
  /\ process' = 0
  /\ mpc' = "booting"
  /\ UNCHANGED <<wpc, restarts, misses, stopFlag, lastError, power>>

\* Popen itself fails in start().
StartLaunchRaises ==
  /\ mpc = "new"
  /\ mpc' = "failed"
  /\ UNCHANGED <<pvars, wpc, process, restarts, misses, stopFlag, lastError, power>>

StartReady ==
  /\ mpc = "booting"
  /\ WaitReady(process)
  /\ mpc' = "booted"
  /\ UNCHANGED <<pvars, wpc, process, restarts, misses, stopFlag, lastError, power>>

StartNotReady ==
  /\ mpc = "booting"
  /\ WaitFails(process)
  /\ StopEnter(Main, process)
  /\ mpc' = "bootfail"
  /\ UNCHANGED <<wpc, process, restarts, misses, stopFlag, lastError, power>>

\* _launch raises, and with it start(): the server never serves.
StartFailed ==
  /\ mpc = "bootfail"
  /\ Returned(Main) \/ Raised(Main)
  /\ mpc' = "failed"
  /\ UNCHANGED <<pvars, wpc, process, restarts, misses, stopFlag, lastError, power>>

\* _apply_power: a profile without a setting or a controller that refuses leaves the
\* device alone, and is not fatal.
StartServing ==
  /\ mpc = "booted"
  /\ power' \in {"default", "capped"}
  /\ wpc' = "wait"
  /\ mpc' = "running"
  /\ UNCHANGED <<pvars, process, restarts, misses, stopFlag, lastError>>

-----------------------------------------------------------------------------
(* stop(): set the event, join, stop the process, restore the power.       *)

BeginStop ==
  /\ mpc \in {"running", "stopped", "stopRaised"}
  /\ stopFlag' = TRUE
  /\ mpc' = "joining"
  /\ UNCHANGED <<pvars, wpc, process, restarts, misses, lastError, power>>

\* The join ends with the thread, or after 5 s when the watcher is in a call that may
\* block longer: a probe, a stop, the back-off sleep or the wait for readiness.
JoinWatcher ==
  /\ mpc = "joining"
  /\ wpc \notin {"wait", "missed"}
  /\ StopEnter(Main, process)
  /\ mpc' = "stopping"
  /\ UNCHANGED <<wpc, process, restarts, misses, stopFlag, lastError, power>>

StopProcessReturned ==
  /\ mpc = "stopping"
  /\ Returned(Main)
  /\ mpc' = "restoring"
  /\ UNCHANGED <<pvars, wpc, process, restarts, misses, stopFlag, lastError, power>>

\* TimeoutExpired of process.stop() leaves stop() before the power is restored.
StopProcessRaised ==
  /\ mpc = "stopping"
  /\ Raised(Main)
  /\ mpc' = "stopRaised"
  /\ UNCHANGED <<pvars, wpc, process, restarts, misses, stopFlag, lastError, power>>

RestorePower ==
  /\ mpc = "restoring"
  /\ power' \in IF power = "capped" THEN {"default", "stuck"} ELSE {power}
  /\ mpc' = "stopped"
  /\ UNCHANGED <<pvars, wpc, process, restarts, misses, stopFlag, lastError>>

\* The interpreter ends after the last stop(), or after a start() that raised.
Exit ==
  /\ mpc \in {"stopped", "stopRaised", "failed"}
  /\ mpc' = "exited"
  /\ UNCHANGED <<pvars, wpc, process, restarts, misses, stopFlag, lastError, power>>

-----------------------------------------------------------------------------
(* _watch().                                                               *)

\* while not self._stop.wait(interval): the event ends the loop, the timeout goes on.
WatchStops ==
  /\ WatcherRuns
  /\ wpc = "wait"
  /\ stopFlag
  /\ wpc' = "gone"
  /\ UNCHANGED <<pvars, mpc, process, restarts, misses, stopFlag, lastError, power>>

WatchProbes ==
  /\ WatcherRuns
  /\ wpc = "wait"
  /\ ~stopFlag
  /\ wpc' = "probing"
  /\ UNCHANGED <<pvars, mpc, process, restarts, misses, stopFlag, lastError, power>>

ProbeHealthy ==
  /\ WatcherRuns
  /\ wpc = "probing"
  /\ leader[process] = "serving"
  /\ misses' = 0
  /\ wpc' = "wait"
  /\ UNCHANGED <<pvars, mpc, process, restarts, stopFlag, lastError, power>>

\* healthy() is False: the server is gone, or its answer is an error or comes too late,
\* which can happen to a serving one.
ProbeMisses ==
  /\ WatcherRuns
  /\ wpc = "probing"
  /\ misses' = IF misses < MissLimit THEN misses + 1 ELSE misses
  /\ wpc' = "missed"
  /\ UNCHANGED <<pvars, mpc, process, restarts, stopFlag, lastError, power>>

\* A watcher that gives a living backend the benefit of the doubt for ever.
Transient_NeverCounts == Alive(process)

\* A living backend is given the benefit of the doubt for a couple of intervals.
Transient == misses < MissLimit /\ Alive(process)

WatchWaits ==
  /\ WatcherRuns
  /\ wpc = "missed"
  /\ Transient
  /\ wpc' = "wait"
  /\ UNCHANGED <<pvars, mpc, process, restarts, misses, stopFlag, lastError, power>>

WatchGivesUp ==
  /\ WatcherRuns
  /\ wpc = "missed"
  /\ ~Transient
  /\ restarts >= MaxRestarts
  /\ lastError' = TRUE
  /\ wpc' = "gone"
  /\ UNCHANGED <<pvars, mpc, process, restarts, misses, stopFlag, power>>

WatchRestarts ==
  /\ WatcherRuns
  /\ wpc = "missed"
  /\ ~Transient
  /\ restarts < MaxRestarts
  /\ restarts' = restarts + 1
  /\ StopEnter(Watcher, process)
  /\ wpc' = "reaping"
  /\ UNCHANGED <<mpc, process, misses, stopFlag, lastError, power>>

WatchReaped ==
  /\ WatcherRuns
  /\ wpc = "reaping"
  /\ Returned(Watcher)
  /\ wpc' = "backoff"
  /\ UNCHANGED <<pvars, mpc, process, restarts, misses, stopFlag, lastError, power>>

\* A watcher that catches the exception of process.stop() and launches all the same.
WatchCrashes_CaughtAndIgnored ==
  /\ WatcherRuns
  /\ wpc = "reaping"
  /\ Raised(Watcher)
  /\ wpc' = "backoff"
  /\ UNCHANGED <<pvars, mpc, process, restarts, misses, stopFlag, lastError, power>>

\* process.stop() stands outside the try block: its exception ends the thread.
WatchCrashes ==
  /\ WatcherRuns
  /\ wpc = "reaping"
  /\ Raised(Watcher)
  /\ wpc' = "crashed"
  /\ UNCHANGED <<pvars, mpc, process, restarts, misses, stopFlag, lastError, power>>

\* A relaunch that begins with a fresh event, as a start() that may be called again would.
WatchLaunches_ClearsStop ==
  /\ WatcherRuns
  /\ wpc = "backoff"
  /\ Start(restarts)
  /\ process' = restarts
  /\ stopFlag' = FALSE
  /\ wpc' = "booting"
  /\ UNCHANGED <<mpc, restarts, misses, lastError, power>>

\* The back-off sleep ends, whatever has happened to the event meanwhile.
WatchLaunches ==
  /\ WatcherRuns
  /\ wpc = "backoff"
  /\ Start(restarts)
  /\ process' = restarts
  /\ wpc' = "booting"
  /\ UNCHANGED <<mpc, restarts, misses, stopFlag, lastError, power>>

\* Popen itself fails; self.process stays the old one.
WatchLaunchRaises ==
  /\ WatcherRuns
  /\ wpc = "backoff"
  /\ lastError' = TRUE
  /\ wpc' = "wait"
  /\ UNCHANGED <<pvars, mpc, process, restarts, misses, stopFlag, power>>

WatchReady ==
  /\ WatcherRuns
  /\ wpc = "booting"
  /\ WaitReady(process)
  /\ misses' = 0
  /\ wpc' = "wait"
  /\ UNCHANGED <<pvars, mpc, process, restarts, stopFlag, lastError, power>>

WatchNotReady ==
  /\ WatcherRuns
  /\ wpc = "booting"
  /\ WaitFails(process)
  /\ StopEnter(Watcher, process)
  /\ wpc' = "bootfail"
  /\ UNCHANGED <<mpc, process, restarts, misses, stopFlag, lastError, power>>

\* A failed relaunch is recorded and left to the next probe.
WatchLaunchFailed ==
  /\ WatcherRuns
  /\ wpc = "bootfail"
  /\ Returned(Watcher) \/ Raised(Watcher)
  /\ lastError' = TRUE
  /\ wpc' = "wait"
  /\ UNCHANGED <<pvars, mpc, process, restarts, misses, stopFlag, power>>

-----------------------------------------------------------------------------
(* The specification.                                                      *)

MainStep ==
  \/ StartLaunch \/ StartLaunchRaises \/ StartReady \/ StartNotReady \/ StartFailed \/ StartServing
  \/ JoinWatcher \/ StopProcessReturned \/ StopProcessRaised \/ RestorePower
  \/ StopStep(Main) /\ UNCHANGED svars

WatcherStep ==
  \/ WatchStops \/ WatchProbes \/ ProbeHealthy \/ ProbeMisses
  \/ WatchWaits \/ WatchGivesUp \/ WatchRestarts \/ WatchReaped \/ WatchCrashes
  \/ WatchLaunches \/ WatchLaunchRaises \/ WatchReady \/ WatchNotReady \/ WatchLaunchFailed
  \/ WatcherRuns /\ StopStep(Watcher) /\ UNCHANGED svars

\* When PolyServe has exited, what is left of the groups lives on: they lead their own
\* sessions.
EnvironmentStep == \E p \in Procs : Environment(p) /\ UNCHANGED svars

Next ==
  \/ MainStep
  \/ BeginStop
  \/ Exit
  \/ WatcherStep
  \/ EnvironmentStep

\* Both threads keep running: every wait in them has a timeout.  Nothing obliges anyone
\* to call stop() or the server to do anything, except that a launch which neither
\* serves nor fails is given up when its deadline passes.
Fairness == WF_vars(MainStep) /\ WF_vars(WatcherStep)

Spec == Init /\ [][Next]_vars /\ Fairness
-----------------------------------------------------------------------------
(* Properties.                                                             *)

\* The parts of the inductive invariant.

\* Launches are made in the order of their numbers, none past self.restarts.
LaunchesInOrder ==
  /\ \A p \in Procs : p > restarts => leader[p] = "unborn"
  /\ process # NoProc => process <= restarts /\ leader[process] # "unborn"

\* Of the former launches killed children are left at most.
OnlyCurrentLives ==
  \A p \in Procs : p # process => ~Holds(p)

\* A watcher on its way to a relaunch is stopping the current launch, then has stopped it,
\* and the number of the next one is free.
RelaunchPrepared ==
  /\ wpc = "reaping" => call[Watcher].proc = process
  /\ wpc \in {"reaping", "backoff"} => leader[restarts] = "unborn"
  /\ wpc = "backoff" => ~Holds(process)

\* The watcher exists exactly when start() has brought up a first launch.
ThreadsAgree ==
  /\ wpc = "off" => mpc \in {"new", "booting", "bootfail", "booted", "failed", "exited"}
  /\ wpc # "off" =>
       /\ mpc \in {"running", "joining", "stopping", "restoring", "stopped", "stopRaised", "exited"}
       /\ process # NoProc
  /\ process = NoProc => \A p \in Procs : leader[p] = "unborn"
  /\ mpc = "new" => process = NoProc
  /\ mpc \in {"booting", "bootfail", "booted"} => process # NoProc
  /\ mpc \in {"restoring", "stopped"} => Returned(Main)
  /\ mpc = "stopped" => power # "capped"

SupervisorInv ==
  /\ TypeOKSupervisor
  /\ StopProgress
  /\ LaunchesInOrder
  /\ OnlyCurrentLives
  /\ RelaunchPrepared
  /\ ThreadsAgree

\* At no time do two launches hold the port and the GPU: a relaunch starts only when the
\* former server has ended and SIGKILL has reached every child it left, although the main
\* thread may be stopping the same process at the same time.  The memory of the killed
\* children is another matter: nobody waits for it (GpuFreeOnLaunch).
ExclusiveBackend ==
  \A p, q \in Procs : Holds(p) /\ Holds(q) => p = q

\* A launch finds the GPU free of the former one, so that it does not see "less memory"
\* (the comment at base.py:135).  It does not hold.
GpuFreeOnLaunch ==
  \A p, q \in Procs : Alive(p) /\ Occupies(q) => p = q

\* stop() that returned has left no server alive, no child but killed ones and no cap it
\* could lift, unless the watcher, which the join waited for in vain, has launched another
\* one since stop() read self.process.
CleanStop ==
  mpc = "stopped" /\ call[Main].proc = process =>
    /\ \A p \in Procs : ~Holds(p)
    /\ power # "capped"

\* After stop() no backend is alive, as tests/test_strategies.py:527 asserts of the
\* supervisors it has stopped.
StopIsFinal ==
  mpc = "stopped" => \A p \in Procs : ~Alive(p)

\* _watch() returns only when it was told to stop or has used up the restarts, and in
\* the second case status() says why.
WatchReturnsWithReason ==
  wpc = "gone" => stopFlag \/ (restarts = MaxRestarts /\ lastError)

\* A watcher told to stop stops, from wherever it is: after one more launch at most.
WatcherQuits ==
  stopFlag ~> (wpc \in {"gone", "crashed"} \/ mpc = "exited")

\* stop() comes back to its caller, whatever the watcher and the backend do.
StopReturns ==
  mpc \in {"joining", "stopping", "restoring"} ~> mpc \in {"stopped", "stopRaised"}

\* A watched backend that died or hangs serves again, unless the watcher has given it up
\* or been told to stop.
RecoversOrGivesUp ==
  (wpc = "wait" /\ Current \in {"dead", "hung"})
    ~> (Current = "serving" \/ stopFlag \/ wpc \in {"gone", "crashed"})

\* The supervisor implements the lease of its GPU and port: the launches that hold on to
\* them are the holders (a killed child is no holder), those that were ever started have
\* been granted it.
L == INSTANCE Lease WITH
       Terms   <- Procs,
       holders <- {p \in Procs : Holds(p)},
       granted <- {p \in Procs : leader[p] # "unborn"}

ImplementsLease == L!Spec
=============================================================================

