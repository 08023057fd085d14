------------------------------- MODULE Runner -------------------------------
(***************************************************************************)
(* What a job of the program leaves on the machine: the frames that launch *)
(* engines, measure or serve them, and take them down again.               *)
(*                                                                         *)
(*   trial     SubprocessTrialRunner.run      one engine, one setting      *)
(*   sweep     SubprocessTrialRunner.sweep    one engine, several settings *)
(*   replicas  LayoutTrialRunner.run_replicas an engine per GPU, a router  *)
(*   pair      DisaggTrialRunner.sweep        two engines, a router,       *)
(*                                            settings of the decode GPU   *)
(*   serve     ReplicaSupervisor              an engine per GPU            *)
(*                                                                         *)
(* The main thread runs jobs one after the other; an exception that leaves *)
(* a job ends the program.  The frames differ in what their try blocks     *)
(* cover and in which exceptions of stop() and restore() they swallow,     *)
(* which decides what is still running when they are over.  stop() of one  *)
(* engine is Process's business, the calls of the driver are Power's: here *)
(* they succeed, refuse or raise.  The watchers of `serve` are Supervisor's.*)
(***************************************************************************)
EXTENDS Integers, Sequences, FiniteSets

CONSTANTS
  NGpus,           \* the GPUs of the machine
  Setting,         \* the power settings of a GPU, the default one among them
  Jobs,            \* the jobs a program may run: [kind, n, settings]
  MaxJobs,         \* bound: the jobs of a program
  MaxFaults        \* bound: what goes wrong in a program

\* A job uses GPUs of the machine: one for a trial or a sweep, two for a pair.  A trial and a set of
\* replicas are measured under one setting, a sweep under a list of them, and serve measures nothing.
ASSUME JobsAssumption ==
  \A j \in Jobs :
    /\ j \in [kind : {"trial", "sweep", "replicas", "pair", "serve"}, n : 1..NGpus, settings : Seq(Setting)]
    /\ j.kind \in {"trial", "sweep"} => j.n = 1
    /\ j.kind = "pair" => j.n = 2
    /\ j.kind \in {"trial", "replicas"} => Len(j.settings) = 1
    /\ j.kind = "serve" <=> j.settings = <<>>

ASSUME SettingAssumption == "default" \in Setting

ASSUME BoundsAssumption == NGpus \in Nat /\ MaxJobs \in Nat /\ MaxFaults \in Nat

VARIABLES
  job,             \* the job at work
  ran,             \* jobs begun
  pc,              \* where the main thread is
  engine,          \* engine[g]: "off", "starting", "ready" or "dead"
  router,          \* "off", "starting", "on"
  left,            \* GPUs with a running engine that no frame holds any more
  device,          \* the power setting of the GPU
  applied,         \* the controller's applied
  todo,            \* settings not yet measured
  results,         \* the results of the job
  raising,         \* an exception is on its way out of the job
  blame            \* what went wrong: [fault, at, kind]

rvars == <<job, ran, pc, engine, router, left, device, applied, todo, results, raising, blame>>

GPUs == 1..NGpus
Default == "default"
NoJob == [kind |-> "none", n |-> 0, settings |-> <<>>]
Up == {"starting", "ready"}

Held == {g \in 1..job.n : engine[g] \in Up}
Kind == job.kind
HasRouter == Kind \in {"replicas", "pair"}

\* The frames whose launch is inside the try block that cleans up.
LaunchGuarded == Kind \in {"trial", "sweep"}

\* The frames that go on to the next engine after an exception of stop(): two log it, and a supervisor
\* that did not come up raises whatever its own stop() did.
StopSwallows(g) == Kind \in {"replicas", "pair"} \/ (Kind = "serve" /\ engine[g] = "starting")

\* A fault that leaves the measurement with an error result, where others let it out of the job.
ErrorIsResult == Kind \in {"trial", "replicas"}

Init ==
  /\ job = NoJob /\ ran = 0
  /\ pc = "idle"
  /\ engine = [g \in GPUs |-> "off"]
  /\ router = "off"
  /\ left = {}
  /\ device = Default /\ applied = Default
  /\ todo = <<>> /\ results = <<>>
  /\ raising = FALSE
  /\ blame = {}

Fault(f) ==
  /\ Cardinality(blame) < MaxFaults
  /\ blame' = blame \cup {[fault |-> f, at |-> pc, kind |-> Kind]}

\* One result per setting that is still to be measured, or of the one that is.
Failed(settings) == [i \in 1..Len(settings) |-> [setting |-> settings[i], ok |-> FALSE, under |-> device]]

World == <<engine, router, left>>
Meter == <<device, applied>>
Book == <<todo, results>>

-----------------------------------------------------------------------------
(* Launching.                                                              *)

Begin(j) ==
  /\ pc = "idle" /\ ran < MaxJobs
  /\ job' = j /\ ran' = ran + 1
  /\ pc' = "launch"
  /\ engine' = [g \in GPUs |-> "off"]
  /\ todo' = j.settings /\ results' = <<>>
  /\ UNCHANGED <<router, left, Meter, raising, blame>>

\* The engine to launch: the supervisors of `serve` wait for one engine before they launch the next.
Next1 == CHOOSE g \in 1..job.n : engine[g] = "off" /\ \A h \in 1..(g - 1) : engine[h] # "off"
Launching == \E g \in 1..job.n : engine[g] = "off"

Launch ==
  /\ pc = "launch" /\ Launching
  /\ engine' = [engine EXCEPT ![Next1] = "starting"]
  /\ pc' = IF Next1 = job.n \/ Kind = "serve" THEN "wait" ELSE "launch"
  /\ UNCHANGED <<job, ran, router, left, Meter, Book, raising, blame>>

\* Popen raises.  A trial makes a result of it; launch_replicas and launch_pair have no try block.
LaunchRaises ==
  /\ pc = "launch" /\ Launching
  /\ Fault("popen")
  /\ results' = IF Kind = "trial" THEN Failed(todo) ELSE results
  /\ raising' = (Kind # "trial")
  /\ pc' = IF LaunchGuarded THEN "restore" ELSE IF Kind = "serve" THEN "stop" ELSE "leave"
  /\ UNCHANGED <<job, ran, World, Meter, todo>>

AllReady == \A g \in 1..job.n : engine[g] = "ready"
Waited == {g \in 1..job.n : engine[g] # "off"}

WaitReady ==
  /\ pc = "wait" /\ \A g \in Waited : engine[g] = "ready"
  /\ pc' = IF Launching THEN "launch" ELSE IF HasRouter THEN "router" ELSE IF Kind = "serve" THEN "serving" ELSE "set"
  /\ UNCHANGED <<job, ran, World, Meter, Book, raising, blame>>

\* A sweep that did not start answers with a single result.
NotReady_OneResult ==
  [results |-> Failed(IF job.settings = <<>> THEN <<>> ELSE <<Head(job.settings)>>), raising |-> Kind = "serve"]

\* An engine exits, or is not ready in time: a failed result for every setting.
NotReady == [results |-> Failed(job.settings), raising |-> Kind = "serve"]

WaitFails ==
  /\ pc = "wait" /\ \E g \in Waited : engine[g] # "ready"
  /\ results' = NotReady.results /\ raising' = NotReady.raising
  /\ pc' = IF LaunchGuarded THEN "restore" ELSE "stop"
  /\ UNCHANGED <<job, ran, World, Meter, todo, blame>>

\* ProcessServer.start()
StartRouter ==
  /\ pc = "router" /\ router = "off"
  /\ router' = "starting"
  /\ UNCHANGED <<job, ran, pc, engine, left, Meter, Book, raising, blame>>

RouterUp ==
  /\ pc = "router" /\ router = "starting"
  /\ router' = "on"
  /\ pc' = "set"
  /\ UNCHANGED <<job, ran, engine, left, Meter, Book, raising, blame>>

\* It stops its own process, then raises.
RouterFails ==
  /\ pc = "router"
  /\ Fault("router")
  /\ router' = "off"
  /\ raising' = ~ErrorIsResult
  /\ results' = IF ErrorIsResult THEN Failed(todo) ELSE results
  /\ pc' = "restore"
  /\ UNCHANGED <<job, ran, engine, left, Meter, todo>>

-----------------------------------------------------------------------------
(* One setting after another.                                              *)

\* After a result: a trial is over, the others go on while settings are left.
Record(ok) ==
  /\ results' = Append(results, [setting |-> Head(todo), ok |-> ok, under |-> device])
  /\ todo' = Tail(todo)
  /\ pc' = IF Len(todo) = 1 THEN "restore" ELSE "set"

\* restore(): a refusal is logged; the removal of the restore file may raise, when all is undone.
Restored(refused) ==
  /\ applied' = Default
  /\ device' = IF refused THEN device ELSE Default

\* The default setting is measured under whatever the GPU is set to.
DefaultNeedsRestore_Never == FALSE

DefaultNeedsRestore == applied # Default

SetDefault ==
  /\ pc = "set" /\ Head(todo) = Default
  /\ \/ ~DefaultNeedsRestore /\ UNCHANGED <<Meter, blame>>
     \/ DefaultNeedsRestore /\ Restored(FALSE) /\ UNCHANGED blame
     \/ DefaultNeedsRestore /\ Restored(TRUE) /\ Fault("refused")
  /\ pc' = "measure"
  /\ UNCHANGED <<job, ran, World, Book, raising>>

SetDefaultRaises ==
  /\ pc = "set" /\ Head(todo) = Default /\ DefaultNeedsRestore
  /\ Restored(FALSE)
  /\ Fault("restore")
  /\ raising' = ~ErrorIsResult
  /\ results' = IF ErrorIsResult THEN Append(results, Failed(todo)[1]) ELSE results
  /\ pc' = "restore"
  /\ UNCHANGED <<job, ran, World, todo>>

SetPower ==
  /\ pc = "set" /\ Head(todo) # Default
  /\ device' = Head(todo) /\ applied' = Head(todo)
  /\ pc' = "measure"
  /\ UNCHANGED <<job, ran, World, Book, raising, blame>>

\* apply() is refused, halfway when an earlier setting is to be undone: an error result, and applied
\* keeps what it was.
SetPowerRefused ==
  /\ pc = "set" /\ Head(todo) # Default
  /\ Fault("apply")
  /\ device' \in {device} \cup (IF applied = Default THEN {} ELSE {"mixed"})
  /\ Record(FALSE)
  /\ UNCHANGED <<job, ran, World, applied, raising>>

\* run_trial: its metrics are ok only while every engine and the router answer.
Measured ==
  /\ pc = "measure"
  /\ \E ok \in {FALSE} \cup (IF AllReady THEN {TRUE} ELSE {}) : Record(ok)
  /\ UNCHANGED <<job, ran, World, Meter, raising, blame>>

\* The server of `serve` ends.
ServeEnds ==
  /\ pc = "serving"
  /\ pc' = "stop"
  /\ UNCHANGED <<job, ran, World, Meter, Book, raising, blame>>

-----------------------------------------------------------------------------
(* Taking it down: the finally blocks.                                     *)

Restore ==
  /\ pc = "restore"
  /\ \/ applied = Default /\ UNCHANGED <<Meter, blame>>
     \/ applied # Default /\ Restored(FALSE) /\ UNCHANGED blame
     \/ applied # Default /\ Restored(TRUE) /\ Fault("refused")
  /\ pc' = "unroute"
  /\ UNCHANGED <<job, ran, World, Book, raising>>

\* Logged by SubprocessTrialRunner; the finally block of the pair has no try around it.
RestoreRaises ==
  /\ pc = "restore" /\ applied # Default
  /\ Restored(FALSE)
  /\ Fault("restore")
  /\ pc' = IF Kind = "pair" THEN "leave" ELSE "unroute"
  /\ raising' = (raising \/ Kind = "pair")
  /\ UNCHANGED <<job, ran, World, Book>>

Unroute ==
  /\ pc = "unroute"
  /\ router' = IF router = "on" THEN "off" ELSE router
  /\ pc' = "stop"
  /\ UNCHANGED <<job, ran, engine, left, Meter, Book, raising, blame>>

\* One engine after the other: a pair from its second, a supervised set from the one that failed to start.
NextToStop ==
  IF Kind = "pair" THEN CHOOSE g \in Held : \A h \in Held : h <= g
  ELSE IF Kind = "serve" /\ \E g \in Held : engine[g] = "starting"
  THEN CHOOSE g \in Held : engine[g] = "starting"
  ELSE CHOOSE g \in Held : \A h \in Held : g <= h

StopOne ==
  /\ pc = "stop" /\ Held # {}
  /\ engine' = [engine EXCEPT ![NextToStop] = "dead"]
  /\ UNCHANGED <<job, ran, pc, router, left, Meter, Book, raising, blame>>

\* stop() of an engine that outlives SIGKILL raises.
AfterStopRaises ==
  IF StopSwallows(NextToStop) THEN [pc |-> "stop", raising |-> raising] ELSE [pc |-> "leave", raising |-> TRUE]

StopRaises ==
  /\ pc = "stop" /\ Held # {}
  /\ Fault("stop")
  /\ left' = left \cup {NextToStop}
  /\ engine' = [engine EXCEPT ![NextToStop] = "dead"]
  /\ pc' = AfterStopRaises.pc /\ raising' = AfterStopRaises.raising
  /\ UNCHANGED <<job, ran, router, Meter, Book>>

Stopped ==
  /\ pc = "stop" /\ Held = {}
  /\ pc' = "leave"
  /\ UNCHANGED <<job, ran, World, Meter, Book, raising, blame>>

\* The frame is gone: nobody holds what is still up.
Leave ==
  /\ pc = "leave"
  /\ left' = left \cup Held
  /\ engine' = [g \in GPUs |-> "off"]
  /\ pc' = IF raising THEN "exiting" ELSE "idle"
  /\ UNCHANGED <<job, ran, router, Meter, Book, raising, blame>>

\* At interpreter exit the controller's hook restores the GPU.
Exit ==
  /\ pc \in {"exiting", "idle"}
  /\ \/ applied = Default /\ UNCHANGED <<Meter, blame>>
     \/ applied # Default /\ Restored(FALSE) /\ UNCHANGED blame
     \/ applied # Default /\ Restored(TRUE) /\ Fault("refused")
  /\ pc' = "ended"
  /\ UNCHANGED <<job, ran, World, Book, raising>>

-----------------------------------------------------------------------------
(* Ctrl-C, or the exit the power hook makes of SIGTERM: no `except         *)
(* Exception` catches it.                                                  *)

\* A finally block that an exception on its way out does not run through.
AfterInterrupt_Skips == "leave"

AfterInterrupt ==
  IF pc \in {"router", "set", "measure"} \/ (pc \in {"launch", "wait"} /\ LaunchGuarded) THEN "restore"
  ELSE IF pc = "serving" THEN "stop"
  ELSE "leave"

Interrupted ==
  /\ pc \in {"launch", "wait", "router", "set", "measure", "serving", "restore", "unroute", "stop"}
  /\ Fault("interrupt")
  /\ raising' = TRUE
  /\ pc' = AfterInterrupt
  /\ UNCHANGED <<job, ran, World, Meter, Book>>

-----------------------------------------------------------------------------
(* The engines.                                                            *)

BecomesReady(g) ==
  /\ engine[g] = "starting"
  /\ engine' = [engine EXCEPT ![g] = "ready"]
  /\ UNCHANGED <<job, ran, pc, router, left, Meter, Book, raising, blame>>

Dies(g) ==
  /\ engine[g] \in Up
  /\ Fault("died")
  /\ engine' = [engine EXCEPT ![g] = "dead"]
  /\ UNCHANGED <<job, ran, pc, router, left, Meter, Book, raising>>

Next ==
  \/ \E j \in Jobs : Begin(j)
  \/ Launch \/ LaunchRaises \/ WaitReady \/ WaitFails \/ StartRouter \/ RouterUp \/ RouterFails
  \/ SetDefault \/ SetDefaultRaises \/ SetPower \/ SetPowerRefused \/ Measured \/ ServeEnds
  \/ Restore \/ RestoreRaises \/ Unroute \/ StopOne \/ StopRaises \/ Stopped \/ Leave \/ Exit
  \/ Interrupted
  \/ \E g \in GPUs : BecomesReady(g) \/ Dies(g)

Spec == Init /\ [][Next]_rvars

-----------------------------------------------------------------------------
(* What must hold.                                                         *)

Blamed(f, kinds, places) == \E b \in blame : b.fault = f /\ b.kind \in kinds /\ b.at \in places

\* The faults after which a frame leaves an engine or a router behind.
CleanupLost ==
  \/ \E b \in blame : b.fault = "stop"
  \/ Blamed("popen", {"replicas", "pair"}, {"launch"})
  \/ Blamed("restore", {"pair"}, {"restore"})
  \/ Blamed("interrupt", {"replicas", "pair", "serve"}, {"launch", "wait"})
  \/ Blamed("interrupt", {"replicas", "pair"}, {"router"})
  \/ \E b \in blame : b.fault = "interrupt" /\ b.at \in {"restore", "unroute", "stop"}

\* A job that is over, by a result or by an exception, has left no engine and no router running on
\* the GPUs the next job will use, whatever fails in it: an engine that does not start or dies, a
\* router that does not come up, a setting that is refused, a measurement that raises, an interrupt
\* while it measures.  What does leave something is listed in CleanupLost, and nothing else does.
NothingLeftRunning ==
  (left # {} \/ (pc \in {"idle", "exiting", "ended"} /\ router # "off")) => CleanupLost

\* A measurement that is reported as good for a setting was made under that setting: a refused or
\* half-applied setting, or the rest of the one before, is never taken for it, unless the driver
\* refused to undo the one before.
MeasuredUnderItsSetting ==
  \A i \in 1..Len(results) :
    (results[i].ok /\ ~\E b \in blame : b.fault = "refused") => results[i].under = results[i].setting

\* A job that returns has a result for every setting it was given, in their order, whatever failed:
\* the search pairs them with what it asked for.
EverySettingReported ==
  (pc = "leave" /\ ~raising /\ Kind # "serve") =>
    [i \in 1..Len(results) |-> results[i].setting] = job.settings

-----------------------------------------------------------------------------
(* The inductive invariant.                                                *)

Result == [setting : Setting, ok : BOOLEAN, under : Setting \cup {"mixed"}]

\* The types.
TypeOKRunner ==
  /\ job \in Jobs \cup {NoJob}
  /\ ran \in 0..MaxJobs
  /\ pc \in {"idle", "launch", "wait", "router", "set", "measure", "serving", "restore", "unroute", "stop",
             "leave", "exiting", "ended"}
  /\ engine \in [GPUs -> {"off", "starting", "ready", "dead"}]
  /\ router \in {"off", "starting", "on"}
  /\ left \subseteq GPUs
  /\ device \in Setting \cup {"mixed"} /\ applied \in Setting
  /\ todo \in Seq(Setting)
  /\ results \in Seq(Result)
  /\ raising \in BOOLEAN

\* Which places of the code a job of each kind can be in.
KindAgrees ==
  /\ Kind = "none" => pc \in {"idle", "ended"}
  /\ pc = "router" => HasRouter
  /\ pc \in {"set", "measure"} => Kind # "serve"
  /\ pc = "serving" => Kind = "serve"

\* The results done and the settings rest make up all the settings, in their order.
MakeUp(done, rest, settings) ==
  /\ Len(done) + Len(rest) = Len(settings)
  /\ \A i \in 1..Len(done) : done[i].setting = settings[i]
  /\ \A i \in 1..Len(rest) : rest[i] = settings[Len(done) + i]

\* What is reported and what is still to do make up the settings of the job.
BookComplete ==
  /\ pc \in {"launch", "wait", "router"} => results = <<>> /\ todo = job.settings
  /\ pc \in {"set", "measure"} => todo # <<>> /\ MakeUp(results, todo, job.settings)
  /\ pc \in {"restore", "unroute", "stop", "leave"} /\ ~raising /\ Kind # "serve" =>
       MakeUp(results, <<>>, job.settings)

Refused == \E b \in blame : b.fault = "refused"

\* Unless the driver has refused to undo a setting, a controller that has nothing applied has left
\* the GPU as it was, and the one that measures has it as the setting says.
MeterTrue ==
  ~Refused =>
    /\ applied = Default => device = Default
    /\ pc = "measure" => device = Head(todo)

\* The router is up only while its engines are measured, and a frame that has cleaned up holds none.
NothingHeld ==
  ~CleanupLost =>
    /\ left = {}
    /\ pc \notin {"router", "set", "measure", "restore", "unroute"} => router = "off"
    /\ router = "starting" => pc = "router"
    /\ pc = "leave" => Held = {}

RunnerInv ==
  /\ TypeOKRunner
  /\ KindAgrees
  /\ BookComplete
  /\ MeterTrue
  /\ MeasuredUnderItsSetting
  /\ NothingHeld
=============================================================================
