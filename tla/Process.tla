------------------------------ MODULE Process ------------------------------
(***************************************************************************)
(* A launched backend server: polyserve/backends/base.py, class Process.   *)
(*                                                                         *)
(* Every launch is an operating-system process group of its own            *)
(* (start_new_session), led by the server and possibly holding children,   *)
(* for example the engine process of vLLM that owns the GPU.  The module   *)
(* models what start, alive, wait_ready and stop do to that group while    *)
(* the server and its children live their own life, and lets several       *)
(* threads be inside stop() at once, as the supervisor and its caller may. *)
(*                                                                         *)
(* Times (the grace period, the wait after the kill) are abstracted: a     *)
(* timeout may fire whenever what it waits for has not happened yet.       *)
(***************************************************************************)
EXTENDS Naturals

CONSTANTS
  Procs,      \* the launches, one process group each
  Parents,    \* those of them whose server may have children (a bound of the runs)
  Threads,    \* the threads of PolyServe that may call stop()
  NoProc      \* no launch

ASSUME NoProcAssumption == NoProc \notin Procs

VARIABLES
  leader,     \* leader[p]: what the server process of launch p is doing
  kids,       \* kids[p]: the children of the server that are left in its process group
  call        \* call[t]: where thread t is in its latest call of stop()

pvars == <<leader, kids, call>>

\* "doomed": SIGKILL has been sent and the kernel has not ended the process yet
\* (it may be in an uninterruptible wait of the GPU driver).
LeaderState == {"unborn", "starting", "serving", "hung", "doomed", "dead"}

\* "doomed" as for the leader; nobody ever waits for the children.
KidsState == {"none", "live", "doomed"}

StopPc == {"idle", "grace", "kill", "reap", "returned", "raised"}

\* The types; and a thread is, or last was, inside stop() only of a launch that had been
\* started, since stop() leaves a Process without a server alone.
TypeOKProcess ==
  /\ leader \in [Procs -> LeaderState]
  /\ kids \in [Procs -> KidsState]
  /\ call \in [Threads -> [pc : StopPc, proc : Procs \cup {NoProc}]]
  /\ \A t \in Threads : call[t].pc # "idle" =>
       call[t].proc \in Procs /\ leader[call[t].proc] # "unborn"

InitProcess ==
  /\ leader = [p \in Procs |-> "unborn"]
  /\ kids = [p \in Procs |-> "none"]
  /\ call = [t \in Threads |-> [pc |-> "idle", proc |-> NoProc]]

\* Process.alive(): the server has been started and poll() has no exit status.
Alive(p) == leader[p] \notin {"unborn", "dead"}

\* A launch holds on to its GPU and its port: its server has not ended, or a child of it
\* is under no SIGKILL.
Holds(p) == Alive(p) \/ kids[p] = "live"

\* Something of its group is left, be it a killed child the kernel has not ended yet.
Occupies(p) == Alive(p) \/ kids[p] # "none"

Stopping(t) == call[t].pc \in {"grace", "kill", "reap"}

-----------------------------------------------------------------------------
(* The server and its children, outside PolyServe's control.               *)

BecomeReady(p) ==
  /\ leader[p] = "starting"
  /\ leader' = [leader EXCEPT ![p] = "serving"]
  /\ UNCHANGED <<kids, call>>

\* The server stops answering its health endpoint while its process lives on.
Hang(p) ==
  /\ leader[p] \in {"starting", "serving"}
  /\ leader' = [leader EXCEPT ![p] = "hung"]
  /\ UNCHANGED <<kids, call>>

Unhang(p) ==
  /\ leader[p] = "hung"
  /\ leader' = [leader EXCEPT ![p] = "serving"]
  /\ UNCHANGED <<kids, call>>

Fork(p) ==
  /\ p \in Parents
  /\ leader[p] \in {"starting", "serving"}
  /\ kids' = [kids EXCEPT ![p] = "live"]
  /\ UNCHANGED <<leader, call>>

\* The server ends: a crash, its answer to SIGTERM, or the end of a doomed process.
\* Its children are not its business.
Die(p) ==
  /\ Alive(p)
  /\ leader' = [leader EXCEPT ![p] = "dead"]
  /\ UNCHANGED <<kids, call>>

KidsExit(p) ==
  /\ kids[p] # "none"
  /\ kids' = [kids EXCEPT ![p] = "none"]
  /\ UNCHANGED <<leader, call>>

Environment(p) ==
  \/ BecomeReady(p)
  \/ Hang(p)
  \/ Unhang(p)
  \/ Fork(p)
  \/ Die(p)
  \/ KidsExit(p)

-----------------------------------------------------------------------------
(* The operations.                                                         *)

\* killpg(SIGKILL) as the children see it: they are as good as dead, and not gone.
KillKids(p) == kids' = [kids EXCEPT ![p] = IF @ = "none" THEN "none" ELSE "doomed"]

\* Process.start(): Popen in a session of its own.
Start(p) ==
  /\ leader[p] = "unborn"
  /\ leader' = [leader EXCEPT ![p] = "starting"]
  /\ UNCHANGED <<kids, call>>

\* wait_ready() answers True when the health URL does; the poll loop reads it at any moment.
WaitReady(p) == leader[p] = "serving"

\* wait_ready() answers False when the server has exited or the deadline has passed.
WaitFails(p) == leader[p] # "serving"

\* A stop() that returns at once when the leader is gone already.
StopEnter_EarlyReturn(t, p) ==
  /\ ~Stopping(t)
  /\ leader[p] # "unborn"
  /\ call' = [call EXCEPT ![t] = [pc   |-> IF Alive(p) THEN "grace" ELSE "returned",
                                  proc |-> p]]
  /\ UNCHANGED <<leader, kids>>

\* stop(): a living leader gets SIGTERM and a grace period, which obliges it to nothing;
\* with a dead one the call goes straight to the clean-up of the group.
StopEnter(t, p) ==
  /\ ~Stopping(t)
  /\ leader[p] # "unborn"
  /\ call' = [call EXCEPT ![t] = [pc   |-> IF Alive(p) THEN "grace" ELSE "reap",
                                  proc |-> p]]
  /\ UNCHANGED <<leader, kids>>

\* wait(timeout=grace), or wait(timeout=10) after the kill, sees the leader's exit.
StopSawExit(t) ==
  /\ call[t].pc \in {"grace", "kill"}
  /\ ~Alive(call[t].proc)
  /\ call' = [call EXCEPT ![t].pc = "reap"]
  /\ UNCHANGED <<leader, kids>>

\* The grace period runs out: SIGKILL to the whole group, children included.  What
\* follows waits for the leader alone.
StopGraceOver(t) ==
  /\ call[t].pc = "grace"
  /\ Alive(call[t].proc)
  /\ leader' = [leader EXCEPT ![call[t].proc] = "doomed"]
  /\ KillKids(call[t].proc)
  /\ call' = [call EXCEPT ![t].pc = "kill"]

\* The killed leader is still there 10 s later: TimeoutExpired leaves stop().
StopStuck(t) ==
  /\ call[t].pc = "kill"
  /\ Alive(call[t].proc)
  /\ call' = [call EXCEPT ![t].pc = "raised"]
  /\ UNCHANGED <<leader, kids>>

StopReap_LeaveChildren(t) ==
  /\ call[t].pc = "reap"
  /\ call' = [call EXCEPT ![t].pc = "returned"]
  /\ UNCHANGED <<leader, kids>>

\* The last killpg, to whatever is left of the group; stop() returns without waiting
\* for it to end.
StopReap(t) ==
  /\ call[t].pc = "reap"
  /\ KillKids(call[t].proc)
  /\ call' = [call EXCEPT ![t].pc = "returned"]
  /\ UNCHANGED leader

\* A stop() that waits for the killed leader without a timeout.
StopStep_NoSecondTimeout(t) ==
  \/ StopSawExit(t)
  \/ StopGraceOver(t)
  \/ StopReap(t)

StopStep(t) ==
  \/ StopSawExit(t)
  \/ StopGraceOver(t)
  \/ StopStuck(t)
  \/ StopReap(t)

-----------------------------------------------------------------------------
(* A process under arbitrary callers.                                      *)

NextProcess ==
  \/ \E p \in Procs : Start(p) \/ Environment(p)
  \/ \E t \in Threads, p \in Procs : StopEnter(t, p)
  \/ \E t \in Threads : StopStep(t)

SpecProcess == InitProcess /\ [][NextProcess]_pvars

-----------------------------------------------------------------------------
(* Properties.                                                             *)

\* Where the group stands at each point of a call of stop(): the inductive form of the two
\* properties that follow.  A server that was never started has no children, and SIGKILL
\* has reached the children of one it has reached; a call past its kill works on a killed
\* group, one past its waits on a dead leader.
StopProgress ==
  /\ TypeOKProcess
  /\ \A p \in Procs :
       /\ leader[p] = "unborn" => kids[p] = "none"
       /\ leader[p] = "doomed" => kids[p] # "live"
  /\ \A t \in Threads :
       /\ call[t].pc \in {"kill", "raised"} =>
            leader[call[t].proc] \in {"doomed", "dead"} /\ kids[call[t].proc] # "live"
       /\ call[t].pc = "reap" => leader[call[t].proc] = "dead"
       /\ call[t].pc = "returned" => ~Holds(call[t].proc)

\* When stop() has returned, the server is gone and SIGKILL has reached every child it
\* left, and none comes back or is forked again, whoever else is stopping the launch and
\* whether or not the server had died before by itself.
KilledOnReturn ==
  \A t \in Threads : call[t].pc = "returned" => ~Holds(call[t].proc)

\* An exception of stop() leaves no child behind that SIGKILL has not reached.
KilledOnRaise ==
  \A t \in Threads : call[t].pc = "raised" => kids[call[t].proc] # "live"

\* A returned stop() has reaped the whole group, as the docstring of
\* tests/test_process_group.py:1 says.  It does not hold: the killed children may still
\* hold the GPU.
ReapedOnReturn ==
  \A t \in Threads : call[t].pc = "returned" => ~Occupies(call[t].proc)
=============================================================================
