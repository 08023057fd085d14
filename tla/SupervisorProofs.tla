-------------------------- MODULE SupervisorProofs --------------------------
(***************************************************************************)
(* stop(), for any number of launches and threads; and the supervisor, for *)
(* every restart budget: its inductive invariant, the exclusiveness of the *)
(* backend, what stop() leaves behind, and that it implements the lease of *)
(* the GPU.                                                                *)
(*                                                                         *)
(* Steps that are steps of a Process keep StopProgress by the lemmas of    *)
(* the first section; what is left for each action are the four conjuncts  *)
(* that relate the threads to the launches.                                *)
(***************************************************************************)
EXTENDS Supervisor, TLAPS

-----------------------------------------------------------------------------
(* The operations of a Process.                                            *)

LEMMA InitProgress == InitProcess => StopProgress
  BY NoProcAssumption
  DEF InitProcess, StopProgress, TypeOKProcess, LeaderState, KidsState, StopPc

LEMMA UnchangedProgress == StopProgress /\ UNCHANGED pvars => StopProgress'
  BY DEF StopProgress, TypeOKProcess, Holds, Alive, pvars

\* What the server and its children do on their own leaves every call where it is.
LEMMA EnvironmentProgress ==
  ASSUME StopProgress, NEW p \in Procs, Environment(p)
  PROVE  StopProgress'
<1> USE DEF StopProgress, TypeOKProcess, LeaderState, KidsState, StopPc, Holds, Alive
<1>1. CASE BecomeReady(p) BY <1>1 DEF BecomeReady
<1>2. CASE Hang(p) BY <1>2 DEF Hang
<1>3. CASE Unhang(p) BY <1>3 DEF Unhang
<1>4. CASE Fork(p) BY <1>4 DEF Fork
<1>5. CASE Die(p) BY <1>5 DEF Die
<1>6. CASE KidsExit(p) BY <1>6 DEF KidsExit
<1> QED BY <1>1, <1>2, <1>3, <1>4, <1>5, <1>6 DEF Environment

LEMMA StartProgress ==
  ASSUME StopProgress, NEW p \in Procs, Start(p)
  PROVE  StopProgress'
  BY DEF StopProgress, TypeOKProcess, LeaderState, KidsState, StopPc, Start, Holds, Alive

LEMMA StopEnterProgress ==
  ASSUME StopProgress, NEW t \in Threads, NEW p \in Procs, StopEnter(t, p)
  PROVE  StopProgress'
  BY DEF StopProgress, TypeOKProcess, LeaderState, KidsState, StopPc, StopEnter, Holds, Alive

\* A step of one call never undoes what another call has reached: a leader that is dead
\* or doomed stays so, and to the children of a killed group none is added.
LEMMA StopStepProgress ==
  ASSUME StopProgress, NEW t \in Threads, StopStep(t)
  PROVE  StopProgress'
<1> USE DEF StopProgress, TypeOKProcess, LeaderState, KidsState, StopPc, Holds, Alive
<1>1. CASE StopSawExit(t) BY <1>1 DEF StopSawExit
<1>2. CASE StopGraceOver(t) BY <1>2 DEF StopGraceOver, KillKids
<1>3. CASE StopStuck(t) BY <1>3 DEF StopStuck
<1>4. CASE StopReap(t) BY <1>4 DEF StopReap, KillKids
<1> QED BY <1>1, <1>2, <1>3, <1>4 DEF StopStep

LEMMA ProgressMeansKilled == StopProgress => KilledOnReturn /\ KilledOnRaise
  BY DEF StopProgress, KilledOnReturn, KilledOnRaise

\* The inductive invariant holds under arbitrary callers.
THEOREM StopProgresses == SpecProcess => []StopProgress
<1>1. StopProgress /\ [NextProcess]_pvars => StopProgress'
  BY UnchangedProgress, EnvironmentProgress, StartProgress, StopEnterProgress, StopStepProgress
  DEF NextProcess
<1> QED BY <1>1, InitProgress, PTL DEF SpecProcess

\* The types of Process hold in every reachable state.
THEOREM ProcessTyped == SpecProcess => []TypeOKProcess
<1>1. StopProgress => TypeOKProcess BY DEF StopProgress
<1> QED BY <1>1, StopProgresses, PTL

\* A stop() that has returned has seen the server end, and SIGKILL has reached every child
\* it left, however many threads were stopping the same launch.  That the children have
\* ended as well is more than the code sees to.
THEOREM ReturnKills == SpecProcess => []KilledOnReturn
  BY ProgressMeansKilled, StopProgresses, PTL

\* A stop() that raised has at least sent SIGKILL to the children of the server, and none
\* is forked after it.
THEOREM RaiseKills == SpecProcess => []KilledOnRaise
  BY ProgressMeansKilled, StopProgresses, PTL

-----------------------------------------------------------------------------
(* The supervisor.                                                         *)

Coordination ==
  /\ LaunchesInOrder
  /\ OnlyCurrentLives
  /\ RelaunchPrepared
  /\ ThreadsAgree

LEMMA InitSupervisor == Init => SupervisorInv
<1> SUFFICES ASSUME Init PROVE SupervisorInv
  OBVIOUS
<1>1. StopProgress
  BY InitProgress DEF Init
<1>2. TypeOKSupervisor
  <2>1. restarts \in 0..MaxRestarts /\ misses \in 0..MissLimit
    BY MaxRestartsAssumption DEF Init, MissLimit
  <2> QED
    BY <1>1, <2>1, Zenon DEF Init, TypeOKSupervisor, StopProgress, MainPc, WatcherPc
<1>3. Coordination
  BY DEF Init, InitProcess, Coordination, LaunchesInOrder, OnlyCurrentLives, RelaunchPrepared,
         ThreadsAgree, Holds, Alive
<1> QED BY <1>1, <1>2, <1>3 DEF SupervisorInv, Coordination

-----------------------------------------------------------------------------
(* The steps of a Process.                                                 *)

\* What the environment does to a launch, it does to the current one, or it ends killed
\* children of a former one.
LEMMA EnvironmentCoordinates ==
  ASSUME SupervisorInv, EnvironmentStep
  PROVE  SupervisorInv'
<1>1. PICK p \in Procs : Environment(p) /\ UNCHANGED svars
  BY DEF EnvironmentStep
<1>2. StopProgress'
  BY <1>1, EnvironmentProgress DEF SupervisorInv
<1>3. TypeOKSupervisor'
  BY <1>1, <1>2 DEF SupervisorInv, TypeOKSupervisor, StopProgress, svars
<1>4. /\ call' = call
      /\ \A q \in Procs : q # p => leader'[q] = leader[q] /\ kids'[q] = kids[q]
      /\ leader[p] = "unborn" <=> leader'[p] = "unborn"
      /\ leader[p] = "dead" /\ kids[p] # "live" => leader'[p] = "dead" /\ kids'[p] # "live"
      /\ leader[p] # "unborn"
  BY <1>1 DEF Environment, BecomeReady, Hang, Unhang, Fork, Die, KidsExit, Alive,
              SupervisorInv, StopProgress, TypeOKProcess
<1> QED
  BY <1>1, <1>2, <1>3, <1>4, LaunchesAssumption
  DEF SupervisorInv, LaunchesInOrder, OnlyCurrentLives, RelaunchPrepared, ThreadsAgree,
      Holds, Alive, svars, Returned, StopProgress, TypeOKProcess, TypeOKSupervisor, LeaderState

\* A step inside stop() kills or reaps the launch it works on; that takes nothing away from
\* the order of the launches, and a call that returns has killed its group.
LEMMA StopStepCoordinates ==
  ASSUME SupervisorInv, NEW t \in Threads, StopStep(t), UNCHANGED svars
  PROVE  SupervisorInv'
<1>1. StopProgress'
  BY StopStepProgress DEF SupervisorInv
<1>2. TypeOKSupervisor'
  BY <1>1 DEF SupervisorInv, TypeOKSupervisor, StopProgress, svars
<1>3. /\ Stopping(t)
      /\ \A u \in Threads : u # t => call'[u] = call[u]
      /\ call'[t].proc = call[t].proc
  BY DEF StopStep, StopSawExit, StopGraceOver, StopStuck, StopReap, KillKids, Stopping,
         SupervisorInv, StopProgress, TypeOKProcess
<1>4. \A p \in Procs :
        /\ leader[p] = "unborn" <=> leader'[p] = "unborn"
        /\ leader[p] = "dead" /\ kids[p] # "live" => leader'[p] = "dead" /\ kids'[p] # "live"
        /\ kids[p] # "live" => kids'[p] # "live"
  BY DEF StopStep, StopSawExit, StopGraceOver, StopStuck, StopReap, KillKids, Alive,
         SupervisorInv, StopProgress, TypeOKProcess
<1> QED
  BY <1>1, <1>2, <1>3, <1>4, LaunchesAssumption, ThreadsAssumption
  DEF SupervisorInv, LaunchesInOrder, OnlyCurrentLives, RelaunchPrepared, ThreadsAgree, Stopping,
      Holds, Alive, svars, Returned, StopProgress, TypeOKProcess, TypeOKSupervisor, LeaderState

\* Entering stop() changes the call of its thread and nothing else.
LEMMA StopEnterOnlyCalls ==
  ASSUME SupervisorInv, NEW t \in Threads, StopEnter(t, process), process # NoProc
  PROVE  /\ StopProgress'
         /\ UNCHANGED <<leader, kids>>
         /\ \A u \in Threads : u # t => call'[u] = call[u]
         /\ call'[t].proc = process
         /\ call'[t].pc # "idle"
<1>1. process \in Procs
  BY DEF SupervisorInv, TypeOKSupervisor
<1>2. StopProgress'
  BY <1>1, StopEnterProgress DEF SupervisorInv
<1>3. StopProgress /\ t \in DOMAIN call
  BY DEF SupervisorInv, StopProgress, TypeOKProcess
<1> QED BY <1>2, <1>3 DEF StopEnter

-----------------------------------------------------------------------------
(* The main thread.                                                        *)

\* Until the watcher exists only launch 0 has been made; afterwards start() and stop()
\* make no launch at all, and the power is restored when stop() has returned.
LEMMA MainCoordinates ==
  ASSUME SupervisorInv, MainStep \/ BeginStop \/ Exit
  PROVE  SupervisorInv'
<1> DEFINE Threading == StartReady \/ StartFailed \/ StartServing \/ StartLaunchRaises \/ BeginStop
                          \/ StopProcessReturned \/ StopProcessRaised \/ RestorePower \/ Exit
<1>a. StopProgress /\ TypeOKSupervisor /\ Coordination
  BY DEF SupervisorInv, Coordination
<1> USE DEF Coordination, LaunchesInOrder, OnlyCurrentLives, RelaunchPrepared, ThreadsAgree
<1>1. CASE StartLaunch
  <2>1. 0 \in Procs /\ StopProgress'
    BY <1>1, <1>a, StartProgress, LaunchesAssumption, MaxRestartsAssumption DEF StartLaunch
  <2>2. process = NoProc /\ (\A p \in Procs : leader[p] = "unborn" /\ kids[p] = "none")
    BY <1>1, <1>a DEF StartLaunch, StopProgress
  <2>3. TypeOKSupervisor'
    BY <1>1, <1>a, <2>1 DEF StartLaunch, TypeOKSupervisor, StopProgress, MainPc
  <2>4. Coordination'
    BY <1>1, <1>a, <2>1, <2>2, NoProcAssumption, LaunchesAssumption
    DEF StartLaunch, Start, TypeOKSupervisor, TypeOKProcess, Holds, Alive
  <2> QED BY <2>1, <2>3, <2>4 DEF SupervisorInv
<1>2. CASE StartNotReady \/ JoinWatcher
  <2>1. StopEnter(Main, process) /\ process # NoProc /\ Main \in Threads
    BY <1>2, <1>a, ThreadsAssumption DEF StartNotReady, JoinWatcher
  <2>2. /\ StopProgress'
        /\ UNCHANGED <<leader, kids>>
        /\ call'[Watcher] = call[Watcher]
    BY <2>1, StopEnterOnlyCalls, ThreadsAssumption
  <2>3. TypeOKSupervisor'
    BY <1>2, <1>a, <2>2
    DEF StartNotReady, JoinWatcher, TypeOKSupervisor, StopProgress, MainPc
  <2>4. Coordination'
    BY <1>2, <1>a, <2>2 DEF StartNotReady, JoinWatcher, Holds, Alive
  <2> QED BY <2>2, <2>3, <2>4 DEF SupervisorInv
<1>3. CASE Threading
  <2>1. UNCHANGED pvars
    BY <1>3 DEF StartReady, StartFailed, StartServing, StartLaunchRaises, BeginStop,
                StopProcessReturned, StopProcessRaised, RestorePower, Exit
  <2>2. StopProgress'
    BY <1>a, <2>1, UnchangedProgress
  <2>3. TypeOKSupervisor'
    <3>1. mpc' \in MainPc
      BY <1>3
      DEF StartReady, StartFailed, StartServing, StartLaunchRaises, BeginStop, StopProcessReturned,
          StopProcessRaised, RestorePower, Exit, MainPc
    <3>2. wpc' \in {wpc, "wait"}
      BY <1>3
      DEF StartReady, StartFailed, StartServing, StartLaunchRaises, BeginStop, StopProcessReturned,
          StopProcessRaised, RestorePower, Exit
    <3>3. process' = process /\ lastError' = lastError /\ power' \in {power, "default", "capped", "stuck"}
      BY <1>3
      DEF StartReady, StartFailed, StartServing, StartLaunchRaises, BeginStop, StopProcessReturned,
          StopProcessRaised, RestorePower, Exit
    <3>4. stopFlag' = stopFlag \/ stopFlag' = TRUE
      BY <1>3, Zenon
      DEF StartReady, StartFailed, StartServing, StartLaunchRaises, BeginStop, StopProcessReturned,
          StopProcessRaised, RestorePower, Exit
    <3>5. misses' = misses /\ restarts' = restarts /\ wpc' \in WatcherPc
      BY <1>3, <1>a, <3>2
      DEF StartReady, StartFailed, StartServing, StartLaunchRaises, BeginStop, StopProcessReturned,
          StopProcessRaised, RestorePower, Exit, TypeOKSupervisor, WatcherPc
    <3> QED BY <1>a, <2>2, <3>1, <3>3, <3>4, <3>5 DEF TypeOKSupervisor, StopProgress
  <2>4. UNCHANGED <<leader, kids, call, process, restarts>>
    BY <1>3, <2>1
    DEF StartReady, StartFailed, StartServing, StartLaunchRaises, BeginStop, StopProcessReturned,
        StopProcessRaised, RestorePower, Exit, pvars
  <2>5. (LaunchesInOrder /\ OnlyCurrentLives)'
    BY <1>a, <2>4 DEF Holds, Alive
  <2>6. RelaunchPrepared'
    BY <1>3, <1>a, <2>4
    DEF StartReady, StartFailed, StartServing, StartLaunchRaises, BeginStop, StopProcessReturned,
        StopProcessRaised, RestorePower, Exit, Holds, Alive
  <2>7. ThreadsAgree'
    BY <1>3, <1>a, <2>4
    DEF StartReady, StartFailed, StartServing, StartLaunchRaises, BeginStop, StopProcessReturned,
        StopProcessRaised, RestorePower, Exit, Returned, TypeOKSupervisor
  <2> QED BY <2>2, <2>3, <2>5, <2>6, <2>7 DEF SupervisorInv
<1>4. CASE StopStep(Main) /\ UNCHANGED svars
  BY <1>4, StopStepCoordinates, ThreadsAssumption
<1> QED BY <1>1, <1>2, <1>3, <1>4 DEF MainStep

-----------------------------------------------------------------------------
(* The watcher.                                                            *)

\* A relaunch is made by the watcher alone, under the next number, and only after its
\* stop() of the former launch has returned and so has killed its group.
LEMMA WatcherCoordinates ==
  ASSUME SupervisorInv, WatcherStep
  PROVE  SupervisorInv'
<1> DEFINE Looking == WatchStops \/ WatchProbes \/ ProbeHealthy \/ ProbeMisses \/ WatchWaits
                        \/ WatchGivesUp \/ WatchCrashes \/ WatchLaunchRaises \/ WatchReady
                        \/ WatchLaunchFailed
<1>a. StopProgress /\ TypeOKSupervisor /\ Coordination
  BY DEF SupervisorInv, Coordination
<1>b. wpc # "off" => process # NoProc /\ process \in Procs /\ mpc # "new"
  BY <1>a DEF Coordination, ThreadsAgree, TypeOKSupervisor
<1> USE DEF Coordination, LaunchesInOrder, OnlyCurrentLives, RelaunchPrepared, ThreadsAgree
<1>1. CASE Looking
  <2>1. UNCHANGED <<leader, kids, call, process, restarts, mpc, power>>
    BY <1>1 DEF WatchStops, WatchProbes, ProbeHealthy, ProbeMisses, WatchWaits, WatchGivesUp,
                WatchCrashes, WatchLaunchRaises, WatchReady, WatchLaunchFailed, pvars
  <2>2. StopProgress'
    BY <1>a, <2>1, UnchangedProgress DEF pvars
  <2>3. wpc # "off" /\ wpc' \in {"wait", "probing", "missed", "gone", "crashed"}
    BY <1>1 DEF WatchStops, WatchProbes, ProbeHealthy, ProbeMisses, WatchWaits, WatchGivesUp,
                WatchCrashes, WatchLaunchRaises, WatchReady, WatchLaunchFailed
  <2>4. misses' \in 0..MissLimit /\ stopFlag' \in BOOLEAN /\ lastError' \in BOOLEAN
    <3>1. misses' \in {misses, 0} \/ (misses' = misses + 1 /\ misses < MissLimit)
      BY <1>1
      DEF WatchStops, WatchProbes, ProbeHealthy, ProbeMisses, WatchWaits, WatchGivesUp,
          WatchCrashes, WatchLaunchRaises, WatchReady, WatchLaunchFailed
    <3>2. stopFlag' = stopFlag /\ lastError' \in {lastError, TRUE}
      BY <1>1, Zenon
      DEF WatchStops, WatchProbes, ProbeHealthy, ProbeMisses, WatchWaits, WatchGivesUp,
          WatchCrashes, WatchLaunchRaises, WatchReady, WatchLaunchFailed
    <3>3. misses' \in 0..MissLimit
      BY <1>a, <3>1 DEF TypeOKSupervisor, MissLimit
    <3>4. stopFlag' \in BOOLEAN /\ lastError' \in BOOLEAN
      BY <1>a, <3>2, Zenon DEF TypeOKSupervisor
    <3> QED BY <3>3, <3>4
  <2>5. TypeOKSupervisor'
    BY <1>a, <2>1, <2>2, <2>3, <2>4 DEF TypeOKSupervisor, StopProgress, WatcherPc
  <2>6. Coordination'
    BY <1>a, <2>1, <2>3 DEF Returned, Holds, Alive
  <2> QED BY <2>2, <2>5, <2>6 DEF SupervisorInv
<1>2. CASE WatchRestarts
  <2>1. StopEnter(Watcher, process) /\ restarts' = restarts + 1 /\ restarts' \in Procs
    BY <1>2, <1>a, LaunchesAssumption, MaxRestartsAssumption DEF WatchRestarts, TypeOKSupervisor
  <2>2. /\ StopProgress'
        /\ UNCHANGED <<leader, kids>>
        /\ call'[Main] = call[Main]
        /\ call'[Watcher].proc = process
    BY <1>2, <1>b, <2>1, StopEnterOnlyCalls, ThreadsAssumption DEF WatchRestarts
  <2>3. TypeOKSupervisor'
    BY <1>2, <1>a, <2>1, <2>2, LaunchesAssumption
    DEF WatchRestarts, TypeOKSupervisor, StopProgress, WatcherPc
  <2>4. leader[restarts'] = "unborn"
    BY <1>a, <2>1, LaunchesAssumption DEF TypeOKSupervisor
  <2>5. LaunchesInOrder'
    BY <1>2, <1>a, <1>b, <2>1, <2>2, LaunchesAssumption DEF WatchRestarts, TypeOKSupervisor
  <2>6. (OnlyCurrentLives /\ RelaunchPrepared /\ ThreadsAgree)'
    BY <1>2, <1>a, <1>b, <2>1, <2>2, <2>4 DEF WatchRestarts, Returned, Holds, Alive
  <2> QED BY <2>2, <2>3, <2>5, <2>6 DEF SupervisorInv
<1>3. CASE WatchReaped
  <2>1. UNCHANGED <<leader, kids, call, process, restarts, mpc, power>>
    BY <1>3 DEF WatchReaped, pvars
  <2>2. StopProgress'
    BY <1>a, <2>1, UnchangedProgress DEF pvars
  <2>3. ~Holds(process)
    BY <1>3, <1>a, ThreadsAssumption
    DEF WatchReaped, Returned, StopProgress, TypeOKProcess, Holds, Alive
  <2>4. TypeOKSupervisor'
    BY <1>3, <1>a, <2>1, <2>2 DEF WatchReaped, TypeOKSupervisor, StopProgress, WatcherPc
  <2>5. Coordination'
    BY <1>3, <1>a, <1>b, <2>1, <2>3 DEF WatchReaped, Returned, Holds, Alive
  <2> QED BY <2>2, <2>4, <2>5 DEF SupervisorInv
<1>4. CASE WatchLaunches
  <2>1. Start(restarts) /\ restarts \in Procs /\ process' = restarts /\ process # restarts
    BY <1>4, <1>a, <1>b, LaunchesAssumption DEF WatchLaunches, TypeOKSupervisor
  <2>2. StopProgress'
    BY <1>a, <2>1, StartProgress
  <2>3. TypeOKSupervisor'
    BY <1>4, <1>a, <2>1, <2>2 DEF WatchLaunches, TypeOKSupervisor, StopProgress, WatcherPc
  <2>4. leader[process] = "dead" /\ kids[process] # "live"
    BY <1>4, <1>a, <1>b DEF WatchLaunches, Holds, Alive, StopProgress, TypeOKProcess, LeaderState
  <2>5. LaunchesInOrder'
    BY <1>4, <1>a, <2>1, LaunchesAssumption
    DEF WatchLaunches, Start, TypeOKSupervisor, StopProgress, TypeOKProcess
  <2>6. OnlyCurrentLives'
    BY <1>4, <1>a, <2>1, <2>4 DEF WatchLaunches, Start, Holds, Alive, StopProgress, TypeOKProcess
  <2>7. RelaunchPrepared' /\ ThreadsAgree'
    BY <1>4, <1>a, <1>b, <2>1, NoProcAssumption
    DEF WatchLaunches, Start, Returned
  <2> QED BY <2>2, <2>3, <2>5, <2>6, <2>7 DEF SupervisorInv
<1>5. CASE WatchNotReady
  <2>1. /\ StopProgress'
        /\ UNCHANGED <<leader, kids>>
        /\ call'[Main] = call[Main]
    BY <1>5, <1>b, StopEnterOnlyCalls, ThreadsAssumption DEF WatchNotReady
  <2>2. TypeOKSupervisor'
    BY <1>5, <1>a, <2>1 DEF WatchNotReady, TypeOKSupervisor, StopProgress, WatcherPc
  <2>3. Coordination'
    BY <1>5, <1>a, <1>b, <2>1 DEF WatchNotReady, Returned, Holds, Alive
  <2> QED BY <2>1, <2>2, <2>3 DEF SupervisorInv
<1>6. CASE StopStep(Watcher) /\ UNCHANGED svars
  BY <1>6, StopStepCoordinates, ThreadsAssumption
<1> QED BY <1>1, <1>2, <1>3, <1>4, <1>5, <1>6 DEF WatcherStep

-----------------------------------------------------------------------------
(* The theorems.                                                           *)

LEMMA NextKeepsInv == SupervisorInv /\ [Next]_vars => SupervisorInv'
<1> SUFFICES ASSUME SupervisorInv, [Next]_vars PROVE SupervisorInv'
  OBVIOUS
<1>1. CASE Next
  BY <1>1, MainCoordinates, WatcherCoordinates, EnvironmentCoordinates DEF Next
<1>2. CASE UNCHANGED vars
  <2>1. UNCHANGED <<leader, kids, call, mpc, wpc, process, restarts, misses, stopFlag, lastError, power>>
    BY <1>2 DEF vars, pvars, svars
  <2> QED
    BY <2>1 DEF SupervisorInv, TypeOKSupervisor, StopProgress, TypeOKProcess, LaunchesInOrder,
                OnlyCurrentLives, RelaunchPrepared, ThreadsAgree, Returned, Holds, Alive
<1> QED BY <1>1, <1>2

\* The inductive invariant: launches are made in order, nothing but the current one lives,
\* and a relaunch is prepared by a stop() that has killed the former group.
THEOREM SupervisorCoordinates == Spec => []SupervisorInv
  BY InitSupervisor, NextKeepsInv, PTL DEF Spec

\* The types hold, and the restarts never leave their budget.
THEOREM SupervisorTyped == Spec => []TypeOKSupervisor
<1>1. SupervisorInv => TypeOKSupervisor BY DEF SupervisorInv
<1> QED BY <1>1, SupervisorCoordinates, PTL

LEMMA OneBackend == SupervisorInv => ExclusiveBackend
  BY DEF SupervisorInv, OnlyCurrentLives, ExclusiveBackend, Holds, Alive

\* Whatever the budget and however its threads interleave, a launch never finds the server
\* of a former one alive, nor a child of it that SIGKILL has not reached.
THEOREM BackendIsExclusive == Spec => []ExclusiveBackend
  BY OneBackend, SupervisorCoordinates, PTL

\* A stop() that returned leaves no server alive, no child but killed ones and no cap it
\* could lift, unless the watcher has launched again behind its back.
THEOREM StopIsClean == Spec => []CleanStop
<1>1. SupervisorInv => CleanStop
  <2> SUFFICES ASSUME SupervisorInv, mpc = "stopped", call[Main].proc = process
               PROVE  (\A p \in Procs : ~Holds(p)) /\ power # "capped"
    BY DEF CleanStop
  <2>1. power # "capped" /\ call[Main].pc = "returned"
    BY DEF SupervisorInv, ThreadsAgree, Returned
  <2>2. ~Holds(process)
    BY <2>1, ThreadsAssumption DEF SupervisorInv, StopProgress
  <2>3. \A p \in Procs : ~Holds(p)
    BY <2>2 DEF SupervisorInv, OnlyCurrentLives
  <2> QED BY <2>1, <2>3
<1> QED BY <1>1, SupervisorCoordinates, PTL

-----------------------------------------------------------------------------
(* The lease.                                                              *)

LEMMA StartGrants ==
  ASSUME SupervisorInv, NEW p \in Procs, Start(p),
         \A q \in Procs : ~Holds(q),
         \A q \in Procs : leader[q] # "unborn" => q < p
  PROVE  L!Grant(p)
<1> DEFINE holders == {q \in Procs : Holds(q)}
           granted == {q \in Procs : leader[q] # "unborn"}
<1>1. leader \in [Procs -> LeaderState]
  BY DEF SupervisorInv, StopProgress, TypeOKProcess
<1>2. holders = {} /\ (\A g \in granted : g < p)
  OBVIOUS
<1>3. holders' = {p}
  BY <1>1 DEF Start, Holds, Alive
<1>4. granted' = granted \cup {p}
  BY <1>1 DEF Start
<1> QED BY <1>2, <1>3, <1>4 DEF L!Grant

\* A step that starts nothing and revives nothing leaves the lease alone or ends it.
LEMMA NoStartReleases ==
  ASSUME SupervisorInv,
         \A p \in Procs : /\ leader[p] = "unborn" <=> leader'[p] = "unborn"
                          /\ Holds(p)' => Holds(p)
  PROVE  [L!Next]_<<{p \in Procs : Holds(p)}, {p \in Procs : leader[p] # "unborn"}>>
<1> DEFINE holders == {q \in Procs : Holds(q)}
           granted == {q \in Procs : leader[q] # "unborn"}
<1>1. granted' = granted
  OBVIOUS
<1>2. \A p, q \in Procs : Holds(p) /\ Holds(q) => p = q
  BY OneBackend DEF ExclusiveBackend
<1>3. holders' = holders \/ (holders # {} /\ holders' = {})
  BY <1>2
<1>4. CASE holders' = holders
  BY <1>1, <1>4
<1>5. CASE holders # {} /\ holders' = {}
  BY <1>1, <1>5 DEF L!Next, L!Release
<1> QED BY <1>3, <1>4, <1>5

LEMMA QuietReleases ==
  ASSUME SupervisorInv, UNCHANGED <<leader, kids>>
  PROVE  [L!Next]_<<{p \in Procs : Holds(p)}, {p \in Procs : leader[p] # "unborn"}>>
  BY NoStartReleases DEF Holds, Alive

LEMMA StepLeases ==
  ASSUME SupervisorInv, [Next]_vars
  PROVE  [L!Next]_<<{p \in Procs : Holds(p)}, {p \in Procs : leader[p] # "unborn"}>>
<1> DEFINE Starting == StartLaunch \/ WatchLaunches
           Stepping == \E t \in Threads : StopStep(t)
           Quiet    == UNCHANGED <<leader, kids>>
<1>1. Starting \/ Stepping \/ EnvironmentStep \/ Quiet
  <2>1. ASSUME MainStep PROVE Starting \/ Stepping \/ Quiet
    BY <2>1, ThreadsAssumption
    DEF MainStep, StartReady, StartFailed, StartServing, StartLaunchRaises, StartNotReady,
        JoinWatcher, StopProcessReturned, StopProcessRaised, RestorePower, StopEnter, pvars
  <2>2. ASSUME WatcherStep PROVE Starting \/ Stepping \/ Quiet
    BY <2>2, ThreadsAssumption
    DEF WatcherStep, WatchStops, WatchProbes, ProbeHealthy, ProbeMisses, WatchWaits, WatchGivesUp,
        WatchRestarts, WatchReaped, WatchCrashes, WatchLaunchRaises, WatchReady, WatchNotReady,
        WatchLaunchFailed, StopEnter, pvars
  <2>3. ASSUME BeginStop \/ Exit \/ UNCHANGED vars PROVE Quiet
    BY <2>3 DEF BeginStop, Exit, vars, pvars
  <2> QED BY <2>1, <2>2, <2>3 DEF Next
<1>a. StopProgress /\ LaunchesInOrder /\ OnlyCurrentLives /\ RelaunchPrepared /\ ThreadsAgree
  BY DEF SupervisorInv
<1>2. CASE StartLaunch
  <2>1. 0 \in Procs /\ Start(0)
    BY <1>2, LaunchesAssumption, MaxRestartsAssumption DEF StartLaunch
  <2>2. \A q \in Procs : ~Holds(q) /\ leader[q] = "unborn"
    BY <1>2, <1>a DEF StartLaunch, ThreadsAgree, Holds, Alive, StopProgress
  <2> QED BY <2>1, <2>2, StartGrants DEF L!Next
<1>3. CASE WatchLaunches
  <2>1. restarts \in Procs /\ Start(restarts)
    BY <1>3, LaunchesAssumption DEF WatchLaunches, SupervisorInv, TypeOKSupervisor
  <2>2. \A q \in Procs : ~Holds(q)
    BY <1>3, <1>a DEF WatchLaunches, RelaunchPrepared, OnlyCurrentLives, Holds, Alive
  <2>3. \A q \in Procs : leader[q] # "unborn" => q < restarts
    BY <2>1, <1>a, LaunchesAssumption DEF Start, LaunchesInOrder
  <2> QED BY <2>1, <2>2, <2>3, StartGrants DEF L!Next
<1>4. CASE Stepping
  <2>1. \A p \in Procs : /\ leader[p] = "unborn" <=> leader'[p] = "unborn"
                         /\ Holds(p)' => Holds(p)
    BY <1>4, <1>a DEF StopStep, StopSawExit, StopGraceOver, StopStuck, StopReap, KillKids, Holds, Alive,
                      StopProgress, TypeOKProcess
  <2> QED BY <2>1, NoStartReleases
<1>5. CASE EnvironmentStep
  <2>1. PICK p \in Procs : Environment(p)
    BY <1>5 DEF EnvironmentStep
  <2>2. \A q \in Procs : /\ leader[q] = "unborn" <=> leader'[q] = "unborn"
                         /\ Holds(q)' => Holds(q)
    BY <2>1, <1>a DEF Environment, BecomeReady, Hang, Unhang, Fork, Die, KidsExit, Holds, Alive,
                      StopProgress, TypeOKProcess
  <2> QED BY <2>2, NoStartReleases
<1>6. CASE Quiet
  BY <1>6, QuietReleases
<1> QED BY <1>1, <1>2, <1>3, <1>4, <1>5, <1>6

\* The supervisor implements the lease: the GPU and the port go to one launch at a time, to
\* each launch once, and to a later launch only when the server of the former has ended and
\* its children are under SIGKILL.
THEOREM SupervisorLeases == Spec => ImplementsLease
<1>1. Init => L!Init
  BY DEF Init, InitProcess, L!Init, Holds, Alive
<1>2. SupervisorInv /\ [Next]_vars =>
        [L!Next]_<<{p \in Procs : Holds(p)}, {p \in Procs : leader[p] # "unborn"}>>
  BY StepLeases
<1> QED BY <1>1, <1>2, SupervisorCoordinates, PTL DEF Spec, ImplementsLease, L!Spec

-----------------------------------------------------------------------------
(* The end of the watch.                                                   *)

LEMMA NextKeepsReason ==
  ASSUME SupervisorInv, WatchReturnsWithReason, [Next]_vars
  PROVE  WatchReturnsWithReason'
<1> USE DEF WatchReturnsWithReason
<1>1. CASE MainStep \/ BeginStop \/ Exit \/ EnvironmentStep \/ UNCHANGED vars
  <2>1. wpc' \in {wpc, "wait"} /\ restarts' = restarts /\ lastError' = lastError
    BY <1>1
    DEF MainStep, StartLaunch, StartReady, StartFailed, StartServing, StartLaunchRaises, StartNotReady,
        JoinWatcher, StopProcessReturned, StopProcessRaised, RestorePower, BeginStop, Exit,
        EnvironmentStep, vars, svars
  <2>2. stopFlag => stopFlag'
    BY <1>1, Zenon
    DEF MainStep, StartLaunch, StartReady, StartFailed, StartServing, StartLaunchRaises, StartNotReady,
        JoinWatcher, StopProcessReturned, StopProcessRaised, RestorePower, BeginStop, Exit,
        EnvironmentStep, vars, svars
  <2> QED BY <2>1, <2>2
<1>2. CASE WatchStops
  BY <1>2 DEF WatchStops
<1>3. CASE WatchGivesUp
  BY <1>3, MaxRestartsAssumption DEF WatchGivesUp, SupervisorInv, TypeOKSupervisor
<1>4. CASE WatcherStep /\ ~WatchStops /\ ~WatchGivesUp
  <2>1. wpc' # "gone" \/ (wpc' = wpc /\ UNCHANGED svars)
    BY <1>4
    DEF WatcherStep, WatchProbes, ProbeHealthy, ProbeMisses, WatchWaits, WatchRestarts, WatchReaped,
        WatchCrashes, WatchLaunches, WatchLaunchRaises, WatchReady, WatchNotReady, WatchLaunchFailed,
        svars
  <2> QED BY <2>1 DEF svars
<1> QED BY <1>1, <1>2, <1>3, <1>4 DEF Next

\* The watcher returns only when it was told to stop, or when the whole budget is used up,
\* and then status() shows an error.
THEOREM WatchEndsForAReason == Spec => []WatchReturnsWithReason
<1>1. Init => WatchReturnsWithReason
  BY DEF Init, WatchReturnsWithReason
<1>2. SupervisorInv /\ WatchReturnsWithReason /\ [Next]_vars => WatchReturnsWithReason'
  BY NextKeepsReason
<1> QED BY <1>1, <1>2, SupervisorCoordinates, PTL DEF Spec
=============================================================================
