----------------------- MODULE DisaggSupervisorProofs -----------------------
(***************************************************************************)
(* The supervisor of a prefill/decode pair, for every restart budget.      *)
(*                                                                         *)
(* PairInv is the inductive invariant.  A launch that is over stays over,  *)
(* whatever the other thread and the engines do; the watcher makes a new   *)
(* one only when the pair in place is over, and every other launch was     *)
(* given up half-made or stopped.                                          *)
(***************************************************************************)
EXTENDS DisaggSupervisor, TLAPS

-----------------------------------------------------------------------------
(* The operations of a Process keep StopProgress, as for one backend.       *)

LEMMA InitProgress == InitProcess => StopProgress
  BY NoProcAssumption
  DEF InitProcess, StopProgress, TypeOKProcess, LeaderState, KidsState, StopPc

LEMMA UnchangedProgress == StopProgress /\ UNCHANGED pvars => StopProgress'
  BY DEF StopProgress, TypeOKProcess, Holds, Alive, pvars

\* What the server and its children do on their own leaves every call where it is.
LEMMA EnvironmentProgress ==
  ASSUME StopProgress, NEW p \in Procs, Environment(p)
  PROVE  StopProgress'
<1> USE DEF StopProgress, TypeOKProcess, LeaderState, KidsState, StopPc, Holds, Alive
<1>1. CASE BecomeReady(p) BY <1>1 DEF BecomeReady
<1>2. CASE Hang(p) BY <1>2 DEF Hang
<1>3. CASE Unhang(p) BY <1>3 DEF Unhang
<1>4. CASE Fork(p) BY <1>4 DEF Fork
<1>5. CASE Die(p) BY <1>5 DEF Die
<1>6. CASE KidsExit(p) BY <1>6 DEF KidsExit
<1> QED BY <1>1, <1>2, <1>3, <1>4, <1>5, <1>6 DEF Environment

LEMMA StopEnterProgress ==
  ASSUME StopProgress, NEW t \in Threads, NEW p \in Procs, StopEnter(t, p)
  PROVE  StopProgress'
  BY DEF StopProgress, TypeOKProcess, LeaderState, KidsState, StopPc, StopEnter, Holds, Alive

\* A step of one call never undoes what another call has reached: a leader that is dead
\* or doomed stays so, and to the children of a killed group none is added.
LEMMA StopStepProgress ==
  ASSUME StopProgress, NEW t \in Threads, StopStep(t)
  PROVE  StopProgress'
<1> USE DEF StopProgress, TypeOKProcess, LeaderState, KidsState, StopPc, Holds, Alive
<1>1. CASE StopSawExit(t) BY <1>1 DEF StopSawExit
<1>2. CASE StopGraceOver(t) BY <1>2 DEF StopGraceOver, KillKids
<1>3. CASE StopStuck(t) BY <1>3 DEF StopStuck
<1>4. CASE StopReap(t) BY <1>4 DEF StopReap, KillKids
<1> QED BY <1>1, <1>2, <1>3, <1>4 DEF StopStep

-----------------------------------------------------------------------------
(* The pair.                                                               *)

LEMMA InitPair == Init => PairInv
<1> SUFFICES ASSUME Init PROVE PairInv
  OBVIOUS
<1>1. StopProgress
  BY InitProgress DEF Init
<1>2. TypeOKPair
  <2>1. restarts \in Launches /\ misses \in 0..MissLimit /\ NoLaunch \in Launches \cup {NoLaunch}
    BY MaxRestartsAssumption DEF Init, MissLimit, Launches
  <2> QED BY <1>1, <2>1, Zenon DEF Init, TypeOKPair, StopProgress, MainPc, WatcherPc, SubPc
<1>3. \A k \in Launches : ~Whole(k)
  BY EnginesAssumption DEF Init, InitProcess, Whole, Role
<1>4. ThreadsAgree /\ \A t \in Threads : Inside(t)
  BY ThreadsAssumption DEF Init, ThreadsAgree, Inside
<1> QED BY <1>1, <1>2, <1>3, <1>4 DEF PairInv, PrefillFirst, FormerOver

-----------------------------------------------------------------------------
(* What becomes of the launches.                                           *)

\* No engine is started or revived.
NothingStarts ==
  \A p \in Procs : /\ leader[p] = "unborn" <=> leader'[p] = "unborn"
                   /\ Killed(p) => Killed(p)'

LEMMA LaunchesKept ==
  ASSUME NothingStarts
  PROVE  \A k \in Launches :
           /\ Whole(k)' <=> Whole(k)
           /\ Over(k) => Over(k)'
           /\ leader'[<<k, "prefill">>] = "unborn" <=> leader[<<k, "prefill">>] = "unborn"
           /\ Killed(<<k, "decode">>) => Killed(<<k, "decode">>)'
  BY EnginesAssumption DEF NothingStarts, Whole, Over, Role

LEMMA EnvironmentStartsNothing ==
  ASSUME StopProgress, NEW p \in Procs, Environment(p)
  PROVE  NothingStarts /\ call' = call
  BY DEF Environment, BecomeReady, Hang, Unhang, Fork, Die, KidsExit, Alive, NothingStarts, Killed,
         StopProgress, TypeOKProcess

LEMMA StopStepStartsNothing ==
  ASSUME StopProgress, NEW t \in Threads, StopStep(t)
  PROVE  /\ NothingStarts
         /\ \A u \in Threads : call'[u].proc = call[u].proc /\ (call'[u].pc = "idle" <=> call[u].pc = "idle")
  BY DEF StopStep, StopSawExit, StopGraceOver, StopStuck, StopReap, KillKids, Alive, NothingStarts, Killed,
         StopProgress, TypeOKProcess

LEMMA StopEnterStartsNothing ==
  ASSUME StopProgress, NEW t \in Threads, NEW p \in Procs, StopEnter(t, p)
  PROVE  /\ NothingStarts
         /\ call'[t].proc = p /\ call'[t].pc # "idle"
         /\ \A u \in Threads \ {t} : call'[u] = call[u]
  BY DEF StopEnter, NothingStarts, Killed, StopProgress, TypeOKProcess

\* A call of stop() that is over has killed its engine, whether it returned or raised.
LEMMA CallOverKills ==
  ASSUME StopProgress, NEW t \in Threads, CallOver(t)
  PROVE  Killed(call[t].proc)
  BY DEF StopProgress, CallOver, Killed, Holds, Alive, TypeOKProcess, LeaderState

-----------------------------------------------------------------------------
(* Steps that start nothing.                                               *)

LEMMA InsideKept ==
  ASSUME PairInv, NothingStarts, NEW t \in Threads, sub'[t] = sub[t], on'[t] = on[t],
         call'[t].proc = call[t].proc, call'[t].pc = "idle" <=> call[t].pc = "idle"
  PROVE  Inside(t)'
  BY LaunchesKept DEF PairInv, Inside

\* The threads stay where they are; one may have moved on inside its call.
LEMMA StayingKeeps ==
  ASSUME PairInv, StopProgress', NothingStarts, UNCHANGED <<pc, pair, router, restarts, misses, stopFlag, power>>,
         sub' \in [Threads -> SubPc], on' \in [Threads -> Launches \cup {NoLaunch}],
         \A t \in Threads : Inside(t)',
         \A t \in Threads : pc[t] \in {"launching", "reaping"} => on'[t] = on[t],
         sub[Main] = "stopped" => sub'[Main] = "stopped"
  PROVE  PairInv'
<1>1. TypeOKPair'
  BY DEF PairInv, TypeOKPair, StopProgress
<1>2. PrefillFirst'
  BY LaunchesKept DEF PairInv, PrefillFirst
<1>3. ThreadsAgree'
  BY LaunchesKept, ThreadsAssumption DEF PairInv, ThreadsAgree
<1>4. FormerOver'
  BY LaunchesKept DEF PairInv, FormerOver, Live
<1> QED BY <1>1, <1>2, <1>3, <1>4 DEF PairInv

LEMMA EnvironmentKeeps == ASSUME PairInv, EnvironmentStep PROVE PairInv'
<1>1. PICK p \in Procs : Environment(p) /\ UNCHANGED svars
  BY DEF EnvironmentStep
<1>2. StopProgress' /\ NothingStarts /\ call' = call
  BY <1>1, EnvironmentProgress, EnvironmentStartsNothing DEF PairInv
<1>3. \A t \in Threads : Inside(t)'
  BY <1>1, <1>2, InsideKept DEF svars
<1> QED BY <1>1, <1>2, <1>3, StayingKeeps DEF svars, PairInv, TypeOKPair

\* A step of a thread inside launch_pair() or PDProcesses.stop().
LEMMA PairStepKeeps == ASSUME PairInv, NEW t \in Threads, PairStep(t) PROVE PairInv'
<1>0. /\ StopProgress /\ Inside(t) /\ TypeOKPair
      /\ UNCHANGED <<pc, pair, router, restarts, misses, stopFlag, power>>
  BY DEF PairInv, PairStep
<1>1. CASE StopStep(t) /\ UNCHANGED <<sub, on>>
  <2>1. \A u \in Threads : Inside(u)'
    BY <1>0, <1>1, StopStepStartsNothing, InsideKept
  <2> QED BY <1>0, <1>1, <2>1, StopStepProgress, StopStepStartsNothing, StayingKeeps DEF TypeOKPair
<1>2. CASE PrefillReady(t) \/ DecodeReady(t) \/ PrefillStopped(t)
  <2>1. PICK s \in {"bootDecode", "ready", "stopped"} : sub' = [sub EXCEPT ![t] = s]
    BY <1>2 DEF PrefillReady, DecodeReady, PrefillStopped
  <2>2. UNCHANGED <<pvars, on>> /\ sub[t] \in {"bootPrefill", "bootDecode", "stopPrefill"}
    BY <1>2 DEF PrefillReady, DecodeReady, PrefillStopped
  <2>3. StopProgress' /\ NothingStarts /\ UNCHANGED <<leader, kids, call>>
    BY <1>0, <2>2, UnchangedProgress DEF NothingStarts, Killed, pvars
  <2>4. sub'[t] = s /\ \A u \in Threads \ {t} : sub'[u] = sub[u]
    BY <1>0, <2>1 DEF TypeOKPair
  <2>5. s = "stopped" => Over(on[t])
    <3> SUFFICES ASSUME s = "stopped" PROVE Over(on[t])
      OBVIOUS
    <3>1. PrefillStopped(t)
      BY <1>2, <2>4, <1>0 DEF PrefillReady, DecodeReady, TypeOKPair
    <3>2. Killed(<<on[t], "prefill">>) /\ Killed(<<on[t], "decode">>)
      BY <1>0, <3>1, CallOverKills DEF PrefillStopped, Inside
    <3> QED BY <3>2 DEF Over, Role
  <2>6. s # "stopped" => Whole(on[t])
    BY <1>0, <1>2, <2>4 DEF PrefillReady, DecodeReady, PrefillStopped, Inside, TypeOKPair
  <2>7. Inside(t)'
    BY <1>0, <2>2, <2>3, <2>4, <2>5, <2>6 DEF Inside, Over, Killed, Whole
  <2>8. \A u \in Threads \ {t} : Inside(u)'
    BY <2>2, <2>3, <2>4, InsideKept
  <2>9. sub' \in [Threads -> SubPc]
    BY <1>0, <2>1 DEF TypeOKPair, SubPc
  <2>10. sub[Main] = "stopped" => sub'[Main] = "stopped"
    BY <2>2, <2>4, ThreadsAssumption
  <2>11. \A u \in Threads : Inside(u)'
    BY <2>7, <2>8
  <2> QED BY <1>0, <2>2, <2>3, <2>9, <2>10, <2>11, StayingKeeps DEF TypeOKPair
<1>3. CASE NotReady(t) \/ DecodeStopped(t)
  <2>1. PICK s \in {"stopDecode", "stopPrefill"} :
          /\ sub' = [sub EXCEPT ![t] = s]
          /\ s = "stopDecode" => StopEnter(t, <<on[t], "decode">>)
          /\ s = "stopPrefill" => StopEnter(t, <<on[t], "prefill">>) /\ Killed(<<on[t], "decode">>)
    BY <1>0, <1>3, CallOverKills DEF NotReady, DecodeStopped, Inside
  <2>2. on' = on /\ sub[t] \in {"bootPrefill", "bootDecode", "stopDecode"} /\ on[t] \in Launches
    BY <1>0, <1>3 DEF NotReady, DecodeStopped, Inside
  <2>3. PICK p \in Procs : StopEnter(t, p) /\ (s = "stopDecode" => p = <<on[t], "decode">>)
                                           /\ (s = "stopPrefill" => p = <<on[t], "prefill">>)
    BY <2>1, <2>2, EnginesAssumption DEF Role
  <2>4. StopProgress' /\ NothingStarts
        /\ call'[t].proc = p /\ call'[t].pc # "idle" /\ \A u \in Threads \ {t} : call'[u] = call[u]
    BY <1>0, <2>3, StopEnterProgress, StopEnterStartsNothing
  <2>5. sub'[t] = s /\ \A u \in Threads \ {t} : sub'[u] = sub[u]
    BY <1>0, <2>1 DEF TypeOKPair
  <2>6. Inside(t)'
    BY <2>1, <2>2, <2>3, <2>4, <2>5, LaunchesKept DEF Inside
  <2>7. \A u \in Threads \ {t} : Inside(u)'
    BY <2>2, <2>4, <2>5, InsideKept
  <2>8. sub' \in [Threads -> SubPc]
    BY <1>0, <2>1 DEF TypeOKPair, SubPc
  <2>9. sub[Main] = "stopped" => sub'[Main] = "stopped"
    BY <2>2, <2>5, ThreadsAssumption
  <2>10. \A u \in Threads : Inside(u)'
    BY <2>6, <2>7
  <2> QED BY <1>0, <2>2, <2>4, <2>8, <2>9, <2>10, StayingKeeps DEF TypeOKPair
<1> QED BY <1>1, <1>2, <1>3 DEF PairStep

-----------------------------------------------------------------------------
(* A launch.                                                               *)

\* What a launch of number k by thread t leaves: the other launches as they were.
LEMMA LaunchStarts ==
  ASSUME PairInv, NEW t \in Threads, NEW k \in Launches, LaunchPair(t, k) \/ LaunchHalf(t, k)
  PROVE  /\ StopProgress' /\ PrefillFirst' /\ Inside(t)'
         /\ call' = call /\ kids' = kids
         /\ \A j \in Launches \ {k} :
              (Whole(j)' <=> Whole(j)) /\ (Over(j)' <=> Over(j)) /\ (Killed(<<j, "decode">>)' <=> Killed(<<j, "decode">>))
                /\ leader'[<<j, "prefill">>] = leader[<<j, "prefill">>]
         /\ ~Whole(k) /\ leader[<<k, "prefill">>] = "unborn"
         /\ sub' \in [Threads -> SubPc] /\ on' \in [Threads -> Launches \cup {NoLaunch}]
         /\ on'[t] = k /\ \A u \in Threads \ {t} : sub'[u] = sub[u] /\ on'[u] = on[u]
<1>0. StopProgress /\ TypeOKPair /\ PrefillFirst
  BY DEF PairInv
<1>1. \A r \in Role, j \in Launches : <<j, r>> \in Procs
  BY EnginesAssumption
<1>2. /\ call' = call /\ kids' = kids /\ leader' \in [Procs -> LeaderState]
      /\ \A p \in Procs : p[1] # k => leader'[p] = leader[p]
      /\ \A p \in Procs : leader'[p] # leader[p] => leader[p] = "unborn" /\ leader'[p] = "starting"
      /\ leader'[<<k, "prefill">>] = "starting"
      /\ leader[<<k, "prefill">>] = "unborn"
  <2>1. CASE LaunchPair(t, k)
    <3>1. \A p \in Procs : p[1] = k => leader[p] = "unborn"
      <4>1. \A p \in Procs : p[2] \in Role /\ p = <<p[1], p[2]>>
        BY EnginesAssumption
      <4> QED BY <2>1, <4>1 DEF LaunchPair
    <3>2. <<k, "prefill">> \in Procs /\ <<k, "prefill">>[1] = k
      BY <1>1 DEF Role
    <3> QED BY <1>0, <2>1, <3>1, <3>2 DEF LaunchPair, StopProgress, TypeOKProcess, LeaderState
  <2>2. CASE LaunchHalf(t, k)
    <3> DEFINE p0 == <<k, "prefill">>
    <3>1. p0 \in Procs /\ p0[1] = k
      BY <1>1 DEF Role
    <3>2. leader[p0] = "unborn" /\ leader' = [leader EXCEPT ![p0] = "starting"] /\ UNCHANGED <<kids, call>>
      BY <2>2, Zenon DEF LaunchHalf, Start
    <3>3. leader \in [Procs -> LeaderState] /\ "starting" \in LeaderState
      BY <1>0 DEF TypeOKPair, TypeOKProcess, LeaderState
    <3> HIDE DEF p0
    <3>4. /\ leader' \in [Procs -> LeaderState] /\ leader'[p0] = "starting"
          /\ \A p \in Procs : p # p0 => leader'[p] = leader[p]
      BY <3>1, <3>2, <3>3
    <3>5. leader'[<<k, "prefill">>] = "starting" /\ leader[<<k, "prefill">>] = "unborn"
      BY <3>2, <3>4 DEF p0
    <3> QED BY <3>1, <3>2, <3>4, <3>5
  <2> QED BY <2>1, <2>2
<1>3. ~Whole(k)
  BY <1>0, <1>2 DEF PrefillFirst
<1>4. StopProgress'
  BY <1>0, <1>2 DEF StopProgress, TypeOKProcess, LeaderState, Holds, Alive
<1>5. ASSUME NEW j \in Launches \ {k}
      PROVE  /\ Whole(j)' <=> Whole(j)
             /\ Over(j)' <=> Over(j)
             /\ Killed(<<j, "decode">>)' <=> Killed(<<j, "decode">>)
             /\ leader'[<<j, "prefill">>] = leader[<<j, "prefill">>]
  <2>1. \A r \in Role : leader'[<<j, r>>] = leader[<<j, r>>]
    BY <1>1, <1>2
  <2> QED BY <1>2, <2>1 DEF Whole, Over, Killed, Role
<1>6. PrefillFirst'
  BY <1>0, <1>2, <1>5 DEF PrefillFirst
<1>7. PICK s \in {"bootPrefill", "raised"} :
        /\ sub' = [sub EXCEPT ![t] = s] /\ on' = [on EXCEPT ![t] = k]
        /\ s = "bootPrefill" => leader'[<<k, "decode">>] = "starting"
        /\ s = "raised" => leader'[<<k, "decode">>] = leader[<<k, "decode">>]
  <2>1. <<k, "decode">> \in Procs /\ <<k, "decode">> # <<k, "prefill">>
    BY <1>1 DEF Role
  <2>2. CASE LaunchPair(t, k)
    BY <2>1, <2>2 DEF LaunchPair
  <2>3. CASE LaunchHalf(t, k)
    BY <1>0, <2>1, <2>3 DEF LaunchHalf, Start, TypeOKPair, TypeOKProcess
  <2> QED BY <2>2, <2>3
<1>8. /\ sub'[t] = s /\ on'[t] = k /\ sub' \in [Threads -> SubPc] /\ on' \in [Threads -> Launches \cup {NoLaunch}]
      /\ \A u \in Threads \ {t} : sub'[u] = sub[u] /\ on'[u] = on[u]
  BY <1>0, <1>7 DEF TypeOKPair, SubPc
<1>9. Inside(t)'
  BY <1>2, <1>3, <1>7, <1>8 DEF Inside, Whole
<1> QED BY <1>2, <1>3, <1>4, <1>5, <1>6, <1>8, <1>9

\* A thread that has nothing to do with launch k keeps its place.
LEMMA OthersStay ==
  ASSUME PairInv, NEW t \in Threads, NEW k \in Launches, LaunchPair(t, k) \/ LaunchHalf(t, k),
         NEW u \in Threads \ {t}
  PROVE  Inside(u)'
<1>1. Inside(u)
  BY DEF PairInv
<1>2. call' = call /\ sub'[u] = sub[u] /\ on'[u] = on[u]
  BY LaunchStarts
<1>3. CASE on[u] # k \/ sub[u] = "none"
  BY <1>1, <1>2, <1>3, LaunchStarts DEF Inside
<1>4. CASE on[u] = k /\ sub[u] # "none"
  <2>1. ~Whole(k) /\ leader[<<k, "prefill">>] = "unborn"
    BY LaunchStarts
  <2>2. sub[u] \notin {"bootPrefill", "bootDecode", "ready", "raised", "stopped"}
    BY <1>1, <1>4, <2>1 DEF Inside, Over, Killed, Role
  <2>3. sub[u] = "stopDecode" => Whole(k)
    BY <1>1, <1>4 DEF Inside, Whole, PairInv, StopProgress, TypeOKProcess
  <2>4. sub[u] = "stopPrefill" => leader[<<k, "prefill">>] # "unborn"
    BY <1>1, <1>4 DEF Inside, PairInv, StopProgress, TypeOKProcess
  <2>5. sub[u] \in SubPc
    BY DEF PairInv, TypeOKPair
  <2> QED BY <1>4, <2>1, <2>2, <2>3, <2>4, <2>5 DEF SubPc
<1> QED BY <1>3, <1>4

LEMMA LaunchKeeps ==
  ASSUME PairInv, StartLaunch \/ WatchLaunches
  PROVE  PairInv'
<1>1. PICK t \in Threads, k \in Launches :
        /\ LaunchPair(t, k) \/ LaunchHalf(t, k)
        /\ Goto(t, "launching")
        /\ UNCHANGED <<pair, router, restarts, misses, stopFlag, power>>
        /\ (t = Main /\ pc[Main] = "new") \/ (t = Watcher /\ pc[Watcher] = "backoff")
  <2>1. Main \in Threads /\ Watcher \in Threads /\ 0 \in Launches /\ restarts \in Launches
    BY ThreadsAssumption, MaxRestartsAssumption DEF PairInv, TypeOKPair, Launches
  <2>2. CASE StartLaunch
    BY <2>1, <2>2 DEF StartLaunch
  <2>3. CASE WatchLaunches
    BY <2>1, <2>3 DEF WatchLaunches
  <2> QED BY <2>2, <2>3
<1>2. StopProgress' /\ PrefillFirst' /\ \A u \in Threads : Inside(u)'
  <2>1. LaunchPair(t, k) \/ LaunchHalf(t, k)
    BY <1>1
  <2>2. StopProgress' /\ PrefillFirst' /\ Inside(t)'
    BY <2>1, LaunchStarts
  <2>3. \A u \in Threads \ {t} : Inside(u)'
    BY <2>1, OthersStay
  <2> QED BY <2>2, <2>3
<1>3. pc'[t] = "launching" /\ \A u \in Threads \ {t} : pc'[u] = pc[u]
  BY <1>1 DEF Goto, PairInv, TypeOKPair
<1>4. TypeOKPair'
  <2>1. TypeOKProcess'
    BY <1>2 DEF StopProgress
  <2>2. pc' \in [Threads -> MainPc \cup WatcherPc]
    BY <1>1 DEF Goto, PairInv, TypeOKPair, MainPc
  <2>3. sub' \in [Threads -> SubPc] /\ on' \in [Threads -> Launches \cup {NoLaunch}]
    BY <1>1, LaunchStarts
  <2> QED BY <1>1, <2>1, <2>2, <2>3 DEF PairInv, TypeOKPair
<1>5. pair # k
  <2>1. NoLaunch \notin Launches
    BY MaxRestartsAssumption DEF NoLaunch, Launches
  <2>2. ~Whole(k)
    BY <1>1, LaunchStarts
  <2>3. pair = NoLaunch \/ Whole(pair)
    BY <1>1, ThreadsAssumption DEF PairInv, ThreadsAgree
  <2> QED BY <2>1, <2>2, <2>3
<1>6. ThreadsAgree'
  <2>1. pair \in Launches => (Whole(pair)' <=> Whole(pair)) /\ (Over(pair)' <=> Over(pair))
    BY <1>1, <1>5, LaunchStarts
  <2>2. pair' = pair /\ power' = power
    BY <1>1
  <2>3. CASE t = Main
    <3>1. pc[Watcher] = "off" /\ pc'[Watcher] = "off" /\ pc'[Main] = "launching" /\ pair = NoLaunch
      BY <1>1, <1>3, <2>3, ThreadsAssumption DEF PairInv, ThreadsAgree
    <3> QED BY <2>2, <3>1 DEF ThreadsAgree
  <2>4. CASE t = Watcher
    <3>1. /\ pc[Watcher] = "backoff" /\ pc'[Watcher] = "launching" /\ pc'[Main] = pc[Main]
          /\ sub'[Main] = sub[Main]
      BY <1>1, <1>3, <2>4, LaunchStarts, ThreadsAssumption
    <3>2. pair \in Launches /\ Whole(pair) /\ Over(pair)
      BY <3>1 DEF PairInv, ThreadsAgree
    <3>3. Whole(pair)' /\ Over(pair)'
      BY <2>1, <2>2, <3>2 DEF Whole, Over, Killed
    <3> QED BY <2>2, <3>1, <3>2, <3>3 DEF PairInv, ThreadsAgree
  <2> QED BY <1>1, <2>3, <2>4
<1>7. FormerOver'
  <2> SUFFICES ASSUME NEW j \in Launches, Whole(j)', ~Live(j)' PROVE Over(j)'
    BY DEF FormerOver
  <2>1. j # k
    <3>1. on'[t] = k
      BY <1>1, LaunchStarts
    <3> QED BY <1>3, <3>1 DEF Live
  <2>2. Whole(j) /\ (Over(j)' <=> Over(j))
    BY <1>1, <2>1, LaunchStarts
  <2>3. pc[t] # "launching" /\ \A u \in Threads \ {t} : on'[u] = on[u]
    BY <1>1, LaunchStarts
  <2>4. ~Live(j)
    BY <1>1, <1>3, <2>3 DEF Live
  <2> QED BY <2>2, <2>4 DEF PairInv, FormerOver
<1> QED BY <1>2, <1>4, <1>6, <1>7 DEF PairInv

-----------------------------------------------------------------------------
(* A stop of the pair in place.                                            *)

LEMMA StopKeeps ==
  ASSUME PairInv, JoinWatcher \/ (pc[Main] # "exited" /\ WatchRestarts)
  PROVE  PairInv'
<1>1. PICK t \in Threads :
        /\ StopPair(t, pair)
        /\ UNCHANGED <<pair, router, misses, stopFlag, power>>
        /\ \/ t = Main /\ pc[t] = "joining" /\ Goto(t, "stopping") /\ restarts' = restarts
           \/ t = Watcher /\ pc[t] = "missed" /\ Goto(t, "reaping") /\ restarts < MaxRestarts /\ restarts' = restarts + 1
  BY ThreadsAssumption DEF JoinWatcher, WatchRestarts
<1>2. PICK p \in Procs : StopEnter(t, p) /\ pair \in Launches /\ Whole(pair) /\ p = <<pair, "decode">>
  <2>1. pair \in Launches /\ Whole(pair)
    BY <1>1, ThreadsAssumption DEF PairInv, ThreadsAgree
  <2> QED BY <1>1, <2>1, EnginesAssumption DEF StopPair, Role
<1>3. StopProgress' /\ NothingStarts
      /\ call'[t].proc = p /\ call'[t].pc # "idle" /\ \A u \in Threads \ {t} : call'[u] = call[u]
  BY <1>2, StopEnterProgress, StopEnterStartsNothing DEF PairInv
<1>4. /\ sub' = [sub EXCEPT ![t] = "stopDecode"] /\ on' = [on EXCEPT ![t] = pair]
      /\ sub'[t] = "stopDecode" /\ on'[t] = pair
      /\ \A u \in Threads \ {t} : sub'[u] = sub[u] /\ on'[u] = on[u]
  BY <1>1 DEF StopPair, PairInv, TypeOKPair
<1>5. \A u \in Threads : Inside(u)'
  <2>1. Inside(t)'
    BY <1>2, <1>3, <1>4 DEF Inside
  <2>2. \A u \in Threads \ {t} : Inside(u)'
    BY <1>3, <1>4, InsideKept
  <2> QED BY <2>1, <2>2
<1>6. restarts' \in Launches
  BY <1>1, MaxRestartsAssumption DEF PairInv, TypeOKPair, Launches
<1>7. TypeOKPair'
  BY <1>1, <1>2, <1>3, <1>4, <1>6 DEF Goto, PairInv, TypeOKPair, MainPc, WatcherPc, SubPc, StopProgress
<1>8. PrefillFirst'
  BY <1>3, LaunchesKept DEF PairInv, PrefillFirst
<1>9. /\ pc'[t] = (IF t = Main THEN "stopping" ELSE "reaping") /\ pc[t] # "launching" /\ pc[t] # "off"
      /\ \A u \in Threads \ {t} : pc'[u] = pc[u]
  BY <1>1, ThreadsAssumption DEF Goto, PairInv, TypeOKPair
<1>10. ThreadsAgree'
  <2>1. pair' = pair /\ power' = power /\ Whole(pair)' /\ (Over(pair) => Over(pair)')
    BY <1>1, <1>2, <1>3, LaunchesKept DEF Whole, Over, Killed
  <2>2. CASE t = Main
    BY <1>1, <1>2, <1>4, <1>9, <2>1, <2>2, ThreadsAssumption DEF PairInv, ThreadsAgree
  <2>3. CASE t = Watcher
    BY <1>1, <1>2, <1>4, <1>9, <2>1, <2>3, ThreadsAssumption DEF PairInv, ThreadsAgree
  <2> QED BY <1>1, <2>2, <2>3
<1>11. FormerOver'
  <2>1. \A k \in Launches : ~Live(k)' => ~Live(k)
    BY <1>1, <1>4, <1>9 DEF Live
  <2> QED BY <1>3, <2>1, LaunchesKept DEF PairInv, FormerOver
<1> QED BY <1>3, <1>5, <1>7, <1>8, <1>10, <1>11 DEF PairInv

-----------------------------------------------------------------------------
(* What the threads do between their launches and their stops.             *)

\* The engines, and who is inside which call, stay as they are.
LEMMA QuietKeeps ==
  ASSUME PairInv, UNCHANGED <<pvars, sub, on>>
  PROVE  /\ StopProgress' /\ PrefillFirst' /\ \A t \in Threads : Inside(t)'
         /\ \A k \in Launches : (Whole(k)' <=> Whole(k)) /\ (Over(k)' <=> Over(k))
<1>1. StopProgress'
  BY UnchangedProgress DEF PairInv
<1>2. UNCHANGED <<leader, kids, call>>
  BY DEF pvars
<1>3. NothingStarts
  BY <1>2 DEF NothingStarts, Killed
<1>4. \A t \in Threads : Inside(t)'
  BY <1>2, <1>3, InsideKept
<1> QED BY <1>1, <1>2, <1>4 DEF PrefillFirst, PairInv, Whole, Over, Killed

\* A thread moves on, the pair stays: a launch that is given up is over or half-made.
LEMMA MoveKeeps ==
  ASSUME PairInv, UNCHANGED <<pvars, sub, on, pair>>, NEW t \in Threads, NEW l, Goto(t, l),
         pc[t] = "launching" => sub[t] \in {"stopped", "raised"},
         l \in MainPc \cup WatcherPc, l # "launching",
         router' = router, restarts' = restarts, misses' \in 0..MissLimit, stopFlag' \in BOOLEAN,
         power' \in {"default", "capped", "stuck"},
         ThreadsAgree'
  PROVE  PairInv'
<1>1. TypeOKPair'
  BY QuietKeeps DEF Goto, PairInv, TypeOKPair, StopProgress
<1>2. pc'[t] = l /\ \A u \in Threads \ {t} : pc'[u] = pc[u]
  BY DEF Goto, PairInv, TypeOKPair
<1>3. FormerOver'
  <2> SUFFICES ASSUME NEW k \in Launches, Whole(k)', ~Live(k)' PROVE Over(k)'
    BY DEF FormerOver
  <2>1. CASE Live(k)
    <3>1. k = on[t] /\ sub[t] \in {"stopped", "raised"}
      BY <1>2, <2>1 DEF Live
    <3>2. Whole(on[t])
      BY <3>1, QuietKeeps
    <3> QED BY <3>1, <3>2, QuietKeeps DEF PairInv, Inside
  <2>2. CASE ~Live(k)
    BY <2>2, QuietKeeps DEF PairInv, FormerOver
  <2> QED BY <2>1, <2>2
<1> QED BY <1>1, <1>3, QuietKeeps DEF PairInv

LEMMA MainKeeps ==
  ASSUME PairInv, StartFailed \/ StopRestores \/ BeginStop \/ Exit
  PROVE  PairInv'
<1>1. PICK l \in {"failed", "stopped", "joining", "exited"} :
        /\ Goto(Main, l) /\ UNCHANGED <<pvars, sub, on, pair, router, restarts, misses>>
        /\ l = "failed" => pc[Main] = "launching" /\ sub[Main] \in {"stopped", "raised"} /\ power' = power
        /\ l = "stopped" => pc[Main] = "stopping" /\ sub[Main] = "stopped" /\ power' # "capped"
        /\ l = "joining" => pc[Main] \in {"running", "stopped"} /\ power' = power
        /\ l = "exited" => pc[Main] \in {"stopped", "failed"} /\ power' = power
        /\ power' \in {"default", "stuck", power}
  BY DEF StartFailed, StopRestores, BeginStop, Exit
<1>2. stopFlag' \in BOOLEAN
  BY Zenon DEF StartFailed, StopRestores, BeginStop, Exit, PairInv, TypeOKPair
<1>3. pc'[Main] = l /\ pc'[Watcher] = pc[Watcher]
  BY <1>1, ThreadsAssumption DEF Goto, PairInv, TypeOKPair
<1>4. ThreadsAgree'
  BY <1>1, <1>3, QuietKeeps DEF PairInv, ThreadsAgree
<1>5. power' \in {"default", "capped", "stuck"} /\ misses' \in 0..MissLimit
  BY <1>1 DEF PairInv, TypeOKPair
<1>6. l \in MainPc \cup WatcherPc /\ l # "launching" /\ Main \in Threads
  BY ThreadsAssumption DEF MainPc
<1>7. pc[Main] = "launching" => sub[Main] \in {"stopped", "raised"}
  BY <1>1
<1> QED BY <1>1, <1>2, <1>4, <1>5, <1>6, <1>7, MoveKeeps

LEMMA WatchKeeps ==
  ASSUME PairInv, WatchStops \/ WatchProbes \/ ProbeHealthy \/ ProbeMisses \/ WatchWaits \/ WatchGivesUp
                  \/ WatchReaped \/ WatchLaunchFailed
  PROVE  PairInv'
<1>1. PICK l \in {"gone", "probing", "wait", "missed", "backoff"} :
        /\ Goto(Watcher, l) /\ UNCHANGED <<pvars, sub, on, pair, router, restarts, stopFlag, power>>
        /\ pc[Watcher] = "launching" => sub[Watcher] \in {"stopped", "raised"}
        /\ pc[Watcher] # "off"
        /\ l = "backoff" => pc[Watcher] = "reaping" /\ sub[Watcher] = "stopped"
        /\ misses' \in {misses, 0} \/ (misses < MissLimit /\ misses' = misses + 1)
  BY DEF WatchStops, WatchProbes, ProbeHealthy, ProbeMisses, WatchWaits, WatchGivesUp, WatchReaped, WatchLaunchFailed
<1>2. pc'[Watcher] = l /\ pc'[Main] = pc[Main]
  BY <1>1, ThreadsAssumption DEF Goto, PairInv, TypeOKPair
<1>3. l = "backoff" => Over(pair)
  <2>1. pc[Watcher] = "reaping" => on[Watcher] = pair
    BY DEF PairInv, ThreadsAgree
  <2> QED BY <1>1, <2>1, ThreadsAssumption DEF PairInv, Inside
<1>4. ThreadsAgree'
  <2>1. pair \in Launches /\ Whole(pair) /\ pair' = pair /\ power' = power /\ sub' = sub
    BY <1>1 DEF PairInv, ThreadsAgree
  <2>2. Whole(pair)' /\ (Over(pair) => Over(pair)')
    BY <1>1, <2>1, QuietKeeps DEF Whole, Over, Killed
  <2> QED BY <1>1, <1>2, <1>3, <2>1, <2>2 DEF PairInv, ThreadsAgree
<1>5. misses' \in 0..MissLimit /\ stopFlag' \in BOOLEAN /\ power' \in {"default", "capped", "stuck"}
  <2>1. misses \in 0..MissLimit /\ stopFlag \in BOOLEAN /\ power \in {"default", "capped", "stuck"}
    BY DEF PairInv, TypeOKPair
  <2>2. misses' \in 0..MissLimit
    BY <1>1, <2>1 DEF MissLimit
  <2>3. stopFlag' = stopFlag /\ power' = power
    BY <1>1
  <2> QED BY <2>1, <2>2, <2>3, Zenon
<1>6. l \in MainPc \cup WatcherPc /\ l # "launching" /\ Watcher \in Threads
  BY ThreadsAssumption DEF WatcherPc
<1> QED BY <1>1, <1>4, <1>5, <1>6, MoveKeeps

\* A pair that is ready takes its place; the one before it was over.
LEMMA ReadyKeeps ==
  ASSUME PairInv, StartServing \/ WatchReady
  PROVE  PairInv'
<1>1. PICK t \in Threads :
        /\ pc[t] = "launching" /\ sub[t] = "ready" /\ pair' = on[t] /\ UNCHANGED <<pvars, sub, on, restarts, stopFlag>>
        /\ \/ t = Main /\ pc' = [pc EXCEPT ![Main] = "running", ![Watcher] = "wait"]
           \/ t = Watcher /\ pc' = [pc EXCEPT ![Watcher] = "wait"]
        /\ router' \in {router, on[t]} /\ misses' \in {misses, 0} /\ power' \in {power, "default", "capped"}
        /\ t = Watcher => power' = power
  BY ThreadsAssumption DEF StartServing, WatchReady, Goto
<1>2. on[t] \in Launches /\ Whole(on[t])
  BY <1>1 DEF PairInv, Inside
<1>3. /\ pc'[Watcher] = "wait" /\ pc'[Main] = IF t = Main THEN "running" ELSE pc[Main]
      /\ t = Main => pc[Watcher] = "off"
      /\ t = Watcher => pc[Main] \in {"running", "joining", "stopping", "stopped", "exited"}
  BY <1>1, ThreadsAssumption DEF PairInv, TypeOKPair, ThreadsAgree
<1>4. TypeOKPair'
  BY <1>1, <1>2, QuietKeeps DEF PairInv, TypeOKPair, MainPc, WatcherPc, StopProgress, MissLimit
<1>5. Whole(pair)'
  BY <1>1, <1>2 DEF pvars, Whole
<1>6. ThreadsAgree'
  BY <1>1, <1>2, <1>3, <1>5 DEF PairInv, ThreadsAgree
<1>7. FormerOver'
  <2> SUFFICES ASSUME NEW k \in Launches, Whole(k)', ~Live(k)' PROVE Over(k)'
    BY DEF FormerOver
  <2>1. k # on[t] /\ Whole(k)
    BY <1>1, QuietKeeps DEF Live
  <2>2. CASE k = pair
    <3>1. pc[Watcher] = "off" => pair = NoLaunch /\ NoLaunch \notin Launches
      BY MaxRestartsAssumption DEF PairInv, ThreadsAgree, NoLaunch, Launches
    <3>2. pc[Watcher] = "launching"
      BY <1>1, <1>3, <2>2, <3>1
    <3>3. Over(pair)
      BY <3>2 DEF PairInv, ThreadsAgree
    <3> QED BY <1>1, <2>2, <3>3, QuietKeeps
  <2>3. CASE k # pair
    <3>1. ~Live(k)
      BY <1>1, <1>3, <2>1, <2>3, ThreadsAssumption DEF Live
    <3> QED BY <1>1, <2>1, <3>1, QuietKeeps DEF PairInv, FormerOver
  <2> QED BY <2>2, <2>3
<1> QED BY <1>1, <1>4, <1>6, <1>7, QuietKeeps DEF PairInv

-----------------------------------------------------------------------------
(* The theorems.                                                           *)

\* What every state of the pair satisfies, whatever the budget and however its threads interleave:
\* a former launch is over, and the watcher makes a new one only when the pair in place is.
THEOREM PairCoordinates == Spec => []PairInv
<1>1. ASSUME PairInv, [Next]_vars PROVE PairInv'
  <2>1. CASE UNCHANGED vars
    <3>1. UNCHANGED <<pvars, sub, on, pc, pair, router, restarts, misses, stopFlag, power>>
      BY <2>1 DEF vars, svars
    <3>2. StopProgress' /\ \A t \in Threads : Inside(t)'
      BY <1>1, <3>1, QuietKeeps
    <3>3. NothingStarts
      BY <3>1 DEF NothingStarts, Killed, pvars
    <3>4. sub' \in [Threads -> SubPc] /\ on' \in [Threads -> Launches \cup {NoLaunch}]
      BY <1>1, <3>1 DEF PairInv, TypeOKPair
    <3> QED BY <1>1, <3>1, <3>2, <3>3, <3>4, StayingKeeps
  <2>2. CASE MainStep \/ BeginStop \/ Exit
    <3>1. CASE PairStep(Main)
      BY <1>1, <3>1, PairStepKeeps, ThreadsAssumption
    <3>2. CASE StartLaunch
      BY <1>1, <3>2, LaunchKeeps
    <3>3. CASE StartServing
      BY <1>1, <3>3, ReadyKeeps
    <3>4. CASE JoinWatcher
      BY <1>1, <3>4, StopKeeps
    <3>5. CASE StartFailed \/ StopRestores \/ BeginStop \/ Exit
      BY <1>1, <3>5, MainKeeps
    <3> QED BY <2>2, <3>1, <3>2, <3>3, <3>4, <3>5 DEF MainStep
  <2>3. CASE WatcherStep
    <3>1. CASE PairStep(Watcher)
      BY <1>1, <3>1, PairStepKeeps, ThreadsAssumption
    <3>2. CASE WatchLaunches
      BY <1>1, <3>2, LaunchKeeps
    <3>3. CASE WatchReady
      BY <1>1, <3>3, ReadyKeeps
    <3>4. CASE WatchRestarts
      BY <1>1, <2>3, <3>4, StopKeeps DEF WatcherStep, Runs
    <3>5. CASE \/ WatchStops \/ WatchProbes \/ ProbeHealthy \/ ProbeMisses \/ WatchWaits \/ WatchGivesUp
               \/ WatchReaped \/ WatchLaunchFailed
      BY <1>1, <3>5, WatchKeeps
    <3> QED BY <2>3, <3>1, <3>2, <3>3, <3>4, <3>5 DEF WatcherStep
  <2> QED BY <1>1, <2>1, <2>2, <2>3, EnvironmentKeeps DEF Next
<1> QED BY <1>1, InitPair, PTL DEF Spec

\* A whole launch of which not both engines are killed for good is the pair in place or the one
\* being made, and while one is being made the pair in place is over.
LEMMA OnePair ==
  ASSUME PairInv, NEW j \in Launches, NEW k \in Launches, Whole(j), Whole(k), ~Over(j), ~Over(k)
  PROVE  j = k
<1>1. Live(j) /\ Live(k)
  BY DEF PairInv, FormerOver
<1>2. pc[Main] = "launching" => pair = NoLaunch /\ pc[Watcher] # "launching" /\ NoLaunch \notin Launches
  BY MaxRestartsAssumption DEF PairInv, ThreadsAgree, NoLaunch, Launches
<1>3. pc[Watcher] = "launching" => Over(pair)
  BY DEF PairInv, ThreadsAgree
<1> QED BY <1>1, <1>2, <1>3, ThreadsAssumption DEF Live

\* No two launches of a pair work on the same GPU, but for a prefill engine whose decode engine
\* could not be started.
THEOREM PairIsExclusive == Spec => []ExclusivePair
<1>1. ASSUME PairInv, NEW j \in Launches, NEW k \in Launches, NEW r \in Role,
             Whole(j), Whole(k), Works(<<j, r>>), Works(<<k, r>>)
      PROVE  j = k
  <2>1. ~Over(j) /\ ~Over(k)
    BY <1>1 DEF Over, Killed, Works
  <2> QED BY <1>1, <2>1, OnePair
<1>2. PairInv => ExclusivePair
  BY <1>1 DEF ExclusivePair
<1> QED BY <1>2, PairCoordinates, PTL

\* A stop() that has returned after the watcher ended leaves no engine of a whole launch at work
\* and no cap it could lift, unless the watcher put another pair in place.
THEOREM PairStopIsClean == Spec => []CleanStop
<1>1. ASSUME PairInv, pc[Main] = "stopped", pc[Watcher] = "gone", on[Main] = pair
      PROVE  (\A k \in Launches, r \in Role : Whole(k) => ~Works(<<k, r>>)) /\ power # "capped"
  <2>1. power # "capped" /\ Over(pair)
    BY <1>1, ThreadsAssumption DEF PairInv, ThreadsAgree, Inside
  <2>2. \A k \in Launches : Live(k) => k = pair
    BY <1>1, ThreadsAssumption DEF Live
  <2>3. \A k \in Launches : Whole(k) => Over(k)
    BY <1>1, <2>1, <2>2 DEF PairInv, FormerOver
  <2> QED BY <2>1, <2>3 DEF Over, Killed, Works
<1>2. PairInv => CleanStop
  BY <1>1 DEF CleanStop
<1> QED BY <1>2, PairCoordinates, PTL
-----------------------------------------------------------------------------
(* The lease.                                                              *)

\* Every step but a launch starts no engine; the restarts are counted before a relaunch.
LEMMA OtherSteps ==
  ASSUME PairInv, [Next]_vars, ~StartLaunch, ~WatchLaunches
  PROVE  /\ NothingStarts
         /\ pc'[Main] = "new" => pc[Main] = "new"
         /\ \/ /\ restarts' = restarts
               /\ pc'[Watcher] \in {"reaping", "backoff"} => pc[Watcher] \in {"reaping", "backoff"}
            \/ restarts' = restarts + 1
<1>0. StopProgress /\ pc \in [Threads -> MainPc \cup WatcherPc] /\ Main # Watcher /\ Threads = {Main, Watcher}
  BY ThreadsAssumption DEF PairInv, TypeOKPair
<1>1. ASSUME UNCHANGED <<leader, kids>> PROVE NothingStarts
  BY <1>1 DEF NothingStarts, Killed
<1>2. ASSUME NEW t \in Threads, NEW p, StopEnter(t, p) PROVE UNCHANGED <<leader, kids>>
  BY <1>2 DEF StopEnter
<1>3. ASSUME NEW t \in Threads, PairStep(t) PROVE NothingStarts /\ UNCHANGED <<pc, restarts>>
  <2>1. CASE StopStep(t)
    BY <1>0, <1>3, <2>1, StopStepStartsNothing DEF PairStep
  <2>2. CASE PrefillReady(t) \/ DecodeReady(t) \/ PrefillStopped(t)
    BY <1>1, <1>3, <2>2 DEF PairStep, PrefillReady, DecodeReady, PrefillStopped, pvars
  <2>3. CASE NotReady(t) \/ DecodeStopped(t)
    BY <1>1, <1>2, <1>3, <2>3 DEF PairStep, NotReady, DecodeStopped
  <2> QED BY <1>3, <2>1, <2>2, <2>3 DEF PairStep
<1>4. CASE EnvironmentStep
  BY <1>0, <1>4, EnvironmentStartsNothing DEF EnvironmentStep, svars
<1>5. CASE PairStep(Main) \/ PairStep(Watcher)
  BY <1>0, <1>3, <1>5
<1>6. CASE StartServing \/ StartFailed \/ StopRestores \/ BeginStop \/ Exit \/ UNCHANGED vars
  BY <1>0, <1>1, <1>6
  DEF StartServing, StartFailed, StopRestores, BeginStop, Exit, Goto, vars, svars, pvars
<1>7. CASE JoinWatcher
  BY <1>0, <1>1, <1>2, <1>7 DEF JoinWatcher, StopPair, Goto
<1>8. CASE WatchStops \/ WatchProbes \/ ProbeHealthy \/ ProbeMisses \/ WatchWaits \/ WatchGivesUp
             \/ WatchReaped \/ WatchReady \/ WatchLaunchFailed
  BY <1>0, <1>1, <1>8
  DEF WatchStops, WatchProbes, ProbeHealthy, ProbeMisses, WatchWaits, WatchGivesUp, WatchReaped,
      WatchReady, WatchLaunchFailed, Goto, pvars
<1>9. CASE WatchRestarts
  BY <1>0, <1>1, <1>2, <1>9 DEF WatchRestarts, StopPair, Goto
<1> QED BY <1>4, <1>5, <1>6, <1>7, <1>8, <1>9 DEF Next, MainStep, WatcherStep

\* What a launch does to the lease: number k holds it if both engines were started.
LEMMA LaunchMakes ==
  ASSUME PairInv, StartLaunch \/ WatchLaunches
  PROVE  \E k \in Launches :
           /\ (pc[Main] = "new" /\ k = 0) \/ (pc[Watcher] = "backoff" /\ k = restarts)
           /\ ~Whole(k)
           /\ Whole(k)' => ~Over(k)'
           /\ \A j \in Launches \ {k} : (Whole(j)' <=> Whole(j)) /\ (Over(j)' <=> Over(j))
           /\ restarts' = restarts /\ pc'[Main] # "new" /\ pc'[Watcher] \notin {"reaping", "backoff"}
<1>1. PICK t \in Threads, k \in Launches :
        /\ LaunchPair(t, k) \/ LaunchHalf(t, k)
        /\ Goto(t, "launching") /\ restarts' = restarts
        /\ (t = Main /\ pc[Main] = "new" /\ k = 0) \/ (t = Watcher /\ pc[Watcher] = "backoff" /\ k = restarts)
  <2>1. Main \in Threads /\ Watcher \in Threads /\ 0 \in Launches /\ restarts \in Launches
    BY ThreadsAssumption, MaxRestartsAssumption DEF PairInv, TypeOKPair, Launches
  <2> QED BY <2>1 DEF StartLaunch, WatchLaunches
<1>2. ~Whole(k) /\ leader[<<k, "prefill">>] = "unborn"
      /\ \A j \in Launches \ {k} : (Whole(j)' <=> Whole(j)) /\ (Over(j)' <=> Over(j))
  BY <1>1, LaunchStarts
<1>3. PrefillFirst' /\ StopProgress'
  BY <1>1, LaunchStarts
<1>4. leader'[<<k, "prefill">>] \in {"unborn", "starting"}
  <2>1. <<k, "prefill">> \in Procs /\ leader \in [Procs -> LeaderState]
    BY EnginesAssumption DEF Role, PairInv, StopProgress, TypeOKProcess
  <2> QED BY <1>1, <1>2, <2>1 DEF LaunchPair, LaunchHalf, Start
<1>5. Whole(k)' => ~Over(k)'
  BY <1>3, <1>4 DEF PrefillFirst, Over, Killed, Role
<1>6. pc'[Main] # "new" /\ pc'[Watcher] \notin {"reaping", "backoff"}
  BY <1>1, ThreadsAssumption DEF Goto, PairInv, TypeOKPair, ThreadsAgree
<1> QED BY <1>1, <1>2, <1>5, <1>6

LEMMA InitInOrder == Init => LaunchesInOrder
  BY EnginesAssumption DEF Init, InitProcess, LaunchesInOrder, Whole, Role

LEMMA NextInOrder ==
  ASSUME PairInv, LaunchesInOrder, [Next]_vars
  PROVE  LaunchesInOrder'
<1>0. restarts \in Nat /\ \A k \in Launches : k \in Nat
  BY DEF PairInv, TypeOKPair, Launches
<1>1. CASE StartLaunch \/ WatchLaunches
  BY <1>0, <1>1, LaunchMakes DEF LaunchesInOrder
<1>2. CASE ~StartLaunch /\ ~WatchLaunches
  <2>1. \A k \in Launches : Whole(k)' <=> Whole(k)
    BY <1>2, OtherSteps, LaunchesKept
  <2> QED BY <1>0, <1>2, <2>1, OtherSteps DEF LaunchesInOrder
<1> QED BY <1>1, <1>2

\* An engine of a whole launch works unless it is killed for good.
LEMMA WorksUnlessOver ==
  ASSUME PairInv, NEW k \in Launches, Whole(k)
  PROVE  (\E r \in Role : Works(<<k, r>>)) <=> ~Over(k)
<1>1. \A r \in Role : leader[<<k, r>>] \in LeaderState /\ leader[<<k, r>>] # "unborn"
  BY EnginesAssumption DEF PairInv, StopProgress, TypeOKProcess, PrefillFirst, Whole, Role
<1> QED BY <1>1 DEF Works, Over, Killed, LeaderState

Held == {k \in Launches : Whole(k) /\ ~Over(k)}
Made == {k \in Launches : Whole(k)}

LEMMA HoldersWork ==
  PairInv => {k \in Launches : Whole(k) /\ \E r \in Role : Works(<<k, r>>)} = Held
  BY WorksUnlessOver DEF Held

\* A step moves the launches at work and the launches made as the lease allows.
LEMMA StepHolds ==
  ASSUME PairInv, LaunchesInOrder, [Next]_vars
  PROVE  \/ Held' = Held /\ Made' = Made
         \/ Held # {} /\ Held' = {} /\ Made' = Made
         \/ \E k \in Launches : /\ Held = {} /\ \A g \in Made : g < k
                                /\ Held' = {k} /\ Made' = Made \cup {k}
<1> USE DEF Held, Made
<1>1. CASE StartLaunch \/ WatchLaunches
  <2>1. PICK k \in Launches :
           /\ (pc[Main] = "new" /\ k = 0) \/ (pc[Watcher] = "backoff" /\ k = restarts)
           /\ ~Whole(k)
           /\ Whole(k)' => ~Over(k)'
           /\ \A j \in Launches \ {k} : (Whole(j)' <=> Whole(j)) /\ (Over(j)' <=> Over(j))
    BY <1>1, LaunchMakes
  <2>2. Held = {} /\ \A g \in Made : g < k
    <3>1. CASE pc[Main] = "new"
      BY <3>1 DEF LaunchesInOrder
    <3>2. CASE pc[Watcher] = "backoff" /\ k = restarts
      <4>1. Over(pair) /\ \A t \in Threads : pc[t] # "launching"
        BY <3>2, ThreadsAssumption DEF PairInv, ThreadsAgree
      <4>2. \A j \in Launches : Whole(j) => Over(j)
        BY <4>1 DEF PairInv, FormerOver, Live
      <4> QED BY <3>2, <4>2 DEF LaunchesInOrder
    <3> QED BY <2>1, <3>1, <3>2
  <2>3. CASE Whole(k)'
    <3>1. Held' = {k}
      BY <2>1, <2>2, <2>3
    <3>2. Made' = Made \cup {k}
      BY <2>1, <2>3
    <3> QED BY <2>2, <3>1, <3>2
  <2>4. CASE ~Whole(k)'
    <3>1. Held' = Held
      BY <2>1, <2>4
    <3>2. Made' = Made
      BY <2>1, <2>4
    <3> QED BY <3>1, <3>2
  <2> QED BY <2>3, <2>4
<1>2. CASE ~StartLaunch /\ ~WatchLaunches
  <2>1. \A k \in Launches : (Whole(k)' <=> Whole(k)) /\ (Over(k) => Over(k)')
    BY <1>2, OtherSteps, LaunchesKept
  <2>2. \A j, k \in Held : j = k
    BY OnePair
  <2>3. Made' = Made /\ Held' \subseteq Held
    BY <2>1
  <2> QED BY <2>2, <2>3
<1> QED BY <1>1, <1>2

LEMMA StepLeases ==
  ASSUME PairInv, PairInv', LaunchesInOrder, [Next]_vars
  PROVE  [L!Next]_<<{k \in Launches : Whole(k) /\ \E r \in Role : Works(<<k, r>>)},
                    {k \in Launches : Whole(k)}>>
<1> DEFINE holders == {k \in Launches : Whole(k) /\ \E r \in Role : Works(<<k, r>>)}
<1>1. holders = Held
  BY HoldersWork
<1>2. holders' = Held'
  <2>1. (PairInv => holders = Held)'
    BY HoldersWork, PTL
  <2> QED BY <2>1
<1>3. \/ Held' = Held /\ Made' = Made
      \/ Held # {} /\ Held' = {} /\ Made' = Made
      \/ \E k \in Launches : /\ Held = {} /\ \A g \in Made : g < k
                             /\ Held' = {k} /\ Made' = Made \cup {k}
  BY StepHolds
<1> HIDE DEF holders
<1>4. [L!Next]_<<holders, Made>>
  BY <1>1, <1>2, <1>3 DEF L!Next, L!Grant, L!Release, holders, Made
<1> QED BY <1>4 DEF holders, Made

\* A pair's supervisor implements the lease of its two GPUs: they go to one whole launch at a
\* time, to each launch once, and to a later one only when both engines of the former are over.
THEOREM PairLeases == Spec => ImplementsLease
<1>1. Init => L!Init
  BY EnginesAssumption DEF Init, InitProcess, L!Init, Whole, Role
<1>2. PairInv /\ PairInv' /\ LaunchesInOrder /\ [Next]_vars =>
        [L!Next]_<<{k \in Launches : Whole(k) /\ \E r \in Role : Works(<<k, r>>)},
                   {k \in Launches : Whole(k)}>>
  BY StepLeases
<1>3. PairInv /\ LaunchesInOrder /\ [Next]_vars => LaunchesInOrder'
  BY NextInOrder
<1> QED BY <1>1, <1>2, <1>3, InitInOrder, PairCoordinates, PTL DEF Spec, ImplementsLease, L!Spec
=============================================================================
