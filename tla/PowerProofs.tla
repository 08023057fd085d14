----------------------------- MODULE PowerProofs -----------------------------
(***************************************************************************)
(* The restore file and the device, for any number of runs that share a    *)
(* GPU one after the other and any number of settings each.                *)
(*                                                                         *)
(* PowerInv is the inductive invariant.  Its parts are proved one after    *)
(* the other, each over the actions that can disturb it.                   *)
(***************************************************************************)
EXTENDS Power, TLAPS, FiniteSetTheorems

-----------------------------------------------------------------------------
(* One run at a time.                                                      *)

\* With one place, a run begins only when no other is alive.
LEMMA BeginAlone ==
  ASSUME OneAtATime, Cardinality(Live) < MaxLive
  PROVE  Live = {}
<1>1. IsFiniteSet(Live)
  BY RunsAssumption, FS_Subset DEF Live
<1>2. Cardinality(Live) \in Nat /\ Cardinality(Live) < 1
  BY <1>1, FS_CardinalityType DEF OneAtATime
<1>3. Cardinality(Live) = 0
  BY <1>2
<1> QED BY <1>1, <1>3, FS_EmptySet

LEMMA TypeStep == ASSUME TypeOKPower, [Next]_vars PROVE TypeOKPower'
<1> USE GpuOfAssumption, StretchesAssumption
          DEF TypeOKPower, device, controller, Limit, Setting, NoFile, None, InApply, InRestore
<1>1. CASE UNCHANGED vars
  BY <1>1, Zenon DEF vars
<1>2. ASSUME NEW r \in Runs, Begin(r) PROVE TypeOKPower'
  BY <1>2 DEF Begin
<1>3. ASSUME NEW r \in Runs, NEW s \in Setting, ApplyBegin(r, s) PROVE TypeOKPower'
  BY <1>3 DEF ApplyBegin, Remember, FileIsMine
<1>4. ASSUME NEW r \in Runs, ApplyLimit(r) PROVE TypeOKPower'
  BY <1>4 DEF ApplyLimit, NewLimit, Limits
<1>5. ASSUME NEW r \in Runs, ApplyClock(r) PROVE TypeOKPower'
  BY <1>5 DEF ApplyClock, CallsClock, Clocks
<1>6. ASSUME NEW r \in Runs, ApplyRefused(r) PROVE TypeOKPower'
  BY <1>6 DEF ApplyRefused
<1>7. ASSUME NEW r \in Runs, RestoreBegin(r) PROVE TypeOKPower'
  BY <1>7 DEF RestoreBegin, RestoreFrom
<1>8. ASSUME NEW r \in Runs, Leave(r) PROVE TypeOKPower'
  <2>1. CASE RestoreFrom(r, TRUE)
    BY <2>1 DEF RestoreFrom
  <2>2. CASE pc' = [pc EXCEPT ![r] = "exited"] /\ UNCHANGED <<device, controller, crashed, refused>>
    BY <2>2
  <2> QED BY <1>8, <2>1, <2>2 DEF Leave
<1>9. ASSUME NEW r \in Runs, RestoreLimit(r) PROVE TypeOKPower'
  BY <1>9 DEF RestoreLimit, Limits
<1>10. ASSUME NEW r \in Runs, RestoreClock(r) PROVE TypeOKPower'
  BY <1>10 DEF RestoreClock, Clocks
<1>11. ASSUME NEW r \in Runs, RestoreDone(r) PROVE TypeOKPower'
  BY <1>11 DEF RestoreDone
<1>12. ASSUME NEW r \in Runs, TermInside(r) PROVE TypeOKPower'
  BY <1>12 DEF TermInside
<1>13. ASSUME NEW r \in Runs, Kill(r) PROVE TypeOKPower'
  BY <1>13 DEF Kill
<1>14. ASSUME NEW g \in GPUs, Reset(g) PROVE TypeOKPower'
  BY <1>14 DEF Reset
<1> QED BY <1>1, <1>2, <1>3, <1>4, <1>5, <1>6, <1>7, <1>8, <1>9, <1>10, <1>11, <1>12, <1>13, <1>14
        DEF Next, RunStep

\* A step adds nobody to the live runs, but for one that begins while there is none.
LEMMA LiveStep ==
  ASSUME OneAtATime, TypeOKPower, [Next]_vars
  PROVE  \/ Live' \subseteq Live
         \/ Live = {} /\ \E r \in Runs : Live' = {r}
<1> USE DEF TypeOKPower, Live, InApply, InRestore
<1>1. CASE UNCHANGED vars
  BY <1>1, Zenon DEF vars
<1>2. ASSUME NEW r \in Runs, Begin(r) PROVE Live = {} /\ Live' = {r}
  BY <1>2, BeginAlone DEF Begin
<1>3. ASSUME NEW r \in Runs, NEW s \in Setting, ApplyBegin(r, s) PROVE Live' \subseteq Live
  BY <1>3 DEF ApplyBegin
<1>4. ASSUME NEW r \in Runs, ApplyLimit(r) \/ ApplyClock(r) \/ ApplyRefused(r) PROVE Live' \subseteq Live
  BY <1>4 DEF ApplyLimit, ApplyClock, ApplyRefused
<1>5. ASSUME NEW r \in Runs, RestoreBegin(r) \/ Leave(r) PROVE Live' \subseteq Live
  BY <1>5 DEF RestoreBegin, Leave, RestoreFrom
<1>6. ASSUME NEW r \in Runs, RestoreLimit(r) \/ RestoreClock(r) \/ RestoreDone(r) PROVE Live' \subseteq Live
  BY <1>6 DEF RestoreLimit, RestoreClock, RestoreDone
<1>7. ASSUME NEW r \in Runs, TermInside(r) \/ Kill(r) PROVE Live' \subseteq Live
  BY <1>7 DEF TermInside, Kill
<1>8. ASSUME NEW g \in GPUs, Reset(g) PROVE Live' \subseteq Live
  BY <1>8 DEF Reset
<1> HIDE DEF TypeOKPower, Live, InApply, InRestore
<1> QED BY <1>1, <1>2, <1>3, <1>4, <1>5, <1>6, <1>7, <1>8 DEF Next, RunStep

LEMMA NoOverlapStep ==
  ASSUME OneAtATime, TypeOKPower, NoOverlap, [Next]_vars
  PROVE  NoOverlap'
<1>1. CASE Live' \subseteq Live
  BY <1>1 DEF NoOverlap
<1>2. CASE \E r \in Runs : Live' = {r}
  BY <1>2 DEF NoOverlap
<1> QED BY <1>1, <1>2, LiveStep

-----------------------------------------------------------------------------
(* What a controller knows, and which GPU is recorded.                     *)

LEMMA KnowsStep ==
  ASSUME TypeOKPower, Knows, [Next]_vars
  PROVE  Knows'
<1> USE GpuOfAssumption, StretchesAssumption
          DEF TypeOKPower, Knows, device, controller, Limit, Setting, NoFile, None, InApply, InRestore
<1>1. CASE UNCHANGED vars
  BY <1>1, Zenon DEF vars
<1>2. ASSUME NEW r \in Runs, Begin(r) PROVE Knows'
  BY <1>2 DEF Begin
<1>3. ASSUME NEW r \in Runs, NEW s \in Setting, ApplyBegin(r, s) PROVE Knows'
  <2>1. orig'[r] # None /\ \A q \in Runs \ {r} : orig'[q] = orig[q]
    BY <1>3 DEF ApplyBegin, Remember, FileIsMine
  <2>2. stretches'[r] # 0 /\ \A q \in Runs \ {r} : stretches'[q] = stretches[q]
    BY <1>3 DEF ApplyBegin
  <2>3. /\ hooks'[r] /\ target'[r] # None /\ pc'[r] = "applyLimit"
        /\ \A q \in Runs \ {r} : hooks'[q] = hooks[q] /\ target'[q] = target[q] /\ pc'[q] = pc[q]
    BY <1>3 DEF ApplyBegin
  <2>4. applied' = applied /\ locked' = locked
    BY <1>3 DEF ApplyBegin
  <2>5. hooks'[r] = (orig'[r] # None)
    BY <2>1, <2>3
  <2>6. \A q \in Runs \ {r} : hooks'[q] = (orig'[q] # None)
    BY <2>1, <2>3
  <2> QED BY <2>1, <2>2, <2>3, <2>4, <2>5, <2>6
<1>4. ASSUME NEW r \in Runs, ApplyLimit(r) PROVE Knows'
  BY <1>4 DEF ApplyLimit
<1>5. ASSUME NEW r \in Runs, ApplyClock(r) PROVE Knows'
  BY <1>5 DEF ApplyClock, CallsClock, Clocks
<1>6. ASSUME NEW r \in Runs, ApplyRefused(r) PROVE Knows'
  BY <1>6 DEF ApplyRefused
<1>7. ASSUME NEW r \in Runs, RestoreBegin(r) PROVE Knows'
  BY <1>7 DEF RestoreBegin, RestoreFrom
<1>8. ASSUME NEW r \in Runs, Leave(r) PROVE Knows'
  BY <1>8 DEF Leave, RestoreFrom, NothingToUndo
<1>9. ASSUME NEW r \in Runs, RestoreLimit(r) PROVE Knows'
  BY <1>9 DEF RestoreLimit
<1>10. ASSUME NEW r \in Runs, RestoreClock(r) PROVE Knows'
  BY <1>10 DEF RestoreClock
<1>11. ASSUME NEW r \in Runs, RestoreDone(r) PROVE Knows'
  BY <1>11 DEF RestoreDone
<1>12. ASSUME NEW r \in Runs, TermInside(r) PROVE Knows'
  BY <1>12 DEF TermInside
<1>13. ASSUME NEW r \in Runs, Kill(r) PROVE Knows'
  BY <1>13 DEF Kill
<1>14. ASSUME NEW g \in GPUs, Reset(g) PROVE Knows'
  BY <1>14 DEF Reset
<1> HIDE DEF TypeOKPower, Knows
<1> QED BY <1>1, <1>2, <1>3, <1>4, <1>5, <1>6, <1>7, <1>8, <1>9, <1>10, <1>11, <1>12, <1>13, <1>14
        DEF Next, RunStep

LEMMA SharedStep ==
  ASSUME OneAtATime, TypeOKPower, SharedGpu, [Next]_vars
  PROVE  SharedGpu'
<1> USE GpuOfAssumption DEF OneAtATime, TypeOKPower, SharedGpu, device, Limit, NoFile, None
<1>1. CASE UNCHANGED device
  BY <1>1, Zenon DEF device
<1>2. ASSUME NEW r \in Runs, NEW s \in Setting, ApplyBegin(r, s) PROVE SharedGpu'
  BY <1>2 DEF ApplyBegin, Remember, FileIsMine
<1>3. ASSUME NEW r \in Runs, ApplyLimit(r) PROVE SharedGpu'
  BY <1>3 DEF ApplyLimit, Limits
<1>4. ASSUME NEW r \in Runs, ApplyClock(r) PROVE SharedGpu'
  BY <1>4 DEF ApplyClock, Clocks
<1>5. ASSUME NEW r \in Runs, RestoreLimit(r) PROVE SharedGpu'
  BY <1>5 DEF RestoreLimit, Limits
<1>6. ASSUME NEW r \in Runs, RestoreClock(r) PROVE SharedGpu'
  BY <1>6 DEF RestoreClock, Clocks
<1>7. ASSUME NEW r \in Runs, RestoreDone(r) PROVE SharedGpu'
  BY <1>7 DEF RestoreDone
<1>8. ASSUME NEW g \in GPUs, Reset(g) PROVE SharedGpu'
  BY <1>8 DEF Reset
<1> HIDE DEF OneAtATime, TypeOKPower, SharedGpu, device
<1>9. ASSUME NEW r \in Runs, Begin(r) \/ ApplyRefused(r) \/ RestoreBegin(r) \/ Leave(r) \/ TermInside(r) \/ Kill(r)
      PROVE  UNCHANGED device
  BY <1>9, Zenon DEF Begin, ApplyRefused, RestoreBegin, Leave, RestoreFrom, TermInside, Kill
<1> QED BY <1>1, <1>2, <1>3, <1>4, <1>5, <1>6, <1>7, <1>8, <1>9 DEF Next, RunStep, vars

-----------------------------------------------------------------------------
(* The file behind the settings of runs of one stretch each.               *)

\* What FileBehind says of such runs.
FileKept ==
  /\ RecordedBeforeChanged
  /\ file.limit # "cap"
  /\ \A r \in Runs : orig[r] # "cap"
  /\ \A r \in Live :
       /\ applied[r] # None \/ pc[r] \in InApply => file = [gpu |-> GpuOf[r], limit |-> "full"]
       /\ pc[r] \in {"restoreClock", "restoreDone"} /\ ~errors[r] => limit[GpuOf[r]] = "full"

\* A run that begins to apply a setting finds the limit it has to give back: in the file of
\* a run that died, or on a device that nobody has changed.
LEMMA FileApplyBegin ==
  ASSUME OneAtATime, TypeOKPower, NoOverlap, Knows, SharedGpu, FileKept, OneStretchEach',
         NEW r \in Runs, NEW s \in Setting, ApplyBegin(r, s)
  PROVE  FileKept'
<1> USE GpuOfAssumption, StretchesAssumption DEF OneAtATime, TypeOKPower, Limit, Setting, NoFile, None, InApply, InRestore
<1> DEFINE mine == [gpu |-> GpuOf[r], limit |-> "full"]
<1>1. r \in Live /\ Live' = Live /\ \A q \in Live : q = r
  BY DEF ApplyBegin, Live, NoOverlap
<1>2. stretches'[r] <= 1
  BY DEF OneStretchEach
<1>3. applied[r] = None => orig[r] = None
  BY <1>2 DEF ApplyBegin, Knows
<1>4. orig[r] = None /\ FileIsMine(r) => file = mine
  BY DEF FileIsMine, FileKept
<1>5. orig[r] = None /\ ~FileIsMine(r) => limit[GpuOf[r]] = "full"
  BY DEF FileIsMine, FileKept, RecordedBeforeChanged
<1>6. orig[r] # None => file = mine
  BY <1>1, <1>3 DEF FileKept
<1>7. file' = mine /\ orig'[r] # "cap" /\ \A q \in Runs \ {r} : orig'[q] = orig[q]
  BY <1>4, <1>5, <1>6 DEF ApplyBegin, Remember, FileIsMine, FileKept
<1>8. \A g \in GPUs : limit'[g] = "cap" => file' = [gpu |-> g, limit |-> "full"]
  BY <1>7 DEF ApplyBegin, SharedGpu
<1> QED BY <1>1, <1>7, <1>8 DEF FileKept, RecordedBeforeChanged, ApplyBegin

\* A run of one stretch has had no more before.
LEMMA StretchesGrow ==
  ASSUME TypeOKPower, [Next]_vars, OneStretchEach'
  PROVE  OneStretchEach
<1>1. CASE UNCHANGED stretches
  BY <1>1 DEF OneStretchEach
<1>2. ASSUME NEW r \in Runs, NEW s \in Setting, ApplyBegin(r, s) PROVE OneStretchEach
  BY <1>2, StretchesAssumption DEF ApplyBegin, TypeOKPower, OneStretchEach
<1>3. ASSUME NEW r \in Runs, \/ Begin(r) \/ ApplyLimit(r) \/ ApplyClock(r) \/ ApplyRefused(r)
                             \/ RestoreBegin(r) \/ Leave(r) \/ RestoreLimit(r) \/ RestoreClock(r)
                             \/ RestoreDone(r) \/ TermInside(r) \/ Kill(r)
      PROVE  UNCHANGED stretches
  BY <1>3, Zenon DEF Begin, ApplyLimit, ApplyClock, ApplyRefused, RestoreBegin, Leave, RestoreFrom, RestoreLimit,
                     RestoreClock, RestoreDone, TermInside, Kill, controller
<1>4. ASSUME NEW g \in GPUs, Reset(g) PROVE UNCHANGED stretches
  BY <1>4, Zenon DEF Reset, controller
<1> QED BY <1>1, <1>2, <1>3, <1>4 DEF Next, RunStep, vars, controller

LEMMA FileBehindStep ==
  ASSUME OneAtATime, TypeOKPower, NoOverlap, Knows, SharedGpu, FileBehind, [Next]_vars
  PROVE  FileBehind'
<1> SUFFICES ASSUME OneStretchEach' PROVE FileKept'
  BY DEF FileBehind, FileKept
<1>0. OneStretchEach /\ FileKept
  BY StretchesGrow DEF FileBehind, FileKept
<1> USE GpuOfAssumption DEF OneAtATime, TypeOKPower, Limit, Setting, NoFile, None, InApply, InRestore
<1>1. CASE UNCHANGED vars
  BY <1>0, <1>1 DEF vars, device, controller, FileKept, RecordedBeforeChanged, Live
<1>2. ASSUME NEW r \in Runs, Begin(r) PROVE FileKept'
  BY <1>0, <1>2 DEF Begin, FileKept, RecordedBeforeChanged, Live, Knows, device, controller
<1>3. ASSUME NEW r \in Runs, NEW s \in Setting, ApplyBegin(r, s) PROVE FileKept'
  BY <1>0, <1>3, FileApplyBegin
<1>4. ASSUME NEW r \in Runs, ApplyLimit(r) PROVE FileKept'
  BY <1>0, <1>4 DEF ApplyLimit, NewLimit, Limits, FileKept, RecordedBeforeChanged, Live, NoOverlap, controller
<1>5. ASSUME NEW r \in Runs, ApplyClock(r) PROVE FileKept'
  BY <1>0, <1>5 DEF ApplyClock, FileKept, RecordedBeforeChanged, Live, NoOverlap
<1>6. ASSUME NEW r \in Runs, ApplyRefused(r) PROVE FileKept'
  BY <1>0, <1>6 DEF ApplyRefused, FileKept, RecordedBeforeChanged, Live, NoOverlap, device, controller
<1>7. ASSUME NEW r \in Runs, RestoreBegin(r) PROVE FileKept'
  BY <1>0, <1>7 DEF RestoreBegin, RestoreFrom, FileKept, RecordedBeforeChanged, Live, device
<1>8. ASSUME NEW r \in Runs, Leave(r) PROVE FileKept'
  BY <1>0, <1>8 DEF Leave, RestoreFrom, FileKept, RecordedBeforeChanged, Live, device, controller
<1>9. ASSUME NEW r \in Runs, RestoreLimit(r) PROVE FileKept'
  BY <1>0, <1>9 DEF RestoreLimit, Limits, FileKept, RecordedBeforeChanged, Live, NoOverlap, Knows
<1>10. ASSUME NEW r \in Runs, RestoreClock(r) PROVE FileKept'
  <2>1. Live' = Live /\ r \in Live /\ \A q \in Live : q = r
    BY <1>10 DEF RestoreClock, Live, NoOverlap
  <2>2. UNCHANGED <<limit, file, orig, applied>> /\ pc[r] = "restoreClock" /\ pc'[r] = "restoreDone"
    BY <1>10 DEF RestoreClock
  <2>3. ~errors'[r] => ~errors[r]
    BY <1>10 DEF RestoreClock
  <2>4. ~errors'[r] => limit'[GpuOf[r]] = "full"
    BY <1>0, <2>1, <2>2, <2>3 DEF FileKept
  <2> QED BY <1>0, <2>1, <2>2, <2>4 DEF FileKept, RecordedBeforeChanged
<1>11. ASSUME NEW r \in Runs, RestoreDone(r) PROVE FileKept'
  BY <1>0, <1>11 DEF RestoreDone, FileKept, RecordedBeforeChanged, Live, NoOverlap, SharedGpu
<1>12. ASSUME NEW r \in Runs, TermInside(r) PROVE FileKept'
  BY <1>0, <1>12 DEF TermInside, FileKept, RecordedBeforeChanged, Live, device, controller
<1>13. ASSUME NEW r \in Runs, Kill(r) PROVE FileKept'
  BY <1>0, <1>13 DEF Kill, FileKept, RecordedBeforeChanged, Live, device, controller
<1>14. ASSUME NEW g \in GPUs, Reset(g) PROVE FileKept'
  BY <1>0, <1>14 DEF Reset, FileKept, RecordedBeforeChanged, Live, controller
<1> HIDE DEF OneAtATime, TypeOKPower
<1> QED BY <1>1, <1>2, <1>3, <1>4, <1>5, <1>6, <1>7, <1>8, <1>9, <1>10, <1>11, <1>12, <1>13, <1>14
        DEF Next, RunStep

-----------------------------------------------------------------------------
(* The device, while no run is killed and nothing is refused.              *)

\* What DeviceFollows says then.
Follows ==
  /\ file.limit # "cap"
  /\ \A r \in Runs : orig[r] # "cap"
  /\ \A r \in Live : pc[r] # "stuck" =>
       /\ limit[GpuOf[r]] = LimitNow(r) /\ clock[GpuOf[r]] = LockNow(r)
       /\ locked[r] = (applied[r] = "clock")
       /\ pc[r] \in InRestore => ~errors[r]
       /\ ~hooks[r] => file = NoFile
  /\ Live = {} => file = NoFile /\ \A g \in GPUs : limit[g] = "full" /\ ~clock[g]

LEMMA DeviceStep ==
  ASSUME OneAtATime, TypeOKPower, NoOverlap, Knows, SharedGpu, DeviceFollows, [Next]_vars
  PROVE  DeviceFollows'
<1> SUFFICES ASSUME ~crashed', ~refused' PROVE Follows'
  BY DEF DeviceFollows, Follows
<1> USE GpuOfAssumption
        DEF OneAtATime, TypeOKPower, Limit, Setting, NoFile, None, InApply, InRestore, LimitNow, LockNow
<1>0. ASSUME ~crashed, ~refused PROVE Follows
  BY <1>0 DEF DeviceFollows, Follows
<1>1. CASE UNCHANGED vars
  BY <1>0, <1>1 DEF vars, device, controller, Follows, Live
<1>2. ASSUME NEW r \in Runs, Begin(r) PROVE Follows'
  <2>1. Live = {} /\ Live' = {r}
    BY <1>2, BeginAlone DEF Begin, Live
  <2> QED BY <1>0, <1>2, <2>1 DEF Begin, Follows, Knows, device, controller
<1>3. ASSUME NEW r \in Runs, NEW s \in Setting, ApplyBegin(r, s) PROVE Follows'
  <2>1. Live' = Live /\ r \in Live /\ \A q \in Live : q = r
    BY <1>3 DEF ApplyBegin, Live, NoOverlap
  <2>2. ~FileIsMine(r) /\ orig[r] = None => limit[GpuOf[r]] = "full"
    BY <1>0, <1>3, <2>1 DEF ApplyBegin, Follows, Knows
  <2>3. file'.limit # "cap" /\ orig'[r] # "cap" /\ \A q \in Runs \ {r} : orig'[q] = orig[q]
    BY <1>0, <1>3, <2>2 DEF ApplyBegin, Follows, Remember
  <2> QED BY <1>0, <1>3, <2>1, <2>3 DEF ApplyBegin, Follows
<1>4. ASSUME NEW r \in Runs, ApplyLimit(r) PROVE Follows'
  <2>1. Live' = Live /\ r \in Live /\ \A q \in Live : q = r
    BY <1>4 DEF ApplyLimit, Live, NoOverlap
  <2> QED BY <1>0, <1>4, <2>1 DEF ApplyLimit, NewLimit, Limits, Follows, Knows, controller
<1>5. ASSUME NEW r \in Runs, ApplyClock(r) PROVE Follows'
  <2>1. Live' = Live /\ r \in Live /\ \A q \in Live : q = r
    BY <1>5 DEF ApplyClock, Live, NoOverlap
  <2> QED BY <1>0, <1>5, <2>1 DEF ApplyClock, CallsClock, Clocks, Follows, Knows
<1>6. ASSUME NEW r \in Runs, ApplyRefused(r) PROVE Follows'
  BY <1>6 DEF ApplyRefused
<1>7. ASSUME NEW r \in Runs, RestoreBegin(r) PROVE Follows'
  <2>1. Live' = Live /\ r \in Live /\ \A q \in Live : q = r
    BY <1>7 DEF RestoreBegin, RestoreFrom, Live, NoOverlap
  <2> QED BY <1>0, <1>7, <2>1 DEF RestoreBegin, RestoreFrom, Follows, device
<1>8. ASSUME NEW r \in Runs, Leave(r) PROVE Follows'
  <2>1. r \in Live /\ \A q \in Live : q = r
    BY <1>8 DEF Leave, Live, NoOverlap
  <2>2. CASE hooks[r] /\ ~NothingToUndo(r)
    BY <1>0, <1>8, <2>1, <2>2 DEF Leave, RestoreFrom, Follows, Live, device
  <2>3. CASE ~(hooks[r] /\ ~NothingToUndo(r))
    <3>1. pc[r] = "idle" /\ pc' = [pc EXCEPT ![r] = "exited"] /\ UNCHANGED <<limit, clock, file, orig>>
      BY <1>8, <2>3 DEF Leave, device, controller
    <3>2. Live' = {}
      BY <2>1, <3>1 DEF Live
    <3>3. applied[r] = None /\ file = NoFile
      BY <1>0, <1>8, <2>1, <2>3 DEF Leave, NothingToUndo, Follows, Knows
    <3>4. limit[GpuOf[r]] = "full" /\ ~clock[GpuOf[r]] /\ file.limit # "cap" /\ \A q \in Runs : orig[q] # "cap"
      <4>1. Follows
        BY <1>0, <3>1, <1>8, <2>3 DEF Leave
      <4> QED BY <2>1, <3>1, <3>3, <4>1 DEF Follows
    <3>5. \A g \in GPUs : limit[g] = "full" /\ ~clock[g]
      BY <3>4 DEF SharedGpu
    <3> QED BY <3>1, <3>2, <3>3, <3>4, <3>5 DEF Follows
  <2> QED BY <2>2, <2>3
<1>9. ASSUME NEW r \in Runs, RestoreLimit(r) PROVE Follows'
  <2>1. Live' = Live /\ r \in Live /\ \A q \in Live : q = r
    BY <1>9 DEF RestoreLimit, Live, NoOverlap
  <2> QED BY <1>0, <1>9, <2>1 DEF RestoreLimit, Limits, Follows, Knows
<1>10. ASSUME NEW r \in Runs, RestoreClock(r) PROVE Follows'
  <2>1. Live' = Live /\ r \in Live /\ \A q \in Live : q = r
    BY <1>10 DEF RestoreClock, Live, NoOverlap
  <2>2. ~errors[r] /\ limit[GpuOf[r]] = "full" /\ clock[GpuOf[r]] = (applied[r] = "clock") /\ locked[r] = (applied[r] = "clock")
    BY <1>0, <1>10, <2>1 DEF RestoreClock, Follows
  <2>3. UNCHANGED <<limit, file, orig, locked, applied, hooks>> /\ pc'[r] = "restoreDone" /\ hooks[r]
    BY <1>10 DEF RestoreClock, Knows
  <2>4. ~errors'[r] /\ clock'[GpuOf[r]] = FALSE
    BY <1>0, <1>10, <2>2 DEF RestoreClock, Unlocks, Clocks
  <2>5. file.limit # "cap" /\ \A q \in Runs : orig[q] # "cap"
    BY <1>0, <1>10 DEF RestoreClock, Follows
  <2>6. limit'[GpuOf[r]] = "full" /\ locked'[r] = (applied'[r] = "clock") /\ hooks'[r]
    BY <2>2, <2>3
  <2>7. Live' # {} /\ \A q \in Live' : q = r
    BY <2>1
  <2> HIDE DEF TypeOKPower
  <2> QED BY <2>3, <2>4, <2>5, <2>6, <2>7 DEF Follows
<1>11. ASSUME NEW r \in Runs, RestoreDone(r) PROVE Follows'
  <2>1. r \in Live /\ \A q \in Live : q = r
    BY <1>11 DEF RestoreDone, Live, NoOverlap
  <2>2. ~errors[r] /\ limit[GpuOf[r]] = "full" /\ ~clock[GpuOf[r]] /\ \A q \in Runs : orig[q] # "cap"
    BY <1>0, <1>11, <2>1 DEF RestoreDone, Follows
  <2>3. /\ file' = NoFile /\ ~locked'[r] /\ applied'[r] = None /\ UNCHANGED <<limit, clock, orig>>
        /\ pc'[r] = (IF leaving[r] THEN "exited" ELSE "idle") /\ \A q \in Runs \ {r} : pc'[q] = pc[q]
    BY <1>11, <2>2 DEF RestoreDone
  <2>4. \A g \in GPUs : limit[g] = "full" /\ ~clock[g]
    BY <2>2 DEF SharedGpu
  <2>5. CASE leaving[r]
    <3>1. Live' = {}
      BY <2>1, <2>3, <2>5 DEF Live
    <3> QED BY <2>2, <2>3, <2>4, <3>1 DEF Follows
  <2>6. CASE ~leaving[r]
    <3>1. Live' = {r}
      BY <2>1, <2>3, <2>6 DEF Live
    <3>2. /\ pc'[r] = "idle" /\ limit'[GpuOf[r]] = "full" /\ clock'[GpuOf[r]] = FALSE
          /\ locked'[r] = FALSE
      BY <2>2, <2>3, <2>6
    <3> HIDE DEF TypeOKPower
    <3> QED BY <2>2, <2>3, <3>1, <3>2 DEF Follows
  <2> QED BY <2>5, <2>6
<1>12. ASSUME NEW r \in Runs, TermInside(r) PROVE Follows'
  BY <1>0, <1>12 DEF TermInside, Follows, Live, NoOverlap, device, controller
<1>13. ASSUME NEW r \in Runs, Kill(r) PROVE Follows'
  BY <1>13 DEF Kill
<1>14. ASSUME NEW g \in GPUs, Reset(g) PROVE Follows'
  BY <1>0, <1>14 DEF Reset, Follows, Live, controller
<1> HIDE DEF OneAtATime, TypeOKPower
<1> QED BY <1>1, <1>2, <1>3, <1>4, <1>5, <1>6, <1>7, <1>8, <1>9, <1>10, <1>11, <1>12, <1>13, <1>14
        DEF Next, RunStep

-----------------------------------------------------------------------------
(* The theorems.                                                           *)

LEMMA InitPower == Init => PowerInv
<1> SUFFICES ASSUME Init PROVE PowerInv
  OBVIOUS
<1> USE DEF Init, Limit, Setting, NoFile, None, InApply, InRestore
<1>1. TypeOKPower
  <2>1. stretches \in [Runs -> 0..MaxStretches]
    BY StretchesAssumption
  <2>2. limit \in [GPUs -> Limit] /\ clock \in [GPUs -> BOOLEAN] /\ file = NoFile
    OBVIOUS
  <2>3. /\ orig \in [Runs -> Limit \cup {None}] /\ applied \in [Runs -> Setting \cup {None}]
        /\ target \in [Runs -> Setting \cup {None}] /\ pc \in [Runs -> {"new"}]
    OBVIOUS
  <2>4. /\ locked \in [Runs -> BOOLEAN] /\ hooks \in [Runs -> BOOLEAN] /\ errors \in [Runs -> BOOLEAN]
        /\ leaving \in [Runs -> BOOLEAN] /\ crashed \in BOOLEAN /\ refused \in BOOLEAN
    OBVIOUS
  <2>5. pc \in [Runs -> {"new", "idle", "stuck", "exited", "killed"} \cup InApply \cup InRestore]
    BY <2>3
  <2> HIDE DEF Init, Limit, Setting, NoFile, None
  <2> QED BY <2>1, <2>2, <2>3, <2>4, <2>5, Zenon DEF TypeOKPower
<1>2. Live = {}
  BY DEF Live
<1>3. NoOverlap /\ Knows /\ SharedGpu
  BY <1>2, GpuOfAssumption DEF NoOverlap, Knows, SharedGpu
<1>4. FileBehind /\ DeviceFollows
  BY <1>2 DEF FileBehind, RecordedBeforeChanged, DeviceFollows
<1> QED BY <1>1, <1>3, <1>4 DEF PowerInv

\* The inductive invariant of the runs and the restore file.
THEOREM PowerKeepsTrack == ASSUME OneAtATime PROVE Spec => []PowerInv
<1>1. PowerInv /\ [Next]_vars => PowerInv'
  BY TypeStep, NoOverlapStep, KnowsStep, SharedStep, FileBehindStep, DeviceStep DEF PowerInv
<1> QED BY InitPower, <1>1, PTL DEF Spec

\* A lowered limit can be put back from the restore file after a kill at any moment, however
\* many runs came and died before (power.py:13).
THEOREM ChangesRecorded == ASSUME OneAtATime PROVE Spec => []RecordedWhenServing
<1>1. PowerInv => RecordedWhenServing
  BY DEF PowerInv, FileBehind, RecordedWhenServing
<1> QED BY <1>1, PowerKeepsTrack, PTL

\* No cap is ever taken for the limit the machine had (power.py:276).
THEOREM OriginalKept == ASSUME OneAtATime PROVE Spec => []OriginalTrue
<1>1. PowerInv => OriginalTrue
  BY DEF PowerInv, FileBehind, OriginalTrue
<1> QED BY <1>1, PowerKeepsTrack, PTL

\* A run measures and serves under the setting it applied last and nothing else.
THEOREM SettingInForce == ASSUME OneAtATime PROVE Spec => []AppliedIsSet
<1>1. PowerInv => AppliedIsSet
  <2> SUFFICES ASSUME DeviceFollows, ~crashed, ~refused, NEW r \in Runs, pc[r] = "idle"
               PROVE  /\ limit[GpuOf[r]] = IF applied[r] = "cap" THEN "cap" ELSE "full"
                      /\ clock[GpuOf[r]] = (applied[r] = "clock")
    BY DEF PowerInv, AppliedIsSet
  <2>1. r \in Live
    BY DEF Live
  <2> QED BY <2>1 DEF DeviceFollows, LimitNow, LockNow
<1> QED BY <1>1, PowerKeepsTrack, PTL

\* Runs that exit on their own leave the machine as they found it.
THEOREM MachineRestored == ASSUME OneAtATime PROVE Spec => []CleanExit
<1>1. PowerInv => CleanExit
  BY DEF PowerInv, DeviceFollows, CleanExit
<1> QED BY <1>1, PowerKeepsTrack, PTL
=============================================================================
