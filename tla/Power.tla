------------------------------- MODULE Power -------------------------------
(***************************************************************************)
(* GPU power control: polyserve/power.py, NvmlPowerController, its restore *)
(* file and `polyserve power reset`.                                       *)
(*                                                                         *)
(* A run of PolyServe caps the power limit or locks the clocks of its GPU  *)
(* while it measures or serves.  The change is machine-wide and outlives   *)
(* the run, so the original limit is kept in one restore file under        *)
(* ~/.polyserve.  apply() and restore() are broken at their NVML calls and *)
(* at the removal of the file: a run may be killed between any two, NVML   *)
(* may refuse any of them, and SIGTERM may arrive inside either.           *)
(*                                                                         *)
(* Limits in watts are abstracted to "full", what the machine had before   *)
(* PolyServe, and "cap", any lower one.  A setting is one knob, as         *)
(* candidate_points() makes them.                                          *)
(***************************************************************************)
EXTENDS Naturals, FiniteSets

CONSTANTS
  Runs,             \* the runs of PolyServe on this machine
  GPUs,
  GpuOf,            \* the GPU each run controls
  MaxLive,          \* runs that may be alive at once
  MaxStretches      \* times a run may go from no setting to one: 1 for serve and for a
                    \* sweep, more for the trials of a calibration

None == "none"

ASSUME RunsAssumption == IsFiniteSet(Runs)
ASSUME GpuOfAssumption == GpuOf \in [Runs -> GPUs] /\ None \notin GPUs
ASSUME StretchesAssumption == MaxStretches \in Nat

VARIABLES
  limit,            \* limit[g]: the power limit of the device
  clock,            \* clock[g]: its clocks are locked
  file,             \* the restore file
  pc,               \* pc[r]: where run r is in apply() or restore()
  orig,             \* orig[r]: _original_limit_mw
  locked,           \* locked[r]: _clocks_locked
  applied,          \* applied[r]: _applied
  target,           \* target[r]: the setting apply() is at work on
  hooks,            \* hooks[r]: _hooks_installed, at interpreter exit and for SIGTERM
  errors,           \* errors[r]: the restore at work has met a refusal
  leaving,          \* leaving[r]: the run exits after the restore at work
  stretches,        \* stretches[r]: see MaxStretches
  crashed,          \* a run was killed or hung, so somebody had to kill it
  refused           \* NVML has refused a call

device == <<limit, clock, file>>
controller == <<orig, locked, applied, target, hooks, errors, leaving, stretches>>
vars == <<device, pc, controller, crashed, refused>>

Limit == {"full", "cap"}
Setting == {"cap", "clock"}
NoFile == [gpu |-> None, limit |-> None]

InApply == {"applyLimit", "applyClock"}
InRestore == {"restoreLimit", "restoreClock", "restoreDone"}
Live == {r \in Runs : pc[r] \in {"idle", "stuck"} \cup InApply \cup InRestore}

\* The types; a restore file that exists names a GPU and a limit.
TypeOKPower ==
  /\ limit \in [GPUs -> Limit]
  /\ clock \in [GPUs -> BOOLEAN]
  /\ file \in [gpu : GPUs, limit : Limit] \cup {NoFile}
  /\ pc \in [Runs -> {"new", "idle", "stuck", "exited", "killed"} \cup InApply \cup InRestore]
  /\ orig \in [Runs -> Limit \cup {None}]
  /\ locked \in [Runs -> BOOLEAN]
  /\ applied \in [Runs -> Setting \cup {None}]
  /\ target \in [Runs -> Setting \cup {None}]
  /\ hooks \in [Runs -> BOOLEAN]
  /\ errors \in [Runs -> BOOLEAN]
  /\ leaving \in [Runs -> BOOLEAN]
  /\ stretches \in [Runs -> 0..MaxStretches]
  /\ crashed \in BOOLEAN
  /\ refused \in BOOLEAN

Init ==
  /\ limit = [g \in GPUs |-> "full"]
  /\ clock = [g \in GPUs |-> FALSE]
  /\ file = NoFile
  /\ pc = [r \in Runs |-> "new"]
  /\ orig = [r \in Runs |-> None]
  /\ locked = [r \in Runs |-> FALSE]
  /\ applied = [r \in Runs |-> None]
  /\ target = [r \in Runs |-> None]
  /\ hooks = [r \in Runs |-> FALSE]
  /\ errors = [r \in Runs |-> FALSE]
  /\ leaving = [r \in Runs |-> FALSE]
  /\ stretches = [r \in Runs |-> 0]
  /\ crashed = FALSE
  /\ refused = FALSE

Begin(r) ==
  /\ pc[r] = "new"
  /\ Cardinality(Live) < MaxLive
  /\ pc' = [pc EXCEPT ![r] = "idle"]
  /\ UNCHANGED <<device, controller, crashed, refused>>

-----------------------------------------------------------------------------
(* apply(setting), for a setting other than the default.                   *)

Limits(r, l) == limit' = [limit EXCEPT ![GpuOf[r]] = l]
Clocks(r, b) == clock' = [clock EXCEPT ![GpuOf[r]] = b]

FileIsMine(r) == file.gpu = GpuOf[r]

\* A controller that believes the device rather than the file of a run that died.
Remember_TrustDevice(r) ==
  \/ /\ orig[r] # None
     /\ UNCHANGED <<orig, file>>
  \/ /\ orig[r] = None
     /\ orig' = [orig EXCEPT ![r] = limit[GpuOf[r]]]
     /\ file' = [gpu |-> GpuOf[r], limit |-> limit[GpuOf[r]]]

\* _remember_original: what this controller knows, else what the file of a run that died
\* says, else what the device has now, and then the file is written.
Remember(r) ==
  \/ /\ orig[r] # None
     /\ UNCHANGED <<orig, file>>
  \/ /\ orig[r] = None
     /\ FileIsMine(r)
     /\ orig' = [orig EXCEPT ![r] = file.limit]
     /\ UNCHANGED file
  \/ /\ orig[r] = None
     /\ ~FileIsMine(r)
     /\ orig' = [orig EXCEPT ![r] = limit[GpuOf[r]]]
     /\ file' = [gpu |-> GpuOf[r], limit |-> limit[GpuOf[r]]]

ApplyBegin(r, s) ==
  /\ pc[r] = "idle"
  /\ applied[r] = None => stretches[r] < MaxStretches
  /\ stretches' = [stretches EXCEPT ![r] = IF applied[r] = None THEN @ + 1 ELSE @]
  /\ Remember(r)
  /\ hooks' = [hooks EXCEPT ![r] = TRUE]
  /\ target' = [target EXCEPT ![r] = s]
  /\ pc' = [pc EXCEPT ![r] = "applyLimit"]
  /\ UNCHANGED <<limit, clock, locked, applied, errors, leaving, crashed, refused>>

\* The limit to set for the target: its cap, or the original one when a cap is left behind.
NewLimit(r) ==
  CASE target[r] = "cap" -> "cap"
    [] target[r] = "clock" /\ applied[r] = "cap" -> orig[r]
    [] OTHER -> None

\* A switch from a cap to a clock lock that leaves the cap in place.
ApplyLimit_KeepCap(r) ==
  /\ pc[r] = "applyLimit"
  /\ IF target[r] = "cap" THEN Limits(r, "cap") ELSE UNCHANGED limit
  /\ pc' = [pc EXCEPT ![r] = "applyClock"]
  /\ UNCHANGED <<clock, file, controller, crashed, refused>>

ApplyLimit(r) ==
  /\ pc[r] = "applyLimit"
  /\ IF NewLimit(r) = None THEN UNCHANGED limit ELSE Limits(r, NewLimit(r))
  /\ pc' = [pc EXCEPT ![r] = "applyClock"]
  /\ UNCHANGED <<clock, file, controller, crashed, refused>>

CallsClock(r) == target[r] = "clock" \/ locked[r]

ApplyClock(r) ==
  /\ pc[r] = "applyClock"
  /\ IF CallsClock(r)
       THEN /\ Clocks(r, target[r] = "clock")
            /\ locked' = [locked EXCEPT ![r] = target[r] = "clock"]
       ELSE UNCHANGED <<clock, locked>>
  /\ applied' = [applied EXCEPT ![r] = target[r]]
  /\ pc' = [pc EXCEPT ![r] = "idle"]
  /\ UNCHANGED <<limit, file, orig, target, hooks, errors, leaving, stretches, crashed, refused>>

\* NVML refuses: apply() raises where it is, and its caller goes on without the setting.
ApplyRefused(r) ==
  /\ \/ pc[r] = "applyLimit" /\ NewLimit(r) # None
     \/ pc[r] = "applyClock" /\ CallsClock(r)
  /\ pc' = [pc EXCEPT ![r] = "idle"]
  /\ refused' = TRUE
  /\ UNCHANGED <<device, controller, crashed>>

-----------------------------------------------------------------------------
(* restore(), from a caller that sees a setting applied, and on exit.      *)

\* _restore_locked() returns at once when there is nothing to undo.
NothingToUndo(r) == applied[r] = None /\ ~locked[r] /\ file = NoFile

RestoreFrom(r, leave) ==
  /\ leaving' = [leaving EXCEPT ![r] = leave]
  /\ errors' = [errors EXCEPT ![r] = FALSE]
  /\ pc' = [pc EXCEPT ![r] = "restoreLimit"]
  /\ UNCHANGED <<device, orig, locked, applied, target, hooks, stretches, crashed, refused>>

RestoreBegin(r) ==
  /\ pc[r] = "idle"
  /\ applied[r] # None
  /\ RestoreFrom(r, FALSE)

\* An exit without hooks: whoever applied the setting is trusted to have undone it.
Leave_NoHooks(r) ==
  /\ pc[r] = "idle"
  /\ pc' = [pc EXCEPT ![r] = "exited"]
  /\ UNCHANGED <<device, controller, crashed, refused>>

\* The interpreter exits, or SIGTERM arrives outside apply() and restore(): the hook
\* restores, whatever `applied` says.
Leave(r) ==
  /\ pc[r] = "idle"
  /\ IF hooks[r] /\ ~NothingToUndo(r)
       THEN RestoreFrom(r, TRUE)
       ELSE /\ pc' = [pc EXCEPT ![r] = "exited"]
            /\ UNCHANGED <<device, controller, crashed, refused>>

\* A refused call is noted, and the next one is tried all the same.
RestoreLimit(r) ==
  /\ pc[r] = "restoreLimit"
  /\ \/ orig[r] # None /\ Limits(r, orig[r]) /\ UNCHANGED <<errors, refused>>
     \/ orig[r] # None /\ errors' = [errors EXCEPT ![r] = TRUE] /\ refused' = TRUE /\ UNCHANGED limit
     \/ orig[r] = None /\ UNCHANGED <<limit, errors, refused>>
  /\ pc' = [pc EXCEPT ![r] = "restoreClock"]
  /\ UNCHANGED <<clock, file, orig, locked, applied, target, hooks, leaving, stretches, crashed>>

Unlocks(r) == locked[r] \/ applied[r] = "clock"

RestoreClock(r) ==
  /\ pc[r] = "restoreClock"
  /\ \/ Unlocks(r) /\ Clocks(r, FALSE) /\ UNCHANGED <<errors, refused>>
     \/ Unlocks(r) /\ errors' = [errors EXCEPT ![r] = TRUE] /\ refused' = TRUE /\ UNCHANGED clock
     \/ ~Unlocks(r) /\ UNCHANGED <<clock, errors, refused>>
  /\ pc' = [pc EXCEPT ![r] = "restoreDone"]
  /\ UNCHANGED <<limit, file, orig, locked, applied, target, hooks, leaving, stretches, crashed>>

\* A restore that removes the file even when NVML refused.
RestoreDone_ClearAnyway(r) ==
  /\ pc[r] = "restoreDone"
  /\ locked' = [locked EXCEPT ![r] = FALSE]
  /\ applied' = [applied EXCEPT ![r] = None]
  /\ file' = NoFile
  /\ pc' = [pc EXCEPT ![r] = IF leaving[r] THEN "exited" ELSE "idle"]
  /\ UNCHANGED <<limit, clock, orig, target, hooks, errors, leaving, stretches, crashed, refused>>

\* The controller forgets what it had applied, and keeps the original limit; the file stays
\* when anything was refused.
RestoreDone(r) ==
  /\ pc[r] = "restoreDone"
  /\ locked' = [locked EXCEPT ![r] = FALSE]
  /\ applied' = [applied EXCEPT ![r] = None]
  /\ file' = IF errors[r] THEN file ELSE NoFile
  /\ pc' = [pc EXCEPT ![r] = IF leaving[r] THEN "exited" ELSE "idle"]
  /\ UNCHANGED <<limit, clock, orig, target, hooks, errors, leaving, stretches, crashed, refused>>

-----------------------------------------------------------------------------
(* Signals, and the command that cleans up after a hard kill.              *)

\* SIGTERM inside apply() or restore(): the handler calls restore() in the same thread, and
\* waits for a lock that only this thread could release.
TermInside(r) ==
  /\ pc[r] \in InApply \cup InRestore
  /\ pc' = [pc EXCEPT ![r] = "stuck"]
  /\ UNCHANGED <<device, controller, crashed, refused>>

Kill(r) ==
  /\ r \in Live
  /\ pc' = [pc EXCEPT ![r] = "killed"]
  /\ crashed' = TRUE
  /\ UNCHANGED <<device, controller, refused>>

\* reset_from_file(): the GPU of the file, or the default one.  A refused limit raises, a
\* refused unlock is ignored.
Reset(g) ==
  /\ Live = {}
  /\ file = NoFile \/ file.gpu = g
  /\ limit' = [limit EXCEPT ![g] = IF file = NoFile THEN @ ELSE file.limit]
  /\ \/ clock' = [clock EXCEPT ![g] = FALSE] /\ UNCHANGED refused
     \/ UNCHANGED clock /\ refused' = TRUE
  /\ file' = NoFile
  /\ UNCHANGED <<pc, controller, crashed>>

-----------------------------------------------------------------------------
(* The specification.                                                      *)

RunStep(r) ==
  \/ Begin(r)
  \/ \E s \in Setting : ApplyBegin(r, s)
  \/ ApplyLimit(r) \/ ApplyClock(r) \/ ApplyRefused(r)
  \/ RestoreBegin(r) \/ Leave(r)
  \/ RestoreLimit(r) \/ RestoreClock(r) \/ RestoreDone(r)
  \/ TermInside(r) \/ Kill(r)

Next ==
  \/ \E r \in Runs : RunStep(r)
  \/ \E g \in GPUs : Reset(g)

Spec == Init /\ [][Next]_vars

-----------------------------------------------------------------------------
(* Properties.                                                             *)

\* No run has gone from no setting to one a second time: serve applies one setting, a
\* sweep one after the other.
OneStretchEach == \A r \in Runs : stretches[r] <= 1

\* A lowered limit is in the restore file ("Every change is recorded in a restore file
\* before it is made", power.py:13), so that `polyserve power reset` can undo it after a
\* hard kill at any moment.
RecordedBeforeChanged ==
  \A g \in GPUs : limit[g] = "cap" => file = [gpu |-> g, limit |-> "full"]

\* The same of runs of one stretch each, whatever is killed, refused or recovered.
RecordedWhenServing == OneStretchEach => RecordedBeforeChanged

\* Neither the file nor a controller of such runs ever takes a cap for the original limit
\* ("the file holds the true original, not the cap", power.py:276), through any sequence
\* of runs that are killed and of runs that recover what they left.
OriginalTrue ==
  OneStretchEach =>
    /\ file.limit # "cap"
    /\ \A r \in Runs : orig[r] # "cap"

\* While no run has been killed and NVML has refused nothing, a run between two calls works
\* under exactly the setting it applied last: nothing of an earlier setting is left over
\* when it switches from a cap to a clock lock or back.
AppliedIsSet ==
  ~crashed /\ ~refused =>
    \A r \in Runs : pc[r] = "idle" =>
      /\ limit[GpuOf[r]] = IF applied[r] = "cap" THEN "cap" ELSE "full"
      /\ clock[GpuOf[r]] = (applied[r] = "clock")

\* Runs that exit on their own leave the machine as it was, and no restore file.
CleanExit ==
  Live = {} /\ ~crashed /\ ~refused =>
    /\ \A g \in GPUs : limit[g] = "full" /\ ~clock[g]
    /\ file = NoFile

-----------------------------------------------------------------------------
(* The inductive invariant, of runs that share a GPU and do not overlap.   *)
(* Two runs on two GPUs share the one restore file and lose its record     *)
(* (the hazard at power.py:281), so that without this nothing below holds. *)

OneAtATime == MaxLive = 1 /\ \A r, q \in Runs : GpuOf[r] = GpuOf[q]

NoOverlap == \A r, q \in Live : r = q

\* A controller knows the original limit from its first apply() on, and has its hooks
\* installed as long.
Knows ==
  \A r \in Runs :
    /\ hooks[r] = (orig[r] # None)
    /\ stretches[r] = 0 => orig[r] = None
    /\ applied[r] # None \/ locked[r] \/ pc[r] \in InApply \cup InRestore => orig[r] # None
    /\ pc[r] \in InApply => target[r] # None
    /\ pc[r] = "new" => orig[r] = None

\* Only the shared GPU is recorded or changed.
SharedGpu ==
  \A r \in Runs :
    /\ file # NoFile => file.gpu = GpuOf[r]
    /\ \A g \in GPUs : limit[g] = "cap" \/ clock[g] => g = GpuOf[r]

\* Of runs of one stretch each: a run at work on a setting has the file behind it, and one
\* that is about to remove the file has put the limit back.
FileBehind ==
  OneStretchEach =>
    /\ RecordedBeforeChanged
    /\ file.limit # "cap"
    /\ \A r \in Runs : orig[r] # "cap"
    /\ \A r \in Live :
         /\ applied[r] # None \/ pc[r] \in InApply => file = [gpu |-> GpuOf[r], limit |-> "full"]
         /\ pc[r] \in {"restoreClock", "restoreDone"} /\ ~errors[r] => limit[GpuOf[r]] = "full"

\* What the GPU of run r is set to between the calls of apply() and restore().
LimitNow(r) ==
  CASE pc[r] \in {"idle", "applyLimit", "restoreLimit"} -> IF applied[r] = "cap" THEN "cap" ELSE "full"
    [] pc[r] = "applyClock" -> IF target[r] = "cap" THEN "cap" ELSE "full"
    [] OTHER -> "full"
LockNow(r) == applied[r] = "clock" /\ pc[r] # "restoreDone"

\* Without kills and refusals: the device follows the one live run, and with none it is as
\* PolyServe found it.
DeviceFollows ==
  ~crashed /\ ~refused =>
    /\ file.limit # "cap"
    /\ \A r \in Runs : orig[r] # "cap"
    /\ \A r \in Live : pc[r] # "stuck" =>
         /\ limit[GpuOf[r]] = LimitNow(r) /\ clock[GpuOf[r]] = LockNow(r)
         /\ locked[r] = (applied[r] = "clock")
         /\ pc[r] \in InRestore => ~errors[r]
         /\ ~hooks[r] => file = NoFile
    /\ Live = {} => file = NoFile /\ \A g \in GPUs : limit[g] = "full" /\ ~clock[g]

PowerInv == TypeOKPower /\ NoOverlap /\ Knows /\ SharedGpu /\ FileBehind /\ DeviceFollows
=============================================================================

