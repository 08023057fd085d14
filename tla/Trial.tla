-------------------------------- MODULE Trial --------------------------------
(***************************************************************************)
(* A trial on a running engine: polyserve/calibrate/measure.py, run_trial, *)
(* as TrialRunner.run calls it once on an engine, and TrialRunner.sweep    *)
(* and DisaggTrialRunner.sweep once for each power setting on the same     *)
(* engine.                                                                 *)
(*                                                                         *)
(* A trial warms the engine up, then drives each level of concurrency      *)
(* inside a telemetry window, a close call twice, and stops early at a     *)
(* level that is enough.  What the engine has been sent is kept as sent:   *)
(* its prefix cache answers a prompt of sent almost for free.              *)
(***************************************************************************)
EXTENDS LoadGen, Workload

CONSTANTS
  Calls,            \* the calls: [w: a workload, mode: [clients, enough, close, settings]]
  TolerancePercent  \* FAILURE_TOLERANCE of models.py, in percent

\* A call drives levels of at least one request, by at least one client.
ASSUME CallsAssumption ==
  \A c \in Calls :
    /\ c.w \in [n : 1..MaxPrompts, concs : Seq(Nat \ {0}), perSlot : Nat, pool : Nat] /\ c.w.concs # <<>>
    /\ c.mode \in [clients : 1..MaxClients, enough : BOOLEAN, close : BOOLEAN, settings : Nat]

ASSUME ToleranceAssumption == TolerancePercent \in 0..100

VARIABLES
  w, mode,          \* the workload and the call
  tpc,              \* "trial", "level", "drive", "judge", "next", "done"
  setting,          \* the power settings measured so far
  pos,              \* the place in the order of levels
  extra,            \* the drive measures a close call again
  metered,          \* the telemetry window knows the energy
  level,            \* the requests of the level and those that failed: [all, failed]
  total,            \* the same for the trial, and whether its energy is known so far
  trials,           \* what each setting's trial came to: [ok, energy]
  sent              \* the prompts the engine has been sent

tvars == <<w, mode, tpc, setting, pos, extra, metered, level, total, trials, sent>>
vars == <<lvars, tvars>>

Nothing == [all |-> 0, failed |-> 0]

\* TrialMetrics.ok: something was answered, and few enough requests failed.
Ok(counts) == counts.failed < counts.all /\ 100 * counts.failed <= TolerancePercent * counts.all

-----------------------------------------------------------------------------
(* The levels.                                                             *)

LevelCount == Len(w.concs)

\* With an early stop the levels are sorted by falling concurrency, else in order.
Before(k, l) ==
  IF mode.enough /\ w.concs[k + 1] # w.concs[l + 1] THEN w.concs[k + 1] > w.concs[l + 1] ELSE k < l

LevelAt(place) ==
  CHOOSE k \in 0..(LevelCount - 1) : Cardinality({l \in 0..(LevelCount - 1) : Before(l, k)}) = place

Level == LevelAt(pos)

\* The batch goes by the order of measuring, and a level measured again takes the next one.
Batch_NextOne == IF extra THEN pos + 1 ELSE pos

\* A level has prompts of its own, whatever the order; measured again, it takes a batch
\* after those of all levels.
Batch == IF extra THEN Level + LevelCount ELSE Level

Concurrency == w.concs[Level + 1]

-----------------------------------------------------------------------------
(* run_trial.                                                              *)

Init ==
  /\ InitLoad
  /\ \E c \in Calls : w = c.w /\ mode = c.mode
  /\ tpc = "trial" /\ setting = 0 /\ pos = 0 /\ extra = FALSE /\ metered = FALSE
  /\ level = Nothing /\ total = [all |-> 0, failed |-> 0, energy |-> TRUE]
  /\ trials = <<>> /\ sent = {}

Warmup == {WarmupPrompt(j) : j \in 0..(Max({2, WidestLevel(w.concs)}) - 1)}

\* The warmup: short requests at the busiest level, their failures swallowed.
BeginTrial ==
  /\ tpc = "trial" /\ setting < mode.settings
  /\ sent' = sent \cup Warmup
  /\ tpc' = "level" /\ pos' = 0
  /\ total' = [all |-> 0, failed |-> 0, energy |-> TRUE]
  /\ UNCHANGED <<lvars, w, mode, setting, extra, metered, level, trials>>

\* Telemetry.start falls back from llmtrace to NVML to the process, or to nothing; only
\* some sources, and a window of at least two samples, know the energy.
BeginLevel ==
  /\ tpc = "level"
  /\ DriveLevel(LevelRequests(w, Concurrency), Concurrency, mode.clients)
  /\ metered' \in BOOLEAN
  /\ tpc' = "drive" /\ level' = Nothing
  /\ UNCHANGED <<w, mode, setting, pos, extra, total, trials, sent>>

\* The load runs; whatever goes out, the engine has seen from then on.
Drive ==
  /\ tpc = "drive" /\ dpc \notin {"merged", "raised"}
  /\ LoadStep
  /\ sent' = sent \cup {PromptAt(w, Batch, p) : p \in {q \in Positions : req[q] = "wait" /\ req'[q] = "flight"}}
  /\ UNCHANGED <<w, mode, tpc, setting, pos, extra, metered, level, total, trials>>

\* The outcomes of a drive join those of the level.
Gather ==
  /\ tpc = "drive" /\ dpc = "merged"
  /\ level' = [all |-> level.all + ask.n,
               failed |-> level.failed + Cardinality({p \in Positions : merged[p] = "failed"})]
  /\ EndDrive
  /\ tpc' = "judge"
  /\ UNCHANGED <<w, mode, setting, pos, extra, metered, total, trials, sent>>

\* close_call: the tail of an answered level is too near its ceiling to tell.
Resample ==
  /\ tpc = "judge" /\ mode.close /\ ~extra /\ level.failed < level.all
  /\ extra' = TRUE
  /\ DriveLevel(LevelRequests(w, Concurrency), Concurrency, mode.clients)
  /\ tpc' = "drive"
  /\ UNCHANGED <<w, mode, setting, pos, metered, level, total, trials, sent>>

\* The window closes and the level is recorded.
EndLevel ==
  /\ tpc = "judge"
  /\ total' = [all |-> total.all + level.all, failed |-> total.failed + level.failed,
               energy |-> total.energy /\ metered /\ level.failed < level.all]
  /\ extra' = FALSE /\ metered' = FALSE
  /\ tpc' = "next"
  /\ UNCHANGED <<lvars, w, mode, setting, pos, level, trials, sent>>

NextLevel ==
  /\ tpc = "next" /\ pos + 1 < LevelCount
  /\ pos' = pos + 1
  /\ tpc' = "level"
  /\ UNCHANGED <<lvars, w, mode, setting, extra, metered, level, total, trials, sent>>

Over(trial) ==
  /\ trials' = Append(trials, trial)
  /\ setting' = setting + 1
  /\ tpc' = "trial"

\* After the last level, or one that is enough: the summary of the levels.
EndTrial ==
  /\ tpc = "next"
  /\ pos + 1 = LevelCount \/ (mode.enough /\ Ok(level))
  /\ Over([ok |-> Ok(total), energy |-> total.energy /\ total.failed < total.all])
  /\ UNCHANGED <<lvars, w, mode, pos, extra, metered, level, total, sent>>

\* The exception of a drive closes the window and leaves run_trial; the caller records a
\* failed trial and goes on with the next setting.
TrialRaises ==
  /\ tpc = "drive" /\ dpc = "raised"
  /\ extra' = FALSE /\ metered' = FALSE
  /\ EndDrive
  /\ Over([ok |-> FALSE, energy |-> FALSE])
  /\ UNCHANGED <<w, mode, pos, level, total, sent>>

Return ==
  /\ tpc = "trial" /\ setting = mode.settings
  /\ tpc' = "done"
  /\ UNCHANGED <<lvars, w, mode, setting, pos, extra, metered, level, total, trials, sent>>

Step == BeginTrial \/ BeginLevel \/ Gather \/ Resample \/ EndLevel \/ NextLevel \/ EndTrial \/ TrialRaises \/ Return

Next == Step \/ Drive

\* The parent and every client take their steps, requests end (each has a timeout), and
\* the run of the trial goes on.  Nothing makes a client die.
Fairness ==
  /\ WF_vars(Step)
  /\ WF_vars(Drive /\ ParentStep)
  /\ \A i \in Clients : WF_vars(Drive /\ ClientStep(i))

Spec == Init /\ [][Next]_vars /\ Fairness

-----------------------------------------------------------------------------
(* Properties.                                                             *)

\* A request that goes out carries a prompt the engine has not been sent.
SendsFresh ==
  \A p \in Positions : req[p] = "wait" /\ req'[p] = "flight" => PromptAt(w, Batch, p) \notin sent

\* Every level gets fresh prompts.
EveryLevelFresh == [][SendsFresh]_vars

\* In its first trial an engine is sent no prompt twice, in whatever order the levels are
\* measured and whichever are measured again, provided the pool has room for all of it.
FreshWhereRoom == [][setting = 0 /\ RoomFor(w, mode.close) => SendsFresh]_vars

\* Every setting comes to a trial, whichever clients die.
TrialEnds == <>(tpc = "done" /\ Len(trials) = mode.settings)

-----------------------------------------------------------------------------
(* The inductive invariant.                                                *)

TypeOKTrial ==
  /\ \E c \in Calls : w = c.w /\ mode = c.mode
  /\ tpc \in {"trial", "level", "drive", "judge", "next", "done"}
  /\ setting \in Nat /\ pos \in 0..(LevelCount - 1)
  /\ extra \in BOOLEAN /\ metered \in BOOLEAN
  /\ level \in [all : Nat, failed : Nat]
  /\ total \in [all : Nat, failed : Nat, energy : BOOLEAN]
  /\ trials \in Seq([ok : BOOLEAN, energy : BOOLEAN])

\* A level is driven only where run_trial drives one, with the prompts of the workload.
InTurn ==
  /\ tpc # "drive" => dpc = "off"
  /\ dpc # "off" => ask.n <= w.n
  /\ extra => mode.close /\ tpc \in {"drive", "judge"}
  /\ tpc = "trial" /\ setting = 0 => sent = {}

\* The batches of prompts behind what was sent before this drive.
Taken ==
  {LevelAt(k) : k \in 0..(pos - 1)}
    \cup (IF mode.close THEN {LevelAt(k) + LevelCount : k \in 0..(pos - 1)} ELSE {})
    \cup (IF extra \/ tpc \in {"judge", "next"} THEN {Level} ELSE {})
    \cup (IF mode.close /\ (tpc = "next" \/ (tpc = "judge" /\ extra)) THEN {Level + LevelCount} ELSE {})

\* Nothing was sent in the first trial but the warmup, these batches, and what this drive
\* has sent of its own.
SentInTurn ==
  setting = 0 =>
    \A x \in sent :
      \/ x \in Warmup
      \/ \E b \in Taken, p \in 0..(w.n - 1) : x = PromptAt(w, b, p)
      \/ tpc = "drive" /\ \E p \in Positions : req[p] # "wait" /\ p < w.n /\ x = PromptAt(w, Batch, p)

TrialInv == LoadInv /\ TypeOKTrial /\ InTurn /\ SentInTurn
=============================================================================
