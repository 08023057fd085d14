------------------------------ MODULE Workload ------------------------------
(***************************************************************************)
(* Which prompts a level sends: polyserve/calibrate/workload.py and        *)
(* datasets.py, with _level_workload of measure.py.                        *)
(*                                                                         *)
(* A workload is a record: n prompts, its levels of concurrency, the       *)
(* requests per slot that cap a level (0: no cap), and its pool: 0 for     *)
(* synthetic text, which a seed makes, else the number of texts of the     *)
(* dataset or file.  Two prompts are the same text exactly when their      *)
(* PromptAt is the same.  The shared prefix, which is to be cached, is     *)
(* left out, and so is the fitting to a number of tokens.                  *)
(***************************************************************************)
EXTENDS Integers, Sequences, FiniteSetsExt

CONSTANT MinLevelRequests     \* MIN_LEVEL_REQUESTS

ASSUME MinLevelRequestsAssumption == MinLevelRequests \in Nat \ {0}

\* Workload.level_requests
LevelRequests(w, c) ==
  IF w.perSlot = 0 THEN w.n ELSE Min({w.n, Max({MinLevelRequests, c * w.perSlot})})

\* Prompt j of batch k: a synthetic text is made from the batch's seed and j, a real one
\* is taken at the batch's offset, wrapping around a small pool.
PromptAt(w, k, j) ==
  IF w.pool = 0 THEN <<k, j>> ELSE <<0, (k * w.n + j) % w.pool>>

\* The prompts of the warmup have a seed of their own, whatever the workload's source.
WarmupPrompt(j) == <<-1, j>>

WidestLevel(concs) == Max({concs[i] : i \in DOMAIN concs})

\* workload_from_file: every level gets prompts of its own, as far as the file goes.
PerLevel(size, concs, perSlot) ==
  Max({1, Min({Max({MinLevelRequests, WidestLevel(concs) * perSlot}), size \div Len(concs)})})

FromFile(size, concs, perSlot) ==
  [n |-> PerLevel(size, concs, perSlot), concs |-> concs, perSlot |-> perSlot, pool |-> size]

Synthetic(n, concs, perSlot) == [n |-> n, concs |-> concs, perSlot |-> perSlot, pool |-> 0]

\* The pool holds enough texts for every level and, with again, for measuring each again.
RoomFor(w, again) == w.pool = 0 \/ (IF again THEN 2 ELSE 1) * Len(w.concs) * w.n <= w.pool
=============================================================================
