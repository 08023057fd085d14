----------------------------- MODULE Objectives -----------------------------
(***************************************************************************)
(* How trials are compared: polyserve/calibrate/objectives.py.             *)
(*                                                                         *)
(* A trial is measured at several levels of concurrency and scored at the  *)
(* level that suits the objective best; trials are ranked, feasible ones   *)
(* first, and the ones that tie with the leader are ordered by what they   *)
(* would cost and offer.                                                   *)
(*                                                                         *)
(* A level is a record of what was measured at it, in whole units:         *)
(*   tok   tokens per second         ttft  the time to first token judged  *)
(*   wait  the latency of a request  joules  energy per token, or Unknown  *)
(* A trial has ok, levels (a set), base (its configuration but for power), *)
(* capped, strategies (how many optional ones are on) and room (context,   *)
(* batch and memory as one number).  Trials stand in a sequence ts, in the *)
(* order they were measured, and a set I of indices is a list of them.     *)
(* The ceiling on the time per token is not set.                           *)
(***************************************************************************)
EXTENDS Integers, Sequences, FiniteSets

CONSTANTS
  Objective,          \* "throughput", "balanced", "latency" or "efficiency"
  Ceiling,            \* Constraints.ttft_ceiling_ms
  FloorPercent,       \* Constraints.tok_s_floor_frac
  NoisePercent,       \* Constraints.noise_tolerance
  PowerLossPercent    \* Constraints.power_max_loss

Unknown == -1
NoEnergy == 1000      \* 1e9 in the code: past every measured energy

Objectives == {"throughput", "balanced", "latency", "efficiency"}

MaxOf(S) == CHOOSE x \in S : \A y \in S : y <= x
AbsOf(x) == IF x < 0 THEN -x ELSE x

-----------------------------------------------------------------------------
(* One level.                                                              *)

\* The score of a level: lower is better.
Score(m) ==
  CASE Objective \in {"throughput", "balanced"} -> -m.tok
    [] Objective = "latency" -> m.wait
    [] Objective = "efficiency" /\ m.joules # Unknown -> m.joules
    [] Objective = "efficiency" /\ m.joules = Unknown -> NoEnergy - m.tok

\* The throughput of a trial as a whole is that of its fastest level.
SummaryTok(t) == MaxOf({m.tok : m \in t.levels})

\* The best throughput of the trials compared, from which the floor is taken.
BestTok(ts, I) == MaxOf({0} \cup {SummaryTok(ts[i]) : i \in I})

\* How far a level is outside the constraint, in hundredths; 0 when it is inside.
Violation(m, best) ==
  CASE Objective = "throughput" -> 0
    [] Objective = "balanced" -> MaxOf({0, 100 * (m.ttft - Ceiling)})
    [] Objective \in {"latency", "efficiency"} -> MaxOf({0, FloorPercent * best - 100 * m.tok})

Meets(m, best) == Violation(m, best) = 0

\* _sort_key of levels, strictly: feasible ones first by score, then the others by how far
\* they are off and then by score.
LevelBefore(m, n, best) ==
  \/ Meets(m, best) /\ ~Meets(n, best)
  \/ Meets(m, best) /\ Meets(n, best) /\ Score(m) < Score(n)
  \/ ~Meets(m, best) /\ Violation(m, best) < Violation(n, best)
  \/ /\ ~Meets(m, best)
     /\ Violation(m, best) = Violation(n, best)
     /\ Score(m) < Score(n)

\* Missing energy telemetry read as no energy used.
Joules_UnknownIsFree(m) == IF m.joules = Unknown THEN 0 ELSE m.joules

\* The energy of a level; an unknown one loses every tie.
Joules(m) == IF m.joules = Unknown THEN NoEnergy ELSE m.joules

\* The level a trial is scored at.
At(t, best) ==
  CHOOSE m \in t.levels : \A n \in t.levels : ~LevelBefore(n, m, best)

-----------------------------------------------------------------------------
(* rank() and pick().                                                      *)

OkTrials(ts, I) == {i \in I : ts[i].ok}

\* A trial as rank() compares it: at one of its levels.
ScoredAt(t, i, m, best) ==
  [i |-> i, base |-> t.base, strategies |-> t.strategies, room |-> t.room,
   score |-> Score(m), violation |-> Violation(m, best), feasible |-> Meets(m, best), joules |-> Joules(m)]

ScoredAgainst(ts, ok, best) == {ScoredAt(ts[i], i, At(ts[i], best), best) : i \in ok}

\* The records of rank(): each trial that succeeded at the level it is scored at.
Scored(ts, I) == ScoredAgainst(ts, OkTrials(ts, I), BestTok(ts, OkTrials(ts, I)))

\* The order before ties are broken; Python's sort is stable.
Before(x, y) ==
  \/ x.feasible /\ ~y.feasible
  \/ /\ x.feasible = y.feasible
     /\ \/ x.violation < y.violation
        \/ x.violation = y.violation /\ x.score < y.score
        \/ x.violation = y.violation /\ x.score = y.score /\ x.i < y.i

\* A tie with whatever is feasible, however much worse.
Joins_AnyWorse(lead, x) == x.feasible

\* Whether a trial is as good as the leader but for noise, or is the leader's configuration
\* at another power setting for at most power_max_loss.
Joins(lead, x) ==
  LET gap == 100 * AbsOf(x.score - lead.score)
  IN /\ x.feasible
     /\ \/ gap <= NoisePercent * AbsOf(lead.score)
        \/ /\ x.base = lead.base
           /\ gap <= MaxOf({PowerLossPercent, NoisePercent}) * AbsOf(lead.score)

\* Among tied trials: fewer optional strategies, then more room, then less energy.
TieBefore(x, y) ==
  \/ x.strategies < y.strategies
  \/ /\ x.strategies = y.strategies
     /\ \/ x.room > y.room
        \/ x.room = y.room /\ x.joules < y.joules
        \/ x.room = y.room /\ x.joules = y.joules /\ Before(x, y)

FirstIn(S, Less(_, _)) == CHOOSE x \in S : \A y \in S \ {x} : Less(x, y)

\* The elements of a set in an order: the one that k - 1 others come before is the k-th.
SortedBy(S, Less(_, _)) ==
  [k \in 1..Cardinality(S) |-> CHOOSE x \in S : Cardinality({y \in S \ {x} : Less(y, x)}) = k - 1]

\* The trials that compete for the first place with the leader.
Tied(scored) ==
  LET lead == FirstIn(scored, Before)
  IN IF lead.feasible THEN {x \in scored : Joins(lead, x)} ELSE {lead}

RankOf(scored) ==
  LET tied == IF scored = {} THEN {} ELSE Tied(scored)
  IN SortedBy(tied, TieBefore) \o SortedBy(scored \ tied, Before)

\* The trials that succeeded, best first, as their records.
Rank(ts, I) == RankOf(Scored(ts, I))

None == 0

WinnerOf(scored) == IF scored = {} THEN None ELSE FirstIn(Tied(scored), TieBefore).i

\* pick(): the index of the winner, or None when no trial succeeded.
Pick(ts, I) == WinnerOf(Scored(ts, I))

-----------------------------------------------------------------------------
(* enough_level(): measuring the busiest level first.                      *)

\* A level that settles the score whether or not it meets the ceiling.
Enough_AnyLevel(m) == Objective \in {"throughput", "balanced"}

\* Whether a level settles the score of its trial, for the objectives that have a rule.
Enough(m) == Objective \in {"throughput", "balanced"} /\ Meets(m, 0)

\* The levels of a sequence, ordered by load, that run_trial measures from the busiest down
\* when it stops at the first one that is enough.
MeasuredLevels(levels) ==
  LET enough == {k \in DOMAIN levels : Enough(levels[k])}
  IN IF enough = {} THEN DOMAIN levels ELSE {k \in DOMAIN levels : k >= MaxOf(enough)}

-----------------------------------------------------------------------------
(* What pick() and enough_level() promise, said without their sorting.     *)

\* The winner meets the constraint whenever any level of any trial does ("Feasible
\* candidates always precede infeasible ones", objectives.py:246), and ties cost it no more
\* of the best feasible score than noise, or for a variant of the best trial at another
\* power setting than power_max_loss.
NearBest(ts, I) ==
  LET ok == OkTrials(ts, I)
      best == BestTok(ts, ok)
      winner == ts[Pick(ts, I)]
      won == At(winner, best)
      feasible == {m \in UNION {ts[i].levels : i \in ok} : Meets(m, best)}
      Within(percent, m) == 100 * (Score(won) - Score(m)) <= percent * AbsOf(Score(m))
  IN \A m \in feasible : (\A n \in feasible : Score(m) <= Score(n)) =>
       /\ won \in feasible
       /\ \/ Within(NoisePercent, m)
          \/ /\ Within(MaxOf({PowerLossPercent, NoisePercent}), m)
             /\ \E i \in ok : /\ ts[i].base = winner.base
                              /\ At(ts[i], best) \in feasible /\ Score(At(ts[i], best)) = Score(m)

\* A capped run of a configuration wins over the uncapped one only when it is better or is
\* known to use no more energy ("may cost up to this much of its score and still be chosen,
\* when it uses less energy", objectives.py:46).
CapEarned(ts, I) ==
  LET ok == OkTrials(ts, I)
      best == BestTok(ts, ok)
      winner == ts[Pick(ts, I)]
      won == At(winner, best)
  IN Pick(ts, I) # None /\ winner.capped /\ Meets(won, best) =>
       \A i \in ok :
         LET other == At(ts[i], best)
         IN ts[i].base = winner.base /\ Meets(other, best) =>
              \/ Score(won) <= Score(other)
              \/ won.joules # Unknown /\ (other.joules = Unknown \/ won.joules <= other.joules)

\* Where throughput rises with load, stopping at the first level from the top that is
\* enough scores a trial as measuring every level does ("no lower level can beat the first
\* one that meets them", objectives.py:135).
Settles(levels) ==
  LET Measured(K) == [levels |-> {levels[k] : k \in K}]
      ScoreOf(K) == Score(At(Measured(K), SummaryTok(Measured(K))))
  IN levels # <<>> => ScoreOf(DOMAIN levels) = ScoreOf(MeasuredLevels(levels))
=============================================================================
