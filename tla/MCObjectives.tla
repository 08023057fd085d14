---------------------------- MODULE MCObjectives ----------------------------
(***************************************************************************)
(* The objectives over all short lists of trials of a small set, and over  *)
(* the levels of one trial.  Beside them grows a sample of the times to    *)
(* first token of one level.                                               *)
(***************************************************************************)
EXTENDS Ranking, Tail

CONSTANTS MaxSamples, Confidences

VARIABLE sample

Level(tok, ttft, joules) == [tok |-> tok, ttft |-> ttft, wait |-> 40 - tok, joules |-> joules]

MCLevels == {Level(tok, ttft, joules) : tok \in {8, 19, 20}, ttft \in {1, 3}, joules \in {Unknown, 9}}

\* What a trial is, but for its levels: a configuration, the same one capped, one with an
\* optional strategy, and a failed trial.
Kinds == {[ok |-> TRUE,  base |-> "a", capped |-> FALSE, strategies |-> 0, room |-> 1],
          [ok |-> TRUE,  base |-> "a", capped |-> TRUE,  strategies |-> 0, room |-> 1],
          [ok |-> TRUE,  base |-> "b", capped |-> FALSE, strategies |-> 1, room |-> 2],
          [ok |-> FALSE, base |-> "b", capped |-> FALSE, strategies |-> 0, room |-> 2]}

\* Tried at one load, or at a low one and a high one.
LevelSets == {{l} : l \in {Level(8, 1, 9), Level(14, 1, 5), Level(20, 3, 9), Level(19, 1, Unknown), Level(12, 1, Unknown)}}
               \cup {{Level(8, 1, 9), Level(20, 3, 7)}, {Level(8, 1, 9), Level(20, 1, 10)}}

Trial(k, ls) == [ok |-> k.ok, base |-> k.base, capped |-> k.capped, strategies |-> k.strategies,
                 room |-> k.room, levels |-> ls]

MCTrials == {Trial(k, ls) : k \in Kinds, ls \in LevelSets}

\* Four equally likely times, of which some may be the same.
Populations == {p \in [1..4 -> 1..4] : \A i \in 1..3 : p[i] <= p[i + 1] /\ (p[i + 1] = p[i] \/ p[i + 1] = p[i] + 1) /\ p[1] = 1}
NoSample == [n |-> 0]

Init == InitRanking /\ sample = NoSample

AddToList == sample = NoSample /\ NextRanking /\ UNCHANGED sample

\* A percentile the ceiling applies to; only "balanced" has one.
BeginSample ==
  /\ objective = "balanced" /\ trials = <<>> /\ levels = <<>> /\ sample = NoSample
  /\ \E p \in Populations, q \in {2, 3}, c \in Confidences : sample' = [population |-> p, q |-> q, c |-> c, n |-> 1]
  /\ UNCHANGED <<objective, trials, levels>>

AddSample ==
  /\ sample.n \in 1..(MaxSamples - 1)
  /\ sample' = [sample EXCEPT !.n = @ + 1]
  /\ UNCHANGED <<objective, trials, levels>>

Next == AddToList \/ BeginSample \/ AddSample

Spec == Init /\ [][Next]_<<objective, trials, levels, sample>>

-----------------------------------------------------------------------------
\* For times to first token of any distribution: an interval holds the true percentile with
\* the confidence it was asked for, and a level that is not measured again, since its
\* ceiling is outside its interval, is judged wrongly no more often than that leaves
\* ("whether a level's tail is too close to its ceiling to judge from its own requests",
\* objectives.py:157, tail.py:51).
VerdictsHold ==
  sample.n > 0 =>
    /\ Covers(sample.population, sample.n, sample.q, sample.c)
    /\ \A ceiling \in 0..4 : Judged(sample.population, sample.n, sample.q, sample.c, ceiling)

\* The screen has the confidence of the extreme samples ("that is a screen at
\* attained_confidence(len(samples), q)", tail.py:67).
ScreenAsAttained == sample.n > 0 => AsAttained(sample.population, sample.n, sample.q, sample.c)

Winner == Obj!Pick(trials, Everything)
Best == Obj!BestTok(trials, Obj!OkTrials(trials, Everything))

\* Every level of every trial that succeeded, with the constraint of the objective met.
FeasibleLevels ==
  {m \in UNION {trials[i].levels : i \in Obj!OkTrials(trials, Everything)} : Obj!Meets(m, Best)}

\* Without energy telemetry the objective "efficiency" chooses by throughput ("fall back to
\* ordering by tok/s so the objective still resolves", objectives.py:123), but for ties.
FallsBackToThroughput ==
  objective = "efficiency" /\ FeasibleLevels # {} /\ (\A m \in FeasibleLevels : m.joules = Obj!Unknown) =>
    \A m \in FeasibleLevels : 100 * (m.tok - Obj!At(trials[Winner], Best).tok) <= 30 * m.tok
=============================================================================
