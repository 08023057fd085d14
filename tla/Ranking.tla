------------------------------ MODULE Ranking ------------------------------
(***************************************************************************)
(* The objectives over lists of trials that grow as a search makes them:   *)
(* after every trial the winner is asked for, and after every level of a   *)
(* trial the level it is scored at.                                        *)
(*                                                                         *)
(* The objective is a variable that is chosen once, so that one behaviour  *)
(* of each is compared; the constant Objective is not used here, and the   *)
(* instance Obj has the variable in its place.                               *)
(***************************************************************************)
EXTENDS Objectives

CONSTANTS
  Trials,             \* what a trial may be
  Levels,             \* what may be measured at a level
  MaxTrials,          \* bounds: how long the lists grow
  MaxLevels

\* What is measured at a level, with the energy known to be below NoEnergy or not known.
LevelType == [tok : Nat, ttft : Nat, wait : Int, joules : {Unknown} \cup 0..NoEnergy]

\* A trial that succeeded was measured at a level at least, and configurations that differ
\* in power only have the same strategies and the same room.
ASSUME ListsAssumption ==
  /\ \A t \in Trials : t.ok =>
       /\ IsFiniteSet(t.levels) /\ t.levels # {} /\ t.levels \subseteq LevelType
       /\ t.strategies \in Nat /\ t.room \in Int
  /\ \A t, u \in Trials : t.ok /\ u.ok /\ t.base = u.base => t.strategies = u.strategies /\ t.room = u.room
  /\ Levels \subseteq LevelType
  /\ MaxTrials \in Nat /\ MaxLevels \in Nat

VARIABLES objective, trials, levels

Obj == INSTANCE Objectives WITH Objective <- objective

InitRanking ==
  /\ objective \in Objectives
  /\ trials = <<>>
  /\ levels = <<>>

AddTrial ==
  /\ levels = <<>>
  /\ Len(trials) < MaxTrials
  /\ \E t \in Trials : trials' = Append(trials, t)
  /\ UNCHANGED <<objective, levels>>

\* The levels are listed by load, and throughput rises with load.
AddLevel ==
  /\ trials = <<>>
  /\ Len(levels) < MaxLevels
  /\ \E l \in Levels :
       /\ levels # <<>> => levels[Len(levels)].tok <= l.tok
       /\ levels' = Append(levels, l)
  /\ UNCHANGED <<objective, trials>>

NextRanking == AddTrial \/ AddLevel

SpecRanking == InitRanking /\ [][NextRanking]_<<objective, trials, levels>>

-----------------------------------------------------------------------------
(* Properties.                                                             *)

Everything == DOMAIN trials

\* pick(): the winner of every list meets the constraint if any trial does, and is near the
\* best.
WinnerNearBest == Obj!NearBest(trials, Everything)

\* pick(): the winner of every list, if it is capped, is better than its like or saves energy.
CapEarnsItsPlace == Obj!CapEarned(trials, Everything)

\* enough_level(): every trial scores the same when its levels are measured from the top
\* until one is enough.
EnoughSettles == Obj!Settles(levels)
=============================================================================
