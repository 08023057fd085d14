---------------------------- MODULE SearchProofs ----------------------------
(***************************************************************************)
(* What the staged search keeps, for any grid, any engines, any budget and *)
(* any number of surprises: no configuration is measured twice, the budget *)
(* is overrun by less than one trial, the leader of stage 1 is kept, and a *)
(* search that saw a success has a winner, chosen on fresh runs if it can. *)
(* And what any ranking of trials promises of its winner, for any trials.  *)
(***************************************************************************)
EXTENDS Search, Ranking, TLAPS, FiniteSetTheorems, SequenceTheorems, WellFoundedInduction

-----------------------------------------------------------------------------
(* Finite sets in an order.  An order is the set of the pairs whose first  *)
(* element comes before the second.                                        *)

Orders(R, S) ==
  /\ \A x, y \in S : x # y => (<<x, y>> \in R <=> <<y, x>> \notin R)
  /\ \A x, y, z \in S : x # y /\ y # z /\ x # z /\ <<x, y>> \in R /\ <<y, z>> \in R => <<x, z>> \in R

Below(R, S, x) == {y \in S \ {x} : <<y, x>> \in R}

\* What comes before an element is fewer than all, and more for the later of two.
LEMMA BelowCounts ==
  ASSUME NEW S, IsFiniteSet(S), NEW R, Orders(R, S), NEW x \in S
  PROVE  /\ IsFiniteSet(Below(R, S, x))
         /\ Cardinality(Below(R, S, x)) \in 0..(Cardinality(S) - 1)
         /\ \A z \in S \ {x} : <<x, z>> \in R => Cardinality(Below(R, S, x)) < Cardinality(Below(R, S, z))
<1>0. Cardinality(S) \in Nat
  BY FS_CardinalityType
<1>1. \A y \in S : /\ IsFiniteSet(Below(R, S, y)) /\ Cardinality(Below(R, S, y)) \in Nat
                   /\ Cardinality(Below(R, S, y)) <= Cardinality(S) - 1
  <2> TAKE y \in S
  <2>1. Below(R, S, y) \in SUBSET (S \ {y})
    BY DEF Below
  <2>2. IsFiniteSet(S \ {y}) /\ Cardinality(S \ {y}) = Cardinality(S) - 1
    BY FS_RemoveElement
  <2> QED BY <2>1, <2>2, FS_Subset, FS_CardinalityType
<1>2. ASSUME NEW z \in S \ {x}, <<x, z>> \in R
      PROVE  Cardinality(Below(R, S, x)) < Cardinality(Below(R, S, z))
  <2>1. Below(R, S, x) \cup {x} \in SUBSET Below(R, S, z)
    <3>1. x \in Below(R, S, z)
      BY <1>2 DEF Below
    <3>2. ASSUME NEW y \in S, y # x, <<y, x>> \in R PROVE y \in Below(R, S, z)
      <4>1. y # z
        BY <1>2, <3>2 DEF Orders
      <4> QED BY <1>2, <3>2, <4>1 DEF Orders, Below
    <3> QED BY <3>1, <3>2 DEF Below
  <2>2. x \notin Below(R, S, x)
    BY DEF Below
  <2>3. Cardinality(Below(R, S, x) \cup {x}) = Cardinality(Below(R, S, x)) + 1
    BY <1>1, <2>2, FS_AddElement
  <2>4. Cardinality(Below(R, S, x) \cup {x}) <= Cardinality(Below(R, S, z))
    BY <1>1, <2>1, FS_Subset
  <2> QED BY <1>1, <2>3, <2>4
<1> QED BY <1>0, <1>1, <1>2

\* Every place in an order is taken.
LEMMA PlaceTaken ==
  ASSUME NEW S, IsFiniteSet(S), NEW R, Orders(R, S), NEW k \in 1..Cardinality(S)
  PROVE  \E x \in S : Cardinality(Below(R, S, x)) = k - 1
<1> DEFINE n == Cardinality(S)
           place == [x \in S |-> Cardinality(Below(R, S, x))]
<1>1. n \in Nat
  BY FS_CardinalityType
<1>2. place \in [S -> 0..(n - 1)]
  BY BelowCounts
<1>3. ASSUME NEW x \in S, NEW z \in S, place[x] = place[z], x # z PROVE FALSE
  <2>1. <<x, z>> \in R \/ <<z, x>> \in R
    BY <1>3 DEF Orders
  <2>2. Cardinality(Below(R, S, x)) = Cardinality(Below(R, S, z))
    BY <1>3
  <2>3. Cardinality(Below(R, S, x)) \in Nat /\ Cardinality(Below(R, S, z)) \in Nat
    BY BelowCounts
  <2>4. <<x, z>> \in R => Cardinality(Below(R, S, x)) < Cardinality(Below(R, S, z))
    BY <1>3, BelowCounts
  <2>5. <<z, x>> \in R => Cardinality(Below(R, S, z)) < Cardinality(Below(R, S, x))
    BY <1>3, BelowCounts
  <2> QED BY <2>1, <2>2, <2>3, <2>4, <2>5
<1>4. place \in Injection(S, 0..(n - 1))
  BY <1>2, <1>3 DEF Injection, IsInjective
<1>5. IsFiniteSet(0..(n - 1)) /\ Cardinality(0..(n - 1)) = n
  <2> HIDE DEF n
  <2>1. 0 \in Int /\ n - 1 \in Int
    BY <1>1
  <2>2. IsFiniteSet(0..(n - 1)) /\ Cardinality(0..(n - 1)) = IF 0 > n - 1 THEN 0 ELSE n - 1 - 0 + 1
    BY <2>1, FS_Interval
  <2> QED BY <1>1, <2>2
<1>6. place \in Surjection(S, 0..(n - 1))
  BY <1>4, <1>5, FS_Injection
<1>7. k - 1 \in 0..(n - 1)
  BY <1>1
<1>8. PICK x \in S : place[x] = k - 1
  BY <1>6, <1>7 DEF Surjection
<1> QED BY <1>8

\* A finite set that is not empty has a first element, which alone has nothing before it.
LEMMA FirstExists ==
  ASSUME NEW S, IsFiniteSet(S), S # {}, NEW R, Orders(R, S)
  PROVE  /\ \E x \in S : \A y \in S \ {x} : <<x, y>> \in R
         /\ \A x \in S : Cardinality(Below(R, S, x)) = 0 <=> \A y \in S \ {x} : <<x, y>> \in R
<1>1. Cardinality(S) \in Nat /\ Cardinality(S) # 0
  BY FS_CardinalityType, FS_EmptySet
<1>2. PICK x \in S : Cardinality(Below(R, S, x)) = 0
  <2>1. 1 \in 1..Cardinality(S)
    BY <1>1
  <2>2. \E x \in S : Cardinality(Below(R, S, x)) = 1 - 1
    BY <2>1, PlaceTaken
  <2> QED BY <2>2
<1>3. \A z \in S : Cardinality(Below(R, S, z)) = 0 <=> \A y \in S \ {z} : <<z, y>> \in R
  <2> TAKE z \in S
  <2>1. Cardinality(Below(R, S, z)) = 0 <=> Below(R, S, z) = {}
    BY BelowCounts, FS_EmptySet
  <2>2. Below(R, S, z) = {} <=> \A y \in S \ {z} : <<z, y>> \in R
    BY DEF Below, Orders
  <2> QED BY <2>1, <2>2
<1> QED BY <1>2, <1>3

\* The greatest of finitely many integers.
LEMMA MaxIn ==
  ASSUME NEW S \in SUBSET Int, IsFiniteSet(S), S # {}
  PROVE  MaxOf(S) \in S /\ \A y \in S : y <= MaxOf(S)
<1> DEFINE R == {p \in S \X S : p[1] > p[2]}
<1>1. Orders(R, S)
  BY DEF Orders
<1>2. \A x, y \in S : <<x, y>> \in R => y <= x
  OBVIOUS
<1> HIDE DEF R
<1>3. PICK x \in S : \A y \in S \ {x} : <<x, y>> \in R
  BY <1>1, FirstExists
<1>4. ASSUME NEW y \in S PROVE y <= x
  <2>1. CASE y = x
    BY <2>1
  <2>2. CASE y # x
    BY <1>2, <1>3, <2>2
  <2> QED BY <2>1, <2>2
<1> QED BY <1>4 DEF MaxOf

LEMMA MaxOfTwo ==
  ASSUME NEW a \in Int, NEW b \in Int
  PROVE  /\ MaxOf({a, b}) = IF a <= b THEN b ELSE a
BY DEF MaxOf

-----------------------------------------------------------------------------
(* Sequences.                                                              *)

\* A sorted set of numbers lists its elements.
LEMMA SortedNumbers ==
  ASSUME NEW K \in SUBSET Int, IsFiniteSet(K), NEW j \in 1..Cardinality(K)
  PROVE  Ascending(K)[j] \in K
<1> DEFINE R == {p \in K \X K : p[1] < p[2]}
<1>1. Orders(R, K)
  BY DEF Orders
<1>2. \A x \in K : Below(R, K, x) = {y \in K \ {x} : y < x}
  BY DEF Below
<1> HIDE DEF R
<1>3. PICK x \in K : Cardinality(Below(R, K, x)) = j - 1
  BY <1>1, PlaceTaken
<1>4. Cardinality({y \in K \ {x} : y < x}) = j - 1
  BY <1>2, <1>3
<1>5. Ascending(K)[j] = CHOOSE z \in K : Cardinality({y \in K \ {z} : y < z}) = j - 1
  BY DEF SortedBy, Ascending
<1> QED BY <1>4, <1>5

\* Some elements of a sequence are a sequence, of as many as there are positions.
LEMMA PickedIsSeq ==
  ASSUME NEW S, NEW s \in Seq(S), NEW K \in SUBSET DOMAIN s
  PROVE  Picked(s, K) \in Seq({s[k] : k \in K}) /\ (K # {} => Picked(s, K) # <<>>)
<1>1. DOMAIN s = 1..Len(s) /\ Len(s) \in Nat
  OBVIOUS
<1>2. IsFiniteSet(K) /\ K \in SUBSET Int
  <2>1. IsFiniteSet(1..Len(s))
    BY <1>1, FS_Interval
  <2> QED BY <1>1, <2>1, FS_Subset
<1>3. Cardinality(K) \in Nat /\ (K # {} => Cardinality(K) # 0)
  BY <1>2, FS_CardinalityType, FS_EmptySet
<1>4. \A j \in 1..Cardinality(K) : Ascending(K)[j] \in K
  BY <1>2, SortedNumbers
<1>5. Picked(s, K) \in [1..Cardinality(K) -> {s[k] : k \in K}]
  BY <1>4 DEF Picked
<1> QED BY <1>3, <1>5

\* The first elements of a sequence.
LEMMA FirstOfIsSeq ==
  ASSUME NEW S, NEW s \in Seq(S), NEW n \in Nat
  PROVE  FirstOf(s, n) \in Seq(S) /\ (s # <<>> /\ n # 0 => FirstOf(s, n) # <<>>)
<1>1. Len(s) \in Nat /\ (s # <<>> => Len(s) # 0)
  OBVIOUS
<1> DEFINE m == IF Len(s) < n THEN Len(s) ELSE n
<1>2. m \in Nat /\ m <= Len(s) /\ (s # <<>> /\ n # 0 => m # 0)
  BY <1>1
<1>3. \A i \in 1..m : s[i] \in S
  BY <1>1, <1>2
<1> HIDE DEF m
<1>4. SubSeq(s, 1, m) \in Seq(S) /\ Len(SubSeq(s, 1, m)) = IF 1 <= m THEN m - 1 + 1 ELSE 0
  BY <1>2, <1>3, SubSeqProperties
<1>5. FirstOf(s, n) = SubSeq(s, 1, m)
  BY DEF FirstOf, m
<1> QED BY <1>2, <1>4, <1>5

\* A function on an interval from 1 is a sequence of its values.
LEMMA ListIsSeq ==
  ASSUME NEW n \in Nat, NEW f, f = [k \in 1..n |-> f[k]]
  PROVE  f \in Seq(ToSet(f)) /\ Len(f) = n /\ DOMAIN f = 1..n
<1>1. f \in [1..n -> ToSet(f)]
  BY DEF ToSet
<1> QED BY <1>1

LEMMA MapIsSeq ==
  ASSUME NEW S, NEW n \in Nat, NEW f \in [1..n -> S]
  PROVE  f \in Seq(S) /\ Len(f) = n /\ DOMAIN f = 1..n
OBVIOUS

\* What a sequence of anything is: it can be joined, extended and shortened.
LEMMA SequenceOf ==
  ASSUME NEW S, NEW s \in Seq(S)
  PROVE  IsSequence(s) /\ ToSet(s) \in SUBSET S /\ (s # <<>> => Head(s) \in ToSet(s) /\ IsSequence(Tail(s)))
<1>1. s = [k \in 1..Len(s) |-> s[k]] /\ Len(s) \in Nat /\ DOMAIN s = 1..Len(s)
  OBVIOUS
<1>2. IsSequence(s)
  BY <1>1, ListIsSeq DEF IsSequence
<1>3. ToSet(s) \in SUBSET S
  BY <1>1 DEF ToSet
<1>4. ASSUME s # <<>> PROVE Head(s) \in ToSet(s) /\ IsSequence(Tail(s))
  <2>1. Tail(s) \in Seq(S) /\ Head(s) = s[1] /\ Len(s) # 0
    BY <1>4
  <2> DEFINE t == Tail(s)
  <2>2. t \in Seq(S)
    BY <2>1
  <2> HIDE DEF t
  <2>3. t = [k \in 1..Len(t) |-> t[k]] /\ Len(t) \in Nat
    BY <2>2
  <2>4. IsSequence(t)
    BY <2>3, ListIsSeq DEF IsSequence
  <2>5. Head(s) \in ToSet(s)
    BY <1>1, <2>1 DEF ToSet
  <2> QED BY <2>4, <2>5 DEF t
<1> QED BY <1>2, <1>3, <1>4

-----------------------------------------------------------------------------
(* Trials and the records they are compared by.                            *)

\* The one level of a trial.
LevelOf(t) == [tok |-> t.out.tok, ttft |-> t.out.ttft, wait |-> 1, joules |-> IF t.cfg.capped THEN 7 ELSE 9]

LEMMA OutcomeTyped ==
  ASSUME NEW o \in Outcomes \cup {Typical}
  PROVE  /\ o.ok \in BOOLEAN /\ o.launched \in BOOLEAN /\ o.oom \in BOOLEAN
         /\ o.tok \in Nat /\ o.ttft \in Nat /\ o.time \in Nat
         /\ o.ok => o.launched
<1>1. CASE o = Typical
  BY <1>1 DEF Typical
<1>2. CASE o \in Outcomes
  <2>1. o \in [ok : BOOLEAN, launched : BOOLEAN, oom : BOOLEAN, tok : Nat, ttft : Nat, time : Nat]
    BY <1>2, OutcomesAssumption, Zenon
  <2>2. o.ok => o.launched
    BY <1>2, OutcomesAssumption, Zenon
  <2> QED BY <2>1, <2>2
<1> QED BY <1>1, <1>2

LEMMA TrialTyped ==
  ASSUME NEW t, IsTrial(t)
  PROVE  /\ t.ok \in BOOLEAN /\ t.ok = t.out.ok /\ t.base = Base(t.cfg)
         /\ t.strategies \in Nat /\ t.room \in Int
         /\ t.levels = {LevelOf(t)}
         /\ LevelOf(t).tok \in Nat /\ LevelOf(t).ttft \in Nat
         /\ t.cfg \in Configs /\ t.stage \in Measuring /\ t.out \in Outcomes \cup {Typical}
<1>1. /\ t.cfg \in Configs /\ t.stage \in Measuring /\ t.out \in Outcomes \cup {Typical}
      /\ t = Result(t.cfg, t.stage, t.out)
  BY DEF IsTrial
<1>2. /\ t.ok = t.out.ok /\ t.strategies = Cardinality(t.cfg.opts) /\ t.room = Room(t.cfg) /\ t.base = Base(t.cfg)
      /\ t.levels = {LevelOf(t)}
  <2> DEFINE r == Result(t.cfg, t.stage, t.out)
  <2>1. /\ r.ok = t.out.ok /\ r.strategies = Cardinality(t.cfg.opts) /\ r.room = Room(t.cfg) /\ r.base = Base(t.cfg)
        /\ r.levels = {LevelOf(t)}
    BY DEF Result, LevelOf
  <2>2. t = r
    BY <1>1
  <2> HIDE DEF r
  <2> QED BY <2>1, <2>2
<1>3. Cardinality(t.cfg.opts) \in Nat
  <2>1. IsFiniteSet({}) /\ {"prefill"} = {} \cup {"prefill"}
    BY FS_EmptySet
  <2>2. IsFiniteSet({"prefill"}) /\ {"prefill", "kv"} = {"prefill"} \cup {"kv"}
    BY FS_Singleton
  <2>3. IsFiniteSet({"prefill", "kv"}) /\ Strategies = {"prefill", "kv"} \cup {"spec"}
    BY <2>2, FS_AddElement DEF Strategies
  <2>4. IsFiniteSet(Strategies)
    BY <2>3, FS_AddElement
  <2>5. t.cfg.opts \in SUBSET Strategies
    BY <1>1 DEF Configs
  <2> QED BY <2>4, <2>5, FS_Subset, FS_CardinalityType
<1>4. Room(t.cfg) \in Int
  BY <1>1 DEF Room, Configs
<1>5. LevelOf(t).tok \in Nat /\ LevelOf(t).ttft \in Nat /\ t.ok \in BOOLEAN
  BY <1>1, <1>2, OutcomeTyped DEF LevelOf
<1> QED BY <1>1, <1>2, <1>3, <1>4, <1>5

\* The one level of a trial is the one it is scored at.
LEMMA LevelScored ==
  ASSUME NEW t, IsTrial(t), NEW best \in Int
  PROVE  /\ At(t, best) = LevelOf(t)
         /\ SummaryTok(t) = t.out.tok
         /\ Score(LevelOf(t)) \in Int /\ Joules(LevelOf(t)) \in Int
         /\ Violation(LevelOf(t), best) \in Nat /\ Meets(LevelOf(t), best) \in BOOLEAN
<1> DEFINE m == LevelOf(t)
<1>1. /\ t.levels = {m} /\ m.tok \in Nat /\ m.ttft \in Nat /\ m.wait \in Int /\ m.joules \in {7, 9}
      /\ m.tok = t.out.tok
  BY TrialTyped DEF LevelOf
<1> HIDE DEF m
<1>2. Score(m) \in Int /\ Joules(m) \in Int
  BY <1>1, ObjectiveAssumption DEF Score, Joules, Objectives, Unknown, NoEnergy
<1>3. Violation(m, best) \in Nat
  <2>1. 100 * (m.ttft - Ceiling) \in Int /\ FloorPercent * best - 100 * m.tok \in Int
    BY <1>1, ObjectiveAssumption
  <2>2. MaxOf({0, 100 * (m.ttft - Ceiling)}) \in Nat /\ MaxOf({0, FloorPercent * best - 100 * m.tok}) \in Nat
    BY <2>1, MaxOfTwo
  <2> QED BY <2>2, ObjectiveAssumption DEF Violation, Objectives
<1>4. ~LevelBefore(m, m, best)
  BY <1>2, <1>3 DEF LevelBefore
<1>5. At(t, best) = m
  BY <1>1, <1>4 DEF At
<1>6. SummaryTok(t) = t.out.tok
  <2>1. {l.tok : l \in t.levels} = {t.out.tok}
    BY <1>1
  <2> QED BY <1>1, <2>1 DEF SummaryTok, MaxOf
<1> QED BY <1>2, <1>3, <1>5, <1>6 DEF m, Meets

\* The records that are compared: of different trials, and feasible when nothing is violated.
Records(S) ==
  /\ IsFiniteSet(S)
  /\ \A x \in S : /\ x.i \in Int /\ x.strategies \in Int /\ x.room \in Int /\ x.score \in Int /\ x.joules \in Int
                  /\ x.violation \in Nat /\ x.feasible = (x.violation = 0)
  /\ \A x, y \in S : x.i = y.i => x = y

RecordOf(ts, i, best) == ScoredAt(ts[i], i, LevelOf(ts[i]), best)

\* A finite set has finitely many images.
LEMMA FiniteImage ==
  ASSUME NEW S, IsFiniteSet(S), NEW f, f = [x \in S |-> f[x]]
  PROVE  IsFiniteSet({f[x] : x \in S})
<1>1. f \in Surjection(S, {f[x] : x \in S})
  BY DEF Surjection
<1> QED BY <1>1, FS_Surjection

LEMMA BestTokTyped ==
  ASSUME NEW ts, AreTrials(ts), NEW I \in SUBSET DOMAIN ts
  PROVE  IsFiniteSet(I) /\ BestTok(ts, OkTrials(ts, I)) \in Nat
<1>1. DOMAIN ts = 1..Len(ts) /\ Len(ts) \in Nat
  BY LenProperties DEF AreTrials, IsSequence
<1>2. IsFiniteSet(I)
  <2>1. IsFiniteSet(1..Len(ts))
    BY <1>1, FS_Interval
  <2> QED BY <1>1, <2>1, FS_Subset
<1> DEFINE J == OkTrials(ts, I)
           f == [i \in J |-> SummaryTok(ts[i])]
           T == {0} \cup {SummaryTok(ts[i]) : i \in J}
<1>3. J \in SUBSET I /\ IsFiniteSet(J)
  BY <1>2, FS_Subset DEF OkTrials
<1>4. \A i \in J : SummaryTok(ts[i]) \in Nat
  BY <1>3, LevelScored, TrialTyped, OutcomeTyped, 0 \in Int DEF AreTrials
<1>5. IsFiniteSet({f[i] : i \in J})
  <2> HIDE DEF J
  <2>1. f = [i \in J |-> f[i]]
    OBVIOUS
  <2> HIDE DEF f
  <2> QED BY <1>3, <2>1, FiniteImage
<1>6. T = {f[i] : i \in J} \cup {0}
  OBVIOUS
<1>7. IsFiniteSet(T) /\ T # {} /\ T \in SUBSET Nat
  BY <1>4, <1>5, <1>6, FS_AddElement
<1>8. MaxOf(T) \in T
  <2> HIDE DEF T
  <2> QED BY <1>7, MaxIn
<1> QED BY <1>2, <1>7, <1>8 DEF BestTok

\* rank() compares each trial that succeeded at its one level.
LEMMA ScoredRecords ==
  ASSUME NEW ts, AreTrials(ts), NEW I \in SUBSET DOMAIN ts
  PROVE  /\ Scored(ts, I) = {RecordOf(ts, i, BestTok(ts, OkTrials(ts, I))) : i \in OkTrials(ts, I)}
         /\ Records(Scored(ts, I))
         /\ \A x \in Scored(ts, I) : x.i \in OkTrials(ts, I)
<1> DEFINE J == OkTrials(ts, I)
           B == BestTok(ts, J)
           f == [i \in J |-> RecordOf(ts, i, B)]
           S == {f[i] : i \in J}
<1>1. IsFiniteSet(I) /\ B \in Nat
  BY BestTokTyped
<1>2. DOMAIN ts \in SUBSET Int
  BY LenProperties DEF AreTrials, IsSequence
<1>3. J \in SUBSET I /\ IsFiniteSet(J)
  BY <1>1, FS_Subset DEF OkTrials
<1>4. \A i \in J : IsTrial(ts[i])
  BY <1>3 DEF AreTrials
<1> HIDE DEF J, B
<1>5. \A i \in J : At(ts[i], B) = LevelOf(ts[i])
  BY <1>1, <1>4, LevelScored
<1>6. Scored(ts, I) = S
  <2>1. \A i \in J : ScoredAt(ts[i], i, At(ts[i], B), B) = f[i]
    BY <1>5 DEF RecordOf
  <2>2. Scored(ts, I) = {ScoredAt(ts[i], i, At(ts[i], B), B) : i \in J}
    BY DEF Scored, ScoredAgainst, J, B
  <2> HIDE DEF f
  <2> QED BY <2>1, <2>2
<1>7. IsFiniteSet(S)
  <2>1. f = [i \in J |-> f[i]]
    OBVIOUS
  <2> HIDE DEF f
  <2> QED BY <1>3, <2>1, FiniteImage
<1>8. ASSUME NEW i \in J
      PROVE  /\ f[i].i = i
             /\ f[i].strategies \in Int /\ f[i].room \in Int /\ f[i].score \in Int /\ f[i].joules \in Int
             /\ f[i].violation \in Nat /\ f[i].feasible = (f[i].violation = 0)
  <2>1. /\ f[i].i = i /\ f[i].strategies = ts[i].strategies /\ f[i].room = ts[i].room
        /\ f[i].score = Score(LevelOf(ts[i])) /\ f[i].joules = Joules(LevelOf(ts[i]))
        /\ f[i].violation = Violation(LevelOf(ts[i]), B) /\ f[i].feasible = Meets(LevelOf(ts[i]), B)
    BY DEF RecordOf, ScoredAt
  <2> HIDE DEF f
  <2>2. /\ ts[i].strategies \in Nat /\ ts[i].room \in Int
    BY <1>4, TrialTyped
  <2>3. /\ Score(LevelOf(ts[i])) \in Int /\ Joules(LevelOf(ts[i])) \in Int /\ Violation(LevelOf(ts[i]), B) \in Nat
    BY <1>1, <1>4, LevelScored
  <2>4. f[i].feasible = (f[i].violation = 0)
    BY <2>1, Zenon DEF Meets
  <2> QED BY <2>1, <2>2, <2>3, <2>4
<1>9. \A x \in S : x.i \in J
  BY <1>8
<1>10. Records(S)
  <2> HIDE DEF f
  <2>1. \A i \in J : i \in Int
    BY <1>2, <1>3
  <2>2. \A x, y \in S : x.i = y.i => x = y
    BY <1>8
  <2>3. ASSUME NEW x \in S
        PROVE  /\ x.i \in Int /\ x.strategies \in Int /\ x.room \in Int /\ x.score \in Int /\ x.joules \in Int
               /\ x.violation \in Nat /\ x.feasible = (x.violation = 0)
    <3>1. PICK i \in J : x = f[i]
      OBVIOUS
    <3> QED BY <1>8, <2>1, <3>1
  <2> QED BY <1>7, <2>2, <2>3 DEF Records
<1>11. S = {RecordOf(ts, i, B) : i \in J}
  OBVIOUS
<1> QED BY <1>6, <1>9, <1>10, <1>11 DEF J, B

\* Records of some of the trials are records.
LEMMA SomeRecords ==
  ASSUME NEW S, Records(S), NEW T \in SUBSET S
  PROVE  Records(T)
BY FS_Subset DEF Records

\* Records differ in their trial, so that the order of rank() is one.
LEMMA BeforeOrders ==
  ASSUME NEW S, Records(S)
  PROVE  Orders({p \in S \X S : Before(p[1], p[2])}, S)
<1> DEFINE Earlier(x, y) ==
             \/ x.violation < y.violation
             \/ x.violation = y.violation /\ x.score < y.score
             \/ x.violation = y.violation /\ x.score = y.score /\ x.i < y.i
<1>1. ASSUME NEW x \in S, NEW y \in S PROVE Before(x, y) <=> Earlier(x, y)
  <2>1. /\ x.violation \in Nat /\ y.violation \in Nat
        /\ x.feasible = (x.violation = 0) /\ y.feasible = (y.violation = 0)
    BY DEF Records
  <2>2. CASE x.violation = 0 /\ y.violation = 0
    <3>1. x.feasible = TRUE /\ y.feasible = TRUE
      BY <2>1, <2>2
    <3> QED BY <3>1 DEF Before
  <2>3. CASE x.violation = 0 /\ y.violation # 0
    <3>1. x.feasible = TRUE /\ y.feasible = FALSE
      BY <2>1, <2>3
    <3>2. Before(x, y)
      BY <3>1 DEF Before
    <3> QED BY <2>1, <2>3, <3>2
  <2>4. CASE x.violation # 0 /\ y.violation = 0
    <3>1. x.feasible = FALSE /\ y.feasible = TRUE
      BY <2>1, <2>4
    <3>2. ~Before(x, y)
      BY <3>1 DEF Before
    <3> QED BY <2>1, <2>4, <3>2
  <2>5. CASE x.violation # 0 /\ y.violation # 0
    BY <2>1, <2>5 DEF Before
  <2> QED BY <2>2, <2>3, <2>4, <2>5
<1>2. ASSUME NEW x \in S, NEW y \in S, x # y PROVE Earlier(x, y) <=> ~Earlier(y, x)
  <2>1. x.i # y.i
    BY <1>2 DEF Records
  <2> QED BY <2>1 DEF Records
<1>3. ASSUME NEW x \in S, NEW y \in S, NEW z \in S, Earlier(x, y), Earlier(y, z) PROVE Earlier(x, z)
  BY <1>3 DEF Records
<1> HIDE DEF Earlier
<1> DEFINE R == {p \in S \X S : Before(p[1], p[2])}
<1>4. \A x, y \in S : <<x, y>> \in R <=> Earlier(x, y)
  BY <1>1
<1> HIDE DEF R
<1>5. Orders(R, S)
  BY <1>2, <1>3, <1>4 DEF Orders
<1> QED BY <1>5 DEF R

LEMMA TieBeforeOrders ==
  ASSUME NEW S, Records(S)
  PROVE  Orders({p \in S \X S : TieBefore(p[1], p[2])}, S)
<1> DEFINE R == {p \in S \X S : TieBefore(p[1], p[2])}
           Q == {p \in S \X S : Before(p[1], p[2])}
           First(x, y) ==
             \/ x.strategies < y.strategies
             \/ x.strategies = y.strategies /\ x.room > y.room
             \/ x.strategies = y.strategies /\ x.room = y.room /\ x.joules < y.joules
           Same(x, y) == x.strategies = y.strategies /\ x.room = y.room /\ x.joules = y.joules
<1>1. \A x, y \in S : <<x, y>> \in R <=> First(x, y) \/ (Same(x, y) /\ <<x, y>> \in Q)
  BY DEF TieBefore
<1>2. Orders(Q, S)
  BY BeforeOrders
<1>3. ASSUME NEW x \in S, NEW y \in S
      PROVE  /\ Same(x, y) <=> Same(y, x)
             /\ Same(x, y) => ~First(x, y)
             /\ ~Same(x, y) => (First(x, y) <=> ~First(y, x))
  BY DEF Records
<1>4. ASSUME NEW x \in S, NEW y \in S, NEW z \in S
      PROVE  /\ First(x, y) /\ First(y, z) => First(x, z)
             /\ First(x, y) /\ Same(y, z) => First(x, z)
             /\ Same(x, y) /\ First(y, z) => First(x, z)
             /\ Same(x, y) /\ Same(y, z) => Same(x, z)
  BY DEF Records
<1> HIDE DEF R, Q, First, Same
<1>5. \A x, y \in S : x # y => (<<x, y>> \in R <=> <<y, x>> \notin R)
  BY <1>1, <1>2, <1>3 DEF Orders
<1>6. \A x, y, z \in S : x # y /\ y # z /\ x # z /\ <<x, y>> \in R /\ <<y, z>> \in R => <<x, z>> \in R
  BY <1>1, <1>2, <1>4 DEF Orders
<1>7. Orders(R, S)
  BY <1>5, <1>6 DEF Orders
<1> QED BY <1>7 DEF R

\* The leader of some records, and the winner among those that tie with it.
LEMMA LeaderAmong ==
  ASSUME NEW S, Records(S), S # {}
  PROVE  /\ FirstIn(S, Before) \in S
         /\ \A y \in S \ {FirstIn(S, Before)} : Before(FirstIn(S, Before), y)
         /\ Tied(S) \in SUBSET S /\ Tied(S) # {}
<1> DEFINE R == {p \in S \X S : Before(p[1], p[2])}
           lead == FirstIn(S, Before)
<1>1. Orders(R, S)
  BY BeforeOrders
<1>2. \A x, y \in S : <<x, y>> \in R <=> Before(x, y)
  OBVIOUS
<1>3. IsFiniteSet(S)
  BY DEF Records
<1>4. \E x \in S : \A y \in S \ {x} : <<x, y>> \in R
  <2> HIDE DEF R
  <2> QED BY <1>1, <1>3, FirstExists
<1>5. lead \in S /\ \A y \in S \ {lead} : Before(lead, y)
  BY <1>2, <1>4 DEF FirstIn
<1> HIDE DEF lead
<1>6. lead.feasible => Joins(lead, lead)
  <2>1. lead.score \in Int
    BY <1>5 DEF Records
  <2>2. 100 * AbsOf(lead.score - lead.score) = 0
    BY <2>1 DEF AbsOf
  <2>3. AbsOf(lead.score) \in Nat
    BY <2>1 DEF AbsOf
  <2>4. NoisePercent * AbsOf(lead.score) >= 0
    BY <2>3, ObjectiveAssumption
  <2> QED BY <2>2, <2>4 DEF Joins
<1>7. Tied(S) = IF lead.feasible THEN {x \in S : Joins(lead, x)} ELSE {lead}
  BY DEF Tied, lead
<1> QED BY <1>5, <1>6, <1>7 DEF lead

LEMMA WinnerAmong ==
  ASSUME NEW S, Records(S), S # {}
  PROVE  \E x \in Tied(S) : /\ x = FirstIn(Tied(S), TieBefore) /\ WinnerOf(S) = x.i
                            /\ \A y \in Tied(S) \ {x} : TieBefore(x, y)
<1> DEFINE T == Tied(S)
           R == {p \in T \X T : TieBefore(p[1], p[2])}
<1>1. T \in SUBSET S /\ T # {}
  BY LeaderAmong
<1>2. Records(T)
  BY <1>1, SomeRecords
<1> HIDE DEF T
<1>3. Orders(R, T) /\ IsFiniteSet(T)
  BY <1>2, TieBeforeOrders DEF Records
<1>4. \A x, y \in T : <<x, y>> \in R <=> TieBefore(x, y)
  OBVIOUS
<1>5. \E x \in T : \A y \in T \ {x} : <<x, y>> \in R
  <2> HIDE DEF R
  <2> QED BY <1>1, <1>3, FirstExists
<1>6. PICK x \in T : x = FirstIn(T, TieBefore) /\ \A y \in T \ {x} : TieBefore(x, y)
  BY <1>4, <1>5 DEF FirstIn
<1>7. WinnerOf(S) = x.i
  BY <1>6 DEF WinnerOf, T
<1> QED BY <1>6, <1>7 DEF T

\* pick() returns a trial that succeeded, unless there is none.
LEMMA PickSucceeds ==
  ASSUME NEW ts, AreTrials(ts), NEW I \in SUBSET DOMAIN ts
  PROVE  /\ OkTrials(ts, I) = {} => Pick(ts, I) = None
         /\ OkTrials(ts, I) # {} => Pick(ts, I) \in OkTrials(ts, I)
<1> DEFINE S == Scored(ts, I)
<1>1. S = {RecordOf(ts, i, BestTok(ts, OkTrials(ts, I))) : i \in OkTrials(ts, I)} /\ Records(S)
      /\ \A x \in S : x.i \in OkTrials(ts, I)
  BY ScoredRecords
<1> HIDE DEF S
<1>2. OkTrials(ts, I) = {} <=> S = {}
  BY <1>1
<1>3. Pick(ts, I) = WinnerOf(S)
  BY DEF Pick, S
<1>4. ASSUME S # {} PROVE WinnerOf(S) \in OkTrials(ts, I)
  <2>1. PICK x \in Tied(S) : WinnerOf(S) = x.i
    BY <1>1, <1>4, WinnerAmong
  <2>2. x \in S
    BY <1>1, <1>4, LeaderAmong
  <2> QED BY <1>1, <2>1, <2>2
<1> QED BY <1>2, <1>3, <1>4 DEF WinnerOf

\* A set in an order, sorted: a sequence of all its elements, each after those before it.
Sorts(s, R, S) ==
  /\ s \in Seq(S) /\ Len(s) = Cardinality(S)
  /\ S # {} => \A y \in S \ {s[1]} : <<s[1], y>> \in R
  /\ \A x \in S : \E k \in 1..Len(s) : s[k] = x
  /\ \A j, k \in 1..Len(s) : j < k => s[j] # s[k] /\ <<s[j], s[k]>> \in R

LEMMA SortedInOrder ==
  ASSUME NEW S, IsFiniteSet(S), NEW R, Orders(R, S), NEW s, s = [k \in 1..Cardinality(S) |-> s[k]],
         \A k \in 1..Cardinality(S) : (\E x \in S : Cardinality(Below(R, S, x)) = k - 1) =>
                                        s[k] \in S /\ Cardinality(Below(R, S, s[k])) = k - 1
  PROVE  Sorts(s, R, S)
<1> DEFINE n == Cardinality(S)
<1>1. n \in Nat /\ (S # {} => n # 0)
  BY FS_CardinalityType, FS_EmptySet
<1>2. \A k \in 1..n : s[k] \in S /\ Cardinality(Below(R, S, s[k])) = k - 1
  BY PlaceTaken
<1>3. ASSUME S # {} PROVE \A y \in S \ {s[1]} : <<s[1], y>> \in R
  <2>1. s[1] \in S /\ Cardinality(Below(R, S, s[1])) = 0
    BY <1>1, <1>2, <1>3
  <2> QED BY <1>3, <2>1, FirstExists
<1>4. s = [k \in 1..n |-> s[k]]
  OBVIOUS
<1> HIDE DEF n
<1>5. s \in Seq(ToSet(s)) /\ Len(s) = n /\ DOMAIN s = 1..n
  BY <1>1, <1>4, ListIsSeq
<1>6. s \in [1..n -> S]
  BY <1>2, <1>5
<1>7. s \in Seq(S)
  BY <1>1, <1>6, MapIsSeq
<1>8. ASSUME NEW x \in S, NEW y \in S, x # y
      PROVE  /\ <<x, y>> \in R \/ <<y, x>> \in R
             /\ <<x, y>> \in R => Cardinality(Below(R, S, x)) < Cardinality(Below(R, S, y))
             /\ <<y, x>> \in R => Cardinality(Below(R, S, y)) < Cardinality(Below(R, S, x))
  BY <1>8, BelowCounts DEF Orders
<1>9. ASSUME NEW x \in S PROVE \E k \in 1..n : s[k] = x
  <2> DEFINE k == Cardinality(Below(R, S, x)) + 1
  <2>1. k \in 1..n /\ Cardinality(Below(R, S, x)) = k - 1
    <3>1. Cardinality(Below(R, S, x)) \in 0..(n - 1)
      BY BelowCounts DEF n
    <3> QED BY <1>1, <3>1
  <2> HIDE DEF k
  <2>2. s[k] \in S /\ Cardinality(Below(R, S, s[k])) = k - 1
    BY <1>2, <2>1
  <2> DEFINE y == s[k]
  <2>3. y \in S /\ Cardinality(Below(R, S, y)) = k - 1 /\ k - 1 \in Int
    BY <1>1, <2>1, <2>2
  <2> HIDE DEF y
  <2>4. ASSUME x # y PROVE FALSE
    <3>1. /\ <<x, y>> \in R \/ <<y, x>> \in R
          /\ <<x, y>> \in R => Cardinality(Below(R, S, x)) < Cardinality(Below(R, S, y))
          /\ <<y, x>> \in R => Cardinality(Below(R, S, y)) < Cardinality(Below(R, S, x))
      BY <1>8, <2>3, <2>4
    <3> QED BY <2>1, <2>3, <3>1
  <2> QED BY <2>1, <2>4 DEF y
<1>10. ASSUME NEW j \in 1..n, NEW k \in 1..n, j < k
       PROVE  s[j] # s[k] /\ <<s[j], s[k]>> \in R
  <2>1. /\ s[j] \in S /\ Cardinality(Below(R, S, s[j])) = j - 1
        /\ s[k] \in S /\ Cardinality(Below(R, S, s[k])) = k - 1
    BY <1>2
  <2> DEFINE x == s[j]
             y == s[k]
  <2>2. /\ x \in S /\ Cardinality(Below(R, S, x)) = j - 1 /\ j - 1 \in Int
        /\ y \in S /\ Cardinality(Below(R, S, y)) = k - 1 /\ k - 1 \in Int /\ j - 1 < k - 1
    BY <1>1, <1>10, <2>1
  <2> HIDE DEF x, y
  <2>3. x # y
    BY <2>2
  <2>4. /\ <<x, y>> \in R \/ <<y, x>> \in R
        /\ <<y, x>> \in R => Cardinality(Below(R, S, y)) < Cardinality(Below(R, S, x))
    BY <1>8, <2>2, <2>3
  <2>5. <<x, y>> \in R
    BY <2>2, <2>4
  <2> QED BY <2>3, <2>5 DEF x, y
<1> QED BY <1>3, <1>5, <1>7, <1>9, <1>10 DEF Sorts, n

\* Sorted records are a sequence of all of them, in the order they are sorted by.
LEMMA RecordsSorted ==
  ASSUME NEW S, Records(S)
  PROVE  /\ SortedBy(S, Before) \in Seq(S)
         /\ \A x \in S : \E k \in 1..Len(SortedBy(S, Before)) : SortedBy(S, Before)[k] = x
         /\ \A j, k \in 1..Len(SortedBy(S, Before)) : j < k =>
              /\ SortedBy(S, Before)[j] # SortedBy(S, Before)[k]
              /\ Before(SortedBy(S, Before)[j], SortedBy(S, Before)[k])
         /\ \A x \in S : \E k \in 1..Len(SortedBy(S, TieBefore)) : SortedBy(S, TieBefore)[k] = x
         /\ \A j, k \in 1..Len(SortedBy(S, TieBefore)) : j < k =>
              SortedBy(S, TieBefore)[j] # SortedBy(S, TieBefore)[k]
         /\ SortedBy(S, TieBefore) \in Seq(S) /\ Len(SortedBy(S, TieBefore)) = Cardinality(S)
         /\ S # {} => \A y \in S \ {SortedBy(S, TieBefore)[1]} : TieBefore(SortedBy(S, TieBefore)[1], y)
<1> DEFINE R == {p \in S \X S : Before(p[1], p[2])}
           Q == {p \in S \X S : TieBefore(p[1], p[2])}
           s == SortedBy(S, Before)
           u == SortedBy(S, TieBefore)
<1>1. IsFiniteSet(S)
  BY DEF Records
<1>2. Orders(R, S) /\ Orders(Q, S)
  BY BeforeOrders, TieBeforeOrders
<1>3. \A x \in S : /\ Below(R, S, x) = {y \in S \ {x} : Before(y, x)}
                   /\ Below(Q, S, x) = {y \in S \ {x} : TieBefore(y, x)}
  BY DEF Below
<1>4. \A x, y \in S : (<<x, y>> \in Q => TieBefore(x, y)) /\ (<<x, y>> \in R => Before(x, y))
  OBVIOUS
<1> HIDE DEF R, Q
<1>5. ASSUME NEW k \in 1..Cardinality(S), NEW x \in S, Cardinality(Below(R, S, x)) = k - 1
      PROVE  s[k] \in S /\ Cardinality(Below(R, S, s[k])) = k - 1
  <2>1. s[k] = CHOOSE z \in S : Cardinality({y \in S \ {z} : Before(y, z)}) = k - 1
    BY DEF SortedBy
  <2>2. Cardinality({y \in S \ {x} : Before(y, x)}) = k - 1
    BY <1>3, <1>5
  <2> HIDE DEF s
  <2>3. s[k] \in S /\ Cardinality({y \in S \ {s[k]} : Before(y, s[k])}) = k - 1
    BY <2>1, <2>2
  <2> QED BY <1>3, <2>3
<1>6. ASSUME NEW k \in 1..Cardinality(S), NEW x \in S, Cardinality(Below(Q, S, x)) = k - 1
      PROVE  u[k] \in S /\ Cardinality(Below(Q, S, u[k])) = k - 1
  <2>1. u[k] = CHOOSE z \in S : Cardinality({y \in S \ {z} : TieBefore(y, z)}) = k - 1
    BY DEF SortedBy
  <2>2. Cardinality({y \in S \ {x} : TieBefore(y, x)}) = k - 1
    BY <1>3, <1>6
  <2> HIDE DEF u
  <2>3. u[k] \in S /\ Cardinality({y \in S \ {u[k]} : TieBefore(y, u[k])}) = k - 1
    BY <2>1, <2>2
  <2> QED BY <1>3, <2>3
<1>7. s = [k \in 1..Cardinality(S) |-> s[k]] /\ u = [k \in 1..Cardinality(S) |-> u[k]]
  <2> DEFINE F(k) == CHOOSE x \in S : Cardinality({y \in S \ {x} : Before(y, x)}) = k - 1
             G(k) == CHOOSE x \in S : Cardinality({y \in S \ {x} : TieBefore(y, x)}) = k - 1
  <2>1. s = [k \in 1..Cardinality(S) |-> F(k)] /\ u = [k \in 1..Cardinality(S) |-> G(k)]
    BY Zenon DEF SortedBy
  <2> HIDE DEF F, G, s, u
  <2> QED BY <2>1
<1> HIDE DEF s, u
<1>8. Sorts(s, R, S) /\ Sorts(u, Q, S)
  BY <1>1, <1>2, <1>5, <1>6, <1>7, SortedInOrder
<1>9. ASSUME S # {} PROVE \A y \in S \ {u[1]} : TieBefore(u[1], y)
  <2>1. u \in Seq(S) /\ Len(u) # 0
    BY <1>1, <1>8, <1>9, FS_EmptySet DEF Sorts
  <2>2. u[1] \in S
    BY <2>1
  <2> QED BY <1>4, <1>8, <1>9, <2>2 DEF Sorts
<1>10. ASSUME NEW j \in 1..Len(s), NEW k \in 1..Len(s), j < k PROVE s[j] # s[k] /\ Before(s[j], s[k])
  <2>1. s[j] \in S /\ s[k] \in S
    BY <1>8 DEF Sorts
  <2> QED BY <1>4, <1>8, <1>10, <2>1 DEF Sorts
<1> QED BY <1>8, <1>9, <1>10 DEF Sorts, s, u

\* rank() lists the trials that succeeded, its winner first.
LEMMA RankIsSeq ==
  ASSUME NEW ts, AreTrials(ts), NEW I \in SUBSET DOMAIN ts
  PROVE  /\ Rank(ts, I) \in Seq(Scored(ts, I))
         /\ OkTrials(ts, I) # {} => Rank(ts, I) # <<>> /\ Rank(ts, I)[1].i = Pick(ts, I)
<1> DEFINE S == Scored(ts, I)
           T == IF S = {} THEN {} ELSE Tied(S)
<1>1. Records(S) /\ S = {RecordOf(ts, i, BestTok(ts, OkTrials(ts, I))) : i \in OkTrials(ts, I)}
  BY ScoredRecords
<1> HIDE DEF S
<1>2. T \in SUBSET S /\ (S # {} => T # {})
  BY <1>1, LeaderAmong
<1>3. Rank(ts, I) = SortedBy(T, TieBefore) \o SortedBy(S \ T, Before)
  BY DEF Rank, RankOf, S
<1>4. OkTrials(ts, I) # {} => S # {}
  BY <1>1
<1>5. S # {} => T = Tied(S)
  OBVIOUS
<1> HIDE DEF T
<1>6. Records(T) /\ Records(S \ T)
  BY <1>1, <1>2, SomeRecords
<1>7. /\ SortedBy(T, TieBefore) \in Seq(T) /\ Len(SortedBy(T, TieBefore)) = Cardinality(T)
      /\ SortedBy(S \ T, Before) \in Seq(S \ T)
  BY <1>6, RecordsSorted
<1> DEFINE s == SortedBy(T, TieBefore)
           u == SortedBy(S \ T, Before)
<1>8. s \in Seq(S) /\ u \in Seq(S)
  BY <1>2, <1>7, SeqMonotonic
<1>9. ASSUME S # {} PROVE Len(s) > 0 /\ s[1] \in T /\ s[1].i = WinnerOf(S)
  <2>1. IsFiniteSet(T) /\ T # {}
    BY <1>2, <1>6, <1>9 DEF Records
  <2>2. Len(s) > 0
    BY <1>7, <2>1, FS_CardinalityType, FS_EmptySet
  <2>3. s[1] \in T
    BY <1>7, <2>2
  <2>4. PICK x \in T : WinnerOf(S) = x.i /\ \A y \in T \ {x} : TieBefore(x, y)
    BY <1>1, <1>5, <1>9, WinnerAmong
  <2>5. \A y \in T \ {s[1]} : TieBefore(s[1], y)
    BY <1>6, <2>1, RecordsSorted
  <2>6. s[1] = x
    <3> SUFFICES ASSUME s[1] # x PROVE FALSE
      OBVIOUS
    <3> DEFINE Q == {p \in T \X T : TieBefore(p[1], p[2])}
    <3> HIDE DEF s
    <3>1. <<s[1], x>> \in Q /\ <<x, s[1]>> \in Q
      BY <2>3, <2>4, <2>5
    <3>2. Orders(Q, T)
      BY <1>6, TieBeforeOrders
    <3> HIDE DEF Q
    <3> QED BY <2>3, <3>1, <3>2 DEF Orders
  <2> QED BY <2>2, <2>3, <2>4, <2>6
<1> HIDE DEF s, u
<1>10. s \o u \in Seq(S) /\ (Len(s) > 0 => s \o u # <<>> /\ (s \o u)[1] = s[1])
  BY <1>8
<1> QED BY <1>3, <1>4, <1>9, <1>10 DEF Pick, S, s, u

\* rank() lists every trial that succeeded, once; nothing feasible comes after what is not;
\* and what does not compete for the first place comes before all that is worse.
RanksAll(ts, I) ==
  LET ranked == Rank(ts, I)
  IN /\ \A i \in OkTrials(ts, I) : \E k \in 1..Len(ranked) : ranked[k].i = i
     /\ \A k \in 1..Len(ranked) : ranked[k].i \in OkTrials(ts, I)
     /\ \A j, k \in 1..Len(ranked) : j < k =>
          /\ ranked[j].i # ranked[k].i
          /\ ranked[k].feasible => ranked[j].feasible
          /\ ranked[j] \in Tied(Scored(ts, I)) \/ Before(ranked[j], ranked[k])

\* When one record that competes is not feasible, none is.
LEMMA TiedAreFeasible ==
  ASSUME NEW S, Records(S), S # {}, NEW x \in Tied(S), NEW y \in S, y.feasible
  PROVE  x.feasible
<1> DEFINE lead == FirstIn(S, Before)
<1>1. lead \in S /\ \A z \in S \ {lead} : Before(lead, z)
  BY LeaderAmong
<1>2. Tied(S) = IF lead.feasible THEN {z \in S : Joins(lead, z)} ELSE {lead}
  BY DEF Tied
<1> HIDE DEF lead
<1>3. lead.feasible
  <2> SUFFICES ASSUME ~lead.feasible PROVE FALSE
    OBVIOUS
  <2>1. y # lead
    OBVIOUS
  <2>2. Before(lead, y)
    BY <1>1, <2>1
  <2>3. y.feasible \in BOOLEAN /\ lead.feasible \in BOOLEAN
    BY <1>1 DEF Records
  <2>4. lead.feasible # y.feasible
    OBVIOUS
  <2> QED BY <2>2, <2>4 DEF Before
<1> QED BY <1>2, <1>3 DEF Joins

LEMMA RankIsAll ==
  ASSUME NEW ts, AreTrials(ts), NEW I \in SUBSET DOMAIN ts
  PROVE  RanksAll(ts, I)
<1> DEFINE S == Scored(ts, I)
           T == IF S = {} THEN {} ELSE Tied(S)
           s == SortedBy(T, TieBefore)
           u == SortedBy(S \ T, Before)
           r == Rank(ts, I)
<1> DEFINE Of(i) == RecordOf(ts, i, BestTok(ts, OkTrials(ts, I)))
<1>0. \A i : Of(i).i = i
  BY DEF RecordOf, ScoredAt
<1> HIDE DEF Of
<1>1. /\ Records(S) /\ \A x \in S : x.i \in OkTrials(ts, I)
      /\ \A i \in OkTrials(ts, I) : \E x \in S : x.i = i
  <2>1. /\ Records(S) /\ \A x \in S : x.i \in OkTrials(ts, I)
        /\ S = {Of(i) : i \in OkTrials(ts, I)}
    BY ScoredRecords DEF Of
  <2> HIDE DEF S
  <2> QED BY <1>0, <2>1
<1>2. r = s \o u
  BY DEF Rank, RankOf
<1> HIDE DEF S
<1>3. T \in SUBSET S
  BY <1>1, LeaderAmong
<1>4. \A x \in T, y \in S : x \in Tied(S) /\ (y.feasible => x.feasible)
  BY <1>1, TiedAreFeasible
<1> HIDE DEF T, r
<1>5. Records(T) /\ Records(S \ T)
  BY <1>1, <1>3, SomeRecords
<1>6. /\ s \in Seq(T) /\ \A x \in T : \E k \in 1..Len(s) : s[k] = x
      /\ \A j, k \in 1..Len(s) : j < k => s[j] # s[k]
  BY <1>5, RecordsSorted
<1>7. /\ u \in Seq(S \ T) /\ \A x \in S \ T : \E k \in 1..Len(u) : u[k] = x
      /\ \A j, k \in 1..Len(u) : j < k => u[j] # u[k] /\ Before(u[j], u[k])
  BY <1>5, RecordsSorted
<1> HIDE DEF s, u
<1>8. Len(s) \in Nat /\ Len(u) \in Nat /\ Len(r) = Len(s) + Len(u)
  BY <1>2, <1>6, <1>7
<1>9. \A k \in 1..Len(s) : r[k] = s[k] /\ r[k] \in T
  BY <1>2, <1>6, <1>7
<1>10. \A k \in 1..Len(r) : k > Len(s) => k - Len(s) \in 1..Len(u) /\ r[k] = u[k - Len(s)] /\ r[k] \in S \ T
  BY <1>2, <1>6, <1>7
<1>11. ASSUME NEW k \in 1..Len(u) PROVE k + Len(s) \in 1..Len(r) /\ r[k + Len(s)] = u[k]
  <2> DEFINE m == k + Len(s)
  <2>1. m \in 1..Len(r) /\ m > Len(s) /\ m - Len(s) = k
    BY <1>8
  <2> HIDE DEF m
  <2>2. r[m] = u[m - Len(s)]
    BY <1>10, <2>1
  <2> QED BY <2>1, <2>2 DEF m
<1>12. \A k \in 1..Len(s) : k \in 1..Len(r)
  BY <1>8
<1>13. \A k \in 1..Len(r) : r[k] \in S /\ (k <= Len(s) => k \in 1..Len(s))
  BY <1>3, <1>8, <1>9, <1>10
<1>14. ASSUME NEW x \in S PROVE \E k \in 1..Len(r) : r[k] = x
  <2>1. CASE x \in T
    <3>1. PICK k \in 1..Len(s) : s[k] = x
      BY <1>6, <2>1
    <3> QED BY <1>9, <1>12, <3>1
  <2>2. CASE x \notin T
    <3>1. PICK k \in 1..Len(u) : u[k] = x
      BY <1>7, <2>2
    <3> QED BY <1>11, <3>1
  <2> QED BY <2>1, <2>2
<1>15. ASSUME NEW j \in 1..Len(r), NEW k \in 1..Len(r), j < k
       PROVE  /\ r[j] # r[k] /\ (r[k].feasible => r[j].feasible)
              /\ r[j] \in Tied(S) \/ Before(r[j], r[k])
  <2>1. CASE k <= Len(s)
    <3>1. j \in 1..Len(s) /\ k \in 1..Len(s)
      BY <1>8, <1>15, <2>1
    <3>2. r[j] # r[k]
      BY <1>6, <1>9, <1>15, <3>1
    <3> QED BY <1>4, <1>9, <1>13, <3>1, <3>2
  <2>2. CASE j <= Len(s) /\ k > Len(s)
    BY <1>4, <1>8, <1>9, <1>10, <1>13, <1>15, <2>2
  <2>3. CASE j > Len(s)
    <3> DEFINE a == j - Len(s)
               b == k - Len(s)
    <3>1. k > Len(s) /\ a < b
      BY <1>8, <1>15, <2>3
    <3>2. a \in 1..Len(u) /\ b \in 1..Len(u) /\ r[j] = u[a] /\ r[k] = u[b]
      BY <1>10, <2>3, <3>1
    <3> HIDE DEF a, b
    <3>3. Before(r[j], r[k]) /\ r[j] # r[k]
      BY <1>7, <3>1, <3>2
    <3>4. r[j].feasible \in BOOLEAN /\ r[k].feasible \in BOOLEAN
      BY <1>1, <1>13 DEF Records
    <3>5. r[k].feasible => r[j].feasible
      BY <3>3, <3>4 DEF Before
    <3> QED BY <3>3, <3>5
  <2> QED BY <1>8, <2>1, <2>2, <2>3
<1>16. \A x, y \in S : x.i = y.i => x = y
  BY <1>1 DEF Records
<1> QED BY <1>1, <1>13, <1>14, <1>15, <1>16 DEF RanksAll, S, r
-----------------------------------------------------------------------------
(* The engines stage 1 drops.                                              *)

\* _losing_backends() on some trials, and what it comes to.
LosingIn(ts, I) ==
  LET scored == Scored(ts, I)
  IN {e \in {ts[x.i].cfg.eng : x \in scored} :
        /\ Objective \in {"throughput", "balanced"}
        /\ \E x \in scored :
             /\ x.feasible /\ ts[x.i].cfg.eng # e
             /\ 100 * MaxOf({0} \cup {SummaryTok(ts[i]) : i \in OkTrials(ts, I) \cap {k \in DOMAIN ts : ts[k].cfg.eng = e}})
                  < 50 * (-x.score)}

FarBehind(ts, I, e, j) == \A k \in OkTrials(ts, I) : ts[k].cfg.eng = e => 100 * ts[k].out.tok < 50 * ts[j].out.tok

Losers(ts, I) ==
  {e \in {ts[i].cfg.eng : i \in OkTrials(ts, I)} :
     /\ Objective \in {"throughput", "balanced"}
     /\ \E j \in OkTrials(ts, I) : Meets(LevelOf(ts[j]), 0) /\ ts[j].cfg.eng # e /\ FarBehind(ts, I, e, j)}

\* With the objectives that drop engines the score is the throughput, and the constraint is the
\* same whatever the trial is compared with.
LEMMA RecordIs ==
  ASSUME NEW ts, AreTrials(ts), NEW I \in SUBSET DOMAIN ts, NEW i \in OkTrials(ts, I),
         Objective \in {"throughput", "balanced"}, NEW best \in Nat
  PROVE  /\ RecordOf(ts, i, best).i = i /\ RecordOf(ts, i, best).base = Base(ts[i].cfg)
         /\ RecordOf(ts, i, best).score = -ts[i].out.tok /\ ts[i].out.tok \in Nat
         /\ RecordOf(ts, i, best).feasible <=> Meets(LevelOf(ts[i]), 0)
<1>1. IsTrial(ts[i])
  BY DEF OkTrials, AreTrials
<1>2. ts[i].base = Base(ts[i].cfg) /\ LevelOf(ts[i]).tok = ts[i].out.tok /\ ts[i].out.tok \in Nat
  BY <1>1, TrialTyped, OutcomeTyped DEF LevelOf
<1>3. Score(LevelOf(ts[i])) = -ts[i].out.tok
  BY <1>2 DEF Score
<1>4. Violation(LevelOf(ts[i]), best) = Violation(LevelOf(ts[i]), 0)
  BY DEF Violation
<1> QED BY <1>2, <1>3, <1>4 DEF RecordOf, ScoredAt, Meets

\* The best of an engine is far behind when all of it is.
LEMMA BestFarBehind ==
  ASSUME NEW ts, AreTrials(ts), NEW I \in SUBSET DOMAIN ts, NEW v \in Nat,
         NEW K \in SUBSET OkTrials(ts, I), K # {}
  PROVE  100 * MaxOf({0} \cup {SummaryTok(ts[i]) : i \in K}) < 50 * v <=> \A k \in K : 100 * ts[k].out.tok < 50 * v
<1> DEFINE f == [i \in K |-> SummaryTok(ts[i])]
           T == {f[i] : i \in K} \cup {0}
<1>1. ASSUME NEW k \in K PROVE f[k] = ts[k].out.tok /\ ts[k].out.tok \in Nat
  <2>1. IsTrial(ts[k])
    BY DEF OkTrials, AreTrials
  <2> QED BY <2>1, 0 \in Int, LevelScored, TrialTyped, OutcomeTyped
<1>2. IsFiniteSet(K)
  BY BestTokTyped, FS_Subset DEF OkTrials
<1>3. {0} \cup {SummaryTok(ts[i]) : i \in K} = T
  OBVIOUS
<1>4. f = [i \in K |-> f[i]]
  OBVIOUS
<1> HIDE DEF f
<1>5. IsFiniteSet(T) /\ T \in SUBSET Int /\ T # {}
  <2>1. IsFiniteSet({f[i] : i \in K})
    BY <1>2, <1>4, FiniteImage
  <2>2. IsFiniteSet(T)
    BY <2>1, FS_AddElement
  <2> QED BY <1>1, <2>2
<1> DEFINE m == MaxOf(T)
<1>6. m \in T /\ \A y \in T : y <= m
  <2> HIDE DEF T
  <2> QED BY <1>5, MaxIn
<1> HIDE DEF m
<1>7. m \in Nat /\ (m = 0 \/ \E k \in K : m = ts[k].out.tok)
  BY <1>1, <1>6
<1>8. \A k \in K : ts[k].out.tok <= m /\ ts[k].out.tok \in Nat
  BY <1>1, <1>6
<1>9. 100 * m < 50 * v <=> \A k \in K : 100 * ts[k].out.tok < 50 * v
  BY <1>7, <1>8
<1> QED BY <1>3, <1>9 DEF m

LEMMA LosersAmong ==
  ASSUME NEW ts, AreTrials(ts), NEW I \in SUBSET DOMAIN ts
  PROVE  LosingIn(ts, I) = Losers(ts, I)
<1> DEFINE J == OkTrials(ts, I)
           B == BestTok(ts, J)
           S == Scored(ts, I)
           Of(e) == J \cap {k \in DOMAIN ts : ts[k].cfg.eng = e}
           T(e) == {0} \cup {SummaryTok(ts[i]) : i \in Of(e)}
<1>1. B \in Nat /\ S = {RecordOf(ts, i, B) : i \in J} /\ \A i \in J : RecordOf(ts, i, B).i = i
  BY ScoredRecords, BestTokTyped DEF RecordOf, ScoredAt
<1>2. J \in SUBSET DOMAIN ts
  BY DEF OkTrials
<1>3. {ts[x.i].cfg.eng : x \in S} = {ts[i].cfg.eng : i \in J}
  BY <1>1
<1>4. ASSUME NEW i \in J, NEW j \in J, Objective \in {"throughput", "balanced"}
      PROVE  100 * MaxOf(T(ts[i].cfg.eng)) < 50 * (-RecordOf(ts, j, B).score) <=> FarBehind(ts, I, ts[i].cfg.eng, j)
  <2> DEFINE e == ts[i].cfg.eng
             K == Of(e)
             v == ts[j].out.tok
  <2>1. RecordOf(ts, j, B).score = -v /\ v \in Nat
    BY <1>1, <1>4, RecordIs
  <2>2. -RecordOf(ts, j, B).score = v
    BY <2>1
  <2>3. K \in SUBSET J /\ K # {}
    BY <1>2
  <2>4. \A k \in J : k \in K <=> ts[k].cfg.eng = e
    BY <1>2
  <2>5. FarBehind(ts, I, e, j) <=> \A k \in K : 100 * ts[k].out.tok < 50 * v
    BY <2>3, <2>4 DEF FarBehind
  <2>6. 100 * MaxOf({0} \cup {SummaryTok(ts[k]) : k \in K}) < 50 * v <=> \A k \in K : 100 * ts[k].out.tok < 50 * v
    <3> HIDE DEF v, K
    <3> QED BY <2>1, <2>3, BestFarBehind
  <2> QED BY <2>2, <2>5, <2>6
<1>5. \A j \in J : Objective \in {"throughput", "balanced"} =>
        (RecordOf(ts, j, B).feasible <=> Meets(LevelOf(ts[j]), 0))
  BY <1>1, RecordIs
<1> DEFINE Loses(e, x) == x.feasible /\ ts[x.i].cfg.eng # e /\ 100 * MaxOf(T(e)) < 50 * (-x.score)
<1>6. LosingIn(ts, I) = {e \in {ts[x.i].cfg.eng : x \in S} : Objective \in {"throughput", "balanced"} /\ \E x \in S : Loses(e, x)}
  BY DEF LosingIn
<1>7. ASSUME NEW i \in J, NEW j \in J, Objective \in {"throughput", "balanced"}
      PROVE  Loses(ts[i].cfg.eng, RecordOf(ts, j, B)) <=>
               Meets(LevelOf(ts[j]), 0) /\ ts[j].cfg.eng # ts[i].cfg.eng /\ FarBehind(ts, I, ts[i].cfg.eng, j)
  BY <1>1, <1>4, <1>5, <1>7
<1> HIDE DEF S, B, Loses
<1> QED BY <1>1, <1>3, <1>6, <1>7 DEF Losers

\* The winner is of no engine that would be dropped: what leads, or ties with the leader, is
\* within the noise of it, and a loser is behind a rival by more than that.
LEMMA WinnerNotLosing ==
  ASSUME NEW ts, AreTrials(ts), NEW I \in SUBSET DOMAIN ts, Pick(ts, I) # None
  PROVE  ts[Pick(ts, I)].cfg.eng \notin Losers(ts, I)
<1> DEFINE J == OkTrials(ts, I)
           B == BestTok(ts, J)
           S == Scored(ts, I)
           R(i) == RecordOf(ts, i, B)
           lead == FirstIn(S, Before)
           e == ts[Pick(ts, I)].cfg.eng
<1> SUFFICES ASSUME e \in Losers(ts, I) PROVE FALSE
  OBVIOUS
<1>1. Objective \in {"throughput", "balanced"}
  BY DEF Losers
<1>2. PICK j \in J : Meets(LevelOf(ts[j]), 0) /\ ts[j].cfg.eng # e /\ FarBehind(ts, I, e, j)
  BY DEF Losers
<1>3. B \in Nat /\ S = {R(i) : i \in J} /\ Records(S)
  BY ScoredRecords, BestTokTyped
<1>4. \A i \in J : /\ R(i).i = i /\ R(i).base = Base(ts[i].cfg) /\ R(i).score = -ts[i].out.tok /\ ts[i].out.tok \in Nat
                   /\ R(i).feasible <=> Meets(LevelOf(ts[i]), 0)
  BY <1>1, <1>3, RecordIs
<1>5. Pick(ts, I) = WinnerOf(S) /\ S # {}
  BY <1>2, <1>3 DEF Pick
<1> HIDE DEF B, S, R
<1>6. PICK x \in Tied(S) : WinnerOf(S) = x.i
  BY <1>3, <1>5, WinnerAmong
<1>7. lead \in S /\ (\A y \in S \ {lead} : Before(lead, y)) /\ x \in S
  BY <1>3, <1>5, <1>6, LeaderAmong
<1>8. Tied(S) = IF lead.feasible THEN {y \in S : Joins(lead, y)} ELSE {lead}
  BY DEF Tied
<1> HIDE DEF lead
<1>9. PICK k \in J : lead = R(k)
  BY <1>3, <1>7
<1>10. PICK i \in J : x = R(i)
  BY <1>3, <1>7
<1>11. i = Pick(ts, I) /\ e = ts[i].cfg.eng
  BY <1>4, <1>5, <1>6, <1>10
<1> HIDE DEF e
<1>12. lead.feasible /\ lead.score <= R(j).score
  <2>1. R(j) \in S /\ R(j).feasible
    BY <1>2, <1>3, <1>4
  <2>2. CASE lead = R(j)
    BY <1>4, <2>1, <2>2
  <2>3. CASE lead # R(j)
    <3>1. Before(lead, R(j))
      BY <1>7, <2>1, <2>3
    <3>2. lead.feasible = (lead.violation = 0) /\ R(j).feasible = (R(j).violation = 0)
          /\ lead.violation \in Nat /\ R(j).violation \in Nat /\ lead.score \in Int /\ R(j).score \in Int
      BY <1>3, <1>7, <2>1 DEF Records
    <3>3. R(j).feasible = TRUE /\ R(j).violation = 0
      BY <2>1, <3>2
    <3>4. CASE lead.violation = 0
      <4>1. lead.feasible = TRUE
        BY <3>2, <3>4
      <4> QED BY <3>1, <3>2, <3>3, <3>4, <4>1 DEF Before
    <3>5. CASE lead.violation # 0
      <4>1. lead.feasible = FALSE
        BY <3>2, <3>5
      <4> QED BY <3>1, <3>3, <4>1 DEF Before
    <3> QED BY <3>4, <3>5
  <2> QED BY <2>2, <2>3
<1>13. Joins(lead, x)
  BY <1>6, <1>8, <1>12
<1>14. /\ lead.score = -ts[k].out.tok /\ x.score = -ts[i].out.tok /\ R(j).score = -ts[j].out.tok
       /\ ts[k].out.tok \in Nat /\ ts[i].out.tok \in Nat /\ ts[j].out.tok \in Nat
       /\ lead.base = Base(ts[k].cfg) /\ x.base = Base(ts[i].cfg)
  BY <1>4, <1>9, <1>10
<1>15. 100 * ts[i].out.tok < 50 * ts[j].out.tok
  BY <1>2, <1>11 DEF FarBehind
<1>16. ts[j].out.tok <= ts[k].out.tok
  BY <1>12, <1>14
<1>17. AbsOf(x.score - lead.score) = ts[k].out.tok - ts[i].out.tok /\ AbsOf(lead.score) = ts[k].out.tok
  BY <1>14, <1>15, <1>16 DEF AbsOf
<1>18. NoisePercent * ts[k].out.tok <= 50 * ts[k].out.tok
  BY <1>14, ObjectiveAssumption
<1>19. ~(100 * AbsOf(x.score - lead.score) <= NoisePercent * AbsOf(lead.score))
  BY <1>14, <1>15, <1>16, <1>17, <1>18, ObjectiveAssumption
<1>20. x.base = lead.base
  BY <1>13, <1>19 DEF Joins
<1>21. ts[k].cfg.eng = ts[i].cfg.eng
  <2>1. ts[k].cfg \in Configs /\ ts[i].cfg \in Configs
    BY TrialTyped DEF OkTrials, AreTrials
  <2>2. Base(ts[k].cfg).eng = ts[k].cfg.eng /\ Base(ts[i].cfg).eng = ts[i].cfg.eng
    BY <2>1 DEF Base, Configs
  <2> QED BY <1>14, <1>20, <2>2
<1>22. 100 * ts[k].out.tok < 50 * ts[j].out.tok
  BY <1>2, <1>11, <1>21 DEF FarBehind
<1> QED BY <1>14, <1>16, <1>22

\* An engine that loses goes on to lose while no other trial of it succeeds.
LEMMA LosersStay ==
  ASSUME NEW ts, NEW I, NEW us, NEW J, NEW e \in Losers(ts, I),
         OkTrials(ts, I) \in SUBSET OkTrials(us, J),
         \A i \in OkTrials(ts, I) : us[i] = ts[i],
         \A k \in OkTrials(us, J) \ OkTrials(ts, I) : us[k].cfg.eng # e
  PROVE  e \in Losers(us, J)
<1>1. PICK i \in OkTrials(ts, I) : e = ts[i].cfg.eng
  BY DEF Losers
<1>2. PICK j \in OkTrials(ts, I) : Meets(LevelOf(ts[j]), 0) /\ ts[j].cfg.eng # e /\ FarBehind(ts, I, e, j)
  BY DEF Losers
<1>3. Objective \in {"throughput", "balanced"}
  BY DEF Losers
<1>4. FarBehind(us, J, e, j)
  BY <1>2 DEF FarBehind
<1>5. us[i] = ts[i] /\ us[j] = ts[j] /\ i \in OkTrials(us, J) /\ j \in OkTrials(us, J)
  BY <1>1, <1>2
<1> QED BY <1>1, <1>2, <1>3, <1>4, <1>5 DEF Losers
-----------------------------------------------------------------------------
(* Joining sequences.                                                      *)

LEMMA Single ==
  ASSUME NEW x
  PROVE  IsSequence(<<x>>) /\ Len(<<x>>) = 1 /\ IsSequence(<<>>) /\ Len(<<>>) = 0
<1>1. <<x>> \in Seq({x}) /\ <<>> \in Seq({x}) /\ Len(<<x>>) = 1 /\ Len(<<>>) = 0
  OBVIOUS
<1> QED BY <1>1, SequenceOf

LEMMA Empty ==
  /\ IsSequence(<<>>) /\ Len(<<>>) = 0 /\ DOMAIN <<>> = {}
  /\ \A S : <<>> \in Seq(S)
<1>1. <<>> \in Seq({}) /\ Len(<<>>) = 0 /\ DOMAIN <<>> = {} /\ \A S : <<>> \in Seq(S)
  OBVIOUS
<1>2. IsSequence(<<>>)
  BY <1>1, SequenceOf
<1> QED BY <1>1, <1>2

LEMMA Places ==
  ASSUME NEW a, IsSequence(a)
  PROVE  /\ Len(a) \in Nat /\ DOMAIN a = 1..Len(a) /\ a \in Seq(ToSet(a))
         /\ a # <<>> <=> Len(a) > 0
BY DEF IsSequence

LEMMA Joined ==
  ASSUME NEW a, IsSequence(a), NEW b, IsSequence(b)
  PROVE  /\ IsSequence(a \o b) /\ Len(a \o b) = Len(a) + Len(b)
         /\ \A k \in DOMAIN a : (a \o b)[k] = a[k]
         /\ \A k \in DOMAIN (a \o b) \ DOMAIN a : k - Len(a) \in DOMAIN b /\ (a \o b)[k] = b[k - Len(a)]
<1> DEFINE S == ToSet(a) \cup ToSet(b)
<1>1. a \in Seq(ToSet(a)) /\ b \in Seq(ToSet(b)) /\ ToSet(a) \in SUBSET S /\ ToSet(b) \in SUBSET S
  BY DEF IsSequence
<1> HIDE DEF S
<1>2. a \in Seq(S) /\ b \in Seq(S)
  BY <1>1, SeqMonotonic
<1>3. a \o b \in Seq(S) /\ Len(a \o b) = Len(a) + Len(b)
  BY <1>2
<1>4. \A k \in DOMAIN a : (a \o b)[k] = a[k]
  BY <1>2
<1>5. \A k \in DOMAIN (a \o b) \ DOMAIN a : k - Len(a) \in DOMAIN b /\ (a \o b)[k] = b[k - Len(a)]
  BY <1>2
<1>6. IsSequence(a \o b)
  BY <1>3, SequenceOf
<1> QED BY <1>3, <1>4, <1>5, <1>6

\* What is picked from a sequence is among its elements.
LEMMA PickedFrom ==
  ASSUME NEW s, IsSequence(s), NEW K \in SUBSET DOMAIN s
  PROVE  IsSequence(Picked(s, K)) /\ Picked(s, K) \in Seq(ToSet(s))
<1>1. s \in Seq(ToSet(s))
  BY DEF IsSequence
<1>2. Picked(s, K) \in Seq({s[k] : k \in K})
  BY <1>1, PickedIsSeq
<1>3. {s[k] : k \in K} \in SUBSET ToSet(s)
  BY DEF ToSet
<1> QED BY <1>2, <1>3, SeqMonotonic, SequenceOf

LEMMA OnceFrom ==
  ASSUME NEW S, NEW s \in Seq(S)
  PROVE  Once(s) \in Seq(S)
<1>1. IsSequence(s) /\ ToSet(s) \in SUBSET S
  BY SequenceOf
<1> DEFINE K == {k \in DOMAIN s : \A j \in DOMAIN s : j < k => s[j] # s[k]}
<1>2. Once(s) = Picked(s, K)
  BY DEF Once
<1>3. K \in SUBSET DOMAIN s
  OBVIOUS
<1> HIDE DEF K
<1> QED BY <1>1, <1>2, <1>3, PickedFrom, SeqMonotonic

\* The configurations of a sequence that fit.
LEMMA ThoseThatFit ==
  ASSUME NEW s, IsSequence(s)
  PROVE  Those(s, Fits) \in Seq(Configs)
<1> DEFINE K == {k \in DOMAIN s : Fits(s[k])}
<1>1. Those(s, Fits) = Picked(s, K)
  BY DEF Those
<1>2. K \in SUBSET DOMAIN s /\ {s[k] : k \in K} \in SUBSET Configs
  BY DEF Fits
<1>3. s \in Seq(ToSet(s))
  BY DEF IsSequence
<1> HIDE DEF K
<1>4. Picked(s, K) \in Seq({s[k] : k \in K})
  BY <1>2, <1>3, PickedIsSeq
<1> QED BY <1>1, <1>2, <1>4, SeqMonotonic

-----------------------------------------------------------------------------
(* What the tasks ask for.                                                 *)

LEMMA GroupTyped ==
  ASSUME NEW key
  PROVE  Group(key) \in SUBSET Configs /\ IsFiniteSet(Group(key)) /\ Group(key) \in SUBSET Grid
<1>1. Group(key) \in SUBSET Grid
  BY DEF Group
<1> QED BY <1>1, GridAssumption, FS_Subset

\* Configurations of the grid that differ in memory or context only, the largest first.
LEMMA LargestFirst ==
  ASSUME NEW key, NEW S \in SUBSET Group(key), \A c, d \in S : c.batch = d.batch
  PROVE  SortedBy(S, MoreMemory) \in Seq(S)
<1> DEFINE R == {p \in S \X S : MoreMemory(p[1], p[2])}
           s == SortedBy(S, MoreMemory)
<1>1. IsFiniteSet(S) /\ S \in SUBSET Configs /\ S \in SUBSET Grid
  BY GroupTyped, FS_Subset
<1>2. \A c \in S : c.mem \in Nat /\ c.ctx \in Nat
  BY <1>1 DEF Configs
<1>3. \A c, d \in S : c # d => c.mem # d.mem \/ c.ctx # d.ctx
  <2> SUFFICES ASSUME NEW c \in S, NEW d \in S, c.mem = d.mem, c.ctx = d.ctx PROVE c = d
    OBVIOUS
  <2>1. KeyOf(c) = key /\ KeyOf(d) = key
    BY DEF Group
  <2>2. c.eng = d.eng /\ c.quant = d.quant
    BY <2>1 DEF KeyOf
  <2> QED BY <1>1, <2>2, GridAssumption
<1>4. \A c, d \in S : <<c, d>> \in R <=> MoreMemory(c, d)
  OBVIOUS
<1>5. \A c \in S : Below(R, S, c) = {d \in S \ {c} : MoreMemory(d, c)}
  BY DEF Below
<1> HIDE DEF R
<1>6. Orders(R, S)
  BY <1>2, <1>3, <1>4 DEF Orders, MoreMemory
<1>7. ASSUME NEW k \in 1..Cardinality(S), NEW x \in S, Cardinality(Below(R, S, x)) = k - 1
      PROVE  s[k] \in S /\ Cardinality(Below(R, S, s[k])) = k - 1
  <2>1. s[k] = CHOOSE z \in S : Cardinality({y \in S \ {z} : MoreMemory(y, z)}) = k - 1
    BY DEF SortedBy
  <2>2. Cardinality({y \in S \ {x} : MoreMemory(y, x)}) = k - 1
    BY <1>5, <1>7
  <2> HIDE DEF s
  <2>3. s[k] \in S /\ Cardinality({y \in S \ {s[k]} : MoreMemory(y, s[k])}) = k - 1
    BY <2>1, <2>2
  <2> QED BY <1>5, <2>3
<1>8. s = [k \in 1..Cardinality(S) |-> s[k]]
  <2> DEFINE F(k) == CHOOSE x \in S : Cardinality({y \in S \ {x} : MoreMemory(y, x)}) = k - 1
  <2>1. s = [k \in 1..Cardinality(S) |-> F(k)]
    BY Zenon DEF SortedBy
  <2> HIDE DEF F, s
  <2> QED BY <2>1
<1> HIDE DEF s
<1>9. Sorts(s, R, S)
  BY <1>1, <1>6, <1>7, <1>8, SortedInOrder
<1> QED BY <1>9 DEF Sorts, s

LEMMA BaselineTyped ==
  ASSUME NEW key
  PROVE  BaselineCandidates(key) \in Seq(Group(key))
<1>1. PICK S \in SUBSET Group(key) : BaselineCandidates(key) = SortedBy(S, MoreMemory) /\ \A c, d \in S : c.batch = d.batch
  <2> DEFINE ctx == Median({c.ctx : c \in Group(key)})
             batch == Median({c.batch : c \in Group(key)})
             atCtx == {c \in Group(key) : c.ctx = ctx}
             Nearer(b, d) == \/ AbsOf(b - batch) < AbsOf(d - batch)
                             \/ AbsOf(b - batch) = AbsOf(d - batch) /\ b < d
             nearest == CHOOSE b \in {c.batch : c \in atCtx} : \A d \in {c.batch : c \in atCtx} \ {b} : Nearer(b, d)
             S == {c \in atCtx : c.batch = nearest}
  <2>1. BaselineCandidates(key) = SortedBy(S, MoreMemory)
    BY DEF BaselineCandidates
  <2> HIDE DEF nearest
  <2>2. S \in SUBSET Group(key) /\ \A c, d \in S : c.batch = d.batch
    OBVIOUS
  <2> HIDE DEF S
  <2> QED BY <2>1, <2>2
<1>2. SortedBy(S, MoreMemory) \in Seq(S)
  BY <1>1, LargestFirst
<1> QED BY <1>1, <1>2, SeqMonotonic

LEMMA MemoryTyped ==
  ASSUME NEW key
  PROVE  MemoryCandidates(key) \in Seq(Configs)
<1>1. PICK S \in SUBSET Group(key) : MemoryCandidates(key) = FirstOf(SortedBy(S, MoreMemory), MemoryTrials)
                                     /\ \A c, d \in S : c.batch = d.batch
  <2> DEFINE ok == OkOf(key)
             base == IF ok = {} THEN BaselineCandidates(key)[1]
                                ELSE results[CHOOSE i \in ok : \A j \in ok : i <= j].cfg
             S == {c \in Group(key) : c.batch = base.batch}
  <2>1. MemoryCandidates(key) = FirstOf(SortedBy(S, MoreMemory), MemoryTrials)
    BY DEF MemoryCandidates
  <2> HIDE DEF base
  <2>2. S \in SUBSET Group(key) /\ \A c, d \in S : c.batch = d.batch
    OBVIOUS
  <2> HIDE DEF S
  <2> QED BY <2>1, <2>2
<1>2. SortedBy(S, MoreMemory) \in Seq(S)
  BY <1>1, LargestFirst
<1>3. SortedBy(S, MoreMemory) \in Seq(Configs)
  BY <1>2, GroupTyped, SeqMonotonic
<1> QED BY <1>1, <1>3, SettingsAssumption, FirstOfIsSeq

LEMMA BatchTyped ==
  ASSUME NEW key
  PROVE  BatchCandidates(key) \in Seq(Configs)
<1> DEFINE S == {c \in Group(key) : c.ctx = chosen[key].ctx /\ c.mem = chosen[key].mem}
           R == {p \in S \X S : p[1].batch < p[2].batch}
           s == BatchCandidates(key)
           F(k) == CHOOSE x \in S : Cardinality({y \in S \ {x} : y.batch < x.batch}) = k - 1
<1>1. IsFiniteSet(S) /\ S \in SUBSET Configs /\ S \in SUBSET Grid
  BY GroupTyped, FS_Subset
<1>2. \A c \in S : c.batch \in Nat
  BY <1>1 DEF Configs
<1>3. \A c, d \in S : c # d => c.batch # d.batch
  <2> SUFFICES ASSUME NEW c \in S, NEW d \in S, c.batch = d.batch PROVE c = d
    OBVIOUS
  <2>1. KeyOf(c) = key /\ KeyOf(d) = key /\ c.ctx = d.ctx /\ c.mem = d.mem
    BY DEF Group
  <2>2. c.eng = d.eng /\ c.quant = d.quant
    BY <2>1 DEF KeyOf
  <2> QED BY <1>1, <2>1, <2>2, GridAssumption
<1>4. \A c, d \in S : <<c, d>> \in R <=> c.batch < d.batch
  OBVIOUS
<1>5. \A c \in S : Below(R, S, c) = {d \in S \ {c} : d.batch < c.batch}
  BY DEF Below
<1>6. s = [k \in 1..Cardinality(S) |-> F(k)]
  BY Zenon DEF BatchCandidates, SortedBy
<1> HIDE DEF R, S, s
<1>7. Orders(R, S)
  BY <1>2, <1>3, <1>4 DEF Orders
<1>8. ASSUME NEW k \in 1..Cardinality(S), NEW x \in S, Cardinality(Below(R, S, x)) = k - 1
      PROVE  s[k] \in S /\ Cardinality(Below(R, S, s[k])) = k - 1
  <2>1. s[k] = CHOOSE z \in S : Cardinality({y \in S \ {z} : y.batch < z.batch}) = k - 1
    BY <1>6
  <2>2. Cardinality({y \in S \ {x} : y.batch < x.batch}) = k - 1
    BY <1>5, <1>8
  <2>3. s[k] \in S /\ Cardinality({y \in S \ {s[k]} : y.batch < s[k].batch}) = k - 1
    BY <2>1, <2>2
  <2> QED BY <1>5, <2>3
<1> HIDE DEF F
<1>9. s = [k \in 1..Cardinality(S) |-> s[k]]
  BY <1>6
<1>10. Sorts(s, R, S)
  BY <1>1, <1>7, <1>8, <1>9, SortedInOrder
<1> QED BY <1>1, <1>10, SeqMonotonic DEF Sorts, s

\* The variants of a stage are configurations, whichever of them fit.
LEMMA VariantsTyped ==
  ASSUME NEW d, NEW c
  PROVE  IsSequence(Variants(d, c)) /\ (c \in Configs => Variants(d, c) \in Seq(Configs))
<1> DEFINE bigger == {b \in Ladder : b > c.batch}
           step == [c EXCEPT !.batch = CHOOSE b \in bigger : \A x \in bigger : b <= x]
           small == Those(<<With(c, d)>>, Fits)
           wide == Those(<<With(step, d)>>, Fits)
           large == IF bigger # {} /\ ~Fits(step) THEN wide ELSE <<>>
<1>1. Variants(d, c) = IF d \notin Offers[c.eng] \/ d \in c.opts THEN <<>>
                       ELSE IF d # "kv" THEN <<With(c, d)>> ELSE small \o large
  BY DEF Variants
<1>2. small \in Seq(Configs)
  BY Single, ThoseThatFit
<1>3. large \in Seq(Configs)
  <2> HIDE DEF step, bigger
  <2>1. wide \in Seq(Configs) /\ <<>> \in Seq(Configs)
    BY Single, ThoseThatFit
  <2> HIDE DEF wide
  <2> QED BY <2>1
<1> HIDE DEF small, large
<1>4. small \o large \in Seq(Configs)
  BY <1>2, <1>3
<1>5. ASSUME c \in Configs, d \in Offers[c.eng] PROVE With(c, d) \in Configs
  <2>1. c.eng \in DOMAIN Offers
    BY <1>5 DEF Configs
  <2>2. d \in Strategies
    BY <1>5, <2>1, SettingsAssumption
  <2> QED BY <1>5, <2>2 DEF With, Configs
<1>6. CASE d \notin Offers[c.eng] \/ d \in c.opts
  <2>1. Variants(d, c) = <<>>
    BY <1>1, <1>6
  <2>2. IsSequence(Variants(d, c))
    BY <2>1, Single
  <2>3. Variants(d, c) \in Seq(Configs)
    BY <2>1
  <2> QED BY <2>2, <2>3
<1>7. CASE d \in Offers[c.eng] /\ d \notin c.opts /\ d # "kv"
  <2>1. Variants(d, c) = <<With(c, d)>>
    BY <1>1, <1>7
  <2>2. IsSequence(Variants(d, c))
    BY <2>1, Single
  <2>3. c \in Configs => Variants(d, c) \in Seq(Configs)
    BY <1>5, <1>7, <2>1
  <2> QED BY <2>2, <2>3
<1>8. CASE d \in Offers[c.eng] /\ d \notin c.opts /\ d = "kv"
  <2>1. Variants(d, c) = small \o large
    BY <1>1, <1>8
  <2> QED BY <1>4, <2>1, SequenceOf
<1> QED BY <1>6, <1>7, <1>8

\* The leader with each change undone, and the combinations of some logged changes.
LEMMA UndoneIsSeq ==
  ASSUME NEW lead, NEW base
  PROVE  IsSequence(EachUndone(lead, base))
<1> DEFINE Undo(d) == [lead EXCEPT !.opts = (@ \ {d}) \cup (base.opts \cap {d})]
           knobs == <<"prefill", "kv", "spec">>
           changed == Those(knobs, LAMBDA d : (d \in lead.opts) # (d \in base.opts))
           Batch(c) == IF lead.batch # base.batch THEN <<[c EXCEPT !.batch = base.batch]>> ELSE <<>>
           each == ForEach(changed, Undo)
           both == IF Contains(changed, "kv") THEN Batch(Undo("kv")) ELSE <<>>
<1>1. EachUndone(lead, base) = Batch(lead) \o each \o both
  BY DEF EachUndone
<1>2. \A c : IsSequence(Batch(c))
  BY Single
<1>3. IsSequence(changed)
  <2> DEFINE K == {k \in DOMAIN knobs : (knobs[k] \in lead.opts) # (knobs[k] \in base.opts)}
  <2>1. changed = Picked(knobs, K)
    BY DEF Those
  <2>2. K \in SUBSET DOMAIN knobs
    OBVIOUS
  <2>3. knobs \in Seq({"prefill", "kv", "spec"})
    OBVIOUS
  <2> HIDE DEF K, knobs, changed
  <2> QED BY <2>1, <2>2, <2>3, SequenceOf, PickedFrom
<1> HIDE DEF changed
<1>4. IsSequence(each)
  <2>1. each = [k \in 1..Len(changed) |-> Undo(changed[k])] /\ Len(changed) \in Nat
    BY <1>3, Places DEF ForEach
  <2> HIDE DEF each, Undo
  <2>2. each = [k \in 1..Len(changed) |-> each[k]]
    BY <2>1
  <2> QED BY <2>1, <2>2, ListIsSeq DEF IsSequence
<1>5. IsSequence(both)
  BY <1>2, Single
<1> HIDE DEF Batch, each, both
<1> QED BY <1>1, <1>2, <1>4, <1>5, Joined

LEMMA CombosIsSeq ==
  ASSUME NEW gain, NEW changes, IsFiniteSet(changes), NEW base
  PROVE  IsSequence(Combos(gain, changes, base))
<1> DEFINE combos == {D \in (SUBSET changes) \ {{}} : \A j, k \in D : log[j].dim = log[k].dim => j = k}
           c == Combos(gain, changes, base)
<1>1. c = [k \in 1..Cardinality(combos) |-> c[k]]
  <2> DEFINE Estimate(D) == MapThenSumSet(LAMBDA k : gain[k], D)
             Config(D) == FoldSet(LAMBDA k, x : Apply(x, Delta(log[k])), base, D)
             Sooner(D, E) == \/ Estimate(D) > Estimate(E)
                             \/ Estimate(D) = Estimate(E) /\ ProductOrder(gain, changes, D, E)
             sorted == SortedBy(combos, Sooner)
  <2>1. c = [k \in DOMAIN sorted |-> Config(sorted[k])]
    BY DEF Combos, ForEach
  <2>2. DOMAIN sorted = 1..Cardinality(combos)
    BY DEF SortedBy
  <2> HIDE DEF sorted, Config, combos, c
  <2>3. c = [k \in 1..Cardinality(combos) |-> Config(sorted[k])]
    BY <2>1, <2>2
  <2> QED BY <2>3
<1>2. combos \in SUBSET SUBSET changes
  OBVIOUS
<1> HIDE DEF combos, c
<1>3. Cardinality(combos) \in Nat
  BY <1>2, FS_SUBSET, FS_Subset, FS_CardinalityType
<1>4. IsSequence(c)
  BY <1>1, <1>3, ListIsSeq DEF IsSequence
<1> QED BY <1>4 DEF c

LEMMA CombinationsTyped ==
  ASSUME IsSequence(log), NEW base, NEW spec, NEW limit \in Nat
  PROVE  Combinations(base, spec, limit) \in Seq(Configs)
<1> DEFINE New(c) == ~Done(c) /\ Fits(c)
           undone == LeaderWithoutEach(base, spec)
           combos == PromisingCombos(LogGains, base, spec)
           all == undone \o combos
           K == {k \in DOMAIN all : New(all[k])}
<1>1. Combinations(base, spec, limit) = FirstOf(Once(Picked(all, K)), limit)
  BY DEF Combinations, Those
<1>2. IsSequence(undone)
  BY UndoneIsSeq, Single DEF LeaderWithoutEach
<1>3. IsSequence(combos)
  <2> DEFINE changes == Promising(LogGains, base.eng, spec)
  <2>1. changes \in SUBSET DOMAIN log
    BY DEF Promising
  <2>2. IsFiniteSet(DOMAIN log)
    BY Places, FS_Interval
  <2> HIDE DEF changes
  <2>3. IsFiniteSet(changes)
    BY <2>1, <2>2, FS_Subset
  <2>4. combos = Combos(LogGains, changes, base)
    BY DEF PromisingCombos, changes
  <2> HIDE DEF combos
  <2> QED BY <2>3, <2>4, CombosIsSeq
<1> HIDE DEF undone, combos
<1>4. IsSequence(all)
  BY <1>2, <1>3, Joined
<1>5. K \in SUBSET DOMAIN all /\ {all[k] : k \in K} \in SUBSET Configs
  BY DEF Fits
<1> HIDE DEF all, K
<1>6. Picked(all, K) \in Seq(Configs)
  <2>1. all \in Seq(ToSet(all))
    BY <1>4 DEF IsSequence
  <2>2. Picked(all, K) \in Seq({all[k] : k \in K})
    BY <1>5, <2>1, PickedIsSeq
  <2> QED BY <1>5, <2>2, SeqMonotonic
<1> QED BY <1>1, <1>6, OnceFrom, FirstOfIsSeq

\* The trials of a ranking, in its order.
LEMMA RankedTyped ==
  ASSUME AreTrials(results), NEW I \in SUBSET All
  PROVE  /\ IsSequence(Ranked(I)) /\ ToSet(Ranked(I)) \in SUBSET Scored(results, I)
         /\ \A x \in Scored(results, I) : x.i \in All /\ ConfigOf(x) \in Configs
<1>1. Ranked(I) \in Seq(Scored(results, I))
  BY RankIsSeq DEF All, Ranked
<1>2. \A x \in Scored(results, I) : x.i \in All
  BY ScoredRecords DEF All, OkTrials
<1>3. \A i \in All : results[i].cfg \in Configs
  BY TrialTyped DEF All, AreTrials
<1> QED BY <1>1, <1>2, <1>3, SequenceOf DEF ConfigOf

LEMMA ShortlistTyped ==
  ASSUME AreTrials(results)
  PROVE  Shortlist \in Seq(Configs)
<1> DEFINE r == Ranked(All)
           feasible == {x \in ToSet(r) : x.feasible}
           near == Those(r, LAMBDA x : x.feasible /\ \A y \in feasible : Within(x, y, ConfirmBand))
           list == IF feasible = {} THEN FirstOf(r, 1) ELSE near
           cfgs == ForEach(list, ConfigOf)
<1>1. Shortlist = FirstOf(Once(cfgs), ConfirmTop)
  BY DEF Shortlist, ShortlistOf
<1>2. IsSequence(r) /\ \A x \in ToSet(r) : ConfigOf(x) \in Configs
  BY RankedTyped
<1>3. near \in Seq(ToSet(r))
  <2> DEFINE K == {k \in DOMAIN r : r[k].feasible /\ \A y \in feasible : Within(r[k], y, ConfirmBand)}
  <2>1. near = Picked(r, K) /\ K \in SUBSET DOMAIN r
    BY DEF Those
  <2> HIDE DEF K, near, r
  <2> QED BY <1>2, <2>1, PickedFrom
<1>4. FirstOf(r, 1) \in Seq(ToSet(r))
  <2> HIDE DEF r
  <2> QED BY <1>2, FirstOfIsSeq DEF IsSequence
<1> HIDE DEF near
<1>5. list \in Seq(ToSet(r))
  BY <1>3, <1>4
<1> HIDE DEF list, r
<1>6. cfgs \in Seq(Configs)
  <2>1. DOMAIN list = 1..Len(list) /\ Len(list) \in Nat /\ \A k \in 1..Len(list) : list[k] \in ToSet(r)
    BY <1>5
  <2>2. cfgs \in [1..Len(list) -> Configs]
    BY <1>2, <2>1 DEF ForEach
  <2> QED BY <2>1, <2>2, MapIsSeq
<1> HIDE DEF cfgs
<1>7. Once(cfgs) \in Seq(Configs)
  BY <1>6, OnceFrom
<1> QED BY <1>1, <1>7, FirstOfIsSeq, SettingsAssumption

\* What a leader or a winner is: a trial that succeeded.
LEMMA BestIs ==
  ASSUME AreTrials(results), NEW I \in SUBSET All
  PROVE  /\ Best(I) = None <=> ~\E i \in I : results[i].ok
         /\ Best(I) # None => Best(I) \in I /\ results[Best(I)].ok /\ results[Best(I)].cfg \in Configs
<1>1. /\ OkTrials(results, I) = {} => Best(I) = None
      /\ OkTrials(results, I) # {} => Best(I) \in OkTrials(results, I)
  BY PickSucceeds DEF Best, All
<1>2. \A i \in All : i # None
  BY DEF All, AreTrials, IsSequence, None
<1>3. \A i \in OkTrials(results, I) : i \in I /\ results[i].ok
  BY DEF OkTrials
<1>4. \A i \in I : results[i].ok => i \in OkTrials(results, I)
  BY DEF OkTrials
<1>5. \A i \in All : results[i].cfg \in Configs
  BY TrialTyped DEF AreTrials, All
<1> QED BY <1>1, <1>2, <1>3, <1>4, <1>5

LEMMA PowerTyped ==
  ASSUME AreTrials(results), pool \in SUBSET All
  PROVE  PowerSweep \in Seq(Configs)
<1> DEFINE base == Base(results[Best(pool)].cfg)
<1>1. PowerSweep = IF set.power /\ Best(pool) # None THEN <<base, [base EXCEPT !.capped = TRUE]>> ELSE <<>>
  BY DEF PowerSweep
<1>2. ASSUME Best(pool) # None PROVE base \in Configs /\ [base EXCEPT !.capped = TRUE] \in Configs
  <2>1. results[Best(pool)].cfg \in Configs
    BY <1>2, BestIs
  <2> QED BY <2>1 DEF Base, Configs
<1> HIDE DEF base
<1> QED BY <1>1, <1>2

LEMMA ExploreTyped ==
  ASSUME AreTrials(results), set \in Settings, NEW free \in SUBSET set.explore, NEW s \in SetToSeqs(free)
  PROVE  FirstOf(s, MaxOf({ExploreMin, (3 * Len(results) + 9) \div 10})) \in Seq(Configs)
<1>1. set.explore \in SUBSET Configs /\ IsFiniteSet(set.explore)
  <2>1. set \in [specFirst : BOOLEAN, budget : Nat, explore : SUBSET Configs, power : BOOLEAN] /\ IsFiniteSet(set.explore)
    BY SettingsAssumption
  <2> QED BY <2>1
<1>2. Cardinality(free) \in Nat
  BY <1>1, FS_Subset, FS_CardinalityType
<1>3. s \in [1..Cardinality(free) -> free]
  BY DEF SetToSeqs
<1>4. s \in Seq(Configs)
  BY <1>1, <1>2, <1>3, MapIsSeq, SeqMonotonic
<1>5. Len(results) \in Nat
  BY DEF AreTrials, IsSequence
<1>6. MaxOf({ExploreMin, (3 * Len(results) + 9) \div 10}) \in Nat
  <2> DEFINE n == (3 * Len(results) + 9) \div 10
  <2>1. n \in Nat
    BY <1>5
  <2> HIDE DEF n
  <2>2. MaxOf({ExploreMin, n}) \in Nat
    BY <2>1, SettingsAssumption, MaxOfTwo
  <2> QED BY <2>2 DEF n
<1> QED BY <1>4, <1>6, FirstOfIsSeq

\* The tasks that measure ask for configurations; stage 1 for those of its key.
LEMMA PlanTyped ==
  ASSUME TypeOKSearch, NEW t, IsTask(t), t.kind \in Measuring \ {"explore"}
  PROVE  /\ Plan(t) \in Seq(Configs)
         /\ t.kind = "quant" => Plan(t) \in Seq(Group(t.key)) /\ (Plan(t) # <<>> => t.key[1] \notin dropped)
<1>1. AreTrials(results) /\ IsSequence(log) /\ pool \in SUBSET All
  BY DEF TypeOKSearch
<1>2. t.kind \in {"quant", "memory", "batch", "prefill", "variants", "combine", "confirm", "power"}
  BY DEF Measuring, Kinds, Middle, Control
<1>3. CASE t.kind = "quant"
  <2>1. Plan(t) = IF t.key[1] \in dropped THEN <<>> ELSE FirstOf(BaselineCandidates(t.key), MemoryTrials)
    BY <1>3 DEF Plan
  <2>2. FirstOf(BaselineCandidates(t.key), MemoryTrials) \in Seq(Group(t.key))
    BY BaselineTyped, FirstOfIsSeq, SettingsAssumption
  <2>3. CASE t.key[1] \in dropped
    <3>1. Plan(t) = <<>>
      BY <2>1, <2>3
    <3> QED BY <1>3, <3>1
  <2>4. CASE t.key[1] \notin dropped
    <3>1. Plan(t) = FirstOf(BaselineCandidates(t.key), MemoryTrials)
      BY <2>1, <2>4
    <3>2. Plan(t) \in Seq(Group(t.key))
      BY <2>2, <3>1
    <3>3. Plan(t) \in Seq(Configs)
      BY <3>2, GroupTyped, SeqMonotonic
    <3> QED BY <2>4, <3>2, <3>3
  <2> QED BY <2>3, <2>4
<1>4. CASE t.kind = "memory"
  BY <1>4, MemoryTyped DEF Plan
<1>5. CASE t.kind = "batch"
  BY <1>5, BatchTyped DEF Plan
<1>6. CASE t.kind = "prefill"
  <2>1. Plan(t) = Those(Variants("prefill", t.base), Fits)
    BY <1>6 DEF Plan
  <2>2. IsSequence(Variants("prefill", t.base))
    BY VariantsTyped
  <2>3. Those(Variants("prefill", t.base), Fits) \in Seq(Configs)
    BY <2>2, ThoseThatFit
  <2> HIDE DEF Measuring
  <2>4. Plan(t) \in Seq(Configs)
    BY <2>1, <2>3, Zenon
  <2> QED BY <1>6, <2>4
<1>7. CASE t.kind = "variants"
  <2>1. Plan(t) = IF Leader(t.eng, t.spec) = None THEN <<>> ELSE Variants(t.dim, Reference(t))
    BY <1>7 DEF Plan
  <2> DEFINE I == {i \in OfEngine(t.eng) : t.spec = AnySpec \/ SpecOf(results[i].cfg) = t.spec}
  <2>2. Leader(t.eng, t.spec) = Best(I) /\ I \in SUBSET All
    BY DEF Leader, OfEngine
  <2>3. Reference(t) = results[Leader(t.eng, t.spec)].cfg
    BY <1>7 DEF Reference
  <2> HIDE DEF I
  <2>4. Leader(t.eng, t.spec) # None => Reference(t) \in Configs
    BY <1>1, <2>2, <2>3, BestIs
  <2>5. Leader(t.eng, t.spec) # None => Variants(t.dim, Reference(t)) \in Seq(Configs)
    BY <2>4, VariantsTyped
  <2> QED BY <1>7, <2>1, <2>5
<1>8. CASE t.kind = "combine"
  <2>1. Plan(t) = Combinations(t.base, t.spec, t.limit) /\ t.limit \in Nat
    BY <1>8 DEF Plan, IsTask
  <2> QED BY <1>1, <1>8, <2>1, CombinationsTyped
<1>9. CASE t.kind = "confirm"
  BY <1>1, <1>9, ShortlistTyped DEF Plan
<1>10. CASE t.kind = "power"
  BY <1>1, <1>10, PowerTyped DEF Plan
<1> QED BY <1>2, <1>3, <1>4, <1>5, <1>6, <1>7, <1>8, <1>9, <1>10

-----------------------------------------------------------------------------
(* What the other tasks stand for.                                         *)

Tasks(s, K) == IsSequence(s) /\ \A k \in DOMAIN s : IsTask(s[k]) /\ s[k].kind \in K

\* A sequence made of another one element by element.
LEMMA MadeOf ==
  ASSUME NEW s, IsSequence(s), NEW f, f = [k \in DOMAIN s |-> f[k]]
  PROVE  IsSequence(f) /\ DOMAIN f = DOMAIN s /\ Len(f) = Len(s) /\ (s # <<>> => f # <<>>)
<1>1. DOMAIN s = 1..Len(s) /\ Len(s) \in Nat /\ (s # <<>> <=> Len(s) > 0)
  BY Places
<1>2. f = [k \in 1..Len(s) |-> f[k]]
  BY <1>1
<1>3. f \in Seq(ToSet(f)) /\ Len(f) = Len(s) /\ DOMAIN f = 1..Len(s)
  BY <1>1, <1>2, ListIsSeq
<1>4. s # <<>> => f # <<>>
  BY <1>1, <1>3
<1> QED BY <1>1, <1>3, <1>4 DEF IsSequence

LEMMA TasksJoined ==
  ASSUME NEW K, NEW a, Tasks(a, K), NEW b, Tasks(b, K)
  PROVE  Tasks(a \o b, K)
BY Joined DEF Tasks

LEMMA FewTasks ==
  ASSUME NEW K, NEW s, NEW t, IsTask(s), s.kind \in K, IsTask(t), t.kind \in K
  PROVE  Tasks(<<s>>, K) /\ Tasks(<<s, t>>, K) /\ Tasks(<<>>, K)
<1>1. <<s>> \in Seq({s, t}) /\ <<s, t>> \in Seq({s, t}) /\ <<>> \in Seq({s, t})
  OBVIOUS
<1>2. IsSequence(<<s>>) /\ IsSequence(<<s, t>>) /\ IsSequence(<<>>)
  BY <1>1, SequenceOf
<1>3. DOMAIN <<s>> = {1} /\ DOMAIN <<s, t>> = {1, 2} /\ DOMAIN <<>> = {}
  OBVIOUS
<1>4. <<s>>[1] = s /\ <<s, t>>[1] = s /\ <<s, t>>[2] = t
  OBVIOUS
<1> QED BY <1>2, <1>3, <1>4, Zenon DEF Tasks

\* The tasks of the tuning.
LEMMA TaskTyped ==
  ASSUME NEW k \in Kinds \ {"combine", "start"}, NEW x, NEW y, NEW z, NEW n \in Nat
  PROVE  /\ OnKey(k, x).kind = k /\ IsTask(OnKey(k, x))
         /\ OnBase(k, x).kind = k /\ IsTask(OnBase(k, x))
         /\ Simple(k).kind = k /\ IsTask(Simple(k))
         /\ VariantsTask(x, y, z).kind = "variants" /\ IsTask(VariantsTask(x, y, z))
         /\ CombineTask(x, y, n).kind = "combine" /\ IsTask(CombineTask(x, y, n))
         /\ StartTask(x, y, n).kind = "start" /\ IsTask(StartTask(x, y, n))
<1>1. "variants" \in Kinds /\ "combine" \in Kinds /\ "start" \in Kinds
  BY DEF Kinds, Middle
<1>2. OnKey(k, x).kind = k /\ IsTask(OnKey(k, x))
  BY DEF OnKey, IsTask
<1>3. OnBase(k, x).kind = k /\ IsTask(OnBase(k, x))
  BY DEF OnBase, IsTask
<1>4. Simple(k).kind = k /\ IsTask(Simple(k))
  BY DEF Simple, IsTask
<1>5. VariantsTask(x, y, z).kind = "variants" /\ IsTask(VariantsTask(x, y, z))
  BY <1>1 DEF VariantsTask, IsTask
<1>6. CombineTask(x, y, n).kind = "combine" /\ IsTask(CombineTask(x, y, n))
  BY <1>1 DEF CombineTask, IsTask
<1>7. StartTask(x, y, n).kind = "start" /\ IsTask(StartTask(x, y, n))
  BY <1>1 DEF StartTask, IsTask
<1> QED BY <1>2, <1>3, <1>4, <1>5, <1>6, <1>7

LEMMA VariantTasksTyped ==
  ASSUME NEW names, IsSequence(names), NEW e, NEW spec
  PROVE  Tasks(VariantTasks(names, e, spec), Middle)
<1> DEFINE f == VariantTasks(names, e, spec)
<1>1. f = [k \in DOMAIN names |-> VariantsTask(names[k], e, spec)]
  BY DEF VariantTasks, ForEach
<1>2. "explore" \in Kinds \ {"combine", "start"} /\ "variants" \in Middle
  BY DEF Kinds, Middle
<1>3. \A k \in DOMAIN names : IsTask(VariantsTask(names[k], e, spec)) /\ VariantsTask(names[k], e, spec).kind \in Middle
  BY <1>2, TaskTyped, 0 \in Nat
<1> HIDE DEF f
<1>4. f = [k \in DOMAIN names |-> f[k]]
  BY <1>1
<1>5. IsSequence(f) /\ DOMAIN f = DOMAIN names
  BY <1>4, MadeOf
<1> QED BY <1>1, <1>3, <1>5 DEF Tasks, f

\* A task for each of some configurations or keys.
LEMMA ForEachTyped ==
  ASSUME NEW s, IsSequence(s), NEW kind \in Middle \ {"combine", "start"}
  PROVE  /\ Tasks(ForEach(s, LAMBDA x : OnBase(kind, x)), Middle)
         /\ Tasks(ForEach(s, LAMBDA x : OnKey(kind, x)), Middle)
<1> DEFINE f == ForEach(s, LAMBDA x : OnBase(kind, x))
           g == ForEach(s, LAMBDA x : OnKey(kind, x))
<1>1. f = [k \in DOMAIN s |-> OnBase(kind, s[k])] /\ g = [k \in DOMAIN s |-> OnKey(kind, s[k])]
  BY DEF ForEach
<1>2. kind \in Kinds \ {"combine", "start"}
  BY DEF Kinds
<1>3. \A x : /\ IsTask(OnBase(kind, x)) /\ OnBase(kind, x).kind = kind
             /\ IsTask(OnKey(kind, x)) /\ OnKey(kind, x).kind = kind
  BY <1>2, TaskTyped, 0 \in Nat
<1> HIDE DEF f, g
<1>4. f = [k \in DOMAIN s |-> f[k]] /\ g = [k \in DOMAIN s |-> g[k]]
  BY <1>1
<1>5. IsSequence(f) /\ DOMAIN f = DOMAIN s /\ IsSequence(g) /\ DOMAIN g = DOMAIN s
  BY <1>4, MadeOf
<1>6. \A k \in DOMAIN s : f[k] = OnBase(kind, s[k]) /\ g[k] = OnKey(kind, s[k])
  BY <1>1
<1>7. \A k \in DOMAIN s : /\ IsTask(f[k]) /\ f[k].kind \in Middle
                          /\ IsTask(g[k]) /\ g[k].kind \in Middle
  BY <1>3, <1>6
<1>8. Tasks(f, Middle) /\ Tasks(g, Middle)
  BY <1>5, <1>7 DEF Tasks
<1> QED BY <1>8 DEF f, g

LEMMA ContendersIsSeq ==
  ASSUME AreTrials(results)
  PROVE  IsSequence(Contenders) /\ IsSequence(ByOffers(Contenders))
<1> DEFINE r == Ranked(All)
           Contends(x) ==
             LET BestOfEngine(z) == \A y \in ToSet(r) : ConfigOf(y).eng = ConfigOf(z).eng => z = y \/ Ahead(r, z, y)
             IN \/ x = r[1]
                \/ /\ BestOfEngine(x)
                   /\ r[1].feasible /\ x.feasible
                   /\ Within(x, r[1], ContenderBand) \/ OffersMore(ConfigOf(x), ConfigOf(r[1]))
           K == {k \in DOMAIN r : Contends(r[k])}
           those == Picked(r, K)
<1>1. Contenders = [k \in DOMAIN those |-> ConfigOf(those[k])]
  BY DEF Contenders, ContendersAmong, ForEach, Those
<1>2. IsSequence(r) /\ K \in SUBSET DOMAIN r
  BY RankedTyped
<1> HIDE DEF r, K
<1>3. IsSequence(those)
  BY <1>2, PickedFrom
<1> HIDE DEF those
<1> DEFINE cs == Contenders
<1>4. cs = [k \in DOMAIN those |-> cs[k]]
  BY <1>1
<1> HIDE DEF cs
<1>5. IsSequence(cs)
  BY <1>3, <1>4, MadeOf
<1> DEFINE Sooner(i, j) == \/ OfferCount(cs[i]) > OfferCount(cs[j])
                           \/ OfferCount(cs[i]) = OfferCount(cs[j]) /\ i < j
           sorted == SortedBy(DOMAIN cs, Sooner)
           b == ByOffers(cs)
<1>6. b = [k \in DOMAIN sorted |-> cs[sorted[k]]]
  BY DEF ByOffers, ForEach
<1>7. DOMAIN sorted = 1..Cardinality(DOMAIN cs)
  BY DEF SortedBy
<1>8. Cardinality(DOMAIN cs) \in Nat
  BY <1>5, Places, FS_Interval, FS_CardinalityType
<1> HIDE DEF sorted, b
<1>9. b = [k \in 1..Cardinality(DOMAIN cs) |-> b[k]]
  BY <1>6, <1>7
<1>10. IsSequence(b)
  BY <1>8, <1>9, ListIsSeq DEF IsSequence
<1> QED BY <1>5, <1>10 DEF b, cs

LEMMA SpecSettingsIsSeq ==
  ASSUME AreTrials(results), NEW e
  PROVE  IsSequence(SpecSettings(e))
<1> DEFINE r == Ranked(OfEngine(e))
           s == ForEach(r, LAMBDA x : SpecOf(ConfigOf(x)))
<1>1. IsSequence(r)
  BY RankedTyped DEF OfEngine
<1>2. s = [k \in DOMAIN r |-> SpecOf(ConfigOf(r[k]))]
  BY DEF ForEach
<1>3. SpecSettings(e) = FirstOf(Once(s), SpecBeam)
  BY DEF SpecSettings
<1> HIDE DEF r, s
<1>4. s = [k \in DOMAIN r |-> s[k]]
  BY <1>2
<1>5. s \in Seq(ToSet(s))
  BY <1>1, <1>4, MadeOf DEF IsSequence
<1>6. FirstOf(Once(s), SpecBeam) \in Seq(ToSet(s))
  BY <1>5, OnceFrom, FirstOfIsSeq, SettingsAssumption
<1> QED BY <1>3, <1>6, SequenceOf

LEMMA TuneTyped ==
  ASSUME NEW base
  PROVE  Tasks(Tune(base), Middle)
<1>1. /\ "prefill" \in Middle /\ "beam" \in Middle /\ "variants" \in Middle /\ "combine" \in Middle
      /\ "prefill" \in Kinds \ {"combine", "start"} /\ "beam" \in Kinds \ {"combine", "start"}
  BY DEF Kinds, Middle
<1> DEFINE spec == VariantsTask("spec", base.eng, AnySpec)
           beam == OnBase("beam", base)
           prefill == OnBase("prefill", base)
           combine == CombineTask(base, AnySpec, MaxCombinations)
           variants == VariantTasks(VariantStages, base.eng, AnySpec)
<1>2. MaxCombinations \in Nat /\ IsSequence(VariantStages)
  BY SettingsAssumption, SequenceOf
<1>3. /\ IsTask(spec) /\ spec.kind \in Middle /\ IsTask(beam) /\ beam.kind \in Middle
      /\ IsTask(prefill) /\ prefill.kind \in Middle /\ IsTask(combine) /\ combine.kind \in Middle
  BY <1>1, <1>2, TaskTyped
<1>4. Tune(base) = IF Outpaced(base) THEN <<>>
                   ELSE IF set.specFirst /\ Contains(VariantStages, "spec") THEN <<spec, beam>>
                   ELSE <<prefill>> \o variants \o <<combine>>
  BY DEF Tune
<1> HIDE DEF spec, beam, prefill, combine
<1>5. Tasks(<<>>, Middle) /\ Tasks(<<spec, beam>>, Middle) /\ Tasks(<<prefill>>, Middle) /\ Tasks(<<combine>>, Middle)
  BY <1>3, FewTasks
<1>6. Tasks(variants, Middle)
  BY <1>2, VariantTasksTyped
<1> HIDE DEF variants
<1>7. Tasks(<<prefill>> \o variants \o <<combine>>, Middle)
  BY <1>5, <1>6, TasksJoined
<1> QED BY <1>4, <1>5, <1>7

LEMMA BeamTyped ==
  ASSUME AreTrials(results), NEW base
  PROVE  Tasks(Beam(base), Middle)
<1> DEFINE specs == SpecSettings(base.eng)
           limit == MaxOf({2, MaxCombinations \div MaxOf({1, Len(specs)})})
           f == Beam(base)
<1>1. IsSequence(specs)
  BY SpecSettingsIsSeq
<1>2. f = [k \in DOMAIN specs |-> StartTask(base.eng, specs[k], limit)]
  BY DEF Beam, ForEach
<1> HIDE DEF specs, f
<1>3. limit \in Nat
  <2> DEFINE n == MaxOf({1, Len(specs)})
             m == MaxCombinations \div n
  <2>1. n \in Nat /\ n >= 1
    <3>1. Len(specs) \in Nat
      BY <1>1, Places
    <3> QED BY <3>1, MaxOfTwo
  <2> HIDE DEF n
  <2>2. m \in Int
    BY <2>1, SettingsAssumption
  <2> HIDE DEF m
  <2>3. MaxOf({2, m}) \in Nat
    BY <2>2, MaxOfTwo
  <2> QED BY <2>3 DEF m, n
<1> HIDE DEF limit
<1>4. "beam" \in Kinds \ {"combine", "start"} /\ "start" \in Middle
  BY DEF Kinds, Middle
<1>5. \A k \in DOMAIN specs : IsTask(StartTask(base.eng, specs[k], limit)) /\ StartTask(base.eng, specs[k], limit).kind \in Middle
  BY <1>3, <1>4, TaskTyped
<1>6. f = [k \in DOMAIN specs |-> f[k]]
  BY <1>2
<1>7. IsSequence(f) /\ DOMAIN f = DOMAIN specs
  BY <1>1, <1>6, MadeOf
<1>8. \A k \in DOMAIN f : IsTask(f[k]) /\ f[k].kind \in Middle
  BY <1>2, <1>5, <1>7
<1> QED BY <1>7, <1>8 DEF Tasks, f

LEMMA StartTyped ==
  ASSUME NEW t, t.limit \in Nat
  PROVE  Tasks(StartSpec(t), Middle)
<1> DEFINE start == results[Leader(t.eng, t.spec)].cfg
           names == Those(VariantStages, LAMBDA d : d # "spec")
           prefill == OnBase("prefill", start)
           variants == VariantTasks(names, t.eng, t.spec)
           combine == CombineTask(start, t.spec, t.limit)
<1>1. StartSpec(t) = IF Leader(t.eng, t.spec) = None THEN <<>> ELSE <<prefill>> \o variants \o <<combine>>
  BY DEF StartSpec
<1>2. "prefill" \in Middle /\ "combine" \in Middle /\ "prefill" \in Kinds \ {"combine", "start"}
  BY DEF Kinds, Middle
<1> HIDE DEF start
<1>3. IsTask(prefill) /\ prefill.kind \in Middle /\ IsTask(combine) /\ combine.kind \in Middle
  BY <1>2, TaskTyped
<1>4. IsSequence(names)
  <2> DEFINE K == {k \in DOMAIN VariantStages : VariantStages[k] # "spec"}
  <2>1. names = Picked(VariantStages, K) /\ K \in SUBSET DOMAIN VariantStages
    BY DEF Those
  <2>2. IsSequence(VariantStages)
    BY SettingsAssumption, SequenceOf
  <2> HIDE DEF K, names
  <2> QED BY <2>1, <2>2, PickedFrom
<1> HIDE DEF names, prefill, combine
<1>5. Tasks(<<prefill>>, Middle) /\ Tasks(<<combine>>, Middle) /\ Tasks(<<>>, Middle)
  BY <1>3, FewTasks
<1>6. Tasks(variants, Middle)
  BY <1>4, VariantTasksTyped
<1> HIDE DEF variants
<1>7. Tasks(<<prefill>> \o variants \o <<combine>>, Middle)
  BY <1>5, <1>6, TasksJoined
<1> QED BY <1>1, <1>5, <1>7

\* The precisions kept from stage 1: one at least when any trial of stage 1 succeeded.
LEMMA KeptIs ==
  ASSUME AreTrials(results), StageTrials \in SUBSET All, DroppedLose
  PROVE  /\ IsSequence(Kept)
         /\ (\E i \in StageTrials : results[i].ok) => Kept # <<>>
<1> DEFINE r == Ranked(StageTrials)
           K == {k \in DOMAIN r : ConfigOf(r[k]).eng \notin dropped}
           those == Picked(r, K)
           keys == ForEach(those, LAMBDA x : KeyOf(ConfigOf(x)))
<1>1. Kept = FirstOf(keys, TopQuants)
  BY DEF Kept, Those
<1>2. IsSequence(r) /\ K \in SUBSET DOMAIN r
  BY RankedTyped
<1>3. IsSequence(those) /\ (K # {} => those # <<>>)
  <2> HIDE DEF r, K
  <2>1. r \in Seq(ToSet(r))
    BY <1>2 DEF IsSequence
  <2> QED BY <1>2, <2>1, PickedFrom, PickedIsSeq
<1>4. keys = [k \in DOMAIN those |-> KeyOf(ConfigOf(those[k]))]
  BY DEF ForEach
<1>5. ASSUME NEW i \in StageTrials, results[i].ok PROVE K # {}
  <2>1. Best(StageTrials) # None
    BY <1>5, BestIs
  <2>2. OkTrials(results, StageTrials) # {}
    BY <1>5 DEF OkTrials
  <2>3. r # <<>> /\ r[1].i = Best(StageTrials)
    BY <2>2, RankIsSeq DEF Ranked, Best, All
  <2>4. results[Best(StageTrials)].cfg.eng \notin Losers(results, StageTrials)
    BY <2>1, WinnerNotLosing DEF Best, All
  <2>5. LosingBackends = LosingIn(results, StageTrials)
    BY DEF LosingBackends, LosingIn, BestRaw, ConfigOf, OfEngine, All
  <2>6. results[Best(StageTrials)].cfg.eng \notin dropped
    BY <2>4, <2>5, LosersAmong DEF DroppedLose, All
  <2>7. ConfigOf(r[1]).eng \notin dropped
    BY <2>3, <2>6 DEF ConfigOf
  <2>8. 1 \in DOMAIN r
    <3> HIDE DEF r
    <3> QED BY <1>2, <2>3, Places
  <2> QED BY <2>7, <2>8
<1> HIDE DEF r, K, those
<1>6. keys = [k \in DOMAIN those |-> keys[k]]
  BY <1>4
<1> HIDE DEF keys
<1>7. IsSequence(keys) /\ (those # <<>> => keys # <<>>)
  BY <1>3, <1>6, MadeOf
<1>8. keys \in Seq(ToSet(keys)) /\ TopQuants \in Nat /\ TopQuants # 0
  BY <1>7, SettingsAssumption DEF IsSequence
<1>9. FirstOf(keys, TopQuants) \in Seq(ToSet(keys)) /\ (keys # <<>> => FirstOf(keys, TopQuants) # <<>>)
  BY <1>8, FirstOfIsSeq
<1>10. IsSequence(Kept)
  BY <1>1, <1>9, SequenceOf
<1> QED BY <1>1, <1>3, <1>5, <1>7, <1>9, <1>10

\* The tasks after stage 1: the tuning, then the confirmation, the power sweep and the choice.
Stages(s) ==
  /\ IsSequence(s) /\ Len(s) > 3
  /\ \A k \in DOMAIN s : /\ IsTask(s[k])
                         /\ k <= Len(s) - 3 => s[k].kind \in Middle
                         /\ k = Len(s) - 2 => s[k].kind = "confirm"
                         /\ k = Len(s) - 1 => s[k].kind = "power"
                         /\ k = Len(s) => s[k].kind = "pick"

LEMMA AfterQuantTyped ==
  ASSUME IsSequence(Kept), Kept # <<>>
  PROVE  Stages(AfterQuant)
<1> DEFINE early == IF set.budget = Unlimited THEN <<>> ELSE <<Simple("early")>>
           memory == ForEach(Kept, LAMBDA k : OnKey("memory", k))
           batch == ForEach(Kept, LAMBDA k : OnKey("batch", k))
           contenders == Simple("contenders")
           explore == Simple("explore")
           confirm == Simple("confirm")
           power == Simple("power")
           pick == Simple("pick")
           end == <<contenders, explore, confirm, power, pick>>
           front == (early \o memory) \o batch
<1>1. AfterQuant = front \o end
  BY DEF AfterQuant
<1>2. /\ {"early", "memory", "batch", "contenders", "explore"} \in SUBSET (Middle \ {"combine", "start"})
      /\ Middle \ {"combine", "start"} \in SUBSET (Kinds \ {"combine", "start"})
      /\ {"confirm", "power", "pick"} \in SUBSET (Kinds \ {"combine", "start"})
  BY DEF Kinds, Middle
<1>3. /\ IsTask(contenders) /\ contenders.kind \in Middle /\ IsTask(explore) /\ explore.kind \in Middle
      /\ IsTask(confirm) /\ confirm.kind = "confirm" /\ IsTask(power) /\ power.kind = "power"
      /\ IsTask(pick) /\ pick.kind = "pick"
      /\ IsTask(Simple("early")) /\ Simple("early").kind \in Middle
  BY <1>2, TaskTyped, 0 \in Nat
<1>4. Tasks(early, Middle)
  <2> DEFINE e == Simple("early")
  <2> HIDE DEF e
  <2>1. Tasks(<<>>, Middle) /\ Tasks(<<e>>, Middle)
    BY <1>3, FewTasks DEF e
  <2> QED BY <2>1 DEF e
<1>5. Tasks(memory, Middle) /\ Tasks(batch, Middle)
  BY <1>2, ForEachTyped
<1> HIDE DEF early, memory, batch, contenders, explore, confirm, power, pick
<1>6. Tasks(front, Middle)
  BY <1>4, <1>5, TasksJoined
<1> HIDE DEF front
<1>7. IsSequence(end) /\ Len(end) = 5 /\ DOMAIN end = 1..5
  <2>1. end \in Seq({contenders, explore, confirm, power, pick}) /\ Len(end) = 5 /\ DOMAIN end = 1..5
    OBVIOUS
  <2> HIDE DEF end
  <2> QED BY <2>1, SequenceOf
<1>8. /\ IsTask(end[1]) /\ end[1].kind \in Middle /\ IsTask(end[2]) /\ end[2].kind \in Middle
      /\ IsTask(end[3]) /\ end[3].kind = "confirm" /\ IsTask(end[4]) /\ end[4].kind = "power"
      /\ IsTask(end[5]) /\ end[5].kind = "pick"
  BY <1>3
<1> HIDE DEF end
<1> DEFINE s == front \o end
           n == Len(front)
<1>9. /\ IsSequence(s) /\ Len(s) = n + 5 /\ n \in Nat /\ DOMAIN s = 1..(n + 5) /\ DOMAIN front = 1..n
      /\ \A k \in 1..n : s[k] = front[k]
      /\ \A k \in (n + 1)..(n + 5) : s[k] = end[k - n]
  <2>1. IsSequence(front)
    BY <1>6 DEF Tasks
  <2>2. IsSequence(s) /\ Len(s) = Len(front) + Len(end)
        /\ (\A k \in DOMAIN front : s[k] = front[k])
        /\ \A k \in DOMAIN s \ DOMAIN front : s[k] = end[k - Len(front)]
    BY <1>7, <2>1, Joined
  <2> HIDE DEF s
  <2>3. DOMAIN s = 1..Len(s) /\ DOMAIN front = 1..n /\ n \in Nat
    BY <2>1, <2>2, Places
  <2> HIDE DEF n
  <2>4. Len(s) = n + 5
    BY <1>7, <2>2 DEF n
  <2>5. \A k \in (n + 1)..(n + 5) : k \in DOMAIN s \ DOMAIN front
    BY <2>3, <2>4
  <2>6. \A k \in DOMAIN s \ DOMAIN front : s[k] = end[k - n]
    BY <2>2 DEF n
  <2>7. \A k \in 1..n : s[k] = front[k]
    BY <2>2, <2>3
  <2> QED BY <2>2, <2>3, <2>4, <2>5, <2>6, <2>7
<1> HIDE DEF s, n
<1>10. ASSUME NEW k \in DOMAIN s
       PROVE  /\ IsTask(s[k])
              /\ k <= n + 2 => s[k].kind \in Middle
              /\ k = n + 3 => s[k].kind = "confirm"
              /\ k = n + 4 => s[k].kind = "power"
              /\ k = n + 5 => s[k].kind = "pick"
  <2>1. CASE k \in 1..n
    <3>1. s[k] = front[k] /\ k \in DOMAIN front
      BY <1>9, <2>1
    <3>2. IsTask(s[k]) /\ s[k].kind \in Middle
      BY <1>6, <3>1 DEF Tasks
    <3> QED BY <1>9, <2>1, <3>2
  <2>2. CASE k = n + 1
    <3>1. s[k] = end[1]
      BY <1>9, <2>2
    <3> QED BY <1>8, <1>9, <2>2, <3>1
  <2>3. CASE k = n + 2
    <3>1. s[k] = end[2]
      BY <1>9, <2>3
    <3> QED BY <1>8, <1>9, <2>3, <3>1
  <2>4. CASE k = n + 3
    <3>1. s[k] = end[3]
      BY <1>9, <2>4
    <3> QED BY <1>8, <1>9, <2>4, <3>1
  <2>5. CASE k = n + 4
    <3>1. s[k] = end[4]
      BY <1>9, <2>5
    <3> QED BY <1>8, <1>9, <2>5, <3>1
  <2>6. CASE k = n + 5
    <3>1. s[k] = end[5]
      BY <1>9, <2>6
    <3> QED BY <1>8, <1>9, <2>6, <3>1
  <2>7. n \in Nat /\ k \in 1..(n + 5)
    BY <1>9
  <2>8. \/ k \in 1..n
        \/ k = n + 1 \/ k = n + 2 \/ k = n + 3 \/ k = n + 4 \/ k = n + 5
    BY <2>7
  <2> QED BY <2>1, <2>2, <2>3, <2>4, <2>5, <2>6, <2>8
<1>11. Stages(s)
  BY <1>9, <1>10 DEF Stages
<1> QED BY <1>1, <1>11 DEF s

\* What a task that does not measure becomes.
LEMMA ExpandTyped ==
  ASSUME TypeOKSearch, StageOneKept, DroppedLose, NEW t, IsTask(t), t.kind \in Control
  PROVE  /\ IsSequence(Expand(t))
         /\ t.kind # "keep" => Tasks(Expand(t), Middle)
         /\ t.kind = "keep" => \/ Stages(Expand(t))
                               \/ Expand(t) = <<>> /\ ~\E i \in StageTrials : results[i].ok
<1>1. AreTrials(results) /\ StageTrials \in SUBSET All
  BY DEF TypeOKSearch, StageTrials
<1>2. CASE t.kind = "keep"
  <2>1. Expand(t) = AfterQuant
    BY <1>2 DEF Expand
  <2>2. IsSequence(Kept) /\ ((\E i \in StageTrials : results[i].ok) => Kept # <<>>)
    BY <1>1, KeptIs
  <2>3. CASE Kept = <<>>
    <3>1. AfterQuant = <<>>
      BY <2>3 DEF AfterQuant
    <3> QED BY <1>2, <2>1, <2>2, <2>3, <3>1, Single
  <2>4. CASE Kept # <<>>
    <3>1. Stages(AfterQuant)
      BY <2>2, <2>4, AfterQuantTyped
    <3> QED BY <1>2, <2>1, <3>1 DEF Stages
  <2> QED BY <2>3, <2>4
<1>3. CASE t.kind = "early"
  <2>1. Expand(t) = ForEach(Contenders, LAMBDA c : OnBase("stages", c))
    BY <1>3 DEF Expand
  <2>2. "stages" \in Middle \ {"combine", "start"}
    BY DEF Middle
  <2>3. Tasks(ForEach(Contenders, LAMBDA c : OnBase("stages", c)), Middle)
    BY <1>1, <2>2, ContendersIsSeq, ForEachTyped
  <2>4. Tasks(Expand(t), Middle)
    BY <2>1, <2>3, Zenon
  <2> QED BY <1>3, <2>4 DEF Tasks
<1>4. CASE t.kind = "stages"
  <2>1. Expand(t) = VariantTasks(VariantStages, t.base.eng, AnySpec)
    BY <1>4 DEF Expand
  <2>2. IsSequence(VariantStages)
    BY SettingsAssumption, SequenceOf
  <2>3. Tasks(Expand(t), Middle)
    BY <2>1, <2>2, VariantTasksTyped
  <2> QED BY <1>4, <2>3 DEF Tasks
<1>5. CASE t.kind = "contenders"
  <2>1. Expand(t) = ForEach(ByOffers(Contenders), LAMBDA c : OnBase("tune", c))
    BY <1>5 DEF Expand
  <2>2. "tune" \in Middle \ {"combine", "start"}
    BY DEF Middle
  <2>3. Tasks(ForEach(ByOffers(Contenders), LAMBDA c : OnBase("tune", c)), Middle)
    BY <1>1, <2>2, ContendersIsSeq, ForEachTyped
  <2>4. Tasks(Expand(t), Middle)
    BY <2>1, <2>3, Zenon
  <2> QED BY <1>5, <2>4 DEF Tasks
<1>6. CASE t.kind = "tune"
  <2>1. Expand(t) = Tune(t.base)
    BY <1>6 DEF Expand
  <2>2. Tasks(Expand(t), Middle)
    BY <2>1, TuneTyped
  <2> QED BY <1>6, <2>2 DEF Tasks
<1>7. CASE t.kind = "beam"
  <2>1. Expand(t) = Beam(t.base)
    BY <1>7 DEF Expand
  <2>2. Tasks(Expand(t), Middle)
    BY <1>1, <2>1, BeamTyped
  <2> QED BY <1>7, <2>2 DEF Tasks
<1>8. CASE t.kind = "start"
  <2>1. Expand(t) = StartSpec(t) /\ t.limit \in Nat
    BY <1>8 DEF Expand, IsTask
  <2>2. Tasks(Expand(t), Middle)
    BY <2>1, StartTyped
  <2> QED BY <1>8, <2>2 DEF Tasks
<1> QED BY <1>2, <1>3, <1>4, <1>5, <1>6, <1>7, <1>8 DEF Control

-----------------------------------------------------------------------------
(* The first task and the next trial.                                      *)

LEMMA AgendaIs ==
  ASSUME TypeOKSearch, StagesInOrder, ~Over
  PROVE  /\ Len(agenda) \in Nat \ {0} /\ DOMAIN agenda = 1..Len(agenda) /\ 1 \in DOMAIN agenda
         /\ Current = agenda[1] /\ IsTask(Current)
         /\ IsSequence(Tail(agenda)) /\ Len(Tail(agenda)) = Len(agenda) - 1 /\ DOMAIN Tail(agenda) = 1..(Len(agenda) - 1)
         /\ \A k \in 1..(Len(agenda) - 1) : Tail(agenda)[k] = agenda[k + 1]
         /\ \A k \in DOMAIN agenda \ {1} : agenda[k].kind \in MayFollow(Current.kind)
         /\ Current.kind \in {"keep", "pick"} <=> Len(agenda) = 1
<1>1. agenda # <<>> /\ agenda \in Seq(ToSet(agenda)) /\ IsSequence(agenda) /\ \A k \in DOMAIN agenda : IsTask(agenda[k])
  BY DEF TypeOKSearch, Over, IsSequence
<1>2. Len(agenda) \in Nat \ {0} /\ DOMAIN agenda = 1..Len(agenda) /\ 1 \in DOMAIN agenda /\ Current = agenda[1]
  BY <1>1 DEF Current
<1>3. IsTask(Current)
  BY <1>1, <1>2
<1>4. /\ Len(Tail(agenda)) = Len(agenda) - 1 /\ DOMAIN Tail(agenda) = 1..(Len(agenda) - 1)
      /\ \A k \in 1..(Len(agenda) - 1) : Tail(agenda)[k] = agenda[k + 1]
  BY <1>1, <1>2
<1>5. IsSequence(Tail(agenda))
  BY <1>1, SequenceOf
<1>6. \A k \in DOMAIN agenda \ {1} : agenda[k].kind \in MayFollow(Current.kind)
  BY <1>2 DEF StagesInOrder
<1>7. Current.kind \in {"keep", "pick"} => Len(agenda) = 1
  <2>1. Current.kind \in {"keep", "pick"} => MayFollow(Current.kind) = {}
    BY DEF MayFollow, Middle
  <2>2. Len(agenda) # 1 => 2 \in DOMAIN agenda \ {1}
    BY <1>2
  <2> QED BY <1>6, <2>1, <2>2
<1>8. Len(agenda) = 1 => Current.kind \in {"keep", "pick"}
  BY <1>2 DEF StagesInOrder
<1> QED BY <1>2, <1>3, <1>4, <1>5, <1>6, <1>7, <1>8

LEMMA NewTrial ==
  ASSUME NEW c \in Configs, NEW stage \in Measuring, NEW out \in Outcomes \cup {Typical}
  PROVE  /\ IsTrial(Result(c, stage, out))
         /\ Result(c, stage, out).cfg = c /\ Result(c, stage, out).stage = stage
         /\ Result(c, stage, out).out = out /\ Result(c, stage, out).ok = out.ok
<1> DEFINE t == Result(c, stage, out)
<1>1. t.cfg = c /\ t.stage = stage /\ t.out = out /\ t.ok = out.ok
  BY DEF Result
<1>2. t = Result(t.cfg, t.stage, t.out)
  BY <1>1
<1> HIDE DEF t
<1>3. IsTrial(t)
  BY <1>1, <1>2 DEF IsTrial
<1> QED BY <1>1, <1>3 DEF t

IsExtended(us, ts, t) == us = Append(ts, t)

HasOneMore(us, ts, t) ==
  /\ AreTrials(us)
  /\ DOMAIN us = DOMAIN ts \cup {Len(ts) + 1} /\ Len(ts) + 1 \notin DOMAIN ts
  /\ Len(ts) \in Nat /\ Len(us) = Len(ts) + 1
  /\ us[Len(ts) + 1] = t /\ \A i \in DOMAIN ts : us[i] = ts[i] /\ i < Len(ts) + 1

LEMMA OneMore ==
  ASSUME NEW ts, AreTrials(ts), NEW t, IsTrial(t), NEW us, IsExtended(us, ts, t)
  PROVE  HasOneMore(us, ts, t)
<1> DEFINE S == ToSet(ts) \cup {t}
<1>1. ts \in Seq(ToSet(ts)) /\ ToSet(ts) \in SUBSET S
  BY DEF AreTrials, IsSequence
<1> HIDE DEF S
<1>2. ts \in Seq(S) /\ t \in S
  BY <1>1, SeqMonotonic DEF S
<1>3. /\ us \in Seq(S) /\ Len(us) = Len(ts) + 1 /\ us[Len(ts) + 1] = t
      /\ DOMAIN ts = 1..Len(ts) /\ DOMAIN us = 1..(Len(ts) + 1) /\ Len(ts) \in Nat
      /\ \A i \in 1..Len(ts) : us[i] = ts[i]
  BY <1>2 DEF IsExtended
<1>4. IsSequence(us)
  BY <1>3, SequenceOf
<1>5. \A i \in DOMAIN us : IsTrial(us[i])
  <2> TAKE i \in DOMAIN us
  <2>1. CASE i \in DOMAIN ts
    BY <1>3, <2>1 DEF AreTrials
  <2>2. CASE i = Len(ts) + 1
    BY <1>3, <2>2
  <2> QED BY <1>3, <2>1, <2>2
<1>6. AreTrials(us)
  BY <1>4, <1>5 DEF AreTrials
<1>7. DOMAIN us = DOMAIN ts \cup {Len(ts) + 1} /\ Len(ts) + 1 \notin DOMAIN ts
  BY <1>3
<1>8. \A i \in DOMAIN ts : us[i] = ts[i] /\ i < Len(ts) + 1
  BY <1>3
<1> QED BY <1>3, <1>6, <1>7, <1>8 DEF HasOneMore

\* What is asked for now.
LEMMA AskedTyped ==
  ASSUME TypeOKSearch, StagesInOrder, begun
  PROVE  /\ ~Over /\ Current.kind \in Measuring
         /\ todo # <<>> => /\ Asked \in Configs /\ Head(todo) \in Configs
                           /\ Tail(todo) \in Seq(Configs)
<1>1. ~Over /\ Current.kind \in Measuring
  BY DEF StagesInOrder
<1>2. todo \in Seq(Configs) /\ retry \in Configs \cup {NoConfig}
  BY DEF TypeOKSearch
<1> QED BY <1>1, <1>2 DEF Asked

\* A trial adds its result and its time.
LEMMA RecordAdds ==
  ASSUME TypeOKSearch, StagesInOrder, begun, todo # <<>>, NEW out \in AnyOutcome, NEW timed \in BOOLEAN, Record(out, timed)
  PROVE  /\ AreTrials(results') /\ All' = All \cup {Len(results) + 1} /\ Len(results) + 1 \notin All
         /\ Len(results) \in Nat /\ Len(results') = Len(results) + 1
         /\ \A i \in All : results'[i] = results[i] /\ i < Len(results) + 1
         /\ results'[Len(results) + 1] = Result(Asked, Current.kind, out)
         /\ IsTrial(results'[Len(results) + 1])
         /\ results'[Len(results) + 1].cfg = Asked /\ results'[Len(results) + 1].stage = Current.kind
         /\ results'[Len(results) + 1].out = out /\ results'[Len(results) + 1].ok = out.ok
         /\ out \in Outcomes \cup {Typical}
         /\ spent' \in Nat /\ count' \in Nat /\ surprises' \in Nat
<1>1. Asked \in Configs /\ Current.kind \in Measuring
  BY AskedTyped
<1>2. out \in Outcomes \cup {Typical} /\ out.time \in Nat
  BY OutcomeTyped DEF AnyOutcome
<1>3. AreTrials(results) /\ spent \in Nat /\ count \in Nat /\ surprises \in Nat
  BY DEF TypeOKSearch
<1> DEFINE t == Result(Asked, Current.kind, out)
<1>4. IsTrial(t) /\ t.cfg = Asked /\ t.stage = Current.kind /\ t.out = out /\ t.ok = out.ok
  BY <1>1, <1>2, NewTrial
<1>5. IsExtended(results', results, t)
  BY DEF Record, IsExtended
<1>6. spent' \in Nat /\ count' \in Nat /\ surprises' \in Nat
  BY <1>2, <1>3 DEF Record
<1> HIDE DEF t
<1>7. /\ AreTrials(results') /\ All' = All \cup {Len(results) + 1} /\ Len(results) + 1 \notin All
      /\ Len(results) \in Nat /\ Len(results') = Len(results) + 1
      /\ \A i \in All : results'[i] = results[i] /\ i < Len(results) + 1
      /\ results'[Len(results) + 1] = t
  <2>1. HasOneMore(results', results, t)
    BY <1>3, <1>4, <1>5, OneMore
  <2> QED BY <2>1 DEF All, HasOneMore
<1> QED BY <1>2, <1>4, <1>6, <1>7 DEF t

\* Every step keeps the results, and adds those of the stage in progress.
Grown ==
  /\ AreTrials(results') /\ All \in SUBSET All'
  /\ \A i \in All : results'[i] = results[i]
  /\ \A i \in All' \ All : results'[i].stage = Current.kind
  /\ All' # All => begun /\ todo # <<>> /\ agenda' = agenda /\ begun' = begun

LEMMA ResultsGrow ==
  ASSUME TypeOKSearch, StagesInOrder, [Next]_vars
  PROVE  Grown
<1>1. AreTrials(results)
  BY DEF TypeOKSearch
<1>2. ASSUME UNCHANGED results PROVE Grown
  BY <1>1, <1>2 DEF Grown, All
<1>3. ASSUME NEW out \in AnyOutcome, NEW timed \in BOOLEAN, Record(out, timed), begun, todo # <<>>, UNCHANGED <<agenda, begun>>
      PROVE  Grown
  BY <1>3, RecordAdds DEF Grown
<1>4. CASE Measure
  <2>1. PICK out \in AnyOutcome : Record(out, TRUE)
    BY <1>4 DEF Measure
  <2> QED BY <1>3, <1>4, <2>1 DEF Measure, Asking
<1>5. CASE Remeasure
  <2>1. begun /\ todo # <<>> /\ UNCHANGED <<agenda, begun>>
    BY <1>5 DEF Remeasure, Running
  <2>2. UNCHANGED results \/ \E out \in AnyOutcome : Record(out, TRUE)
    BY <1>5 DEF Remeasure, tvars
  <2> QED BY <1>2, <1>3, <2>1, <2>2
<1>6. CASE SweepOne
  <2>1. PICK out \in AnyOutcome : Record(out, FALSE)
    BY <1>6 DEF SweepOne
  <2> QED BY <1>3, <1>6, <2>1 DEF SweepOne, Running
<1>7. CASE SweepNotStarted
  <2>1. begun /\ Current.kind = "power" /\ Len(todo) = 2 /\ UNCHANGED <<agenda, begun>>
    BY <1>7 DEF SweepNotStarted, Running
  <2>2. todo \in Seq(Configs) /\ todo # <<>>
    <3>1. todo \in Seq(Configs)
      BY DEF TypeOKSearch
    <3> QED BY <2>1, <3>1
  <2>3. PICK out \in Outcomes : results' = results \o <<Result(todo[1], "power", out), Result(todo[2], "power", out)>>
    BY <1>7 DEF SweepNotStarted
  <2> DEFINE t == Result(todo[1], "power", out)
             u == Result(todo[2], "power", out)
             ts == Append(results, t)
  <2>4. "power" \in Measuring
    BY DEF Measuring, Kinds, Control
  <2>5. todo[1] \in Configs /\ todo[2] \in Configs
    BY <2>1, <2>2
  <2>6. IsTrial(t) /\ t.stage = "power" /\ IsTrial(u) /\ u.stage = "power"
    BY <2>4, <2>5, NewTrial
  <2> HIDE DEF t, u
  <2>7. IsExtended(results', ts, u)
    <3>1. results \in Seq(ToSet(results))
      BY <1>1 DEF AreTrials, IsSequence
    <3> QED BY <2>3, <3>1 DEF t, u, IsExtended
  <2>8. /\ AreTrials(ts) /\ DOMAIN ts = DOMAIN results \cup {Len(results) + 1}
        /\ ts[Len(results) + 1] = t /\ \A i \in DOMAIN results : ts[i] = results[i]
    <3>1. IsExtended(ts, results, t)
      BY DEF IsExtended
    <3> HIDE DEF ts
    <3>2. HasOneMore(ts, results, t)
      BY <1>1, <2>6, <3>1, OneMore
    <3> QED BY <3>2 DEF HasOneMore
  <2> HIDE DEF ts
  <2>9. /\ AreTrials(results') /\ DOMAIN results' = DOMAIN ts \cup {Len(ts) + 1}
        /\ results'[Len(ts) + 1] = u /\ \A i \in DOMAIN ts : results'[i] = ts[i]
    <3>1. HasOneMore(results', ts, u)
      BY <2>6, <2>7, <2>8, OneMore
    <3> QED BY <3>1 DEF HasOneMore
  <2> QED BY <2>1, <2>2, <2>6, <2>8, <2>9 DEF Grown, All
<1>8. CASE \/ ExpandTask \/ BeginTask \/ BeginExplore \/ EndTask \/ PickWinner
           \/ Recall \/ SkipTrial \/ SweepRaises \/ Finished \/ UNCHANGED vars
  <2>1. UNCHANGED results
    BY <1>8 DEF ExpandTask, BeginTask, BeginExplore, EndTask, PickWinner, Recall, SkipTrial, SweepRaises, Finished, vars, tvars
  <2> QED BY <1>2, <2>1
<1> QED BY <1>4, <1>5, <1>6, <1>7, <1>8 DEF Next

-----------------------------------------------------------------------------
(* Types.                                                                  *)

\* The answer of _run() is kept in stage 1, and what is asked for gets shorter.
LEMMA AnswerTyped ==
  ASSUME TypeOKSearch, StagesInOrder, begun, todo # <<>>, Grown, NEW i \in All' \cup {Skipped}, Answer(i)
  PROVE  /\ retry' \in Configs \cup {NoConfig}
         /\ stageRes' \in [ToSet(Keys) -> All' \cup {Skipped}]
         /\ todo' \in Seq(Configs)
<1>1. Tail(todo) \in Seq(Configs) /\ <<>> \in Seq(Configs)
  BY AskedTyped
<1>2. stageRes \in [ToSet(Keys) -> All' \cup {Skipped}]
  <2>1. stageRes \in [ToSet(Keys) -> All \cup {Skipped}]
    BY DEF TypeOKSearch
  <2>2. All \cup {Skipped} \in SUBSET (All' \cup {Skipped})
    BY DEF Grown
  <2> QED BY <2>1, <2>2
<1>3. stageRes' \in [ToSet(Keys) -> All' \cup {Skipped}]
  <2>1. stageRes' = IF Running("quant") THEN [stageRes EXCEPT ![Current.key] = i] ELSE stageRes
    BY DEF Answer
  <2> QED BY <1>2, <2>1
<1>4. todo' = <<>> \/ todo' = Tail(todo)
  BY DEF Answer
<1>5. retry' = NoConfig
  BY DEF Answer
<1> QED BY <1>1, <1>3, <1>4, <1>5

LEMMA ExpandedTasks ==
  ASSUME TypeOKSearch, StageOneKept, DroppedLose, NEW t, IsTask(t), t.kind \in Control
  PROVE  Tasks(Expand(t), Kinds)
<1>1. Middle \in SUBSET Kinds
  BY DEF Kinds
<1>2. CASE t.kind # "keep"
  BY <1>1, <1>2, ExpandTyped DEF Tasks
<1>3. CASE t.kind = "keep"
  <2>1. CASE Stages(Expand(t))
    BY <2>1 DEF Stages, Tasks, IsTask
  <2>2. CASE Expand(t) = <<>>
    BY <2>2, Empty DEF Tasks
  <2> QED BY <1>3, <2>1, <2>2, ExpandTyped
<1> QED BY <1>2, <1>3

LEMMA TailTasks ==
  ASSUME TypeOKSearch, StagesInOrder, ~Over
  PROVE  Tasks(Tail(agenda), Kinds)
<1>1. \A k \in DOMAIN agenda : IsTask(agenda[k])
  BY DEF TypeOKSearch
<1>2. \A k \in DOMAIN Tail(agenda) : k + 1 \in DOMAIN agenda /\ Tail(agenda)[k] = agenda[k + 1]
  BY AgendaIs
<1>3. IsSequence(Tail(agenda))
  BY AgendaIs
<1> QED BY <1>1, <1>2, <1>3 DEF Tasks, IsTask

\* What _done remembers.
LEMMA MemoIs ==
  ASSUME AreTrials(results), NEW c, Done(c)
  PROVE  /\ Memo(c) \in All
         /\ results[Memo(c)].cfg = c /\ results[Memo(c)].stage # "confirm"
<1>1. DoneFor(c) \in SUBSET 1..Len(results) /\ DoneFor(c) # {} /\ Len(results) \in Nat
  BY Places DEF Done, DoneFor, All, AreTrials
<1> DEFINE D == DoneFor(c)
           R == {p \in D \X D : p[1] < p[2]}
<1>2. IsFiniteSet(D)
  <2>1. IsFiniteSet(1..Len(results))
    BY <1>1, FS_Interval
  <2> QED BY <1>1, <2>1, FS_Subset
<1>3. \A i \in D : i \in Int
  BY <1>1
<1> HIDE DEF D
<1>4. Orders(R, D) /\ \A i, j \in D : <<i, j>> \in R => i < j
  BY <1>3 DEF Orders
<1> HIDE DEF R
<1>5. PICK i \in D : \A j \in D \ {i} : <<i, j>> \in R
  BY <1>1, <1>2, <1>4, FirstExists DEF D
<1>6. \A j \in D : i <= j
  <2> TAKE j \in D
  <2>1. CASE j = i
    BY <1>3, <2>1
  <2>2. CASE j # i
    <3>1. <<i, j>> \in R
      BY <1>5, <2>2
    <3>2. i < j
      BY <1>4, <3>1
    <3>3. i \in Int /\ j \in Int
      BY <1>3
    <3> QED BY <3>2, <3>3
  <2> QED BY <2>1, <2>2
<1>7. Memo(c) \in D
  BY <1>6 DEF Memo, D
<1> QED BY <1>7 DEF D, DoneFor

LEMMA TypeOKInit ==
  ASSUME Init
  PROVE  TypeOKSearch
<1>1. Keys \in Seq(ToSet(Keys)) /\ IsSequence(Keys)
  BY GridAssumption, SequenceOf DEF IsSequence
<1> DEFINE f == ForEach(Keys, LAMBDA k : OnKey("quant", k))
           keep == Simple("keep")
<1>2. agenda = f \o <<keep>>
  BY DEF Init
<1>3. {"quant", "keep"} \in SUBSET (Kinds \ {"combine", "start"})
  BY DEF Kinds, Middle
<1>4. IsTask(keep) /\ keep.kind \in Kinds /\ \A k : IsTask(OnKey("quant", k)) /\ OnKey("quant", k).kind \in Kinds
  BY <1>3, TaskTyped, 0 \in Nat
<1>5. f = [k \in DOMAIN Keys |-> OnKey("quant", Keys[k])]
  BY DEF ForEach
<1> HIDE DEF f, keep
<1>6. f = [k \in DOMAIN Keys |-> f[k]]
  BY <1>5
<1>7. IsSequence(f) /\ DOMAIN f = DOMAIN Keys
  BY <1>1, <1>6, MadeOf
<1>8. Tasks(f, Kinds)
  BY <1>4, <1>5, <1>7 DEF Tasks
<1>9. Tasks(<<keep>>, Kinds)
  BY <1>4, FewTasks
<1>10. Tasks(agenda, Kinds)
  BY <1>2, <1>8, <1>9, TasksJoined
<1>11. /\ set \in Settings /\ begun = FALSE /\ todo = <<>> /\ retry = NoConfig /\ results = <<>> /\ log = <<>>
       /\ skipped = FALSE /\ spent = 0 /\ count = 0 /\ pool = {} /\ raised = FALSE /\ surprises = 0
       /\ stageRes = [k \in ToSet(Keys) |-> Skipped]
  BY DEF Init
<1>12. AreTrials(results) /\ IsSequence(log)
  <2>1. IsSequence(results) /\ DOMAIN results = {} /\ IsSequence(log)
    BY <1>11, Empty
  <2> QED BY <2>1 DEF AreTrials
<1>13. stageRes \in [ToSet(Keys) -> All \cup {Skipped}]
  BY <1>11
<1>14. todo \in Seq(Configs) /\ (todo # <<>> => begun)
  BY <1>11
<1> QED BY <1>10, <1>11, <1>12, <1>13, <1>14 DEF TypeOKSearch, Tasks

LEMMA TypeOKStep ==
  ASSUME TypeOKSearch, StagesInOrder, StageOneKept, DroppedLose, [Next]_vars
  PROVE  TypeOKSearch'
<1>1. Grown
  BY ResultsGrow
<1>2. AreTrials(results') /\ All \in SUBSET All'
  BY <1>1 DEF Grown
<1> DEFINE Flags == /\ set' \in Settings /\ begun' \in BOOLEAN /\ skipped' \in BOOLEAN /\ raised' \in BOOLEAN
           Agenda == IsSequence(agenda') /\ \A k \in DOMAIN agenda' : IsTask(agenda'[k])
           Asks == todo' \in Seq(Configs) /\ (todo' # <<>> => begun') /\ retry' \in Configs \cup {NoConfig}
           Kept1 == stageRes' \in [ToSet(Keys) -> All' \cup {Skipped}]
           Rest == pool' \in SUBSET All' /\ spent' \in Nat /\ count' \in Nat /\ surprises' \in Nat
<1>3. ASSUME Flags, Agenda, Asks, IsSequence(log'), Kept1, Rest PROVE TypeOKSearch'
  BY <1>2, <1>3 DEF TypeOKSearch
<1>4. UNCHANGED stageRes => Kept1
  <2>1. stageRes \in [ToSet(Keys) -> All \cup {Skipped}] /\ All \cup {Skipped} \in SUBSET (All' \cup {Skipped})
    BY <1>2 DEF TypeOKSearch
  <2> QED BY <2>1
<1>5. UNCHANGED agenda => Agenda
  BY DEF TypeOKSearch
<1>6. UNCHANGED <<pool, spent, count, surprises>> => Rest
  BY <1>2 DEF TypeOKSearch
<1>7. UNCHANGED <<todo, begun, retry>> => Asks
  BY DEF TypeOKSearch
<1>8. /\ set \in Settings /\ begun \in BOOLEAN /\ skipped \in BOOLEAN /\ raised \in BOOLEAN /\ IsSequence(log)
      /\ todo \in Seq(Configs) /\ (todo # <<>> => begun) /\ retry \in Configs \cup {NoConfig}
      /\ pool \in SUBSET All /\ spent \in Nat /\ count \in Nat /\ surprises \in Nat
  BY DEF TypeOKSearch
<1>9. <<>> \in Seq(Configs) /\ (todo # <<>> => Tail(todo) \in Seq(Configs))
  BY <1>8, Empty
<1> HIDE DEF Flags, Agenda, Asks, Kept1, Rest
<1>11. CASE ExpandTask
  <2>1. /\ ~Over /\ Current.kind \in Control /\ agenda' = Expand(Current) \o Tail(agenda)
        /\ UNCHANGED <<set, begun, skipped, raised, todo, retry, log, stageRes, pool, spent, count, surprises>>
    BY <1>11 DEF ExpandTask, tvars
  <2>2. Tasks(Expand(Current), Kinds) /\ Tasks(Tail(agenda), Kinds)
    BY <2>1, AgendaIs, ExpandedTasks, TailTasks
  <2>3. Tasks(agenda', Kinds)
    BY <2>1, <2>2, TasksJoined
  <2> QED BY <1>3, <1>4, <1>6, <1>7, <1>8, <2>1, <2>3 DEF Tasks, Flags, Agenda
<1>12. CASE BeginTask
  <2>1. /\ ~Over /\ ~begun /\ Current.kind \notin Control \cup {"explore", "pick"}
        /\ begun' = TRUE /\ todo' = Plan(Current)
        /\ log' = (IF Current.kind \in {"prefill", "variants"}
                     THEN log \o ForEach(todo', LAMBDA c : [dim |-> IF Current.kind = "prefill" THEN "prefill" ELSE Current.dim,
                                                            ref |-> Reference(Current), var |-> c])
                     ELSE log)
        /\ pool' = (IF Current.kind = "confirm" THEN All ELSE pool)
        /\ UNCHANGED <<set, agenda, skipped, raised, retry, stageRes, spent, count, surprises>>
    BY <1>12 DEF BeginTask, tvars
  <2>2. IsTask(Current) /\ Current.kind \in Measuring \ {"explore"}
    BY <2>1, AgendaIs DEF IsTask, Measuring
  <2>3. todo' \in Seq(Configs)
    BY <2>1, <2>2, PlanTyped
  <2>4. IsSequence(log')
    <3> DEFINE entry(c) == [dim |-> IF Current.kind = "prefill" THEN "prefill" ELSE Current.dim,
                            ref |-> Reference(Current), var |-> c]
               f == ForEach(todo', entry)
    <3>1. f = [k \in DOMAIN todo' |-> entry(todo'[k])]
      BY DEF ForEach
    <3>2. log' = (IF Current.kind \in {"prefill", "variants"} THEN log \o f ELSE log)
      BY <2>1
    <3> HIDE DEF f, entry
    <3>3. f = [k \in DOMAIN todo' |-> f[k]]
      BY <3>1
    <3>4. IsSequence(todo')
      BY <2>3, SequenceOf
    <3>5. IsSequence(log \o f)
      BY <1>8, <3>3, <3>4, MadeOf, Joined
    <3> QED BY <1>8, <3>2, <3>5
  <2>5. Rest
    BY <1>2, <1>8, <2>1 DEF Rest
  <2> QED BY <1>3, <1>4, <1>5, <1>8, <2>1, <2>3, <2>4, <2>5 DEF Flags, Asks
<1>13. CASE BeginExplore
  <2>1. /\ ~Over /\ ~begun /\ begun' = TRUE
        /\ UNCHANGED <<set, agenda, retry, log, stageRes, skipped, pool, raised, spent, count, surprises>>
    BY <1>13 DEF BeginExplore, tvars
  <2>2. todo' \in Seq(Configs)
    <3>5. <<>> \in Seq(Configs)
      BY Empty
    <3> DEFINE lead == results[Best(All)].cfg
               free == {c \in set.explore : KeyOf(c) = KeyOf(lead) /\ ~Done(c)}
               n == MaxOf({ExploreMin, (3 * Len(results) + 9) \div 10})
    <3>1. todo' = <<>> \/ \E s \in SetToSeqs(free) : todo' = FirstOf(s, n)
      BY <1>13 DEF BeginExplore
    <3>2. free \in SUBSET set.explore
      OBVIOUS
    <3>3. AreTrials(results) /\ set \in Settings
      BY DEF TypeOKSearch
    <3> HIDE DEF free
    <3>4. ASSUME NEW s \in SetToSeqs(free) PROVE FirstOf(s, n) \in Seq(Configs)
      BY <3>2, <3>3, ExploreTyped
    <3> HIDE DEF n
    <3> QED BY <3>1, <3>4, <3>5
  <2> QED BY <1>3, <1>4, <1>5, <1>6, <1>8, <2>1, <2>2 DEF Flags, Asks
<1>14. CASE EndTask
  <2>1. /\ begun /\ todo = <<>> /\ begun' = FALSE /\ agenda' = Tail(agenda)
        /\ UNCHANGED <<set, todo, retry, results, log, stageRes, skipped, raised, spent, count, surprises>>
    BY <1>14 DEF EndTask, tvars
  <2>2. Tasks(agenda', Kinds)
    BY <2>1, AskedTyped, TailTasks
  <2>3. pool' \in SUBSET All
    <3> DEFINE fresh == {i \in All : results[i].stage = "confirm" /\ results[i].ok}
    <3>1. pool' = CASE Current.kind = "confirm" -> Confirmed(fresh)
                    [] Current.kind = "power" -> pool \cup {i \in All : results[i].stage = "power"}
                    [] OTHER -> pool
      BY <1>14 DEF EndTask
    <3>2. Confirmed(fresh) \in SUBSET All
      BY <1>8 DEF Confirmed
    <3> HIDE DEF fresh
    <3> QED BY <1>8, <3>1, <3>2
  <2>4. Rest
    BY <1>2, <1>8, <2>1, <2>3 DEF Rest
  <2> QED BY <1>3, <1>4, <1>7, <1>8, <2>1, <2>2, <2>4 DEF Tasks, Flags, Agenda, Asks
<1>15. CASE PickWinner
  <2>1. /\ agenda' = <<>>
        /\ UNCHANGED <<set, begun, skipped, raised, todo, retry, log, stageRes, pool, spent, count, surprises>>
    BY <1>15 DEF PickWinner, tvars
  <2>2. IsSequence(agenda') /\ DOMAIN agenda' = {}
    BY <2>1, Empty
  <2> QED BY <1>3, <1>4, <1>6, <1>7, <1>8, <2>1, <2>2 DEF Flags, Agenda
<1>16. ASSUME begun, todo # <<>>, NEW i \in All' \cup {Skipped}, Answer(i), Rest, skipped' \in BOOLEAN,
              UNCHANGED <<set, agenda, begun, log, raised>>
       PROVE  TypeOKSearch'
  <2>1. retry' \in Configs \cup {NoConfig} /\ Kept1 /\ todo' \in Seq(Configs)
    BY <1>1, <1>16, AnswerTyped DEF Kept1
  <2> QED BY <1>3, <1>5, <1>8, <1>16, <2>1 DEF Flags, Asks
<1>17. CASE Recall
  <2>1. /\ begun /\ todo # <<>> /\ Done(Asked) /\ Answer(Memo(Asked))
        /\ UNCHANGED <<set, agenda, begun, log, skipped, raised, pool, spent, count, surprises>>
    BY <1>17 DEF Recall, Asking, tvars
  <2>2. Memo(Asked) \in All
    BY <2>1, MemoIs DEF TypeOKSearch
  <2> QED BY <1>2, <1>6, <1>8, <1>16, <2>1, <2>2
<1>18. CASE SkipTrial
  <2>1. /\ begun /\ todo # <<>> /\ Answer(Skipped) /\ skipped' = TRUE
        /\ UNCHANGED <<set, agenda, begun, log, raised, pool, spent, count, surprises>>
    BY <1>18 DEF SkipTrial, Asking, tvars
  <2> QED BY <1>6, <1>16, <2>1
<1>19. ASSUME begun, todo # <<>>, NEW out \in AnyOutcome, NEW timed \in BOOLEAN, Record(out, timed), UNCHANGED pool
       PROVE  Rest /\ Len(results) + 1 \in All'
  <2>1. spent' \in Nat /\ count' \in Nat /\ surprises' \in Nat /\ Len(results) + 1 \in All'
    BY <1>19, RecordAdds
  <2> QED BY <1>2, <1>8, <1>19, <2>1 DEF Rest
<1>20. CASE Measure
  <2>1. begun /\ todo # <<>> /\ UNCHANGED <<set, agenda, begun, log, skipped, pool, raised>>
    BY <1>20 DEF Measure, Asking
  <2>2. PICK out \in AnyOutcome :
          /\ Record(out, TRUE)
          /\ \/ Retriable(Asked, out) /\ retry' = Less(Asked) /\ UNCHANGED <<stageRes, chosen, todo>>
             \/ Answer(Len(results) + 1)
    BY <1>20 DEF Measure
  <2>3. Rest /\ Len(results) + 1 \in All'
    BY <1>19, <2>1, <2>2
  <2>4. CASE Answer(Len(results) + 1)
    BY <1>8, <1>16, <2>1, <2>3, <2>4
  <2>5. CASE Retriable(Asked, out) /\ retry' = Less(Asked) /\ UNCHANGED <<stageRes, chosen, todo>>
    <3>1. retry' \in Configs
      BY <2>5 DEF Retriable, Fits
    <3> QED BY <1>3, <1>4, <1>5, <1>8, <2>1, <2>3, <2>5, <3>1 DEF Flags, Asks
  <2> QED BY <2>2, <2>4, <2>5
<1>21. CASE Remeasure
  <2>1. /\ begun /\ todo # <<>> /\ (todo' = <<>> \/ todo' = Tail(todo)) /\ skipped' \in BOOLEAN
        /\ UNCHANGED <<set, agenda, begun, retry, log, stageRes, pool, raised>>
    BY <1>8, <1>21 DEF Remeasure, Running
  <2>2. UNCHANGED <<spent, count, surprises>> \/ \E out \in AnyOutcome : Record(out, TRUE)
    BY <1>21 DEF Remeasure, tvars
  <2>3. Rest
    BY <1>6, <1>19, <2>1, <2>2
  <2>4. Asks
    BY <1>8, <1>9, <2>1 DEF Asks
  <2> QED BY <1>3, <1>4, <1>5, <1>8, <2>1, <2>3, <2>4 DEF Flags
<1>22. CASE SweepOne
  <2>1. /\ begun /\ todo # <<>> /\ todo' = Tail(todo)
        /\ UNCHANGED <<set, agenda, begun, retry, log, stageRes, skipped, pool, raised>>
    BY <1>22 DEF SweepOne, Running
  <2>2. PICK out \in AnyOutcome : Record(out, FALSE)
    BY <1>22 DEF SweepOne
  <2>3. Rest
    BY <1>19, <2>1, <2>2
  <2>4. Asks
    BY <1>8, <1>9, <2>1 DEF Asks
  <2> QED BY <1>3, <1>4, <1>5, <1>8, <2>1, <2>3, <2>4 DEF Flags
<1>23. CASE SweepNotStarted
  <2>1. /\ begun /\ todo' = <<>> /\ surprises' = surprises + 1
        /\ UNCHANGED <<set, agenda, begun, retry, log, stageRes, skipped, spent, count, pool, raised>>
    BY <1>23 DEF SweepNotStarted, Running
  <2>2. Rest
    BY <1>2, <1>8, <2>1 DEF Rest
  <2>3. Asks
    BY <1>8, <2>1 DEF Asks
  <2> QED BY <1>3, <1>4, <1>5, <1>8, <2>1, <2>2, <2>3 DEF Flags
<1>24. CASE SweepRaises
  <2>1. /\ raised' = TRUE /\ agenda' = <<>> /\ begun' = FALSE /\ todo' = <<>>
        /\ UNCHANGED <<set, retry, log, stageRes, skipped, pool, spent, count, surprises>>
    BY <1>24 DEF SweepRaises, tvars
  <2>2. IsSequence(agenda') /\ DOMAIN agenda' = {}
    BY <2>1, Empty
  <2>3. Asks
    BY <1>8, <2>1 DEF Asks
  <2> QED BY <1>3, <1>4, <1>6, <1>8, <2>1, <2>2, <2>3 DEF Flags, Agenda
<1>25. CASE Finished \/ UNCHANGED vars
  <2>1. UNCHANGED <<set, agenda, begun, retry, log, stageRes, skipped, todo, pool, raised, spent, count, surprises>>
    BY <1>25 DEF Finished, vars, tvars
  <2> QED BY <1>3, <1>4, <1>5, <1>6, <1>7, <1>8, <2>1 DEF Flags
<1> QED BY <1>11, <1>12, <1>13, <1>14, <1>15, <1>17, <1>18, <1>20, <1>21, <1>22, <1>23, <1>24, <1>25 DEF Next

-----------------------------------------------------------------------------
(* The order of the stages.                                                *)

Ordered(a) ==
  /\ \A j, k \in DOMAIN a : j < k => a[k].kind \in MayFollow(a[j].kind)
  /\ Len(a) > 0 => a[Len(a)].kind \in {"keep", "pick"}
  /\ \A k \in 1..(Len(a) - 1) : /\ a[k + 1].kind = "power" => a[k].kind = "confirm"
                                /\ a[k + 1].kind = "pick" => a[k].kind = "power"
  /\ \A k \in DOMAIN a : a[k].kind = "quant" =>
       /\ a[k].key \in ToSet(Keys)
       /\ \A j \in 1..(k - 1) : a[j].key # a[k].key

LEMMA OrderedIs ==
  ASSUME TypeOKSearch
  PROVE  StagesInOrder <=> Ordered(agenda) /\ (begun => ~Over /\ Current.kind \in Measuring)
<1>1. IsSequence(agenda)
  BY DEF TypeOKSearch
<1>2. ~Over <=> Len(agenda) > 0
  BY <1>1, Places DEF Over
<1> QED BY <1>2 DEF StagesInOrder, Ordered

LEMMA OrderedIsNext ==
  ASSUME TypeOKSearch', Ordered(agenda'), begun' => Len(agenda') > 0 /\ agenda'[1].kind \in Measuring
  PROVE  StagesInOrder'
<1>1. IsSequence(agenda')
  BY DEF TypeOKSearch
<1>2. Over' <=> ~(Len(agenda') > 0)
  BY <1>1, Places DEF Over
<1>3. Len(agenda') > 0 => Current' = agenda'[1]
  BY <1>1 DEF Current, IsSequence
<1> QED BY <1>2, <1>3 DEF StagesInOrder, Ordered

LEMMA Follows ==
  /\ \A k \in Middle : MayFollow(k) = Kinds \ {"quant", "keep"}
  /\ MayFollow("confirm") = {"power", "pick"} /\ MayFollow("power") = {"pick"}
  /\ MayFollow("quant") = {"quant", "keep"}
  /\ MayFollow("keep") = {} /\ MayFollow("pick") = {}
  /\ \A k \in Middle : k \in Kinds /\ k \notin {"quant", "keep", "confirm", "power", "pick"}
  /\ \A k \in Control : k \in Kinds /\ (k # "keep" => k \in Middle)
<1>1. /\ \A k \in Middle : k \in Kinds /\ k \notin {"quant", "keep", "confirm", "power", "pick"}
      /\ \A k \in Control : k \in Kinds /\ (k # "keep" => k \in Middle)
  BY DEF Middle, Kinds, Control
<1>2. \A k \in Middle : MayFollow(k) = Kinds \ {"quant", "keep"}
  <2> TAKE k \in Middle
  <2>1. k # "quant"
    BY <1>1
  <2> HIDE DEF Middle
  <2> QED BY <1>1, <2>1 DEF MayFollow
<1>3. /\ MayFollow("confirm") = {"power", "pick"} /\ MayFollow("power") = {"pick"}
      /\ MayFollow("quant") = {"quant", "keep"}
      /\ MayFollow("keep") = {} /\ MayFollow("pick") = {}
  BY DEF MayFollow, Middle
<1> QED BY <1>1, <1>2, <1>3

LEMMA TailOrdered ==
  ASSUME TypeOKSearch, StagesInOrder, ~Over
  PROVE  Ordered(Tail(agenda))
<1> DEFINE T == Tail(agenda)
           n == Len(agenda)
<1>1. /\ n \in Nat \ {0} /\ DOMAIN agenda = 1..n /\ Len(T) = n - 1 /\ DOMAIN T = 1..(n - 1)
      /\ \A k \in 1..(n - 1) : T[k] = agenda[k + 1]
  BY AgendaIs
<1>2. Ordered(agenda)
  BY OrderedIs
<1> HIDE DEF T, n
<1>3. \A j, k \in DOMAIN T : j < k => T[k].kind \in MayFollow(T[j].kind)
  <2> SUFFICES ASSUME NEW j \in DOMAIN T, NEW k \in DOMAIN T, j < k PROVE T[k].kind \in MayFollow(T[j].kind)
    OBVIOUS
  <2>1. j + 1 \in DOMAIN agenda /\ k + 1 \in DOMAIN agenda /\ j + 1 < k + 1
    BY <1>1
  <2>2. agenda[k + 1].kind \in MayFollow(agenda[j + 1].kind)
    BY <1>2, <2>1 DEF Ordered
  <2> QED BY <1>1, <2>2
<1>4. Len(T) > 0 => T[Len(T)].kind \in {"keep", "pick"}
  <2>1. agenda[n].kind \in {"keep", "pick"}
    BY <1>1, <1>2 DEF Ordered, n
  <2>2. Len(T) > 0 => T[n - 1] = agenda[n - 1 + 1] /\ n - 1 + 1 = n
    BY <1>1
  <2> QED BY <1>1, <2>1, <2>2
<1>5. \A k \in 1..(Len(T) - 1) : /\ T[k + 1].kind = "power" => T[k].kind = "confirm"
                                 /\ T[k + 1].kind = "pick" => T[k].kind = "power"
  <2> TAKE k \in 1..(Len(T) - 1)
  <2>1. k + 1 \in 1..(n - 1) /\ k \in 1..(n - 1)
    BY <1>1
  <2>2. T[k + 1] = agenda[k + 1 + 1] /\ T[k] = agenda[k + 1]
    BY <1>1, <2>1
  <2>3. k + 1 \in 1..(Len(agenda) - 1)
    BY <1>1, <2>1 DEF n
  <2> QED BY <1>2, <2>2, <2>3 DEF Ordered
<1>6. \A k \in DOMAIN T : T[k].kind = "quant" => T[k].key \in ToSet(Keys) /\ \A j \in 1..(k - 1) : T[j].key # T[k].key
  <2> SUFFICES ASSUME NEW k \in DOMAIN T, T[k].kind = "quant"
               PROVE  T[k].key \in ToSet(Keys) /\ \A j \in 1..(k - 1) : T[j].key # T[k].key
    OBVIOUS
  <2>1. k + 1 \in DOMAIN agenda /\ T[k] = agenda[k + 1]
    BY <1>1
  <2>4. agenda[k + 1].kind = "quant"
    BY <2>1
  <2>2. agenda[k + 1].key \in ToSet(Keys) /\ \A j \in 1..k : agenda[j].key # agenda[k + 1].key
    <3> DEFINE q == k + 1
    <3>1. q \in DOMAIN agenda /\ agenda[q].kind = "quant" /\ q - 1 = k
      BY <1>1, <2>1, <2>4
    <3> HIDE DEF q
    <3>2. agenda[q].key \in ToSet(Keys) /\ \A j \in 1..(q - 1) : agenda[j].key # agenda[q].key
      BY <1>2, <3>1 DEF Ordered
    <3> QED BY <3>1, <3>2 DEF q
  <2>3. \A j \in 1..(k - 1) : j + 1 \in 1..k /\ T[j] = agenda[j + 1]
    BY <1>1
  <2> QED BY <2>1, <2>2, <2>3
<1>7. Ordered(T)
  BY <1>3, <1>4, <1>5, <1>6 DEF Ordered
<1> QED BY <1>7 DEF T

LEMMA ExpandOrdered ==
  ASSUME TypeOKSearch, StagesInOrder, StageOneKept, DroppedLose, ~Over, Current.kind \in Control
  PROVE  Ordered(Expand(Current) \o Tail(agenda))
<1> DEFINE E == Expand(Current)
           T == Tail(agenda)
           s == E \o T
           n == Len(E)
           m == Len(T)
<1>1. IsTask(Current) /\ IsSequence(T) /\ Ordered(T)
  BY AgendaIs, TailOrdered
<1>2. IsSequence(E)
  BY <1>1, ExpandTyped
<1>3. /\ n \in Nat /\ DOMAIN E = 1..n /\ m \in Nat /\ DOMAIN T = 1..m
      /\ Len(s) = n + m /\ DOMAIN s = 1..(n + m)
      /\ \A k \in 1..n : s[k] = E[k]
      /\ \A k \in (n + 1)..(n + m) : k - n \in 1..m /\ s[k] = T[k - n]
  <2>1. /\ IsSequence(s) /\ Len(s) = n + m
        /\ \A k \in DOMAIN E : s[k] = E[k]
        /\ \A k \in DOMAIN s \ DOMAIN E : s[k] = T[k - n]
    BY <1>1, <1>2, Joined
  <2> HIDE DEF E, T, s
  <2>2. n \in Nat /\ DOMAIN E = 1..n /\ m \in Nat /\ DOMAIN T = 1..m /\ DOMAIN s = 1..Len(s)
    BY <1>1, <1>2, <2>1, Places
  <2> QED BY <2>1, <2>2
<1>4. /\ m = Len(agenda) - 1 /\ (Current.kind = "keep" <=> m = 0)
      /\ \A k \in 1..m : T[k] = agenda[k + 1] /\ T[k].kind \in MayFollow(Current.kind)
  <2>1. Current.kind # "pick"
    BY DEF Control
  <2>2. /\ m = Len(agenda) - 1 /\ Len(agenda) \in Nat /\ DOMAIN agenda = 1..Len(agenda)
        /\ \A k \in 1..(Len(agenda) - 1) : T[k] = agenda[k + 1]
        /\ \A k \in DOMAIN agenda \ {1} : agenda[k].kind \in MayFollow(Current.kind)
        /\ Current.kind \in {"keep", "pick"} <=> Len(agenda) = 1
    BY AgendaIs
  <2> HIDE DEF T, m
  <2> QED BY <2>1, <2>2
<1>5. CASE Current.kind = "keep" /\ E = <<>>
  <2>1. n = 0 /\ m = 0
    BY <1>4, <1>5, Empty
  <2> HIDE DEF s, n, m
  <2> QED BY <1>3, <2>1 DEF Ordered, s
<1>6. CASE Current.kind = "keep" /\ Stages(E)
  <2>1. m = 0 /\ n > 3
    BY <1>4, <1>6 DEF Stages
  <2> HIDE DEF s, n, m, E
  <2>2. Len(s) = n /\ DOMAIN s = 1..n /\ n \in Nat
    BY <1>3, <2>1
  <2>3. \A k \in 1..n : /\ k <= n - 3 => s[k].kind \in Middle
                        /\ k = n - 2 => s[k].kind = "confirm"
                        /\ k = n - 1 => s[k].kind = "power"
                        /\ k = n => s[k].kind = "pick"
    BY <1>3, <1>6 DEF Stages, n
  <2>4. \A k \in 1..n : s[k].kind \in Kinds \ {"quant", "keep"}
    <3> TAKE k \in 1..n
    <3>1. k <= n - 3 \/ k = n - 2 \/ k = n - 1 \/ k = n
      BY <2>2
    <3>2. {"confirm", "power", "pick"} \in SUBSET (Kinds \ {"quant", "keep"})
      BY DEF Kinds
    <3> QED BY <2>3, <3>1, <3>2, Follows
  <2>5. ASSUME NEW j \in 1..n, NEW k \in 1..n, j < k PROVE s[k].kind \in MayFollow(s[j].kind)
    <3>1. CASE j <= n - 3
      BY <2>3, <2>4, <3>1, Follows
    <3>2. CASE j = n - 2
      <4>1. k = n - 1 \/ k = n
        BY <2>2, <2>5, <3>2
      <4>2. s[k].kind \in {"power", "pick"}
        BY <2>3, <4>1
      <4> QED BY <2>3, <3>2, <4>2, Follows
    <3>3. CASE j = n - 1
      <4>1. k = n
        BY <2>2, <2>5, <3>3
      <4> QED BY <2>3, <3>3, <4>1, Follows
    <3>4. j <= n - 3 \/ j = n - 2 \/ j = n - 1
      BY <2>2, <2>5
    <3> QED BY <3>1, <3>2, <3>3, <3>4
  <2>6. ASSUME NEW k \in 1..(n - 1)
        PROVE  (s[k + 1].kind = "power" => s[k].kind = "confirm") /\ (s[k + 1].kind = "pick" => s[k].kind = "power")
    <3>1. k + 1 <= n - 3 \/ k + 1 = n - 2 \/ k + 1 = n - 1 \/ k + 1 = n
      BY <2>2
    <3>2. k \in 1..n /\ k + 1 \in 1..n
      BY <2>2
    <3>3. CASE k + 1 <= n - 3
      <4>1. s[k + 1].kind \in Middle
        BY <2>3, <3>2, <3>3
      <4> QED BY <4>1, Follows
    <3>4. CASE k + 1 = n - 2
      <4>1. s[k + 1].kind = "confirm"
        BY <2>3, <3>2, <3>4
      <4> QED BY <4>1
    <3>5. CASE k + 1 = n - 1
      <4>1. s[k + 1].kind = "power" /\ k = n - 2
        BY <2>2, <2>3, <3>2, <3>5
      <4> QED BY <2>3, <3>2, <4>1
    <3>6. CASE k + 1 = n
      <4>1. s[k + 1].kind = "pick" /\ k = n - 1
        BY <2>2, <2>3, <3>2, <3>6
      <4> QED BY <2>3, <3>2, <4>1
    <3> QED BY <3>1, <3>3, <3>4, <3>5, <3>6
  <2>7. s[n].kind = "pick"
    BY <2>1, <2>2, <2>3
  <2>8. Ordered(s)
    BY <2>2, <2>4, <2>5, <2>6, <2>7 DEF Ordered
  <2> QED BY <2>8 DEF s, E, T
<1>7. CASE Current.kind # "keep"
  <2>9. Current.kind \in Middle
    BY <1>7, Follows
  <2>10. MayFollow(Current.kind) = Kinds \ {"quant", "keep"}
    BY <2>9, Follows
  <2>11. m \in Nat /\ m # 0
    BY <1>3, <1>4, <1>7
  <2>12. m > 0
    <3> HIDE DEF m
    <3> QED BY <2>11
  <2>1. m > 0 /\ MayFollow(Current.kind) = Kinds \ {"quant", "keep"} /\ Current.kind \in Middle
    BY <2>9, <2>10, <2>12
  <2>2. \A k \in 1..n : E[k].kind \in Middle
    BY <1>1, <1>3, <1>7, ExpandTyped DEF Tasks
  <2> HIDE DEF s, n, m, E, T
  <2>3. \A k \in 1..n : s[k].kind \in Middle
    BY <1>3, <2>2
  <2>4. \A k \in 1..(n + m) : s[k].kind \in Kinds \ {"quant", "keep"}
    <3> TAKE k \in 1..(n + m)
    <3>1. CASE k \in 1..n
      BY <2>3, <3>1, Follows
    <3>2. CASE k \in (n + 1)..(n + m)
      BY <1>3, <1>4, <2>1, <3>2
    <3> QED BY <1>3, <3>1, <3>2
  <2>5. ASSUME NEW j \in 1..(n + m), NEW k \in 1..(n + m), j < k PROVE s[k].kind \in MayFollow(s[j].kind)
    <3>1. CASE j \in 1..n
      BY <2>3, <2>4, <3>1, Follows
    <3>2. CASE j \in (n + 1)..(n + m)
      <4>1. k \in (n + 1)..(n + m)
        BY <1>3, <2>5, <3>2
      <4>2. j - n \in DOMAIN T /\ k - n \in DOMAIN T /\ j - n < k - n
        BY <1>3, <2>5, <3>2, <4>1
      <4>3. s[j] = T[j - n] /\ s[k] = T[k - n]
        BY <1>3, <3>2, <4>1
      <4> QED BY <1>1, <4>2, <4>3 DEF Ordered
    <3> QED BY <1>3, <3>1, <3>2
  <2>6. ASSUME NEW k \in 1..(n + m - 1)
        PROVE  (s[k + 1].kind = "power" => s[k].kind = "confirm") /\ (s[k + 1].kind = "pick" => s[k].kind = "power")
    <3>1. CASE k + 1 \in 1..n
      <4>1. s[k + 1].kind \in Middle
        BY <2>3, <3>1
      <4> QED BY <4>1, Follows
    <3>2. CASE k = n
      <4>1. s[k + 1] = T[1] /\ T[1] = agenda[1 + 1] /\ 1 \in 1..(Len(agenda) - 1)
        <5>1. k + 1 \in (n + 1)..(n + m) /\ k + 1 - n = 1 /\ 1 \in 1..m
          BY <1>3, <2>1, <3>2
        <5> QED BY <1>3, <1>4, <5>1
      <4>2. agenda[1] = Current
        BY AgendaIs
      <4>3. /\ agenda[1 + 1].kind = "power" => Current.kind = "confirm"
            /\ agenda[1 + 1].kind = "pick" => Current.kind = "power"
        BY <4>1, <4>2 DEF StagesInOrder
      <4> QED BY <2>1, <4>1, <4>3, Follows
    <3>3. CASE k \in (n + 1)..(n + m - 1)
      <4>1. k - n \in 1..(Len(T) - 1) /\ s[k] = T[k - n] /\ s[k + 1] = T[(k - n) + 1]
        <5>1. k - n \in 1..(m - 1) /\ k \in (n + 1)..(n + m) /\ k + 1 \in (n + 1)..(n + m) /\ k + 1 - n = (k - n) + 1
          BY <1>3, <3>3
        <5> QED BY <1>3, <5>1 DEF m
      <4> QED BY <1>1, <4>1 DEF Ordered
    <3> QED BY <1>3, <3>1, <3>2, <3>3
  <2>7. s[n + m].kind \in {"keep", "pick"}
    <3>1. n + m \in (n + 1)..(n + m) /\ n + m - n = m
      BY <1>3, <2>1
    <3>2. s[n + m] = T[m]
      BY <1>3, <3>1
    <3> QED BY <1>1, <2>1, <3>2 DEF Ordered, m
  <2>8. Ordered(s)
    BY <1>3, <2>4, <2>5, <2>6, <2>7 DEF Ordered
  <2> QED BY <2>8 DEF s, E, T
<1>8. Current.kind = "keep" => E = <<>> \/ Stages(E)
  BY <1>1, ExpandTyped
<1> QED BY <1>5, <1>6, <1>7, <1>8
LEMMA EmptyOrdered == Ordered(<<>>)
<1>1. Len(<<>>) = 0 /\ DOMAIN <<>> = {}
  BY Empty
<1> QED BY <1>1 DEF Ordered

\* The steps by what they do to the agenda.
LEMMA AgendaMoves ==
  ASSUME [Next]_vars
  PROVE  \/ ExpandTask \/ BeginTask \/ BeginExplore \/ EndTask
         \/ agenda' = <<>> /\ (begun' = FALSE \/ (begun' = begun /\ ~Over /\ Current.kind = "pick"))
         \/ UNCHANGED <<agenda, begun>>
<1>1. CASE PickWinner \/ SweepRaises
  BY <1>1 DEF PickWinner, SweepRaises
<1>2. CASE Recall \/ SkipTrial \/ Measure \/ Remeasure \/ SweepOne \/ SweepNotStarted
  BY <1>2 DEF Recall, SkipTrial, Measure, Remeasure, SweepOne, SweepNotStarted
<1>3. CASE Finished \/ UNCHANGED vars
  BY <1>3 DEF Finished, vars
<1> QED BY <1>1, <1>2, <1>3 DEF Next

LEMMA StagesInOrderStep ==
  ASSUME TypeOKSearch, StagesInOrder, StageOneKept, DroppedLose, [Next]_vars
  PROVE  StagesInOrder'
<1>1. /\ Ordered(agenda) /\ (begun => ~Over /\ Current.kind \in Measuring) /\ begun \in BOOLEAN
      /\ Measuring \cap Control = {} /\ "pick" \notin Measuring
  BY OrderedIs DEF TypeOKSearch, Measuring
<1>2. SUFFICES Ordered(agenda') /\ (begun' => Len(agenda') > 0 /\ agenda'[1].kind \in Measuring)
  BY TypeOKStep, OrderedIsNext
<1>3. CASE ExpandTask
  <2>1. ~Over /\ Current.kind \in Control /\ agenda' = Expand(Current) \o Tail(agenda) /\ begun' = begun
    BY <1>3 DEF ExpandTask
  <2> QED BY <1>1, <2>1, ExpandOrdered
<1>4. CASE BeginTask \/ BeginExplore
  <2>1. ~Over /\ agenda' = agenda /\ begun' = TRUE /\ Current.kind \notin Control \cup {"pick"}
    BY <1>4 DEF BeginTask, BeginExplore, Control
  <2>2. Len(agenda) > 0 /\ Current = agenda[1] /\ Current.kind \in Kinds
    BY <2>1, AgendaIs DEF IsTask
  <2> QED BY <1>1, <2>1, <2>2 DEF Measuring
<1>5. CASE EndTask
  <2>1. begun' = FALSE /\ agenda' = Tail(agenda) /\ begun
    BY <1>5 DEF EndTask
  <2> QED BY <1>1, <2>1, TailOrdered
<1>6. CASE agenda' = <<>> /\ (begun' = FALSE \/ (begun' = begun /\ ~Over /\ Current.kind = "pick"))
  BY <1>1, <1>6, EmptyOrdered
<1>7. CASE UNCHANGED <<agenda, begun>>
  BY <1>1, <1>7, AgendaIs
<1> QED BY <1>3, <1>4, <1>5, <1>6, <1>7, AgendaMoves

-----------------------------------------------------------------------------
(* The first state.                                                        *)

LEMMA AgendaInit ==
  ASSUME Init
  PROVE  /\ Len(Keys) \in Nat /\ Len(agenda) = Len(Keys) + 1 /\ DOMAIN agenda = 1..(Len(Keys) + 1) /\ DOMAIN Keys = 1..Len(Keys)
         /\ \A k \in 1..Len(Keys) : agenda[k].kind = "quant" /\ agenda[k].key = Keys[k]
         /\ agenda[Len(Keys) + 1].kind = "keep"
<1>1. IsSequence(Keys)
  BY GridAssumption, SequenceOf
<1>2. Len(Keys) \in Nat /\ DOMAIN Keys = 1..Len(Keys)
  BY <1>1, Places
<1> DEFINE f == ForEach(Keys, LAMBDA k : OnKey("quant", k))
           keep == Simple("keep")
           last == <<keep>>
<1>3. agenda = f \o last
  BY DEF Init
<1>4. /\ keep.kind = "keep" /\ f = [k \in DOMAIN Keys |-> OnKey("quant", Keys[k])]
      /\ \A k : OnKey("quant", k).kind = "quant" /\ OnKey("quant", k).key = k
  BY DEF ForEach, Simple, OnKey
<1> HIDE DEF f, keep
<1>5. IsSequence(f) /\ DOMAIN f = DOMAIN Keys /\ Len(f) = Len(Keys)
  <2>1. f = [k \in DOMAIN Keys |-> f[k]]
    BY <1>4
  <2> QED BY <1>1, <2>1, MadeOf
<1>6. IsSequence(last) /\ Len(last) = 1 /\ last[1] = keep
  BY Single
<1> HIDE DEF last
<1>7. /\ IsSequence(agenda) /\ Len(agenda) = Len(f) + Len(last)
      /\ \A k \in DOMAIN f : agenda[k] = f[k]
      /\ \A k \in DOMAIN agenda \ DOMAIN f : agenda[k] = last[k - Len(f)]
  BY <1>3, <1>5, <1>6, Joined
<1>8. Len(agenda) = Len(Keys) + 1 /\ DOMAIN agenda = 1..(Len(Keys) + 1)
  BY <1>5, <1>6, <1>7, Places
<1>9. agenda[Len(Keys) + 1] = keep
  BY <1>2, <1>5, <1>6, <1>7, <1>8
<1> QED BY <1>2, <1>4, <1>5, <1>7, <1>8, <1>9

LEMMA StagesInOrderInit ==
  ASSUME Init
  PROVE  StagesInOrder
<1> DEFINE n == Len(Keys)
<1>1. /\ n \in Nat /\ Len(agenda) = n + 1 /\ DOMAIN agenda = 1..(n + 1) /\ DOMAIN Keys = 1..n
      /\ \A k \in 1..n : agenda[k].kind = "quant" /\ agenda[k].key = Keys[k]
      /\ agenda[n + 1].kind = "keep"
  BY AgendaInit
<1>2. \A j, k \in 1..n : Keys[j] = Keys[k] => j = k
  BY <1>1, GridAssumption
<1>3. \A k \in 1..n : Keys[k] \in ToSet(Keys)
  BY <1>1 DEF ToSet
<1> HIDE DEF n
<1>4. \A j, k \in DOMAIN agenda : j < k => agenda[k].kind \in MayFollow(agenda[j].kind)
  <2> SUFFICES ASSUME NEW j \in DOMAIN agenda, NEW k \in DOMAIN agenda, j < k
               PROVE  agenda[k].kind \in MayFollow(agenda[j].kind)
    OBVIOUS
  <2>1. j \in 1..n /\ (k \in 1..n \/ k = n + 1)
    BY <1>1
  <2>2. agenda[j].kind = "quant" /\ agenda[k].kind \in {"quant", "keep"}
    BY <1>1, <2>1
  <2> QED BY <2>2, Follows
<1>5. agenda[Len(agenda)].kind \in {"keep", "pick"}
  BY <1>1
<1>6. \A k \in 1..(Len(agenda) - 1) : agenda[k + 1].kind \notin {"power", "pick"}
  <2> TAKE k \in 1..(Len(agenda) - 1)
  <2>1. k + 1 \in 1..n \/ k + 1 = n + 1
    BY <1>1
  <2>2. agenda[k + 1].kind \in {"quant", "keep"}
    BY <1>1, <2>1
  <2> QED BY <2>2
<1>7. \A k \in DOMAIN agenda : agenda[k].kind = "quant" =>
        agenda[k].key \in ToSet(Keys) /\ \A j \in 1..(k - 1) : agenda[j].key # agenda[k].key
  <2> SUFFICES ASSUME NEW k \in DOMAIN agenda, agenda[k].kind = "quant"
               PROVE  agenda[k].key \in ToSet(Keys) /\ \A j \in 1..(k - 1) : agenda[j].key # agenda[k].key
    OBVIOUS
  <2>1. k \in 1..n
    BY <1>1
  <2>2. agenda[k].key = Keys[k] /\ \A j \in 1..(k - 1) : j \in 1..n /\ agenda[j].key = Keys[j] /\ j # k
    BY <1>1, <2>1
  <2> QED BY <1>2, <1>3, <2>1, <2>2
<1>8. Ordered(agenda)
  BY <1>4, <1>5, <1>6, <1>7 DEF Ordered
<1>9. begun = FALSE
  BY DEF Init
<1> QED BY <1>8, <1>9, TypeOKInit, OrderedIs

\* A trial takes a time between the shortest and the longest.
LEMMA TimesBounded ==
  /\ Longest \in Nat /\ Shortest \in Nat /\ Shortest <= Longest
  /\ \A o \in Outcomes \cup {Typical} : o.time \in Nat /\ Shortest <= o.time /\ o.time <= Longest
<1> DEFINE O == Outcomes \cup {Typical}
<1>1. IsFiniteSet(O) /\ \A o \in O : o.time \in Nat
  BY OutcomesAssumption, OutcomeTyped, FS_AddElement
<1>2. IsFiniteSet(Times) /\ Times \in SUBSET Nat /\ Times # {} /\ \A o \in O : o.time \in Times
  <2> DEFINE f == [o \in O |-> o.time]
  <2>1. Times = {f[o] : o \in O}
    BY DEF Times
  <2>2. f = [o \in O |-> f[o]]
    OBVIOUS
  <2> HIDE DEF f
  <2>3. IsFiniteSet(Times)
    BY <1>1, <2>1, <2>2, FiniteImage
  <2>4. \A o \in O : o.time \in Times
    BY DEF Times
  <2> QED BY <1>1, <2>3, <2>4 DEF Times
<1>3. Longest \in Times /\ \A y \in Times : y <= Longest
  BY <1>2, MaxIn DEF Longest
<1>4. Shortest \in Times /\ \A y \in Times : Shortest <= y
  <2> DEFINE S == {-t : t \in Times}
             f == [t \in Times |-> -t]
  <2>1. f = [t \in Times |-> f[t]] /\ S = {f[t] : t \in Times}
    OBVIOUS
  <2> HIDE DEF f
  <2>2. IsFiniteSet(S)
    BY <1>2, <2>1, FiniteImage
  <2>3. S \in SUBSET Int /\ S # {}
    BY <1>2
  <2>4. PICK m \in S : \A y \in S : y <= m
    BY <2>2, <2>3, MaxIn
  <2>5. PICK t \in Times : m = -t
    BY <2>4
  <2>6. \A y \in Times : t <= y
    <3> TAKE y \in Times
    <3>1. -y <= -t
      BY <2>4, <2>5
    <3> QED BY <1>2, <2>5, <3>1
  <2>7. \E x \in Times : \A y \in Times : x <= y
    BY <2>5, <2>6
  <2> QED BY <2>7 DEF Shortest
<1> QED BY <1>1, <1>2, <1>3, <1>4

-----------------------------------------------------------------------------
(* The order of the trials.                                                *)

\* Stage 1 has no tasks but its own.
LEMMA StageOneIs ==
  ASSUME TypeOKSearch, StagesInOrder, InStageOne
  PROVE  ~Over /\ Current.kind \in {"quant", "keep"} /\ (begun => Current.kind = "quant")
<1> DEFINE n == Len(agenda)
<1>1. ~Over /\ agenda[n].kind = "keep"
  BY DEF InStageOne
<1>2. /\ n \in Nat \ {0} /\ DOMAIN agenda = 1..n /\ Current = agenda[1] /\ Current.kind \in Kinds
      /\ \A k \in DOMAIN agenda \ {1} : agenda[k].kind \in MayFollow(Current.kind)
  BY <1>1, AgendaIs DEF IsTask
<1>3. begun => Current.kind # "keep"
  BY DEF StagesInOrder, Measuring, Control
<1> HIDE DEF n
<1>4. CASE n = 1
  BY <1>1, <1>2, <1>3, <1>4
<1>5. CASE n # 1
  <2>1. "keep" \in MayFollow(Current.kind)
    BY <1>1, <1>2, <1>5
  <2>2. Current.kind \in Middle \cup {"quant", "keep", "confirm", "power", "pick"}
    BY <1>2 DEF Kinds
  <2>3. Current.kind = "quant"
    BY <2>1, <2>2, Follows
  <2> QED BY <1>1, <2>3
<1> QED BY <1>4, <1>5

\* Nor has what a control task stands for, or what comes after one.
LEMMA ExpandPastStageOne ==
  ASSUME TypeOKSearch, StagesInOrder, StageOneKept, DroppedLose, ExpandTask, NEW k \in DOMAIN agenda'
  PROVE  agenda'[k].kind \notin {"quant", "keep"}
<1> DEFINE E == Expand(Current)
           T == Tail(agenda)
<1>1. ~Over /\ Current.kind \in Control /\ agenda' = E \o T
  BY DEF ExpandTask
<1>2. /\ IsTask(Current) /\ IsSequence(T) /\ DOMAIN T = 1..(Len(agenda) - 1) /\ DOMAIN agenda = 1..Len(agenda) /\ Len(agenda) \in Nat
      /\ \A j \in 1..(Len(agenda) - 1) : T[j] = agenda[j + 1]
      /\ \A j \in DOMAIN agenda \ {1} : agenda[j].kind \in MayFollow(Current.kind)
  BY <1>1, AgendaIs
<1>3. IsSequence(E)
  BY <1>1, <1>2, ExpandTyped
<1>4. \A j \in DOMAIN E : E[j].kind \notin {"quant", "keep"}
  <2>1. CASE Current.kind # "keep"
    <3>1. \A j \in DOMAIN E : E[j].kind \in Middle
      BY <1>1, <1>2, <2>1, ExpandTyped DEF Tasks
    <3> QED BY <3>1, Follows
  <2>2. CASE Current.kind = "keep"
    <3>1. Stages(E) \/ DOMAIN E = {}
      BY <1>1, <1>2, <2>2, ExpandTyped, Empty
    <3>2. ASSUME Stages(E), NEW j \in DOMAIN E PROVE E[j].kind \notin {"quant", "keep"}
      <4>1. j \in Nat /\ Len(E) \in Nat /\ j <= Len(E)
        BY <1>3, Places
      <4> HIDE DEF E
      <4>2. j <= Len(E) - 3 \/ j = Len(E) - 2 \/ j = Len(E) - 1 \/ j = Len(E)
        BY <4>1
      <4>3. E[j].kind \in Middle \cup {"confirm", "power", "pick"}
        BY <3>2, <4>2 DEF Stages
      <4> QED BY <4>3, Follows
    <3> QED BY <3>1, <3>2
  <2> QED BY <2>1, <2>2
<1> HIDE DEF E, T
<1>5. /\ \A j \in DOMAIN E : (E \o T)[j] = E[j]
      /\ \A j \in DOMAIN (E \o T) \ DOMAIN E : j - Len(E) \in DOMAIN T /\ (E \o T)[j] = T[j - Len(E)]
  BY <1>2, <1>3, Joined
<1>6. CASE k \in DOMAIN E
  BY <1>1, <1>4, <1>5, <1>6
<1>7. CASE k \notin DOMAIN E
  <2> DEFINE j == k - Len(E)
  <2>1. j \in 1..(Len(agenda) - 1) /\ agenda'[k] = T[j]
    BY <1>1, <1>2, <1>5, <1>7
  <2> HIDE DEF j
  <2>2. T[j] = agenda[j + 1] /\ j + 1 \in DOMAIN agenda \ {1}
    BY <1>2, <2>1
  <2>3. agenda'[k].kind \in MayFollow(Current.kind)
    BY <1>2, <2>1, <2>2
  <2>4. MayFollow(Current.kind) \in SUBSET (Kinds \ {"quant", "keep"})
    <3>1. Current.kind \in Middle \/ Current.kind = "keep"
      BY <1>1, Follows
    <3> QED BY <3>1, Follows
  <2> QED BY <2>3, <2>4
<1> QED BY <1>6, <1>7

\* It is not entered again.
LEMMA StageOneFrom ==
  ASSUME TypeOKSearch, StagesInOrder, StageOneKept, DroppedLose, [Next]_vars, InStageOne'
  PROVE  InStageOne /\ (EndTask \/ UNCHANGED agenda)
<1>1. ~Over' /\ agenda'[Len(agenda')].kind = "keep"
  BY DEF InStageOne
<1>2. IsSequence(agenda') /\ agenda' # <<>> /\ Len(agenda') \in DOMAIN agenda'
  <2>1. IsSequence(agenda') /\ agenda' # <<>>
    BY <1>1, TypeOKStep DEF TypeOKSearch, Over
  <2> QED BY <2>1, Places
<1>3. ~ExpandTask
  BY <1>1, <1>2, ExpandPastStageOne
<1>4. CASE EndTask
  <2>1. begun /\ agenda' = Tail(agenda)
    BY <1>4 DEF EndTask
  <2>2. ~Over
    BY <2>1 DEF StagesInOrder
  <2>3. /\ Len(agenda) \in Nat \ {0} /\ Len(agenda') = Len(agenda) - 1 /\ DOMAIN agenda' = 1..(Len(agenda) - 1)
        /\ \A j \in 1..(Len(agenda) - 1) : agenda'[j] = agenda[j + 1]
    BY <2>1, <2>2, AgendaIs
  <2>4. Len(agenda') \in 1..(Len(agenda) - 1) /\ Len(agenda') + 1 = Len(agenda)
    BY <1>2, <2>3
  <2>5. agenda'[Len(agenda')] = agenda[Len(agenda)]
    BY <2>3, <2>4
  <2> QED BY <1>1, <1>4, <2>2, <2>5 DEF InStageOne
<1>5. CASE UNCHANGED agenda
  BY <1>1, <1>5 DEF InStageOne, Over
<1>6. BeginTask \/ BeginExplore => UNCHANGED agenda
  BY DEF BeginTask, BeginExplore
<1> QED BY <1>2, <1>3, <1>4, <1>5, <1>6, AgendaMoves

After(stage, kind) == kind = stage \/ kind \in MayFollow(stage)

LEMMA TrialsInOrderStep ==
  ASSUME TypeOKSearch, StagesInOrder, TrialsInOrder, StageOneKept, DroppedLose, [Next]_vars
  PROVE  TrialsInOrder'
<1>1. Grown
  BY ResultsGrow
<1>2. ASSUME InStageOne', NEW i \in All' PROVE results'[i].stage = "quant"
  <2>1. InStageOne
    BY <1>2, StageOneFrom
  <2>2. CASE i \in All
    BY <1>1, <2>1, <2>2 DEF Grown, TrialsInOrder
  <2>3. CASE i \notin All
    <3>1. begun /\ results'[i].stage = Current.kind
      BY <1>1, <1>2, <2>3 DEF Grown
    <3> QED BY <2>1, <3>1, StageOneIs
  <2> QED BY <2>2, <2>3
<1>3. ASSUME NEW i \in All', NEW k \in DOMAIN agenda', results'[i].stage \in {"confirm", "power"}
      PROVE  After(results'[i].stage, agenda'[k].kind)
  <2>1. CASE i \notin All
    <3>1. begun /\ results'[i].stage = Current.kind /\ agenda' = agenda
      BY <1>1, <1>3, <2>1 DEF Grown
    <3>2. agenda[1] = Current /\ \A j \in DOMAIN agenda \ {1} : agenda[j].kind \in MayFollow(Current.kind)
      BY <3>1, AgendaIs DEF StagesInOrder
    <3> QED BY <3>1, <3>2 DEF After
  <2>2. CASE i \in All
    <3>1. results'[i] = results[i] /\ \A j \in DOMAIN agenda : After(results[i].stage, agenda[j].kind)
      BY <1>1, <1>3, <2>2 DEF Grown, TrialsInOrder, After
    <3>2. CASE ExpandTask
      <4>1. Current.kind \in Control /\ After(results[i].stage, Current.kind)
        BY <3>1, <3>2, AgendaIs DEF ExpandTask
      <4>2. After(results[i].stage, Current.kind) => Current.kind \in {"confirm", "power", "pick"}
        BY <1>3, <3>1, Follows DEF After
      <4> QED BY <4>1, <4>2 DEF Control
    <3>3. CASE EndTask
      <4>1. begun /\ agenda' = Tail(agenda)
        BY <3>3 DEF EndTask
      <4>2. /\ Len(agenda) \in Nat /\ DOMAIN agenda = 1..Len(agenda) /\ DOMAIN agenda' = 1..(Len(agenda) - 1)
            /\ agenda'[k] = agenda[k + 1]
        BY <4>1, AgendaIs DEF StagesInOrder
      <4>3. k + 1 \in DOMAIN agenda
        BY <4>2
      <4> QED BY <3>1, <4>2, <4>3
    <3>4. CASE UNCHANGED agenda
      BY <3>1, <3>4
    <3>5. agenda' # <<>>
      BY Empty
    <3>6. BeginTask \/ BeginExplore => UNCHANGED agenda
      BY DEF BeginTask, BeginExplore
    <3> QED BY <3>2, <3>3, <3>4, <3>5, <3>6, AgendaMoves
  <2> QED BY <2>1, <2>2
<1> QED BY <1>2, <1>3 DEF TrialsInOrder, After

-----------------------------------------------------------------------------
(* What stage 1 keeps.                                                     *)

KeptKeys == \A key \in DOMAIN stageRes : stageRes[key] # Skipped => KeyOf(results[stageRes[key]].cfg) = key
KeptOk == \A i \in All : results[i].stage = "quant" /\ results[i].ok => i \in StageTrials
KeptLater ==
  \A k \in DOMAIN agenda : agenda[k].kind = "quant" /\ (k > 1 \/ ~begun) => stageRes[agenda[k].key] = Skipped
KeptNow ==
  Running("quant") /\ todo # <<>> =>
    /\ stageRes[Current.key] # Skipped => ~results[stageRes[Current.key]].out.launched
    /\ todo \in Seq(Group(Current.key))
    /\ retry # NoConfig => KeyOf(retry) = Current.key
    /\ Current.key[1] \notin dropped

\* What stage 1 asks for is of the key it is at.
LEMMA AskedOfKey ==
  ASSUME TypeOKSearch, StagesInOrder, StageOneKept, Running("quant"), todo # <<>>
  PROVE  /\ KeyOf(Asked) = Current.key /\ Tail(todo) \in Seq(Group(Current.key))
         /\ Current.key \in ToSet(Keys)
<1>1. todo \in Seq(Group(Current.key)) /\ (retry # NoConfig => KeyOf(retry) = Current.key)
  BY DEF StageOneKept
<1>2. Head(todo) \in Group(Current.key) /\ Tail(todo) \in Seq(Group(Current.key))
  BY <1>1
<1>3. KeyOf(Head(todo)) = Current.key
  BY <1>2 DEF Group
<1>4. Current.key \in ToSet(Keys)
  <2>1. ~Over /\ Current.kind = "quant"
    BY DEF Running, StagesInOrder
  <2>2. 1 \in DOMAIN agenda /\ Current = agenda[1]
    BY <2>1, AgendaIs
  <2> QED BY <2>1, <2>2 DEF StagesInOrder
<1> QED BY <1>1, <1>2, <1>3, <1>4 DEF Asked

\* The other keys of stage 1 are different.
LEMMA OtherKeys ==
  ASSUME TypeOKSearch, StagesInOrder, ~Over, Current.kind = "quant", NEW k \in DOMAIN agenda, k > 1, agenda[k].kind = "quant"
  PROVE  agenda[k].key # Current.key
<1>1. Current = agenda[1] /\ DOMAIN agenda = 1..Len(agenda) /\ Len(agenda) \in Nat
  BY AgendaIs
<1>2. 1 \in 1..(k - 1)
  BY <1>1
<1> QED BY <1>1, <1>2 DEF StagesInOrder

LEMMA AnswerKept ==
  ASSUME TypeOKSearch, StagesInOrder, StageOneKept, Grown, Running("quant"), todo # <<>>,
         NEW i \in All' \cup {Skipped}, Answer(i), All' \in SUBSET (All \cup {i}),
         i # Skipped => KeyOf(results'[i].cfg) = Current.key,
         UNCHANGED <<agenda, begun, dropped>>
  PROVE  StageOneKept'
<1> DEFINE key == Current.key
<1>1. /\ begun /\ ~Over /\ Current.kind = "quant" /\ Current' = Current
      /\ AreTrials(results) /\ AreTrials(results') /\ stageRes \in [ToSet(Keys) -> All \cup {Skipped}]
      /\ key \in ToSet(Keys) /\ Tail(todo) \in Seq(Group(key))
      /\ All \in SUBSET All' /\ \A j \in All : results'[j] = results[j]
  BY AskedOfKey DEF Running, StagesInOrder, TypeOKSearch, Grown, Current
<1>2. /\ stageRes' = [stageRes EXCEPT ![key] = i] /\ retry' = NoConfig
      /\ todo' # <<>> => todo' = Tail(todo) /\ (i # Skipped => ~results'[i].out.launched)
  BY DEF Answer
<1>3. /\ stageRes'[key] = i /\ DOMAIN stageRes' = DOMAIN stageRes /\ key \in DOMAIN stageRes
      /\ \A x \in DOMAIN stageRes \ {key} : stageRes'[x] = stageRes[x]
  BY <1>1, <1>2
<1> HIDE DEF key
<1>4. KeptKeys'
  <2> SUFFICES ASSUME NEW x \in DOMAIN stageRes', stageRes'[x] # Skipped PROVE KeyOf(results'[stageRes'[x]].cfg) = x
    BY DEF KeptKeys
  <2>1. CASE x = key
    BY <1>3, <2>1 DEF key
  <2>2. CASE x # key
    <3>1. x \in DOMAIN stageRes /\ stageRes'[x] = stageRes[x] /\ stageRes[x] \in All
      BY <1>1, <1>3, <2>2
    <3>2. KeyOf(results[stageRes[x]].cfg) = x
      BY <3>1 DEF StageOneKept
    <3> QED BY <1>1, <3>1, <3>2
  <2> QED BY <2>1, <2>2
<1>5. KeptOk'
  <2> SUFFICES ASSUME NEW j \in All', results'[j].stage = "quant", results'[j].ok PROVE j \in StageTrials'
    BY DEF KeptOk
  <2>1. j # Skipped
    <3>1. j \in 1..Len(results')
      BY <1>1, Places DEF AreTrials, All
    <3> QED BY <3>1 DEF Skipped
  <2>2. CASE j = i
    BY <1>3, <2>1, <2>2 DEF StageTrials
  <2>3. CASE j # i
    <3>1. j \in All /\ results'[j] = results[j]
      BY <1>1, <2>3
    <3>2. PICK x \in DOMAIN stageRes : j = stageRes[x]
      BY <3>1 DEF StageOneKept, StageTrials
    <3>3. CASE x = key
      <4>1. ~results[j].out.launched
        BY <2>1, <3>2, <3>3 DEF StageOneKept, key
      <4>2. IsTrial(results[j])
        BY <1>1, <3>1 DEF AreTrials, All
      <4>3. results[j].out.launched
        BY <3>1, <4>2, TrialTyped, OutcomeTyped
      <4> QED BY <4>1, <4>3
    <3>4. CASE x # key
      BY <1>3, <2>1, <3>2, <3>4 DEF StageTrials
    <3> QED BY <3>3, <3>4
  <2> QED BY <2>2, <2>3
<1>6. KeptLater'
  <2> SUFFICES ASSUME NEW k \in DOMAIN agenda, agenda[k].kind = "quant", k > 1 PROVE stageRes'[agenda[k].key] = Skipped
    BY <1>1 DEF KeptLater
  <2>1. stageRes[agenda[k].key] = Skipped
    BY DEF StageOneKept
  <2>2. agenda[k].key # key /\ agenda[k].key \in DOMAIN stageRes
    BY <1>1, OtherKeys DEF StagesInOrder, key
  <2> QED BY <1>3, <2>1, <2>2
<1>7. KeptNow'
  <2> SUFFICES ASSUME todo' # <<>>
               PROVE  /\ stageRes'[key] # Skipped => ~results'[stageRes'[key]].out.launched
                      /\ todo' \in Seq(Group(key))' /\ retry' = NoConfig /\ key[1] \notin dropped'
    BY <1>1 DEF KeptNow, key
  <2>1. Group(key)' = Group(key)
    BY <1>1 DEF Group, key
  <2>2. key[1] \notin dropped
    BY <1>1 DEF StageOneKept, key
  <2> QED BY <1>1, <1>2, <1>3, <2>1, <2>2
<1> QED BY <1>4, <1>5, <1>6, <1>7 DEF StageOneKept, KeptKeys, KeptOk, KeptLater, KeptNow

\* What is kept when neither the answers nor the stage change.
LEMMA StageOneKeptFrame ==
  ASSUME TypeOKSearch, StageOneKept, Grown, UNCHANGED stageRes,
         \A i \in All' \ All : results'[i].stage = "quant" => ~results'[i].ok
  PROVE  KeptKeys' /\ KeptOk'
<1>1. /\ stageRes \in [ToSet(Keys) -> All \cup {Skipped}]
      /\ All \in SUBSET All' /\ \A j \in All : results'[j] = results[j]
  BY DEF TypeOKSearch, Grown
<1>2. KeptKeys'
  <2> SUFFICES ASSUME NEW x \in DOMAIN stageRes, stageRes[x] # Skipped PROVE KeyOf(results'[stageRes[x]].cfg) = x
    BY DEF KeptKeys
  <2>1. stageRes[x] \in All /\ KeyOf(results[stageRes[x]].cfg) = x
    BY <1>1 DEF StageOneKept
  <2> QED BY <1>1, <2>1
<1>3. KeptOk'
  <2> SUFFICES ASSUME NEW j \in All', results'[j].stage = "quant", results'[j].ok PROVE j \in StageTrials
    BY DEF KeptOk, StageTrials
  <2>1. j \in All /\ results'[j] = results[j]
    BY <1>1
  <2> QED BY <2>1 DEF StageOneKept
<1> QED BY <1>2, <1>3

LEMMA StageOneKeptStep ==
  ASSUME TypeOKSearch, StagesInOrder, StageOneKept, DroppedLose, Books, [Next]_vars
  PROVE  StageOneKept'
<1>1. Grown /\ StagesInOrder'
  BY ResultsGrow, StagesInOrderStep
<1>2. /\ begun \in BOOLEAN /\ (todo # <<>> => begun) /\ AreTrials(results)
      /\ (begun => ~Over /\ Current.kind \in Measuring)
      /\ (~begun => retry = NoConfig)
  BY DEF TypeOKSearch, StagesInOrder, Books, Asking
<1>3. ASSUME KeptLater', KeptNow', UNCHANGED <<stageRes, results>>
      PROVE  StageOneKept'
  <2>1. KeptKeys' /\ KeptOk'
    BY <1>1, <1>3, StageOneKeptFrame DEF All
  <2> QED BY <1>3, <2>1 DEF StageOneKept, KeptKeys, KeptOk, KeptLater, KeptNow
<1>4. CASE ExpandTask
  <2>1. begun' = begun /\ ~begun /\ UNCHANGED <<stageRes, results>>
    BY <1>2, <1>4 DEF ExpandTask, tvars, Measuring
  <2>2. KeptLater'
    BY <1>4, ExpandPastStageOne DEF KeptLater
  <2> QED BY <1>3, <2>1, <2>2 DEF KeptNow, Running
<1>5. CASE BeginTask
  <2>1. /\ ~Over /\ ~begun /\ begun' = TRUE /\ todo' = Plan(Current) /\ Current.kind \notin Control \cup {"explore", "pick"}
        /\ UNCHANGED <<agenda, retry, stageRes, dropped, results>>
    BY <1>5 DEF BeginTask, tvars
  <2>2. IsTask(Current) /\ 1 \in DOMAIN agenda /\ Current = agenda[1] /\ Current' = Current
    BY <2>1, AgendaIs DEF Current
  <2>3. KeptLater'
    BY <2>1 DEF StageOneKept, KeptLater
  <2>4. KeptNow'
    <3> SUFFICES ASSUME Current.kind = "quant", todo' # <<>>
                 PROVE  /\ stageRes[Current.key] = Skipped /\ Current.key[1] \notin dropped
                        /\ todo' \in Seq(Group(Current.key))' /\ retry = NoConfig
      BY <2>1, <2>2 DEF KeptNow, Running
    <3>1. stageRes[Current.key] = Skipped
      BY <2>1, <2>2 DEF StageOneKept
    <3>2. Current.kind \in Measuring \ {"explore"}
      BY <2>1, <2>2 DEF IsTask, Measuring
    <3>3. todo' \in Seq(Group(Current.key)) /\ Current.key[1] \notin dropped
      BY <2>1, <2>2, <3>2, PlanTyped
    <3>4. Group(Current.key)' = Group(Current.key)
      BY <2>2 DEF Group
    <3> QED BY <1>2, <2>1, <3>1, <3>3, <3>4
  <2> QED BY <1>3, <2>1, <2>3, <2>4
<1>6. CASE BeginExplore
  <2>1. /\ ~Over /\ Current.kind = "explore" /\ UNCHANGED <<agenda, stageRes, results>> /\ begun' = TRUE /\ ~begun
    BY <1>6 DEF BeginExplore, tvars
  <2>2. KeptLater' /\ KeptNow'
    BY <2>1 DEF StageOneKept, KeptLater, KeptNow, Running, Current
  <2> QED BY <1>3, <2>1, <2>2
<1>7. CASE EndTask
  <2>1. begun /\ begun' = FALSE /\ agenda' = Tail(agenda) /\ UNCHANGED <<stageRes, results>>
    BY <1>7 DEF EndTask, tvars
  <2>2. KeptLater'
    <3> SUFFICES ASSUME NEW k \in DOMAIN agenda', agenda'[k].kind = "quant" PROVE stageRes[agenda'[k].key] = Skipped
      BY <2>1 DEF KeptLater
    <3>1. /\ Len(agenda) \in Nat /\ DOMAIN agenda = 1..Len(agenda) /\ DOMAIN agenda' = 1..(Len(agenda) - 1)
          /\ agenda'[k] = agenda[k + 1]
      BY <1>2, <2>1, AgendaIs
    <3>2. k + 1 \in DOMAIN agenda /\ k + 1 > 1
      BY <3>1
    <3>3. agenda[k + 1].kind = "quant"
      BY <3>1
    <3>4. stageRes[agenda[k + 1].key] = Skipped
      <4> DEFINE q == k + 1
      <4>1. q \in DOMAIN agenda /\ q > 1 /\ agenda[q].kind = "quant"
        BY <3>2, <3>3
      <4> HIDE DEF q
      <4>2. stageRes[agenda[q].key] = Skipped
        BY <4>1 DEF StageOneKept
      <4> QED BY <4>2 DEF q
    <3> QED BY <3>1, <3>4
  <2> QED BY <1>3, <2>1, <2>2 DEF KeptNow, Running
<1>8. CASE PickWinner \/ SweepRaises
  <2>1. agenda' = <<>> /\ UNCHANGED <<stageRes, results>>
    BY <1>8 DEF PickWinner, SweepRaises, tvars
  <2>2. DOMAIN agenda' = {} /\ ~begun'
    BY <1>1, <2>1, Empty DEF StagesInOrder, Over
  <2> QED BY <1>3, <2>1, <2>2 DEF KeptLater, KeptNow, Running
<1>9. ASSUME begun, todo # <<>>, Current.kind # "quant", UNCHANGED <<agenda, begun, stageRes>>
      PROVE  StageOneKept'
  <2>1. \A i \in All' \ All : results'[i].stage # "quant"
    BY <1>1, <1>9 DEF Grown
  <2>2. KeptKeys' /\ KeptOk'
    BY <1>1, <1>9, <2>1, StageOneKeptFrame
  <2>3. KeptLater' /\ KeptNow'
    BY <1>9 DEF StageOneKept, KeptLater, KeptNow, Running, Current
  <2> QED BY <2>2, <2>3 DEF StageOneKept, KeptKeys, KeptOk, KeptLater, KeptNow
<1>10. CASE Remeasure \/ SweepOne \/ SweepNotStarted
  <2>1. begun /\ Current.kind \in {"confirm", "power"} /\ UNCHANGED <<agenda, begun, stageRes>>
    BY <1>10 DEF Remeasure, SweepOne, SweepNotStarted, Running
  <2>2. todo # <<>>
    <3>1. CASE SweepNotStarted
      <4>1. Len(todo) = 2
        BY <3>1 DEF SweepNotStarted
      <4>2. Len(todo) # Len(<<>>)
        BY <4>1, Empty
      <4> QED BY <4>2
    <3> QED BY <1>10, <3>1 DEF Remeasure, SweepOne
  <2> QED BY <1>9, <2>1, <2>2
<1>11. ASSUME begun, todo # <<>>, NEW i \in All' \cup {Skipped}, Answer(i), All' \in SUBSET (All \cup {i}),
              UNCHANGED <<agenda, begun, dropped>>,
              i # Skipped => results'[i].cfg = Asked
       PROVE  StageOneKept'
  <2>1. CASE Current.kind # "quant"
    <3>1. UNCHANGED stageRes
      BY <1>11, <2>1 DEF Answer, Running
    <3> QED BY <1>9, <1>11, <2>1, <3>1
  <2>2. CASE Current.kind = "quant"
    <3>1. Running("quant")
      BY <1>11, <2>2 DEF Running
    <3>2. KeyOf(Asked) = Current.key
      BY <1>11, <3>1, AskedOfKey
    <3> QED BY <1>1, <1>11, <3>1, <3>2, AnswerKept
  <2> QED BY <2>1, <2>2
<1>12. CASE Recall
  <2>1. begun /\ todo # <<>> /\ Done(Asked) /\ Answer(Memo(Asked)) /\ UNCHANGED <<agenda, begun, dropped, results>>
    BY <1>12 DEF Recall, Asking, tvars
  <2>2. Memo(Asked) \in All /\ results[Memo(Asked)].cfg = Asked /\ All' = All
    BY <1>2, <2>1, MemoIs DEF All
  <2> QED BY <1>11, <2>1, <2>2
<1>13. CASE SkipTrial
  <2>1. begun /\ todo # <<>> /\ Answer(Skipped) /\ UNCHANGED <<agenda, begun, dropped, results>>
    BY <1>13 DEF SkipTrial, Asking, tvars
  <2>2. All' = All
    BY <2>1 DEF All
  <2> QED BY <1>11, <2>1, <2>2
<1>14. CASE Measure
  <2>1. begun /\ todo # <<>> /\ UNCHANGED <<agenda, begun, dropped>>
    BY <1>14 DEF Measure, Asking
  <2>2. PICK out \in AnyOutcome :
          /\ Record(out, TRUE)
          /\ \/ Retriable(Asked, out) /\ retry' = Less(Asked) /\ UNCHANGED <<stageRes, chosen, todo>>
             \/ Answer(Len(results) + 1)
    BY <1>14 DEF Measure
  <2>3. /\ All' = All \cup {Len(results) + 1} /\ results'[Len(results) + 1].cfg = Asked
        /\ results'[Len(results) + 1].out = out /\ results'[Len(results) + 1].ok = out.ok
        /\ results'[Len(results) + 1].stage = Current.kind
        /\ out \in Outcomes \cup {Typical}
    BY <2>1, <2>2, RecordAdds
  <2>4. CASE Answer(Len(results) + 1)
    BY <1>11, <2>1, <2>3, <2>4
  <2>5. CASE Retriable(Asked, out) /\ retry' = Less(Asked) /\ UNCHANGED <<stageRes, chosen, todo>>
    <3>1. ~out.ok
      BY <2>3, <2>5, OutcomeTyped DEF Retriable
    <3>2. KeptKeys' /\ KeptOk'
      BY <1>1, <2>3, <2>5, <3>1, StageOneKeptFrame
    <3>3. KeptLater'
      BY <2>1, <2>5 DEF StageOneKept, KeptLater
    <3>4. KeptNow'
      <4> SUFFICES ASSUME Running("quant")
                   PROVE  /\ stageRes[Current.key] # Skipped => ~results'[stageRes[Current.key]].out.launched
                          /\ todo \in Seq(Group(Current.key))
                          /\ KeyOf(Less(Asked)) = Current.key
                          /\ Current.key[1] \notin dropped
        <5>1. Current' = Current /\ Running("quant")' = Running("quant")
          BY <2>1 DEF Current, Running
        <5>2. Group(Current.key)' = Group(Current.key)
          BY <5>1 DEF Group
        <5> QED BY <2>1, <2>5, <5>1, <5>2 DEF KeptNow
      <4>1. KeyOf(Asked) = Current.key /\ Current.key \in ToSet(Keys) /\ Asked \in Configs
        BY <2>1, AskedOfKey, AskedTyped
      <4>2. KeyOf(Less(Asked)) = KeyOf(Asked)
        BY <4>1 DEF KeyOf, Less, Configs
      <4>3. stageRes[Current.key] \in All \cup {Skipped}
        BY <4>1 DEF TypeOKSearch
      <4>4. \A j \in All : results'[j] = results[j]
        BY <1>1 DEF Grown
      <4> QED BY <2>1, <4>1, <4>2, <4>3, <4>4 DEF StageOneKept
    <3> QED BY <3>2, <3>3, <3>4 DEF StageOneKept, KeptKeys, KeptOk, KeptLater, KeptNow
  <2> QED BY <2>2, <2>4, <2>5
<1>15. CASE Finished \/ UNCHANGED vars
  <2>1. UNCHANGED vars
    BY <1>15 DEF Finished
  <2>2. UNCHANGED <<agenda, begun, todo, retry, results, stageRes, dropped>>
    BY <2>1 DEF vars, tvars
  <2>3. KeptLater' /\ KeptNow'
    BY <2>2 DEF StageOneKept, KeptLater, KeptNow, Running, Current, Group
  <2> QED BY <1>3, <2>2, <2>3
<1> QED BY <1>4, <1>5, <1>6, <1>7, <1>8, <1>10, <1>12, <1>13, <1>14, <1>15 DEF Next

-----------------------------------------------------------------------------
(* What was dropped.                                                       *)

LEMMA LosingIs ==
  ASSUME AreTrials(results), StageTrials \in SUBSET All
  PROVE  LosingBackends = Losers(results, StageTrials)
<1>1. LosingBackends = LosingIn(results, StageTrials)
  BY DEF LosingBackends, LosingIn, BestRaw, ConfigOf, OfEngine, All
<1> QED BY <1>1, LosersAmong DEF All

LEMMA StageTrialsTyped ==
  ASSUME TypeOKSearch
  PROVE  StageTrials \in SUBSET All
BY DEF TypeOKSearch, StageTrials

\* Only the answer of a trial of stage 1 changes what is kept of it.
LEMMA StageResMoves ==
  ASSUME TypeOKSearch, StagesInOrder, [Next]_vars
  PROVE  \/ UNCHANGED stageRes /\ (dropped' = dropped \/ (dropped' = dropped \cup LosingBackends))
         \/ /\ Running("quant") /\ todo # <<>> /\ dropped' = dropped
            /\ \E i \in All' \cup {Skipped} : /\ stageRes' = [stageRes EXCEPT ![Current.key] = i]
                                              /\ i # Skipped => results'[i].cfg = Asked
<1>1. ASSUME begun, todo # <<>>, NEW i \in All' \cup {Skipped}, Answer(i), dropped' = dropped,
             i # Skipped => results'[i].cfg = Asked
      PROVE  \/ UNCHANGED stageRes
             \/ Running("quant") /\ \E j \in All' \cup {Skipped} : /\ stageRes' = [stageRes EXCEPT ![Current.key] = j]
                                                                   /\ j # Skipped => results'[j].cfg = Asked
  BY <1>1 DEF Answer
<1>2. CASE Recall
  <2>1. begun /\ todo # <<>> /\ Done(Asked) /\ Answer(Memo(Asked)) /\ UNCHANGED <<dropped, results>>
    BY <1>2 DEF Recall, Asking, tvars
  <2>2. Memo(Asked) \in All /\ results[Memo(Asked)].cfg = Asked /\ All' = All
    BY <2>1, MemoIs DEF All, TypeOKSearch
  <2> QED BY <1>1, <2>1, <2>2
<1>3. CASE SkipTrial
  <2>1. begun /\ todo # <<>> /\ Answer(Skipped) /\ UNCHANGED <<dropped, results>>
    BY <1>3 DEF SkipTrial, Asking, tvars
  <2> QED BY <1>1, <2>1
<1>4. CASE Measure
  <2>1. begun /\ todo # <<>> /\ UNCHANGED dropped
    BY <1>4 DEF Measure, Asking
  <2>2. PICK out \in AnyOutcome : Record(out, TRUE) /\ (UNCHANGED stageRes \/ Answer(Len(results) + 1))
    BY <1>4 DEF Measure
  <2>3. Len(results) + 1 \in All' /\ results'[Len(results) + 1].cfg = Asked
    BY <2>1, <2>2, RecordAdds
  <2> QED BY <1>1, <2>1, <2>2, <2>3
<1>5. CASE ExpandTask \/ BeginTask \/ BeginExplore \/ EndTask \/ PickWinner
  <2>1. UNCHANGED stageRes /\ (dropped' = dropped \/ dropped' = dropped \cup LosingBackends)
    BY <1>5 DEF ExpandTask, BeginTask, BeginExplore, EndTask, PickWinner
  <2> QED BY <2>1
<1>6. CASE Remeasure \/ SweepOne \/ SweepNotStarted \/ SweepRaises \/ Finished \/ UNCHANGED vars
  BY <1>6 DEF Remeasure, SweepOne, SweepNotStarted, SweepRaises, Finished, vars
<1> QED BY <1>2, <1>3, <1>4, <1>5, <1>6 DEF Next

LEMMA DroppedLoseStep ==
  ASSUME TypeOKSearch, StagesInOrder, StageOneKept, DroppedLose, Books, [Next]_vars
  PROVE  DroppedLose'
<1>1. /\ AreTrials(results) /\ StageTrials \in SUBSET All /\ stageRes \in [ToSet(Keys) -> All \cup {Skipped}]
      /\ AreTrials(results') /\ StageTrials' \in SUBSET All' /\ stageRes' \in [ToSet(Keys) -> All' \cup {Skipped}]
      /\ All \in SUBSET All' /\ \A i \in All : results'[i] = results[i]
  <2>1. TypeOKSearch'
    BY TypeOKStep
  <2>2. StageTrials' \in SUBSET All'
    BY <2>1 DEF TypeOKSearch, StageTrials
  <2> QED BY <2>1, <2>2, ResultsGrow, StageTrialsTyped DEF TypeOKSearch, Grown
<1>2. LosingBackends = Losers(results, StageTrials)
  BY <1>1, LosingIs
<1>3. LosingBackends' = Losers(results', StageTrials')
  <2>1. LosingBackends' = LosingIn(results', StageTrials')
    BY DEF LosingBackends, LosingIn, BestRaw, ConfigOf, OfEngine, All
  <2> QED BY <1>1, <2>1, LosersAmong DEF All
<1>4. ASSUME \A x \in DOMAIN stageRes :
               \/ stageRes'[x] = stageRes[x]
               \/ /\ stageRes[x] # Skipped => ~results[stageRes[x]].ok
                  /\ stageRes'[x] # Skipped => results'[stageRes'[x]].cfg.eng \notin dropped',
             dropped' = dropped \/ dropped' = dropped \cup LosingBackends
      PROVE  DroppedLose'
  <2> SUFFICES ASSUME NEW e \in dropped' PROVE e \in Losers(results', StageTrials')
    BY <1>3 DEF DroppedLose
  <2>1. e \in Losers(results, StageTrials)
    BY <1>2, <1>4 DEF DroppedLose
  <2>2. ASSUME NEW i \in OkTrials(results, StageTrials) PROVE i \in OkTrials(results', StageTrials') /\ results'[i] = results[i]
    <3>1. PICK x \in DOMAIN stageRes : i = stageRes[x] /\ i # Skipped /\ results[i].ok /\ i \in All
      BY <1>1 DEF OkTrials, StageTrials
    <3>2. stageRes'[x] = i
      BY <1>4, <3>1
    <3> QED BY <1>1, <3>1, <3>2 DEF OkTrials, StageTrials
  <2>3. ASSUME NEW k \in OkTrials(results', StageTrials') \ OkTrials(results, StageTrials) PROVE results'[k].cfg.eng # e
    <3>1. PICK x \in DOMAIN stageRes : k = stageRes'[x] /\ k # Skipped /\ results'[k].ok
      BY <1>1 DEF OkTrials, StageTrials
    <3>2. CASE stageRes'[x] = stageRes[x]
      <4>1. k \in StageTrials /\ results[k].ok
        BY <1>1, <3>1, <3>2 DEF StageTrials
      <4> QED BY <4>1 DEF OkTrials
    <3>3. CASE stageRes'[x] # stageRes[x]
      BY <1>4, <3>1, <3>3
    <3> QED BY <3>2, <3>3
  <2> QED BY <2>1, <2>2, <2>3, LosersStay
<1>5. CASE UNCHANGED stageRes /\ (dropped' = dropped \/ (dropped' = dropped \cup LosingBackends))
  BY <1>4, <1>5
<1>6. CASE /\ Running("quant") /\ todo # <<>> /\ dropped' = dropped
           /\ \E i \in All' \cup {Skipped} : /\ stageRes' = [stageRes EXCEPT ![Current.key] = i]
                                             /\ i # Skipped => results'[i].cfg = Asked
  <2>1. KeyOf(Asked) = Current.key
    BY <1>6, AskedOfKey
  <2>2. Asked.eng = Current.key[1] /\ Current.key[1] \notin dropped
    BY <1>6, <2>1 DEF KeyOf, StageOneKept
  <2>3. stageRes[Current.key] # Skipped => ~results[stageRes[Current.key]].ok
    <3>1. stageRes[Current.key] # Skipped => stageRes[Current.key] \in All
      BY <1>1, <1>6, AskedOfKey
    <3> SUFFICES ASSUME stageRes[Current.key] # Skipped PROVE ~results[stageRes[Current.key]].ok
      OBVIOUS
    <3>2. IsTrial(results[stageRes[Current.key]])
      BY <1>1, <3>1 DEF AreTrials, All
    <3>3. ~results[stageRes[Current.key]].out.launched
      BY <1>6 DEF StageOneKept
    <3> QED BY <3>2, <3>3, TrialTyped, OutcomeTyped
  <2>4. \A x \in DOMAIN stageRes :
               \/ stageRes'[x] = stageRes[x]
               \/ /\ stageRes[x] # Skipped => ~results[stageRes[x]].ok
                  /\ stageRes'[x] # Skipped => results'[stageRes'[x]].cfg.eng \notin dropped'
    BY <1>1, <1>6, <2>2, <2>3
  <2> QED BY <1>4, <1>6, <2>4
<1> QED BY <1>5, <1>6, StageResMoves

-----------------------------------------------------------------------------
(* What the choice is made from.                                           *)

LEMMA PoolFrame ==
  ASSUME TypeOKSearch, StagesInOrder, PoolComplete, Grown, UNCHANGED <<agenda, pool>>,
         Running("confirm")' => Running("confirm")
  PROVE  PoolComplete'
<1>1. /\ Current' = Current /\ Over' = Over /\ pool \in SUBSET All
      /\ All \in SUBSET All' /\ \A i \in All : results'[i] = results[i]
      /\ \A i \in All' \ All : results'[i].stage = Current.kind /\ Current.kind # "pick" /\ begun
  <2>1. /\ All' # All => begun
        /\ begun => Current.kind \in Measuring /\ Current.kind # "pick"
    BY DEF Grown, StagesInOrder, Measuring
  <2>2. /\ pool \in SUBSET All /\ All \in SUBSET All' /\ \A i \in All : results'[i] = results[i]
        /\ \A i \in All' \ All : results'[i].stage = Current.kind
    BY DEF TypeOKSearch, Grown
  <2> QED BY <2>1, <2>2 DEF Current, Over
<1>2. ASSUME Running("confirm")', NEW i \in All', results'[i].stage # "confirm" PROVE i \in pool'
  <2>1. Running("confirm") /\ Current.kind = "confirm"
    BY <1>2 DEF Running
  <2>2. i \in All /\ results'[i] = results[i]
    BY <1>1, <1>2, <2>1
  <2> QED BY <1>2, <2>1, <2>2 DEF PoolComplete
<1>3. ASSUME ~Over', Current'.kind \in {"power", "pick"}
      PROVE  /\ (\E i \in All' : results'[i].ok /\ (results'[i].stage = "power" => Current'.kind = "pick")) =>
                  \E i \in pool' : results'[i].ok
             /\ (\E i \in All' : results'[i].ok /\ results'[i].stage = "confirm") =>
                  \A i \in pool' : results'[i].stage \in {"confirm", "power"}
  <2>1. ASSUME NEW i \in All', results'[i].ok, results'[i].stage = "power" => Current.kind = "pick"
        PROVE  \E j \in pool : results'[j].ok
    <3>1. i \in All
      BY <1>1, <1>3, <2>1
    <3>2. \E j \in pool : results[j].ok
      BY <1>1, <1>3, <2>1, <3>1 DEF PoolComplete
    <3> QED BY <1>1, <3>2
  <2>2. ASSUME NEW i \in All', results'[i].ok, results'[i].stage = "confirm", NEW j \in pool
        PROVE  results'[j].stage \in {"confirm", "power"}
    <3>1. i \in All
      BY <1>1, <1>3, <2>2
    <3>2. results[j].stage \in {"confirm", "power"}
      BY <1>1, <1>3, <2>2, <3>1 DEF PoolComplete
    <3> QED BY <1>1, <3>2
  <2> QED BY <1>1, <2>1, <2>2
<1> QED BY <1>2, <1>3 DEF PoolComplete

\* A task that is a control task does not lead straight to the end.
LEMMA ExpandNotToEnd ==
  ASSUME TypeOKSearch, StagesInOrder, StageOneKept, DroppedLose, ExpandTask, ~Over'
  PROVE  Current'.kind \notin {"power", "pick"}
<1> DEFINE E == Expand(Current)
           T == Tail(agenda)
<1>1. ~Over /\ Current.kind \in Control /\ agenda' = E \o T
  BY DEF ExpandTask
<1>2. /\ IsTask(Current) /\ IsSequence(T) /\ DOMAIN T = 1..(Len(agenda) - 1) /\ Len(agenda) \in Nat
      /\ \A j \in 1..(Len(agenda) - 1) : T[j] = agenda[j + 1]
      /\ agenda[1] = Current
  BY <1>1, AgendaIs
<1>3. IsSequence(E)
  BY <1>1, <1>2, ExpandTyped
<1>4. DOMAIN E = {} \/ (1 \in DOMAIN E /\ E[1].kind \in Middle)
  <2>1. DOMAIN E = {} \/ 1 \in DOMAIN E
    <3> HIDE DEF E
    <3> QED BY <1>3, Places
  <2>2. CASE Current.kind # "keep"
    <3>1. \A j \in DOMAIN E : E[j].kind \in Middle
      BY <1>1, <1>2, <2>2, ExpandTyped DEF Tasks
    <3> QED BY <2>1, <3>1
  <2>3. CASE Current.kind = "keep"
    <3>1. Stages(E) \/ DOMAIN E = {}
      BY <1>1, <1>2, <2>3, ExpandTyped, Empty
    <3>2. ASSUME Stages(E), 1 \in DOMAIN E PROVE E[1].kind \in Middle
      <4> HIDE DEF E
      <4>1. Len(E) \in Nat /\ Len(E) > 3
        BY <1>3, <3>2, Places DEF Stages
      <4>2. 1 <= Len(E) - 3
        BY <4>1
      <4> QED BY <3>2, <4>2 DEF Stages
    <3> QED BY <2>1, <3>1, <3>2
  <2> QED BY <2>2, <2>3
<1>5. IsSequence(agenda') /\ agenda' # <<>> /\ Current' = agenda'[1] /\ 1 \in DOMAIN agenda'
  <2>1. IsSequence(agenda') /\ agenda' # <<>>
    BY <1>1, <1>2, <1>3, Joined DEF Over
  <2>2. agenda' \in Seq(ToSet(agenda'))
    BY <2>1 DEF IsSequence
  <2> QED BY <2>1, <2>2 DEF Current
<1> HIDE DEF E, T
<1>6. /\ \A j \in DOMAIN E : agenda'[j] = E[j]
      /\ \A j \in DOMAIN agenda' \ DOMAIN E : j - Len(E) \in DOMAIN T /\ agenda'[j] = T[j - Len(E)]
  BY <1>1, <1>2, <1>3, Joined
<1>7. CASE 1 \in DOMAIN E
  BY <1>4, <1>5, <1>6, <1>7, Follows
<1>8. CASE DOMAIN E = {}
  <2>1. Len(E) = 0
    BY <1>3, <1>8, Places
  <2>2. 1 \in DOMAIN T /\ agenda'[1] = T[1]
    BY <1>5, <1>6, <1>8, <2>1
  <2>3. 1 \in 1..(Len(agenda) - 1) /\ T[1] = agenda[1 + 1]
    BY <1>2, <2>2
  <2>4. /\ agenda[1 + 1].kind = "power" => agenda[1].kind = "confirm"
        /\ agenda[1 + 1].kind = "pick" => agenda[1].kind = "power"
    BY <2>3 DEF StagesInOrder
  <2> QED BY <1>1, <1>2, <1>5, <2>2, <2>3, <2>4 DEF Control
<1> QED BY <1>4, <1>7, <1>8

LEMMA PoolCompleteStep ==
  ASSUME TypeOKSearch, StagesInOrder, TrialsInOrder, StageOneKept, DroppedLose, PoolComplete, [Next]_vars
  PROVE  PoolComplete'
<1>1. Grown /\ StagesInOrder' /\ begun \in BOOLEAN /\ (begun => ~Over /\ Current.kind \in Measuring)
  BY ResultsGrow, StagesInOrderStep DEF TypeOKSearch, StagesInOrder
<1>2. CASE ExpandTask
  <2>1. ~begun /\ begun' = begun
    BY <1>1, <1>2 DEF ExpandTask, Measuring
  <2>2. ~Over' => Current'.kind \notin {"power", "pick"}
    BY <1>2, ExpandNotToEnd
  <2> QED BY <2>1, <2>2 DEF PoolComplete, Running
<1>3. CASE BeginTask
  <2>1. UNCHANGED <<agenda, results>> /\ ~begun
    BY <1>3 DEF BeginTask, tvars
  <2>2. Current' = Current /\ All' = All
    BY <2>1 DEF Current, All
  <2>3. CASE Current.kind = "confirm"
    <3>1. pool' = All
      BY <1>3, <2>3 DEF BeginTask
    <3> QED BY <2>2, <2>3, <3>1 DEF PoolComplete
  <2>4. CASE Current.kind # "confirm"
    <3>1. pool' = pool
      BY <1>3, <2>4 DEF BeginTask
    <3>2. ~Running("confirm")'
      BY <2>2, <2>4 DEF Running
    <3> QED BY <1>1, <2>1, <3>1, <3>2, PoolFrame
  <2> QED BY <2>3, <2>4
<1>4. CASE BeginExplore
  <2>1. UNCHANGED <<agenda, pool>> /\ Current.kind = "explore"
    BY <1>4 DEF BeginExplore
  <2>2. ~Running("confirm")'
    BY <2>1 DEF Running, Current
  <2> QED BY <1>1, <2>1, <2>2, PoolFrame
<1>5. CASE EndTask
  <2> DEFINE fresh == {i \in All : results[i].stage = "confirm" /\ results[i].ok}
  <2>1. begun /\ begun' = FALSE /\ agenda' = Tail(agenda) /\ UNCHANGED results
    BY <1>5 DEF EndTask, tvars
  <2>2. ~Running("confirm")'
    BY <2>1 DEF Running
  <2>3. All' = All
    BY <2>1 DEF All
  <2>4. pool' = CASE Current.kind = "confirm" -> Confirmed(fresh)
                  [] Current.kind = "power" -> pool \cup {i \in All : results[i].stage = "power"}
                  [] OTHER -> pool
    BY <1>5 DEF EndTask
  <2>5. ASSUME ~Over'
        PROVE  /\ Current'.kind = "power" => Current.kind = "confirm"
               /\ Current'.kind = "pick" => Current.kind = "power"
    <3>1. /\ Len(agenda) \in Nat \ {0} /\ IsSequence(Tail(agenda)) /\ Len(Tail(agenda)) = Len(agenda) - 1
          /\ DOMAIN Tail(agenda) = 1..(Len(agenda) - 1)
          /\ \A k \in 1..(Len(agenda) - 1) : Tail(agenda)[k] = agenda[k + 1]
          /\ Current = agenda[1]
      BY <1>1, <2>1, AgendaIs
    <3>2. agenda' # <<>> /\ Current' = agenda'[1]
      BY <2>1, <2>5, <3>1 DEF Over, Current, IsSequence
    <3>3. 1 \in 1..(Len(agenda) - 1)
      BY <2>1, <3>1, <3>2, Places
    <3>4. Current' = agenda[1 + 1]
      BY <2>1, <3>1, <3>2, <3>3
    <3> QED BY <3>1, <3>3, <3>4 DEF StagesInOrder
  <2> HIDE DEF fresh
  <2>6. ASSUME ~Over', Current'.kind = "power"
        PROVE  /\ (\E i \in All : results[i].ok /\ results[i].stage # "power") => \E i \in pool' : results[i].ok
               /\ (\E i \in All : results[i].ok /\ results[i].stage = "confirm") =>
                    \A i \in pool' : results[i].stage \in {"confirm", "power"}
    <3>1. Current.kind = "confirm" /\ Running("confirm")
      BY <2>1, <2>5, <2>6 DEF Running
    <3>2. pool' = IF fresh = {} THEN pool ELSE fresh
      BY <2>4, <3>1 DEF Confirmed
    <3>3. \A i \in All : results[i].stage # "confirm" => i \in pool
      BY <3>1 DEF PoolComplete
    <3>4. CASE fresh = {}
      BY <3>2, <3>3, <3>4 DEF fresh
    <3>5. CASE fresh # {}
      BY <3>2, <3>5 DEF fresh
    <3> QED BY <3>4, <3>5
  <2>7. ASSUME ~Over', Current'.kind = "pick"
        PROVE  /\ (\E i \in All : results[i].ok) => \E i \in pool' : results[i].ok
               /\ (\E i \in All : results[i].ok /\ results[i].stage = "confirm") =>
                    \A i \in pool' : results[i].stage \in {"confirm", "power"}
    <3>1. Current.kind = "power" /\ ~Over
      BY <1>1, <2>1, <2>5, <2>7
    <3>2. pool' = pool \cup {i \in All : results[i].stage = "power"}
      BY <2>4, <3>1
    <3>3. /\ (\E i \in All : results[i].ok /\ results[i].stage # "power") => \E i \in pool : results[i].ok
          /\ (\E i \in All : results[i].ok /\ results[i].stage = "confirm") =>
               \A i \in pool : results[i].stage \in {"confirm", "power"}
      BY <3>1 DEF PoolComplete
    <3> QED BY <3>2, <3>3
  <2> QED BY <2>1, <2>2, <2>3, <2>6, <2>7 DEF PoolComplete
<1>6. CASE PickWinner \/ SweepRaises
  <2>1. agenda' = <<>>
    BY <1>6 DEF PickWinner, SweepRaises
  <2>2. Over' /\ ~begun'
    BY <1>1, <2>1 DEF StagesInOrder, Over
  <2> QED BY <2>2 DEF PoolComplete, Running
<1>7. CASE Recall \/ SkipTrial \/ Measure \/ Remeasure \/ SweepOne \/ SweepNotStarted \/ Finished \/ UNCHANGED vars
  <2>1. UNCHANGED <<agenda, begun, pool>>
    BY <1>7 DEF Recall, SkipTrial, Measure, Remeasure, SweepOne, SweepNotStarted, Finished, vars
  <2>2. Running("confirm")' => Running("confirm")
    BY <2>1 DEF Running, Current
  <2> QED BY <1>1, <2>1, <2>2, PoolFrame
<1> QED BY <1>2, <1>3, <1>4, <1>5, <1>6, <1>7 DEF Next

-----------------------------------------------------------------------------
(* The time spent.                                                         *)

\* The steps by what they add to the time spent.
LEMMA TimeMoves ==
  ASSUME TypeOKSearch, StagesInOrder, [Next]_vars
  PROVE  /\ set' = set
         /\ \/ UNCHANGED <<spent, count>>
            \/ /\ ~OverBudget
               /\ \E out \in Outcomes \cup {Typical} : spent' = spent + out.time /\ count' = count + 1
<1>1. ASSUME NEW out \in AnyOutcome, Record(out, TRUE)
      PROVE  out \in Outcomes \cup {Typical} /\ spent' = spent + out.time /\ count' = count + 1
  BY <1>1 DEF Record, AnyOutcome
<1>2. CASE Measure
  BY <1>1, <1>2 DEF Measure
<1>3. CASE Remeasure
  BY <1>1, <1>3 DEF Remeasure, tvars
<1>4. CASE SweepOne
  <2>1. PICK out : Record(out, FALSE)
    BY <1>4 DEF SweepOne
  <2>2. spent' = spent + 0 /\ count' = count + 0
    BY <2>1 DEF Record
  <2>3. UNCHANGED <<spent, count>>
    BY <2>2 DEF TypeOKSearch
  <2> QED BY <1>4, <2>3 DEF SweepOne
<1>5. CASE ExpandTask \/ BeginTask \/ BeginExplore \/ EndTask \/ PickWinner \/ Recall \/ SkipTrial
  BY <1>5 DEF ExpandTask, BeginTask, BeginExplore, EndTask, PickWinner, Recall, SkipTrial, tvars
<1>6. CASE SweepNotStarted \/ SweepRaises \/ Finished \/ UNCHANGED vars
  BY <1>6 DEF SweepNotStarted, SweepRaises, Finished, vars, tvars
<1> QED BY <1>2, <1>3, <1>4, <1>5, <1>6 DEF Next

LEMMA Products ==
  ASSUME NEW a \in Nat, NEW b \in Nat, NEW c \in Nat, NEW s \in Nat, c > 0,
         a >= c * s, a * c + a <= b * c
  PROVE  a + s <= b
<1>1. SUFFICES ASSUME a + s >= b + 1 PROVE FALSE
  OBVIOUS
<1>2. (a + s) * c >= (b + 1) * c
  BY <1>1
<1>3. (a + s) * c = a * c + c * s /\ (b + 1) * c = b * c + c
  OBVIOUS
<1> QED BY <1>2, <1>3

LEMMA BooksStep ==
  ASSUME TypeOKSearch, StagesInOrder, Books, [Next]_vars
  PROVE  Books'
<1>1. begun \in BOOLEAN /\ (begun => ~Over /\ Current.kind \in Measuring) /\ count \in Nat /\ spent \in Nat
  BY DEF TypeOKSearch, StagesInOrder
<1>2. spent' >= count' * Shortest /\ (count' = 0 => spent' = 0)
  <2>1. spent >= count * Shortest /\ (count = 0 => spent = 0)
    BY DEF Books
  <2>2. CASE UNCHANGED <<spent, count>>
    BY <2>1, <2>2
  <2>3. CASE \E out \in Outcomes \cup {Typical} : spent' = spent + out.time /\ count' = count + 1
    <3>1. PICK out \in Outcomes \cup {Typical} : spent' = spent + out.time /\ count' = count + 1
      BY <2>3
    <3>2. out.time \in Nat /\ Shortest <= out.time /\ Shortest \in Nat
      BY TimesBounded
    <3>3. (count + 1) * Shortest = count * Shortest + Shortest /\ count * Shortest \in Nat
      BY <1>1, <3>2
    <3> QED BY <1>1, <2>1, <3>1, <3>2, <3>3
  <2> QED BY <2>2, <2>3, TimeMoves
<1>3. retry' # NoConfig => Asking'
  <2>1. retry # NoConfig => Asking
    BY DEF Books
  <2>2. CASE ExpandTask \/ BeginTask \/ BeginExplore \/ EndTask \/ PickWinner
    <3>1. retry' = retry
      BY <2>2 DEF ExpandTask, BeginTask, BeginExplore, EndTask, PickWinner
    <3>2. ~Asking
      BY <1>1, <2>2 DEF ExpandTask, BeginTask, BeginExplore, EndTask, PickWinner, Asking, Measuring
    <3> QED BY <2>1, <3>1, <3>2
  <2>3. CASE Remeasure \/ SweepOne \/ SweepNotStarted \/ SweepRaises
    <3>1. retry' = retry /\ ~Asking
      BY <2>3 DEF Remeasure, SweepOne, SweepNotStarted, SweepRaises, Asking, Running
    <3> QED BY <2>1, <3>1
  <2>4. CASE Recall \/ SkipTrial
    BY <2>4 DEF Recall, SkipTrial, Answer
  <2>5. CASE Measure
    <3>1. Asking /\ UNCHANGED <<agenda, begun>> /\ (retry' = NoConfig \/ todo' = todo)
      BY <2>5 DEF Measure, Answer
    <3> QED BY <3>1 DEF Asking, Current
  <2>6. CASE Finished \/ UNCHANGED vars
    BY <2>1, <2>6 DEF Finished, vars, Asking, Current
  <2> QED BY <2>2, <2>3, <2>4, <2>5, <2>6 DEF Next
<1>4. ~Over' => winner' = None
  <2>1. ~Over => winner = None
    BY DEF Books
  <2>2. CASE PickWinner
    BY <2>2 DEF PickWinner, Over
  <2>3. CASE ExpandTask \/ BeginTask \/ BeginExplore \/ EndTask
    <3>1. winner' = winner /\ ~Over
      BY <1>1, <2>3 DEF ExpandTask, BeginTask, BeginExplore, EndTask
    <3> QED BY <2>1, <3>1
  <2>4. CASE Recall \/ SkipTrial \/ Measure \/ Remeasure \/ SweepOne \/ SweepNotStarted \/ SweepRaises
    <3>1. winner' = winner /\ ~Over
      BY <1>1, <2>4 DEF Recall, SkipTrial, Measure, Remeasure, SweepOne, SweepNotStarted, SweepRaises, Asking, Running
    <3> QED BY <2>1, <3>1
  <2>5. CASE Finished \/ UNCHANGED vars
    BY <2>1, <2>5 DEF Finished, vars, Over
  <2> QED BY <2>2, <2>3, <2>4, <2>5 DEF Next
<1> QED BY <1>2, <1>3, <1>4 DEF Books

LEMMA BudgetKeptStep ==
  ASSUME TypeOKSearch, StagesInOrder, Books, BudgetKept, [Next]_vars
  PROVE  BudgetKept'
<1> DEFINE m == MaxOf({set.budget, Shortest})
<1>1. set' = set /\ set.budget \in Nat /\ count \in Nat /\ spent \in Nat
  BY TimeMoves, SettingsAssumption DEF TypeOKSearch
<1>2. Longest \in Nat /\ Shortest \in Nat /\ Shortest <= Longest
  BY TimesBounded
<1>3. m \in Nat /\ set.budget <= m /\ Shortest <= m
  <2> DEFINE b == set.budget
  <2>1. b \in Int /\ Shortest \in Int
    BY <1>1, <1>2
  <2> HIDE DEF b
  <2>2. MaxOf({b, Shortest}) = IF b <= Shortest THEN Shortest ELSE b
    BY <2>1, MaxOfTwo
  <2> QED BY <1>1, <1>2, <2>2 DEF b
<1> HIDE DEF m
<1>4. CASE UNCHANGED <<spent, count>>
  BY <1>1, <1>4 DEF BudgetKept
<1>5. CASE ~OverBudget /\ \E out \in Outcomes \cup {Typical} : spent' = spent + out.time /\ count' = count + 1
  <2>1. PICK out \in Outcomes \cup {Typical} : spent' = spent + out.time
    BY <1>5
  <2>2. out.time \in Nat /\ out.time <= Longest
    BY TimesBounded
  <2> SUFFICES ASSUME set.budget # Unlimited PROVE spent' <= m + Longest - Shortest
    BY <1>1 DEF BudgetKept, m
  <2>3. CASE count = 0
    <3>1. spent = 0
      BY <2>3 DEF Books
    <3> QED BY <1>2, <1>3, <2>1, <2>2, <3>1
  <2>4. CASE count > 0
    <3>1. spent * count + spent <= set.budget * count
      <4>1. ~(spent * count + spent > set.budget * count)
        BY <1>5, <2>4 DEF OverBudget
      <4>2. spent * count \in Nat /\ set.budget * count \in Nat
        BY <1>1
      <4> QED BY <1>1, <4>1, <4>2
    <3>2. spent >= count * Shortest
      BY DEF Books
    <3>3. spent + Shortest <= set.budget
      BY <1>1, <1>2, <2>4, <3>1, <3>2, Products
    <3> QED BY <1>1, <1>2, <1>3, <2>1, <2>2, <3>3
  <2> QED BY <1>1, <2>3, <2>4
<1> QED BY <1>4, <1>5, TimeMoves

-----------------------------------------------------------------------------
(* No configuration is measured twice.                                     *)

LEMMA TriedOnceStep ==
  ASSUME TypeOKSearch, StagesInOrder, TrialsInOrder, TriedOnce, [Next]_vars
  PROVE  TriedOnce'
<1>1. Grown
  BY ResultsGrow
<1>2. ASSUME NEW i \in All', NEW j \in All', i < j, results'[i].cfg = results'[j].cfg,
             j \notin All /\ i \in All =>
               results[i].cfg # results'[j].cfg \/ results'[j].stage \in {"confirm", "power"},
             \A k, l \in All' \ All : k < l => results'[l].stage \in {"confirm", "power"},
             \A k \in All, l \in All' \ All : k < l
      PROVE  results'[j].stage \in {"confirm", "power"}
  <2>1. CASE j \in All
    <3>1. i \in All
      <4> SUFFICES ASSUME i \in All' \ All PROVE FALSE
        BY <1>2
      <4>1. j < i
        BY <1>2, <2>1
      <4>2. i \in Nat /\ j \in Nat
        BY <1>1, Places DEF Grown, AreTrials, All
      <4> QED BY <1>2, <4>1, <4>2
    <3> QED BY <1>1, <1>2, <2>1, <3>1 DEF Grown, TriedOnce
  <2>2. CASE j \notin All
    <3>1. CASE i \in All
      <4>1. results'[i] = results[i]
        BY <1>1, <3>1 DEF Grown
      <4> QED BY <1>2, <2>2, <3>1, <4>1
    <3>2. CASE i \notin All
      BY <1>2, <2>2, <3>2
    <3> QED BY <3>1, <3>2
  <2> QED BY <2>1, <2>2
<1>3. \A k \in All, l \in All' \ All : k < l
  <2>1. IsSequence(results) /\ IsSequence(results')
    BY <1>1 DEF Grown, TypeOKSearch, AreTrials
  <2>2. All = 1..Len(results) /\ All' = 1..Len(results') /\ Len(results) \in Nat /\ Len(results') \in Nat
    BY <2>1, Places DEF All
  <2> QED BY <2>2
<1>4. CASE Measure
  <2>1. begun /\ todo # <<>> /\ ~Done(Asked) /\ Current.kind \notin {"confirm", "power"}
    BY <1>4 DEF Measure, Asking
  <2>2. PICK out \in AnyOutcome : Record(out, TRUE)
    BY <1>4 DEF Measure
  <2>3. All' = All \cup {Len(results) + 1} /\ results'[Len(results) + 1].cfg = Asked /\ Len(results) \in Nat
    BY <2>1, <2>2, RecordAdds
  <2>4. \A i \in All : results[i].stage # "confirm"
    <3> SUFFICES ASSUME NEW i \in All, results[i].stage = "confirm" PROVE FALSE
      OBVIOUS
    <3>1. ~Over /\ Current.kind \in Measuring /\ 1 \in DOMAIN agenda /\ Current = agenda[1]
      BY <2>1, AgendaIs DEF StagesInOrder
    <3>2. Current.kind = "confirm" \/ Current.kind \in MayFollow("confirm")
      BY <3>1 DEF TrialsInOrder
    <3>3. Current.kind = "pick"
      BY <2>1, <3>2, Follows
    <3> QED BY <3>1, <3>3 DEF Measuring
  <2>5. \A i \in All : results[i].cfg # Asked
    BY <2>1, <2>4 DEF Done, DoneFor
  <2>6. \A i \in All, j \in All' \ All : results[i].cfg # results'[j].cfg
    BY <2>3, <2>5
  <2>7. \A k, l \in All' \ All : ~(k < l)
    BY <2>3
  <2> QED BY <1>2, <1>3, <2>6, <2>7 DEF TriedOnce
<1>5. CASE Remeasure \/ SweepOne \/ SweepNotStarted
  <2>1. Current.kind \in {"confirm", "power"}
    BY <1>5 DEF Remeasure, SweepOne, SweepNotStarted, Running
  <2>2. \A j \in All' \ All : results'[j].stage \in {"confirm", "power"}
    BY <1>1, <2>1 DEF Grown
  <2> QED BY <1>2, <1>3, <2>2 DEF TriedOnce
<1>6. CASE \/ ExpandTask \/ BeginTask \/ BeginExplore \/ EndTask \/ PickWinner
           \/ Recall \/ SkipTrial \/ SweepRaises \/ Finished \/ UNCHANGED vars
  <2>1. UNCHANGED results
    BY <1>6 DEF ExpandTask, BeginTask, BeginExplore, EndTask, PickWinner, Recall, SkipTrial, SweepRaises, Finished, vars, tvars
  <2> QED BY <2>1 DEF TriedOnce, All
<1> QED BY <1>4, <1>5, <1>6 DEF Next

-----------------------------------------------------------------------------
(* How the search ends.                                                    *)

\* The search ends with the choice, with an exception, or with nothing that succeeded.
LEMMA SearchEnds ==
  ASSUME TypeOKSearch, StagesInOrder, TrialsInOrder, StageOneKept, DroppedLose, [Next]_vars, ~Over, Over'
  PROVE  PickWinner \/ raised' \/ (winner' = winner /\ ~\E i \in All' : results'[i].ok)
<1>1. CASE ExpandTask
  <2> DEFINE E == Expand(Current)
             T == Tail(agenda)
  <2>1. Current.kind \in Control /\ E \o T = <<>> /\ UNCHANGED <<winner, results>>
    BY <1>1 DEF ExpandTask, Over, tvars
  <2>2. /\ IsTask(Current) /\ IsSequence(T) /\ Len(T) = Len(agenda) - 1 /\ Len(agenda) \in Nat
        /\ Current.kind \in {"keep", "pick"} <=> Len(agenda) = 1
        /\ Current = agenda[1]
    BY AgendaIs
  <2>3. IsSequence(E)
    BY <2>1, <2>2, ExpandTyped
  <2>4. Len(E) = 0 /\ Len(T) = 0
    <3> HIDE DEF E, T
    <3>1. Len(E \o T) = Len(E) + Len(T) /\ Len(E) \in Nat /\ Len(T) \in Nat
      BY <2>2, <2>3, Joined, Places
    <3>2. Len(E \o T) = 0
      BY <2>1, Empty
    <3> QED BY <3>1, <3>2
  <2>5. Current.kind = "keep" /\ Len(agenda) = 1
    <3> HIDE DEF T
    <3>1. Len(agenda) = 1
      BY <2>2, <2>4
    <3> QED BY <2>1, <2>2, <3>1 DEF Control
  <2>6. InStageOne
    BY <2>2, <2>5 DEF InStageOne
  <2>7. ~\E i \in StageTrials : results[i].ok
    <3>1. ~Stages(E)
      BY <2>4 DEF Stages
    <3> QED BY <2>1, <2>2, <2>5, <3>1, ExpandTyped
  <2>8. ~\E i \in All : results[i].ok
    BY <2>6, <2>7 DEF TrialsInOrder, StageOneKept
  <2> QED BY <2>1, <2>8 DEF All
<1>2. CASE EndTask
  <2>1. begun /\ agenda' = Tail(agenda) /\ Current.kind \in Measuring
    BY <1>2 DEF EndTask, StagesInOrder
  <2>2. /\ Len(Tail(agenda)) = Len(agenda) - 1 /\ Len(agenda) \in Nat
        /\ Current.kind \in {"keep", "pick"} <=> Len(agenda) = 1
    BY AgendaIs
  <2>3. Len(Tail(agenda)) = 0
    BY <2>1, Empty DEF Over
  <2> QED BY <2>1, <2>2, <2>3 DEF Measuring, Control
<1>3. CASE SweepRaises
  BY <1>3 DEF SweepRaises
<1>4. CASE UNCHANGED agenda
  BY <1>4 DEF Over
<1>5. CASE BeginTask \/ BeginExplore \/ Recall \/ SkipTrial \/ Measure \/ Remeasure \/ SweepOne \/ SweepNotStarted
  BY <1>4, <1>5 DEF BeginTask, BeginExplore, Recall, SkipTrial, Measure, Remeasure, SweepOne, SweepNotStarted
<1>6. CASE Finished \/ UNCHANGED vars
  BY <1>4, <1>6 DEF Finished, vars
<1> QED BY <1>1, <1>2, <1>3, <1>5, <1>6 DEF Next

\* What is over stays as it is.
LEMMA StaysOver ==
  ASSUME StagesInOrder, [Next]_vars, Over
  PROVE  UNCHANGED <<agenda, raised, winner, results>>
<1>1. ~begun
  BY DEF StagesInOrder
<1>2. CASE Finished \/ UNCHANGED vars
  BY <1>2 DEF Finished, vars, tvars
<1>3. ~(\/ ExpandTask \/ BeginTask \/ BeginExplore \/ EndTask \/ PickWinner \/ Recall \/ SkipTrial \/ Measure
        \/ Remeasure \/ SweepOne \/ SweepNotStarted \/ SweepRaises)
  BY <1>1 DEF ExpandTask, BeginTask, BeginExplore, EndTask, PickWinner, Recall, SkipTrial, Measure, Remeasure,
              SweepOne, SweepNotStarted, SweepRaises, Asking, Running
<1> QED BY <1>2, <1>3 DEF Next

LEMMA EndsStep ==
  ASSUME TypeOKSearch, StagesInOrder, TrialsInOrder, StageOneKept, DroppedLose, PoolComplete, Books,
         SomethingWins, ChosenOnFreshRuns, [Next]_vars
  PROVE  SomethingWins' /\ ChosenOnFreshRuns'
<1>1. CASE Over
  <2>1. UNCHANGED <<agenda, raised, winner, results>>
    BY <1>1, StaysOver
  <2> QED BY <2>1 DEF SomethingWins, ChosenOnFreshRuns, Over, All
<1>2. CASE ~Over'
  BY <1>2 DEF SomethingWins, ChosenOnFreshRuns
<1>3. CASE ~Over /\ Over' /\ raised'
  BY <1>3 DEF SomethingWins, ChosenOnFreshRuns
<1>4. CASE ~Over /\ Over' /\ winner' = winner /\ ~\E i \in All' : results'[i].ok
  <2>1. winner' = None
    BY <1>4 DEF Books
  <2> QED BY <1>4, <2>1 DEF SomethingWins, ChosenOnFreshRuns
<1>5. CASE ~Over /\ PickWinner
  <2>1. Current.kind = "pick" /\ winner' = Best(pool) /\ UNCHANGED results
    BY <1>5 DEF PickWinner, tvars
  <2>2. AreTrials(results) /\ pool \in SUBSET All
    BY DEF TypeOKSearch
  <2>3. /\ Best(pool) = None <=> ~\E i \in pool : results[i].ok
        /\ Best(pool) # None => Best(pool) \in pool
    BY <2>2, BestIs
  <2>4. (\E i \in All : results[i].ok) => \E i \in pool : results[i].ok
    BY <1>5, <2>1 DEF PoolComplete
  <2>5. (\E i \in All : results[i].ok /\ results[i].stage = "confirm") =>
           \A i \in pool : results[i].stage \in {"confirm", "power"}
    BY <1>5, <2>1 DEF PoolComplete
  <2>6. SomethingWins'
    BY <2>1, <2>2, <2>3, <2>4 DEF SomethingWins, All
  <2>7. ChosenOnFreshRuns'
    BY <2>1, <2>3, <2>4, <2>5 DEF ChosenOnFreshRuns, All
  <2> QED BY <2>6, <2>7
<1> QED BY <1>1, <1>2, <1>3, <1>4, <1>5, SearchEnds

-----------------------------------------------------------------------------
(* The order of trials with any number of levels.                          *)

\* What is measured at a level, with the energy known to be below NoEnergy or not known.
IsLevel(m) ==
  /\ m.tok \in Nat /\ m.ttft \in Nat /\ m.wait \in Int
  /\ m.joules \in {Unknown} \cup 0..NoEnergy

\* Trials that can be compared: each that succeeded was measured at a level at least.
Comparable(ts, I) ==
  /\ I \in SUBSET Int /\ IsFiniteSet(I)
  /\ \A i \in OkTrials(ts, I) :
       /\ IsFiniteSet(ts[i].levels) /\ ts[i].levels # {} /\ \A m \in ts[i].levels : IsLevel(m)
       /\ ts[i].strategies \in Nat /\ ts[i].room \in Int

\* Configurations that differ in power only have the same strategies and the same room.
PowerAside(ts, I) ==
  \A i, j \in OkTrials(ts, I) :
    ts[i].base = ts[j].base => ts[i].strategies = ts[j].strategies /\ ts[i].room = ts[j].room

LEMMA LevelTyped ==
  ASSUME NEW m, IsLevel(m), NEW best \in Int
  PROVE  /\ Score(m) \in Int /\ Joules(m) \in 0..NoEnergy
         /\ Violation(m, best) \in Nat /\ Meets(m, best) \in BOOLEAN
<1>1. Score(m) \in Int /\ Joules(m) \in 0..NoEnergy
  BY ObjectiveAssumption DEF IsLevel, Score, Joules, Objectives, Unknown, NoEnergy
<1>2. Violation(m, best) \in Nat
  <2>1. m.tok \in Int /\ m.ttft \in Int
    BY DEF IsLevel
  <2>2. 100 * (m.ttft - Ceiling) \in Int /\ FloorPercent * best - 100 * m.tok \in Int
    BY <2>1, ObjectiveAssumption
  <2>3. MaxOf({0, 100 * (m.ttft - Ceiling)}) \in Nat /\ MaxOf({0, FloorPercent * best - 100 * m.tok}) \in Nat
    BY <2>2, MaxOfTwo
  <2> QED BY <2>3, ObjectiveAssumption DEF Violation, Objectives
<1> QED BY <1>1, <1>2 DEF Meets

\* The least of finitely many integers.
LEMMA MinIn ==
  ASSUME NEW S, IsFiniteSet(S), S # {}, NEW f \in [S -> Int]
  PROVE  \E x \in S : \A y \in S : f[x] <= f[y]
<1> DEFINE g == [x \in S |-> -f[x]]
           T == {g[x] : x \in S}
<1>1. T \in SUBSET Int /\ T # {}
  OBVIOUS
<1>2. IsFiniteSet(T)
  <2>1. g = [x \in S |-> g[x]]
    OBVIOUS
  <2> HIDE DEF g
  <2> QED BY <2>1, FiniteImage
<1>3. MaxOf(T) \in T /\ \A y \in T : y <= MaxOf(T)
  <2> HIDE DEF T
  <2> QED BY <1>1, <1>2, MaxIn
<1>4. PICK x \in S : MaxOf(T) = g[x]
  BY <1>3
<1>5. \A y \in S : g[y] <= g[x]
  <2> HIDE DEF g
  <2> QED BY <1>3, <1>4
<1>6. \A y \in S : f[x] <= f[y]
  <2> TAKE y \in S
  <2>1. -f[y] <= -f[x] /\ f[x] \in Int /\ f[y] \in Int
    BY <1>5
  <2> QED BY <2>1
<1> QED BY <1>6

\* A trial is scored at one of its levels, and no other is less outside the constraint, or as
\* much and better.
LEMMA LevelChosen ==
  ASSUME NEW t, IsFiniteSet(t.levels), t.levels # {}, \A m \in t.levels : IsLevel(m), NEW best \in Int
  PROVE  /\ At(t, best) \in t.levels
         /\ \A n \in t.levels :
              \/ Violation(At(t, best), best) < Violation(n, best)
              \/ Violation(At(t, best), best) = Violation(n, best) /\ Score(At(t, best)) <= Score(n)
<1> DEFINE L == t.levels
           v == [m \in L |-> Violation(m, best)]
           s == [m \in L |-> Score(m)]
<1>1. v \in [L -> Nat] /\ s \in [L -> Int] /\ \A m \in L : Meets(m, best) <=> v[m] = 0
  BY LevelTyped DEF Meets
<1>2. \A m, n \in L : LevelBefore(m, n, best) <=> (v[m] < v[n] \/ (v[m] = v[n] /\ s[m] < s[n]))
  <2> TAKE m, n \in L
  <2>1. /\ v[m] \in Nat /\ v[n] \in Nat /\ (Meets(m, best) <=> v[m] = 0) /\ (Meets(n, best) <=> v[n] = 0)
        /\ v[m] = Violation(m, best) /\ v[n] = Violation(n, best) /\ s[m] = Score(m) /\ s[n] = Score(n)
    BY <1>1
  <2> HIDE DEF v, s
  <2> QED BY <2>1 DEF LevelBefore
<1> HIDE DEF v, s
<1>3. PICK a \in L : \A n \in L : v[a] <= v[n]
  BY <1>1, MinIn
<1> DEFINE M == {m \in L : v[m] = v[a]}
           r == [m \in M |-> s[m]]
<1>4. IsFiniteSet(M) /\ M # {} /\ r \in [M -> Int]
  BY <1>1, FS_Subset
<1>5. PICK b \in M : \A n \in M : r[b] <= r[n]
  <2> HIDE DEF M, r
  <2> QED BY <1>4, MinIn
<1>6. \A n \in L : ~LevelBefore(n, b, best)
  <2> TAKE n \in L
  <2>1. v[b] <= v[n] /\ v[b] \in Nat /\ v[n] \in Nat /\ s[n] \in Int /\ s[b] \in Int
    BY <1>1, <1>3, <1>5
  <2>2. v[n] = v[b] => s[b] <= s[n]
    BY <1>5
  <2> QED BY <1>2, <1>5, <2>1, <2>2
<1> DEFINE c == At(t, best)
<1>7. c \in L /\ \A n \in L : ~LevelBefore(n, c, best)
  BY <1>5, <1>6 DEF At
<1> HIDE DEF c
<1>8. \A n \in L : v[c] < v[n] \/ (v[c] = v[n] /\ s[c] <= s[n])
  BY <1>1, <1>2, <1>7
<1> QED BY <1>7, <1>8 DEF c, v, s

\* The best throughput of comparable trials is a number.
LEMMA FastestTyped ==
  ASSUME NEW ts, NEW I, Comparable(ts, I)
  PROVE  IsFiniteSet(OkTrials(ts, I)) /\ BestTok(ts, OkTrials(ts, I)) \in Nat
<1> DEFINE J == OkTrials(ts, I)
           f == [i \in J |-> SummaryTok(ts[i])]
           T == {0} \cup {SummaryTok(ts[i]) : i \in J}
<1>1. J \in SUBSET I /\ IsFiniteSet(J)
  BY FS_Subset DEF OkTrials, Comparable
<1>2. ASSUME NEW i \in J PROVE SummaryTok(ts[i]) \in Nat
  <2> DEFINE L == ts[i].levels
             g == [m \in L |-> m.tok]
             G == {g[m] : m \in L}
  <2>1. IsFiniteSet(L) /\ L # {} /\ \A m \in L : m.tok \in Nat
    BY DEF Comparable, IsLevel
  <2> HIDE DEF L
  <2>2. G \in SUBSET Nat /\ G # {} /\ G = {m.tok : m \in L}
    BY <2>1
  <2>3. IsFiniteSet(G)
    <3>1. g = [m \in L |-> g[m]]
      OBVIOUS
    <3> HIDE DEF g
    <3> QED BY <2>1, <3>1, FiniteImage
  <2>4. MaxOf(G) \in G
    <3>1. G \in SUBSET Int /\ G # {}
      BY <2>2
    <3> HIDE DEF G
    <3> QED BY <2>3, <3>1, MaxIn
  <2> HIDE DEF G
  <2> QED BY <2>2, <2>4 DEF SummaryTok, L
<1> HIDE DEF J
<1>3. IsFiniteSet({f[i] : i \in J})
  <2>1. f = [i \in J |-> f[i]]
    OBVIOUS
  <2> HIDE DEF f
  <2> QED BY <1>1, <2>1, FiniteImage
<1>4. T = {f[i] : i \in J} \cup {0}
  OBVIOUS
<1>5. IsFiniteSet(T) /\ T # {} /\ T \in SUBSET Nat
  BY <1>2, <1>3, <1>4, FS_AddElement
<1>6. MaxOf(T) \in T
  <2> HIDE DEF T
  <2> QED BY <1>5, MaxIn
<1> QED BY <1>1, <1>5, <1>6 DEF BestTok, J

\* rank() compares each trial that succeeded at the level it is scored at.
LEMMA ComparedAt ==
  ASSUME NEW ts, NEW I, Comparable(ts, I), NEW best, best = BestTok(ts, OkTrials(ts, I)),
         NEW f, f = [i \in OkTrials(ts, I) |-> ScoredAt(ts[i], i, At(ts[i], best), best)]
  PROVE  /\ Scored(ts, I) = {f[i] : i \in OkTrials(ts, I)}
         /\ Records(Scored(ts, I))
         /\ \A i \in OkTrials(ts, I) :
              /\ f[i].i = i /\ f[i].base = ts[i].base /\ f[i].strategies = ts[i].strategies /\ f[i].room = ts[i].room
              /\ f[i].score = Score(At(ts[i], best)) /\ f[i].violation = Violation(At(ts[i], best), best)
              /\ f[i].feasible = Meets(At(ts[i], best), best) /\ f[i].joules = Joules(At(ts[i], best))
<1> DEFINE J == OkTrials(ts, I)
           S == {f[i] : i \in J}
<1>1. IsFiniteSet(J) /\ best \in Nat /\ J \in SUBSET Int
  BY FastestTyped DEF Comparable, OkTrials
<1>2. ASSUME NEW i \in J
      PROVE  /\ f[i].i = i /\ f[i].base = ts[i].base /\ f[i].strategies = ts[i].strategies /\ f[i].room = ts[i].room
             /\ f[i].score = Score(At(ts[i], best)) /\ f[i].violation = Violation(At(ts[i], best), best)
             /\ f[i].feasible = Meets(At(ts[i], best), best) /\ f[i].joules = Joules(At(ts[i], best))
  BY DEF ScoredAt
<1>3. ASSUME NEW i \in J
      PROVE  /\ ts[i].strategies \in Int /\ ts[i].room \in Int
             /\ Score(At(ts[i], best)) \in Int /\ Joules(At(ts[i], best)) \in Int
             /\ Violation(At(ts[i], best), best) \in Nat
             /\ Meets(At(ts[i], best), best) = (Violation(At(ts[i], best), best) = 0)
  <2>1. /\ IsFiniteSet(ts[i].levels) /\ ts[i].levels # {} /\ \A m \in ts[i].levels : IsLevel(m)
        /\ ts[i].strategies \in Nat /\ ts[i].room \in Int
    BY DEF Comparable
  <2>2. IsLevel(At(ts[i], best)) /\ best \in Int
    BY <1>1, <2>1, LevelChosen
  <2>3. Meets(At(ts[i], best), best) = (Violation(At(ts[i], best), best) = 0)
    BY DEF Meets
  <2>4. /\ Score(At(ts[i], best)) \in Int /\ Joules(At(ts[i], best)) \in 0..NoEnergy
        /\ Violation(At(ts[i], best), best) \in Nat
    BY <2>2, LevelTyped
  <2>5. Joules(At(ts[i], best)) \in Int
    BY <2>4 DEF NoEnergy
  <2> QED BY <2>1, <2>3, <2>4, <2>5
<1>4. Scored(ts, I) = S
  BY DEF Scored, ScoredAgainst
<1>5. IsFiniteSet(S)
  <2>1. f = [i \in J |-> f[i]]
    OBVIOUS
  <2> QED BY <1>1, <2>1, FiniteImage
<1>6. ASSUME NEW i \in J
      PROVE  /\ f[i].i \in Int /\ f[i].strategies \in Int /\ f[i].room \in Int /\ f[i].score \in Int /\ f[i].joules \in Int
             /\ f[i].violation \in Nat /\ f[i].feasible = (f[i].violation = 0)
  <2>1. f[i].feasible = (f[i].violation = 0)
    BY <1>2, <1>3, Zenon
  <2> QED BY <1>1, <1>2, <1>3, <2>1
<1>7. Records(S)
  <2>1. \A x, y \in S : x.i = y.i => x = y
    BY <1>2
  <2>2. ASSUME NEW x \in S
        PROVE  /\ x.i \in Int /\ x.strategies \in Int /\ x.room \in Int /\ x.score \in Int /\ x.joules \in Int
               /\ x.violation \in Nat /\ x.feasible = (x.violation = 0)
    <3>1. PICK i \in J : x = f[i]
      OBVIOUS
    <3> QED BY <1>6, <3>1
  <2> QED BY <1>5, <2>1, <2>2 DEF Records
<1> QED BY <1>2, <1>4, <1>7

\* The leader and the winner of comparable trials, and where they are from.
LEMMA WinnerFrom ==
  ASSUME NEW ts, NEW I, Comparable(ts, I), OkTrials(ts, I) # {}, NEW best, best = BestTok(ts, OkTrials(ts, I)),
         NEW f, f = [i \in OkTrials(ts, I) |-> ScoredAt(ts[i], i, At(ts[i], best), best)]
  PROVE  /\ Pick(ts, I) \in OkTrials(ts, I)
         /\ \E l \in OkTrials(ts, I) :
              /\ \A j \in OkTrials(ts, I) : f[j] = f[l] \/ Before(f[l], f[j])
              /\ ~f[l].feasible => f[Pick(ts, I)] = f[l]
              /\ f[l].feasible =>
                   /\ Joins(f[l], f[Pick(ts, I)])
                   /\ \A j \in OkTrials(ts, I) :
                        Joins(f[l], f[j]) => f[j] = f[Pick(ts, I)] \/ TieBefore(f[Pick(ts, I)], f[j])
<1> DEFINE J == OkTrials(ts, I)
           S == Scored(ts, I)
           lead == FirstIn(S, Before)
           w == FirstIn(Tied(S), TieBefore)
<1>1. /\ S = {f[i] : i \in J} /\ Records(S) /\ S # {} /\ \A i \in J : f[i].i = i
  <2>1. S = {f[i] : i \in J} /\ Records(S) /\ \A i \in J : f[i].i = i
    BY ComparedAt
  <2> QED BY <2>1
<1>2. Pick(ts, I) = WinnerOf(S)
  BY DEF Pick
<1> HIDE DEF S, J
<1>3. /\ lead \in S /\ \A y \in S \ {lead} : Before(lead, y)
      /\ Tied(S) \in SUBSET S /\ Tied(S) # {}
  BY <1>1, LeaderAmong
<1>4. w \in Tied(S) /\ Pick(ts, I) = w.i /\ \A y \in Tied(S) \ {w} : TieBefore(w, y)
  <2>1. \E x \in Tied(S) : x = w /\ WinnerOf(S) = x.i /\ \A y \in Tied(S) \ {x} : TieBefore(x, y)
    BY <1>1, WinnerAmong
  <2> HIDE DEF w
  <2> QED BY <1>2, <2>1
<1>5. Tied(S) = IF lead.feasible THEN {x \in S : Joins(lead, x)} ELSE {lead}
  BY DEF Tied
<1> HIDE DEF lead, w
<1>6. PICK l \in J : lead = f[l]
  BY <1>1, <1>3
<1>7. PICK k \in J : w = f[k]
  BY <1>1, <1>3, <1>4
<1>8. Pick(ts, I) = k
  BY <1>1, <1>4, <1>7
<1>9. \A j \in J : f[j] = f[l] \/ Before(f[l], f[j])
  <2> TAKE j \in J
  <2>1. f[j] \in S
    BY <1>1
  <2>2. f[j] = lead \/ Before(lead, f[j])
    BY <1>3, <2>1
  <2> QED BY <1>6, <2>2
<1>10. ~f[l].feasible => f[k] = f[l]
  BY <1>4, <1>5, <1>6, <1>7
<1>11. f[l].feasible => Joins(f[l], f[k]) /\ \A j \in J : Joins(f[l], f[j]) => f[j] = f[k] \/ TieBefore(f[k], f[j])
  <2> SUFFICES ASSUME lead.feasible
               PROVE  Joins(lead, w) /\ \A j \in J : Joins(lead, f[j]) => f[j] = w \/ TieBefore(w, f[j])
    BY <1>6, <1>7
  <2>1. Tied(S) = {x \in S : Joins(lead, x)}
    BY <1>5
  <2>2. \A j \in J : f[j] \in S
    BY <1>1
  <2> QED BY <1>4, <2>1, <2>2
<1> QED BY <1>8, <1>9, <1>10, <1>11 DEF J

\* The level a trial is scored at is a feasible one when it has a feasible one, and the best of those.
LEMMA FeasibleChosen ==
  ASSUME NEW ts, NEW I, Comparable(ts, I), NEW best \in Nat, NEW i \in OkTrials(ts, I), NEW m \in ts[i].levels,
         Meets(m, best)
  PROVE  Meets(At(ts[i], best), best) /\ At(ts[i], best) \in ts[i].levels /\ Score(At(ts[i], best)) <= Score(m)
<1>1. /\ IsFiniteSet(ts[i].levels) /\ ts[i].levels # {} /\ \A n \in ts[i].levels : IsLevel(n)
  BY DEF Comparable
<1>2. /\ At(ts[i], best) \in ts[i].levels
      /\ \/ Violation(At(ts[i], best), best) < Violation(m, best)
         \/ Violation(At(ts[i], best), best) = Violation(m, best) /\ Score(At(ts[i], best)) <= Score(m)
  BY <1>1, LevelChosen
<1>3. Violation(At(ts[i], best), best) \in Nat
  BY <1>1, <1>2, LevelTyped
<1> QED BY <1>2, <1>3 DEF Meets

\* pick() of any comparable trials, for any objective and any tolerances: the winner meets the
\* constraint if a level of any trial does, and is as near the best of them as ties allow.
THEOREM WinnerIsNearBest ==
  ASSUME NEW ts, NEW I, Comparable(ts, I)
  PROVE  NearBest(ts, I)
<1> DEFINE J == OkTrials(ts, I)
           best == BestTok(ts, J)
           feasible == {m \in UNION {ts[i].levels : i \in J} : Meets(m, best)}
           first == ts[Pick(ts, I)]
           won == At(first, best)
           Near(percent, m) == 100 * (Score(won) - Score(m)) <= percent * AbsOf(Score(m))
           f == [i \in J |-> ScoredAt(ts[i], i, At(ts[i], best), best)]
<1> SUFFICES ASSUME NEW m \in feasible, \A n \in feasible : Score(m) <= Score(n)
             PROVE  /\ won \in feasible
                    /\ \/ Near(NoisePercent, m)
                       \/ /\ Near(MaxOf({PowerLossPercent, NoisePercent}), m)
                          /\ \E i \in J : /\ ts[i].base = first.base
                                          /\ At(ts[i], best) \in feasible /\ Score(At(ts[i], best)) = Score(m)
  BY DEF NearBest
<1>1. best \in Nat
  BY FastestTyped
<1>2. PICK a \in J : m \in ts[a].levels /\ Meets(m, best)
  OBVIOUS
<1>3. /\ f = [i \in J |-> ScoredAt(ts[i], i, At(ts[i], best), best)] /\ J # {}
  BY <1>2
<1> DEFINE k == Pick(ts, I)
<1>4. /\ k \in J
      /\ \E l \in J :
           /\ \A j \in J : f[j] = f[l] \/ Before(f[l], f[j])
           /\ ~f[l].feasible => f[k] = f[l]
           /\ f[l].feasible => Joins(f[l], f[k])
  <2> HIDE DEF f
  <2> QED BY <1>3, WinnerFrom
<1>5. /\ Records(Scored(ts, I)) /\ Scored(ts, I) = {f[i] : i \in J}
      /\ \A i \in J :
           /\ f[i].i = i /\ f[i].base = ts[i].base
           /\ f[i].score = Score(At(ts[i], best)) /\ f[i].feasible = Meets(At(ts[i], best), best)
  <2> HIDE DEF f
  <2> QED BY <1>3, ComparedAt
<1> HIDE DEF f
<1>6. \A i \in J : f[i].score \in Int /\ f[i].violation \in Nat /\ f[i].feasible = (f[i].violation = 0)
  BY <1>5 DEF Records
<1>7. ASSUME NEW i \in J, f[i].feasible
      PROVE  At(ts[i], best) \in feasible /\ Score(m) <= f[i].score
  <2>1. At(ts[i], best) \in ts[i].levels
    BY <1>1, LevelChosen DEF Comparable
  <2>2. Meets(At(ts[i], best), best)
    BY <1>5, <1>7
  <2>3. At(ts[i], best) \in feasible
    BY <2>1, <2>2
  <2> QED BY <1>5, <2>3
<1>8. f[a].feasible /\ f[a].score = Score(m)
  <2>1. Meets(At(ts[a], best), best) /\ Score(At(ts[a], best)) <= Score(m)
    BY <1>1, <1>2, FeasibleChosen
  <2>2. f[a].feasible /\ f[a].score <= Score(m)
    BY <1>5, <2>1
  <2>3. Score(m) \in Int
    BY <1>1, <1>2, LevelTyped DEF Comparable
  <2> QED BY <1>6, <1>7, <2>2, <2>3
<1>9. PICK l \in J : /\ \A j \in J : f[j] = f[l] \/ Before(f[l], f[j])
                     /\ ~f[l].feasible => f[k] = f[l]
                     /\ f[l].feasible => Joins(f[l], f[k])
  BY <1>4
<1>10. f[l].feasible /\ f[l].score = Score(m)
  <2>1. f[a] = f[l] \/ Before(f[l], f[a])
    BY <1>9
  <2>2. f[l].feasible /\ f[l].score <= f[a].score
    <3>1. CASE f[a] = f[l]
      BY <1>6, <1>8, <3>1
    <3>2. CASE Before(f[l], f[a])
      <4>1. f[l].feasible
        BY <1>8, <3>2 DEF Before
      <4>2. f[l].violation = 0 /\ f[a].violation = 0
        BY <1>6, <1>8, <4>1
      <4> QED BY <1>6, <1>8, <3>2, <4>1, <4>2 DEF Before
    <3> QED BY <2>1, <3>1, <3>2
  <2> QED BY <1>6, <1>7, <1>8, <2>2
<1>11. Joins(f[l], f[k])
  BY <1>9, <1>10
<1>12. won \in feasible /\ f[k].score = Score(won) /\ f[k].base = first.base
  <2>1. f[k].feasible
    BY <1>11 DEF Joins
  <2> QED BY <1>4, <1>5, <1>7, <2>1
<1>13. \/ Near(NoisePercent, m)
       \/ Near(MaxOf({PowerLossPercent, NoisePercent}), m) /\ f[k].base = f[l].base
  <2> DEFINE gap == f[k].score - f[l].score
  <2>1. gap \in Int /\ gap <= AbsOf(gap) /\ AbsOf(gap) \in Int
    BY <1>4, <1>6 DEF AbsOf
  <2>2. gap = Score(won) - Score(m) /\ AbsOf(f[l].score) = AbsOf(Score(m))
    BY <1>10, <1>12
  <2>3. \/ 100 * AbsOf(gap) <= NoisePercent * AbsOf(Score(m))
        \/ f[k].base = f[l].base /\ 100 * AbsOf(gap) <= MaxOf({PowerLossPercent, NoisePercent}) * AbsOf(Score(m))
    BY <1>11, <2>2 DEF Joins
  <2>4. Score(m) \in Int /\ NoisePercent \in Int /\ MaxOf({PowerLossPercent, NoisePercent}) \in Int
    BY <1>6, <1>8, ObjectiveAssumption, MaxOfTwo
  <2>5. AbsOf(Score(m)) \in Int
    BY <2>4 DEF AbsOf
  <2>6. NoisePercent * AbsOf(Score(m)) \in Int /\ MaxOf({PowerLossPercent, NoisePercent}) * AbsOf(Score(m)) \in Int
    BY <2>4, <2>5
  <2> HIDE DEF gap
  <2>7. /\ 100 * AbsOf(gap) <= NoisePercent * AbsOf(Score(m)) => 100 * gap <= NoisePercent * AbsOf(Score(m))
        /\ 100 * AbsOf(gap) <= MaxOf({PowerLossPercent, NoisePercent}) * AbsOf(Score(m)) =>
             100 * gap <= MaxOf({PowerLossPercent, NoisePercent}) * AbsOf(Score(m))
    BY <2>1, <2>6
  <2> QED BY <2>2, <2>3, <2>7
<1>14. ts[l].base = f[l].base /\ At(ts[l], best) \in feasible /\ Score(At(ts[l], best)) = Score(m)
  BY <1>5, <1>7, <1>10
<1> QED BY <1>12, <1>13, <1>14

\* pick() of any comparable trials: a capped run wins over the uncapped run of its configuration
\* only when it is better or is known to use no more energy (tie_break, PowerLossPercent).
THEOREM CapIsEarned ==
  ASSUME NEW ts, NEW I, Comparable(ts, I), PowerAside(ts, I)
  PROVE  CapEarned(ts, I)
<1> DEFINE J == OkTrials(ts, I)
           best == BestTok(ts, J)
           k == Pick(ts, I)
           won == At(ts[k], best)
           f == [i \in J |-> ScoredAt(ts[i], i, At(ts[i], best), best)]
<1> SUFFICES ASSUME Meets(won, best), NEW o \in J,
                    ts[o].base = ts[k].base, Meets(At(ts[o], best), best),
                    ~(Score(won) <= Score(At(ts[o], best)))
             PROVE  won.joules # Unknown /\ (At(ts[o], best).joules = Unknown \/ won.joules <= At(ts[o], best).joules)
  BY DEF CapEarned
<1> DEFINE other == At(ts[o], best)
<1>1. best \in Nat /\ f = [i \in J |-> ScoredAt(ts[i], i, At(ts[i], best), best)] /\ J # {}
  BY FastestTyped
<1>2. /\ k \in J
      /\ \E l \in J :
           /\ \A j \in J : f[j] = f[l] \/ Before(f[l], f[j])
           /\ ~f[l].feasible => f[k] = f[l]
           /\ f[l].feasible =>
                Joins(f[l], f[k]) /\ \A j \in J : Joins(f[l], f[j]) => f[j] = f[k] \/ TieBefore(f[k], f[j])
  <2> HIDE DEF f
  <2> QED BY <1>1, WinnerFrom
<1>3. /\ Records(Scored(ts, I)) /\ Scored(ts, I) = {f[i] : i \in J}
      /\ \A i \in J :
           /\ f[i].i = i /\ f[i].base = ts[i].base /\ f[i].strategies = ts[i].strategies /\ f[i].room = ts[i].room
           /\ f[i].score = Score(At(ts[i], best)) /\ f[i].feasible = Meets(At(ts[i], best), best)
           /\ f[i].joules = Joules(At(ts[i], best))
  <2> HIDE DEF f
  <2> QED BY <1>1, ComparedAt
<1> HIDE DEF f
<1>4. \A i \in J : /\ f[i].score \in Int /\ f[i].violation \in Nat /\ f[i].feasible = (f[i].violation = 0)
                   /\ f[i].strategies \in Int /\ f[i].room \in Int /\ f[i].joules \in Int
  BY <1>3 DEF Records
<1>5. IsLevel(won) /\ IsLevel(other)
  <2>1. \A i \in J : At(ts[i], best) \in ts[i].levels /\ \A m \in ts[i].levels : IsLevel(m)
    <3> TAKE i \in J
    <3>1. IsFiniteSet(ts[i].levels) /\ ts[i].levels # {} /\ \A m \in ts[i].levels : IsLevel(m)
      BY DEF Comparable
    <3> QED BY <1>1, <3>1, LevelChosen
  <2> QED BY <1>2, <2>1
<1> HIDE DEF k
<1>6. PICK l \in J : /\ \A j \in J : f[j] = f[l] \/ Before(f[l], f[j])
                     /\ ~f[l].feasible => f[k] = f[l]
                     /\ f[l].feasible =>
                          Joins(f[l], f[k]) /\ \A j \in J : Joins(f[l], f[j]) => f[j] = f[k] \/ TieBefore(f[k], f[j])
  BY <1>2
<1>7. /\ f[k].feasible = TRUE /\ f[o].feasible = TRUE /\ f[o].score < f[k].score
      /\ f[o].base = f[k].base /\ f[o].strategies = f[k].strategies /\ f[o].room = f[k].room
  <2>1. f[k].feasible = TRUE /\ f[o].feasible = TRUE
    BY <1>2, <1>3, <1>4, Zenon
  <2>2. f[o].score < f[k].score
    BY <1>2, <1>3, <1>4
  <2>3. f[o].base = f[k].base /\ f[o].strategies = f[k].strategies /\ f[o].room = f[k].room
    BY <1>2, <1>3 DEF PowerAside
  <2> QED BY <2>1, <2>2, <2>3
<1>8. f[l].feasible /\ f[l].score <= f[o].score
  <2>1. f[l].feasible /\ f[l].feasible \in BOOLEAN
    BY <1>4, <1>6, <1>7
  <2>2. CASE f[o] = f[l]
    BY <1>4, <2>1, <2>2
  <2>3. CASE Before(f[l], f[o])
    <3>1. f[l].violation = 0 /\ f[o].violation = 0
      BY <1>4, <1>7, <2>1
    <3>2. ~(f[l].feasible /\ ~f[o].feasible)
      BY <1>7
    <3>3. f[l].violation < f[o].violation \/ f[l].score < f[o].score \/ f[l].score = f[o].score
      BY <2>3, <3>2 DEF Before
    <3> QED BY <1>4, <2>1, <3>1, <3>3
  <2>4. f[o] = f[l] \/ Before(f[l], f[o])
    BY <1>6
  <2> QED BY <2>1, <2>2, <2>3, <2>4
<1>9. Joins(f[l], f[o])
  <2> DEFINE near == 100 * AbsOf(f[o].score - f[l].score)
             far == 100 * AbsOf(f[k].score - f[l].score)
             noise == NoisePercent * AbsOf(f[l].score)
             loss == MaxOf({PowerLossPercent, NoisePercent}) * AbsOf(f[l].score)
  <2>1. near \in Int /\ far \in Int /\ near <= far
    BY <1>2, <1>4, <1>7, <1>8 DEF AbsOf
  <2>2. noise \in Int /\ loss \in Int
    <3>1. NoisePercent \in Int /\ MaxOf({PowerLossPercent, NoisePercent}) \in Int
      BY ObjectiveAssumption, MaxOfTwo
    <3>2. AbsOf(f[l].score) \in Int
      BY <1>4 DEF AbsOf
    <3> QED BY <3>1, <3>2
  <2>3. far <= noise \/ (f[k].base = f[l].base /\ far <= loss)
    BY <1>6, <1>8 DEF Joins
  <2> SUFFICES near <= noise \/ (f[o].base = f[l].base /\ near <= loss)
    BY <1>7 DEF Joins
  <2> HIDE DEF near, far, noise, loss
  <2>4. (far <= noise => near <= noise) /\ (far <= loss => near <= loss)
    BY <2>1, <2>2
  <2> QED BY <1>7, <2>3, <2>4
<1>10. TieBefore(f[k], f[o])
  <2>1. f[o] # f[k]
    BY <1>2, <1>4, <1>7
  <2> QED BY <1>6, <1>8, <1>9, <2>1
<1>11. ~Before(f[k], f[o])
  <2>1. f[k].violation = 0 /\ f[o].violation = 0
    BY <1>2, <1>4, <1>7
  <2> QED BY <1>2, <1>4, <1>7, <2>1 DEF Before
<1>12. f[k].joules < f[o].joules
  BY <1>2, <1>4, <1>7, <1>10, <1>11 DEF TieBefore
<1> HIDE DEF won, other
<1>13. Joules(won) < Joules(other)
  BY <1>2, <1>3, <1>12 DEF won, other
<1>14. won.joules # Unknown /\ (other.joules = Unknown \/ won.joules <= other.joules)
  <2>1. Joules(won) \in 0..NoEnergy /\ Joules(other) \in 0..NoEnergy
    BY <1>5, LevelTyped, 0 \in Int
  <2>2. won.joules # Unknown
    BY <1>13, <2>1 DEF Joules, NoEnergy
  <2>3. CASE other.joules # Unknown
    <3>1. Joules(won) = won.joules /\ Joules(other) = other.joules
      BY <2>2, <2>3 DEF Joules
    <3>2. Joules(won) \in Int /\ Joules(other) \in Int
      BY <2>1 DEF NoEnergy
    <3>4. Joules(won) <= Joules(other)
      BY <1>13, <3>2
    <3>3. won.joules <= other.joules
      BY <3>1, <3>4
    <3> QED BY <2>2, <3>3
  <2> QED BY <2>2, <2>3
<1> QED BY <1>14 DEF won, other

\* enough_level() for any levels whose throughput rises with load: a trial that stops at the first
\* level from the top that meets the ceiling scores as one that measures them all.
THEOREM EnoughIsEnough ==
  ASSUME NEW ms, DOMAIN ms \in SUBSET Int, IsFiniteSet(DOMAIN ms),
         \A k \in DOMAIN ms : IsLevel(ms[k]),
         \A j, k \in DOMAIN ms : j <= k => ms[j].tok <= ms[k].tok
  PROVE  Settles(ms)
<1> DEFINE D == DOMAIN ms
           E == {k \in D : Enough(ms[k])}
           Measured(K) == [levels |-> {ms[k] : k \in K}]
           ScoreOf(K) == Score(At(Measured(K), SummaryTok(Measured(K))))
<1>1. E \in SUBSET D /\ IsFiniteSet(E) /\ E \in SUBSET Int
  BY FS_Subset
<1>2. CASE E = {}
  BY <1>2 DEF Settles, MeasuredLevels
<1>3. CASE E # {}
  <2> DEFINE top == MaxOf(E)
             A == {k \in D : k >= top}
  <2>1. top \in E /\ \A k \in E : k <= top
    <3> HIDE DEF E
    <3> QED BY <1>1, <1>3, MaxIn
  <2>2. MeasuredLevels(ms) = A
    BY <1>3 DEF MeasuredLevels
  <2> HIDE DEF top
  <2>3. /\ Objective \in {"throughput", "balanced"}
        /\ \A m, b : Violation(m, b) = Violation(m, 0) /\ Score(m) = -m.tok /\ (Enough(m) <=> Violation(m, 0) = 0)
    <3>1. Objective \in {"throughput", "balanced"}
      BY <2>1 DEF Enough
    <3> QED BY <3>1 DEF Violation, Score, Enough, Meets
  <2>4. ASSUME NEW K \in SUBSET D, top \in K PROVE ScoreOf(K) = -ms[top].tok
    <3> DEFINE t == Measured(K)
               L == {ms[k] : k \in K}
               b == SummaryTok(t)
    <3>1. t.levels = L
      OBVIOUS
    <3>2. IsFiniteSet(L) /\ L # {} /\ \A m \in L : IsLevel(m)
      <4> DEFINE g == [k \in K |-> ms[k]]
      <4>1. IsFiniteSet(K)
        BY FS_Subset
      <4>2. L = {g[k] : k \in K} /\ g = [k \in K |-> g[k]]
        OBVIOUS
      <4> HIDE DEF g
      <4>3. IsFiniteSet(L)
        BY <4>1, <4>2, FiniteImage
      <4> QED BY <2>4, <4>3
    <3>3. b \in Int
      <4> DEFINE g == [m \in L |-> m.tok]
                 G == {g[m] : m \in L}
      <4>1. G \in SUBSET Int /\ G # {} /\ G = {m.tok : m \in t.levels}
        <5>1. \A m \in L : m.tok \in Int
          BY <3>2 DEF IsLevel
        <5> HIDE DEF L
        <5>2. G = {m.tok : m \in t.levels}
          BY <3>1
        <5> QED BY <3>2, <5>1, <5>2
      <4>2. IsFiniteSet(G)
        <5>1. g = [m \in L |-> g[m]]
          OBVIOUS
        <5> HIDE DEF g, L
        <5> QED BY <3>2, <5>1, FiniteImage
      <4>3. MaxOf(G) \in G
        <5> HIDE DEF G
        <5> QED BY <4>1, <4>2, MaxIn
      <4> HIDE DEF G
      <4> QED BY <4>1, <4>3 DEF SummaryTok
    <3> HIDE DEF t, b
    <3> DEFINE c == At(t, b)
    <3>4. /\ c \in L
          /\ \A n \in L : \/ Violation(c, b) < Violation(n, b)
                          \/ Violation(c, b) = Violation(n, b) /\ Score(c) <= Score(n)
      <4> HIDE DEF L
      <4> QED BY <3>1, <3>2, <3>3, LevelChosen
    <3> HIDE DEF c
    <3>5. Violation(c, b) = 0 /\ Score(c) <= Score(ms[top])
      <4>1. ms[top] \in L /\ Violation(ms[top], b) = 0
        BY <2>1, <2>3, <2>4
      <4>2. Violation(c, b) \in Nat
        BY <3>2, <3>3, <3>4, LevelTyped
      <4> QED BY <3>4, <4>1, <4>2
    <3>6. PICK j \in K : c = ms[j]
      BY <3>4
    <3>7. j \in E /\ j <= top
      <4>1. Enough(ms[j])
        BY <2>3, <3>5, <3>6
      <4> QED BY <2>1, <3>6, <4>1
    <3>8. ms[j].tok <= ms[top].tok /\ ms[j].tok \in Nat /\ ms[top].tok \in Nat
      BY <2>1, <3>7 DEF IsLevel
    <3>9. Score(c) = -ms[top].tok
      <4>1. Score(c) = -ms[j].tok /\ Score(ms[top]) = -ms[top].tok
        BY <2>3, <3>6
      <4> QED BY <3>5, <3>8, <4>1
    <3> QED BY <3>9 DEF c, t, b
  <2>5. top \in A /\ top \in D /\ A \in SUBSET D
    BY <1>1, <2>1
  <2>6. ScoreOf(D) = ScoreOf(A)
    <3> HIDE DEF ScoreOf, A
    <3> QED BY <2>4, <2>5
  <2> QED BY <2>2, <2>6 DEF Settles
<1> QED BY <1>2, <1>3

\* The trials of a search can be compared, whichever of them.
LEMMA SearchCompares ==
  ASSUME NEW ts, AreTrials(ts), NEW I \in SUBSET DOMAIN ts
  PROVE  Comparable(ts, I)
<1>1. IsFiniteSet(I) /\ I \in SUBSET Int
  BY BestTokTyped, LenProperties DEF AreTrials, IsSequence
<1>2. ASSUME NEW i \in OkTrials(ts, I)
      PROVE  /\ IsFiniteSet(ts[i].levels) /\ ts[i].levels # {} /\ \A m \in ts[i].levels : IsLevel(m)
             /\ ts[i].strategies \in Nat /\ ts[i].room \in Int
  <2>1. IsTrial(ts[i])
    BY DEF OkTrials, AreTrials
  <2>2. /\ ts[i].strategies \in Nat /\ ts[i].room \in Int /\ ts[i].levels = {LevelOf(ts[i])}
        /\ LevelOf(ts[i]).tok \in Nat /\ LevelOf(ts[i]).ttft \in Nat
    BY <2>1, TrialTyped
  <2>3. LevelOf(ts[i]).wait \in Int /\ LevelOf(ts[i]).joules \in 0..NoEnergy
    BY DEF LevelOf, NoEnergy
  <2> QED BY <2>2, <2>3, FS_Singleton DEF IsLevel
<1> QED BY <1>1, <1>2 DEF Comparable

-----------------------------------------------------------------------------
(* The theorems.                                                           *)

LEMMA SearchInvInit ==
  ASSUME Init
  PROVE  SearchInv
<1>1. /\ results = <<>> /\ begun = FALSE /\ retry = NoConfig /\ todo = <<>> /\ dropped = {} /\ winner = None
      /\ spent = 0 /\ count = 0 /\ stageRes = [k \in ToSet(Keys) |-> Skipped]
  BY DEF Init
<1>2. All = {}
  BY <1>1, Empty DEF All
<1>3. ~Over /\ Current.kind \in {"quant", "keep"}
  <2>1. /\ Len(Keys) \in Nat /\ Len(agenda) = Len(Keys) + 1 /\ DOMAIN agenda = 1..(Len(Keys) + 1)
        /\ \A k \in 1..Len(Keys) : agenda[k].kind = "quant"
        /\ agenda[Len(Keys) + 1].kind = "keep"
    BY AgendaInit
  <2>2. ~Over
    BY <2>1, Empty DEF Over
  <2>3. Current = agenda[1]
    BY <2>2, TypeOKInit, StagesInOrderInit, AgendaIs
  <2>4. 1 \in 1..Len(Keys) \/ 1 = Len(Keys) + 1
    BY <2>1
  <2> QED BY <2>1, <2>2, <2>3, <2>4
<1>4. TypeOKSearch /\ StagesInOrder
  BY TypeOKInit, StagesInOrderInit
<1>5. TrialsInOrder /\ TriedOnce
  BY <1>2 DEF TrialsInOrder, TriedOnce
<1>6. StageOneKept
  <2>1. \A k \in DOMAIN agenda : agenda[k].kind = "quant" => agenda[k].key \in ToSet(Keys)
    BY <1>4 DEF StagesInOrder
  <2>2. KeptKeys /\ KeptOk /\ KeptLater /\ KeptNow
    BY <1>1, <1>2, <2>1 DEF KeptKeys, KeptOk, KeptLater, KeptNow, Running
  <2> QED BY <2>2 DEF StageOneKept, KeptKeys, KeptOk, KeptLater, KeptNow
<1>7. DroppedLose
  BY <1>1 DEF DroppedLose
<1>8. PoolComplete
  BY <1>1, <1>3 DEF PoolComplete, Running
<1>9. Books
  <2>1. 0 * Shortest = 0
    BY TimesBounded
  <2> QED BY <1>1, <2>1 DEF Books
<1>10. BudgetKept
  <2> DEFINE b == set.budget
  <2>1. b \in Int /\ b >= 0
    BY <1>4, SettingsAssumption DEF TypeOKSearch
  <2>2. Longest \in Nat /\ Shortest \in Nat /\ Shortest <= Longest
    BY TimesBounded
  <2> HIDE DEF b
  <2>3. MaxOf({b, Shortest}) = IF b <= Shortest THEN Shortest ELSE b
    BY <2>1, <2>2, MaxOfTwo
  <2>4. 0 <= MaxOf({b, Shortest}) + Longest - Shortest
    BY <2>1, <2>2, <2>3
  <2> QED BY <1>1, <2>4 DEF BudgetKept, b
<1>11. SomethingWins /\ ChosenOnFreshRuns
  BY <1>3 DEF SomethingWins, ChosenOnFreshRuns
<1> QED BY <1>4, <1>5, <1>6, <1>7, <1>8, <1>9, <1>10, <1>11 DEF SearchInv

LEMMA SearchInvStep ==
  ASSUME SearchInv, [Next]_vars
  PROVE  SearchInv'
<1>1. /\ TypeOKSearch /\ StagesInOrder /\ TrialsInOrder /\ StageOneKept /\ DroppedLose /\ PoolComplete /\ Books
      /\ TriedOnce /\ BudgetKept /\ SomethingWins /\ ChosenOnFreshRuns
  BY DEF SearchInv
<1>2. TypeOKSearch' /\ StagesInOrder'
  BY <1>1, TypeOKStep, StagesInOrderStep
<1>3. TrialsInOrder' /\ StageOneKept' /\ DroppedLose'
  BY <1>1, TrialsInOrderStep, StageOneKeptStep, DroppedLoseStep
<1>4. PoolComplete' /\ Books'
  BY <1>1, PoolCompleteStep, BooksStep
<1>5. TriedOnce' /\ BudgetKept' /\ SomethingWins' /\ ChosenOnFreshRuns'
  BY <1>1, TriedOnceStep, BudgetKeptStep, EndsStep
<1> QED BY <1>2, <1>3, <1>4, <1>5 DEF SearchInv

\* The inductive invariant of the search: types, the order of the stages and of the trials, what
\* stage 1 keeps and drops, what the choice is made from, and the time spent.
THEOREM SearchIsSound == Spec => []SearchInv
<1>1. Init => SearchInv
  BY SearchInvInit
<1>2. SearchInv /\ [Next]_vars => SearchInv'
  BY SearchInvStep
<1> QED BY <1>1, <1>2, PTL DEF Spec

\* No configuration is measured twice, whatever the stages ask for and the retries have tried,
\* but to confirm it or as the baseline of the power sweep (_run, _headroom_retry).
THEOREM MeasuredOnce == Spec => []TriedOnce
<1>1. SearchInv => TriedOnce
  BY DEF SearchInv
<1> QED BY <1>1, SearchIsSound, PTL

\* The budget is passed by less than one trial, for any times of the trials (_over_budget).
THEOREM BudgetIsKept == Spec => []BudgetKept
<1>1. SearchInv => BudgetKept
  BY DEF SearchInv
<1> QED BY <1>1, SearchIsSound, PTL

\* A search that saw a trial succeed returns a winner, and otherwise none (run, stage_confirm).
THEOREM SuccessWins == Spec => []SomethingWins
<1>1. SearchInv => SomethingWins
  BY DEF SearchInv
<1> QED BY <1>1, SearchIsSound, PTL

\* When a fresh run succeeded the winner is one, or a power setting of it (stage_confirm).
THEOREM FreshRunsDecide == Spec => []ChosenOnFreshRuns
<1>1. SearchInv => ChosenOnFreshRuns
  BY DEF SearchInv
<1> QED BY <1>1, SearchIsSound, PTL

\* The backend of the best trial of stage 1 is never dropped (_losing_backends): what a rival
\* that is dropped against has within the constraint, the leader has too.
THEOREM LeaderGoesOn == Spec => []LeaderKept
<1>1. SearchInv => LeaderKept
  <2> SUFFICES ASSUME SearchInv, Best(StageTrials) # None
               PROVE  results[Best(StageTrials)].cfg.eng \notin dropped
    BY DEF LeaderKept
  <2>1. AreTrials(results) /\ StageTrials \in SUBSET All /\ DroppedLose
    BY StageTrialsTyped DEF SearchInv, TypeOKSearch
  <2>2. LosingBackends = Losers(results, StageTrials)
    BY <2>1, LosingIs
  <2>3. results[Best(StageTrials)].cfg.eng \notin Losers(results, StageTrials)
    BY <2>1, WinnerNotLosing DEF Best, All
  <2> QED BY <2>1, <2>2, <2>3 DEF DroppedLose
<1> QED BY <1>1, SearchIsSound, PTL

\* At every step of a search the winner among any of its trials is near their best.
THEOREM SearchChoosesNearBest == Spec => [](\A I \in SUBSET All : NearBest(results, I))
<1>1. SearchInv => \A I \in SUBSET All : NearBest(results, I)
  <2> SUFFICES ASSUME SearchInv, NEW I \in SUBSET All PROVE NearBest(results, I)
    OBVIOUS
  <2>1. AreTrials(results) /\ I \in SUBSET DOMAIN results
    BY DEF SearchInv, TypeOKSearch, All
  <2> QED BY <2>1, SearchCompares, WinnerIsNearBest
<1> QED BY <1>1, SearchIsSound, PTL

\* At every step of a search, ranking any of its trials lists each that succeeded once, the
\* feasible ones first ("Feasible candidates always precede infeasible ones",
\* objectives.py:246), and moves up past better ones only what competes for the first place.
THEOREM SearchRanksAll == Spec => [](\A I \in SUBSET All : RanksAll(results, I))
<1>1. SearchInv => \A I \in SUBSET All : RanksAll(results, I)
  BY RankIsAll DEF SearchInv, TypeOKSearch, All
<1> QED BY <1>1, SearchIsSound, PTL
-----------------------------------------------------------------------------
(* The lists of module Ranking: the objective of the instance Obj is the    *)
(* variable, and where it is the constant the operators are the same.      *)

LEMMA SameScore ==
  ASSUME objective = Objective
  PROVE  /\ \A m : Obj!Score(m) = Score(m) /\ Obj!Joules(m) = Joules(m)
         /\ \A m, b : Obj!Violation(m, b) = Violation(m, b)
         /\ \A m, b : Obj!Meets(m, b) <=> Meets(m, b)
<1>1. \A m : Obj!Score(m) = Score(m) /\ Obj!Joules(m) = Joules(m)
  BY DEF Obj!Score, Score, Obj!Joules, Joules, Obj!Unknown, Unknown, Obj!NoEnergy, NoEnergy
<1>2. \A m, b : Obj!Violation(m, b) = Violation(m, b)
  BY DEF Obj!Violation, Violation, Obj!MaxOf, MaxOf
<1> QED BY <1>1, <1>2 DEF Obj!Meets, Meets

LEMMA SameLevel ==
  ASSUME objective = Objective
  PROVE  /\ \A t, b : Obj!At(t, b) = At(t, b)
         /\ \A t : Obj!SummaryTok(t) = SummaryTok(t)
         /\ \A ts, J : Obj!BestTok(ts, J) = BestTok(ts, J)
         /\ \A ts, I : Obj!OkTrials(ts, I) = OkTrials(ts, I)
<1>1. \A m, n, b : Obj!LevelBefore(m, n, b) <=> LevelBefore(m, n, b)
  BY SameScore DEF Obj!LevelBefore, LevelBefore
<1>2. \A t, b : Obj!At(t, b) = At(t, b)
  BY <1>1 DEF Obj!At, At
<1>3. \A t : Obj!SummaryTok(t) = SummaryTok(t)
  BY DEF Obj!SummaryTok, SummaryTok, Obj!MaxOf, MaxOf
<1>4. \A ts, J : Obj!BestTok(ts, J) = BestTok(ts, J)
  BY <1>3 DEF Obj!BestTok, BestTok, Obj!MaxOf, MaxOf
<1> QED BY <1>2, <1>3, <1>4 DEF Obj!OkTrials, OkTrials

LEMMA SameWinner ==
  ASSUME objective = Objective, NEW ts, NEW I
  PROVE  Obj!Pick(ts, I) = Pick(ts, I)
<1>1. Obj!Scored(ts, I) = Scored(ts, I)
  <2>1. \A t, i, m, b : Obj!ScoredAt(t, i, m, b) = ScoredAt(t, i, m, b)
    BY SameScore DEF Obj!ScoredAt, ScoredAt, Obj!Meets, Meets
  <2>2. \A J, b : Obj!ScoredAgainst(ts, J, b) = ScoredAgainst(ts, J, b)
    BY <2>1, SameLevel DEF Obj!ScoredAgainst, ScoredAgainst
  <2> QED BY <2>2, SameLevel DEF Obj!Scored, Scored
<1>2. \A x, y : Obj!Before(x, y) <=> Before(x, y)
  BY DEF Obj!Before, Before
<1>3. \A S : Obj!FirstIn(S, Obj!Before) = FirstIn(S, Before)
  BY <1>2 DEF Obj!FirstIn, FirstIn
<1>4. \A lead, x : Obj!Joins(lead, x) <=> Joins(lead, x)
  BY DEF Obj!Joins, Joins, Obj!AbsOf, AbsOf, Obj!MaxOf, MaxOf
<1>5. \A S : Obj!Tied(S) = Tied(S)
  BY <1>3, <1>4 DEF Obj!Tied, Tied
<1>6. \A x, y : Obj!TieBefore(x, y) <=> TieBefore(x, y)
  BY <1>2 DEF Obj!TieBefore, TieBefore
<1>7. \A S : Obj!FirstIn(S, Obj!TieBefore) = FirstIn(S, TieBefore)
  BY <1>6 DEF Obj!FirstIn, FirstIn
<1>8. \A S : Obj!WinnerOf(S) = WinnerOf(S)
  BY <1>5, <1>7 DEF Obj!WinnerOf, WinnerOf, Obj!None, None
<1> QED BY <1>1, <1>8 DEF Obj!Pick, Pick

LEMMA SamePromises ==
  ASSUME objective = Objective, NEW ts, NEW I
  PROVE  /\ Obj!NearBest(ts, I) <=> NearBest(ts, I)
         /\ Obj!CapEarned(ts, I) <=> CapEarned(ts, I)
         /\ Obj!Settles(ts) <=> Settles(ts)
<1>1. Obj!NearBest(ts, I) <=> NearBest(ts, I)
  <2> DEFINE J == OkTrials(ts, I)
             best == BestTok(ts, J)
             feasible == {m \in UNION {ts[i].levels : i \in J} : Meets(m, best)}
             first == ts[Pick(ts, I)]
             won == At(first, best)
             Near(percent, m) == 100 * (Score(won) - Score(m)) <= percent * AbsOf(Score(m))
             Like(m) == \E i \in J : /\ ts[i].base = first.base
                                     /\ At(ts[i], best) \in feasible /\ Score(At(ts[i], best)) = Score(m)
             ObjNear(percent, m) == 100 * (Obj!Score(won) - Obj!Score(m)) <= percent * Obj!AbsOf(Obj!Score(m))
             ObjLike(m) == \E i \in J : /\ ts[i].base = first.base
                                        /\ Obj!At(ts[i], best) \in feasible /\ Obj!Score(Obj!At(ts[i], best)) = Obj!Score(m)
  <2>1. Obj!OkTrials(ts, I) = J /\ Obj!BestTok(ts, J) = best
        /\ Obj!Pick(ts, I) = Pick(ts, I) /\ Obj!At(first, best) = won
    BY SameLevel, SameWinner
  <2>2. {m \in UNION {ts[i].levels : i \in J} : Obj!Meets(m, best)} = feasible
    BY SameScore
  <2>3. \A m, p : (ObjNear(p, m) <=> Near(p, m)) /\ (ObjLike(m) <=> Like(m)) /\ Obj!Score(m) = Score(m)
    BY SameScore, SameLevel DEF Obj!AbsOf, AbsOf
  <2>4. \A S : Obj!MaxOf(S) = MaxOf(S)
    BY DEF Obj!MaxOf, MaxOf
  <2>5. Obj!NearBest(ts, I) <=>
          \A m \in feasible : (\A n \in feasible : Obj!Score(m) <= Obj!Score(n)) =>
            /\ won \in feasible
            /\ \/ ObjNear(NoisePercent, m)
               \/ ObjNear(Obj!MaxOf({PowerLossPercent, NoisePercent}), m) /\ ObjLike(m)
    <3> DEFINE Promise(ok, b, fs, w, t) ==
                 \A m \in fs : (\A n \in fs : Obj!Score(m) <= Obj!Score(n)) =>
                   /\ w \in fs
                   /\ \/ 100 * (Obj!Score(w) - Obj!Score(m)) <= NoisePercent * Obj!AbsOf(Obj!Score(m))
                      \/ /\ 100 * (Obj!Score(w) - Obj!Score(m))
                              <= Obj!MaxOf({PowerLossPercent, NoisePercent}) * Obj!AbsOf(Obj!Score(m))
                         /\ \E i \in ok : /\ ts[i].base = t.base
                                          /\ Obj!At(ts[i], b) \in fs /\ Obj!Score(Obj!At(ts[i], b)) = Obj!Score(m)
               ok == Obj!OkTrials(ts, I)
               b == Obj!BestTok(ts, ok)
               fs == {m \in UNION {ts[i].levels : i \in ok} : Obj!Meets(m, b)}
               t == ts[Obj!Pick(ts, I)]
    <3>1. Obj!NearBest(ts, I) <=> Promise(ok, b, fs, Obj!At(t, b), t)
      BY DEF Obj!NearBest
    <3>2. ok = J /\ b = best /\ t = first
      BY <2>1
    <3>3. fs = feasible
      BY <2>2, <3>2
    <3>4. Obj!At(t, b) = won
      BY <2>1, <3>2
    <3> HIDE DEF ok, b, fs, t, J, best, feasible, first, won, Promise
    <3>5. Obj!NearBest(ts, I) <=> Promise(J, best, feasible, won, first)
      BY <3>1, <3>2, <3>3, <3>4
    <3> QED BY <3>5 DEF Promise, ObjNear, ObjLike
  <2>6. NearBest(ts, I) <=>
          \A m \in feasible : (\A n \in feasible : Score(m) <= Score(n)) =>
            /\ won \in feasible
            /\ \/ Near(NoisePercent, m)
               \/ Near(MaxOf({PowerLossPercent, NoisePercent}), m) /\ Like(m)
    BY DEF NearBest
  <2> HIDE DEF feasible, won, Near, ObjNear, Like, ObjLike
  <2> QED BY <2>3, <2>4, <2>5, <2>6
<1>2. Obj!CapEarned(ts, I) <=> CapEarned(ts, I)
  BY SameScore, SameLevel, SameWinner DEF Obj!CapEarned, CapEarned, Obj!None, None, Obj!Unknown, Unknown
<1>3. Obj!Settles(ts) <=> Settles(ts)
  <2>1. \A m : Obj!Enough(m) <=> Enough(m)
    BY SameScore DEF Obj!Enough, Enough
  <2>2. Obj!MeasuredLevels(ts) = MeasuredLevels(ts)
    BY <2>1 DEF Obj!MeasuredLevels, MeasuredLevels, Obj!MaxOf, MaxOf
  <2> QED BY <2>2, SameScore, SameLevel DEF Obj!Settles, Settles
<1> QED BY <1>1, <1>2, <1>3

\* What the lists hold: trials that can be compared, and levels whose throughput rises.
RankingInv ==
  /\ objective = Objective
  /\ trials \in Seq(Trials)
  /\ levels \in Seq(Levels)
  /\ \A j, k \in DOMAIN levels : j <= k => levels[j].tok <= levels[k].tok

LEMMA NextLists ==
  ASSUME RankingInv, [NextRanking]_<<objective, trials, levels>>
  PROVE  RankingInv'
<1>1. CASE AddTrial
  <2>1. PICK t \in Trials : trials' = Append(trials, t) /\ UNCHANGED <<objective, levels>>
    BY <1>1 DEF AddTrial
  <2> QED BY <2>1 DEF RankingInv
<1>2. CASE AddLevel
  <2>1. PICK l \in Levels : /\ levels # <<>> => levels[Len(levels)].tok <= l.tok
                            /\ levels' = Append(levels, l)
                            /\ UNCHANGED <<objective, trials>>
    BY <1>2 DEF AddLevel
  <2>2. /\ levels \in Seq(Levels) /\ levels' \in Seq(Levels) /\ Len(levels) \in Nat /\ DOMAIN levels = 1..Len(levels)
        /\ DOMAIN levels' = 1..(Len(levels) + 1)
        /\ \A k \in 1..Len(levels) : levels'[k] = levels[k]
        /\ levels'[Len(levels) + 1] = l
    BY <2>1 DEF RankingInv
  <2>3. \A m \in Levels : m.tok \in Nat
    BY ListsAssumption DEF LevelType
  <2>4. ASSUME NEW j \in DOMAIN levels', NEW k \in DOMAIN levels', j <= k
        PROVE  levels'[j].tok <= levels'[k].tok
    <3>1. CASE k \in DOMAIN levels
      <4>1. j \in DOMAIN levels
        BY <2>2, <2>4, <3>1
      <4>2. levels'[j] = levels[j] /\ levels'[k] = levels[k]
        BY <2>2, <3>1, <4>1
      <4> QED BY <2>4, <3>1, <4>1, <4>2 DEF RankingInv
    <3>2. CASE k = Len(levels) + 1 /\ j = k
      BY <2>2, <2>3, <3>2
    <3>3. CASE k = Len(levels) + 1 /\ j \in DOMAIN levels
      <4>1. Len(levels) \in DOMAIN levels /\ j <= Len(levels) /\ levels # <<>>
        BY <2>2, <3>3
      <4>2. levels[j].tok <= levels[Len(levels)].tok /\ levels[Len(levels)].tok <= l.tok
        BY <2>1, <3>3, <4>1 DEF RankingInv
      <4>3. levels[j] \in Levels /\ levels[Len(levels)] \in Levels
        BY <2>2, <3>3, <4>1
      <4>4. levels'[j] = levels[j] /\ levels'[k] = l
        BY <2>2, <3>3
      <4> QED BY <2>3, <4>2, <4>3, <4>4
    <3> QED BY <2>2, <2>4, <3>1, <3>2, <3>3
  <2> QED BY <2>1, <2>2, <2>4 DEF RankingInv
<1>3. CASE UNCHANGED <<objective, trials, levels>>
  BY <1>3 DEF RankingInv
<1> QED BY <1>1, <1>2, <1>3 DEF NextRanking

LEMMA ListsGrow == SpecRanking /\ objective = Objective => []RankingInv
<1>1. InitRanking /\ objective = Objective => RankingInv
  BY DEF InitRanking, RankingInv
<1> QED BY <1>1, NextLists, PTL DEF SpecRanking

LEMMA ListsCompare ==
  ASSUME RankingInv
  PROVE  Comparable(trials, Everything) /\ PowerAside(trials, Everything)
<1>1. /\ DOMAIN trials = 1..Len(trials) /\ Len(trials) \in Nat /\ \A i \in DOMAIN trials : trials[i] \in Trials
  BY DEF RankingInv
<1>2. IsFiniteSet(Everything) /\ Everything \in SUBSET Int
  BY <1>1, FS_Interval DEF Everything
<1>3. \A m \in LevelType : IsLevel(m)
  BY DEF LevelType, IsLevel
<1>4. \A i \in OkTrials(trials, Everything) : trials[i].ok /\ trials[i] \in Trials
  BY <1>1 DEF OkTrials, Everything
<1>5. Comparable(trials, Everything)
  BY <1>2, <1>3, <1>4, ListsAssumption DEF Comparable
<1>6. PowerAside(trials, Everything)
  BY <1>4, ListsAssumption DEF PowerAside
<1> QED BY <1>5, <1>6

\* Whatever trials a list is made of and however long it grows, for any objective: pick()
\* finds a winner within the constraint if there is one, and near the best (rank, tie_break).
THEOREM ListsChooseNearBest == SpecRanking /\ objective = Objective => []WinnerNearBest
<1>1. RankingInv => WinnerNearBest
  BY ListsCompare, WinnerIsNearBest, SamePromises DEF WinnerNearBest, RankingInv
<1> QED BY <1>1, ListsGrow, PTL

\* Whatever trials a list is made of, for any objective: a capped winner is better than its
\* uncapped like or is known to use no more energy (tie_break).
THEOREM ListsEarnCaps == SpecRanking /\ objective = Objective => []CapEarnsItsPlace
<1>1. RankingInv => CapEarnsItsPlace
  BY ListsCompare, CapIsEarned, SamePromises DEF CapEarnsItsPlace, RankingInv
<1> QED BY <1>1, ListsGrow, PTL

\* Whatever levels a trial has, with throughput rising with load: stopping at the first from
\* the top that is enough changes no score (enough_level).
THEOREM ListsSettle == SpecRanking /\ objective = Objective => []EnoughSettles
<1>1. RankingInv => EnoughSettles
  <2> SUFFICES ASSUME RankingInv PROVE EnoughSettles
    OBVIOUS
  <2>1. /\ DOMAIN levels = 1..Len(levels) /\ Len(levels) \in Nat /\ \A k \in DOMAIN levels : levels[k] \in LevelType
    BY ListsAssumption DEF RankingInv
  <2>2. DOMAIN levels \in SUBSET Int /\ IsFiniteSet(DOMAIN levels)
    BY <2>1, FS_Interval
  <2>3. \A k \in DOMAIN levels : IsLevel(levels[k])
    <3>1. \A m \in LevelType : IsLevel(m)
      BY DEF LevelType, IsLevel
    <3> QED BY <2>1, <3>1
  <2>4. Settles(levels)
    BY <2>2, <2>3, EnoughIsEnough DEF RankingInv
  <2> QED BY <2>4, SamePromises DEF EnoughSettles, RankingInv
<1> QED BY <1>1, ListsGrow, PTL
=============================================================================
