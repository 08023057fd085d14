------------------------------- MODULE Search -------------------------------
(***************************************************************************)
(* The staged search: StagedSearch of polyserve/calibrate/search.py, over  *)
(* the trials of SubprocessTrialRunner.                                    *)
(*                                                                         *)
(* What run() still has to do is an agenda of tasks.  A task that measures *)
(* puts the configurations it asks for in todo; another one becomes the    *)
(* tasks it stands for when its turn comes, since what they are depends on *)
(* the trials so far.  One trial is one step, and its outcome is free but  *)
(* for the bound MaxSurprises.                                             *)
(*                                                                         *)
(* A configuration is a record (Configs): mem is the memory knob, in steps *)
(* of RETRY_GMU_STEP above MIN_RETRY_GMU, and opts are the optional        *)
(* strategies it switches on, one value for each dimension.                *)
(* The predictor and the quality probe are off, and nothing is refused.    *)
(***************************************************************************)
EXTENDS Objectives, SequencesExt

CONSTANTS
  Grid,               \* the configurations the memory planner left
  Keys,               \* their <<eng, quant>>, in the order of first appearance
  Reserving,          \* the engines that reserve GPU memory (vLLM, SGLang)
  Unfit,              \* the configurations feasible_fn rejects
  VariantStages,      \* the names of the variant stages, in their order
  Offers,             \* the dimensions each engine has a variant for
  Ladder,             \* the batch sizes of the engines
  Settings,           \* the settings of a search, one is chosen
  TopQuants, MemoryTrials, SpecBeam, ConfirmTop, MaxCombinations, ExploreMin,
  Outcomes,           \* the surprising outcomes of a trial
  MaxSurprises        \* bound: how many trials turn out surprisingly

ASSUME ObjectiveAssumption ==
  /\ Objective \in Objectives
  /\ Ceiling \in Int /\ FloorPercent \in Nat /\ PowerLossPercent \in Nat
  /\ NoisePercent \in 0..50           \* noise ties no trial with one of twice its throughput

VARIABLES
  set,                \* specFirst, budget, explore (explore_space) and power (power_points)
  agenda, begun, todo,\* the tasks, whether the first is in progress, what it still asks for
  retry,              \* the configuration of a retry in progress, or NoConfig
  results, log,       \* self.results and self._variant_log
  stageRes, dropped, chosen,
  skipped,            \* self._skipped is not empty
  spent, count,       \* the sum and the length of self._trial_seconds
  pool, winner, raised,
  surprises

tvars == <<results, spent, count, surprises>>
vars == <<set, agenda, begun, todo, retry, log, stageRes, dropped, chosen, skipped, pool, winner, raised, tvars>>

NoConfig == [eng |-> "none"]
AnySpec == "any"
Unlimited == 0        \* budget_s is None
Skipped == 0          \* in place of an index into results

KeyOf(c) == <<c.eng, c.quant>>
Base(c) == [c EXCEPT !.capped = FALSE]
SpecOf(c) == IF "spec" \in c.opts THEN "on" ELSE "off"
With(c, d) == [c EXCEPT !.opts = @ \cup {d}]

\* The optional strategies: the prefill knob, the KV cache type and speculation.
Strategies == {"prefill", "kv", "spec"}

\* Config of models.py: the fields the stages change.
Configs ==
  [eng : DOMAIN Offers, quant : STRING, ctx : Nat, mem : Nat, batch : Nat, opts : SUBSET Strategies,
   capped : BOOLEAN]

Fits(c) == c \in Configs /\ c \notin Unfit

\* The planner's grid differs in nothing but these settings, and its keys are told apart.
ASSUME GridAssumption ==
  /\ Grid \subseteq Configs /\ IsFiniteSet(Grid)
  /\ \A c, d \in Grid : c.eng = d.eng /\ c.quant = d.quant /\ c.ctx = d.ctx /\ c.mem = d.mem /\ c.batch = d.batch => c = d
  /\ Keys \in Seq({<<c.eng, c.quant>> : c \in Grid})
  /\ \A j, k \in DOMAIN Keys : Keys[j] = Keys[k] => j = k

ASSUME SettingsAssumption ==
  /\ \A e \in DOMAIN Offers : Offers[e] \subseteq Strategies
  /\ VariantStages \in Seq(Strategies)
  /\ \A s \in Settings : /\ s \in [specFirst : BOOLEAN, budget : Nat, explore : SUBSET Configs, power : BOOLEAN]
                         /\ IsFiniteSet(s.explore)
  /\ TopQuants \in Nat \ {0} /\ MemoryTrials \in Nat /\ SpecBeam \in Nat /\ ConfirmTop \in Nat
  /\ MaxCombinations \in Nat /\ ExploreMin \in Nat

\* A trial that succeeded was launched.
ASSUME OutcomesAssumption ==
  /\ IsFiniteSet(Outcomes)
  /\ \A o \in Outcomes : /\ o \in [ok : BOOLEAN, launched : BOOLEAN, oom : BOOLEAN, tok : Nat, ttft : Nat, time : Nat]
                         /\ o.ok => o.launched
  /\ MaxSurprises \in Nat

\* The elements of a sequence at some of its positions, in their order.
Ascending(K) == SortedBy(K, LAMBDA k, l : k < l)
Picked(s, K) == [j \in 1..Cardinality(K) |-> s[Ascending(K)[j]]]
Those(s, Test(_)) == Picked(s, {k \in DOMAIN s : Test(s[k])})

\* The variants a stage has for a configuration: the dimension switched on.  The stage "kv"
\* also takes the batch step that only the smaller cache makes room for.
Variants(d, c) ==
  LET bigger == {b \in Ladder : b > c.batch}
      step == [c EXCEPT !.batch = CHOOSE b \in bigger : \A x \in bigger : b <= x]
  IN IF d \notin Offers[c.eng] \/ d \in c.opts THEN <<>>
     ELSE IF d # "kv" THEN <<With(c, d)>>
     ELSE Those(<<With(c, d)>>, Fits)
            \o (IF bigger # {} /\ ~Fits(step) THEN Those(<<With(step, d)>>, Fits) ELSE <<>>)

-----------------------------------------------------------------------------
(* Results, with what the objectives read of them.                         *)

Typical == [ok |-> TRUE, launched |-> TRUE, oom |-> FALSE, tok |-> 20, ttft |-> 1, time |-> 2]

Room(c) == 100 * c.ctx + 10 * c.batch + c.mem

Result(c, stage, out) ==
  [cfg |-> c, stage |-> stage, out |-> out, ok |-> out.ok, base |-> Base(c), strategies |-> Cardinality(c.opts),
   room |-> Room(c),
   levels |-> {[tok |-> out.tok, ttft |-> out.ttft, wait |-> 1, joules |-> IF c.capped THEN 7 ELSE 9]}]

All == DOMAIN results
Best(I) == Pick(results, I)
Ranked(I) == Rank(results, I)

\* Whether a record of rank() is within a band, in percent, of another.
Within(x, lead, band) == 100 * (x.score - lead.score) <= band * AbsOf(lead.score)

ConfigOf(x) == results[x.i].cfg
OfEngine(e) == {i \in All : results[i].cfg.eng = e}

\* _leader(): the best trial, of an engine, with a speculation setting.
Leader(e, spec) == Best({i \in OfEngine(e) : spec = AnySpec \/ SpecOf(results[i].cfg) = spec})

\* _done: the trial a configuration is remembered by.  Confirmation does not add to it.
DoneFor_OnlyOk(c) == {i \in All : results[i].cfg = c /\ results[i].stage # "confirm" /\ results[i].ok}
DoneFor(c) == {i \in All : results[i].cfg = c /\ results[i].stage # "confirm"}
Done(c) == DoneFor(c) # {}
Memo(c) == CHOOSE i \in DoneFor(c) : \A j \in DoneFor(c) : i <= j

-----------------------------------------------------------------------------
(* What the measuring tasks ask for.                                       *)

ForEach(seq, F(_)) == [k \in DOMAIN seq |-> F(seq[k])]
FirstOf(s, n) == SubSeq(s, 1, IF Len(s) < n THEN Len(s) ELSE n)
\* A sequence without what it repeats.
Once(s) == Picked(s, {k \in DOMAIN s : \A j \in DOMAIN s : j < k => s[j] # s[k]})
Ahead(s, x, y) == \E j, k \in DOMAIN s : j < k /\ s[j] = x /\ s[k] = y
Median(S) == Ascending(S)[(Cardinality(S) \div 2) + 1]
Group(key) == {c \in Grid : KeyOf(c) = key}
MoreMemory(c, d) == c.mem > d.mem \/ (c.mem = d.mem /\ c.ctx > d.ctx)

\* _baseline_candidates(): the median context and batch, or the batch nearest to it.
BaselineCandidates(key) ==
  LET group == Group(key)
      ctx == Median({c.ctx : c \in group})
      batch == Median({c.batch : c \in group})
      atCtx == {c \in group : c.ctx = ctx}
      Nearer(b, d) == \/ AbsOf(b - batch) < AbsOf(d - batch)
                      \/ AbsOf(b - batch) = AbsOf(d - batch) /\ b < d
      nearest == CHOOSE b \in {c.batch : c \in atCtx} : \A d \in {c.batch : c \in atCtx} \ {b} : Nearer(b, d)
  IN SortedBy({c \in atCtx : c.batch = nearest}, MoreMemory)

OkOf(key) == {i \in All : results[i].ok /\ KeyOf(results[i].cfg) = key}

\* stage_memory(): the largest settings at the batch of the first trial that worked.
MemoryCandidates(key) ==
  LET ok == OkOf(key)
      base == IF ok = {} THEN BaselineCandidates(key)[1]
                         ELSE results[CHOOSE i \in ok : \A j \in ok : i <= j].cfg
  IN FirstOf(SortedBy({c \in Group(key) : c.batch = base.batch}, MoreMemory), MemoryTrials)

BatchCandidates(key) ==
  SortedBy({c \in Group(key) : c.ctx = chosen[key].ctx /\ c.mem = chosen[key].mem}, LAMBDA c, d : c.batch < d.batch)

NoGain == -1000       \* in place of a gain

GainAmong(scored, i, j) ==
  LET ScoreOf(k) == (CHOOSE x \in scored : x.i = k).score
  IN IF \E x \in scored : x.i = j /\ x.feasible
       THEN (100 * (ScoreOf(i) - ScoreOf(j))) \div AbsOf(ScoreOf(i))
       ELSE NoGain

\* _relative_gain(): by how many percent of what it was measured against a variant is
\* better, when both were measured and the variant meets the constraint.
RelativeGain(ref, var) ==
  IF Done(ref) /\ Done(var) /\ results[Memo(ref)].ok /\ results[Memo(var)].ok
    THEN GainAmong(Scored(results, {Memo(ref), Memo(var)}), Memo(ref), Memo(var))
    ELSE NoGain

LogGains == [k \in DOMAIN log |-> RelativeGain(log[k].ref, log[k].var)]

\* A leader with each change since base undone, and with the batch and the KV cache undone
\* together.
EachUndone(lead, base) ==
  LET Undo(d) == [lead EXCEPT !.opts = (@ \ {d}) \cup (base.opts \cap {d})]
      changed == Those(<<"prefill", "kv", "spec">>, LAMBDA d : (d \in lead.opts) # (d \in base.opts))
      Batch(c) == IF lead.batch # base.batch THEN <<[c EXCEPT !.batch = base.batch]>> ELSE <<>>
  IN Batch(lead) \o ForEach(changed, Undo)
       \o (IF Contains(changed, "kv") THEN Batch(Undo("kv")) ELSE <<>>)

\* _leader_without_each().
LeaderWithoutEach(base, spec) ==
  LET i == Leader(base.eng, spec)
  IN IF i = None THEN <<>> ELSE EachUndone(results[i].cfg, base)

Delta(l) == [opts |-> l.var.opts \ l.ref.opts, batch |-> l.var.batch, steps |-> l.var.batch # l.ref.batch]
Apply(c, d) == [c EXCEPT !.opts = @ \cup d.opts, !.batch = IF d.steps THEN d.batch ELSE @]

\* Of two changes of one dimension the one that gained more, or the earlier.
Better(gain, j, k) ==
  /\ log[j].dim = log[k].dim
  /\ \/ gain[j] > gain[k]
     \/ gain[j] = gain[k] /\ j < k

\* The log entries whose change came within combine_band: one for each change, and the best
\* two of each dimension.
CombineBand == 5

Promising(gain, e, spec) ==
  LET near == {k \in DOMAIN log :
                 /\ log[k].ref.eng = e
                 /\ gain[k] >= -CombineBand
                 /\ log[k].dim = "spec" => spec = AnySpec}
      once == {k \in near : ~\E j \in near : j < k /\ log[j].dim = log[k].dim /\ Delta(log[j]) = Delta(log[k])}
  IN {k \in once : Cardinality({j \in once : Better(gain, j, k)}) < 2}

\* The order of itertools.product over the dimensions: none, the best change, the next.
ProductOrder(gain, changes, D, E) ==
  LET diff == (D \ E) \cup (E \ D)
      Since(k) == CHOOSE j \in changes : log[j].dim = log[k].dim /\ \A i \in changes : log[i].dim = log[k].dim => j <= i
      m == CHOOSE k \in diff : \A j \in diff \ {k} : Since(k) < Since(j) \/ Better(gain, k, j)
      both == \E j \in diff \ {m} : log[j].dim = log[m].dim
  IN m \in D <=> both

\* The combinations of some changes, at most one of a dimension, best estimated first.
Combos(gain, changes, base) ==
  LET combos == {D \in (SUBSET changes) \ {{}} : \A j, k \in D : log[j].dim = log[k].dim => j = k}
      Estimate(D) == MapThenSumSet(LAMBDA k : gain[k], D)
      Config(D) == FoldSet(LAMBDA k, c : Apply(c, Delta(log[k])), base, D)
      Sooner(D, E) == \/ Estimate(D) > Estimate(E)
                      \/ Estimate(D) = Estimate(E) /\ ProductOrder(gain, changes, D, E)
  IN ForEach(SortedBy(combos, Sooner), Config)

PromisingCombos(gain, base, spec) == Combos(gain, Promising(gain, base.eng, spec), base)

\* stage_combinations(): the leader with each change undone, then the combinations of the
\* promising changes, up to a limit in all.
Combinations(base, spec, limit) ==
  LET New(c) == ~Done(c) /\ Fits(c)
  IN FirstOf(Once(Those(LeaderWithoutEach(base, spec) \o PromisingCombos(LogGains, base, spec), New)), limit)

\* stage_confirm(): the configurations within confirm_band of the best, or the first of all.
ConfirmBand == 10

ShortlistOf(r) ==
  LET feasible == {x \in ToSet(r) : x.feasible}
      list == IF feasible = {} THEN FirstOf(r, 1)
              ELSE Those(r, LAMBDA x : x.feasible /\ \A y \in feasible : Within(x, y, ConfirmBand))
  IN FirstOf(Once(ForEach(list, ConfigOf)), ConfirmTop)

Shortlist == ShortlistOf(Ranked(All))

-----------------------------------------------------------------------------
(* Which engines and precisions go on.                                     *)

StageTrials == {stageRes[k] : k \in DOMAIN stageRes} \ {Skipped}

\* The best raw throughput of an engine in stage 1.
BestRaw(e) == MaxOf({0} \cup {SummaryTok(results[i]) : i \in OkTrials(results, StageTrials) \cap OfEngine(e)})

\* A backend whose rivals are not held to the constraint: a fast one that breaks it leads.
LosingBackends_AnyLeader ==
  LET scored == Scored(results, StageTrials)
  IN {e \in {ConfigOf(x).eng : x \in scored} :
        \E x \in scored : ConfigOf(x).eng # e /\ 100 * BestRaw(e) < 50 * (-x.score)}

\* _losing_backends(): those whose raw throughput is under drop_backend_below of what a
\* rival reached within the constraint.
LosingBackends ==
  LET scored == Scored(results, StageTrials)
  IN {e \in {ConfigOf(x).eng : x \in scored} :
        /\ Objective \in {"throughput", "balanced"}
        /\ \E x \in scored : x.feasible /\ ConfigOf(x).eng # e /\ 100 * BestRaw(e) < 50 * (-x.score)}

\* The precisions that go on from stage 1, best first.
Kept ==
  LET r == Those(Ranked(StageTrials), LAMBDA x : ConfigOf(x).eng \notin dropped)
  IN FirstOf(ForEach(r, LAMBDA x : KeyOf(ConfigOf(x))), TopQuants)

OffersMore(c, lead) ==
  \E d \in ToSet(VariantStages) : Variants(d, c) # <<>> /\ Variants(d, lead) = <<>>

OfferCount(c) == Cardinality({d \in ToSet(VariantStages) : Variants(d, c) # <<>>})

\* _contenders(): the leader, then the best of every other engine that is close to it or has
\* something to try that the leader's engine has not.
ContenderBand == 10

ContendersAmong(r) ==
  LET BestOfEngine(x) == \A y \in ToSet(r) : ConfigOf(y).eng = ConfigOf(x).eng => x = y \/ Ahead(r, x, y)
      Contends(x) ==
        \/ x = r[1]
        \/ /\ BestOfEngine(x)
           /\ r[1].feasible /\ x.feasible
           /\ Within(x, r[1], ContenderBand) \/ OffersMore(ConfigOf(x), ConfigOf(r[1]))
  IN ForEach(Those(r, Contends), ConfigOf)

Contenders == ContendersAmong(Ranked(All))

\* Those that offer more go first.
ByOffers(cs) ==
  LET Sooner(i, j) == \/ OfferCount(cs[i]) > OfferCount(cs[j])
                      \/ OfferCount(cs[i]) = OfferCount(cs[j]) /\ i < j
  IN ForEach(SortedBy(DOMAIN cs, Sooner), LAMBDA i : cs[i])

\* _outpaced(): another engine, tuned before, leads this one clearly and has all it has.
OutpacedAmong(r, base) ==
  LET mine == Those(r, LAMBDA x : ConfigOf(x).eng = base.eng)
      lead == OfEngine(ConfigOf(r[1]).eng)
      first == CHOOSE i \in lead : \A j \in lead : i <= j
  IN /\ mine # <<>>
     /\ ConfigOf(r[1]).eng # base.eng
     /\ r[1].feasible /\ mine[1].feasible
     /\ ~Within(mine[1], r[1], ContenderBand)
     /\ ~OffersMore(ConfigOf(mine[1]), results[first].cfg)

Outpaced(base) == OutpacedAmong(Ranked(All), base)

\* _spec_settings(): the best speculation settings of an engine, best first.
SpecSettings(e) ==
  LET r == Ranked(OfEngine(e))
  IN FirstOf(Once(ForEach(r, LAMBDA x : SpecOf(ConfigOf(x)))), SpecBeam)

-----------------------------------------------------------------------------
(* Tasks.                                                                  *)

OnKey(kind, key) == [kind |-> kind, key |-> key]
OnBase(kind, base) == [kind |-> kind, base |-> base]
VariantsTask(dim, e, spec) == [kind |-> "variants", dim |-> dim, eng |-> e, spec |-> spec]
CombineTask(base, spec, limit) == [kind |-> "combine", base |-> base, spec |-> spec, limit |-> limit]
StartTask(e, spec, limit) == [kind |-> "start", eng |-> e, spec |-> spec, limit |-> limit]
Simple(kind) == [kind |-> kind]

VariantTasks(names, e, spec) == ForEach(names, LAMBDA d : VariantsTask(d, e, spec))

\* run() after stage_quant.
AfterQuant ==
  IF Kept = <<>> THEN <<>>
  ELSE (IF set.budget = Unlimited THEN <<>> ELSE <<Simple("early")>>)
         \o ForEach(Kept, LAMBDA k : OnKey("memory", k))
         \o ForEach(Kept, LAMBDA k : OnKey("batch", k))
         \o <<Simple("contenders"), Simple("explore"), Simple("confirm"), Simple("power"), Simple("pick")>>

\* _tune(): the stages of one engine, unless it is outpaced by now.
Tune(base) ==
  IF Outpaced(base) THEN <<>>
  ELSE IF set.specFirst /\ Contains(VariantStages, "spec")
    THEN <<VariantsTask("spec", base.eng, AnySpec), OnBase("beam", base)>>
    ELSE <<OnBase("prefill", base)>> \o VariantTasks(VariantStages, base.eng, AnySpec)
           \o <<CombineTask(base, AnySpec, MaxCombinations)>>

\* The rest of _tune() with speculation first, once for each of the best settings.
Beam(base) ==
  LET specs == SpecSettings(base.eng)
      limit == MaxOf({2, MaxCombinations \div MaxOf({1, Len(specs)})})
  IN ForEach(specs, LAMBDA s : StartTask(base.eng, s, limit))

StartSpec(t) ==
  LET i == Leader(t.eng, t.spec)
      start == results[i].cfg
  IN IF i = None THEN <<>>
     ELSE <<OnBase("prefill", start)>>
            \o VariantTasks(Those(VariantStages, LAMBDA d : d # "spec"), t.eng, t.spec)
            \o <<CombineTask(start, t.spec, t.limit)>>

Control == {"keep", "early", "stages", "contenders", "tune", "beam", "start"}

\* The tasks a control task stands for.
Expand(t) ==
  CASE t.kind = "keep" -> AfterQuant
    [] t.kind = "early" -> ForEach(Contenders, LAMBDA c : OnBase("stages", c))
    [] t.kind = "stages" -> VariantTasks(VariantStages, t.base.eng, AnySpec)
    [] t.kind = "contenders" -> ForEach(ByOffers(Contenders), LAMBDA c : OnBase("tune", c))
    [] t.kind = "tune" -> Tune(t.base)
    [] t.kind = "beam" -> Beam(t.base)
    [] t.kind = "start" -> StartSpec(t)

\* What a variants or a prefill task measures its variants against.
Reference(t) == IF t.kind = "prefill" THEN t.base ELSE results[Leader(t.eng, t.spec)].cfg

\* The power setting is measured on the winner so far, without any and capped.
PowerSweep ==
  LET i == Best(pool)
      base == Base(results[i].cfg)
  IN IF set.power /\ i # None THEN <<base, [base EXCEPT !.capped = TRUE]>> ELSE <<>>

\* The configurations a measuring task asks for.
Plan(t) ==
  CASE t.kind = "quant" -> IF t.key[1] \in dropped THEN <<>> ELSE FirstOf(BaselineCandidates(t.key), MemoryTrials)
    [] t.kind = "memory" -> MemoryCandidates(t.key)
    [] t.kind = "batch" -> BatchCandidates(t.key)
    [] t.kind = "prefill" -> Those(Variants("prefill", t.base), Fits)
    [] t.kind = "variants" -> IF Leader(t.eng, t.spec) = None THEN <<>> ELSE Variants(t.dim, Reference(t))
    [] t.kind = "combine" -> Combinations(t.base, t.spec, t.limit)
    [] t.kind = "confirm" -> Shortlist
    [] t.kind = "power" -> PowerSweep

Init ==
  /\ set \in Settings
  /\ agenda = ForEach(Keys, LAMBDA k : OnKey("quant", k)) \o <<Simple("keep")>>
  /\ begun = FALSE
  /\ todo = <<>>
  /\ retry = NoConfig
  /\ results = <<>>
  /\ log = <<>>
  /\ stageRes = [k \in ToSet(Keys) |-> Skipped]
  /\ dropped = {}
  /\ chosen = [k \in ToSet(Keys) |-> NoConfig]
  /\ skipped = FALSE
  /\ spent = 0
  /\ count = 0
  /\ pool = {}
  /\ winner = None
  /\ raised = FALSE
  /\ surprises = 0

Over == agenda = <<>>
Current == Head(agenda)
Running(kind) == begun /\ Current.kind = kind

-----------------------------------------------------------------------------
(* Tasks begin, expand and end.                                            *)

\* When nothing survived stage 1 the search returns without a winner.
ExpandTask ==
  /\ ~Over /\ Current.kind \in Control
  /\ agenda' = Expand(Current) \o Tail(agenda)
  /\ UNCHANGED <<set, begun, todo, retry, log, stageRes, dropped, chosen, skipped, pool, winner, raised, tvars>>

\* The variants are logged when they are asked for; only stage_combinations reads the log.
BeginTask ==
  /\ ~Over /\ ~begun /\ Current.kind \notin Control \cup {"explore", "pick"}
  /\ begun' = TRUE
  /\ todo' = Plan(Current)
  /\ log' = IF Current.kind \in {"prefill", "variants"}
              THEN log \o ForEach(todo', LAMBDA c : [dim |-> IF Current.kind = "prefill" THEN "prefill" ELSE Current.dim,
                                                     ref |-> Reference(Current), var |-> c])
              ELSE log
  /\ pool' = IF Current.kind = "confirm" THEN All ELSE pool
  /\ UNCHANGED <<set, agenda, retry, stageRes, dropped, chosen, skipped, winner, raised, tvars>>

\* stage_explore(): a random sample of what the leader's precision leaves untried.
BeginExplore ==
  /\ ~Over /\ ~begun /\ Current.kind = "explore"
  /\ begun' = TRUE
  /\ LET lead == results[Best(All)].cfg
         free == {c \in set.explore : KeyOf(c) = KeyOf(lead) /\ ~Done(c)}
         n == MaxOf({ExploreMin, (3 * Len(results) + 9) \div 10})
     IN IF Best(All) = None THEN todo' = <<>>
        ELSE \E s \in SetToSeqs(free) : todo' = FirstOf(s, n)
  /\ UNCHANGED <<set, agenda, retry, log, stageRes, dropped, chosen, skipped, pool, winner, raised, tvars>>

\* The choice between the fresh runs and every other trial.
Confirmed_AddsTo(fresh) == pool \cup fresh

\* The choice on nothing when no fresh run succeeded.
Confirmed_OnlyFresh(fresh) == fresh

\* What stage_confirm() leaves to choose from.
Confirmed(fresh) == IF fresh = {} THEN pool ELSE fresh

EndTask ==
  /\ begun /\ todo = <<>>
  /\ begun' = FALSE
  /\ agenda' = Tail(agenda)
  /\ dropped' = IF Current.kind = "quant" THEN dropped \cup LosingBackends ELSE dropped
  /\ chosen' = IF Current.kind = "memory" /\ chosen[Current.key] = NoConfig
                 THEN LET ok == OkOf(Current.key)
                      IN [chosen EXCEPT ![Current.key] = results[CHOOSE i \in ok : \A j \in ok : i <= j].cfg]
                 ELSE chosen
  /\ pool' = LET fresh == {i \in All : results[i].stage = "confirm" /\ results[i].ok}
             IN CASE Current.kind = "confirm" -> Confirmed(fresh)
                  [] Current.kind = "power" -> pool \cup {i \in All : results[i].stage = "power"}
                  [] OTHER -> pool
  /\ UNCHANGED <<set, todo, retry, log, stageRes, skipped, winner, raised, tvars>>

PickWinner ==
  /\ ~Over /\ Current.kind = "pick"
  /\ winner' = Best(pool)
  /\ agenda' = <<>>
  /\ UNCHANGED <<set, begun, todo, retry, log, stageRes, dropped, chosen, skipped, pool, raised, tvars>>

-----------------------------------------------------------------------------
(* One trial.                                                              *)

\* The time spent so far, without the trial about to start.
OverBudget_SpentOnly == set.budget # Unlimited /\ count > 0 /\ spent > set.budget

\* _over_budget(): whether a typical trial would end past the budget.
OverBudget == set.budget # Unlimited /\ count > 0 /\ spent * count + spent > set.budget * count

\* The configuration to run now.
Asked == IF retry = NoConfig THEN Head(todo) ELSE retry

\* What every trial adds.  Only _run() and _remeasure() are timed.
Record(out, timed) ==
  /\ results' = Append(results, Result(Asked, Current.kind, out))
  /\ spent' = spent + (IF timed THEN out.time ELSE 0)
  /\ count' = count + (IF timed THEN 1 ELSE 0)
  /\ surprises' = surprises + (IF out = Typical THEN 0 ELSE 1)

AnyOutcome == {Typical} \cup (IF surprises < MaxSurprises THEN Outcomes ELSE {})

\* The stage goes on with the answer of _run(): trial i, or none for want of budget.
Answer(i) ==
  LET ok == i # Skipped /\ results'[i].ok
      launched == i # Skipped /\ results'[i].out.launched
  IN /\ retry' = NoConfig
     /\ stageRes' = IF Running("quant") THEN [stageRes EXCEPT ![Current.key] = i] ELSE stageRes
     /\ chosen' = IF Running("memory") /\ ok THEN [chosen EXCEPT ![Current.key] = Head(todo)] ELSE chosen
     /\ todo' = IF (Running("quant") /\ launched) \/ (Running("memory") /\ ok) THEN <<>> ELSE Tail(todo)

Asking == begun /\ todo # <<>> /\ Current.kind \notin {"confirm", "power"}

\* _run() of a configuration that has been tried.
Recall ==
  /\ Asking /\ Done(Asked)
  /\ UNCHANGED tvars
  /\ Answer(Memo(Asked))
  /\ UNCHANGED <<set, agenda, begun, log, dropped, skipped, pool, winner, raised>>

SkipTrial ==
  /\ Asking /\ ~Done(Asked) /\ OverBudget
  /\ skipped' = TRUE
  /\ UNCHANGED tvars
  /\ Answer(Skipped)
  /\ UNCHANGED <<set, agenda, begun, log, dropped, pool, winner, raised>>

\* _headroom_retry(): less memory after an engine that reserves it ran out of it at start-up.
Less(c) == [c EXCEPT !.mem = @ - 1]

Retriable(c, out) ==
  /\ out.oom /\ ~out.launched
  /\ c.eng \in Reserving
  /\ c.mem > 0
  /\ ~Done(Less(c)) /\ Fits(Less(c))

Measure ==
  /\ Asking /\ ~Done(Asked) /\ ~OverBudget
  /\ \E out \in AnyOutcome :
       /\ Record(out, TRUE)
       /\ IF Retriable(Asked, out)
            THEN retry' = Less(Asked) /\ UNCHANGED <<stageRes, chosen, todo>>
            ELSE Answer(Len(results) + 1)
  /\ UNCHANGED <<set, agenda, begun, log, dropped, skipped, pool, winner, raised>>

\* _remeasure(): a fresh trial, or the end of the stage for want of budget.
Remeasure ==
  /\ Running("confirm") /\ todo # <<>>
  /\ IF OverBudget
       THEN /\ skipped' = TRUE
            /\ todo' = <<>>
            /\ UNCHANGED tvars
       ELSE /\ \E out \in AnyOutcome : Record(out, TRUE)
            /\ todo' = Tail(todo)
            /\ UNCHANGED skipped
  /\ UNCHANGED <<set, agenda, begun, retry, log, stageRes, dropped, chosen, pool, winner, raised>>

\* sweep(): one power setting on the engine that runs.
SweepOne ==
  /\ Running("power") /\ todo # <<>>
  /\ \E out \in {o \in AnyOutcome : o.launched} : Record(out, FALSE)
  /\ todo' = Tail(todo)
  /\ UNCHANGED <<set, agenda, begun, retry, log, stageRes, dropped, chosen, skipped, pool, winner, raised>>

\* The engine of the sweep does not start: every setting has failed.
SweepNotStarted ==
  /\ Running("power") /\ Len(todo) = 2 /\ surprises < MaxSurprises
  /\ \E out \in {o \in Outcomes : ~o.launched} :
       results' = results \o <<Result(todo[1], "power", out), Result(todo[2], "power", out)>>
  /\ todo' = <<>>
  /\ surprises' = surprises + 1
  /\ UNCHANGED <<set, agenda, begun, retry, log, stageRes, dropped, chosen, skipped, spent, count, pool, winner, raised>>

\* An exception of launch() or of the power control leaves the search.
SweepRaises ==
  /\ Running("power") /\ todo # <<>> /\ surprises < MaxSurprises
  /\ raised' = TRUE
  /\ agenda' = <<>>
  /\ begun' = FALSE
  /\ todo' = <<>>
  /\ UNCHANGED <<set, retry, log, stageRes, dropped, chosen, skipped, pool, winner, tvars>>

\* The search has returned or raised.
Finished ==
  /\ Over
  /\ UNCHANGED vars

Next ==
  \/ ExpandTask \/ BeginTask \/ BeginExplore \/ EndTask \/ PickWinner
  \/ Recall \/ SkipTrial \/ Measure \/ Remeasure
  \/ SweepOne \/ SweepNotStarted \/ SweepRaises
  \/ Finished

Spec == Init /\ [][Next]_vars

-----------------------------------------------------------------------------
(* Properties.                                                             *)

\* No configuration is measured twice but to confirm it or as the baseline of the power
\* sweep, whatever stages ask for it and whatever a retry has tried (_run, _headroom_retry).
TriedOnce ==
  \A i, j \in All : i < j /\ results[i].cfg = results[j].cfg => results[j].stage \in {"confirm", "power"}

\* A search that ends has a winner exactly when some trial succeeded: neither the drop of
\* backends, nor the budget, nor a failed confirmation leaves it without one.
SomethingWins ==
  Over /\ ~raised => (winner # None <=> \E i \in All : results[i].ok)

\* The backend of the best trial of stage 1 goes on: what breaks the constraint, however
\* fast, drops no backend that meets it (search.py:475).
LeaderKept ==
  ~Over /\ Current.kind = "keep" /\ Best(StageTrials) # None =>
    results[Best(StageTrials)].cfg.eng \notin dropped

\* The longest and the shortest trial.
Times == {o.time : o \in Outcomes \cup {Typical}}
Longest == MaxOf(Times)
Shortest == CHOOSE x \in Times : \A y \in Times : x <= y

\* The time spent on trials passes the budget by no more than the longest trial takes longer
\* than the shortest, a budget below one trial counting as one.
BudgetKept ==
  set.budget # Unlimited => spent <= MaxOf({set.budget, Shortest}) + Longest - Shortest

\* "choose on those runs alone" (search.py:337): when a fresh run succeeded, the winner is
\* a fresh run, or a power setting of the sweep that followed.
ChosenOnFreshRuns ==
  Over /\ ~raised /\ (\E i \in All : results[i].stage = "confirm" /\ results[i].ok) =>
    results[winner].stage \in {"confirm", "power"}

\* "A dropped backend does not go on to the later stages either" (search.py:541).
DroppedNotTuned ==
  \A i \in All : results[i].stage \notin {"quant", "confirm", "power"} => results[i].cfg.eng \notin dropped
-----------------------------------------------------------------------------
(* The inductive invariant.                                                *)

Middle == {"early", "stages", "contenders", "tune", "beam", "start",
           "memory", "batch", "prefill", "variants", "combine", "explore"}
Kinds == Middle \cup {"quant", "keep", "confirm", "power", "pick"}
Measuring == Kinds \ (Control \cup {"pick"})

IsSequence(s) == s \in Seq(ToSet(s))

IsTrial(t) ==
  /\ t.cfg \in Configs /\ t.stage \in Measuring /\ t.out \in Outcomes \cup {Typical}
  /\ t = Result(t.cfg, t.stage, t.out)
AreTrials(ts) == IsSequence(ts) /\ \A i \in DOMAIN ts : IsTrial(ts[i])

IsTask(t) == t.kind \in Kinds /\ (t.kind \in {"combine", "start"} => t.limit \in Nat)

\* Types, and what indexes the results.
TypeOKSearch ==
  /\ set \in Settings
  /\ begun \in BOOLEAN /\ skipped \in BOOLEAN /\ raised \in BOOLEAN
  /\ IsSequence(agenda) /\ \A k \in DOMAIN agenda : IsTask(agenda[k])
  /\ todo \in Seq(Configs) /\ (todo # <<>> => begun)
  /\ retry \in Configs \cup {NoConfig}
  /\ IsSequence(log) /\ AreTrials(results)
  /\ stageRes \in [ToSet(Keys) -> All \cup {Skipped}]
  /\ pool \subseteq All
  /\ spent \in Nat /\ count \in Nat /\ surprises \in Nat

\* The kinds of tasks that may still come after one.
MayFollow(kind) ==
  CASE kind = "quant" -> {"quant", "keep"}
    [] kind \in Middle -> Kinds \ {"quant", "keep"}
    [] kind = "confirm" -> {"power", "pick"}
    [] kind = "power" -> {"pick"}
    [] kind \in {"keep", "pick"} -> {}

\* The stages come in their order, the choice after the confirmation and the power sweep; no
\* key is measured in stage 1 twice.
StagesInOrder ==
  /\ \A j, k \in DOMAIN agenda : j < k => agenda[k].kind \in MayFollow(agenda[j].kind)
  /\ ~Over => agenda[Len(agenda)].kind \in {"keep", "pick"}
  /\ \A k \in 1..(Len(agenda) - 1) :
       /\ agenda[k + 1].kind = "power" => agenda[k].kind = "confirm"
       /\ agenda[k + 1].kind = "pick" => agenda[k].kind = "power"
  /\ begun => ~Over /\ Current.kind \in Measuring
  /\ \A k \in DOMAIN agenda : agenda[k].kind = "quant" =>
       /\ agenda[k].key \in ToSet(Keys)
       /\ \A j \in 1..(k - 1) : agenda[j].key # agenda[k].key

InStageOne == ~Over /\ agenda[Len(agenda)].kind = "keep"

\* Stage 1 has the engine to itself, and so have the confirmation and the power sweep at the end.
TrialsInOrder ==
  /\ InStageOne => \A i \in All : results[i].stage = "quant"
  /\ \A i \in All, k \in DOMAIN agenda : results[i].stage \in {"confirm", "power"} =>
       agenda[k].kind = results[i].stage \/ agenda[k].kind \in MayFollow(results[i].stage)

\* Stage 1 keeps one trial of each key, of that key; it is the one that succeeded, if one did,
\* and the next candidate is tried only while none was launched.
StageOneKept ==
  /\ \A key \in DOMAIN stageRes : stageRes[key] # Skipped => KeyOf(results[stageRes[key]].cfg) = key
  /\ \A i \in All : results[i].stage = "quant" /\ results[i].ok => i \in StageTrials
  /\ \A k \in DOMAIN agenda : agenda[k].kind = "quant" /\ (k > 1 \/ ~begun) => stageRes[agenda[k].key] = Skipped
  /\ Running("quant") /\ todo # <<>> =>
       /\ stageRes[Current.key] # Skipped => ~results[stageRes[Current.key]].out.launched
       /\ todo \in Seq(Group(Current.key))
       /\ retry # NoConfig => KeyOf(retry) = Current.key
       /\ Current.key[1] \notin dropped

\* A backend that was dropped in stage 1 is one that would still be dropped.
DroppedLose == dropped \subseteq LosingBackends

\* What the choice is made from: all that succeeded, until fresh runs take their place.
PoolComplete ==
  /\ Running("confirm") => \A i \in All : results[i].stage # "confirm" => i \in pool
  /\ ~Over /\ Current.kind \in {"power", "pick"} =>
       /\ (\E i \in All : results[i].ok /\ (results[i].stage = "power" => Current.kind = "pick")) => \E i \in pool : results[i].ok
       /\ (\E i \in All : results[i].ok /\ results[i].stage = "confirm") =>
            \A i \in pool : results[i].stage \in {"confirm", "power"}

\* A retry belongs to the task at hand, and the time spent is that of count trials.
Books ==
  /\ retry # NoConfig => Asking
  /\ spent >= count * Shortest /\ (count = 0 => spent = 0)
  /\ ~Over => winner = None

SearchInv ==
  /\ TypeOKSearch /\ StagesInOrder /\ TrialsInOrder /\ StageOneKept /\ DroppedLose /\ PoolComplete /\ Books
  /\ TriedOnce /\ BudgetKept /\ SomethingWins /\ ChosenOnFreshRuns
=============================================================================
