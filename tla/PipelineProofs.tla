--------------------------- MODULE PipelineProofs ---------------------------
(***************************************************************************)
(* The profile cache, for any number of runs, requests, engines, upgrades  *)
(* and kills.                                                              *)
(*                                                                         *)
(* PipelineInv is the inductive invariant.  Two arguments meet in it: what *)
(* a run has in hand answers its request, and so does what is filed under  *)
(* a name; and which file has which name, so that a run that saves alone   *)
(* writes into nothing anybody can read.                                   *)
(***************************************************************************)
EXTENDS Pipeline, TLAPS

-----------------------------------------------------------------------------
(* Requests and the names they are filed under.                            *)

LEMMA RequestFields ==
  ASSUME NEW q \in Requests
  PROVE  /\ q.force \in Engines \cup {"none"} /\ q.phases \in PhasesAsked /\ q.layout \in LayoutsAsked
         /\ q.recalibrate \in BOOLEAN /\ q.skip \in BOOLEAN /\ q.power \in PowersAsked
         /\ q.objective \in {x.objective : x \in Requests} /\ q.percentile \in {x.percentile : x \in Requests}
         /\ q.quants \in {x.quants : x \in Requests}
  BY RequestsAssumption

\* The request inside a phased one differs in the backend it forces and in the power.
LEMMA InnerKeeps ==
  ASSUME NEW q \in Requests
  PROVE  /\ Inner(q).objective = q.objective /\ Inner(q).percentile = q.percentile /\ Inner(q).quants = q.quants
         /\ Inner(q).phases = q.phases /\ Inner(q).layout = q.layout /\ Inner(q).skip = q.skip
         /\ Inner(q).force \in Engines \cup {"none"} /\ q.force \in {"none", Inner(q).force}
         /\ Inner(q).power \in {q.power, "off"}
         /\ IsPhased(q) /\ q.phases = "auto" => Inner(q).power = q.power
         /\ ~IsPhased(q) => Inner(q) = q
  BY RequestsAssumption, EnginesAssumption DEF Inner, IsPhased

LEMMA SameOptions == ASSUME NEW q \in Requests, NEW o PROVE OptionsKey(Inner(q), o) = OptionsKey(q, o)
  BY InnerKeeps DEF OptionsKey

LEMMA OptionsFields ==
  ASSUME NEW q, NEW o, NEW l
  PROVE  /\ OptionsKey(q, o).layout = "single"
         /\ [OptionsKey(q, o) EXCEPT !.layout = l].layout = l
         /\ [OptionsKey(q, o) EXCEPT !.layout = "single"] = OptionsKey(q, o)
  BY DEF OptionsKey

LEMMA PathFields ==
  ASSUME NEW o, NEW w, NEW f, NEW k
  PROVE  /\ ProfilePath(o, w, f, k).objective = o /\ ProfilePath(o, w, f, k).power = w
         /\ ProfilePath(o, w, f, k).phases = f /\ ProfilePath(o, w, f, k).options = k
  BY DEF ProfilePath

LEMMA SamePath ==
  ASSUME NEW p, NEW q, SavePath(p) = UnifiedPath(q)
  PROVE  /\ p.objective = q.objective /\ p.power = q.power
         /\ p.phases = "unified" /\ p.options = OptionsKey(q, q.objective)
  BY PathFields DEF SavePath, UnifiedPath

LEMMA PathMember ==
  ASSUME NEW q \in Requests, NEW w \in {Inner(q).power, q.power}, NEW o \in {"none", q.objective},
         NEW kind \in {<<"unified", "single">>, <<q.phases, q.layout>>}
  PROVE  ProfilePath(q.objective, w, kind[1], [OptionsKey(q, o) EXCEPT !.layout = kind[2]]) \in Paths
<1>1. ProfilePath(q.objective, w, kind[1], [OptionsKey(q, o) EXCEPT !.layout = kind[2]]) \in PathsOf(q)
  BY DEF PathsOf
<1> QED BY <1>1 DEF Paths

\* Every name a run looks up or saves under is one of Paths.
LEMMA PathsHold ==
  ASSUME NEW q \in Requests
  PROVE  /\ UnifiedPath(Inner(q)) \in Paths
         /\ q.layout = "single" => PhasedPath(q) \in Paths
         /\ q.phases = "unified" => LayoutPath(q) \in Paths
         /\ q.layout = "single" => ProfilePath(q.objective, q.power, q.phases, OptionsKey(q, q.objective)) \in Paths
<1>1. UnifiedPath(Inner(q)) = ProfilePath(q.objective, Inner(q).power, "unified", OptionsKey(q, q.objective))
  BY SameOptions, InnerKeeps DEF UnifiedPath
<1>2. ASSUME NEW o \in {"none", q.objective}, NEW w \in {Inner(q).power, q.power}
      PROVE  /\ ProfilePath(q.objective, w, "unified", [OptionsKey(q, o) EXCEPT !.layout = "single"]) \in Paths
             /\ ProfilePath(q.objective, w, q.phases, [OptionsKey(q, o) EXCEPT !.layout = q.layout]) \in Paths
  <2>1. <<"unified", "single">>[1] = "unified" /\ <<"unified", "single">>[2] = "single"
        /\ <<q.phases, q.layout>>[1] = q.phases /\ <<q.phases, q.layout>>[2] = q.layout
    OBVIOUS
  <2>2. ProfilePath(q.objective, w, <<"unified", "single">>[1],
                    [OptionsKey(q, o) EXCEPT !.layout = <<"unified", "single">>[2]]) \in Paths
    BY PathMember
  <2>3. ProfilePath(q.objective, w, <<q.phases, q.layout>>[1],
                    [OptionsKey(q, o) EXCEPT !.layout = <<q.phases, q.layout>>[2]]) \in Paths
    BY PathMember
  <2> QED BY <2>1, <2>2, <2>3
<1>3. UnifiedPath(Inner(q)) \in Paths
  BY <1>1, <1>2, OptionsFields
<1>4. q.layout = "single" => /\ PhasedPath(q) \in Paths
                             /\ ProfilePath(q.objective, q.power, q.phases, OptionsKey(q, q.objective)) \in Paths
  <2>1. \A o : [OptionsKey(q, o) EXCEPT !.layout = "single"] = OptionsKey(q, o)
    BY OptionsFields
  <2> QED BY <1>2, <2>1 DEF PhasedPath
<1>5. q.phases = "unified" => LayoutPath(q) \in Paths
  BY <1>2 DEF LayoutPath
<1> QED BY <1>3, <1>4, <1>5

-----------------------------------------------------------------------------
(* A profile that a lookup finds.                                          *)

LEMMA HitGives ==
  ASSUME TypeOKPipeline, WellFiled, NEW path \in Paths, NEW machine, NEW q, Hit(path, machine, q)
  PROVE  /\ Filed(file[dir[path]].profile) /\ SavePath(file[dir[path]].profile) = path
         /\ Fresh(file[dir[path]].profile, machine) /\ Usable(file[dir[path]].profile, q)
<1>1. dir[path] \in Files /\ file[dir[path]].state = "whole"
  BY DEF Hit, Cached, OnFile, TypeOKPipeline
<1>2. Names(dir[path], path)
  BY DEF Names
<1> QED BY <1>1, <1>2 DEF WellFiled, Hit, Cached, Valid, Fresh

\* What is filed under the name of a phased or a multi-GPU request is for that request.
LEMMA OuterIsFor ==
  ASSUME NEW q \in Requests, IsPhased(q) \/ IsLayout(q), q.phases = "unified" \/ q.layout = "single",
         NEW p, Filed(p), SavePath(p) = OuterPath(q)
  PROVE  IsFor(p, q) /\ ~IsUnified(p)
<1>1. p.objective = q.objective /\ p.power = q.power
  BY PathFields DEF SavePath, OuterPath, PhasedPath, LayoutPath
<1>2. CASE IsPhased(q)
  <2>1. p.phases = q.phases /\ p.options = OptionsKey(q, "none")
    BY <1>2, PathFields DEF SavePath, OuterPath, PhasedPath
  <2>2. p.layout = "single" /\ q.layout = "single" /\ q.phases # "unified"
    BY <1>2, <2>1, OptionsFields DEF Filed, IsPhased
  <2> QED BY <1>1, <2>1, <2>2 DEF IsFor, IsUnified
<1>3. CASE ~IsPhased(q)
  <2>1. q.layout # "single" /\ q.phases = "unified"
    BY <1>3 DEF IsLayout
  <2>2. p.phases = "unified" /\ p.options = [OptionsKey(q, q.objective) EXCEPT !.layout = q.layout]
    BY <1>3, PathFields DEF SavePath, OuterPath, LayoutPath
  <2>3. p.layout = q.layout
    BY <2>2, OptionsFields DEF Filed
  <2> QED BY <1>1, <2>1, <2>2, <2>3 DEF IsFor, IsUnified
<1> QED BY <1>2, <1>3

-----------------------------------------------------------------------------
(* What a run has in hand.                                                 *)

LEMMA HandKept ==
  ASSUME NEW r \in Runs, HandOf(r), rpc'[r] = rpc[r], rq'[r] = rq[r], seen'[r] = seen[r], prof'[r] = prof[r]
  PROVE  HandOf(r)'
  BY DEF HandOf, Saving, Target, IsOuter

\* A step of run r, which leaves the others what they have.
LEMMA HandOfOthers ==
  ASSUME TypeOKPipeline, InHand, NEW r \in Runs, NEW pc, Goto(r, pc), HandOf(r)',
         \A s \in Runs \ {r} : rq'[s] = rq[s] /\ seen'[s] = seen[s] /\ prof'[s] = prof[s]
  PROVE  InHand'
<1>1. \A s \in Runs \ {r} : rpc'[s] = rpc[s]
  BY DEF Goto, TypeOKPipeline
<1> QED BY <1>1, HandKept DEF InHand

LEMMA BeginHand ==
  ASSUME TypeOKPipeline, InHand, NEW r \in Runs, NEW q \in Requests, Begin(r, q)
  PROVE  InHand'
<1>1. rq'[r] = q /\ rpc'[r] \in {"raised", "outer", "select", "lookup"}
  BY DEF Begin, Goto, TypeOKPipeline
<1>2. rpc'[r] # "raised" => q.phases = "unified" \/ q.layout = "single"
  BY RequestFields DEF Begin, Goto, TypeOKPipeline, PhasesAsked, LayoutsAsked
<1>3. rpc'[r] = "outer" => IsPhased(q) \/ IsLayout(q)
  BY DEF Begin, Goto, TypeOKPipeline
<1>4. rpc'[r] = "lookup" => ~q.skip
  BY DEF Begin, Goto, TypeOKPipeline
<1>5. HandOf(r)'
  BY <1>1, <1>2, <1>3, <1>4 DEF HandOf, Saving, IsOuter
<1> QED BY <1>5, HandOfOthers DEF Begin, TypeOKPipeline

\* Any step of r to a place where nothing is in hand yet.
LEMMA EmptyHand ==
  ASSUME TypeOKPipeline, InHand, NEW r \in Runs, rpc[r] # "off", NEW pc \in {"raised", "select", "lookup", "killed"},
         Goto(r, pc), UNCHANGED <<rq, seen, prof>>,
         pc = "lookup" => ~rq[r].skip, pc # "raised" => rpc[r] # "raised"
  PROVE  InHand'
<1>1. rpc'[r] = pc
  BY DEF Goto, TypeOKPipeline
<1>2. HandOf(r)'
  BY <1>1 DEF InHand, HandOf, Saving, IsOuter
<1> QED BY <1>2, HandOfOthers

LEMMA OuterHitHand ==
  ASSUME TypeOKPipeline, InHand, WellFiled, NEW r \in Runs, OuterHit(r)
  PROVE  InHand'
<1> DEFINE q == rq[r]
           p == file[dir[OuterPath(q)]].profile
<1>1. /\ rpc[r] = "outer" /\ rpc'[r] = "served" /\ q \in Requests /\ (IsPhased(q) \/ IsLayout(q))
      /\ q.phases = "unified" \/ q.layout = "single"
  BY DEF OuterHit, Goto, InHand, HandOf, TypeOKPipeline, IsOuter
<1>2. OuterPath(q) \in Paths
  BY <1>1, PathsHold, RequestFields DEF OuterPath, IsPhased, IsLayout
<1>3. Filed(p) /\ SavePath(p) = OuterPath(q) /\ Fresh(p, seen[r]) /\ Usable(p, q)
  BY <1>2, HitGives DEF OuterHit
<1>4. IsFor(p, q) /\ ~IsUnified(p)
  BY <1>1, <1>3, OuterIsFor
<1>5. prof'[r] = p /\ rq'[r] = q /\ seen'[r] = seen[r]
  BY DEF OuterHit, TypeOKPipeline
<1> HIDE DEF p, q
<1>7. HandOf(r)'
  BY <1>1, <1>3, <1>4, <1>5 DEF HandOf, Saving, IsOuter
<1> QED BY <1>7, HandOfOthers DEF OuterHit, TypeOKPipeline

LEMMA LookupHitHand ==
  ASSUME TypeOKPipeline, InHand, WellFiled, NEW r \in Runs, LookupHit(r)
  PROVE  InHand'
<1> DEFINE q == rq[r]
           p == file[dir[UnifiedPath(Inner(q))]].profile
<1>1. /\ rpc[r] = "lookup" /\ rpc'[r] = AfterUnified(r) /\ q \in Requests /\ ~q.skip
      /\ q.phases = "unified" \/ q.layout = "single"
  BY DEF LookupHit, Goto, InHand, HandOf, TypeOKPipeline
<1>2. UnifiedPath(Inner(q)) \in Paths
  BY <1>1, PathsHold
<1>3. Filed(p) /\ SavePath(p) = UnifiedPath(Inner(q)) /\ Fresh(p, seen[r]) /\ Usable(p, Inner(q))
  BY <1>2, HitGives DEF LookupHit
<1>4. IsUnified(p)
  <2>1. p.phases = "unified" /\ p.options = OptionsKey(Inner(q), Inner(q).objective)
    BY <1>3, SamePath
  <2> QED BY <1>3, <2>1, OptionsFields DEF IsUnified, Filed
<1>5. prof'[r] = p /\ rq'[r] = q /\ seen'[r] = seen[r]
  BY DEF LookupHit, TypeOKPipeline
<1>6. /\ IsPhased(q) \/ IsLayout(q) => rpc'[r] = "around"
      /\ ~(IsPhased(q) \/ IsLayout(q)) => rpc'[r] = "served"
  BY <1>1 DEF AfterUnified, IsOuter
<1> HIDE DEF p, q
<1>7. HandOf(r)'
  BY <1>1, <1>3, <1>4, <1>5, <1>6 DEF HandOf, Saving, IsOuter
<1> QED BY <1>7, HandOfOthers DEF LookupHit, TypeOKPipeline

\* What a calibration returns is filed under the name its command looks it up by.
LEMMA NewIsFiled ==
  ASSUME NEW q \in Requests, NEW machine \in [Engines -> Nat],
         NEW b \in Candidates(Inner(q), machine), NEW quant \in Allowed(q, b)
  PROVE  LET p == [NewProfile(Inner(q), b, quant, machine) EXCEPT !.madeFor = q]
         IN /\ Filed(p) /\ IsUnified(p) /\ SavePath(p) = UnifiedPath(Inner(q)) /\ Usable(p, Inner(q))
            /\ p.backend = b /\ p.version = machine[b]
<1> DEFINE n == Inner(q)
           p == [backend |-> b, version |-> machine[b], quant |-> quant, objective |-> n.objective, power |-> n.power,
                 phases |-> "unified", layout |-> "single", shape |-> "single", options |-> OptionsKey(n, n.objective),
                 percentile |-> n.percentile, madeFor |-> q]
<1>1. [NewProfile(Inner(q), b, quant, machine) EXCEPT !.madeFor = q] = p
  BY DEF NewProfile
<1>2. /\ n.objective = q.objective /\ n.percentile = q.percentile /\ n.quants = q.quants
      /\ n.force \in Engines \cup {"none"} /\ n.power \in PowersAsked
  BY InnerKeeps, RequestFields DEF PowersAsked
<1> HIDE DEF n
<1>3. b \in Engines /\ n.force \in {"none", b}
  BY <1>2 DEF Candidates, n
<1>4. quant \in Quants[b] /\ quant \in Allowed(n, b)
  BY <1>2 DEF Allowed
<1>5. OptionsKey(n, n.objective) \in [quants : {x.quants : x \in Requests}, layout : LayoutsAsked,
                                      ttft : {x.percentile : x \in Requests} \cup {50}]
  BY <1>2, RequestFields DEF OptionsKey, LayoutsAsked
<1>6. p \in Profiles
  BY <1>2, <1>3, <1>4, <1>5, RequestFields DEF Profiles, PhasesAsked, LayoutsAsked
<1>7. SavePath(p) = UnifiedPath(n) /\ IsUnified(p) /\ p.layout = p.options.layout
  BY OptionsFields DEF SavePath, UnifiedPath, IsUnified
<1>8. Usable(p, n)
  BY <1>3, <1>4 DEF Usable
<1>9. p.shape \in Answers(p)
  BY DEF Answers
<1>10. Filed(p)
  BY <1>4, <1>6, <1>7, <1>8, <1>9 DEF Filed, n
<1> QED BY <1>1, <1>7, <1>8, <1>10 DEF n

LEMMA CalibrateHand ==
  ASSUME TypeOKPipeline, InHand, NEW r \in Runs, Calibrate(r)
  PROVE  InHand'
<1> DEFINE q == rq[r]
<1>1. /\ rpc[r] = "select" /\ rpc'[r] = "save" /\ q \in Requests /\ ~q.skip /\ seen[r] \in [Engines -> Nat]
      /\ q.phases = "unified" \/ q.layout = "single"
  BY DEF Calibrate, Goto, InHand, HandOf, TypeOKPipeline
<1>2. PICK b \in Candidates(Inner(q), seen[r]) : \E quant \in Allowed(q, b) :
        /\ seen[r][b] # 0
        /\ prof' = [prof EXCEPT ![r] = [NewProfile(Inner(q), b, quant, seen[r]) EXCEPT !.madeFor = q]]
  BY DEF Calibrate
<1>3. PICK quant \in Allowed(q, b) :
        prof' = [prof EXCEPT ![r] = [NewProfile(Inner(q), b, quant, seen[r]) EXCEPT !.madeFor = q]]
  BY <1>2
<1> DEFINE p == [NewProfile(Inner(q), b, quant, seen[r]) EXCEPT !.madeFor = q]
<1>4. Filed(p) /\ IsUnified(p) /\ SavePath(p) = UnifiedPath(Inner(q)) /\ Usable(p, Inner(q)) /\ Fresh(p, seen[r])
  BY <1>1, <1>2, NewIsFiled DEF Fresh
<1>5. SavePath(p) \in Paths
  BY <1>1, <1>4, PathsHold
<1> HIDE DEF p
<1>6. prof' = [prof EXCEPT ![r] = p] /\ rq' = rq /\ seen' = seen
  BY <1>3 DEF Calibrate, p
<1>7. prof'[r] = p
  BY <1>6 DEF TypeOKPipeline
<1>8. HandOf(r)'
  BY <1>1, <1>4, <1>5, <1>6, <1>7 DEF HandOf, Saving, IsOuter, Target
<1> QED BY <1>6, <1>8, HandOfOthers DEF Calibrate, TypeOKPipeline

LEMMA DefaultsHand ==
  ASSUME TypeOKPipeline, InHand, NEW r \in Runs, Defaults(r)
  PROVE  InHand'
<1>1. rpc[r] = "select" /\ rpc'[r] = "served" /\ rq[r].skip /\ rq' = rq /\ seen' = seen
  BY DEF Defaults, Goto, TypeOKPipeline
<1>2. HandOf(r)'
  BY <1>1 DEF InHand, HandOf, Saving, IsOuter
<1> QED BY <1>1, <1>2, HandOfOthers DEF Defaults, TypeOKPipeline

\* What is built around the unified profile, or kept of it, is for the request.
LEMMA AroundIsFiled ==
  ASSUME NEW q \in Requests, IsPhased(q) \/ IsLayout(q), q.phases = "unified" \/ q.layout = "single",
         NEW p, Filed(p), IsUnified(p), SavePath(p) = UnifiedPath(Inner(q)), Usable(p, Inner(q)),
         NEW f \in Profiles, f.backend = p.backend, f.quant = p.quant, f.objective = p.objective,
         f.power = q.power, f.phases = q.phases, f.layout = q.layout, f.shape \in Answers(q), f.madeFor = q,
         f.options = [p.options EXCEPT !.layout = q.layout]
  PROVE  Filed(f) /\ ~IsUnified(f) /\ IsFor(f, q) /\ Usable(f, q) /\ SavePath(f) \in Paths
<1>1. p.objective = q.objective /\ p.options = OptionsKey(q, q.objective)
  BY SamePath, SameOptions, InnerKeeps
<1>2. f.options = [OptionsKey(q, q.objective) EXCEPT !.layout = q.layout] /\ f.options.layout = q.layout
  BY <1>1, OptionsFields
<1>3. ~IsUnified(f) /\ IsFor(f, q)
  BY <1>1 DEF IsUnified, IsFor, IsPhased, IsLayout
<1>4. Usable(f, q) /\ Usable(f, Inner(q))
  BY InnerKeeps DEF Usable, Allowed
<1>5. f.phases = "unified" => SavePath(f) = LayoutPath(q)
  BY <1>1, <1>2 DEF SavePath, LayoutPath
<1>6. f.shape \in Answers(f)
  BY DEF Answers
<1>7. Filed(f)
  BY <1>2, <1>3, <1>4, <1>5, <1>6 DEF Filed
<1>8. SavePath(f) \in Paths
  <2>1. CASE q.phases = "unified"
    BY <1>5, <2>1, PathsHold
  <2>2. CASE q.phases # "unified"
    <3>1. q.layout = "single" /\ f.options = OptionsKey(q, q.objective)
      BY <1>2, <2>2, OptionsFields
    <3> QED BY <1>1, <3>1, PathsHold DEF SavePath
  <2> QED BY <2>1, <2>2
<1> QED BY <1>3, <1>4, <1>7, <1>8

LEMMA FellBackFields ==
  ASSUME NEW q \in Requests, q.phases = "unified" \/ q.layout = "single", NEW p \in Profiles, IsUnified(p),
         p.options.layout = "single", IsPhased(q) \/ IsLayout(q)
  PROVE  LET f == FellBack(p, q)
         IN /\ f \in Profiles /\ f.backend = p.backend /\ f.version = p.version /\ f.quant = p.quant
            /\ f.objective = p.objective /\ f.power = p.power /\ f.shape = p.shape
            /\ f.phases = q.phases /\ f.layout = q.layout /\ f.madeFor = q
            /\ f.options = [p.options EXCEPT !.layout = q.layout]
<1>1. CASE IsPhased(q)
  <2>1. FellBack(p, q) = [p EXCEPT !.phases = q.phases, !.madeFor = q] /\ q.layout = "single"
    BY <1>1 DEF FellBack, IsPhased
  <2>2. p.options = [p.options EXCEPT !.layout = q.layout]
    BY <2>1 DEF Profiles
  <2> QED BY <2>1, <2>2, RequestFields DEF Profiles, IsUnified
<1>2. CASE ~IsPhased(q)
  <2>1. FellBack(p, q) = [p EXCEPT !.layout = q.layout, !.options.layout = q.layout, !.madeFor = q] /\ q.phases = "unified"
    BY <1>2 DEF FellBack, IsLayout
  <2> DEFINE o == [p.options EXCEPT !.layout = q.layout]
  <2>2. FellBack(p, q) = [p EXCEPT !.layout = q.layout, !.options = o, !.madeFor = q]
    BY <2>1 DEF Profiles
  <2>3. o \in [quants : {x.quants : x \in Requests}, layout : LayoutsAsked,
              ttft : {x.percentile : x \in Requests} \cup {50}]
    BY RequestFields DEF Profiles
  <2> HIDE DEF o
  <2>4. LET f == FellBack(p, q)
        IN /\ f.backend = p.backend /\ f.version = p.version /\ f.quant = p.quant
           /\ f.objective = p.objective /\ f.power = p.power /\ f.shape = p.shape
           /\ f.phases = p.phases /\ f.layout = q.layout /\ f.madeFor = q /\ f.options = o
    BY <2>2 DEF Profiles
  <2>5. FellBack(p, q) \in Profiles
    BY <2>2, <2>3, RequestFields DEF Profiles
  <2> QED BY <2>1, <2>4, <2>5 DEF IsUnified, o
<1> QED BY <1>1, <1>2

LEMMA AroundHand ==
  ASSUME TypeOKPipeline, InHand, NEW r \in Runs, Around(r)
  PROVE  InHand' /\ (rpc'[r] = "save" => ~IsUnified(prof'[r]))
<1> DEFINE q == rq[r]
           p == prof[r]
           b == FellBack(p, q)
<1>1. /\ rpc[r] = "around" /\ rpc'[r] = "save" /\ q \in Requests /\ (IsPhased(q) \/ IsLayout(q))
      /\ q.phases = "unified" \/ q.layout = "single"
      /\ Filed(p) /\ IsUnified(p) /\ SavePath(p) = UnifiedPath(Inner(q)) /\ Usable(p, Inner(q)) /\ Fresh(p, seen[r])
  BY DEF Around, Goto, InHand, HandOf, TypeOKPipeline, IsOuter
<1>2. PICK s \in Shapes(p, q) : prof' = [prof EXCEPT ![r] = [FellBack(@, q) EXCEPT !.shape = s, !.power = q.power]]
  BY DEF Around
<1>3. rq' = rq /\ seen' = seen
  BY DEF Around
<1> DEFINE f == [b EXCEPT !.shape = s, !.power = q.power]
<1>4. prof' = [prof EXCEPT ![r] = f] /\ prof'[r] = f
  BY <1>2 DEF TypeOKPipeline
<1>5. s \in Answers(q) /\ s \in {"single", "pair", "replicas", "tp"}
  BY <1>1, RequestFields DEF Shapes, Answers, IsPhased, IsLayout, PhasesAsked, LayoutsAsked
<1>6. p \in Profiles /\ p.options.layout = "single"
  BY <1>1 DEF Filed, IsUnified
<1> HIDE DEF p, q
<1>7. /\ b \in Profiles /\ b.backend = p.backend /\ b.version = p.version /\ b.quant = p.quant
      /\ b.objective = p.objective /\ b.phases = q.phases /\ b.layout = q.layout /\ b.madeFor = q
      /\ b.options = [p.options EXCEPT !.layout = q.layout]
  BY <1>1, <1>6, FellBackFields
<1> HIDE DEF b
<1>8. /\ f \in Profiles /\ f.backend = p.backend /\ f.version = p.version /\ f.quant = p.quant
      /\ f.objective = p.objective /\ f.phases = q.phases /\ f.layout = q.layout /\ f.madeFor = q
      /\ f.options = [p.options EXCEPT !.layout = q.layout] /\ f.shape = s /\ f.power = q.power
  BY <1>1, <1>5, <1>7, RequestFields DEF Profiles
<1> HIDE DEF f
<1>9. Filed(f) /\ ~IsUnified(f) /\ IsFor(f, q) /\ Usable(f, q) /\ SavePath(f) \in Paths
  BY <1>1, <1>5, <1>8, AroundIsFiled
<1>10. HandOf(r)'
  <2>1. Fresh(f, seen[r]) /\ ~q.skip
    BY <1>1, <1>8 DEF Fresh, IsPhased, IsLayout
  <2> QED BY <1>1, <1>3, <1>4, <1>9, <2>1 DEF HandOf, Saving, IsOuter, Target, q
<1> QED BY <1>3, <1>4, <1>9, <1>10, HandOfOthers DEF Around, TypeOKPipeline

LEMMA AroundFailsHand ==
  ASSUME TypeOKPipeline, InHand, NEW r \in Runs, AroundFails(r)
  PROVE  InHand' /\ (rpc'[r] = "save" => ~IsUnified(prof'[r]))
<1> DEFINE q == rq[r]
           p == prof[r]
           f == FellBack(p, q)
<1>1. /\ rpc[r] = "around" /\ q \in Requests /\ (IsPhased(q) \/ IsLayout(q))
      /\ q.phases = "unified" \/ q.layout = "single"
      /\ Filed(p) /\ IsUnified(p) /\ SavePath(p) = UnifiedPath(Inner(q)) /\ Usable(p, Inner(q)) /\ Fresh(p, seen[r])
      /\ rq' = rq /\ seen' = seen
  BY DEF AroundFails, InHand, HandOf, IsOuter
<1>2. CASE ~(q.phases = "auto" \/ q.layout = "auto")
  <2>1. Goto(r, "raised") /\ prof' = prof
    BY <1>1, <1>2 DEF AroundFails
  <2> QED BY <1>1, <2>1, EmptyHand DEF Goto, TypeOKPipeline
<1>3. CASE q.phases = "auto" \/ q.layout = "auto"
  <2>1. prof' = [prof EXCEPT ![r] = f] /\ prof'[r] = f /\ rpc'[r] = "save"
    BY <1>3 DEF AroundFails, Goto, TypeOKPipeline
  <2>2. p.power = q.power
    <3>1. p.power = Inner(q).power
      BY <1>1, SamePath
    <3> QED BY <1>1, <1>3, <3>1, InnerKeeps DEF IsPhased
  <2>3. p.shape = "single" /\ p.shape \in Answers(q)
    BY <1>1, <1>3 DEF Filed, IsUnified, Answers
  <2>4. p \in Profiles /\ p.options.layout = "single"
    BY <1>1 DEF Filed, IsUnified
  <2> HIDE DEF p, q
  <2>5. /\ f \in Profiles /\ f.backend = p.backend /\ f.version = p.version /\ f.quant = p.quant
        /\ f.objective = p.objective /\ f.power = p.power /\ f.shape = p.shape
        /\ f.phases = q.phases /\ f.layout = q.layout /\ f.madeFor = q
        /\ f.options = [p.options EXCEPT !.layout = q.layout]
    BY <1>1, <2>4, FellBackFields
  <2> HIDE DEF f
  <2>6. Filed(f) /\ ~IsUnified(f) /\ IsFor(f, q) /\ Usable(f, q) /\ SavePath(f) \in Paths
    BY <1>1, <2>2, <2>3, <2>5, AroundIsFiled
  <2>7. Fresh(f, seen[r]) /\ ~q.skip
    BY <1>1, <2>5 DEF Fresh, IsPhased, IsLayout
  <2>8. HandOf(r)'
    BY <1>1, <2>1, <2>6, <2>7 DEF HandOf, Saving, IsOuter, Target, q
  <2>9. InHand'
    BY <1>1, <2>1, <2>8, HandOfOthers DEF AroundFails, TypeOKPipeline
  <2> QED BY <2>1, <2>6, <2>9
<1> QED BY <1>2, <1>3

\* A save leaves in hand what it writes.
LEMMA SaveHand ==
  ASSUME TypeOKPipeline, InHand, NEW r \in Runs, Save(r)
  PROVE  InHand'
<1>0. UNCHANGED <<rq, seen, prof>>
  BY DEF Save, SaveOpen, SaveHalf, SaveRest, SaveReplace
<1>1. CASE SaveOpen(r) \/ SaveHalf(r) \/ SaveRest(r)
  <2>1. PICK pc \in {"open", "half", "rename"} : Goto(r, pc)
    BY <1>1 DEF SaveOpen, SaveHalf, SaveRest
  <2>2. rpc'[r] = pc /\ rpc[r] \in {"save", "open", "half"}
    BY <1>1, <2>1 DEF Goto, TypeOKPipeline, SaveOpen, SaveHalf, SaveRest
  <2>3. HandOf(r)'
    BY <1>0, <2>2 DEF InHand, HandOf, Saving, IsOuter, Target
  <2> QED BY <1>0, <2>1, <2>3, HandOfOthers
<1>2. CASE SaveReplace(r)
  <2>1. CASE tmp[Target(r)] = NoFile
    <3>1. Goto(r, "raised") /\ rpc[r] = "rename"
      BY <1>2, <2>1 DEF SaveReplace
    <3> QED BY <1>0, <3>1, EmptyHand
  <2>2. CASE tmp[Target(r)] # NoFile
    <3> DEFINE pc == IF Part(r) = "unified" THEN AfterUnified(r) ELSE "served"
    <3>1. Goto(r, pc) /\ rpc[r] = "rename" /\ rpc'[r] = pc
      BY <1>2, <2>2 DEF SaveReplace, Goto, TypeOKPipeline
    <3>2. Part(r) = "unified" <=> IsUnified(prof[r])
      BY DEF Part, IsUnified
    <3>3. HandOf(r)'
      BY <1>0, <3>1, <3>2 DEF InHand, HandOf, Saving, IsOuter, AfterUnified
    <3> QED BY <1>0, <3>1, <3>3, HandOfOthers
  <2> QED BY <2>1, <2>2
<1> QED BY <1>1, <1>2 DEF Save

LEMMA HandStep ==
  ASSUME TypeOKPipeline, InHand, WellFiled, [Next]_plvars
  PROVE  InHand'
<1>1. CASE UNCHANGED <<rpc, rq, seen, prof>>
  BY <1>1, HandKept DEF InHand
<1>2. ASSUME NEW r \in Runs, OuterMiss(r) \/ LookupMiss(r) \/ CalibrateFails(r) \/ Kill(r)
      PROVE  InHand'
  <2>1. UNCHANGED <<rq, seen, prof>> /\ rpc[r] \notin {"off", "raised"}
    BY <1>2 DEF OuterMiss, LookupMiss, CalibrateFails, Kill, Saving
  <2>2. rpc[r] = "outer" => ~rq[r].skip
    BY DEF InHand, HandOf, IsOuter, IsPhased, IsLayout
  <2>3. \E pc \in {"raised", "select", "lookup", "killed"} : Goto(r, pc) /\ (pc = "lookup" => ~rq[r].skip)
    BY <1>2, <2>2 DEF OuterMiss, LookupMiss, CalibrateFails, Kill
  <2> QED BY <2>1, <2>3, EmptyHand
<1>3. ASSUME NEW b, NEW v, Install(b, v) PROVE UNCHANGED <<rpc, rq, seen, prof>>
  BY <1>3 DEF Install
<1>4. CASE UNCHANGED plvars
  BY <1>1, <1>4 DEF plvars
<1> QED BY <1>1, <1>2, <1>3, <1>4, BeginHand, OuterHitHand, LookupHitHand, CalibrateHand, DefaultsHand, AroundHand,
           AroundFailsHand, SaveHand DEF Next, Resolve

-----------------------------------------------------------------------------
(* Types.                                                                  *)

\* A profile that a step puts in hand is one.
LEMMA ProfType ==
  ASSUME TypeOKPipeline, InHand', NEW r \in Runs, NEW x, prof' = [prof EXCEPT ![r] = x],
         rpc'[r] \in {"around", "save"} \/ (rpc'[r] = "served" /\ ~rq'[r].skip)
  PROVE  prof' \in [Runs -> Profiles \cup {NoProfile}]
<1>1. HandOf(r)' /\ prof'[r] = x
  BY DEF InHand, TypeOKPipeline
<1>2. x \in Profiles
  BY <1>1 DEF HandOf, Filed
<1> QED BY <1>2 DEF TypeOKPipeline

\* What a step of the request leaves alone, and where it may go.
MovesOn(r) ==
  /\ UNCHANGED <<mvars, dvars, fd, kills>>
  /\ \E pc \in {"outer", "lookup", "select", "around", "save", "served", "raised"} : Goto(r, pc)
  /\ rpc[r] \in {"off", "outer", "lookup", "select", "around"}
  /\ rpc[r] = "around" => rpc'[r] \in {"save", "raised"}
  /\ rpc'[r] = "save" => rpc[r] \in {"select", "around"}
  /\ rpc[r] = "around" /\ rpc'[r] = "save" => Part(r)' = "outer"
  /\ \A s \in Runs \ {r} : prof'[s] = prof[s]
  /\ rq' \in [Runs -> Requests \cup {NoRequest}]
  /\ seen' \in [Runs -> [Engines -> Nat]]
  /\ prof' \in [Runs -> Profiles \cup {NoProfile}]

LEMMA ResolveMoves ==
  ASSUME TypeOKPipeline, InHand, WellFiled, InHand', NEW r \in Runs, Resolve(r)
  PROVE  MovesOn(r)
<1> USE DEF MovesOn
<1>1. ASSUME NEW q \in Requests, Begin(r, q) PROVE MovesOn(r)
  BY <1>1 DEF Begin, Goto, TypeOKPipeline
<1>2. ASSUME OuterMiss(r) \/ LookupMiss(r) \/ CalibrateFails(r) PROVE MovesOn(r)
  BY <1>2 DEF OuterMiss, LookupMiss, CalibrateFails, Goto, TypeOKPipeline
<1>3. ASSUME OuterHit(r) PROVE MovesOn(r)
  <2>1. PICK x : prof' = [prof EXCEPT ![r] = x]
    BY <1>3 DEF OuterHit
  <2>2. ~rq'[r].skip /\ rpc'[r] = "served"
    BY <1>3 DEF OuterHit, Goto, TypeOKPipeline, InHand, HandOf, IsOuter, IsPhased, IsLayout
  <2>3. prof' \in [Runs -> Profiles \cup {NoProfile}]
    BY <2>1, <2>2, ProfType
  <2> QED BY <1>3, <2>3 DEF OuterHit, Goto, TypeOKPipeline
<1>4. ASSUME LookupHit(r) PROVE MovesOn(r)
  <2>1. PICK x : prof' = [prof EXCEPT ![r] = x]
    BY <1>4 DEF LookupHit
  <2>2. ~rq'[r].skip /\ rpc'[r] \in {"around", "served"}
    BY <1>4 DEF LookupHit, Goto, TypeOKPipeline, InHand, HandOf, AfterUnified
  <2>3. prof' \in [Runs -> Profiles \cup {NoProfile}]
    BY <2>1, <2>2, ProfType
  <2> QED BY <1>4, <2>3 DEF LookupHit, Goto, TypeOKPipeline, AfterUnified
<1>5. ASSUME Calibrate(r) PROVE MovesOn(r)
  <2>1. PICK x : prof' = [prof EXCEPT ![r] = x]
    BY <1>5 DEF Calibrate
  <2>2. rpc'[r] = "save"
    BY <1>5 DEF Calibrate, Goto, TypeOKPipeline
  <2>3. prof' \in [Runs -> Profiles \cup {NoProfile}]
    BY <2>1, <2>2, ProfType
  <2> QED BY <1>5, <2>1, <2>3 DEF Calibrate, Goto, TypeOKPipeline
<1>6. ASSUME Defaults(r) PROVE MovesOn(r)
  <2> DEFINE q == rq[r]
  <2>1. rpc[r] = "select" /\ q.skip /\ q \in Requests /\ seen[r] \in [Engines -> Nat]
    BY <1>6 DEF Defaults, InHand, HandOf, TypeOKPipeline
  <2>2. Inner(q) = q
    BY <2>1, InnerKeeps DEF IsPhased
  <2>0. PICK b \in Candidates(q, seen[r]) : \E quant \in Allowed(q, b) :
          prof' = [prof EXCEPT ![r] = NewProfile(q, b, quant, seen[r])]
    BY <1>6 DEF Defaults
  <2>3. PICK quant \in Allowed(q, b) : prof' = [prof EXCEPT ![r] = NewProfile(q, b, quant, seen[r])]
    BY <2>0
  <2>4. NewProfile(q, b, quant, seen[r]) = [NewProfile(q, b, quant, seen[r]) EXCEPT !.madeFor = q]
    BY DEF NewProfile
  <2>5. NewProfile(q, b, quant, seen[r]) \in Profiles
    BY <2>1, <2>2, <2>4, NewIsFiled DEF Filed
  <2>6. prof' \in [Runs -> Profiles \cup {NoProfile}] /\ \A s \in Runs \ {r} : prof'[s] = prof[s]
    BY <2>3, <2>5 DEF TypeOKPipeline
  <2> QED BY <1>6, <2>6 DEF Defaults, Goto, TypeOKPipeline
<1>7. ASSUME Around(r) PROVE MovesOn(r)
  <2>1. PICK x : prof' = [prof EXCEPT ![r] = x]
    BY <1>7 DEF Around
  <2>2. rpc'[r] = "save" /\ rpc[r] = "around"
    BY <1>7 DEF Around, Goto, TypeOKPipeline
  <2>3. prof' \in [Runs -> Profiles \cup {NoProfile}]
    BY <2>1, <2>2, ProfType
  <2>4. Part(r)' = "outer"
    BY <1>7, <2>2, AroundHand DEF Part, IsUnified
  <2> QED BY <1>7, <2>1, <2>3, <2>4 DEF Around, Goto, TypeOKPipeline
<1>8. ASSUME AroundFails(r) PROVE MovesOn(r)
  <2>1. CASE rpc'[r] = "raised"
    <3>1. rq[r].phases = "auto" \/ rq[r].layout = "auto" => rpc'[r] = "save"
      BY <1>8 DEF AroundFails, Goto, TypeOKPipeline
    <3> QED BY <1>8, <2>1, <3>1 DEF AroundFails, Goto, TypeOKPipeline
  <2>2. CASE rpc'[r] # "raised"
    <3>1. PICK x : prof' = [prof EXCEPT ![r] = x]
      BY <1>8, <2>2 DEF AroundFails, Goto, TypeOKPipeline
    <3>2. rpc'[r] = "save" /\ rpc[r] = "around"
      BY <1>8, <2>2 DEF AroundFails, Goto, TypeOKPipeline
    <3>3. prof' \in [Runs -> Profiles \cup {NoProfile}]
      BY <3>1, <3>2, ProfType
    <3>4. Part(r)' = "outer"
      BY <1>8, <3>2, AroundFailsHand DEF Part, IsUnified
    <3> QED BY <1>8, <3>1, <3>2, <3>3, <3>4 DEF AroundFails, Goto, TypeOKPipeline
  <2> QED BY <2>1, <2>2
<1> QED BY <1>1, <1>2, <1>3, <1>4, <1>5, <1>6, <1>7, <1>8 DEF Resolve

\* What a run opens is a file, and the path it saves under has a name.
LEMMA OpenedType ==
  ASSUME TypeOKPipeline, InHand, NEW r \in Runs, SaveOpen(r)
  PROVE  Target(r) \in Paths /\ Opened(r) \in Files
<1>1. Target(r) \in Paths
  BY DEF InHand, HandOf, SaveOpen
<1>2. <<r, Part(r)>> \in Files
  BY DEF Part, Files
<1> QED BY <1>1, <1>2 DEF Opened, TypeOKPipeline

LEMMA TypeStep ==
  ASSUME TypeOKPipeline, InHand, WellFiled, [Next]_plvars
  PROVE  TypeOKPipeline'
<1>0. InHand'
  BY HandStep
<1>1. ASSUME NEW r \in Runs, Resolve(r) PROVE TypeOKPipeline'
  <2>1. MovesOn(r)
    BY <1>0, <1>1, ResolveMoves
  <2>2. PICK pc \in {"outer", "lookup", "select", "around", "save", "served", "raised"} : Goto(r, pc)
    BY <2>1 DEF MovesOn
  <2>3. \A s \in Runs : Saving(s)' <=> Saving(s)
    BY <2>1, <2>2 DEF Goto, Saving, TypeOKPipeline, MovesOn
  <2> QED BY <2>1, <2>2, <2>3 DEF TypeOKPipeline, MovesOn, Goto, mvars, dvars
<1>2. ASSUME NEW r \in Runs, SaveOpen(r) PROVE TypeOKPipeline'
  <2>1. Opened(r) \in Files /\ NoFile \notin Files
    BY <1>2, OpenedType DEF NoFile, Files
  <2>2. UNCHANGED <<version, dir, rq, seen, prof>> /\ tmp' \in [Paths -> Files \cup {NoFile}]
    BY <1>2, <2>1 DEF SaveOpen, NameOpened, TypeOKPipeline, mvars
  <2>3. file' \in [Files -> [state : {"empty", "half", "torn", "whole"}, profile : Profiles \cup {NoProfile}]]
    BY <1>2 DEF SaveOpen, TypeOKPipeline
  <2>4. fd' \in [Runs -> Files \cup {NoFile}] /\ \A s \in Runs : Saving(s)' <=> fd'[s] # NoFile
    BY <1>2, <2>1 DEF SaveOpen, Goto, Saving, TypeOKPipeline
  <2>5. rpc' \in [Runs -> {"off", "outer", "lookup", "select", "around", "save", "open", "half", "rename",
                          "served", "raised", "killed"}]
    BY <1>2 DEF SaveOpen, Goto, TypeOKPipeline
  <2> QED BY <2>2, <2>3, <2>4, <2>5 DEF TypeOKPipeline
<1>3. ASSUME NEW r \in Runs, SaveHalf(r) PROVE TypeOKPipeline'
  BY <1>3 DEF SaveHalf, Goto, Saving, TypeOKPipeline, mvars
<1>4. ASSUME NEW r \in Runs, SaveRest(r) PROVE TypeOKPipeline'
  <2>1. PICK state \in {"whole", "torn"} :
          file' = [file EXCEPT ![fd[r]] = [state |-> state, profile |-> IF state = "whole" THEN prof[r] ELSE NoProfile]]
    BY <1>4 DEF SaveRest
  <2>2. file' \in [Files -> [state : {"empty", "half", "torn", "whole"}, profile : Profiles \cup {NoProfile}]]
    BY <2>1 DEF TypeOKPipeline
  <2>3. UNCHANGED <<version, dir, tmp, rq, seen, prof, fd>> /\ Goto(r, "rename") /\ rpc[r] = "half"
    BY <1>4 DEF SaveRest, mvars
  <2> QED BY <2>2, <2>3 DEF Goto, Saving, TypeOKPipeline
<1>5. ASSUME NEW r \in Runs, SaveReplace(r) PROVE TypeOKPipeline'
  <2>1. UNCHANGED <<version, file, rq, seen, prof>> /\ fd' = [fd EXCEPT ![r] = NoFile]
    BY <1>5 DEF SaveReplace, mvars
  <2>2. Target(r) \in Paths
    BY <1>5 DEF InHand, HandOf, Saving, SaveReplace
  <2>3. dir' \in [Paths -> Files \cup {NoFile}] /\ tmp' \in [Paths -> Files \cup {NoFile}]
    BY <1>5, <2>2 DEF SaveReplace, TypeOKPipeline
  <2>4. \E pc \in {"around", "served", "raised"} : Goto(r, pc)
    BY <1>5 DEF SaveReplace, AfterUnified
  <2> QED BY <2>1, <2>3, <2>4 DEF Goto, Saving, TypeOKPipeline
<1>6. ASSUME NEW r \in Runs, Kill(r) PROVE TypeOKPipeline'
  BY <1>6 DEF Kill, Goto, Saving, TypeOKPipeline, mvars, dvars
<1>7. ASSUME NEW b \in Engines, NEW v \in 0..(MaxChanges + 1), Install(b, v) PROVE TypeOKPipeline'
  BY <1>7, ChangesAssumption DEF Install, Saving, TypeOKPipeline, dvars
<1>8. CASE UNCHANGED plvars
  BY <1>8 DEF plvars, Saving, TypeOKPipeline
<1> QED BY <1>1, <1>2, <1>3, <1>4, <1>5, <1>6, <1>7, <1>8 DEF Next, Save

-----------------------------------------------------------------------------
(* Files and names.                                                        *)

FileInv == OneName /\ NotYetWritten /\ Alone /\ WellFiled /\ OnlyARaceTears

\* A step of the request touches no file.
LEMMA ResolveFiles ==
  ASSUME TypeOKPipeline, FileInv, NEW r \in Runs, MovesOn(r)
  PROVE  FileInv'
<1>1. UNCHANGED <<dir, tmp, file, raced, fd>>
  BY DEF MovesOn, dvars
<1>2. \A s \in Runs : Saving(s)' <=> Saving(s)
  BY DEF Goto, Saving, TypeOKPipeline, MovesOn
<1>3. \A s \in Runs : Saving(s) => s # r
  BY DEF Saving, MovesOn
<1>4. \A s \in Runs \ {r} : rpc'[s] = rpc[s] /\ prof'[s] = prof[s]
  BY DEF Goto, TypeOKPipeline, MovesOn
<1>5. \A s \in Runs \ {r} : Target(s)' = Target(s) /\ Part(s)' = Part(s)
  BY <1>4 DEF Target, Part
<1>6. OneName'
  BY <1>1, <1>2, <1>3, <1>5 DEF FileInv, OneName, Names
<1>7. \A f : Unused(f)' <=> Unused(f)
  BY <1>1 DEF Unused, Names
<1>8. NotYetWritten'
  <2>1. ASSUME NEW s \in Runs \ {r}
        PROVE  /\ (rpc'[s] \in {"off", "outer", "lookup", "select"} \/ (rpc'[s] = "save" /\ Part(s)' = "unified")) =>
                    Unused(<<s, "unified">>)
               /\ (\/ rpc'[s] \in {"off", "outer", "lookup", "select", "around", "save"}
                   \/ Saving(s)' /\ Part(s)' = "unified") => Unused(<<s, "outer">>)
    BY <1>2, <1>4, <1>5 DEF FileInv, NotYetWritten
  <2>2. (rpc'[r] \in {"off", "outer", "lookup", "select"} \/ (rpc'[r] = "save" /\ Part(r)' = "unified")) =>
          Unused(<<r, "unified">>)
    <3>1. rpc'[r] \in {"off", "outer", "lookup", "select"} => rpc[r] \in {"off", "outer", "lookup", "select"}
      BY DEF MovesOn
    <3>2. rpc'[r] = "save" /\ Part(r)' = "unified" => rpc[r] \in {"off", "outer", "lookup", "select"}
      BY DEF MovesOn
    <3> QED BY <3>1, <3>2 DEF FileInv, NotYetWritten
  <2>3. Unused(<<r, "outer">>)
    BY DEF MovesOn, FileInv, NotYetWritten
  <2> QED BY <1>7, <2>1, <2>2, <2>3 DEF NotYetWritten
<1>9. Alone'
  <2>1. ASSUME NEW s \in Runs, Saving(s), ~Shares(s) PROVE ~Shares(s)'
    BY <1>2, <1>3, <1>5, <2>1 DEF Shares
  <2> QED BY <1>1, <1>2, <1>3, <1>4, <1>5, <2>1 DEF FileInv, Alone
<1>10. WellFiled' /\ OnlyARaceTears'
  BY <1>1 DEF FileInv, WellFiled, OnlyARaceTears, Names
<1> QED BY <1>6, <1>8, <1>9, <1>10 DEF FileInv

\* What a step of r to another place in the save, or out of it, leaves alone.
LEMMA SaverMoves ==
  ASSUME TypeOKPipeline, NEW r \in Runs, NEW pc, Goto(r, pc), prof' = prof
  PROVE  /\ rpc'[r] = pc
         /\ \A s \in Runs : Target(s)' = Target(s) /\ Part(s)' = Part(s)
         /\ \A s \in Runs \ {r} : rpc'[s] = rpc[s] /\ (Saving(s)' <=> Saving(s))
  BY DEF Goto, TypeOKPipeline, Target, Part, Saving

LEMMA SaveOpenFiles ==
  ASSUME TypeOKPipeline, InHand, FileInv, NEW r \in Runs, SaveOpen(r)
  PROVE  FileInv'
<1>0. PICK t, f : t = Target(r) /\ f = Opened(r)
  OBVIOUS
<1>1. /\ t \in Paths /\ f \in Files /\ rpc[r] = "save" /\ ~Saving(r)
      /\ dir' = dir /\ tmp' = [tmp EXCEPT ![t] = f] /\ fd' = [fd EXCEPT ![r] = f]
      /\ file' = [file EXCEPT ![f] = [state |-> "empty", profile |-> NoProfile]]
      /\ raced' = IF Shares(r) THEN raced \cup {t} ELSE raced
  BY <1>0, OpenedType DEF SaveOpen, NameOpened, Saving
<1>2. /\ rpc'[r] = "open" /\ Saving(r)'
      /\ \A s \in Runs : Target(s)' = Target(s) /\ Part(s)' = Part(s)
      /\ \A s \in Runs \ {r} : rpc'[s] = rpc[s] /\ (Saving(s)' <=> Saving(s))
  <2>1. Goto(r, "open") /\ prof' = prof
    BY DEF SaveOpen
  <2> QED BY <2>1, SaverMoves DEF Saving
<1>3. f = tmp[t] \/ (tmp[t] = NoFile /\ f = <<r, Part(r)>> /\ Unused(f))
  <2>1. Unused(<<r, Part(r)>>)
    <3>1. Part(r) \in {"unified", "outer"}
      BY DEF Part
    <3> QED BY <1>1, <3>1 DEF FileInv, NotYetWritten
  <2> QED BY <1>0, <2>1 DEF Opened
<1>4. /\ \A q \in Paths : Names(f, q) => q = t /\ dir[q] # f
      /\ \A s \in Runs \ {r} : Saving(s) /\ fd[s] = f => Target(s) = t
      /\ \A s \in Runs : \A x : Unused(<<s, x>>) /\ <<s, x>> # <<r, Part(r)>> => f # <<s, x>>
  <2>1. CASE f = tmp[t]
    <3>1. Names(f, t) /\ f # NoFile
      BY <1>1, <2>1 DEF Names, NoFile, Files
    <3>2. \A q \in Paths : Names(f, q) => q = t
      BY <1>1, <3>1 DEF FileInv, OneName
    <3>3. \A q \in Paths : dir[q] # f
      BY <1>1, <2>1, <3>1, <3>2 DEF FileInv, OneName, Names
    <3>4. \A s \in Runs : Saving(s) /\ fd[s] = f => Target(s) = t
      BY <1>1, <3>1 DEF FileInv, OneName
    <3> QED BY <1>1, <3>1, <3>2, <3>3, <3>4 DEF Unused
  <2>2. CASE f = <<r, Part(r)>> /\ Unused(f)
    BY <2>2 DEF Unused, Names
  <2> QED BY <1>3, <2>1, <2>2
<1>5. /\ tmp'[t] = f /\ \A q \in Paths \ {t} : tmp'[q] = tmp[q]
      /\ fd'[r] = f /\ \A s \in Runs \ {r} : fd'[s] = fd[s]
      /\ file'[f].state = "empty" /\ \A g \in Files \ {f} : file'[g] = file[g]
  BY <1>1 DEF TypeOKPipeline
<1>6. \A g, q : q \in Paths /\ g # f => (Names(g, q)' => Names(g, q))
  BY <1>1, <1>5 DEF Names
<1>7. \A q \in Paths : Names(f, q)' => q = t
  BY <1>1, <1>4, <1>5 DEF Names
<1>8. OneName'
  <2>1. \A p, q \in Paths : \A g \in Files : Names(g, p)' /\ Names(g, q)' => p = q
    BY <1>6, <1>7 DEF FileInv, OneName
  <2>2. \A q \in Paths : dir'[q] # NoFile => dir'[q] # tmp'[q]
    BY <1>1, <1>4, <1>5 DEF FileInv, OneName, Names
  <2>3. ASSUME NEW s \in Runs, Saving(s)', NEW q \in Paths, Names(fd[s], q)' PROVE q = Target(s)'
    <3>0. dir'[q] = fd'[s] \/ tmp'[q] = fd'[s]
      BY <2>3 DEF Names
    <3>1. CASE fd'[s] = f
      <4>1. q = t
        BY <1>7, <3>0, <3>1 DEF Names
      <4>2. Target(s) = t
        BY <1>0, <1>2, <1>4, <1>5, <2>3, <3>1
      <4> QED BY <1>2, <4>1, <4>2
    <3>2. CASE fd'[s] # f
      <4>1. Names(fd'[s], q)
        BY <1>6, <3>0, <3>2 DEF Names
      <4> QED BY <1>2, <1>5, <2>3, <3>2, <4>1 DEF FileInv, OneName
    <3> QED BY <3>1, <3>2
  <2> QED BY <2>1, <2>2, <2>3 DEF OneName, Names
<1>9. NotYetWritten'
  <2>1. ASSUME NEW s \in Runs, NEW x, Unused(<<s, x>>), <<s, x>> # <<r, Part(r)>> PROVE Unused(<<s, x>>)'
    BY <1>4, <1>5, <1>6, <2>1 DEF Unused
  <2>2. ASSUME NEW s \in Runs \ {r}, NEW x PROVE <<s, x>> # <<r, Part(r)>>
    BY <2>2
  <2>3. ASSUME NEW s \in Runs \ {r}
        PROVE  /\ (rpc'[s] \in {"off", "outer", "lookup", "select"} \/ (rpc'[s] = "save" /\ Part(s)' = "unified")) =>
                    Unused(<<s, "unified">>)'
               /\ (\/ rpc'[s] \in {"off", "outer", "lookup", "select", "around", "save"}
                   \/ Saving(s)' /\ Part(s)' = "unified") => Unused(<<s, "outer">>)'
    BY <1>2, <2>1, <2>2 DEF FileInv, NotYetWritten
  <2>4. Part(r) = "unified" => Unused(<<r, "outer">>)'
    BY <1>1, <2>1 DEF FileInv, NotYetWritten
  <2> QED BY <1>2, <2>3, <2>4 DEF NotYetWritten
<1>10. Alone'
  <2> SUFFICES ASSUME NEW s \in Runs, Saving(s)', Target(s)' \notin raced'
               PROVE  /\ tmp'[Target(s)'] = fd'[s]
                      /\ rpc'[s] = "rename" => file'[fd'[s]].state = "whole"
                      /\ ~Shares(s)'
    BY DEF Alone
  <2>1. CASE s = r
    <3>1. ~Shares(r)
      BY <1>0, <1>1, <1>2, <2>1
    <3>2. ~Shares(r)'
      BY <1>2, <3>1 DEF Shares
    <3> QED BY <1>0, <1>2, <1>5, <2>1, <3>2
  <2>2. CASE s # r
    <3>1. Saving(s) /\ Target(s)' = Target(s) /\ Target(s) \in Paths
      BY <1>2, <2>2 DEF InHand, HandOf
    <3>2. Target(s) # t
      BY <1>0, <1>1, <2>2, <3>1 DEF Shares
    <3>3. Target(s) \notin raced
      BY <1>1, <3>1
    <3>4. tmp[Target(s)] = fd[s] /\ (rpc[s] = "rename" => file[fd[s]].state = "whole") /\ ~Shares(s)
      BY <3>1, <3>3 DEF FileInv, Alone
    <3>5. fd[s] # f /\ fd[s] \in Files
      BY <1>4, <2>2, <3>1, <3>2 DEF TypeOKPipeline
    <3>6. ~Shares(s)'
      BY <1>0, <1>2, <2>2, <3>2, <3>4 DEF Shares
    <3> QED BY <1>2, <1>5, <2>2, <3>1, <3>2, <3>4, <3>5, <3>6
  <2> QED BY <2>1, <2>2
<1>11. WellFiled'
  BY <1>5, <1>6 DEF FileInv, WellFiled
<1>12. OnlyARaceTears'
  <2>1. ASSUME NEW q \in Paths, dir[q] # NoFile PROVE dir[q] \in Files \ {f}
    BY <1>4, <2>1 DEF TypeOKPipeline, Names
  <2> QED BY <1>1, <1>5, <2>1 DEF FileInv, OnlyARaceTears
<1> QED BY <1>8, <1>9, <1>10, <1>11, <1>12 DEF FileInv

\* What a run writes into its file: half of the profile, and then the profile, or a mixture
\* where somebody else had the file open.
LEMMA SaveWriteFiles ==
  ASSUME TypeOKPipeline, InHand, FileInv, NEW r \in Runs, SaveHalf(r) \/ SaveRest(r)
  PROVE  FileInv'
<1>1. Saving(r) /\ UNCHANGED <<dir, tmp, raced, prof, fd>>
  BY DEF SaveHalf, SaveRest, Saving
<1>2. PICK pc \in {"half", "rename"} : Goto(r, pc)
  BY DEF SaveHalf, SaveRest
<1>3. PICK x :
        /\ file' = [file EXCEPT ![fd[r]] = x]
        /\ pc = "rename" /\ Target(r) \notin raced => x.state = "whole"
        /\ x.state = "whole" => x.profile = prof[r]
  <2>1. CASE SaveHalf(r)
    <3>1. file' = [file EXCEPT ![fd[r]] = [state |-> "half", profile |-> NoProfile]] /\ Goto(r, "half")
      BY <2>1 DEF SaveHalf
    <3>2. pc = "half"
      BY <1>2, <3>1 DEF Goto, TypeOKPipeline
    <3> DEFINE y == [state |-> "half", profile |-> NoProfile]
    <3>3. y.state = "half" /\ file' = [file EXCEPT ![fd[r]] = y]
      BY <3>1
    <3> HIDE DEF y
    <3> QED BY <3>2, <3>3
  <2>2. CASE SaveRest(r)
    <3>1. PICK state \in (IF Target(r) \in raced THEN {"whole", "torn"} ELSE {"whole"}) :
            file' = [file EXCEPT ![fd[r]] = [state |-> state, profile |-> IF state = "whole" THEN prof[r] ELSE NoProfile]]
      BY <2>2 DEF SaveRest
    <3> DEFINE y == [state |-> state, profile |-> IF state = "whole" THEN prof[r] ELSE NoProfile]
    <3>2. /\ file' = [file EXCEPT ![fd[r]] = y]
          /\ y.state = state
          /\ y.state = "whole" => y.profile = prof[r]
      BY <3>1
    <3>3. Target(r) \notin raced => state = "whole"
      OBVIOUS
    <3> HIDE DEF y
    <3> QED BY <3>2, <3>3
  <2> QED BY <2>1, <2>2
<1>4. /\ rpc'[r] = pc /\ Saving(r)'
      /\ \A s \in Runs : Target(s)' = Target(s) /\ Part(s)' = Part(s)
      /\ \A s \in Runs \ {r} : rpc'[s] = rpc[s] /\ (Saving(s)' <=> Saving(s))
  BY <1>1, <1>2, SaverMoves DEF Saving
<1>5. fd[r] \in Files /\ file'[fd[r]] = x /\ \A g \in Files \ {fd[r]} : file'[g] = file[g]
  BY <1>1, <1>3 DEF TypeOKPipeline
<1>6. \A p \in Paths : Names(fd[r], p) => p = Target(r)
  BY <1>1 DEF FileInv, OneName
<1>7. \A s \in Runs : Shares(s)' <=> Shares(s)
  BY <1>1, <1>4 DEF Shares
<1>8. OneName'
  BY <1>1, <1>4 DEF FileInv, OneName, Names
<1>9. NotYetWritten'
  <2>1. \A f : Unused(f)' <=> Unused(f)
    BY <1>1 DEF Unused, Names
  <2>2. rpc[r] \in {"open", "half", "rename"}
    BY <1>1 DEF Saving
  <2> QED BY <1>1, <1>2, <1>4, <2>1, <2>2 DEF FileInv, NotYetWritten
<1>10. Alone'
  <2> SUFFICES ASSUME NEW s \in Runs, Saving(s)', Target(s)' \notin raced'
               PROVE  /\ tmp'[Target(s)'] = fd'[s]
                      /\ rpc'[s] = "rename" => file'[fd'[s]].state = "whole"
                      /\ ~Shares(s)'
    BY DEF Alone
  <2>1. Saving(s) /\ Target(s)' = Target(s) /\ Target(s) \notin raced /\ Target(s) \in Paths
    BY <1>1, <1>4 DEF InHand, HandOf
  <2>2. tmp[Target(s)] = fd[s] /\ (rpc[s] = "rename" => file[fd[s]].state = "whole") /\ ~Shares(s) /\ fd[s] \in Files
    BY <2>1 DEF FileInv, Alone, TypeOKPipeline
  <2>3. CASE s = r
    BY <1>1, <1>3, <1>4, <1>5, <1>7, <2>1, <2>2, <2>3
  <2>4. CASE s # r
    <3>1. fd[s] # fd[r]
      <4>1. Names(fd[s], Target(s))
        BY <2>2 DEF Names
      <4>2. Target(s) # Target(r)
        BY <1>1, <2>2, <2>4 DEF Shares
      <4> QED BY <1>6, <2>1, <4>1, <4>2
    <3> QED BY <1>1, <1>4, <1>5, <1>7, <2>1, <2>2, <2>4, <3>1
  <2> QED BY <2>3, <2>4
<1>11. WellFiled'
  <2>1. Filed(prof[r]) /\ SavePath(prof[r]) = Target(r)
    BY <1>1 DEF InHand, HandOf, Target
  <2>2. \A p \in Paths, f \in Files : Names(f, p)' <=> Names(f, p)
    BY <1>1 DEF Names
  <2> SUFFICES ASSUME NEW p \in Paths, NEW f \in Files, Names(f, p), file'[f].state = "whole"
               PROVE  Filed(file'[f].profile) /\ SavePath(file'[f].profile) = p
    BY <2>2 DEF WellFiled
  <2>3. CASE f = fd[r]
    BY <1>3, <1>5, <1>6, <2>1, <2>3
  <2>4. CASE f # fd[r]
    BY <1>5, <2>4 DEF FileInv, WellFiled
  <2> QED BY <2>3, <2>4
<1>12. OnlyARaceTears'
  <2> SUFFICES ASSUME NEW p \in Paths, dir[p] # NoFile, file'[dir[p]].state # "whole"
               PROVE  p \in raced
    BY <1>1 DEF OnlyARaceTears
  <2>1. CASE dir[p] = fd[r]
    <3>1. p = Target(r)
      BY <1>6, <2>1 DEF Names
    <3>2. tmp[p] # fd[r]
      BY <2>1 DEF FileInv, OneName
    <3> QED BY <1>1, <3>1, <3>2 DEF FileInv, Alone
  <2>2. CASE dir[p] # fd[r]
    BY <1>5, <2>2 DEF FileInv, OnlyARaceTears, TypeOKPipeline
  <2> QED BY <2>1, <2>2
<1> QED BY <1>8, <1>9, <1>10, <1>11, <1>12 DEF FileInv

\* A run closes its file: the save ends, or somebody else renamed the file, or the run is killed.
LEMMA CloseFiles ==
  ASSUME TypeOKPipeline, InHand, FileInv, NEW r \in Runs, Saving(r), UNCHANGED <<dir, tmp, file, raced, prof>>,
         fd' = [fd EXCEPT ![r] = NoFile], NEW pc \in {"raised", "killed"}, Goto(r, pc)
  PROVE  FileInv'
<1>1. /\ rpc'[r] = pc /\ ~Saving(r)'
      /\ \A s \in Runs : Target(s)' = Target(s) /\ Part(s)' = Part(s)
      /\ \A s \in Runs \ {r} : rpc'[s] = rpc[s] /\ (Saving(s)' <=> Saving(s))
  BY SaverMoves DEF Saving
<1>2. fd'[r] = NoFile /\ \A s \in Runs \ {r} : fd'[s] = fd[s]
  BY DEF TypeOKPipeline
<1>3. OneName'
  BY <1>1, <1>2 DEF FileInv, OneName, Names
<1>4. NotYetWritten'
  <2>1. ASSUME NEW s \in Runs, NEW x, Unused(<<s, x>>) PROVE x \in {"unified", "outer"} => Unused(<<s, x>>)'
    BY <1>2, <2>1 DEF Unused, Names, NoFile
  <2> QED BY <1>1, <2>1 DEF FileInv, NotYetWritten
<1>5. Alone'
  <2>1. \A s \in Runs : Shares(s)' => Shares(s)
    BY <1>1 DEF Shares
  <2> QED BY <1>1, <1>2, <2>1 DEF FileInv, Alone
<1>6. WellFiled' /\ OnlyARaceTears'
  BY DEF FileInv, WellFiled, OnlyARaceTears, Names
<1> QED BY <1>3, <1>4, <1>5, <1>6 DEF FileInv

LEMMA RenameFiles ==
  ASSUME TypeOKPipeline, InHand, FileInv, NEW r \in Runs, SaveReplace(r), tmp[Target(r)] # NoFile
  PROVE  FileInv'
<1>0. PICK t : t = Target(r)
  OBVIOUS
<1>1. /\ rpc[r] = "rename" /\ Saving(r) /\ t \in Paths /\ UNCHANGED <<file, raced, prof>>
      /\ dir' = [dir EXCEPT ![t] = tmp[t]] /\ tmp' = [tmp EXCEPT ![t] = NoFile] /\ fd' = [fd EXCEPT ![r] = NoFile]
  BY <1>0 DEF SaveReplace, InHand, HandOf, Saving
<1>2. PICK pc \in {"around", "served"} : Goto(r, pc) /\ (pc = "around" => Part(r) = "unified")
  BY DEF SaveReplace, AfterUnified
<1>3. /\ rpc'[r] = pc /\ ~Saving(r)'
      /\ \A s \in Runs : Target(s)' = Target(s) /\ Part(s)' = Part(s)
      /\ \A s \in Runs \ {r} : rpc'[s] = rpc[s] /\ (Saving(s)' <=> Saving(s))
  BY <1>1, <1>2, SaverMoves DEF Saving
<1>4. /\ dir'[t] = tmp[t] /\ tmp'[t] = NoFile /\ tmp[t] \in Files /\ fd'[r] = NoFile /\ NoFile \notin Files
      /\ \A p \in Paths \ {t} : dir'[p] = dir[p] /\ tmp'[p] = tmp[p]
      /\ \A s \in Runs \ {r} : fd'[s] = fd[s]
  BY <1>0, <1>1 DEF TypeOKPipeline, NoFile, Files
<1>5. \A f \in Files, p \in Paths : Names(f, p)' => Names(f, p)
  BY <1>4 DEF Names
<1>6. OneName'
  <2>1. \A p, q \in Paths : \A f \in Files : Names(f, p)' /\ Names(f, q)' => p = q
    BY <1>5 DEF FileInv, OneName
  <2>2. \A p \in Paths : dir'[p] # NoFile => dir'[p] # tmp'[p]
    BY <1>4 DEF FileInv, OneName
  <2>3. ASSUME NEW s \in Runs, Saving(s)', NEW p \in Paths, Names(fd[s], p)' PROVE p = Target(s)'
    <3>1. s # r /\ Saving(s) /\ fd'[s] = fd[s] /\ fd[s] \in Files
      BY <1>3, <1>4, <2>3 DEF TypeOKPipeline
    <3>2. Names(fd[s], p)
      BY <1>4, <2>3, <3>1 DEF Names
    <3> QED BY <1>3, <3>1, <3>2 DEF FileInv, OneName
  <2> QED BY <2>1, <2>2, <2>3 DEF OneName, Names
<1>7. NotYetWritten'
  <2>1. ASSUME NEW s \in Runs, NEW x \in {"unified", "outer"}, Unused(<<s, x>>) PROVE Unused(<<s, x>>)'
    <3>1. <<s, x>> \in Files
      BY DEF Files
    <3> QED BY <1>4, <1>5, <2>1, <3>1 DEF Unused
  <2>2. Part(r) = "unified" => Unused(<<r, "outer">>)'
    BY <1>1, <2>1 DEF FileInv, NotYetWritten
  <2> QED BY <1>2, <1>3, <2>1, <2>2 DEF FileInv, NotYetWritten
<1>8. Alone'
  <2> SUFFICES ASSUME NEW s \in Runs, Saving(s)', Target(s)' \notin raced'
               PROVE  /\ tmp'[Target(s)'] = fd'[s]
                      /\ rpc'[s] = "rename" => file'[fd'[s]].state = "whole"
                      /\ ~Shares(s)'
    BY DEF Alone
  <2>1. s # r /\ Saving(s) /\ Target(s)' = Target(s) /\ Target(s) \notin raced /\ Target(s) \in Paths
    BY <1>1, <1>3 DEF InHand, HandOf
  <2>2. tmp[Target(s)] = fd[s] /\ (rpc[s] = "rename" => file[fd[s]].state = "whole") /\ ~Shares(s)
    BY <2>1 DEF FileInv, Alone
  <2>3. Target(s) # t
    BY <1>0, <1>1, <2>1, <2>2 DEF Shares
  <2>4. ~Shares(s)'
    BY <1>3, <2>2 DEF Shares
  <2> QED BY <1>1, <1>3, <1>4, <2>1, <2>2, <2>3, <2>4
<1>9. WellFiled'
  BY <1>1, <1>5 DEF FileInv, WellFiled
<1>10. OnlyARaceTears'
  <2>1. t \notin raced => file[tmp[t]].state = "whole"
    BY <1>0, <1>1 DEF FileInv, Alone
  <2> QED BY <1>1, <1>4, <2>1 DEF FileInv, OnlyARaceTears
<1> QED BY <1>6, <1>7, <1>8, <1>9, <1>10 DEF FileInv

LEMMA FileStep ==
  ASSUME TypeOKPipeline, InHand, FileInv, [Next]_plvars
  PROVE  FileInv'
<1>0. InHand' /\ WellFiled
  BY HandStep DEF FileInv
<1>1. ASSUME NEW r \in Runs, Resolve(r) PROVE FileInv'
  BY <1>0, <1>1, ResolveMoves, ResolveFiles
<1>2. ASSUME NEW r \in Runs, Save(r) PROVE FileInv'
  <2>1. CASE SaveReplace(r) /\ tmp[Target(r)] = NoFile
    BY <2>1, CloseFiles DEF SaveReplace, Saving
  <2> QED BY <1>2, <2>1, SaveOpenFiles, SaveWriteFiles, RenameFiles DEF Save
<1>3. ASSUME NEW r \in Runs, Kill(r) PROVE FileInv'
  BY <1>3, CloseFiles DEF Kill, dvars
<1>4. CASE UNCHANGED <<dir, tmp, file, raced, rpc, prof, fd>>
  BY <1>4 DEF FileInv, OneName, NotYetWritten, Alone, WellFiled, OnlyARaceTears, Names, Unused, Shares, Saving,
              Target, Part
<1>5. ASSUME NEW b, NEW v, Install(b, v) PROVE FileInv'
  BY <1>4, <1>5 DEF Install, dvars
<1>6. CASE UNCHANGED plvars
  BY <1>4, <1>6 DEF plvars
<1> QED BY <1>1, <1>2, <1>3, <1>5, <1>6 DEF Next

-----------------------------------------------------------------------------
(* The theorems.                                                           *)

LEMMA InitPipeline == Init => PipelineInv
<1> SUFFICES ASSUME Init PROVE PipelineInv
  OBVIOUS
<1>1. version \in [Engines -> Nat] /\ \A r \in Runs : rpc[r] = "off" /\ fd[r] = NoFile /\ prof[r] = NoProfile
  BY DEF Init
<1>2. \A p \in Paths : dir[p] = NoFile /\ tmp[p] = NoFile
  BY DEF Init
<1>3. NoFile \notin Files /\ \A r \in Runs, x \in {"unified", "outer"} : <<r, x>> # NoFile /\ <<r, x>> \in Files
  BY DEF NoFile, Files
<1>4. TypeOKPipeline
  BY <1>1, <1>2 DEF Init, TypeOKPipeline, Saving
<1>5. InHand
  BY <1>1 DEF InHand, HandOf, Saving
<1>6. \A f \in Files, p \in Paths : ~Names(f, p)
  BY <1>2, <1>3 DEF Names
<1>7. OneName /\ WellFiled /\ Alone
  BY <1>1, <1>2, <1>6 DEF OneName, WellFiled, Alone, Saving
<1>8. NotYetWritten
  BY <1>1, <1>3, <1>6 DEF NotYetWritten, Unused
<1>9. OnlyARaceTears
  BY <1>2 DEF OnlyARaceTears
<1> QED BY <1>4, <1>5, <1>7, <1>8, <1>9 DEF PipelineInv

\* What every state of the cache and of its runs satisfies: what a run has in hand is for its
\* request and for the machine it probed, a file has one name and no second writer but in a race,
\* and what can be read whole is stored under the name its own command looks it up by.
THEOREM PipelineKeepsCache == Spec => []PipelineInv
<1>1. PipelineInv /\ [Next]_plvars => PipelineInv'
  BY TypeStep, HandStep, FileStep DEF PipelineInv, FileInv
<1> QED BY <1>1, InitPipeline, PTL DEF Spec

\* A run serves what its own command asked for, cached, calibrated or fallen back, whatever the other
\* runs left in the cache.
THEOREM RequestServed == Spec => []ServedForRequest
<1>1. ASSUME PipelineInv, NEW r \in Runs, rpc[r] = "served", ~rq[r].skip
      PROVE  /\ prof[r].objective = rq[r].objective
             /\ prof[r].quant \in Allowed(rq[r], prof[r].backend)
             /\ rq[r].force \in {"none", prof[r].backend}
             /\ prof[r].power = rq[r].power
             /\ prof[r].shape \in Answers(rq[r])
  <2> DEFINE q == rq[r]
             p == prof[r]
  <2>1. q \in Requests /\ Filed(p) /\ HandOf(r)
    BY <1>1 DEF PipelineInv, InHand, HandOf
  <2>2. Usable(p, q) /\ p.objective = q.objective /\ p.power = q.power /\ p.shape \in Answers(q)
    <3>1. CASE IsUnified(p)
      <4>1. ~IsOuter(r) /\ SavePath(p) = UnifiedPath(Inner(q)) /\ Usable(p, Inner(q))
        BY <1>1, <2>1, <3>1 DEF HandOf
      <4>2. q.phases = "unified" /\ q.layout = "single" /\ Inner(q) = q
        BY <1>1, <2>1, <4>1, InnerKeeps DEF IsOuter, IsPhased, IsLayout
      <4>3. p.objective = q.objective /\ p.power = q.power
        BY <4>1, <4>2, SamePath
      <4> QED BY <2>1, <3>1, <4>1, <4>2, <4>3 DEF Filed, IsUnified, Answers
    <3>2. CASE ~IsUnified(p)
      <4>1. IsFor(p, q) /\ Usable(p, q)
        BY <1>1, <2>1, <3>2 DEF HandOf
      <4> QED BY <2>1, <4>1 DEF IsFor, Filed, Answers
    <3> QED BY <3>1, <3>2
  <2>3. p.quant \in Allowed(q, p.backend)
    BY <2>1, <2>2 DEF Usable, Allowed, Filed
  <2> QED BY <2>2, <2>3 DEF Usable
<1>2. PipelineInv => ServedForRequest
  BY <1>1 DEF ServedForRequest
<1> QED BY <1>2, PipelineKeepsCache, PTL

\* What is served is of a version of the backend that the run found on the machine, whatever is
\* upgraded or removed in between.
THEOREM CurrentServed == Spec => []ServedIsCurrent
<1>1. PipelineInv => ServedIsCurrent
  BY DEF PipelineInv, InHand, HandOf, Fresh, ServedIsCurrent
<1> QED BY <1>1, PipelineKeepsCache, PTL

\* A torn profile can be read only where two runs saved the same one at once, whoever is killed.
THEOREM WholeUnlessRaced == Spec => []OnlyARaceTears
<1>1. PipelineInv => OnlyARaceTears
  BY DEF PipelineInv
<1> QED BY <1>1, PipelineKeepsCache, PTL

-----------------------------------------------------------------------------
(* A command that is run again.                                            *)

LEMMA SameCommand ==
  ASSUME NEW m \in Requests, NEW q \in Requests, Command(m) = Command(q)
  PROVE  /\ m.objective = q.objective /\ m.percentile = q.percentile /\ m.force = q.force /\ m.quants = q.quants
         /\ m.power = q.power /\ m.phases = q.phases /\ m.layout = q.layout /\ m.skip = q.skip
<1>1. /\ Command(m).objective = m.objective /\ Command(m).percentile = m.percentile /\ Command(m).force = m.force
      /\ Command(m).quants = m.quants /\ Command(m).power = m.power /\ Command(m).phases = m.phases
      /\ Command(m).layout = m.layout /\ Command(m).skip = m.skip
  BY RequestsAssumption DEF Command
<1>2. /\ Command(q).objective = q.objective /\ Command(q).percentile = q.percentile /\ Command(q).force = q.force
      /\ Command(q).quants = q.quants /\ Command(q).power = q.power /\ Command(q).phases = q.phases
      /\ Command(q).layout = q.layout /\ Command(q).skip = q.skip
  BY RequestsAssumption DEF Command
<1> QED BY <1>1, <1>2

\* Both look a profile up under the same name, and may use the same profiles.
LEMMA SameLookup ==
  ASSUME NEW m \in Requests, NEW q \in Requests, Command(m) = Command(q)
  PROVE  /\ UnifiedPath(Inner(m)) = UnifiedPath(Inner(q)) /\ LayoutPath(m) = LayoutPath(q)
         /\ \A p : Usable(p, Inner(m)) <=> Usable(p, Inner(q))
<1>1. \A o : OptionsKey(m, o) = OptionsKey(q, o)
  BY SameCommand DEF OptionsKey
<1>2. /\ Inner(m).objective = Inner(q).objective /\ Inner(m).power = Inner(q).power
      /\ Inner(m).force = Inner(q).force /\ Inner(m).quants = Inner(q).quants
  <2>1. \A x \in Requests :
          /\ Inner(x).force = IF IsPhased(x) /\ x.force = "none" /\ x.phases = "disaggregated" THEN "vllm" ELSE x.force
          /\ Inner(x).power = IF IsPhased(x) /\ x.phases # "auto" THEN "off" ELSE x.power
    BY RequestsAssumption DEF Inner
  <2> QED BY <2>1, SameCommand, InnerKeeps DEF IsPhased
<1>3. UnifiedPath(Inner(m)) = UnifiedPath(Inner(q))
  BY <1>1, <1>2, SameOptions DEF UnifiedPath
<1>4. LayoutPath(m) = LayoutPath(q)
  BY <1>1, SameCommand DEF LayoutPath
<1>5. \A p : Usable(p, Inner(m)) <=> Usable(p, Inner(q))
  BY <1>2 DEF Usable, Allowed
<1> QED BY <1>3, <1>4, <1>5

\* A profile on the disk that was made for this command is a hit under the name it is filed by.
LEMMA OnDiskHits ==
  ASSUME TypeOKPipeline, WellFiled, NEW q \in Requests, NEW layout, NEW machine,
         OnDiskFor(q, "unified", layout, machine)
  PROVE  Hit(IF layout = "single" THEN UnifiedPath(Inner(q)) ELSE LayoutPath(q), machine, Inner(q))
<1>1. PICK p \in Paths : /\ Cached(p, machine)
                         /\ Command(file[dir[p]].profile.madeFor) = Command(q)
                         /\ file[dir[p]].profile.phases = "unified" /\ file[dir[p]].profile.layout = layout
  BY DEF OnDiskFor
<1>2. PICK c : c = file[dir[p]].profile
  OBVIOUS
<1>3. dir[p] \in Files /\ Names(dir[p], p) /\ file[dir[p]].state = "whole"
  BY <1>1 DEF Cached, OnFile, TypeOKPipeline, Names
<1>4. Filed(c) /\ SavePath(c) = p
  BY <1>2, <1>3 DEF WellFiled
<1>5. c.madeFor \in Requests
  BY <1>4 DEF Filed, Profiles
<1>6. p = IF layout = "single" THEN UnifiedPath(Inner(q)) ELSE LayoutPath(q)
  BY <1>1, <1>2, <1>4, <1>5, SameLookup DEF Filed, IsUnified
<1>7. Usable(c, Inner(q))
  BY <1>1, <1>2, <1>4, <1>5, SameLookup DEF Filed
<1> QED BY <1>1, <1>2, <1>6, <1>7 DEF Hit

\* Only a miss takes a run from a lookup to a calibration.
LEMMA WhoMisses ==
  ASSUME TypeOKPipeline, Next, NEW r \in Runs
  PROVE  /\ rpc[r] = "lookup" /\ rpc'[r] = "select" => LookupMiss(r)
         /\ rpc[r] = "outer" /\ rpc'[r] \notin {"outer", "served"} => OuterMiss(r)
<1>1. ASSUME NEW s \in Runs, NEW pc, Goto(s, pc), s # r PROVE rpc'[r] = rpc[r]
  BY <1>1 DEF Goto, TypeOKPipeline
<1>2. ASSUME NEW s \in Runs, Resolve(s) \/ Save(s) \/ Kill(s), s # r PROVE rpc'[r] = rpc[r]
  <2>1. \E pc : Goto(s, pc)
    BY <1>2 DEF Resolve, Begin, OuterHit, OuterMiss, LookupHit, LookupMiss, Calibrate, Defaults, CalibrateFails,
                Around, AroundFails, Save, SaveOpen, SaveHalf, SaveRest, SaveReplace, Kill
  <2> QED BY <1>1, <1>2, <2>1
<1>3. ASSUME NEW b, NEW v, Install(b, v) PROVE rpc' = rpc
  BY <1>3 DEF Install
<1>4. ASSUME rpc[r] \in {"lookup", "outer"}, Resolve(r) \/ Save(r) \/ Kill(r)
      PROVE  OuterHit(r) \/ OuterMiss(r) \/ LookupHit(r) \/ LookupMiss(r)
  BY <1>4 DEF Resolve, Begin, Calibrate, Defaults, CalibrateFails, Around, AroundFails, Save, SaveOpen, SaveHalf,
              SaveRest, SaveReplace, Kill, Saving
<1>5. OuterHit(r) => rpc[r] = "outer" /\ rpc'[r] = "served"
  BY DEF OuterHit, Goto, TypeOKPipeline
<1>6. LookupHit(r) => rpc[r] = "lookup" /\ rpc'[r] # "select"
  BY DEF LookupHit, Goto, TypeOKPipeline, AfterUnified
<1>7. (OuterMiss(r) => rpc[r] = "outer") /\ (LookupMiss(r) => rpc[r] = "lookup")
  BY DEF OuterMiss, LookupMiss
<1> QED BY <1>2, <1>3, <1>4, <1>5, <1>6, <1>7 DEF Next

\* A unified or a multi-GPU command that is run again, on the same machine, finds what it saved.
THEOREM CalibratedOnce == Spec => UnphasedFoundAgain
<1>1. ASSUME PipelineInv, Next, NEW r \in Runs, ~IsPhased(rq[r]) PROVE ~Misses(r)
  <2>1. TypeOKPipeline /\ WellFiled /\ HandOf(r)
    BY <1>1 DEF PipelineInv, InHand
  <2>2. rpc[r] # "off" => rq[r] \in Requests /\ Inner(rq[r]) = rq[r]
    BY <1>1, <2>1, InnerKeeps DEF HandOf
  <2>3. ~(rpc[r] = "lookup" /\ rpc'[r] = "select" /\ OnDiskFor(rq[r], "unified", "single", seen[r]))
    <3> SUFFICES ASSUME rpc[r] = "lookup", rpc'[r] = "select", OnDiskFor(rq[r], "unified", "single", seen[r])
                 PROVE  FALSE
      OBVIOUS
    <3>1. LookupMiss(r)
      BY <1>1, <2>1, WhoMisses
    <3>2. Hit(UnifiedPath(Inner(rq[r])), seen[r], Inner(rq[r]))
      BY <2>1, <2>2, OnDiskHits
    <3> QED BY <3>1, <3>2 DEF LookupMiss
  <2>4. ~(/\ rpc[r] = "outer" /\ ~rq[r].recalibrate /\ rpc'[r] \notin {"outer", "served"}
          /\ OnDiskFor(rq[r], rq[r].phases, rq[r].layout, seen[r]))
    <3> SUFFICES ASSUME rpc[r] = "outer", ~rq[r].recalibrate, rpc'[r] \notin {"outer", "served"},
                        OnDiskFor(rq[r], rq[r].phases, rq[r].layout, seen[r])
                 PROVE  FALSE
      OBVIOUS
    <3>1. OuterMiss(r)
      BY <1>1, <2>1, WhoMisses
    <3>2. rq[r].phases = "unified" /\ rq[r].layout # "single" /\ OuterPath(rq[r]) = LayoutPath(rq[r])
      BY <1>1, <2>1 DEF HandOf, IsOuter, IsPhased, IsLayout, OuterPath
    <3>3. Hit(OuterPath(rq[r]), seen[r], rq[r])
      BY <2>1, <2>2, <3>2, OnDiskHits
    <3> QED BY <3>1, <3>3 DEF OuterMiss
  <2> QED BY <2>3, <2>4 DEF Misses
<1>2. PipelineInv /\ [Next]_plvars => [\A r \in Runs : ~IsPhased(rq[r]) => ~Misses(r)]_plvars
  BY <1>1
<1> QED BY <1>2, PipelineKeepsCache, PTL DEF Spec, UnphasedFoundAgain
=============================================================================
