------------------------------ MODULE Planner ------------------------------
(***************************************************************************)
(* From a machine and a model to the configurations worth measuring:       *)
(* polyserve/selector.py, memory.py and prepare_and_plan of pipeline.py.   *)
(*                                                                         *)
(* Each candidate engine in turn is prepared, its grid is cut down to what *)
(* fits in memory, the weights of what is left are downloaded or           *)
(* converted, and the grid is planned again with their true sizes.  A step *)
(* of an engine that fails is recorded, and the next engine has its turn.  *)
(* Without a calibration nothing is fetched while planning: one            *)
(* configuration is chosen from the plan, and its weights are fetched then.*)
(***************************************************************************)
EXTENDS Engines

CONSTANTS
  Machines,      \* the machines: [gpu, gpus, cc, vram, vramFree, ram, ramFree, avx512, vllm, ..., has]
  Models,        \* the models: [params, layers, maxPos, kvTok, family, hub]
  Asked,         \* the requests: [quants, force, minCtx, shared, prefixOff, materialize]
  SizeErrors     \* bound: a file's true size, in percent of its estimate

\* An engine that is not known is refused before anything else (selector.py:30).
ASSUME RequestsAssumption == \A r \in Asked : r.force \in Backends \cup {"none"}

ASSUME ModelsAssumption == \A m \in Models : m.maxPos \in Nat

VARIABLES
  hw, model, asked,  \* the input
  ppc,           \* "select", "next", "fetch", "convert", "fetched", "done", "served", "failed"
  queue,         \* the candidates left, the first one in hand
  candidates,
  prepared,      \* prepared[b]: the prepared model, or NotPrepared
  gridQuants,    \* the precisions the grid of b was made of
  feasible,      \* feasible[b]: the configurations kept
  errors,        \* the engines whose preparation failed
  wanted,        \* the precisions still to fetch or to convert
  chosen         \* the configuration served uncalibrated, or NoChoice

pvars == <<hw, model, asked, ppc, queue, candidates, prepared, gridQuants, feasible, errors, wanted, chosen>>
planVars == <<prepared, gridQuants, feasible>>

AutoQuant == "auto"
NotPrepared == [weights |-> <<>>, source |-> <<>>]
NoChoice == [backend |-> "none"]

-----------------------------------------------------------------------------
(* memory.py                                                               *)

SafetyMargin(available) == Max({(5 * available) \div 100, 512})

\* Bytes of an element of the cache, in thirty-seconds.
KvElement(kv) ==
  CASE kv = "auto"                -> 64
    [] kv = "q8_0"                -> 34
    [] kv = "q4_0"                -> 18
    [] kv = "int8_per_token_head" -> 34
    [] OTHER                      -> 32

\* llama.cpp allocates every slot's context, the others page it.
KvTokens(c) == IF IsLlama(c.backend) THEN c.ctx * c.batch ELSE (c.ctx * c.batch) \div 4

KvCache(pm, c) == (pm.kvTok * KvElement(c.kv) * KvTokens(c)) \div (32 * 1024)

Workspace(b) ==
  CASE b = "vllm"          -> 1536
    [] b = "sglang"        -> 2048
    [] b = "llamacpp-cuda" -> 768
    [] b = "llamacpp-cpu"  -> 512
    [] b = "vllm-cpu"      -> 1024

OnGpu(b) == b \in {"vllm", "sglang", "llamacpp-cuda"}

\* The part of an amount that lands on each device: the offloaded layers, one shard of them.
Share(amount, pm, c) ==
  (IF OnGpu(c.backend) /\ c.ngl # NoOffload
   THEN (amount * Min({Max({c.ngl, 0}), pm.layers})) \div pm.layers
   ELSE amount) \div c.tp

Available(m, c) == IF OnGpu(c.backend) /\ m.gpu # "none" THEN m.vramFree ELSE m.ramFree

Need(m, pm, c) ==
  Share(pm.weights[c.quant], pm, c) + Share(KvCache(pm, c), pm, c) + Workspace(c.backend)
    + SafetyMargin(Available(m, c))

Budget(m, c) ==
  IF c.gmu # 0 /\ m.gpu # "none" /\ OnGpu(c.backend)
  THEN Min({(95 * Available(m, c)) \div 100, (c.gmu * m.vram) \div 100})
  ELSE (95 * Available(m, c)) \div 100

\* estimate(...).feasible; no size recorded for the precision is an exception.
Sized(pm, c) == c.quant \in DOMAIN pm.weights
Fits(m, pm, c) == Sized(pm, c) /\ Need(m, pm, c) <= Budget(m, c)

\* The layers that stay on the host must fit there.
HostNeed(m, pm, c) ==
  (pm.weights[c.quant] * (pm.layers - c.ngl)) \div pm.layers + SafetyMargin(m.ramFree)

HostHolds(m, pm, c) ==
  OnGpu(c.backend) /\ c.ngl # NoOffload /\ c.ngl < pm.layers
    => 100 * HostNeed(m, pm, c) <= 95 * m.ramFree

Plan(m, pm, configs) == {c \in configs : Fits(m, pm, c) /\ HostHolds(m, pm, c)}

-----------------------------------------------------------------------------
(* selector.py                                                             *)

Usable(b) == b \in hw.has /\ Supports(b, hw)

If(cond, b) == IF cond THEN <<b>> ELSE <<>>

OnNvidia ==
  If(hw.cc >= Turing /\ Usable("vllm"), "vllm") \o If(hw.cc >= Turing /\ Usable("sglang"), "sglang")
    \o If(Usable("llamacpp-cuda"), "llamacpp-cuda")

SelectBackends ==
  IF asked.force # "none" THEN <<asked.force>>
  ELSE IF hw.gpu = "none" THEN If(Usable("llamacpp-cpu"), "llamacpp-cpu") \o If(Usable("vllm-cpu"), "vllm-cpu")
  ELSE IF hw.gpu = "nvidia" /\ OnNvidia # <<>> THEN OnNvidia
  ELSE If(Usable("llamacpp-cpu"), "llamacpp-cpu")

-----------------------------------------------------------------------------
(* Preparing one engine.                                                   *)

\* --quant: auto is every precision but the pre-quantized checkpoints.
AllowedQuants(supported) ==
  {q \in supported : q \in asked.quants \/ (AutoQuant \in asked.quants /\ q \notin PreQuantized)}

\* Hundredths of a byte per parameter.
BytesPerParam(q) ==
  CASE q \in {"bf16", "fp16", "F16"} -> 200
    [] q = "fp8"                     -> 100
    [] q \in Int4Methods             -> 55
    [] q = "w8a8"                    -> 105
    [] q = "Q4_K_M"                  -> 60
    [] q = "Q8_0"                    -> 106

SizeOf(q) == (model.params * BytesPerParam(q)) \div 100

\* A checkpoint the Hub does not have is no option; a GGUF it does not have can be converted.
Offered(b) == {q \in AllowedQuants(Precisions(b, hw)) : q \in PreQuantized => q \in model.hub}

Source(b, q) == IF ~IsLlama(b) THEN "engine" ELSE IF q \in model.hub THEN "hub" ELSE "convert"

Prepared(b) ==
  [weights |-> [q \in Offered(b) |-> SizeOf(q)], source |-> [q \in Offered(b) |-> Source(b, q)],
   layers |-> model.layers, maxPos |-> model.maxPos, kvTok |-> model.kvTok, family |-> model.family,
   draft |-> IF model.family /\ IsLlama(b) THEN "hub" ELSE "none"]

\* The grid that was enumerated when the engine was prepared.
GridOf(b) ==
  CandidateConfigs(b, hw, [prepared[b] EXCEPT !.weights = [q \in gridQuants[b] |-> 0]], asked.minCtx)

-----------------------------------------------------------------------------
InitPlanner ==
  /\ hw \in Machines
  /\ model \in Models
  /\ asked \in Asked
  /\ ppc = "select"
  /\ queue = <<>>
  /\ candidates = <<>>
  /\ prepared = [b \in Backends |-> NotPrepared]
  /\ gridQuants = [b \in Backends |-> {}]
  /\ feasible = [b \in Backends |-> {}]
  /\ errors = {}
  /\ wanted = {}
  /\ chosen = NoChoice

Select ==
  /\ ppc = "select"
  /\ candidates' = SelectBackends
  /\ queue' = SelectBackends
  /\ ppc' = "next"
  /\ UNCHANGED <<hw, model, asked, chosen, planVars, errors, wanted>>

\* The engine in hand is done with, with or without an error.
NextEngine(failed) ==
  /\ queue' = Tail(queue)
  /\ errors' = IF failed THEN errors \cup {Head(queue)} ELSE errors
  /\ ppc' = "next"
  /\ wanted' = {}

\* --quant names none of its precisions, the model cannot hold the workload, or the Hub does not answer.
PrepareFails ==
  /\ ppc = "next" /\ queue # <<>>
  /\ NextEngine(TRUE)
  /\ UNCHANGED <<hw, model, asked, chosen, candidates, planVars>>

Keep(b, pm) == Plan(hw, pm, CandidateConfigs(b, hw, pm, asked.minCtx))

PrepareEngine(b, pm, kept) ==
  /\ AllowedQuants(Precisions(b, hw)) # {}
  /\ CandidateConfigs(b, hw, pm, asked.minCtx) # {}
  /\ prepared' = [prepared EXCEPT ![b] = pm]
  /\ gridQuants' = [gridQuants EXCEPT ![b] = DOMAIN pm.weights]
  /\ feasible' = [feasible EXCEPT ![b] = kept]
  /\ IF asked.materialize /\ kept # {}
     THEN /\ wanted' = {c.quant : c \in kept}
          /\ ppc' = "fetch"
          /\ UNCHANGED <<queue, errors>>
     ELSE NextEngine(FALSE)
  /\ UNCHANGED <<hw, model, asked, chosen, candidates>>

Prepare ==
  /\ ppc = "next" /\ queue # <<>>
  /\ PrepareEngine(Head(queue), Prepared(Head(queue)), Keep(Head(queue), Prepared(Head(queue))))

\* Where the weights of a precision are: on the Hub, to be converted, on disk, or the engine's own.
SourceIs(b, q, where) == q \in DOMAIN prepared[b].source /\ prepared[b].source[q] = where

\* A file that is on disk has its true size.
OnDisk(b, Q, percent) ==
  prepared' = [prepared EXCEPT ![b].source = [q \in DOMAIN @ |-> IF q \in Q THEN "disk" ELSE @[q]],
                               ![b].weights = [q \in DOMAIN @ |-> IF q \in Q THEN (@[q] * percent) \div 100 ELSE @[q]]]

Download(b, q) ==
  /\ ppc = "fetch" /\ queue # <<>> /\ b = Head(queue)
  /\ q \in wanted /\ SourceIs(b, q, "hub")
  /\ \E percent \in SizeErrors : OnDisk(b, {q}, percent)
  /\ wanted' = wanted \ {q}
  /\ UNCHANGED <<hw, model, asked, chosen, ppc, queue, candidates, gridQuants, feasible, errors>>

\* A download, the conversion script or the quantizer may raise.
MayRaise ==
  /\ ppc \in {"fetch", "convert"}
  /\ \E q \in wanted : SourceIs(Head(queue), q, "hub") \/ SourceIs(Head(queue), q, "convert")

MaterializeFails ==
  /\ asked.materialize /\ MayRaise
  /\ NextEngine(TRUE)
  /\ UNCHANGED <<hw, model, asked, chosen, candidates, planVars>>

\* The other engines fetch their weights at launch.
Downloaded ==
  /\ ppc = "fetch"
  /\ \A q \in wanted : ~SourceIs(Head(queue), q, "hub")
  /\ wanted' = {q \in wanted : SourceIs(Head(queue), q, "convert")}
  /\ ppc' = IF wanted' = {} THEN "fetched" ELSE "convert"
  /\ UNCHANGED <<hw, model, asked, chosen, queue, candidates, planVars, errors>>

\* The files that were made have their true sizes, and the table keeps the precisions Q.
Converted(b, made, size, Q) ==
  prepared' = [prepared EXCEPT
    ![b].source = [q \in Q |-> IF q \in made THEN "disk" ELSE @[q]],
    ![b].weights = [q \in Q |-> IF q \in made THEN (SizeOf(q) * size[q]) \div 100 ELSE @[q]]]

\* A conversion that leaves the precisions it could not make in the table.
Recorded_All(b, made, missing) == DOMAIN prepared[b].weights \cup made

\* What could not be made is dropped from the table.
Recorded(b, made, missing) == (DOMAIN prepared[b].weights \ missing) \cup made

\* Without the quantizer only what an earlier run left is there, and with none of it the F16 file stands for all.
Convert ==
  /\ ppc = "convert"
  /\ \E made \in SUBSET wanted :
       LET files == IF made = {} THEN {"F16"} ELSE made
       IN  \E size \in [files -> SizeErrors] :
             Converted(Head(queue), files, size, Recorded(Head(queue), files, wanted \ files))
  /\ wanted' = {}
  /\ ppc' = "fetched"
  /\ UNCHANGED <<hw, model, asked, chosen, queue, candidates, gridQuants, feasible, errors>>

\* The draft model, wanted beside the weights; it may be out of reach.
FetchDraft(b) ==
  /\ ppc = "fetched" /\ b = Head(queue)
  /\ prepared[b].draft = "hub"
  /\ \E d \in {"disk", "none"} : prepared' = [prepared EXCEPT ![b].draft = d]
  /\ UNCHANGED <<hw, model, asked, chosen, ppc, queue, candidates, gridQuants, feasible, errors, wanted>>

\* A re-plan that leaves the estimates.
Replanned_Kept(b) == feasible[b]

Replanned(b) == Plan(hw, prepared[b], GridOf(b))

\* A precision of the grid without a recorded size ends it with a KeyError.
ReplanEngine(b) ==
  /\ prepared[b].draft # "hub"
  /\ IF gridQuants[b] \subseteq DOMAIN prepared[b].weights
     THEN /\ feasible' = [feasible EXCEPT ![b] = Replanned(b)]
          /\ NextEngine(FALSE)
     ELSE /\ NextEngine(TRUE)
          /\ UNCHANGED feasible
  /\ UNCHANGED <<hw, model, asked, chosen, candidates, prepared, gridQuants>>

Replan == ppc = "fetched" /\ asked.materialize /\ ReplanEngine(Head(queue))

Finish ==
  /\ ppc = "next" /\ queue = <<>>
  /\ ppc' = "done"
  /\ UNCHANGED <<hw, model, asked, chosen, queue, candidates, planVars, errors, wanted>>

-----------------------------------------------------------------------------
(* Serving without a calibration (default_profile).                        *)

IsPrepared(b) == DOMAIN prepared[b].weights # {}

\* The first candidate that was prepared.
Uncalibrated(b) ==
  /\ IsPrepared(b)
  /\ \E i \in DOMAIN candidates : candidates[i] = b /\ \A j \in 1..(i - 1) : ~IsPrepared(candidates[j])

\* The default of the engine, or one of the roomiest of what fits when the default does not.
Preferred(b) ==
  LET cfg == DefaultConfig(b, hw, prepared[b], asked.minCtx)
      Roomier(c, d) == c.ctx > d.ctx \/ (c.ctx = d.ctx /\ c.batch > d.batch)
  IN  IF feasible[b] = {} \/ cfg \in feasible[b] THEN {cfg}
      ELSE {c \in feasible[b] : \A d \in feasible[b] : ~Roomier(d, c)}

\* In a precision whose size is recorded, which one is left open when the preferred one has none.
DefaultChoices(b) ==
  UNION {{[c EXCEPT !.quant = q] : q \in IF Sized(prepared[b], c) THEN {c.quant} ELSE DOMAIN prepared[b].weights} :
           c \in Preferred(b)}

ChooseConfig(b, c) ==
  /\ chosen' = c
  /\ queue' = <<b>>
  /\ wanted' = {c.quant}
  /\ ppc' = "fetch"
  /\ UNCHANGED <<hw, model, asked, candidates, planVars, errors>>

\* The choice is made from the estimates, and only then are its weights fetched.
Choose ==
  /\ ppc = "done" /\ ~asked.materialize
  /\ \E b \in Backends : Uncalibrated(b) /\ \E c \in DefaultChoices(b) : ChooseConfig(b, c)

\* The weights of a configuration are where its server looks for them.
InPlace(c) == SourceIs(c.backend, c.quant, "disk") \/ SourceIs(c.backend, c.quant, "engine")

\* launch_spec of llama.cpp looks for the file; the other servers fetch whatever they are told to.
Launches(c) == IsLlama(c.backend) => InPlace(c)

\* The server is started with what there is, and nothing is planned again.
Serve ==
  /\ ppc = "fetched" /\ ~asked.materialize
  /\ prepared[chosen.backend].draft # "hub"
  /\ Launches(chosen)
  /\ ppc' = "served"
  /\ UNCHANGED <<hw, model, asked, chosen, queue, candidates, planVars, errors, wanted>>

\* No engine was prepared, its weights cannot be had, or launch_spec does not find them.
ServeFails ==
  /\ ~asked.materialize
  /\ \/ ppc = "done" /\ \A b \in ToSet(candidates) : ~IsPrepared(b)
     \/ MayRaise
     \/ ppc = "fetched" /\ prepared[chosen.backend].draft # "hub" /\ ~Launches(chosen)
  /\ ppc' = "failed"
  /\ UNCHANGED <<hw, model, asked, chosen, queue, candidates, planVars, errors, wanted>>

Fetch == \E b \in Backends : FetchDraft(b) \/ \E q \in wanted : Download(b, q)

NextPlanner ==
  \/ Select \/ Prepare \/ PrepareFails \/ Fetch \/ MaterializeFails \/ Downloaded \/ Convert \/ Replan \/ Finish
  \/ Choose \/ Serve \/ ServeFails

SpecPlanner == InitPlanner /\ [][NextPlanner]_pvars

-----------------------------------------------------------------------------
(* What the search makes of a plan.                                        *)

\* The quantized caches that fit, and the next batch size where only they do.
KvVariants(c, pm) ==
  LET bigger == {n \in BatchLadder(c.backend) : n > c.batch}
      Step(v) == [v EXCEPT !.batch = Min(bigger), !.pb = IF @ < Min(bigger) THEN 0 ELSE @]
      quantized == {[c EXCEPT !.kv = kv] : kv \in KvDtypes(c.backend, hw) \ {c.kv}}
  IN  {v \in quantized : Fits(hw, pm, v)}
        \cup (IF bigger = {} THEN {}
              ELSE {v \in {Step(w) : w \in quantized} : Fits(hw, pm, v) /\ ~Fits(hw, pm, [v EXCEPT !.kv = c.kv])})

\* Whether a combination of strategies can run: its prefill budget covers its batch, and it fits.
CombinationFits(c) ==
  /\ ~(c.backend = "sglang" /\ hw.gpu # "none" /\ hw.vram < 32 * 1024 /\ c.pb >= 8192)
  /\ IsPrepared(c.backend)
  /\ c.pb # 0 /\ c.pb < c.batch => IsLlama(c.backend)
  /\ Fits(hw, prepared[c.backend], c)

\* tp_candidates: the winner on n GPUs, and with the freed memory spent on batch; each must fit.
TpCandidates(c, n) ==
  LET base == [c EXCEPT !.tp = n, !.gmu = IF @ = 0 THEN 0 ELSE Min({@, 90})]
      doubled == [base EXCEPT !.batch = 2 * @, !.pb = IF @ < 2 * c.batch THEN 0 ELSE @]
  IN  {v \in {base, doubled} : Fits(hw, prepared[c.backend], v)}

\* candidate_pairs: the winner as a prefill and as a decode engine, each fitting on its own GPU.
PrefillPool(c) == {[c EXCEPT !.batch = Min({@, 64}), !.pb = pb] : pb \in {8192, 16384}}
DecodePool(c) == {[c EXCEPT !.batch = n, !.pb = 2048] : n \in {c.batch, 256}}
CandidatePairs(c) ==
  {pair \in PrefillPool(c) \X DecodePool(c) :
     Fits(hw, prepared[c.backend], pair[1]) /\ Fits(hw, prepared[c.backend], pair[2])}

AllFeasible ==
  {[c EXCEPT !.prefix = IF asked.prefixOff THEN "off" ELSE @] : c \in UNION {feasible[b] : b \in Backends}}

WithPrefill(c) == PrefillVariants(c)
WithKv(c) == KvVariants(c, prepared[c.backend])
WithPrefix(c) == IF asked.shared /\ ~asked.prefixOff THEN PrefixVariants(c) ELSE {}
WithSpec(c) == SpecVariants(c, hw, prepared[c.backend])

\* Every configuration calibration could reach, the stages one after the other.
SearchSpace ==
  LET prefill == AllFeasible \cup UNION {WithPrefill(c) : c \in AllFeasible}
      kv      == prefill \cup UNION {WithKv(c) : c \in prefill}
      prefix  == kv \cup UNION {WithPrefix(c) : c \in kv}
      spec    == prefix \cup UNION {WithSpec(c) : c \in prefix}
  IN  {c \in spec : CombinationFits(c)}

\* What may be measured around a winner on several GPUs.
MultiGpuSpace ==
  IF hw.gpus < 2 THEN {}
  ELSE (UNION {TpCandidates(c, hw.gpus) : c \in {d \in SearchSpace : SupportsTp(d.backend)}})
         \cup (UNION {{pair[1], pair[2]} : pair \in UNION {CandidatePairs(c) : c \in {d \in SearchSpace : d.backend = "vllm"}}})

-----------------------------------------------------------------------------
(* Properties.                                                             *)

\* What the machine can hold of the grid of an engine, by the sizes now known.
Runnable(b) ==
  {c \in CandidateConfigs(b, hw, Prepared(b), asked.minCtx) :
     Fits(hw, prepared[b], c) /\ HostHolds(hw, prepared[b], c)}

\* When planning is over, what is kept of an engine that had no error is exactly what of its own grid
\* fits by the sizes of the files that were fetched: nothing that fitted by an estimate alone is left,
\* and neither another engine's turn nor the precisions it kept took anything away (pipeline.py:334).
PlannedWhatFits ==
  ppc = "done" =>
    \A b \in ToSet(candidates) \ errors : IsPrepared(b) => feasible[b] = Runnable(b)

\* Two configurations of the search space, or of what is measured around its winner on several GPUs,
\* with different names become different servers: no trial is spent on a server that was measured
\* under another name (models.py:169, the launch_spec of each engine).
NamesTellServersApart ==
  ppc = "done" =>
    LET space == SearchSpace \cup MultiGpuSpace
    IN  Cardinality({LaunchSpec(c) : c \in space}) = Cardinality(space)

\* The planner never hands the search a configuration whose weights were not fetched, although it
\* fetches the precisions of its first plan and then plans the whole grid again with other sizes; and
\* an uncalibrated server runs a precision that was asked for and whose weights are there, whichever
\* files could not be made (pipeline.py:337, llamacpp.py:111).
WeightsInPlace ==
  /\ ppc = "done" /\ asked.materialize =>
       \A b \in ToSet(candidates) \ errors : \A c \in feasible[b] : InPlace(c)
  /\ ppc = "served" => InPlace(chosen) /\ chosen.quant \in Offered(chosen.backend)

\* The weights of every engine's configurations are in place, of an engine whose conversion or second
\* planning raised too.  The comment at pipeline.py:337 says that the grid is planned again with the
\* true file sizes; such an engine keeps the first plan.
PlannedIsOnDisk ==
  ppc = "done" /\ asked.materialize => \A b \in Backends : \A c \in feasible[b] : InPlace(c)

\* A server that is started uncalibrated fits by the sizes of its files whenever anything of its
\* engine did when it was chosen; default_profile does not plan again after it fetched (pipeline.py:398).
UncalibratedFits ==
  ppc = "served" /\ feasible[chosen.backend] # {} => Fits(hw, prepared[chosen.backend], chosen)

-----------------------------------------------------------------------------
(* The inductive invariant.                                                *)

\* An engine is in hand from its first plan until its weights are there and it is planned again, and
\* while the weights of the one that is served uncalibrated are fetched.
Fetching == ppc \in {"fetch", "convert", "fetched"}
InHand(b) == Fetching /\ queue # <<>> /\ b = Head(queue)

Described == {"weights", "source", "layers", "maxPos", "kvTok", "family", "draft"}

TypeOKPlanner ==
  /\ ppc \in {"select", "next", "fetch", "convert", "fetched", "done", "served", "failed"}
  /\ model \in Models /\ asked \in Asked
  /\ queue \in Seq(Backends) /\ candidates \in Seq(Backends)
  /\ Fetching => queue # <<>>
  /\ DOMAIN prepared = Backends /\ \A b \in Backends : DOMAIN prepared[b] \in {Described, {"weights", "source"}}
  /\ DOMAIN gridQuants = Backends /\ DOMAIN feasible = Backends

\* What is prepared describes the model asked for, whatever becomes of its files, and its grid was
\* made of every precision that is offered.
DescribesModel ==
  \A b \in Backends : prepared[b] # NotPrepared \/ InHand(b) =>
    /\ DOMAIN prepared[b] = Described
    /\ prepared[b].layers = model.layers /\ prepared[b].maxPos = model.maxPos
    /\ gridQuants[b] = Offered(b)

\* Nothing is kept that is not of the engine's own grid.
FromGrid == \A b \in Backends : feasible[b] \subseteq CandidateConfigs(b, hw, Prepared(b), asked.minCtx)

NothingYet == ppc = "select" => prepared = [b \in Backends |-> NotPrepared]

\* A plan is over once an uncalibrated server was chosen from it.
Planning == ppc \notin {"served", "failed"} /\ (Fetching => asked.materialize)

\* What is kept is what fits, but of the engine in hand.
Planned ==
  Planning => \A b \in Backends \ errors : IsPrepared(b) /\ ~InHand(b) => feasible[b] = Runnable(b)

\* Of the engine in hand, whatever fits by the sizes now known is still to be fetched or in place, and
\* what is kept of the others is in place.
WillBeInPlace ==
  asked.materialize =>
    /\ \A b \in Backends : InHand(b) => \A c \in Runnable(b) : c.quant \in wanted \/ InPlace(c)
    /\ \A b \in Backends \ errors : ~InHand(b) => \A c \in feasible[b] : InPlace(c)
    /\ ppc = "fetched" => wanted = {}
    /\ ppc # "served"

\* The tables of sources and of sizes have the same precisions, and only llama.cpp's are converted.
Sources ==
  /\ \A b \in Backends : DOMAIN prepared[b].source = DOMAIN prepared[b].weights
  /\ \A b \in Backends : \A q \in DOMAIN prepared[b].source :
       prepared[b].source[q] \in {"engine", "disk", "hub"} \/ (prepared[b].source[q] = "convert" /\ IsLlama(b))
  /\ ppc = "convert" => \A q \in wanted : SourceIs(Head(queue), q, "convert")

\* What is served uncalibrated is of a precision that was asked for, and if it is not in place it is
\* still to be fetched or could not be made.
ChoiceIsAskedFor ==
  ~asked.materialize =>
    /\ ppc \notin {"failed", "served"} /\ ~Fetching =>
         \A b \in Backends : DOMAIN prepared[b].weights \in {{}, Offered(b)}
    /\ Fetching => queue = <<chosen.backend>>
    /\ Fetching \/ ppc = "served" =>
         /\ chosen.backend \in Backends /\ chosen.quant \in Offered(chosen.backend)
         /\ chosen.quant \in wanted \cap DOMAIN prepared[chosen.backend].source \/ InPlace(chosen) \/ IsLlama(chosen.backend)
    /\ ppc = "fetched" => wanted = {}
    /\ ppc = "served" => Launches(chosen) /\ wanted = {}

PlannerInv == TypeOKPlanner /\ DescribesModel /\ FromGrid /\ NothingYet /\ Planned /\ Sources /\ WillBeInPlace /\ ChoiceIsAskedFor

=============================================================================
