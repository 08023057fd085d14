------------------------------ MODULE Engines ------------------------------
(***************************************************************************)
(* What each engine offers: polyserve/backends/*.py.  For each of them the *)
(* precisions it runs, the grid of configurations calibration starts from, *)
(* its default, the variants the later stages try, the memory it needs     *)
(* beside weights and cache, and the settings a configuration becomes on   *)
(* its command line.                                                       *)
(*                                                                         *)
(* Memory is in MiB, fractions are percentages, and the fields of a        *)
(* configuration that may be None are 0 (gmu, nbatch, pb) or NoOffload     *)
(* (ngl).  The extra flags of llama.cpp are a set of names; the thread     *)
(* count, the same on every configuration of a machine, is left out.       *)
(***************************************************************************)
EXTENDS Integers, FiniteSets, Sequences, FiniteSetsExt, SequencesExt

CONSTANT GgufQuants      \* the GGUF precisions, in the order of gguf.py

ASSUME GgufAssumption == GgufQuants \in Seq(STRING)

Backends == {"vllm", "sglang", "llamacpp-cuda", "llamacpp-cpu", "vllm-cpu"}
IsLlama(b) == b \in {"llamacpp-cuda", "llamacpp-cpu"}
IsVllm(b) == b \in {"vllm", "vllm-cpu"}

Int4Methods == {"awq", "gptq"}
PreQuantized == Int4Methods \cup {"w8a8"}
NoOffload == -1

\* The compute capability major.minor as 10 * major + minor; 0 without a GPU.
Ada == 89
Ampere == 80
Turing == 75

Config(b, quant, ctx, batch) ==
  [backend |-> b, quant |-> quant, ctx |-> ctx, batch |-> batch, gmu |-> 0, ngl |-> NoOffload,
   nbatch |-> 0, pb |-> 0, kv |-> "auto", prefix |-> "engine", spec |-> "none", tp |-> 1, extra |-> {}]

-----------------------------------------------------------------------------
(* What a machine supports.                                                *)

VllmSupports(hw) == hw.gpu = "nvidia" /\ hw.cc >= Turing
SglangSupports(hw) == hw.gpu = "nvidia" /\ hw.cc >= Turing
LlamaSupports(b, hw) == b = "llamacpp-cuda" => hw.gpu = "nvidia"
VllmCpuSupports(hw) == hw.avx512

Supports(b, hw) ==
  CASE b = "vllm"     -> VllmSupports(hw)
    [] b = "sglang"   -> SglangSupports(hw)
    [] b = "vllm-cpu" -> VllmCpuSupports(hw)
    [] IsLlama(b)     -> LlamaSupports(b, hw)

FullPrecision(hw) == IF hw.cc >= Ampere THEN "bf16" ELSE "fp16"

VllmPrecisions(hw) ==
  {FullPrecision(hw)}
    \cup (IF hw.cc >= Ada \/ (hw.cc >= Ampere /\ hw.vllm < 29) THEN {"fp8"} ELSE {})
    \cup (IF hw.cc >= Turing THEN PreQuantized ELSE {})

SglangPrecisions(hw) ==
  {FullPrecision(hw)} \cup (IF hw.cc >= Ada THEN {"fp8"} ELSE {}) \cup (IF hw.cc >= Turing THEN Int4Methods ELSE {})

VllmCpuPrecisions == {"bf16"}

Precisions(b, hw) ==
  CASE b = "vllm"     -> VllmPrecisions(hw)
    [] b = "sglang"   -> SglangPrecisions(hw)
    [] b = "vllm-cpu" -> VllmCpuPrecisions
    [] IsLlama(b)     -> ToSet(GgufQuants)

VllmKvDtypes(hw) ==
  (IF hw.cc >= Ada THEN {"fp8"} ELSE IF hw.cc >= Ampere /\ hw.flashinfer THEN {"fp8_e5m2"} ELSE {})
    \cup (IF hw.cc >= Ada /\ hw.vllm >= 29 THEN {"int8_per_token_head"} ELSE {})

SglangKvDtypes(hw) == IF hw.cc >= Ampere THEN {"fp8_e5m2"} ELSE {}

LlamaKvDtypes == {"q8_0", "q4_0"}

KvDtypes(b, hw) ==
  CASE b = "vllm"     -> VllmKvDtypes(hw)
    [] b = "sglang"   -> SglangKvDtypes(hw)
    [] b = "vllm-cpu" -> {}
    [] IsLlama(b)     -> LlamaKvDtypes

BatchLadder(b) == IF IsLlama(b) THEN {1, 4, 8, 16} ELSE {16, 64, 256, 512}

\* Only the two GPU servers shard a model.
SupportsTp(b) == b \in {"vllm", "sglang"}

-----------------------------------------------------------------------------
(* Grids and defaults.                                                     *)

CtxSizes == {2048, 4096, 8192, 16384, 32768, 65536, 131072}
CtxGridWidth == 3

\* The n smallest of a set of numbers.
Smallest(S, n) == {x \in S : Cardinality({y \in S : y < x}) < n}

\* The smallest standard sizes that fit the model and hold the workload.
CtxGrid(maxPos, minCtx) ==
  LET sizes == {c \in CtxSizes : minCtx <= c /\ c <= maxPos}
  IN  IF minCtx > maxPos THEN {}
      ELSE Smallest(IF sizes = {} THEN {maxPos} ELSE sizes, CtxGridWidth)

CpuCtxGrid(maxPos, minCtx) ==
  LET short == {c \in CtxGrid(maxPos, minCtx) : c <= 8192}
  IN  IF short # {} THEN short ELSE Smallest(CtxGrid(maxPos, minCtx), 1)

\* Whole, three quarters and half of the layers on the GPU.
Offloads(layers) == {layers + 1, (3 * layers) \div 4, layers \div 2}

ServerGrid(b, quants, fractions, ctxs) ==
  {[Config(b, q, ctx, batch) EXCEPT !.gmu = gmu] :
     q \in quants, gmu \in fractions, ctx \in ctxs, batch \in {16, 64, 256}}

VllmCandidates(hw, pm, minCtx) ==
  ServerGrid("vllm", VllmPrecisions(hw) \cap DOMAIN pm.weights, {80, 90, 95}, CtxGrid(pm.maxPos, minCtx))

SglangCandidates(hw, pm, minCtx) ==
  ServerGrid("sglang", SglangPrecisions(hw) \cap DOMAIN pm.weights, {80, 88, 93}, CtxGrid(pm.maxPos, minCtx))

VllmCpuCandidates(pm, minCtx) ==
  {Config("vllm-cpu", "bf16", ctx, batch) : ctx \in CpuCtxGrid(pm.maxPos, minCtx), batch \in {4, 16, 64}}

LlamaCandidates(b, pm, minCtx) ==
  {[Config(b, q, ctx, np) EXCEPT !.ngl = ngl, !.nbatch = nb] :
     q \in DOMAIN pm.weights, ctx \in CtxGrid(pm.maxPos, minCtx), np \in {1, 4, 8},
     ngl \in (IF b = "llamacpp-cuda" THEN Offloads(pm.layers) ELSE {0}),
     nb \in (IF b = "llamacpp-cuda" THEN {512} ELSE {512, 2048})}

CandidateConfigs(b, hw, pm, minCtx) ==
  CASE b = "vllm"     -> VllmCandidates(hw, pm, minCtx)
    [] b = "sglang"   -> SglangCandidates(hw, pm, minCtx)
    [] b = "vllm-cpu" -> VllmCpuCandidates(pm, minCtx)
    [] IsLlama(b)     -> LlamaCandidates(b, pm, minCtx)

\* The first of the GGUF precisions a model has; one of its own when it has none of them.
FirstGguf(pm) ==
  LET has == {i \in DOMAIN GgufQuants : GgufQuants[i] \in DOMAIN pm.weights}
  IN  IF has = {} THEN CHOOSE q \in DOMAIN pm.weights : TRUE ELSE GgufQuants[Min(has)]

DefaultCtx(pm, minCtx) == Min({Max({4096, minCtx}), pm.maxPos})

VllmDefault(hw, pm, minCtx) == [Config("vllm", FullPrecision(hw), DefaultCtx(pm, minCtx), 256) EXCEPT !.gmu = 90]
SglangDefault(hw, pm, minCtx) == [Config("sglang", FullPrecision(hw), DefaultCtx(pm, minCtx), 256) EXCEPT !.gmu = 88]
VllmCpuDefault(pm, minCtx) == Config("vllm-cpu", "bf16", DefaultCtx(pm, minCtx), 16)

LlamaDefault(b, pm, minCtx) ==
  [Config(b, FirstGguf(pm), DefaultCtx(pm, minCtx), 4)
     EXCEPT !.ngl = IF b = "llamacpp-cuda" THEN pm.layers + 1 ELSE 0, !.nbatch = 512]

DefaultConfig(b, hw, pm, minCtx) ==
  CASE b = "vllm"     -> VllmDefault(hw, pm, minCtx)
    [] b = "sglang"   -> SglangDefault(hw, pm, minCtx)
    [] b = "vllm-cpu" -> VllmCpuDefault(pm, minCtx)
    [] IsLlama(b)     -> LlamaDefault(b, pm, minCtx)

-----------------------------------------------------------------------------
(* Variants.                                                               *)

\* A variant of the prefill stage that leaves the logical batch of llama.cpp alone.
PrefillVariants_BatchKept(c) ==
  {[c EXCEPT !.pb = p] : p \in (IF IsLlama(c.backend) THEN {256, 1024, 2048} ELSE {2048, 8192, 16384}) \ {c.pb}}

\* vLLM needs a token budget of at least the batch.
VllmPrefill(c) == {[c EXCEPT !.pb = p] : p \in {x \in {2048, 8192, 16384} : x >= c.batch} \ {c.pb}}
SglangPrefill(c) == {[c EXCEPT !.pb = p] : p \in {2048, 8192, 16384} \ {c.pb}}
LlamaPrefill(c) == {[c EXCEPT !.pb = ub, !.nbatch = Max({@, ub})] : ub \in {256, 1024, 2048} \ {c.pb}}

PrefillVariants(c) ==
  IF IsLlama(c.backend) THEN LlamaPrefill(c) ELSE IF IsVllm(c.backend) THEN VllmPrefill(c) ELSE SglangPrefill(c)

PrefixVariants(c) ==
  IF IsLlama(c.backend) THEN {[c EXCEPT !.extra = @ \cup {o}] : o \in {"cache_reuse", "kv_unified"} \ c.extra}
  ELSE {}

VllmSpec(hw, pm) ==
  {IF hw.vllm >= 29 THEN "ngram_gpu" ELSE "ngram"}
    \cup (IF hw.vllm >= 29 /\ hw.arctic THEN {"suffix"} ELSE {})
    \cup (IF pm.family /\ hw.vllm >= 12 THEN {"draft"} ELSE {})

\* A draft model counts once its file is there.
LlamaSpec(hw, pm) == (IF hw.llamaSpec THEN {"ngram"} ELSE {}) \cup (IF pm.draft = "disk" THEN {"draft"} ELSE {})

SpecMethods(b, hw, pm) == IF b = "vllm" THEN VllmSpec(hw, pm) ELSE IF IsLlama(b) THEN LlamaSpec(hw, pm) ELSE {}

SpecVariants(c, hw, pm) == {[c EXCEPT !.spec = s] : s \in SpecMethods(c.backend, hw, pm) \ {c.spec}}

-----------------------------------------------------------------------------
(* What a configuration becomes on the command line of its server.  An     *)
(* engine that has no flag for a field does not see the field.             *)

\* What is loaded: a pre-quantized repository, the GGUF of the precision, or the model itself.
Weights(c) == IF c.quant \in PreQuantized \/ IsLlama(c.backend) THEN c.quant ELSE "model"

\* --dtype or --quantization, for the precisions made at load time.
Cast(c) == IF c.quant \in {"fp8", "bf16", "fp16"} THEN c.quant ELSE "none"

KvAttention(kv) ==
  CASE kv = "fp8_e5m2"            -> "FLASHINFER"
    [] kv = "int8_per_token_head" -> "TRITON_ATTN"
    [] OTHER                      -> "any"

VllmLaunch(c) ==
  [server |-> "vllm", weights |-> Weights(c), cast |-> Cast(c), len |-> c.ctx, slots |-> c.batch, mem |-> c.gmu,
   batched |-> c.pb, kv |-> c.kv, attention |-> KvAttention(c.kv), prefix |-> c.prefix, spec |-> c.spec, tp |-> c.tp]

SglangLaunch(c) ==
  [server |-> "sglang", weights |-> Weights(c), cast |-> Cast(c), len |-> c.ctx, slots |-> c.batch, mem |-> c.gmu,
   batched |-> c.pb, kv |-> c.kv, radix |-> c.prefix # "off", tp |-> c.tp]

VllmCpuLaunch(c) ==
  [server |-> "vllm-cpu", weights |-> "model", cast |-> "bf16", len |-> c.ctx, slots |-> c.batch, batched |-> c.pb]

\* -c is the total over the slots, and the logical batch (-b) covers the physical one (-ub).
LlamaLaunch(c) ==
  [server |-> c.backend, weights |-> Weights(c), len |-> c.ctx * Max({1, c.batch}), slots |-> Max({1, c.batch}),
   layers |-> c.ngl, logical |-> Max({IF c.nbatch = 0 THEN 512 ELSE c.nbatch, c.pb}), physical |-> c.pb,
   kv |-> c.kv, spec |-> c.spec, extra |-> c.extra]

LaunchSpec(c) ==
  CASE c.backend = "vllm"     -> VllmLaunch(c)
    [] c.backend = "sglang"   -> SglangLaunch(c)
    [] c.backend = "vllm-cpu" -> VllmCpuLaunch(c)
    [] IsLlama(c.backend)     -> LlamaLaunch(c)

=============================================================================
