----------------------------- MODULE MCPlanner -----------------------------
(***************************************************************************)
(* Machines from a card that holds everything to a CPU alone, models from  *)
(* one that fits anywhere to one that fits nowhere whole, and the requests *)
(* that bring the planner's rules together.                                *)
(***************************************************************************)
EXTENDS Planner

Machine(gpu, gpus, cc, vram, free, has) ==
  [gpu |-> gpu, gpus |-> gpus, cc |-> cc, vram |-> vram, vramFree |-> free, ram |-> 32000, ramFree |-> 12000, avx512 |-> TRUE,
   vllm |-> 29, flashinfer |-> TRUE, arctic |-> FALSE, llamaSpec |-> TRUE, has |-> has]

MCMachines ==
  {Machine("nvidia", 2, 89, 24000, 23500, {"vllm", "llamacpp-cuda", "llamacpp-cpu"}),
   Machine("nvidia", 2, 80, 16000, 12000, {"sglang", "llamacpp-cuda"}),
   Machine("nvidia", 1, 70, 16000, 7800, {"vllm", "llamacpp-cuda", "llamacpp-cpu"}),
   Machine("other", 1, 0, 8000, 8000, {"vllm", "llamacpp-cpu"}),
   Machine("none", 0, 0, 0, 0, {"llamacpp-cpu", "vllm-cpu"})}

Model(params, layers, maxPos, kvTok, family, hub) ==
  [params |-> params, layers |-> layers, maxPos |-> maxPos, kvTok |-> kvTok, family |-> family, hub |-> hub]

MCModels ==
  {Model(3000, 36, 3000, 9, TRUE, {"Q4_K_M", "awq"}),
   Model(9300, 4, 8192, 12, FALSE, {"Q4_K_M", "gptq"}),
   Model(14000, 48, 4096, 8, TRUE, {"awq"})}

Request(quants, force, minCtx, shared, prefixOff, materialize) ==
  [quants |-> quants, force |-> force, minCtx |-> minCtx, shared |-> shared, prefixOff |-> prefixOff,
   materialize |-> materialize]

MCAsked ==
  {Request({"auto"}, "none", 0, TRUE, FALSE, TRUE),
   Request({"auto", "awq"}, "none", 2500, FALSE, TRUE, TRUE),
   Request({"fp8", "Q8_0"}, "none", 5000, FALSE, FALSE, TRUE),
   Request({"auto"}, "vllm", 0, FALSE, FALSE, TRUE),
   Request({"auto"}, "none", 3000, FALSE, FALSE, FALSE),
   Request({"fp8", "Q8_0"}, "none", 0, FALSE, FALSE, FALSE)}

MCGgufQuants == <<"Q4_K_M", "Q8_0">>

=============================================================================
