------------------------------ MODULE MCSearch ------------------------------
(***************************************************************************)
(* Two engines: v reserves GPU memory, has a memory and a batch sweep and   *)
(* strategies to try; l is one configuration with a prefill knob.          *)
(***************************************************************************)
EXTENDS Search

MCConfig(e, q, ctx, mem, batch) ==
  [eng |-> e, quant |-> q, ctx |-> ctx, mem |-> mem, batch |-> batch, opts |-> {}, capped |-> FALSE]

\* Three contexts of which the middle one is the baseline, and no large context at the
\* smaller memory setting.
MCGrid == {MCConfig("v", "q1", 2, 1, 2), MCConfig("v", "q1", 3, 1, 2), MCConfig("v", "q1", 1, 1, 2),
           MCConfig("v", "q1", 2, 0, 2), MCConfig("v", "q1", 3, 1, 1),
           MCConfig("v", "q2", 2, 1, 2),
           MCConfig("l", "q1", 2, 0, 2)}

MCKeys == <<<<"v", "q1">>, <<"l", "q1">>, <<"v", "q2">>>>
MCReserving == {"v"}
MCOffers == [v |-> {"kv", "spec"}, l |-> {"prefill"}]
MCVariantStages == <<"kv", "spec">>
MCLadder == {1, 2, 4}

\* A batch of 4 needs the smaller cache.
MCUnfit == {[c EXCEPT !.batch = 4, !.opts = o] : c \in MCGrid, o \in {{}, {"spec"}, {"prefill"}}}

MCSettings ==
  {[specFirst |-> TRUE,  budget |-> 0,  explore |-> {}, power |-> TRUE],
   [specFirst |-> FALSE, budget |-> 12, explore |-> {}, power |-> FALSE],
   [specFirst |-> TRUE,  budget |-> 0,
    explore |-> {[MCConfig("v", "q1", 2, 0, 2) EXCEPT !.opts = {"kv", "spec"}]}, power |-> FALSE]}

MCOk(tok, ttft) == [ok |-> TRUE, launched |-> TRUE, oom |-> FALSE, tok |-> tok, ttft |-> ttft, time |-> 2]
MCBroken(launched, oom, time) == [ok |-> FALSE, launched |-> launched, oom |-> oom, tok |-> 0, ttft |-> 0, time |-> time]

\* A better and a hopeless trial, a fast one that breaks the ceiling, a trial whose requests
\* fail, an engine that does not start, and one that runs out of memory at start-up.
MCOutcomes == {MCOk(24, 1), MCOk(8, 1), MCOk(50, 3),
               MCBroken(TRUE, FALSE, 2), MCBroken(FALSE, FALSE, 1), MCBroken(FALSE, TRUE, 1)}
=============================================================================
