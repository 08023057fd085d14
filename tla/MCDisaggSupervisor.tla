------------------------- MODULE MCDisaggSupervisor -------------------------
(***************************************************************************)
(* A pair with a budget of MaxRestarts restarts.                           *)
(***************************************************************************)
EXTENDS DisaggSupervisor

Engines == (0..MaxRestarts) \X {"prefill", "decode"}

\* Every engine but the prefill engine of the last pair, which nothing follows.
Forking == Engines \ {<<MaxRestarts, "prefill">>}
=============================================================================
