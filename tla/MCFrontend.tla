----------------------------- MODULE MCFrontend -----------------------------
(***************************************************************************)
(* Five requests: over two replicas, or to one engine whose profile was    *)
(* calibrated for one request at a time, with a window of three samples.   *)
(***************************************************************************)
EXTENDS Frontend, TLC

MCSymmetry == Permutations(Requests)
=============================================================================
