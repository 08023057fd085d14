------------------------------ MODULE MCPower ------------------------------
(***************************************************************************)
(* Runs of PolyServe on a machine with one GPU.                            *)
(***************************************************************************)
EXTENDS Power, TLC

CONSTANTS r1, r2, r3, g1

OneGpu == [r \in Runs |-> g1]
RunsAlike == Permutations(Runs)
=============================================================================
