------------------------------ MODULE MCRunner ------------------------------
(***************************************************************************)
(* Two jobs of any kind, two GPUs, and two things that go wrong.           *)
(***************************************************************************)
EXTENDS Runner

MCJobs ==
  { [kind |-> "trial", n |-> 1, settings |-> <<"default">>],
    [kind |-> "trial", n |-> 1, settings |-> <<"cap">>],
    [kind |-> "sweep", n |-> 1, settings |-> <<"default", "cap", "clock">>],
    [kind |-> "sweep", n |-> 1, settings |-> <<"cap", "default", "cap">>],
    [kind |-> "replicas", n |-> 2, settings |-> <<"default">>],
    [kind |-> "pair", n |-> 2, settings |-> <<"default", "cap", "clock">>],
    [kind |-> "pair", n |-> 2, settings |-> <<"cap", "default">>],
    [kind |-> "serve", n |-> 2, settings |-> <<>>] }

=============================================================================
