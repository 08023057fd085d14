------------------------------- MODULE Lease -------------------------------
(***************************************************************************)
(* What a supervisor promises about the GPU and the port its backend works *)
(* on, without threads, signals or processes: they are leased to one       *)
(* launch at a time, a lease is given out only when the former one is      *)
(* over, and no launch gets a second one.                                  *)
(***************************************************************************)
EXTENDS Naturals

CONSTANT Terms      \* the launches: natural numbers, in the order they are made

VARIABLES
  holders,          \* the launches that hold the lease: at most one
  granted           \* the launches that hold it or have held it

Init ==
  /\ holders = {}
  /\ granted = {}

Grant(k) ==
  /\ holders = {}
  /\ \A g \in granted : g < k
  /\ holders' = {k}
  /\ granted' = granted \cup {k}

Release ==
  /\ holders # {}
  /\ holders' = {}
  /\ UNCHANGED granted

Next ==
  \/ \E k \in Terms : Grant(k)
  \/ Release

Spec == Init /\ [][Next]_<<holders, granted>>
=============================================================================
