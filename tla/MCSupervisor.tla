---------------------------- MODULE MCSupervisor ----------------------------
(***************************************************************************)
(* One served backend with a budget of MaxRestarts restarts, hence         *)
(* MaxRestarts + 1 launches.                                               *)
(***************************************************************************)
EXTENDS Supervisor
=============================================================================
