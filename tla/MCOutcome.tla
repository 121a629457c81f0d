----------------------------- MODULE MCOutcome -----------------------------
(* FsmOutcome on machines of the repository. *)
EXTENDS FsmOutcome, MCRuntime
=============================================================================
