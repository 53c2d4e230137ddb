---------------------------- MODULE MCPhaseRetry -----------------------------
(* A motion phase and a physical one, two attempts each, two tasks so that a
   request of the first reaches the second, two answered pauses so that the
   first's is stale at the second. *)
EXTENDS PhaseRetry

MCPhysical == {2}
=============================================================================
