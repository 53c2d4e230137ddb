------------------------- MODULE MCTrajectoryExecutor -------------------------
(* Two tasks, so that the stop of one reaches the next; two trajectories, so that
   the second meets the samples of the first; two samples to settle, so that one
   sample looked at twice is enough. *)
EXTENDS TrajectoryExecutor
=============================================================================
