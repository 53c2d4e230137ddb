---------------------------- MODULE MCMotionSearch ----------------------------
(* Two grasps of different cost, one carry endpoint and two place endpoints; a step takes no
   time or one tick, and the budgets are a few ticks, so that every deadline is met, missed
   by one step, or already over when a search begins. *)
EXTENDS MotionSearch
MCDurations == {0, 1}
=============================================================================
