------------------------ MODULE MCManipulationServer ------------------------
(* Two operations, so that a box can be picked and then placed, confirmed or
   picked anew; two resets, so that a failed one is retried; one restart. *)
EXTENDS ManipulationServer
=============================================================================
