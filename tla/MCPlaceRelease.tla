---------------------------- MODULE MCPlaceRelease ----------------------------
(* Two Continue scenes in one placement: one that moves the target before it is
   accepted, one that does not afterwards. *)
EXTENDS PlaceRelease
=============================================================================
