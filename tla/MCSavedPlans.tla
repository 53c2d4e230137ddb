---------------------------- MODULE MCSavedPlans ----------------------------
(* Two plans, so that one can be stored while another is used; the box and the table
   moved once; two Continue scenes in one execution. *)
EXTENDS SavedPlans
=============================================================================
