------------------------- MODULE MCResetCoordinator --------------------------
(* Two operation threads and two reset goals: enough for a reservation caught
   between two resets, and for a second reset after a failed one. *)
EXTENDS ResetCoordinator, TLC

CONSTANTS op1, op2, reset1, reset2

MCOps == {op1, op2}
MCResets == {reset1, reset2}
=============================================================================
