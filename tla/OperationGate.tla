---------------------------- MODULE OperationGate ----------------------------
(* What the manipulation server needs from its admission control: a gate that
   at most one client is inside of.  ResetCoordinator implements it. *)

CONSTANTS Clients,   \* everything that may enter: operations and resets
          NoClient   \* the owner of an open gate

VARIABLE owner

Init == owner = NoClient

Enter(c) == owner = NoClient /\ owner' = c

Leave(c) == owner = c /\ owner' = NoClient

Next == \E c \in Clients : Enter(c) \/ Leave(c)

Spec == Init /\ [][Next]_owner
=============================================================================
