---------------------------- MODULE OneShotPlans ----------------------------
(* What a plan-only preview promises its client: the plan may be executed at most
   once, and only while nothing else has been executed and the grip has not changed
   since it was made. *)
EXTENDS Naturals

VARIABLES
  usable,   \* plans that may still be executed
  spent,    \* plans that never may again
  running,  \* the plan being executed, 0 for none
  grip      \* whether the box hangs on the arms

vars == <<usable, spent, running, grip>>

Init == usable = {} /\ spent = {} /\ running = 0 /\ grip = FALSE

Fresh(id) == id \in Nat \ {0} /\ id \notin usable \cup spent

\* A new plan may take the place of older ones.
Store(id, replaced) ==
  /\ Fresh(id) /\ running = 0
  /\ usable' = (usable \ replaced) \cup {id} /\ spent' = spent \cup replaced
  /\ UNCHANGED <<running, grip>>

\* A request that gave no plan has used its number.
Waste(id) ==
  /\ Fresh(id) /\ running = 0
  /\ spent' = spent \cup {id}
  /\ UNCHANGED <<usable, running, grip>>

\* Whatever moves the robot leaves no plan behind.
Act ==
  /\ usable' = {} /\ spent' = spent \cup usable
  /\ grip' \in BOOLEAN /\ running' \in {0, running}

Use(id) ==
  /\ running = 0 /\ id \in usable
  /\ usable' = {} /\ spent' = spent \cup usable /\ running' = id
  /\ UNCHANGED grip

Next ==
  \/ Act
  \/ \E id \in usable : Use(id)
  \/ \E id \in usable' \cup spent' : Waste(id) \/ \E replaced \in SUBSET usable : Store(id, replaced)

Spec == Init /\ [][Next]_vars
=============================================================================
