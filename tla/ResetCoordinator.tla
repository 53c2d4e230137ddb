-------------------------- MODULE ResetCoordinator ---------------------------
(* Admission control of pick_place_server (src/reset_coordinator.cpp): four
   atomics, no lock, one step per atomic access.  Any number of threads call
   reserveOperation / releaseOperation (the action goal callbacks and the
   workers they start, the recovery, reload and posture services); a reset
   goal calls requestReset in its goal callback and waitForResetAccess and
   finishReset in its worker. *)

CONSTANTS Ops,       \* callers of reserveOperation
          Resets,    \* reset goals
          NoClient   \* nobody

ASSUME ClientsAssumption == Ops \cap Resets = {} /\ NoClient \notin Ops \cup Resets

VARIABLES busy,       \* busy_: the server is reserved
          requested,  \* reset_requested_: the latch that keeps operations out
          pending,    \* reset_pending_: a reset goal is being served
          owns,       \* reset_owns_operation_: busy_ was taken for the reset
          opc,        \* where each operation thread stands
          rpc,        \* where each reset goal stands
          canceled,   \* the reset goal is being canceled (is_canceling)
          ready,      \* what condition_.wait_for returned to the reset
          acquired    \* waitForResetAccess returned ACQUIRED to this goal

vars == <<busy, requested, pending, owns, opc, rpc, canceled, ready, acquired>>

OpPoints == {"out", "check_pending", "reserve", "recheck_requested",
             "recheck_pending", "back_out", "admitted"}

ResetPoints == {"out", "latch", "wait", "check_cancel", "check_busy", "take",
                "own", "running", "clear_latch", "drop_owner", "release",
                "clear_pending"}

TypeOK ==
  /\ busy \in BOOLEAN /\ requested \in BOOLEAN
  /\ pending \in BOOLEAN /\ owns \in BOOLEAN
  /\ opc \in [Ops -> OpPoints]
  /\ rpc \in [Resets -> ResetPoints]
  /\ canceled \in [Resets -> BOOLEAN]
  /\ ready \in [Resets -> BOOLEAN]
  /\ acquired \in [Resets -> BOOLEAN]

Init ==
  /\ busy = FALSE /\ requested = FALSE /\ pending = FALSE /\ owns = FALSE
  /\ opc = [t \in Ops |-> "out"]
  /\ rpc = [r \in Resets |-> "out"]
  /\ canceled = [r \in Resets |-> FALSE]
  /\ ready = [r \in Resets |-> FALSE]
  /\ acquired = [r \in Resets |-> FALSE]

OpAt(t, here, next) == opc[t] = here /\ opc' = [opc EXCEPT ![t] = next]
ResetAt(r, here, next) == rpc[r] = here /\ rpc' = [rpc EXCEPT ![r] = next]

ResetUnchanged == UNCHANGED <<owns, rpc, canceled, ready, acquired>>

-----------------------------------------------------------------------------
(* reserveOperation; a refused caller is "out" again. *)

\* First load of the latch: a latched gate refuses at once.
CheckRequested(t) ==
  /\ ~requested
  /\ OpAt(t, "out", "check_pending")
  /\ UNCHANGED <<busy, requested, pending>> /\ ResetUnchanged

CheckPending(t) ==
  /\ OpAt(t, "check_pending", IF pending THEN "out" ELSE "reserve")
  /\ UNCHANGED <<busy, requested, pending>> /\ ResetUnchanged

\* The compare-and-swap on busy_.
Reserve(t) ==
  /\ OpAt(t, "reserve", IF busy THEN "out" ELSE "recheck_requested")
  /\ busy' = TRUE
  /\ UNCHANGED <<requested, pending>> /\ ResetUnchanged

RecheckRequested(t) ==
  /\ OpAt(t, "recheck_requested", IF requested THEN "back_out" ELSE "recheck_pending")
  /\ UNCHANGED <<busy, requested, pending>> /\ ResetUnchanged

RecheckPending(t) ==
  /\ OpAt(t, "recheck_pending", IF pending THEN "back_out" ELSE "admitted")
  /\ UNCHANGED <<busy, requested, pending>> /\ ResetUnchanged

\* releaseOperation from inside reserveOperation.
BackOut(t) ==
  /\ OpAt(t, "back_out", "out")
  /\ busy' = FALSE
  /\ UNCHANGED <<requested, pending>> /\ ResetUnchanged

\* The worker or service is done.
ReleaseOperation(t) ==
  /\ OpAt(t, "admitted", "out")
  /\ busy' = FALSE
  /\ UNCHANGED <<requested, pending>> /\ ResetUnchanged

-----------------------------------------------------------------------------
(* requestReset: two stores, pending_ first. *)

RequestReset(r) ==
  /\ ~pending
  /\ ResetAt(r, "out", "latch")
  /\ pending' = TRUE
  /\ canceled' = [canceled EXCEPT ![r] = FALSE]
  /\ ready' = [ready EXCEPT ![r] = FALSE]
  /\ acquired' = [acquired EXCEPT ![r] = FALSE]
  /\ UNCHANGED <<busy, requested, owns, opc>>

Latch(r) ==
  /\ ResetAt(r, "latch", "wait")
  /\ requested' = TRUE
  /\ UNCHANGED <<busy, pending, owns, opc, canceled, ready, acquired>>

\* The client cancels the goal (external; onResetCancel only notifies).
CancelReset(r) ==
  /\ rpc[r] \notin {"out", "latch"}
  /\ ~canceled[r]
  /\ canceled' = [canceled EXCEPT ![r] = TRUE]
  /\ UNCHANGED <<busy, requested, pending, owns, opc, rpc, ready, acquired>>

(* waitForResetAccess *)

MayProceed(r) == ~busy \/ canceled[r]

\* wait_for's predicate was seen true, or the timeout passed: either way the
\* predicate's last value is returned.  releaseOperation notifies without
\* holding the mutex, so a wake-up may be missed; the timeout still ends the wait.
Wake(r) ==
  /\ MayProceed(r)
  /\ ResetAt(r, "wait", "check_cancel")
  /\ ready' = [ready EXCEPT ![r] = TRUE]
  /\ UNCHANGED <<busy, requested, pending, owns, opc, canceled, acquired>>

WaitExpires(r) ==
  /\ ResetAt(r, "wait", "check_cancel")
  /\ ready' = [ready EXCEPT ![r] = MayProceed(r)]
  /\ UNCHANGED <<busy, requested, pending, owns, opc, canceled, acquired>>

\* Fault: the CANCELED result is handed to a branch that does not exist.
CheckCancelUnhandled(r) ==
  /\ ResetAt(r, "check_cancel", IF canceled[r] THEN "canceled" ELSE "check_busy")
  /\ UNCHANGED <<busy, requested, pending, owns, opc, canceled, ready, acquired>>

\* CANCELED goes to finishReset(false).
CheckCancel(r) ==
  /\ ResetAt(r, "check_cancel", IF canceled[r] THEN "drop_owner" ELSE "check_busy")
  /\ UNCHANGED <<busy, requested, pending, owns, opc, canceled, ready, acquired>>

\* Fault: TIMEOUT goes to finishReset(true).
CheckBusySucceeds(r) ==
  /\ ResetAt(r, "check_busy", IF ~ready[r] \/ busy THEN "clear_latch" ELSE "take")
  /\ UNCHANGED <<busy, requested, pending, owns, opc, canceled, ready, acquired>>

\* TIMEOUT goes to finishReset(false).
CheckBusy(r) ==
  /\ ResetAt(r, "check_busy", IF ~ready[r] \/ busy THEN "drop_owner" ELSE "take")
  /\ UNCHANGED <<busy, requested, pending, owns, opc, canceled, ready, acquired>>

\* Fault: busy_ is stored, not compared and swapped.
TakeByStore(r) ==
  /\ ResetAt(r, "take", "own")
  /\ busy' = TRUE
  /\ acquired' = [acquired EXCEPT ![r] = TRUE]
  /\ UNCHANGED <<requested, pending, owns, opc, canceled, ready>>

\* The compare-and-swap on busy_ after the wait; losing it is a TIMEOUT too.
Take(r) ==
  /\ ResetAt(r, "take", IF busy THEN "drop_owner" ELSE "own")
  /\ busy' = TRUE
  /\ acquired' = [acquired EXCEPT ![r] = ~busy]
  /\ UNCHANGED <<requested, pending, owns, opc, canceled, ready>>

Own(r) ==
  /\ ResetAt(r, "own", "running")
  /\ owns' = TRUE
  /\ UNCHANGED <<busy, requested, pending, opc, canceled, ready, acquired>>

(* finishReset(successful): executeReset reports success only when the goal is
   not being canceled at that point. *)

FinishReset(r, successful) ==
  /\ successful => ~canceled[r]
  /\ ResetAt(r, "running", IF successful THEN "clear_latch" ELSE "drop_owner")
  /\ UNCHANGED <<busy, requested, pending, owns, opc, canceled, ready, acquired>>

ClearLatch(r) ==
  /\ ResetAt(r, "clear_latch", "drop_owner")
  /\ requested' = FALSE
  /\ UNCHANGED <<busy, pending, owns, opc, canceled, ready, acquired>>

\* Fault: a reset that never got the gate releases it.
DropAnyOwner(r) ==
  /\ ResetAt(r, "drop_owner", "release")
  /\ owns' = FALSE
  /\ UNCHANGED <<busy, requested, pending, opc, canceled, ready, acquired>>

\* reset_owns_operation_.exchange(false)
DropOwner(r) ==
  /\ ResetAt(r, "drop_owner", IF owns THEN "release" ELSE "clear_pending")
  /\ owns' = FALSE
  /\ UNCHANGED <<busy, requested, pending, opc, canceled, ready, acquired>>

ReleaseReset(r) ==
  /\ ResetAt(r, "release", "clear_pending")
  /\ busy' = FALSE
  /\ UNCHANGED <<requested, pending, owns, opc, canceled, ready, acquired>>

\* Fault: reset_pending_ survives the goal.
ClearNothing(r) ==
  /\ ResetAt(r, "clear_pending", "out")
  /\ UNCHANGED <<busy, requested, pending, owns, opc, canceled, ready, acquired>>

ClearPending(r) ==
  /\ ResetAt(r, "clear_pending", "out")
  /\ pending' = FALSE
  /\ UNCHANGED <<busy, requested, owns, opc, canceled, ready, acquired>>

-----------------------------------------------------------------------------
OpStep(t) ==
  \/ CheckRequested(t) \/ CheckPending(t) \/ Reserve(t)
  \/ RecheckRequested(t) \/ RecheckPending(t) \/ BackOut(t)
  \/ ReleaseOperation(t)

WaitStep(r) ==
  \/ Latch(r) \/ Wake(r) \/ WaitExpires(r) \/ CheckCancel(r) \/ CheckBusy(r)
  \/ Take(r) \/ Own(r)

FinishStep(r) ==
  ClearLatch(r) \/ DropOwner(r) \/ ReleaseReset(r) \/ ClearPending(r)

ResetStep(r) ==
  \/ RequestReset(r) \/ WaitStep(r) \/ CancelReset(r)
  \/ FinishReset(r, TRUE) \/ FinishReset(r, FALSE)
  \/ FinishStep(r)

Next == (\E t \in Ops : OpStep(t)) \/ (\E r \in Resets : ResetStep(r))

Spec == Init /\ [][Next]_vars

(* Only the reset's own thread has to be scheduled: nothing says an admitted
   operation ever leaves (a paused task waits for its operator), and nothing
   says the reset motion ends. *)
FairSpec == Spec /\ \A r \in Resets : WF_vars(WaitStep(r)) /\ WF_vars(FinishStep(r))

-----------------------------------------------------------------------------
(* Who is inside the gate. *)

OpInside(t) == opc[t] \in {"recheck_requested", "recheck_pending", "back_out", "admitted"}

ResetInside(r) ==
  acquired[r] /\ rpc[r] \in {"own", "running", "clear_latch", "drop_owner", "release"}

Inside == {t \in Ops : OpInside(t)} \cup {r \in Resets : ResetInside(r)}

\* busy_ has exactly one owner at a time: an operation and a reset, or two
\* operations, never move the arms together, and a timed-out reset does not
\* release the operation it failed to preempt (the exchange in finishReset).
Exclusive ==
  /\ busy <=> Inside # {}
  /\ \A p, q \in Inside : p = q

\* The abstract gate, and what stands for its owner.
GateOwner == IF Inside = {} THEN NoClient ELSE CHOOSE p \in Inside : TRUE

Gate == INSTANCE OperationGate WITH Clients <- Ops \cup Resets, owner <- GateOwner

\* Every step of the atomics is a step of the abstract gate or leaves it alone:
\* the back-and-forth of the checks is invisible to the clients.
ImplementsGate == Gate!Spec

\* The latch falls only in the step of a reset that owns the gate with nothing
\* else inside it, and that was not being canceled when it reported success.
LatchFallsInsideReset ==
  [][requested /\ ~requested' =>
       \E r \in Resets : ResetInside(r) /\ Inside = {r} /\ rpc[r] = "clear_latch"]_vars

\* A reset that was requested either gets the gate or gives up: it leaves
\* pending_ set for ever only while it runs.
ResetIsDecided ==
  pending ~> (~pending \/ \E r \in Resets : rpc[r] = "running")

\* After a reset failed (the latch is up, no reset is being served) no
\* operation is admitted: test_reset_coordinator.cpp, TimeoutLeavesResetLatchedForRetry.
FailedResetKeepsOperationsOut ==
  [][\A t \in Ops : opc[t] # "admitted" /\ opc'[t] = "admitted" => ~(requested /\ ~pending)]_vars
=============================================================================
