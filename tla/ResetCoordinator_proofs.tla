----------------------- MODULE ResetCoordinator_proofs -----------------------
(* Proofs about ResetCoordinator for any number of operation threads and reset
   goals.  The gate is exclusive because each thread's position says whether it
   took busy_; that this is inductive needs three facts more: reset_pending_
   lets one reset goal in at a time, reset_owns_operation_ is that goal's own
   record of having taken busy_, and a goal's `acquired` agrees with where it
   stands. *)
EXTENDS ResetCoordinator, TLAPS

Holding(r) == rpc[r] \in {"own", "running", "clear_latch", "release"}
Asking(r) == rpc[r] \in {"latch", "wait", "check_cancel", "check_busy", "take"}

\* reset_pending_ is a lock around a reset goal.
PendingIsServed ==
  /\ pending <=> \E r \in Resets : rpc[r] # "out"
  /\ \A r, s \in Resets : rpc[r] # "out" /\ rpc[s] # "out" => r = s

AcquiredAgrees ==
  \A r \in Resets : (Holding(r) => acquired[r]) /\ (Asking(r) => ~acquired[r])

OwnsAgrees ==
  owns <=> \E r \in Resets :
             acquired[r] /\ rpc[r] \in {"running", "clear_latch", "drop_owner"}

\* Exclusive, thread by thread.
BusyHasOwner ==
  busy <=> (\E t \in Ops : OpInside(t)) \/ (\E r \in Resets : ResetInside(r))

OneInside ==
  /\ \A s, t \in Ops : OpInside(s) /\ OpInside(t) => s = t
  /\ \A t \in Ops, r \in Resets : ~(OpInside(t) /\ ResetInside(r))

IInv ==
  /\ TypeOK
  /\ PendingIsServed
  /\ AcquiredAgrees
  /\ OwnsAgrees
  /\ BusyHasOwner
  /\ OneInside

-----------------------------------------------------------------------------
LEMMA InitIInv == Init => IInv
  BY DEF Init, IInv, TypeOK, OpPoints, ResetPoints, PendingIsServed, AcquiredAgrees,
         OwnsAgrees, BusyHasOwner, OneInside, Holding, Asking, OpInside, ResetInside

\* What a step of an operation thread does to the gate: nothing, or it takes
\* busy_ and is inside, or it was inside and gives busy_ back.
OpEffect(t) ==
  /\ TypeOK'
  /\ UNCHANGED <<requested, pending, owns, rpc, canceled, ready, acquired>>
  /\ \A s \in Ops : s # t => opc'[s] = opc[s]
  /\ \/ busy' = busy /\ (OpInside(t)' <=> OpInside(t))
     \/ ~busy /\ busy' /\ ~OpInside(t) /\ OpInside(t)'
     \/ ~busy' /\ OpInside(t) /\ ~OpInside(t)'

LEMMA OpStepEffect ==
  ASSUME TypeOK, NEW t \in Ops, OpStep(t)
  PROVE  OpEffect(t)
<1> USE DEF OpEffect, OpAt, ResetUnchanged, OpPoints, TypeOK, OpInside
<1>1. CASE CheckRequested(t)
  BY <1>1 DEF CheckRequested
<1>2. CASE CheckPending(t)
  BY <1>2 DEF CheckPending
<1>3. CASE Reserve(t)
  BY <1>3 DEF Reserve
<1>4. CASE RecheckRequested(t)
  BY <1>4 DEF RecheckRequested
<1>5. CASE RecheckPending(t)
  BY <1>5 DEF RecheckPending
<1>6. CASE BackOut(t)
  BY <1>6 DEF BackOut
<1>7. CASE ReleaseOperation(t)
  BY <1>7 DEF ReleaseOperation
<1> QED
  BY <1>1, <1>2, <1>3, <1>4, <1>5, <1>6, <1>7 DEF OpStep

LEMMA OpStepIInv ==
  ASSUME IInv, NEW t \in Ops, OpStep(t)
  PROVE  IInv'
<1>1. OpEffect(t)
  BY OpStepEffect DEF IInv
<1> USE DEF OpEffect
<1>2. \A s \in Ops : s # t => (OpInside(s)' <=> OpInside(s))
  BY <1>1 DEF OpInside
<1>3. \A r \in Resets : ResetInside(r)' <=> ResetInside(r)
  BY <1>1 DEF ResetInside
<1>4. PendingIsServed' /\ AcquiredAgrees' /\ OwnsAgrees'
  BY <1>1 DEF IInv, PendingIsServed, AcquiredAgrees, OwnsAgrees, Holding, Asking
<1>5. BusyHasOwner'
  BY <1>1, <1>2, <1>3 DEF IInv, BusyHasOwner, OneInside
<1>6. OneInside'
  BY <1>1, <1>2, <1>3 DEF IInv, BusyHasOwner, OneInside
<1> QED
  BY <1>1, <1>4, <1>5, <1>6 DEF IInv

-----------------------------------------------------------------------------
\* While reset_pending_ is held for a goal, reset_owns_operation_ speaks of that
\* goal; while nobody holds it, it is down.
LEMMA OwnsIsMine ==
  ASSUME IInv, NEW r \in Resets
  PROVE  /\ rpc[r] # "out" =>
              pending /\ (owns <=> acquired[r] /\ rpc[r] \in {"running", "clear_latch", "drop_owner"})
         /\ ~pending => ~owns /\ rpc[r] = "out"
  BY DEF IInv, PendingIsServed, OwnsAgrees

\* What a step of a reset goal does: to its own records, to the gate, and to
\* reset_pending_.  It moves no operation thread and no other goal.
ResetEffect(r) ==
  /\ TypeOK'
  /\ opc' = opc
  /\ \A s \in Resets : s # r => rpc'[s] = rpc[s] /\ acquired'[s] = acquired[s]
  /\ (Holding(r)' => acquired'[r]) /\ (Asking(r)' => ~acquired'[r])
  /\ owns' <=> acquired'[r] /\ rpc'[r] \in {"running", "clear_latch", "drop_owner"}
  /\ pending' <=> rpc'[r] # "out"
  /\ pending => rpc[r] # "out"
  /\ \/ busy' = busy /\ (ResetInside(r)' <=> ResetInside(r))
     \/ ~busy /\ busy' /\ ~ResetInside(r) /\ ResetInside(r)'
     \/ ~busy' /\ ResetInside(r) /\ ~ResetInside(r)'

LEMMA ResetStepEffect ==
  ASSUME IInv, NEW r \in Resets, ResetStep(r)
  PROVE  ResetEffect(r)
<1>1. /\ TypeOK
      /\ rpc[r] # "out" =>
           pending /\ (owns <=> acquired[r] /\ rpc[r] \in {"running", "clear_latch", "drop_owner"})
      /\ ~pending => ~owns /\ rpc[r] = "out"
      /\ (Holding(r) => acquired[r]) /\ (Asking(r) => ~acquired[r])
  BY OwnsIsMine DEF IInv, AcquiredAgrees
<1> USE <1>1 DEF ResetEffect, ResetAt, ResetPoints, TypeOK, Holding, Asking, ResetInside
<1>2. CASE RequestReset(r)
  BY <1>2 DEF RequestReset
<1>3. CASE Latch(r)
  BY <1>3 DEF Latch
<1>4. CASE Wake(r)
  BY <1>4 DEF Wake, MayProceed
<1>5. CASE WaitExpires(r)
  BY <1>5 DEF WaitExpires, MayProceed
<1>6. CASE CheckCancel(r)
  BY <1>6 DEF CheckCancel
<1>7. CASE CheckBusy(r)
  BY <1>7 DEF CheckBusy
<1>8. CASE Take(r)
  BY <1>8 DEF Take
<1>9. CASE Own(r)
  BY <1>9 DEF Own
<1>10. CASE CancelReset(r)
  BY <1>10 DEF CancelReset
<1>11. ASSUME NEW successful \in BOOLEAN, FinishReset(r, successful)
       PROVE  ResetEffect(r)
  BY <1>11 DEF FinishReset
<1>12. CASE ClearLatch(r)
  BY <1>12 DEF ClearLatch
<1>13. CASE DropOwner(r)
  BY <1>13 DEF DropOwner
<1>14. CASE ReleaseReset(r)
  BY <1>14 DEF ReleaseReset
<1>15. CASE ClearPending(r)
  BY <1>15 DEF ClearPending
<1> QED
  BY <1>2, <1>3, <1>4, <1>5, <1>6, <1>7, <1>8, <1>9, <1>10, <1>11, <1>12, <1>13, <1>14,
     <1>15 DEF ResetStep, WaitStep, FinishStep

LEMMA ResetStepIInv ==
  ASSUME IInv, NEW r \in Resets, ResetStep(r)
  PROVE  IInv'
<1>1. ResetEffect(r)
  BY ResetStepEffect
<1> USE DEF ResetEffect
\* The step is the served goal's or the step of a goal let in when none was.
<1>2. \A s \in Resets : s # r => rpc[s] = "out" /\ rpc'[s] = "out"
  BY <1>1 DEF IInv, PendingIsServed
<1>3. \A t \in Ops : OpInside(t)' <=> OpInside(t)
  BY <1>1 DEF OpInside
<1>4. \A s \in Resets : s # r => ~ResetInside(s) /\ ~ResetInside(s)'
  BY <1>2 DEF ResetInside
<1>5. PendingIsServed'
  BY <1>1, <1>2 DEF PendingIsServed
<1>6. AcquiredAgrees'
  <2> SUFFICES ASSUME NEW s \in Resets
               PROVE  (Holding(s)' => acquired'[s]) /\ (Asking(s)' => ~acquired'[s])
    BY DEF AcquiredAgrees, Holding, Asking
  <2>1. CASE s = r
    BY <1>1, <2>1
  <2>2. CASE s # r
    BY <1>2, <2>2 DEF Holding, Asking
  <2> QED
    BY <2>1, <2>2
<1>7. OwnsAgrees'
  BY <1>1, <1>2 DEF OwnsAgrees
<1>8. BusyHasOwner'
  BY <1>1, <1>3, <1>4 DEF IInv, BusyHasOwner, OneInside
<1>9. OneInside'
  BY <1>1, <1>3, <1>4 DEF IInv, BusyHasOwner, OneInside
<1> QED
  BY <1>1, <1>5, <1>6, <1>7, <1>8, <1>9 DEF IInv

LEMMA StutterIInv == IInv /\ UNCHANGED vars => IInv'
  BY DEF vars, IInv, TypeOK, PendingIsServed, AcquiredAgrees, OwnsAgrees, BusyHasOwner,
         OneInside, Holding, Asking, OpInside, ResetInside

LEMMA NextIInv == IInv /\ [Next]_vars => IInv'
<1> SUFFICES ASSUME IInv, [Next]_vars
             PROVE  IInv'
  OBVIOUS
<1>1. ASSUME NEW t \in Ops, OpStep(t)
      PROVE  IInv'
  BY <1>1, OpStepIInv
<1>2. ASSUME NEW r \in Resets, ResetStep(r)
      PROVE  IInv'
  BY <1>2, ResetStepIInv
<1>3. CASE UNCHANGED vars
  BY <1>3, StutterIInv
<1> QED
  BY <1>1, <1>2, <1>3 DEF Next

\* reserveOperation, waitForResetAccess and finishReset keep the inductive
\* invariant under every interleaving of their atomic accesses.
THEOREM Invariance == Spec => []IInv
  BY InitIInv, NextIInv, PTL DEF Spec

-----------------------------------------------------------------------------
\* The flags are flags and every thread stands at one of its points.
THEOREM TypeCorrect == Spec => []TypeOK
<1>1. IInv => TypeOK
  BY DEF IInv
<1> QED
  BY <1>1, Invariance, PTL

LEMMA IInvExclusive == IInv => Exclusive
<1> SUFFICES ASSUME IInv
             PROVE  Exclusive
  OBVIOUS
<1>1. busy <=> Inside # {}
  BY DEF IInv, BusyHasOwner, Inside
<1>2. \A r, s \in Resets : ResetInside(r) /\ ResetInside(s) => r = s
  BY DEF IInv, PendingIsServed, ResetInside
<1>3. \A p, q \in Inside : p = q
  BY <1>2 DEF IInv, OneInside, Inside
<1> QED
  BY <1>1, <1>3 DEF Exclusive

\* busy_ has exactly one owner, whatever the number of threads: two operations,
\* or an operation and a reset, are never inside together.
THEOREM ExclusiveAlways == Spec => []Exclusive
  BY Invariance, IInvExclusive, PTL

\* The latch falls only in the step of a reset goal that is alone inside.
THEOREM LatchFallsAlone == Spec => LatchFallsInsideReset
<1>1. ASSUME IInv, [Next]_vars, requested /\ ~requested'
      PROVE  \E r \in Resets : ResetInside(r) /\ Inside = {r} /\ rpc[r] = "clear_latch"
  <2>1. ~UNCHANGED vars
    BY <1>1 DEF vars
  <2>2. ASSUME NEW t \in Ops, OpStep(t)
        PROVE  FALSE
    BY <2>2, <1>1, OpStepEffect DEF IInv, OpEffect
  <2>3. PICK r \in Resets : ResetStep(r)
    BY <1>1, <2>1, <2>2 DEF Next
  <2>4. ClearLatch(r)
    BY <2>3, <1>1
       DEF ResetStep, WaitStep, FinishStep, RequestReset, Latch, Wake, WaitExpires, CheckCancel,
           CheckBusy, Take, Own, CancelReset, FinishReset, DropOwner, ReleaseReset, ClearPending,
           IInv, TypeOK
  <2>5. rpc[r] = "clear_latch" /\ ResetInside(r)
    BY <2>4, <1>1 DEF ClearLatch, ResetAt, ResetInside, IInv, AcquiredAgrees, Holding
  <2>6. Inside = {r}
    BY <2>5, <1>1, IInvExclusive DEF Exclusive, Inside
  <2> QED
    BY <2>5, <2>6
<1> QED
  BY <1>1, Invariance, PTL DEF Spec, LatchFallsInsideReset

-----------------------------------------------------------------------------
\* The refinement.  A step leaves the set of those inside alone, or brings one
\* client into an empty gate, or takes the only one out.
GateMoves ==
  \/ Inside' = Inside
  \/ \E c \in Ops \cup Resets : Inside = {} /\ Inside' = {c}
  \/ \E c \in Ops \cup Resets : Inside = {c} /\ Inside' = {}

LEMMA OpGateMoves ==
  ASSUME IInv, NEW t \in Ops, OpStep(t)
  PROVE  GateMoves
<1>1. OpEffect(t)
  BY OpStepEffect DEF IInv
<1>2. /\ \A s \in Ops : s # t => (OpInside(s)' <=> OpInside(s))
      /\ \A r \in Resets : ResetInside(r)' <=> ResetInside(r)
  BY <1>1 DEF OpEffect, OpInside, ResetInside
<1>3. CASE OpInside(t)' <=> OpInside(t)
  BY <1>2, <1>3 DEF GateMoves, Inside
<1>4. CASE ~busy /\ ~OpInside(t) /\ OpInside(t)'
  <2>1. Inside = {}
    BY <1>4, IInvExclusive DEF Exclusive
  <2>2. Inside' = {t}
    BY <1>2, <1>4, <2>1 DEF Inside
  <2> QED
    BY <2>1, <2>2 DEF GateMoves
<1>5. CASE OpInside(t) /\ ~OpInside(t)'
  <2>1. Inside = {t}
    BY <1>5, IInvExclusive DEF Exclusive, Inside
  <2>2. \A s \in Ops : s # t => ~OpInside(s)
    BY <1>5 DEF IInv, OneInside
  <2>3. \A r \in Resets : ~ResetInside(r)
    BY <1>5 DEF IInv, OneInside
  <2>4. Inside' = {}
    BY <1>2, <1>5, <2>2, <2>3 DEF Inside
  <2> QED
    BY <2>1, <2>4 DEF GateMoves
<1> QED
  BY <1>1, <1>3, <1>4, <1>5 DEF OpEffect

LEMMA ResetGateMoves ==
  ASSUME IInv, NEW r \in Resets, ResetStep(r)
  PROVE  GateMoves
<1>1. ResetEffect(r)
  BY ResetStepEffect
<1>2. \A t \in Ops : OpInside(t)' <=> OpInside(t)
  BY <1>1 DEF ResetEffect, OpInside
<1>3. \A s \in Resets : s # r => ~ResetInside(s) /\ ~ResetInside(s)'
  BY <1>1 DEF ResetEffect, IInv, PendingIsServed, ResetInside
<1>4. CASE ResetInside(r)' <=> ResetInside(r)
  BY <1>2, <1>3, <1>4 DEF GateMoves, Inside
<1>5. CASE ~busy /\ ~ResetInside(r) /\ ResetInside(r)'
  <2>1. Inside = {}
    BY <1>5, IInvExclusive DEF Exclusive
  <2>2. Inside' = {r}
    BY <1>2, <1>3, <1>5, <2>1 DEF Inside
  <2> QED
    BY <2>1, <2>2 DEF GateMoves
<1>6. CASE ResetInside(r) /\ ~ResetInside(r)'
  <2>1. Inside = {r}
    BY <1>6, IInvExclusive DEF Exclusive, Inside
  <2>2. \A t \in Ops : ~OpInside(t)
    BY <1>6 DEF IInv, OneInside
  <2>3. Inside' = {}
    BY <1>2, <1>3, <1>6, <2>2 DEF Inside
  <2> QED
    BY <2>1, <2>3 DEF GateMoves
<1> QED
  BY <1>1, <1>4, <1>5, <1>6 DEF ResetEffect

LEMMA GateOwnerOf ==
  /\ Inside = {} => GateOwner = NoClient
  /\ \A c : Inside = {c} => GateOwner = c
  BY DEF GateOwner

LEMMA GateOwnerOfNext ==
  /\ Inside' = {} => GateOwner' = NoClient
  /\ \A c : Inside' = {c} => GateOwner' = c
  BY DEF GateOwner

\* The coordinator's four atomics implement the abstract gate: to its clients
\* the checks, back-outs and hand-overs are one Enter and one Leave each.
THEOREM RefinesGate == Spec => ImplementsGate
<1>1. Init => Gate!Init
  BY DEF Init, Gate!Init, Inside, OpInside, ResetInside, GateOwner
<1>2. ASSUME IInv, [Next]_vars
      PROVE  [Gate!Next]_GateOwner
  <2>1. CASE UNCHANGED vars
    BY <2>1 DEF vars, GateOwner, Inside, OpInside, ResetInside
  <2>2. CASE Next
    <3>1. GateMoves
      BY <1>2, <2>2, OpGateMoves, ResetGateMoves DEF Next
    <3>2. CASE Inside' = Inside
      BY <3>2 DEF GateOwner
    <3>3. CASE \E c \in Ops \cup Resets : Inside = {} /\ Inside' = {c}
      BY <3>3, GateOwnerOf, GateOwnerOfNext DEF Gate!Next, Gate!Enter
    <3>4. CASE \E c \in Ops \cup Resets : Inside = {c} /\ Inside' = {}
      BY <3>4, GateOwnerOf, GateOwnerOfNext DEF Gate!Next, Gate!Leave
    <3> QED
      BY <3>1, <3>2, <3>3, <3>4 DEF GateMoves
  <2> QED
    BY <1>2, <2>1, <2>2
<1> QED
  BY <1>1, <1>2, Invariance, PTL DEF Spec, ImplementsGate, Gate!Spec
=============================================================================
