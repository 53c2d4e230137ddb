----------------------- MODULE ManipulationServer_proofs -----------------------
(* Proofs about ManipulationServer for any number of operations, recovery calls, resets
   and restarts, and any number of calls in the attachment service.

   A box that is on the arms, or that a queued call may still put there (BoxPossible),
   is known to the server: as recorded, or as what the running task is about to record
   (BoxIsKnown).  Nothing claims EMPTY, in the state, the file or a setState call on its
   way, while a box is possible (NoBoxLeft, BoxIsKnown); what makes that inductive is
   that the call somebody waits for is the last one in the service, so that an answered
   detachment leaves nothing behind it (WaitingIsLast, DetachAnswered). *)
EXTENDS ManipulationServer, SequenceTheorems, TLAPS

\* The box is on the arms, or a call may still put it there.
BoxPossible == attached \/ AttachQueued

GateHolder ==
  /\ (gate = "op" <=> opc # "idle")
  /\ rpc \in {"begin", "cleanup", "detaching", "motion"} => gate = "reset"
  /\ gate = "reset" => rpc \in {"begin", "cleanup", "detaching", "motion", "finish", "close"}

LatchCovers ==
  /\ (pending <=> rpc # "idle")
  /\ pending => latch
  /\ detachDone => latch /\ opc = "idle" /\ ~expected
  /\ detachDone /\ resetSuccess => rpc = "finish"

JobsByPoint ==
  /\ opc \in {"idle", "begin", "recover", "validate", "attach", "attaching", "attached", "release",
              "detaching"} => job["op"] = NoJob
  /\ rpc \notin {"wait", "finish", "close"} => job["reset"] = NoJob
  /\ job["op"] # NoJob => ~job["op"].override
  /\ job["reset"] # NoJob =>
       job["reset"].value = IF resetSuccess THEN "EMPTY" ELSE "RECOVERY_REQUIRED"
  /\ \A a \in Actors : job[a] # NoJob =>
       job[a].value # "UNKNOWN" /\ (job[a].at = "persist" => state # "UNKNOWN")

SuccessIsEmpty ==
  resetSuccess =>
    /\ rpc \in {"finish", "close"} /\ gate = "reset"
    /\ job["reset"] = NoJob \/ job["reset"].at = "persist" => state = "EMPTY"
    /\ job["reset"] # NoJob => job["reset"].override

KindByPoint ==
  /\ opc = "recover" => kind \in Recoveries
  /\ opc \notin {"idle", "recover", "leave"} => kind \in Tasks
  /\ opc = "leave" => job["op"] = NoJob \/ kind \in Recoveries

\* The call that is waited for is the last one.
WaitingIsLast ==
  \A i \in DOMAIN calls :
    /\ calls[i].caller # "nobody" => i = Len(calls)
    /\ calls[i].caller = "op" =>
         \/ opc = "attaching" /\ calls[i].call = "attach"
         \/ opc = "detaching" /\ calls[i].call = "detach"
    /\ calls[i].caller = "reset" => rpc = "detaching" /\ calls[i].call = "detach"

DetachAnswered ==
  \/ opc = "detaching" /\ answer["op"] = "ok"
  \/ rpc = "detaching" /\ answer["reset"] = "ok"
  => ~BoxPossible

ClaimsEmpty(a) == job[a] # NoJob /\ job[a].value = "EMPTY"

NoBoxLeft ==
  /\ lapses = {}
  /\ \/ opc \in {"release_scene", "retreat"}
     \/ opc = "recover" /\ kind = "confirm_empty"
     \/ rpc = "motion" \/ detachDone \/ resetSuccess
     \/ ClaimsEmpty("op") \/ ClaimsEmpty("reset")
  => ~BoxPossible

Recorded == state # "EMPTY" /\ RestartState # "EMPTY"

Recording ==
  \/ opc \in {"attaching", "attached"}
  \/ opc = "attach_scene" /\ (job["op"] # NoJob \/ latch)
  \/ opc = "outcome" /\ job["op"] # NoJob /\ job["op"].value = "RECOVERY_REQUIRED"

\* After a restart the server does not expect the box, and does not say EMPTY either.
Lost ==
  /\ rpc = "idle" /\ state \in {"UNKNOWN", "RECOVERY_REQUIRED"}
  /\ opc \in {"idle", "begin", "recover", "validate", "outcome", "leave"}
  /\ job["op"] # NoJob => job["op"].value = "RECOVERY_REQUIRED"

BoxIsKnown ==
  lapses = {} /\ BoxPossible =>
    /\ Recorded \/ Recording
    /\ job["op"] # NoJob /\ job["op"].at = "persist" => state # "EMPTY"
    /\ expected \/ opc = "attaching" \/ Lost

ReleasedByPoint ==
  kind \in Tasks /\ opc \notin {"idle", "begin"} /\ disposition = "released" =>
    /\ opc \in {"release_scene", "retreat", "outcome", "leave"}
    /\ lapses = {} => ~BoxPossible

UnknownNotExpected ==
  state = "UNKNOWN" =>
    /\ expected => latch \/ (opc = "leave" /\ kind = "confirm_holding" /\ job["op"] # NoJob)
    /\ kind \in Tasks /\ opc # "idle" =>
         ~expected /\ opc \in {"begin", "validate", "outcome", "leave"}

HonestLeave ==
  opc = "leave" /\ kind \in Tasks /\ ~told /\ lapses = {} /\ BoxPossible =>
    Lost /\ state = "UNKNOWN"

IInv ==
  /\ TypeOK
  /\ GateHolder /\ LatchCovers /\ JobsByPoint /\ SuccessIsEmpty /\ KindByPoint
  /\ WaitingIsLast /\ DetachAnswered /\ NoBoxLeft /\ BoxIsKnown
  /\ ReleasedByPoint /\ UnknownNotExpected /\ HonestLeave
-----------------------------------------------------------------------------
\* A setState call is not the absence of one.
LEMMA NoJobFacts ==
  /\ NoJob.at = "none"
  /\ \A at \in {"check", "store", "persist"} : \A value, override :
       [at |-> at, value |-> value, override |-> override] # NoJob
  /\ \A j \in Jobs : j # NoJob
  BY DEF NoJob, Jobs

\* A setState call as it begins.
LEMMA JobBegun ==
  ASSUME TypeOK, NEW a \in Actors, NEW value \in States, NEW override \in BOOLEAN,
         SetState(a, value, override)
  PROVE  /\ job' \in [Actors -> Jobs \cup {NoJob}]
         /\ job'[a] # NoJob /\ job'[a].at = "check"
         /\ job'[a].value = value /\ job'[a].override = override
         /\ \A b \in Actors : b # a => job'[b] = job[b]
<1> DEFINE new == [at |-> "check", value |-> value, override |-> override]
<1>1. new \in Jobs /\ new.at = "check" /\ new.value = value /\ new.override = override
  BY DEF Jobs
<1>2. new # NoJob
  BY <1>1, NoJobFacts
<1> HIDE DEF new
<1>3. job' = [job EXCEPT ![a] = new] /\ job \in [Actors -> Jobs \cup {NoJob}]
  BY DEF SetState, TypeOK, new
<1> QED
  BY <1>1, <1>2, <1>3

\* The steps of a setState call.
LEMMA JobSteps ==
  ASSUME TypeOK, NEW a \in Actors, SetStateStep(a)
  PROVE  /\ job' \in [Actors -> Jobs \cup {NoJob}] /\ job[a] # NoJob /\ job[a] \in Jobs
         /\ \A b \in Actors : b # a => job'[b] = job[b]
         /\ \/ /\ CheckLatch(a) /\ job[a].at = "check" /\ job'[a] = NoJob
               /\ latch /\ job[a].value # "RECOVERY_REQUIRED" /\ ~job[a].override
            \/ /\ CheckLatch(a) /\ job[a].at = "check"
               /\ job'[a] # NoJob /\ job'[a].at = "store"
               /\ job'[a].value = job[a].value /\ job'[a].override = job[a].override
               /\ ~latch \/ job[a].value = "RECOVERY_REQUIRED" \/ job[a].override
            \/ /\ StoreState(a) /\ job[a].at = "store" /\ state' = job[a].value
               /\ job'[a] # NoJob /\ job'[a].at = "persist"
               /\ job'[a].value = job[a].value /\ job'[a].override = job[a].override
            \/ PersistState(a) /\ job[a].at = "persist" /\ job'[a] = NoJob
<1>1. job \in [Actors -> Jobs \cup {NoJob}]
  BY DEF TypeOK
<1>2. job[a] # NoJob /\ job[a] \in Jobs
  BY <1>1, NoJobFacts DEF SetStateStep, CheckLatch, StoreState, PersistState
<1>3. CASE CheckLatch(a)
  <2>1. CASE latch /\ job[a].value # "RECOVERY_REQUIRED" /\ ~job[a].override
    BY <1>1, <1>2, <1>3, <2>1 DEF CheckLatch
  <2>2. CASE ~(latch /\ job[a].value # "RECOVERY_REQUIRED" /\ ~job[a].override)
    <3> DEFINE new == [job[a] EXCEPT !.at = "store"]
    <3>1. new \in Jobs /\ new.at = "store" /\ new.value = job[a].value
          /\ new.override = job[a].override
      BY <1>2 DEF Jobs
    <3>2. new # NoJob
      BY <3>1, NoJobFacts
    <3>3. job' = [job EXCEPT ![a] = new]
      BY <1>3, <2>2 DEF CheckLatch
    <3> HIDE DEF new
    <3> QED
      BY <1>1, <1>2, <1>3, <2>2, <3>1, <3>2, <3>3 DEF CheckLatch, Jobs
  <2> QED
    BY <2>1, <2>2
<1>4. CASE StoreState(a)
  <2> DEFINE new == [job[a] EXCEPT !.at = "persist"]
  <2>1. new \in Jobs /\ new.at = "persist" /\ new.value = job[a].value
        /\ new.override = job[a].override
    BY <1>2 DEF Jobs
  <2>2. new # NoJob
    BY <2>1, NoJobFacts
  <2>3. job' = [job EXCEPT ![a] = new]
    BY <1>4 DEF StoreState
  <2> HIDE DEF new
  <2> QED
    BY <1>1, <1>2, <1>4, <2>1, <2>2, <2>3 DEF StoreState
<1>5. CASE PersistState(a)
  BY <1>1, <1>2, <1>5 DEF PersistState
<1> QED
  BY <1>3, <1>4, <1>5 DEF SetStateStep

\* Sending a call, and forgetting it.
LEMMA CallSent ==
  ASSUME TypeOK, NEW a \in Actors, NEW call \in {"attach", "detach"}, Dispatch(a, call)
  PROVE  /\ calls' \in Seq(Calls) /\ attached' = attached /\ Len(calls') = Len(calls) + 1
         /\ DOMAIN calls = 1..Len(calls) /\ DOMAIN calls' = 1..Len(calls') /\ Len(calls) \in Nat
         /\ \A i \in DOMAIN calls : calls'[i] = calls[i]
         /\ calls'[Len(calls')].call = call /\ calls'[Len(calls')].caller = a
         /\ answer' \in [Actors -> {"none", "waiting", "ok", "failed"}]
         /\ answer'[a] = "waiting" /\ \A b \in Actors : b # a => answer'[b] = answer[b]
<1> DEFINE new == [call |-> call, caller |-> a]
<1>1. new \in Calls /\ new.call = call /\ new.caller = a
  BY DEF Calls
<1>2. calls \in Seq(Calls) /\ answer \in [Actors -> {"none", "waiting", "ok", "failed"}]
  BY DEF TypeOK
<1> HIDE DEF new
<1>3. calls' = Append(calls, new) /\ answer' = [answer EXCEPT ![a] = "waiting"]
      /\ attached' = attached
  BY DEF Dispatch, new
<1> QED
  BY <1>1, <1>2, <1>3

LEMMA CallForgotten ==
  ASSUME TypeOK, NEW a \in Actors, Returned(a)
  PROVE  /\ calls' \in Seq(Calls) /\ attached' = attached
         /\ DOMAIN calls' = DOMAIN calls /\ Len(calls') = Len(calls)
         /\ \A i \in DOMAIN calls :
              /\ calls'[i].call = calls[i].call
              /\ calls'[i].caller = IF calls[i].caller = a THEN "nobody" ELSE calls[i].caller
         /\ answer' \in [Actors -> {"none", "waiting", "ok", "failed"}]
         /\ answer'[a] = "none" /\ \A b \in Actors : b # a => answer'[b] = answer[b]
<1>1. calls \in Seq(Calls) /\ answer \in [Actors -> {"none", "waiting", "ok", "failed"}]
  BY DEF TypeOK
<1>2. calls' = Abandoned(a) /\ answer' = [answer EXCEPT ![a] = "none"] /\ attached' = attached
  BY DEF Returned
<1>3. DOMAIN calls = 1..Len(calls) /\ Len(calls) \in Nat
  BY <1>1
<1>4. ASSUME NEW i \in DOMAIN calls
      PROVE  /\ calls'[i] \in Calls /\ calls'[i].call = calls[i].call
             /\ calls'[i].caller = IF calls[i].caller = a THEN "nobody" ELSE calls[i].caller
  <2>1. calls[i] \in Calls
    BY <1>1
  <2>2. calls'[i] = IF calls[i].caller = a THEN [calls[i] EXCEPT !.caller = "nobody"] ELSE calls[i]
    BY <1>2 DEF Abandoned
  <2> QED
    BY <2>1, <2>2 DEF Calls
<1>5. DOMAIN calls' = DOMAIN calls /\ calls' \in [1..Len(calls) -> Calls]
  BY <1>2, <1>3, <1>4 DEF Abandoned
<1>6. calls' \in Seq(Calls) /\ Len(calls') = Len(calls)
  BY <1>3, <1>5
<1> QED
  BY <1>1, <1>2, <1>4, <1>5, <1>6

LEMMA CallServed ==
  ASSUME TypeOK, NEW success \in BOOLEAN, NEW delivered \in BOOLEAN, Serve(success, delivered)
  PROVE  /\ DOMAIN calls = 1..Len(calls) /\ DOMAIN calls' = 1..Len(calls') /\ Len(calls) \in Nat
         /\ 1 \in DOMAIN calls /\ calls' \in Seq(Calls) /\ Len(calls') = Len(calls) - 1
         /\ \A i \in DOMAIN calls' : i + 1 \in DOMAIN calls /\ calls'[i] = calls[i + 1]
         /\ attached' = IF success THEN calls[1].call = "attach" ELSE attached
         /\ attached' \in BOOLEAN
         /\ answer' \in [Actors -> {"none", "waiting", "ok", "failed"}]
         /\ \A a \in Actors : answer'[a] = "ok" =>
              answer[a] = "ok" \/ (calls[1].caller = a /\ success)
<1>1. calls \in Seq(Calls) /\ calls # <<>> /\ answer \in [Actors -> {"none", "waiting", "ok", "failed"}]
      /\ attached \in BOOLEAN
  BY DEF TypeOK, Serve
<1>2. calls' = Tail(calls) /\ Head(calls) = calls[1]
  BY <1>1 DEF Serve
<1>3. /\ DOMAIN calls = 1..Len(calls) /\ DOMAIN calls' = 1..Len(calls') /\ Len(calls) \in Nat
      /\ 1 \in DOMAIN calls /\ calls' \in Seq(Calls) /\ Len(calls') = Len(calls) - 1
  BY <1>1, <1>2, HeadTailProperties, EmptySeq
<1>4. \A i \in DOMAIN calls' : i + 1 \in DOMAIN calls /\ calls'[i] = calls[i + 1]
  BY <1>1, <1>2, <1>3, HeadTailProperties
<1>5. attached' = (IF success THEN calls[1].call = "attach" ELSE attached) /\ attached' \in BOOLEAN
  BY <1>1, <1>2 DEF Serve
<1>6. answer' = IF delivered /\ calls[1].caller \in Actors
                  THEN [answer EXCEPT ![calls[1].caller] = IF success THEN "ok" ELSE "failed"]
                  ELSE answer
  BY <1>2 DEF Serve
<1>7. answer' \in [Actors -> {"none", "waiting", "ok", "failed"}]
  BY <1>1, <1>6
<1>8. ASSUME NEW a \in Actors, answer'[a] = "ok"
      PROVE  answer[a] = "ok" \/ (calls[1].caller = a /\ success)
  BY <1>1, <1>6, <1>8
<1> QED
  BY <1>3, <1>4, <1>5, <1>7, <1>8

-----------------------------------------------------------------------------
(* The actions, in groups. *)
Working == Recover \/ BeginTask \/ Validate \/ Scene \/ AttachCanceled \/ PlaceAfterPick \/
  Outcome \/ Leave
Attaching == Attach \/ Attached \/ AttachUncertain \/ RecordAttached \/ AttachScene \/ CarryDone
  \/ CarryCanceled
Releasing == Transport \/ Release \/ Released \/ ReleaseUncertain \/ ReleaseScene \/ Retreat \/
  Throw
Resetting == LockState \/ GiveUp \/ Acquire \/ BeginReset \/ Detach \/ DetachUnavailable \/
  NothingToDetach
Finishing == Detached \/ DetachFailed \/ ResetFails \/ ResetDone \/ Finish \/ FinishReset
Requesting == RequestReset \/ RemoveBox \/ CancelOperation \/ CancelReset \/ Restart
Served == \E success, delivered \in BOOLEAN : Serve(success, delivered)
Started == \E k \in Tasks \cup Recoveries : StartOperation(k)

\* Every step is in one of the groups.
LEMMA Groups ==
  Next => \/ SetStateStep("op") \/ SetStateStep("reset") \/ Started \/ Served
          \/ Working \/ Attaching \/ Releasing \/ Resetting \/ Finishing \/ Requesting
  BY DEF Next, TaskStep, ResetStep, Environment, Actors, Served, Started, Working, Attaching, Releasing,
         Resetting, Finishing, Requesting

USE DEF world_vars, gate_vars, op_vars, reset_vars, count_vars, Go, At, TaskUnchanged, ResetGo,
        ResetUnchanged

(* Typing, by parts. *)
WorldTyped ==
  /\ attached \in BOOLEAN /\ calls \in Seq(Calls)
  /\ answer \in [Actors -> {"none", "waiting", "ok", "failed"}]
BeliefTyped ==
  /\ state \in States /\ file \in {"none", "EMPTY", "HOLDING"} /\ expected \in BOOLEAN
  /\ disposition \in {"", "not_attached", "attached", "uncertain", "released"}
  /\ lapses \subseteq {"crash", "late_attach", "persist"}
GateTyped == gate \in Actors \cup {"free"} /\ latch \in BOOLEAN /\ pending \in BOOLEAN
OpTyped ==
  /\ opc \in {"idle", "begin", "recover", "validate", "attach", "attaching", "attached",
              "attach_scene", "carry", "scene", "transport", "release", "detaching",
              "release_scene", "retreat", "place", "outcome", "leave"}
  /\ kind \in Tasks \cup Recoveries /\ opCanceled \in BOOLEAN /\ told \in BOOLEAN
ResetTyped ==
  /\ rpc \in {"idle", "lock", "wait", "begin", "cleanup", "detaching", "motion", "finish",
              "close"}
  /\ resetCanceled \in BOOLEAN /\ resetSuccess \in BOOLEAN /\ detachDone \in BOOLEAN
JobTyped == job \in [Actors -> Jobs \cup {NoJob}]
CountTyped == starts \in 0..MaxStarts /\ resets \in 0..MaxResets /\ crashes \in 0..MaxCrashes

\* The type invariant is the conjunction of its parts.
LEMMA TypeParts ==
  TypeOK <=> /\ WorldTyped /\ BeliefTyped /\ GateTyped /\ OpTyped /\ ResetTyped /\ JobTyped
             /\ CountTyped
<1>1. /\ {opCanceled, told} \subseteq BOOLEAN <=> opCanceled \in BOOLEAN /\ told \in BOOLEAN
      /\ {resetCanceled, resetSuccess, detachDone} \subseteq BOOLEAN <=>
           resetCanceled \in BOOLEAN /\ resetSuccess \in BOOLEAN /\ detachDone \in BOOLEAN
  OBVIOUS
<1> QED
  BY <1>1 DEF TypeOK, WorldTyped, BeliefTyped, GateTyped, OpTyped, ResetTyped, JobTyped,
     CountTyped

\* Types are kept, part by part.
LEMMA GateTypedNext ==
  ASSUME GateTyped, Next
  PROVE  GateTyped'
<1>1. CASE SetStateStep("op")
  BY <1>1 DEF SetStateStep, CheckLatch, StoreState, PersistState, GateTyped, Actors
<1>2. CASE SetStateStep("reset")
  BY <1>2 DEF SetStateStep, CheckLatch, StoreState, PersistState, GateTyped, Actors
<1>3. CASE Started
  BY <1>3 DEF Started, StartOperation, GateTyped, Actors
<1>4. CASE Served
  BY <1>4 DEF Served, Serve, GateTyped, Actors
<1>5. CASE Working
  BY <1>5 DEF Working, Recover, BeginTask, Validate, Scene, AttachCanceled, PlaceAfterPick,
     Outcome, Leave, GoSetting, GateTyped, Actors
<1>6. CASE Attaching
  BY <1>6 DEF Attaching, Attach, Attached, AttachUncertain, RecordAttached, AttachScene,
     CarryDone, CarryCanceled, GoSetting, GateTyped, Actors
<1>7. CASE Releasing
  BY <1>7 DEF Releasing, Transport, Release, Released, ReleaseUncertain, ReleaseScene, Retreat,
     Throw, GoSetting, GateTyped, Actors
<1>8. CASE Resetting
  BY <1>8 DEF Resetting, LockState, GiveUp, Acquire, BeginReset, Detach, DetachUnavailable,
     NothingToDetach, Fail, GateTyped, Actors
<1>9. CASE Finishing
  BY <1>9 DEF Finishing, Detached, DetachFailed, ResetFails, ResetDone, Finish, FinishReset,
     Fail, GateTyped, Actors
<1>10. CASE Requesting
  BY <1>10 DEF Requesting, RequestReset, RemoveBox, CancelOperation, CancelReset, Restart,
     GateTyped, Actors
<1> QED   BY <1>1, <1>2, <1>3, <1>4, <1>5, <1>6, <1>7, <1>8, <1>9, <1>10, Groups

LEMMA OpTypedNext ==
  ASSUME OpTyped, Next
  PROVE  OpTyped'
<1>1. CASE SetStateStep("op")
  BY <1>1 DEF SetStateStep, CheckLatch, StoreState, PersistState, OpTyped, Tasks, Recoveries
<1>2. CASE SetStateStep("reset")
  BY <1>2 DEF SetStateStep, CheckLatch, StoreState, PersistState, OpTyped, Tasks, Recoveries
<1>3. CASE Started
  BY <1>3 DEF Started, StartOperation, OpTyped, Tasks, Recoveries
<1>4. CASE Served
  BY <1>4 DEF Served, Serve, OpTyped, Tasks, Recoveries
<1>5. CASE Working
  BY <1>5 DEF Working, Recover, BeginTask, Validate, Scene, AttachCanceled, PlaceAfterPick,
     Outcome, Leave, GoSetting, ObjectHeld, OpTyped, Tasks, Recoveries
<1>6. CASE Attaching
  BY <1>6 DEF Attaching, Attach, Attached, AttachUncertain, RecordAttached, AttachScene,
     CarryDone, CarryCanceled, GoSetting, OpTyped, Tasks, Recoveries
<1>7. CASE Releasing
  BY <1>7 DEF Releasing, Transport, Release, Released, ReleaseUncertain, ReleaseScene, Retreat,
     Throw, GoSetting, OpTyped, Tasks, Recoveries
<1>8. CASE Resetting
  BY <1>8 DEF Resetting, LockState, GiveUp, Acquire, BeginReset, Detach, DetachUnavailable,
     NothingToDetach, Fail, OpTyped, Tasks, Recoveries
<1>9. CASE Finishing
  BY <1>9 DEF Finishing, Detached, DetachFailed, ResetFails, ResetDone, Finish, FinishReset,
     Fail, OpTyped, Tasks, Recoveries
<1>10. CASE Requesting
  BY <1>10 DEF Requesting, RequestReset, RemoveBox, CancelOperation, CancelReset, Restart,
     OpTyped, Tasks, Recoveries
<1> QED   BY <1>1, <1>2, <1>3, <1>4, <1>5, <1>6, <1>7, <1>8, <1>9, <1>10, Groups

LEMMA ResetTypedNext ==
  ASSUME ResetTyped, Next
  PROVE  ResetTyped'
<1>1. CASE SetStateStep("op")
  BY <1>1 DEF SetStateStep, CheckLatch, StoreState, PersistState, ResetTyped
<1>2. CASE SetStateStep("reset")
  BY <1>2 DEF SetStateStep, CheckLatch, StoreState, PersistState, ResetTyped
<1>3. CASE Started
  BY <1>3 DEF Started, StartOperation, ResetTyped
<1>4. CASE Served
  BY <1>4 DEF Served, Serve, ResetTyped
<1>5. CASE Working
  BY <1>5 DEF Working, Recover, BeginTask, Validate, Scene, AttachCanceled, PlaceAfterPick,
     Outcome, Leave, GoSetting, ResetTyped
<1>6. CASE Attaching
  BY <1>6 DEF Attaching, Attach, Attached, AttachUncertain, RecordAttached, AttachScene,
     CarryDone, CarryCanceled, GoSetting, ResetTyped
<1>7. CASE Releasing
  BY <1>7 DEF Releasing, Transport, Release, Released, ReleaseUncertain, ReleaseScene, Retreat,
     Throw, GoSetting, ResetTyped
<1>8. CASE Resetting
  BY <1>8 DEF Resetting, LockState, GiveUp, Acquire, BeginReset, Detach, DetachUnavailable,
     NothingToDetach, Fail, ResetTyped
<1>9. CASE Finishing
  BY <1>9 DEF Finishing, Detached, DetachFailed, ResetFails, ResetDone, Finish, FinishReset,
     Fail, ResetTyped
<1>10. CASE Requesting
  BY <1>10 DEF Requesting, RequestReset, RemoveBox, CancelOperation, CancelReset, Restart,
     ResetTyped
<1> QED   BY <1>1, <1>2, <1>3, <1>4, <1>5, <1>6, <1>7, <1>8, <1>9, <1>10, Groups

LEMMA CountTypedNext ==
  ASSUME CountTyped, Next
  PROVE  CountTyped'
<1>0. MaxStarts \in Nat /\ MaxResets \in Nat /\ MaxCrashes \in Nat
  BY BoundsAssumption
<1>1. CASE SetStateStep("op")
  BY <1>1, <1>0 DEF SetStateStep, CheckLatch, StoreState, PersistState, CountTyped
<1>2. CASE SetStateStep("reset")
  BY <1>2, <1>0 DEF SetStateStep, CheckLatch, StoreState, PersistState, CountTyped
<1>3. CASE Started
  BY <1>3, <1>0 DEF Started, StartOperation, CountTyped
<1>4. CASE Served
  BY <1>4, <1>0 DEF Served, Serve, CountTyped
<1>5. CASE Working
  BY <1>5, <1>0 DEF Working, Recover, BeginTask, Validate, Scene, AttachCanceled,
     PlaceAfterPick, Outcome, Leave, GoSetting, CountTyped
<1>6. CASE Attaching
  BY <1>6, <1>0 DEF Attaching, Attach, Attached, AttachUncertain, RecordAttached, AttachScene,
     CarryDone, CarryCanceled, GoSetting, CountTyped
<1>7. CASE Releasing
  BY <1>7, <1>0 DEF Releasing, Transport, Release, Released, ReleaseUncertain, ReleaseScene,
     Retreat, Throw, GoSetting, CountTyped
<1>8. CASE Resetting
  BY <1>8, <1>0 DEF Resetting, LockState, GiveUp, Acquire, BeginReset, Detach,
     DetachUnavailable, NothingToDetach, Fail, CountTyped
<1>9. CASE Finishing
  BY <1>9, <1>0 DEF Finishing, Detached, DetachFailed, ResetFails, ResetDone, Finish,
     FinishReset, Fail, CountTyped
<1>10. CASE Requesting
  <2>1. CASE RequestReset \/ RemoveBox \/ CancelOperation \/ CancelReset
    BY <2>1, <1>0 DEF RequestReset, RemoveBox, CancelOperation, CancelReset, CountTyped
  <2>2. CASE Restart
    <3>1. crashes < MaxCrashes /\ crashes' = crashes + 1 /\ starts' = starts /\ resets' = resets
      BY <2>2 DEF Restart
    <3> QED
      BY <1>0, <3>1 DEF CountTyped
  <2> QED
    BY <1>10, <2>1, <2>2 DEF Requesting
<1> QED   BY <1>1, <1>2, <1>3, <1>4, <1>5, <1>6, <1>7, <1>8, <1>9, <1>10, Groups

LEMMA JobTypedNext ==
  ASSUME TypeOK, Next
  PROVE  JobTyped'
<1>0. JobTyped
  BY TypeParts
<1>1. CASE SetStateStep("op")
  BY <1>1, JobSteps DEF JobTyped, Actors
<1>2. CASE SetStateStep("reset")
  BY <1>2, JobSteps DEF JobTyped, Actors
<1>3. CASE Started
  BY <1>3, <1>0, JobBegun DEF Started, StartOperation, States, Actors, JobTyped
<1>4. CASE Served
  BY <1>4, <1>0, JobBegun DEF Served, Serve, States, Actors, JobTyped
<1>5. CASE Working
  BY <1>5, <1>0, JobBegun DEF Working, Recover, BeginTask, Validate, Scene, AttachCanceled,
     PlaceAfterPick, Outcome, Leave, GoSetting, States, Actors, JobTyped
<1>6. CASE Attaching
  BY <1>6, <1>0, JobBegun DEF Attaching, Attach, Attached, AttachUncertain, RecordAttached,
     AttachScene, CarryDone, CarryCanceled, GoSetting, States, Actors, JobTyped
<1>7. CASE Releasing
  BY <1>7, <1>0, JobBegun DEF Releasing, Transport, Release, Released, ReleaseUncertain,
     ReleaseScene, Retreat, Throw, GoSetting, States, Actors, JobTyped
<1>8. CASE Resetting
  BY <1>8, <1>0, JobBegun DEF Resetting, LockState, GiveUp, Acquire, BeginReset, Detach,
     DetachUnavailable, NothingToDetach, Fail, States, Actors, JobTyped
<1>9. CASE Finishing
  BY <1>9, <1>0, JobBegun DEF Finishing, Detached, DetachFailed, ResetFails, ResetDone, Finish,
     FinishReset, Fail, States, Actors, JobTyped
<1>10. CASE Requesting
  BY <1>10, <1>0, JobBegun DEF Requesting, RequestReset, RemoveBox, CancelOperation,
     CancelReset, Restart, JobTyped, States, Actors
<1> QED   BY <1>1, <1>2, <1>3, <1>4, <1>5, <1>6, <1>7, <1>8, <1>9, <1>10, Groups

\* After a restart nobody waits for the calls that are out.
LEMMA CallsOrphaned ==
  ASSUME WorldTyped, Restart
  PROVE  /\ calls' \in Seq(Calls) /\ attached' = attached
         /\ DOMAIN calls' = DOMAIN calls /\ Len(calls') = Len(calls)
         /\ \A i \in DOMAIN calls : calls'[i].call = calls[i].call /\ calls'[i].caller = "nobody"
<1>1. calls \in Seq(Calls) /\ DOMAIN calls = 1..Len(calls) /\ Len(calls) \in Nat
  BY DEF WorldTyped
<1>2. calls' = [i \in DOMAIN calls |-> [calls[i] EXCEPT !.caller = "nobody"]]
  BY DEF Restart
<1>3. ASSUME NEW i \in DOMAIN calls
      PROVE  /\ calls'[i] \in Calls /\ calls'[i].call = calls[i].call
             /\ calls'[i].caller = "nobody"
  <2>1. calls[i] \in Calls
    BY <1>1
  <2>2. calls'[i] = [calls[i] EXCEPT !.caller = "nobody"]
    BY <1>2
  <2> QED
    BY <2>1, <2>2 DEF Calls
<1>4. DOMAIN calls' = DOMAIN calls /\ calls' \in [1..Len(calls) -> Calls]
  BY <1>1, <1>2, <1>3
<1>5. calls' \in Seq(Calls) /\ Len(calls') = Len(calls)
  BY <1>1, <1>4
<1> QED
  BY <1>3, <1>4, <1>5 DEF Restart

LEMMA WorldTypedNext ==
  ASSUME TypeOK, Next
  PROVE  WorldTyped'
<1>0. WorldTyped
  BY TypeParts
<1>1. CASE SetStateStep("op")
  BY <1>1, <1>0, CallSent, CallForgotten, CallsOrphaned DEF SetStateStep, CheckLatch,
     StoreState, PersistState, WorldTyped, Actors
<1>2. CASE SetStateStep("reset")
  BY <1>2, <1>0, CallSent, CallForgotten, CallsOrphaned DEF SetStateStep, CheckLatch,
     StoreState, PersistState, WorldTyped, Actors
<1>3. CASE Started
  BY <1>3, <1>0, CallSent, CallForgotten, CallsOrphaned DEF Started, StartOperation, WorldTyped,
     Actors
<1>4. CASE Served
  BY <1>4, CallServed DEF Served, WorldTyped
<1>5. CASE Working
  BY <1>5, <1>0, CallSent, CallForgotten, CallsOrphaned DEF Working, Recover, BeginTask,
     Validate, Scene, AttachCanceled, PlaceAfterPick, Outcome, Leave, GoSetting, WorldTyped,
     Actors
<1>6. CASE Attaching
  BY <1>6, <1>0, CallSent, CallForgotten, CallsOrphaned DEF Attaching, Attach, Attached,
     AttachUncertain, RecordAttached, AttachScene, CarryDone, CarryCanceled, GoSetting,
     WorldTyped, Actors
<1>7. CASE Releasing
  BY <1>7, <1>0, CallSent, CallForgotten, CallsOrphaned DEF Releasing, Transport, Release,
     Released, ReleaseUncertain, ReleaseScene, Retreat, Throw, GoSetting, WorldTyped, Actors
<1>8. CASE Resetting
  BY <1>8, <1>0, CallSent, CallForgotten, CallsOrphaned DEF Resetting, LockState, GiveUp,
     Acquire, BeginReset, Detach, DetachUnavailable, NothingToDetach, Fail, WorldTyped, Actors
<1>9. CASE Finishing
  BY <1>9, <1>0, CallSent, CallForgotten, CallsOrphaned DEF Finishing, Detached, DetachFailed,
     ResetFails, ResetDone, Finish, FinishReset, Fail, WorldTyped, Actors
<1>10. CASE Requesting
  <2>1. CASE RequestReset \/ RemoveBox \/ CancelOperation \/ CancelReset
    BY <2>1, <1>0, CallSent, CallForgotten, CallsOrphaned DEF RequestReset, RemoveBox,
       CancelOperation, CancelReset, WorldTyped, Actors
  <2>2. CASE Restart
    BY <2>2, <1>0, CallSent, CallForgotten, CallsOrphaned DEF Restart, WorldTyped, Actors
  <2> QED
    BY <1>10, <2>1, <2>2 DEF Requesting
<1> QED   BY <1>1, <1>2, <1>3, <1>4, <1>5, <1>6, <1>7, <1>8, <1>9, <1>10, Groups

LEMMA BeliefTypedNext ==
  ASSUME TypeOK, Next
  PROVE  BeliefTyped'
<1>0. BeliefTyped
  BY TypeParts
<1>1. CASE SetStateStep("op")
  <2>1. job["op"].value \in States
    BY <1>1, JobSteps DEF Jobs, Actors
  <2> QED
    BY <1>1, <1>0, <2>1 DEF SetStateStep, CheckLatch, StoreState, PersistState, Persisted,
       BeliefTyped
<1>2. CASE SetStateStep("reset")
  <2>1. job["reset"].value \in States
    BY <1>2, JobSteps DEF Jobs, Actors
  <2> QED
    BY <1>2, <1>0, <2>1 DEF SetStateStep, CheckLatch, StoreState, PersistState, Persisted,
       BeliefTyped
<1>3. CASE Started
  BY <1>3, <1>0, BoundsAssumption DEF Started, StartOperation, BeliefTyped, States, RestartState
<1>4. CASE Served
  BY <1>4, <1>0, BoundsAssumption DEF Served, Serve, BeliefTyped, States, RestartState
<1>5. CASE Working
  BY <1>5, <1>0, BoundsAssumption DEF Working, Recover, BeginTask, Validate, Scene,
     AttachCanceled, PlaceAfterPick, Outcome, Leave, GoSetting, BeliefTyped, States,
     RestartState
<1>6. CASE Attaching
  BY <1>6, <1>0, BoundsAssumption DEF Attaching, Attach, Attached, AttachUncertain,
     RecordAttached, AttachScene, CarryDone, CarryCanceled, GoSetting, BeliefTyped, States,
     RestartState
<1>7. CASE Releasing
  BY <1>7, <1>0, BoundsAssumption DEF Releasing, Transport, Release, Released, ReleaseUncertain,
     ReleaseScene, Retreat, Throw, GoSetting, BeliefTyped, States, RestartState
<1>8. CASE Resetting
  BY <1>8, <1>0, BoundsAssumption DEF Resetting, LockState, GiveUp, Acquire, BeginReset, Detach,
     DetachUnavailable, NothingToDetach, Fail, BeliefTyped, States, RestartState
<1>9. CASE Finishing
  BY <1>9, <1>0, BoundsAssumption DEF Finishing, Detached, DetachFailed, ResetFails, ResetDone,
     Finish, FinishReset, Fail, BeliefTyped, States, RestartState
<1>10. CASE Requesting
  BY <1>10, <1>0, BoundsAssumption DEF Requesting, RequestReset, RemoveBox, CancelOperation,
     CancelReset, Restart, BeliefTyped, States, RestartState
<1> QED   BY <1>1, <1>2, <1>3, <1>4, <1>5, <1>6, <1>7, <1>8, <1>9, <1>10, Groups

\* Every step keeps the types.
LEMMA TypeNext ==
  ASSUME TypeOK, Next
  PROVE  TypeOK'
<1>1. /\ WorldTyped /\ BeliefTyped /\ GateTyped /\ OpTyped /\ ResetTyped /\ JobTyped /\ CountTyped
  BY TypeParts
<1>2. /\ WorldTyped' /\ BeliefTyped' /\ GateTyped' /\ OpTyped' /\ ResetTyped' /\ JobTyped'
      /\ CountTyped'
  BY <1>1, WorldTypedNext, BeliefTypedNext, GateTypedNext, OpTypedNext, ResetTypedNext,
     JobTypedNext, CountTypedNext
<1> QED
  BY <1>2, TypeParts, PTL

\* The gate is where the operation and the reset are: one of them enters it when it is free.
LEMMA GateHolderNext ==
  ASSUME IInv, Next
  PROVE  GateHolder'
<1>0. TypeOK /\ GateHolder /\ LatchCovers
  BY DEF IInv
<1>1. CASE SetStateStep("op")
  BY <1>1, <1>0 DEF SetStateStep, CheckLatch, StoreState, PersistState, GateHolder, LatchCovers
<1>2. CASE SetStateStep("reset")
  BY <1>2, <1>0 DEF SetStateStep, CheckLatch, StoreState, PersistState, GateHolder, LatchCovers
<1>3. CASE Started
  BY <1>3, <1>0 DEF Started, StartOperation, GateHolder, LatchCovers
<1>4. CASE Served
  BY <1>4, <1>0 DEF Served, Serve, GateHolder, LatchCovers
<1>5. CASE Working
  BY <1>5, <1>0 DEF Working, Recover, BeginTask, Validate, Scene, AttachCanceled,
     PlaceAfterPick, Outcome, Leave, GoSetting, GateHolder, LatchCovers
<1>6. CASE Attaching
  BY <1>6, <1>0 DEF Attaching, Attach, Attached, AttachUncertain, RecordAttached, AttachScene,
     CarryDone, CarryCanceled, GoSetting, GateHolder, LatchCovers
<1>7. CASE Releasing
  BY <1>7, <1>0 DEF Releasing, Transport, Release, Released, ReleaseUncertain, ReleaseScene,
     Retreat, Throw, GoSetting, GateHolder, LatchCovers
<1>8. CASE Resetting
  BY <1>8, <1>0 DEF Resetting, LockState, GiveUp, Acquire, BeginReset, Detach,
     DetachUnavailable, NothingToDetach, Fail, GateHolder, LatchCovers
<1>9. CASE Finishing
  BY <1>9, <1>0 DEF Finishing, Detached, DetachFailed, ResetFails, ResetDone, Finish,
     FinishReset, Fail, GateHolder, LatchCovers
<1>10. CASE Requesting
  BY <1>10, <1>0 DEF Requesting, RequestReset, RemoveBox, CancelOperation, CancelReset, Restart,
     GateHolder, LatchCovers
<1> QED   BY <1>1, <1>2, <1>3, <1>4, <1>5, <1>6, <1>7, <1>8, <1>9, <1>10, Groups

\* The latch stands from the goal of a reset to its success, and while its detachment counts.
LEMMA LatchCoversNext ==
  ASSUME IInv, Next
  PROVE  LatchCovers'
<1>0. TypeOK /\ GateHolder /\ LatchCovers /\ SuccessIsEmpty
  BY DEF IInv
<1>1. CASE SetStateStep("op")
  BY <1>1, <1>0 DEF SetStateStep, CheckLatch, StoreState, PersistState, GateHolder, LatchCovers,
     SuccessIsEmpty
<1>2. CASE SetStateStep("reset")
  BY <1>2, <1>0 DEF SetStateStep, CheckLatch, StoreState, PersistState, GateHolder, LatchCovers,
     SuccessIsEmpty
<1>3. CASE Started
  BY <1>3, <1>0 DEF Started, StartOperation, GateHolder, LatchCovers, SuccessIsEmpty
<1>4. CASE Served
  BY <1>4, <1>0 DEF Served, Serve, GateHolder, LatchCovers, SuccessIsEmpty
<1>5. CASE Working
  <2>1. CASE Recover
    BY <2>1, <1>0 DEF Recover, GoSetting, GateHolder, LatchCovers, SuccessIsEmpty
  <2>2. CASE BeginTask
    BY <2>2, <1>0 DEF BeginTask, GoSetting, GateHolder, LatchCovers, SuccessIsEmpty
  <2>3. CASE Validate
    BY <2>3, <1>0 DEF Validate, GoSetting, GateHolder, LatchCovers, SuccessIsEmpty
  <2>4. CASE Scene
    BY <2>4, <1>0 DEF Scene, GoSetting, GateHolder, LatchCovers, SuccessIsEmpty
  <2>5. CASE AttachCanceled \/ PlaceAfterPick \/ Outcome \/ Leave
    BY <2>5, <1>0 DEF AttachCanceled, PlaceAfterPick, Outcome, Leave, GoSetting, GateHolder,
       LatchCovers, SuccessIsEmpty
  <2> QED
    BY <1>5, <2>1, <2>2, <2>3, <2>4, <2>5 DEF Working
<1>6. CASE Attaching
  <2>1. CASE Attach
    BY <2>1, <1>0 DEF Attach, GoSetting, GateHolder, LatchCovers, SuccessIsEmpty
  <2>2. CASE Attached
    BY <2>2, <1>0 DEF Attached, GoSetting, GateHolder, LatchCovers, SuccessIsEmpty
  <2>3. CASE AttachUncertain
    BY <2>3, <1>0 DEF AttachUncertain, GoSetting, GateHolder, LatchCovers, SuccessIsEmpty
  <2>4. CASE RecordAttached
    BY <2>4, <1>0 DEF RecordAttached, GoSetting, GateHolder, LatchCovers, SuccessIsEmpty
  <2>5. CASE AttachScene
    BY <2>5, <1>0 DEF AttachScene, GoSetting, GateHolder, LatchCovers, SuccessIsEmpty
  <2>6. CASE CarryDone
    BY <2>6, <1>0 DEF CarryDone, GoSetting, GateHolder, LatchCovers, SuccessIsEmpty
  <2>7. CASE CarryCanceled
    BY <2>7, <1>0 DEF CarryCanceled, GoSetting, GateHolder, LatchCovers, SuccessIsEmpty
  <2> QED
    BY <1>6, <2>1, <2>2, <2>3, <2>4, <2>5, <2>6, <2>7 DEF Attaching
<1>7. CASE Releasing
  <2>1. CASE Transport
    BY <2>1, <1>0 DEF Transport, GoSetting, GateHolder, LatchCovers, SuccessIsEmpty
  <2>2. CASE Release
    BY <2>2, <1>0 DEF Release, GoSetting, GateHolder, LatchCovers, SuccessIsEmpty
  <2>3. CASE Released
    BY <2>3, <1>0 DEF Released, GoSetting, GateHolder, LatchCovers, SuccessIsEmpty
  <2>4. CASE ReleaseUncertain
    BY <2>4, <1>0 DEF ReleaseUncertain, GoSetting, GateHolder, LatchCovers, SuccessIsEmpty
  <2>5. CASE ReleaseScene
    BY <2>5, <1>0 DEF ReleaseScene, GoSetting, GateHolder, LatchCovers, SuccessIsEmpty
  <2>6. CASE Retreat
    BY <2>6, <1>0 DEF Retreat, GoSetting, GateHolder, LatchCovers, SuccessIsEmpty
  <2>7. CASE Throw
    BY <2>7, <1>0 DEF Throw, GoSetting, GateHolder, LatchCovers, SuccessIsEmpty
  <2> QED
    BY <1>7, <2>1, <2>2, <2>3, <2>4, <2>5, <2>6, <2>7 DEF Releasing
<1>8. CASE Resetting
  <2>1. CASE LockState
    BY <2>1, <1>0 DEF LockState, Fail, GateHolder, LatchCovers, SuccessIsEmpty
  <2>2. CASE GiveUp
    BY <2>2, <1>0 DEF GiveUp, Fail, GateHolder, LatchCovers, SuccessIsEmpty
  <2>3. CASE Acquire
    BY <2>3, <1>0 DEF Acquire, Fail, GateHolder, LatchCovers, SuccessIsEmpty
  <2>4. CASE BeginReset
    BY <2>4, <1>0 DEF BeginReset, Fail, GateHolder, LatchCovers, SuccessIsEmpty
  <2>5. CASE Detach
    BY <2>5, <1>0 DEF Detach, Fail, GateHolder, LatchCovers, SuccessIsEmpty
  <2>6. CASE DetachUnavailable
    BY <2>6, <1>0 DEF DetachUnavailable, Fail, GateHolder, LatchCovers, SuccessIsEmpty
  <2>7. CASE NothingToDetach
    BY <2>7, <1>0 DEF NothingToDetach, Fail, GateHolder, LatchCovers, SuccessIsEmpty
  <2> QED
    BY <1>8, <2>1, <2>2, <2>3, <2>4, <2>5, <2>6, <2>7 DEF Resetting
<1>9. CASE Finishing
  <2>1. CASE Detached
    BY <2>1, <1>0 DEF Detached, Fail, GateHolder, LatchCovers, SuccessIsEmpty
  <2>2. CASE DetachFailed
    BY <2>2, <1>0 DEF DetachFailed, Fail, GateHolder, LatchCovers, SuccessIsEmpty
  <2>3. CASE ResetFails
    BY <2>3, <1>0 DEF ResetFails, Fail, GateHolder, LatchCovers, SuccessIsEmpty
  <2>4. CASE ResetDone
    BY <2>4, <1>0 DEF ResetDone, Fail, GateHolder, LatchCovers, SuccessIsEmpty
  <2>5. CASE FinishReset
    BY <2>5, <1>0 DEF FinishReset, Fail, GateHolder, LatchCovers, SuccessIsEmpty
  <2>6. CASE Finish
    <3>1. ResetTyped
      BY <1>0, TypeParts
    <3>2. rpc' = "close" /\ UNCHANGED <<gate, latch, pending, opc, expected>>
      BY <2>6 DEF Finish
    <3>3. CASE resetSuccess' = FALSE /\ UNCHANGED detachDone
      BY <1>0, <3>2, <3>3, <2>6 DEF Finish, GateHolder, LatchCovers
    <3>4. CASE UNCHANGED resetSuccess /\ detachDone' = (detachDone /\ ~resetSuccess)
      <4>1. CASE resetSuccess = TRUE
        <5>1. detachDone' = FALSE
          BY <3>4, <4>1
        <5> QED
          BY <1>0, <3>2, <5>1, <2>6 DEF Finish, GateHolder, LatchCovers
      <4>2. CASE resetSuccess = FALSE
        <5>1. detachDone' = detachDone /\ resetSuccess' = FALSE
          BY <3>1, <3>4, <4>2 DEF ResetTyped
        <5> QED
          BY <1>0, <3>2, <5>1, <2>6 DEF Finish, GateHolder, LatchCovers
      <4> QED
        BY <3>1, <4>1, <4>2 DEF ResetTyped
    <3> QED
      BY <3>3, <3>4, <2>6 DEF Finish
  <2> QED
    BY <1>9, <2>1, <2>2, <2>3, <2>4, <2>5, <2>6 DEF Finishing
<1>10. CASE Requesting
  <2>1. CASE RequestReset \/ RemoveBox \/ CancelOperation \/ CancelReset
    BY <2>1, <1>0 DEF RequestReset, RemoveBox, CancelOperation, CancelReset, GateHolder,
       LatchCovers, SuccessIsEmpty
  <2>2. CASE Restart
    BY <2>2, <1>0 DEF Restart, GateHolder, LatchCovers, SuccessIsEmpty
  <2> QED
    BY <1>10, <2>1, <2>2 DEF Requesting
<1> QED   BY <1>1, <1>2, <1>3, <1>4, <1>5, <1>6, <1>7, <1>8, <1>9, <1>10, Groups

\* Recovery calls and tasks are at points of their own; a task leaves with nothing to store.
LEMMA KindByPointNext ==
  ASSUME IInv, Next
  PROVE  KindByPoint'
<1>0. TypeOK /\ KindByPoint /\ JobsByPoint
  BY DEF IInv
<1>1. CASE SetStateStep("op")
  BY <1>1, <1>0, JobSteps DEF SetStateStep, CheckLatch, StoreState, PersistState, Actors,
     KindByPoint
<1>2. CASE SetStateStep("reset")
  BY <1>2, <1>0, JobSteps DEF SetStateStep, CheckLatch, StoreState, PersistState, Actors,
     KindByPoint
<1>3. CASE Started
  BY <1>3, <1>0, JobBegun DEF Started, StartOperation, KindByPoint, JobsByPoint, Tasks,
     Recoveries, Actors, States
<1>4. CASE Served
  BY <1>4, <1>0, JobBegun DEF Served, Serve, KindByPoint, JobsByPoint, Tasks, Recoveries,
     Actors, States
<1>5. CASE Working
  BY <1>5, <1>0, JobBegun DEF Working, Recover, BeginTask, Validate, Scene, AttachCanceled,
     PlaceAfterPick, Outcome, Leave, GoSetting, KindByPoint, JobsByPoint, Tasks, Recoveries,
     Actors, States
<1>6. CASE Attaching
  BY <1>6, <1>0, JobBegun DEF Attaching, Attach, Attached, AttachUncertain, RecordAttached,
     AttachScene, CarryDone, CarryCanceled, GoSetting, KindByPoint, JobsByPoint, Tasks,
     Recoveries, Actors, States
<1>7. CASE Releasing
  BY <1>7, <1>0, JobBegun DEF Releasing, Transport, Release, Released, ReleaseUncertain,
     ReleaseScene, Retreat, Throw, GoSetting, KindByPoint, JobsByPoint, Tasks, Recoveries,
     Actors, States
<1>8. CASE Resetting
  BY <1>8, <1>0, JobBegun DEF Resetting, LockState, GiveUp, Acquire, BeginReset, Detach,
     DetachUnavailable, NothingToDetach, Fail, KindByPoint, JobsByPoint, Tasks, Recoveries,
     Actors, States
<1>9. CASE Finishing
  BY <1>9, <1>0, JobBegun DEF Finishing, Detached, DetachFailed, ResetFails, ResetDone, Finish,
     FinishReset, Fail, KindByPoint, JobsByPoint, Tasks, Recoveries, Actors, States
<1>10. CASE Requesting
  BY <1>10, <1>0, JobBegun DEF Requesting, RequestReset, RemoveBox, CancelOperation,
     CancelReset, Restart, KindByPoint, JobsByPoint, Tasks, Recoveries, Actors, States
<1> QED   BY <1>1, <1>2, <1>3, <1>4, <1>5, <1>6, <1>7, <1>8, <1>9, <1>10, Groups

\* A caller that gives up, or a detachment that is sent, makes no box possible.
LEMMA BoxAfterReturn ==
  ASSUME TypeOK, NEW a \in Actors, Returned(a)
  PROVE  BoxPossible' => BoxPossible
  BY CallForgotten DEF BoxPossible, AttachQueued

LEMMA BoxAfterDetach ==
  ASSUME TypeOK, NEW a \in Actors, Dispatch(a, "detach")
  PROVE  BoxPossible' => BoxPossible
<1>1. /\ attached' = attached /\ calls'[Len(calls')].call = "detach"
      /\ \A i \in DOMAIN calls' : i = Len(calls') \/ (i \in DOMAIN calls /\ calls'[i] = calls[i])
  BY CallSent
<1> QED
  BY <1>1 DEF BoxPossible, AttachQueued

\* A box becomes possible by the call of Attach alone, and lapses are kept.
LEMMA BoxMayAppear ==
  ASSUME TypeOK, Next
  PROVE  /\ BoxPossible' => BoxPossible \/ (opc = "attach" /\ opc' = "attaching")
         /\ lapses \subseteq lapses'
<1>0. TypeOK /\ WorldTyped
  BY TypeParts
<1>1. CASE SetStateStep("op")
  BY <1>1, <1>0 DEF SetStateStep, CheckLatch, StoreState, PersistState, BoxPossible,
     AttachQueued, Actors
<1>2. CASE SetStateStep("reset")
  BY <1>2, <1>0 DEF SetStateStep, CheckLatch, StoreState, PersistState, BoxPossible,
     AttachQueued, Actors
<1>3. CASE Started
  BY <1>3, <1>0 DEF Started, StartOperation, BoxPossible, AttachQueued, Actors
<1>4. CASE Served
  <2>1. BoxPossible' => BoxPossible
    BY <1>4, CallServed DEF Served, BoxPossible, AttachQueued
  <2> QED
    BY <1>4, <2>1 DEF Served, Serve
<1>5. CASE Working
  <2>1. CASE Recover
    BY <2>1, <1>0 DEF Recover, GoSetting, BoxPossible, AttachQueued, Actors
  <2>2. CASE BeginTask
    BY <2>2, <1>0 DEF BeginTask, GoSetting, BoxPossible, AttachQueued, Actors
  <2>3. CASE Validate
    BY <2>3, <1>0 DEF Validate, GoSetting, BoxPossible, AttachQueued, Actors
  <2>4. CASE Scene
    BY <2>4, <1>0 DEF Scene, GoSetting, BoxPossible, AttachQueued, Actors
  <2>5. CASE AttachCanceled \/ PlaceAfterPick \/ Outcome \/ Leave
    BY <2>5, <1>0 DEF AttachCanceled, PlaceAfterPick, Outcome, Leave, GoSetting, BoxPossible,
       AttachQueued, Actors
  <2> QED
    BY <1>5, <2>1, <2>2, <2>3, <2>4, <2>5 DEF Working
<1>6. CASE Attaching
  <2>1. CASE RecordAttached
    BY <2>1, <1>0 DEF RecordAttached, GoSetting, BoxPossible, AttachQueued, Actors
  <2>2. CASE AttachScene
    BY <2>2, <1>0 DEF AttachScene, GoSetting, BoxPossible, AttachQueued, Actors
  <2>3. CASE CarryDone
    BY <2>3, <1>0 DEF CarryDone, GoSetting, BoxPossible, AttachQueued, Actors
  <2>4. CASE CarryCanceled
    BY <2>4, <1>0 DEF CarryCanceled, GoSetting, BoxPossible, AttachQueued, Actors
  <2>5. CASE Attach
    BY <2>5 DEF Attach
  <2>6. CASE Attached
    BY <2>6, <1>0, BoxAfterReturn DEF Attached, Actors, GoSetting
  <2>7. CASE AttachUncertain
    BY <2>7, <1>0, BoxAfterReturn DEF AttachUncertain, Actors, GoSetting
  <2> QED
    BY <1>6, <2>1, <2>2, <2>3, <2>4, <2>5, <2>6, <2>7 DEF Attaching
<1>7. CASE Releasing
  <2>1. CASE Transport
    BY <2>1, <1>0 DEF Transport, GoSetting, BoxPossible, AttachQueued, Actors
  <2>2. CASE ReleaseScene
    BY <2>2, <1>0 DEF ReleaseScene, GoSetting, BoxPossible, AttachQueued, Actors
  <2>3. CASE Retreat
    BY <2>3, <1>0 DEF Retreat, GoSetting, BoxPossible, AttachQueued, Actors
  <2>4. CASE Throw
    BY <2>4, <1>0 DEF Throw, GoSetting, BoxPossible, AttachQueued, Actors
  <2>5. CASE Release
    <3>1. UNCHANGED lapses /\ (UNCHANGED world_vars \/ Dispatch("op", "detach"))
      BY <2>5 DEF Release
    <3>2. CASE UNCHANGED world_vars
      BY <3>1, <3>2 DEF BoxPossible, AttachQueued
    <3> QED
      BY <1>0, <3>1, <3>2, BoxAfterDetach DEF Actors
  <2>6. CASE Released
    BY <2>6, <1>0, BoxAfterReturn DEF Released, Actors, GoSetting
  <2>7. CASE ReleaseUncertain
    BY <2>7, <1>0, BoxAfterReturn DEF ReleaseUncertain, Actors, GoSetting
  <2> QED
    BY <1>7, <2>1, <2>2, <2>3, <2>4, <2>5, <2>6, <2>7 DEF Releasing
<1>8. CASE Resetting
  <2>1. CASE LockState
    BY <2>1, <1>0 DEF LockState, Fail, BoxPossible, AttachQueued, Actors
  <2>2. CASE GiveUp
    BY <2>2, <1>0 DEF GiveUp, Fail, BoxPossible, AttachQueued, Actors
  <2>3. CASE Acquire
    BY <2>3, <1>0 DEF Acquire, Fail, BoxPossible, AttachQueued, Actors
  <2>4. CASE BeginReset
    BY <2>4, <1>0 DEF BeginReset, Fail, BoxPossible, AttachQueued, Actors
  <2>5. CASE DetachUnavailable
    BY <2>5, <1>0 DEF DetachUnavailable, Fail, BoxPossible, AttachQueued, Actors
  <2>6. CASE NothingToDetach
    BY <2>6, <1>0 DEF NothingToDetach, Fail, BoxPossible, AttachQueued, Actors
  <2>7. CASE Detach
    BY <2>7, <1>0, BoxAfterDetach DEF Detach, Actors
  <2> QED
    BY <1>8, <2>1, <2>2, <2>3, <2>4, <2>5, <2>6, <2>7 DEF Resetting
<1>9. CASE Finishing
  <2>1. CASE ResetFails
    BY <2>1, <1>0 DEF ResetFails, Fail, BoxPossible, AttachQueued, Actors
  <2>2. CASE ResetDone
    BY <2>2, <1>0 DEF ResetDone, Fail, BoxPossible, AttachQueued, Actors
  <2>3. CASE Finish
    BY <2>3, <1>0 DEF Finish, Fail, BoxPossible, AttachQueued, Actors
  <2>4. CASE FinishReset
    BY <2>4, <1>0 DEF FinishReset, Fail, BoxPossible, AttachQueued, Actors
  <2>5. CASE Detached
    BY <2>5, <1>0, BoxAfterReturn DEF Detached, Actors, Fail
  <2>6. CASE DetachFailed
    BY <2>6, <1>0, BoxAfterReturn DEF DetachFailed, Actors, Fail
  <2> QED
    BY <1>9, <2>1, <2>2, <2>3, <2>4, <2>5, <2>6 DEF Finishing
<1>10. CASE Requesting
  <2>1. CASE RequestReset \/ RemoveBox \/ CancelOperation \/ CancelReset
    BY <2>1, <1>0 DEF RequestReset, RemoveBox, CancelOperation, CancelReset, BoxPossible,
       AttachQueued, Actors
  <2>2. CASE Restart
    <3>1. BoxPossible' => BoxPossible
      BY <2>2, <1>0, CallsOrphaned DEF BoxPossible, AttachQueued
    <3> QED
      BY <2>2, <3>1 DEF Restart
  <2> QED
    BY <1>10, <2>1, <2>2 DEF Requesting
<1> QED   BY <1>1, <1>2, <1>3, <1>4, <1>5, <1>6, <1>7, <1>8, <1>9, <1>10, Groups

\* At which points a setState call may be under way, and with which value.
LEMMA JobsByPointNext ==
  ASSUME IInv, Next
  PROVE  JobsByPoint'
<1>0. TypeOK /\ JobsByPoint /\ SuccessIsEmpty
  BY DEF IInv
<1>1. CASE SetStateStep("op")
  BY <1>1, <1>0, JobSteps DEF SetStateStep, CheckLatch, StoreState, PersistState, Actors,
     JobsByPoint, SuccessIsEmpty
<1>2. CASE SetStateStep("reset")
  BY <1>2, <1>0, JobSteps DEF SetStateStep, CheckLatch, StoreState, PersistState, Actors,
     JobsByPoint, SuccessIsEmpty
<1>3. CASE Started
  BY <1>3, <1>0, NoJobFacts, JobBegun DEF Started, StartOperation, JobsByPoint, States, Actors
<1>4. CASE Served
  BY <1>4, <1>0, NoJobFacts, JobBegun DEF Served, Serve, JobsByPoint, States, Actors
<1>5. CASE Working
  <2>1. CASE Recover
    BY <2>1, <1>0, NoJobFacts, JobBegun DEF Recover, GoSetting, JobsByPoint, States, Actors
  <2>2. CASE BeginTask
    BY <2>2, <1>0, NoJobFacts, JobBegun DEF BeginTask, GoSetting, JobsByPoint, States, Actors
  <2>3. CASE Validate
    BY <2>3, <1>0, NoJobFacts, JobBegun DEF Validate, GoSetting, JobsByPoint, States, Actors
  <2>4. CASE Scene
    BY <2>4, <1>0, NoJobFacts, JobBegun DEF Scene, GoSetting, JobsByPoint, States, Actors
  <2>5. CASE AttachCanceled \/ PlaceAfterPick \/ Outcome \/ Leave
    BY <2>5, <1>0, NoJobFacts, JobBegun DEF AttachCanceled, PlaceAfterPick, Outcome, Leave,
       GoSetting, JobsByPoint, States, Actors
  <2> QED
    BY <1>5, <2>1, <2>2, <2>3, <2>4, <2>5 DEF Working
<1>6. CASE Attaching
  <2>1. CASE Attach
    BY <2>1, <1>0, NoJobFacts, JobBegun DEF Attach, GoSetting, JobsByPoint, States, Actors
  <2>2. CASE Attached
    BY <2>2, <1>0, NoJobFacts, JobBegun DEF Attached, GoSetting, JobsByPoint, States, Actors
  <2>3. CASE AttachUncertain
    BY <2>3, <1>0, NoJobFacts, JobBegun DEF AttachUncertain, GoSetting, JobsByPoint, States,
       Actors
  <2>4. CASE RecordAttached
    BY <2>4, <1>0, NoJobFacts, JobBegun DEF RecordAttached, GoSetting, JobsByPoint, States,
       Actors
  <2>5. CASE AttachScene
    BY <2>5, <1>0, NoJobFacts, JobBegun DEF AttachScene, GoSetting, JobsByPoint, States, Actors
  <2>6. CASE CarryDone
    BY <2>6, <1>0, NoJobFacts, JobBegun DEF CarryDone, GoSetting, JobsByPoint, States, Actors
  <2>7. CASE CarryCanceled
    BY <2>7, <1>0, NoJobFacts, JobBegun DEF CarryCanceled, GoSetting, JobsByPoint, States,
       Actors
  <2> QED
    BY <1>6, <2>1, <2>2, <2>3, <2>4, <2>5, <2>6, <2>7 DEF Attaching
<1>7. CASE Releasing
  <2>1. CASE Transport
    BY <2>1, <1>0, NoJobFacts, JobBegun DEF Transport, GoSetting, JobsByPoint, States, Actors
  <2>2. CASE Release
    BY <2>2, <1>0, NoJobFacts, JobBegun DEF Release, GoSetting, JobsByPoint, States, Actors
  <2>3. CASE Released
    BY <2>3, <1>0, NoJobFacts, JobBegun DEF Released, GoSetting, JobsByPoint, States, Actors
  <2>4. CASE ReleaseUncertain
    BY <2>4, <1>0, NoJobFacts, JobBegun DEF ReleaseUncertain, GoSetting, JobsByPoint, States,
       Actors
  <2>5. CASE ReleaseScene
    BY <2>5, <1>0, NoJobFacts, JobBegun DEF ReleaseScene, GoSetting, JobsByPoint, States, Actors
  <2>6. CASE Retreat
    BY <2>6, <1>0, NoJobFacts, JobBegun DEF Retreat, GoSetting, JobsByPoint, States, Actors
  <2>7. CASE Throw
    BY <2>7, <1>0, NoJobFacts, JobBegun DEF Throw, GoSetting, JobsByPoint, States, Actors
  <2> QED
    BY <1>7, <2>1, <2>2, <2>3, <2>4, <2>5, <2>6, <2>7 DEF Releasing
<1>8. CASE Resetting
  <2>1. CASE GiveUp \/ Acquire \/ BeginReset \/ Detach
    BY <2>1, <1>0, NoJobFacts, JobBegun DEF GiveUp, Acquire, BeginReset, Detach, Fail,
       JobsByPoint, States, Actors
  <2>2. CASE DetachUnavailable \/ NothingToDetach
    BY <2>2, <1>0, NoJobFacts, JobBegun DEF DetachUnavailable, NothingToDetach, Fail,
       JobsByPoint, States, Actors
  <2>3. CASE LockState
    <3>1. SetState("reset", "RECOVERY_REQUIRED", FALSE) /\ ResetGo("lock", "wait")
          /\ UNCHANGED <<state, opc, resetSuccess>>
      BY <2>3 DEF LockState
    <3>2. /\ job'["reset"] # NoJob /\ job'["reset"].at = "check"
          /\ job'["reset"].value = "RECOVERY_REQUIRED" /\ job'["op"] = job["op"]
      BY <1>0, <3>1, JobBegun DEF States, Actors
    <3> QED
      BY <1>0, <3>1, <3>2 DEF JobsByPoint, SuccessIsEmpty, Actors
  <2> QED
    BY <1>8, <2>1, <2>2, <2>3 DEF Resetting
<1>9. CASE Finishing
  <2>1. CASE Detached \/ DetachFailed \/ ResetFails \/ ResetDone
    BY <2>1, <1>0, NoJobFacts, JobBegun DEF Detached, DetachFailed, ResetFails, ResetDone, Fail,
       JobsByPoint, States, Actors
  <2>2. CASE Finish \/ FinishReset
    BY <2>2, <1>0, NoJobFacts, JobBegun DEF Finish, FinishReset, Fail, JobsByPoint, States,
       Actors
  <2> QED
    BY <1>9, <2>1, <2>2 DEF Finishing
<1>10. CASE Requesting
  <2>1. CASE RequestReset \/ RemoveBox \/ CancelOperation \/ CancelReset
    BY <2>1, <1>0, NoJobFacts, JobBegun DEF RequestReset, RemoveBox, CancelOperation,
       CancelReset, JobsByPoint, States, Actors
  <2>2. CASE Restart
    BY <2>2, <1>0, NoJobFacts, JobBegun DEF Restart, JobsByPoint, States, Actors
  <2> QED
    BY <1>10, <2>1, <2>2 DEF Requesting
<1> QED   BY <1>1, <1>2, <1>3, <1>4, <1>5, <1>6, <1>7, <1>8, <1>9, <1>10, Groups

\* Between ResetDone and finishReset nothing but the EMPTY of the reset is stored.
LEMMA SuccessIsEmptyNext ==
  ASSUME IInv, Next
  PROVE  SuccessIsEmpty'
<1>0. TypeOK /\ SuccessIsEmpty /\ JobsByPoint /\ GateHolder
  BY DEF IInv
<1>1. CASE SetStateStep("op")
  BY <1>1, <1>0, JobSteps DEF SetStateStep, CheckLatch, StoreState, PersistState, Actors,
     SuccessIsEmpty, JobsByPoint, GateHolder
<1>2. CASE SetStateStep("reset")
  BY <1>2, <1>0, JobSteps DEF SetStateStep, CheckLatch, StoreState, PersistState, Actors,
     SuccessIsEmpty, JobsByPoint, GateHolder
<1>3. CASE Started
  BY <1>3, <1>0, NoJobFacts, JobBegun DEF Started, StartOperation, SuccessIsEmpty, JobsByPoint,
     GateHolder, States, Actors
<1>4. CASE Served
  BY <1>4, <1>0, NoJobFacts, JobBegun DEF Served, Serve, SuccessIsEmpty, JobsByPoint,
     GateHolder, States, Actors
<1>5. CASE Working
  <2>1. CASE Recover \/ BeginTask \/ Validate \/ Scene
    BY <2>1, <1>0, NoJobFacts, JobBegun DEF Recover, BeginTask, Validate, Scene, GoSetting,
       SuccessIsEmpty, JobsByPoint, GateHolder, States, Actors
  <2>2. CASE AttachCanceled \/ PlaceAfterPick \/ Outcome \/ Leave
    BY <2>2, <1>0, NoJobFacts, JobBegun DEF AttachCanceled, PlaceAfterPick, Outcome, Leave,
       GoSetting, SuccessIsEmpty, JobsByPoint, GateHolder, States, Actors
  <2> QED
    BY <1>5, <2>1, <2>2 DEF Working
<1>6. CASE Attaching
  <2>1. CASE Attach \/ Attached \/ AttachUncertain \/ RecordAttached
    BY <2>1, <1>0, NoJobFacts, JobBegun DEF Attach, Attached, AttachUncertain, RecordAttached,
       GoSetting, SuccessIsEmpty, JobsByPoint, GateHolder, States, Actors
  <2>2. CASE AttachScene \/ CarryDone \/ CarryCanceled
    BY <2>2, <1>0, NoJobFacts, JobBegun DEF AttachScene, CarryDone, CarryCanceled, GoSetting,
       SuccessIsEmpty, JobsByPoint, GateHolder, States, Actors
  <2> QED
    BY <1>6, <2>1, <2>2 DEF Attaching
<1>7. CASE Releasing
  <2>1. CASE Transport \/ Release \/ Released \/ ReleaseUncertain
    BY <2>1, <1>0, NoJobFacts, JobBegun DEF Transport, Release, Released, ReleaseUncertain,
       GoSetting, SuccessIsEmpty, JobsByPoint, GateHolder, States, Actors
  <2>2. CASE ReleaseScene \/ Retreat \/ Throw
    BY <2>2, <1>0, NoJobFacts, JobBegun DEF ReleaseScene, Retreat, Throw, GoSetting,
       SuccessIsEmpty, JobsByPoint, GateHolder, States, Actors
  <2> QED
    BY <1>7, <2>1, <2>2 DEF Releasing
<1>8. CASE Resetting
  <2>1. CASE GiveUp \/ Acquire \/ BeginReset \/ Detach
    BY <2>1, <1>0, NoJobFacts, JobBegun DEF GiveUp, Acquire, BeginReset, Detach, Fail,
       SuccessIsEmpty, JobsByPoint, GateHolder, States, Actors
  <2>2. CASE DetachUnavailable \/ NothingToDetach
    BY <2>2, <1>0, NoJobFacts, JobBegun DEF DetachUnavailable, NothingToDetach, Fail,
       SuccessIsEmpty, JobsByPoint, GateHolder, States, Actors
  <2>3. CASE LockState
    BY <2>3, <1>0 DEF LockState, SuccessIsEmpty
  <2> QED
    BY <1>8, <2>1, <2>2, <2>3 DEF Resetting
<1>9. CASE Finishing
  <2>1. CASE Detached \/ DetachFailed \/ ResetFails \/ ResetDone
    BY <2>1, <1>0, NoJobFacts, JobBegun DEF Detached, DetachFailed, ResetFails, ResetDone, Fail,
       SuccessIsEmpty, JobsByPoint, GateHolder, States, Actors
  <2>2. CASE Finish \/ FinishReset
    BY <2>2, <1>0, NoJobFacts, JobBegun DEF Finish, FinishReset, Fail, SuccessIsEmpty,
       JobsByPoint, GateHolder, States, Actors
  <2> QED
    BY <1>9, <2>1, <2>2 DEF Finishing
<1>10. CASE Requesting
  <2>1. CASE RequestReset \/ RemoveBox \/ CancelOperation \/ CancelReset
    BY <2>1, <1>0, NoJobFacts, JobBegun DEF RequestReset, RemoveBox, CancelOperation,
       CancelReset, SuccessIsEmpty, JobsByPoint, GateHolder, States, Actors
  <2>2. CASE Restart
    BY <2>2, <1>0, NoJobFacts, JobBegun DEF Restart, SuccessIsEmpty, JobsByPoint, GateHolder,
       States, Actors
  <2> QED
    BY <1>10, <2>1, <2>2 DEF Requesting
<1> QED   BY <1>1, <1>2, <1>3, <1>4, <1>5, <1>6, <1>7, <1>8, <1>9, <1>10, Groups

\* A call is sent when nobody waits: the one that is waited for stays the last.
LEMMA WaitingIsLastNext ==
  ASSUME IInv, Next
  PROVE  WaitingIsLast'
<1>0. TypeOK /\ WaitingIsLast /\ GateHolder
  BY DEF IInv
<1>1. CASE SetStateStep("op")
  BY <1>1, <1>0, CallSent, CallForgotten, CallsOrphaned DEF SetStateStep, CheckLatch,
     StoreState, PersistState, WaitingIsLast, GateHolder, Actors
<1>2. CASE SetStateStep("reset")
  BY <1>2, <1>0, CallSent, CallForgotten, CallsOrphaned DEF SetStateStep, CheckLatch,
     StoreState, PersistState, WaitingIsLast, GateHolder, Actors
<1>3. CASE Started
  BY <1>3, <1>0, CallSent, CallForgotten, CallsOrphaned DEF Started, StartOperation,
     WaitingIsLast, GateHolder, Actors
<1>4. CASE Served
  <2>1. PICK success \in BOOLEAN, delivered \in BOOLEAN : Serve(success, delivered)
    BY <1>4 DEF Served
  <2>2. UNCHANGED <<opc, rpc>>
    BY <2>1 DEF Serve
  <2>3. /\ Len(calls) \in Nat /\ Len(calls') = Len(calls) - 1 /\ DOMAIN calls' = 1..Len(calls')
        /\ \A i \in DOMAIN calls' : i + 1 \in DOMAIN calls /\ calls'[i] = calls[i + 1]
    BY <1>0, <2>1, CallServed
  <2> SUFFICES ASSUME NEW i \in DOMAIN calls'
               PROVE  /\ calls'[i].caller # "nobody" => i = Len(calls')
                      /\ calls'[i].caller = "op" =>
                           \/ opc' = "attaching" /\ calls'[i].call = "attach"
                           \/ opc' = "detaching" /\ calls'[i].call = "detach"
                      /\ calls'[i].caller = "reset" =>
                           rpc' = "detaching" /\ calls'[i].call = "detach"
    BY DEF WaitingIsLast
  <2>4. i + 1 \in DOMAIN calls /\ calls'[i] = calls[i + 1] /\ i \in 1..Len(calls')
    BY <2>3
  <2>5. calls[i + 1].caller # "nobody" => i + 1 = Len(calls)
    BY <1>0, <2>4 DEF WaitingIsLast
  <2>6. calls[i + 1].caller # "nobody" => i = Len(calls')
    BY <2>3, <2>4, <2>5
  <2> QED
    BY <1>0, <2>2, <2>4, <2>6 DEF WaitingIsLast
<1>5. CASE Working
  <2>1. CASE Recover \/ BeginTask \/ Validate \/ Scene
    BY <2>1, <1>0, CallSent, CallForgotten, CallsOrphaned DEF Recover, BeginTask, Validate,
       Scene, GoSetting, WaitingIsLast, GateHolder, Actors
  <2>2. CASE AttachCanceled \/ PlaceAfterPick \/ Outcome \/ Leave
    BY <2>2, <1>0, CallSent, CallForgotten, CallsOrphaned DEF AttachCanceled, PlaceAfterPick,
       Outcome, Leave, GoSetting, WaitingIsLast, GateHolder, Actors
  <2> QED
    BY <1>5, <2>1, <2>2 DEF Working
<1>6. CASE Attaching
  <2>1. CASE Attached \/ AttachUncertain \/ RecordAttached \/ AttachScene
    BY <2>1, <1>0, CallSent, CallForgotten, CallsOrphaned DEF Attached, AttachUncertain,
       RecordAttached, AttachScene, GoSetting, WaitingIsLast, GateHolder, Actors
  <2>2. CASE CarryDone \/ CarryCanceled
    BY <2>2, <1>0, CallSent, CallForgotten, CallsOrphaned DEF CarryDone, CarryCanceled,
       GoSetting, WaitingIsLast, GateHolder, Actors
  <2>3. CASE Attach
    <3>1. Dispatch("op", "attach") /\ opc = "attach" /\ opc' = "attaching"
      BY <2>3 DEF Attach
    <3>2. \A i \in DOMAIN calls : calls[i].caller = "nobody"
      <4>1. \A i \in DOMAIN calls : calls[i].caller \in Actors \cup {"nobody"}
        <5>1. calls \in Seq(Calls) /\ \A c \in Calls : c.caller \in Actors \cup {"nobody"}
          BY <1>0, TypeParts DEF WorldTyped, Calls
        <5> QED
          BY <5>1
      <4> QED
        BY <1>0, <3>1, <4>1 DEF WaitingIsLast, GateHolder, Actors
    <3>3. /\ \A i \in DOMAIN calls' : i = Len(calls') \/ (i \in DOMAIN calls /\ calls'[i] = calls[i])
          /\ calls'[Len(calls')].call = "attach" /\ calls'[Len(calls')].caller = "op"
      BY <1>0, <3>1, CallSent DEF Actors
    <3> QED
      BY <3>1, <3>2, <3>3 DEF WaitingIsLast
  <2> QED
    BY <1>6, <2>1, <2>2, <2>3 DEF Attaching
<1>7. CASE Releasing
  <2>1. CASE Transport \/ Released \/ ReleaseUncertain \/ ReleaseScene
    BY <2>1, <1>0, CallSent, CallForgotten, CallsOrphaned DEF Transport, Released,
       ReleaseUncertain, ReleaseScene, GoSetting, WaitingIsLast, GateHolder, Actors
  <2>2. CASE Retreat \/ Throw
    BY <2>2, <1>0, CallSent, CallForgotten, CallsOrphaned DEF Retreat, Throw, GoSetting,
       WaitingIsLast, GateHolder, Actors
  <2>3. CASE Release
    <3> USE <1>0
    <3>a. CASE Canceled
      <4>1. UNCHANGED <<world_vars, rpc>> /\ opc = "release"
        BY <2>3, <3>a DEF Release, GoSetting
      <4> QED
        BY <4>1 DEF WaitingIsLast
    <3>b. CASE ~Canceled
      <4>1. Dispatch("op", "detach") /\ opc = "release" /\ opc' = "detaching"
        BY <2>3, <3>b DEF Release
      <4>2. \A i \in DOMAIN calls : calls[i].caller = "nobody"
        <5>1. \A i \in DOMAIN calls : calls[i].caller \in Actors \cup {"nobody"}
          <6>1. calls \in Seq(Calls) /\ \A c \in Calls : c.caller \in Actors \cup {"nobody"}
            BY <1>0, TypeParts DEF WorldTyped, Calls
          <6> QED
            BY <6>1
        <5> QED
          BY <1>0, <4>1, <5>1 DEF WaitingIsLast, GateHolder, Actors
      <4>3. /\ \A i \in DOMAIN calls' : i = Len(calls') \/ (i \in DOMAIN calls /\ calls'[i] = calls[i])
            /\ calls'[Len(calls')].call = "detach" /\ calls'[Len(calls')].caller = "op"
        BY <1>0, <4>1, CallSent DEF Actors
      <4> QED
        BY <4>1, <4>2, <4>3 DEF WaitingIsLast
    <3> QED
      BY <3>a, <3>b
  <2> QED
    BY <1>7, <2>1, <2>2, <2>3 DEF Releasing
<1>8. CASE Resetting
  <2>1. CASE LockState \/ GiveUp \/ Acquire \/ BeginReset
    BY <2>1, <1>0, CallSent, CallForgotten, CallsOrphaned DEF LockState, GiveUp, Acquire,
       BeginReset, Fail, WaitingIsLast, GateHolder, Actors
  <2>2. CASE DetachUnavailable \/ NothingToDetach
    BY <2>2, <1>0, CallSent, CallForgotten, CallsOrphaned DEF DetachUnavailable,
       NothingToDetach, Fail, WaitingIsLast, GateHolder, Actors
  <2>3. CASE Detach
    <3>1. Dispatch("reset", "detach") /\ rpc = "cleanup" /\ rpc' = "detaching"
      BY <2>3 DEF Detach
    <3>2. \A i \in DOMAIN calls : calls[i].caller = "nobody"
      <4>1. \A i \in DOMAIN calls : calls[i].caller \in Actors \cup {"nobody"}
        <5>1. calls \in Seq(Calls) /\ \A c \in Calls : c.caller \in Actors \cup {"nobody"}
          BY <1>0, TypeParts DEF WorldTyped, Calls
        <5> QED
          BY <5>1
      <4> QED
        BY <1>0, <3>1, <4>1 DEF WaitingIsLast, GateHolder, Actors
    <3>3. /\ \A i \in DOMAIN calls' : i = Len(calls') \/ (i \in DOMAIN calls /\ calls'[i] = calls[i])
          /\ calls'[Len(calls')].call = "detach" /\ calls'[Len(calls')].caller = "reset"
      BY <1>0, <3>1, CallSent DEF Actors
    <3> QED
      BY <3>1, <3>2, <3>3 DEF WaitingIsLast
  <2> QED
    BY <1>8, <2>1, <2>2, <2>3 DEF Resetting
<1>9. CASE Finishing
  <2>1. CASE Detached \/ DetachFailed \/ ResetFails \/ ResetDone
    BY <2>1, <1>0, CallSent, CallForgotten, CallsOrphaned DEF Detached, DetachFailed,
       ResetFails, ResetDone, Fail, WaitingIsLast, GateHolder, Actors
  <2>2. CASE Finish \/ FinishReset
    BY <2>2, <1>0, CallSent, CallForgotten, CallsOrphaned DEF Finish, FinishReset, Fail,
       WaitingIsLast, GateHolder, Actors
  <2> QED
    BY <1>9, <2>1, <2>2 DEF Finishing
<1>10. CASE Requesting
  <2>1. CASE RequestReset \/ RemoveBox \/ CancelOperation \/ CancelReset
    BY <2>1, <1>0, CallSent, CallForgotten, CallsOrphaned DEF RequestReset, RemoveBox,
       CancelOperation, CancelReset, WaitingIsLast, GateHolder, Actors
  <2>2. CASE Restart
    <3>1. \A i \in DOMAIN calls' : calls'[i].caller = "nobody"
      BY <1>0, <2>2, CallsOrphaned, TypeParts
    <3> QED
      BY <3>1 DEF WaitingIsLast
  <2> QED
    BY <1>10, <2>1, <2>2 DEF Requesting
<1> QED   BY <1>1, <1>2, <1>3, <1>4, <1>5, <1>6, <1>7, <1>8, <1>9, <1>10, Groups

\* A detachment that is answered was the last call, so it leaves nothing that could attach.
LEMMA DetachAnsweredNext ==
  ASSUME IInv, Next
  PROVE  DetachAnswered'
<1>0. TypeOK /\ WaitingIsLast /\ GateHolder /\ DetachAnswered
  BY DEF IInv
<1>box. /\ BoxPossible' => BoxPossible \/ (opc = "attach" /\ opc' = "attaching")
       /\ lapses \subseteq lapses'
  BY <1>0, BoxMayAppear
<1>1. CASE SetStateStep("op")
  BY <1>1, <1>0, <1>box, CallSent, CallForgotten, CallsOrphaned DEF SetStateStep, CheckLatch,
     StoreState, PersistState, DetachAnswered, GateHolder, Actors
<1>2. CASE SetStateStep("reset")
  BY <1>2, <1>0, <1>box, CallSent, CallForgotten, CallsOrphaned DEF SetStateStep, CheckLatch,
     StoreState, PersistState, DetachAnswered, GateHolder, Actors
<1>3. CASE Started
  BY <1>3, <1>0, <1>box, CallSent, CallForgotten, CallsOrphaned DEF Started, StartOperation,
     DetachAnswered, GateHolder, Actors
<1>4. CASE Served
  <2>1. PICK success \in BOOLEAN, delivered \in BOOLEAN : Serve(success, delivered)
    BY <1>4 DEF Served
  <2>2. UNCHANGED <<opc, rpc>>
    BY <2>1 DEF Serve
  <2>3. /\ DOMAIN calls = 1..Len(calls) /\ DOMAIN calls' = 1..Len(calls') /\ Len(calls) \in Nat
        /\ 1 \in DOMAIN calls /\ Len(calls') = Len(calls) - 1
        /\ attached' = (IF success THEN calls[1].call = "attach" ELSE attached)
    BY <1>0, <2>1, CallServed
  <2>4. \A a \in Actors : answer'[a] = "ok" =>
           answer[a] = "ok" \/ (calls[1].caller = a /\ success)
    BY <1>0, <2>1, CallServed
  <2>5. ASSUME calls[1].caller \in Actors, success, opc = "detaching" \/ rpc = "detaching"
        PROVE  ~BoxPossible'
    <3>1. Len(calls) = 1 /\ calls[1].call = "detach"
      BY <1>0, <2>3, <2>5 DEF WaitingIsLast, GateHolder, Actors
    <3>2. ~attached'
      BY <2>3, <2>5, <3>1
    <3>3. DOMAIN calls' = {}
      BY <2>3, <3>1
    <3> QED
      BY <3>2, <3>3 DEF BoxPossible, AttachQueued
  <2> QED
    BY <1>0, <1>box, <2>2, <2>4, <2>5 DEF DetachAnswered, Actors
<1>5. CASE Working
  <2>1. CASE Recover \/ BeginTask \/ Validate \/ Scene
    BY <2>1, <1>0, <1>box, CallSent, CallForgotten, CallsOrphaned DEF Recover, BeginTask,
       Validate, Scene, GoSetting, DetachAnswered, GateHolder, Actors
  <2>2. CASE AttachCanceled \/ PlaceAfterPick \/ Outcome \/ Leave
    BY <2>2, <1>0, <1>box, CallSent, CallForgotten, CallsOrphaned DEF AttachCanceled,
       PlaceAfterPick, Outcome, Leave, GoSetting, DetachAnswered, GateHolder, Actors
  <2> QED
    BY <1>5, <2>1, <2>2 DEF Working
<1>6. CASE Attaching
  <2>1. CASE Attach \/ Attached \/ AttachUncertain \/ RecordAttached
    BY <2>1, <1>0, <1>box, CallSent, CallForgotten, CallsOrphaned DEF Attach, Attached,
       AttachUncertain, RecordAttached, GoSetting, DetachAnswered, GateHolder, Actors
  <2>2. CASE AttachScene \/ CarryDone \/ CarryCanceled
    BY <2>2, <1>0, <1>box, CallSent, CallForgotten, CallsOrphaned DEF AttachScene, CarryDone,
       CarryCanceled, GoSetting, DetachAnswered, GateHolder, Actors
  <2> QED
    BY <1>6, <2>1, <2>2 DEF Attaching
<1>7. CASE Releasing
  <2>1. CASE Transport \/ Release \/ Released \/ ReleaseUncertain
    BY <2>1, <1>0, <1>box, CallSent, CallForgotten, CallsOrphaned DEF Transport, Release,
       Released, ReleaseUncertain, GoSetting, DetachAnswered, GateHolder, Actors
  <2>2. CASE ReleaseScene \/ Retreat \/ Throw
    BY <2>2, <1>0, <1>box, CallSent, CallForgotten, CallsOrphaned DEF ReleaseScene, Retreat,
       Throw, GoSetting, DetachAnswered, GateHolder, Actors
  <2> QED
    BY <1>7, <2>1, <2>2 DEF Releasing
<1>8. CASE Resetting
  <2>1. CASE LockState \/ GiveUp \/ Acquire \/ BeginReset
    BY <2>1, <1>0, <1>box, CallSent, CallForgotten, CallsOrphaned DEF LockState, GiveUp,
       Acquire, BeginReset, Fail, DetachAnswered, GateHolder, Actors
  <2>2. CASE Detach \/ DetachUnavailable \/ NothingToDetach
    BY <2>2, <1>0, <1>box, CallSent, CallForgotten, CallsOrphaned DEF Detach, DetachUnavailable,
       NothingToDetach, Fail, DetachAnswered, GateHolder, Actors
  <2> QED
    BY <1>8, <2>1, <2>2 DEF Resetting
<1>9. CASE Finishing
  <2>1. CASE Detached \/ DetachFailed \/ ResetFails \/ ResetDone
    BY <2>1, <1>0, <1>box, CallSent, CallForgotten, CallsOrphaned DEF Detached, DetachFailed,
       ResetFails, ResetDone, Fail, DetachAnswered, GateHolder, Actors
  <2>2. CASE Finish \/ FinishReset
    BY <2>2, <1>0, <1>box, CallSent, CallForgotten, CallsOrphaned DEF Finish, FinishReset, Fail,
       DetachAnswered, GateHolder, Actors
  <2> QED
    BY <1>9, <2>1, <2>2 DEF Finishing
<1>10. CASE Requesting
  <2>1. CASE RequestReset \/ RemoveBox \/ CancelOperation \/ CancelReset
    BY <2>1, <1>0, <1>box, CallSent, CallForgotten, CallsOrphaned DEF RequestReset, RemoveBox,
       CancelOperation, CancelReset, DetachAnswered, GateHolder, Actors
  <2>2. CASE Restart
    BY <2>2, <1>0, <1>box, CallSent, CallForgotten, CallsOrphaned DEF Restart, DetachAnswered,
       GateHolder, Actors
  <2> QED
    BY <1>10, <2>1, <2>2 DEF Requesting
<1> QED   BY <1>1, <1>2, <1>3, <1>4, <1>5, <1>6, <1>7, <1>8, <1>9, <1>10, Groups

\* Whoever is about to say EMPTY has seen an answered detachment, or the operator's word.
LEMMA NoBoxLeftNext ==
  ASSUME IInv, Next
  PROVE  NoBoxLeft'
<1>0. TypeOK /\ NoBoxLeft /\ GateHolder /\ LatchCovers /\ JobsByPoint /\ SuccessIsEmpty /\
      KindByPoint /\ BoxIsKnown /\ DetachAnswered
  BY DEF IInv
<1>box. /\ BoxPossible' => BoxPossible \/ (opc = "attach" /\ opc' = "attaching")
       /\ lapses \subseteq lapses'
  BY <1>0, BoxMayAppear
<1>1. CASE SetStateStep("op")
  BY <1>1, <1>0, JobSteps, <1>box DEF SetStateStep, CheckLatch, StoreState, PersistState,
     Actors, NoBoxLeft, ClaimsEmpty
<1>2. CASE SetStateStep("reset")
  BY <1>2, <1>0, JobSteps, <1>box DEF SetStateStep, CheckLatch, StoreState, PersistState,
     Actors, NoBoxLeft, ClaimsEmpty
<1>3. CASE Started
  BY <1>3, <1>0, <1>box DEF Started, StartOperation, NoBoxLeft, ClaimsEmpty, Actors,
     BoxPossible, AttachQueued, Recoveries, Tasks
<1>4. CASE Served
  BY <1>4, <1>0, <1>box, NoJobFacts, JobBegun DEF Served, Serve, NoBoxLeft, ClaimsEmpty, Actors,
     States
<1>5. CASE Working
  <2>1. CASE Recover \/ BeginTask \/ Validate \/ Scene
    BY <2>1, <1>0, <1>box, NoJobFacts, JobBegun DEF Recover, BeginTask, Validate, Scene,
       GoSetting, NoBoxLeft, ClaimsEmpty, Actors, States
  <2>2. CASE AttachCanceled \/ PlaceAfterPick \/ Outcome
    BY <2>2, <1>0, <1>box, NoJobFacts, JobBegun DEF AttachCanceled, PlaceAfterPick, Outcome,
       GoSetting, NoBoxLeft, ClaimsEmpty, Actors, States
  <2>3. CASE Leave
    BY <2>3, <1>0, <1>box DEF Leave, GoSetting, NoBoxLeft, ClaimsEmpty, Actors
  <2> QED
    BY <1>5, <2>1, <2>2, <2>3 DEF Working
<1>6. CASE Attaching
  <2>1. CASE Attached \/ AttachUncertain \/ RecordAttached \/ AttachScene
    BY <2>1, <1>0, <1>box, NoJobFacts, JobBegun DEF Attached, AttachUncertain, RecordAttached,
       AttachScene, GoSetting, NoBoxLeft, ClaimsEmpty, Actors, States
  <2>2. CASE CarryDone \/ CarryCanceled
    BY <2>2, <1>0, <1>box, NoJobFacts, JobBegun DEF CarryDone, CarryCanceled, GoSetting,
       NoBoxLeft, ClaimsEmpty, Actors, States
  <2>3. CASE Attach
    BY <2>3, <1>0, <1>box DEF Attach, GoSetting, NoBoxLeft, ClaimsEmpty, Actors, GateHolder,
       LatchCovers, JobsByPoint, SuccessIsEmpty
  <2> QED
    BY <1>6, <2>1, <2>2, <2>3 DEF Attaching
<1>7. CASE Releasing
  <2>1. CASE Transport \/ Release \/ ReleaseUncertain \/ ReleaseScene
    BY <2>1, <1>0, <1>box, NoJobFacts, JobBegun DEF Transport, Release, ReleaseUncertain,
       ReleaseScene, GoSetting, NoBoxLeft, ClaimsEmpty, Actors, States
  <2>2. CASE Retreat \/ Throw
    BY <2>2, <1>0, <1>box, NoJobFacts, JobBegun DEF Retreat, Throw, GoSetting, NoBoxLeft,
       ClaimsEmpty, Actors, States
  <2>3. CASE Released
    BY <2>3, <1>0, <1>box, JobBegun DEF Released, GoSetting, NoBoxLeft, ClaimsEmpty, Actors,
       DetachAnswered, States
  <2> QED
    BY <1>7, <2>1, <2>2, <2>3 DEF Releasing
<1>8. CASE Resetting
  <2>1. CASE LockState \/ GiveUp \/ Acquire \/ BeginReset
    BY <2>1, <1>0, <1>box, NoJobFacts, JobBegun DEF LockState, GiveUp, Acquire, BeginReset,
       Fail, NoBoxLeft, ClaimsEmpty, Actors, States
  <2>2. CASE Detach \/ DetachUnavailable
    BY <2>2, <1>0, <1>box, NoJobFacts, JobBegun DEF Detach, DetachUnavailable, Fail, NoBoxLeft,
       ClaimsEmpty, Actors, States
  <2>3. CASE NothingToDetach
    BY <2>3, <1>0, <1>box DEF NothingToDetach, Fail, NoBoxLeft, ClaimsEmpty, Actors, BoxIsKnown,
       Lost, GateHolder
  <2> QED
    BY <1>8, <2>1, <2>2, <2>3 DEF Resetting
<1>9. CASE Finishing
  <2>1. CASE DetachFailed \/ ResetFails \/ ResetDone \/ Finish
    BY <2>1, <1>0, <1>box, NoJobFacts, JobBegun DEF DetachFailed, ResetFails, ResetDone, Finish,
       Fail, NoBoxLeft, ClaimsEmpty, Actors, States
  <2>2. CASE Detached
    BY <2>2, <1>0, <1>box, JobBegun DEF Detached, Fail, NoBoxLeft, ClaimsEmpty, Actors,
       DetachAnswered
  <2>3. CASE FinishReset
    BY <2>3, <1>0, <1>box DEF FinishReset, Fail, NoBoxLeft, ClaimsEmpty, Actors
  <2> QED
    BY <1>9, <2>1, <2>2, <2>3 DEF Finishing
<1>10. CASE Requesting
  <2>1. CASE RequestReset \/ RemoveBox \/ CancelOperation \/ CancelReset
    BY <2>1, <1>0, <1>box, NoJobFacts, JobBegun DEF RequestReset, RemoveBox, CancelOperation,
       CancelReset, NoBoxLeft, ClaimsEmpty, Actors, States
  <2>2. CASE Restart
    BY <2>2, <1>0, <1>box, NoJobFacts, JobBegun DEF Restart, NoBoxLeft, ClaimsEmpty, Actors,
       States
  <2> QED
    BY <1>10, <2>1, <2>2 DEF Requesting
<1> QED   BY <1>1, <1>2, <1>3, <1>4, <1>5, <1>6, <1>7, <1>8, <1>9, <1>10, Groups

\* A box that may be held is recorded or being recorded, and expected unless a restart lost it.
LEMMA BoxIsKnownNext ==
  ASSUME IInv, Next
  PROVE  BoxIsKnown'
<1>0. TypeOK /\ BoxIsKnown /\ NoBoxLeft /\ GateHolder /\ LatchCovers /\ JobsByPoint /\
      SuccessIsEmpty /\ KindByPoint /\ DetachAnswered
  BY DEF IInv
<1>box. /\ BoxPossible' => BoxPossible \/ (opc = "attach" /\ opc' = "attaching")
       /\ lapses \subseteq lapses'
  BY <1>0, BoxMayAppear
<1>1. CASE SetStateStep("op")
  BY <1>1, <1>0, JobSteps, <1>box, BoundsAssumption DEF SetStateStep, CheckLatch, StoreState,
     PersistState, Actors, BoxIsKnown, Recorded, Recording, Lost, NoBoxLeft, JobsByPoint,
     Persisted, RestartState, ClaimsEmpty
<1>2. CASE SetStateStep("reset")
  BY <1>2, <1>0, JobSteps, <1>box, BoundsAssumption DEF SetStateStep, CheckLatch, StoreState,
     PersistState, Actors, BoxIsKnown, Recorded, Recording, Lost, NoBoxLeft, JobsByPoint,
     Persisted, RestartState, ClaimsEmpty
<1>3. CASE Started
  BY <1>3, <1>0, <1>box DEF Started, StartOperation, BoxIsKnown, Recorded, Recording, Lost,
     Actors, KindByPoint, RestartState, JobsByPoint
<1>4. CASE Served
  BY <1>4, <1>0, <1>box DEF Served, Serve, BoxIsKnown, Recorded, Recording, Lost, Actors,
     RestartState
<1>5. CASE Working
  <2>1. CASE BeginTask \/ Validate \/ Scene \/ AttachCanceled
    BY <2>1, <1>0, <1>box, NoJobFacts, JobBegun DEF BeginTask, Validate, Scene, AttachCanceled,
       GoSetting, BoxIsKnown, Recorded, Recording, Lost, Actors, States, RestartState,
       JobsByPoint
  <2>2. CASE PlaceAfterPick \/ Outcome
    BY <2>2, <1>0, <1>box, NoJobFacts, JobBegun DEF PlaceAfterPick, Outcome, GoSetting,
       BoxIsKnown, Recorded, Recording, Lost, Actors, States, RestartState, JobsByPoint
  <2>3. CASE Recover
    BY <2>3, <1>0, <1>box, NoJobFacts, JobBegun DEF Recover, GoSetting, BoxIsKnown, Recorded,
       Recording, Lost, Actors, RestartState, NoBoxLeft, KindByPoint, States
  <2>4. CASE Leave
    BY <2>4, <1>0, <1>box DEF Leave, GoSetting, BoxIsKnown, Recorded, Recording, Lost, Actors,
       RestartState
  <2> QED
    BY <1>5, <2>1, <2>2, <2>3, <2>4 DEF Working
<1>6. CASE Attaching
  <2>1. CASE Attached \/ AttachUncertain \/ RecordAttached \/ CarryDone
    BY <2>1, <1>0, <1>box, NoJobFacts, JobBegun DEF Attached, AttachUncertain, RecordAttached,
       CarryDone, GoSetting, BoxIsKnown, Recorded, Recording, Lost, Actors, States,
       RestartState, JobsByPoint
  <2>2. CASE CarryCanceled
    BY <2>2, <1>0, <1>box, NoJobFacts, JobBegun DEF CarryCanceled, GoSetting, BoxIsKnown,
       Recorded, Recording, Lost, Actors, States, RestartState, JobsByPoint
  <2>3. CASE Attach
    BY <2>3, <1>0, <1>box DEF Attach, GoSetting, BoxIsKnown, Recorded, Recording, Lost, Actors,
       RestartState, JobsByPoint
  <2>4. CASE AttachScene
    <3>1. CASE Canceled
      BY <2>4, <1>0, <1>box, <3>1, JobBegun DEF AttachScene, GoSetting, BoxIsKnown, Recording,
         Lost, States, Actors
    <3>2. CASE ~Canceled
      BY <2>4, <1>0, <1>box, <3>2, JobBegun DEF AttachScene, Canceled, GoSetting, BoxIsKnown,
         Recorded, Recording, RestartState, Lost, States, Actors
    <3> QED
      BY <3>1, <3>2
  <2> QED
    BY <1>6, <2>1, <2>2, <2>3, <2>4 DEF Attaching
<1>7. CASE Releasing
  <2>1. CASE Transport \/ Release \/ ReleaseUncertain \/ ReleaseScene
    BY <2>1, <1>0, <1>box, NoJobFacts, JobBegun DEF Transport, Release, ReleaseUncertain,
       ReleaseScene, GoSetting, BoxIsKnown, Recorded, Recording, Lost, Actors, States,
       RestartState, JobsByPoint
  <2>2. CASE Retreat \/ Throw
    BY <2>2, <1>0, <1>box, NoJobFacts, JobBegun DEF Retreat, Throw, GoSetting, BoxIsKnown,
       Recorded, Recording, Lost, Actors, States, RestartState, JobsByPoint
  <2>3. CASE Released
    BY <2>3, <1>0, <1>box, JobBegun DEF Released, GoSetting, DetachAnswered, BoxIsKnown
  <2> QED
    BY <1>7, <2>1, <2>2, <2>3 DEF Releasing
<1>8. CASE Resetting
  <2>1. CASE LockState \/ GiveUp \/ Acquire \/ BeginReset
    BY <2>1, <1>0, <1>box, NoJobFacts, JobBegun DEF LockState, GiveUp, Acquire, BeginReset,
       Fail, BoxIsKnown, Recorded, Recording, Lost, Actors, States, RestartState, JobsByPoint
  <2>2. CASE DetachUnavailable
    BY <2>2, <1>0, <1>box, NoJobFacts, JobBegun DEF DetachUnavailable, Fail, BoxIsKnown,
       Recorded, Recording, Lost, Actors, States, RestartState, JobsByPoint
  <2>3. CASE Detach
    BY <2>3, <1>0, <1>box DEF Detach, Fail, BoxIsKnown, Recorded, Recording, Lost, Actors,
       RestartState, GateHolder
  <2>4. CASE NothingToDetach
    BY <2>4, <1>0, <1>box DEF NothingToDetach, Fail, BoxIsKnown, Recorded, Recording, Lost,
       Actors, RestartState, NoBoxLeft
  <2> QED
    BY <1>8, <2>1, <2>2, <2>3, <2>4 DEF Resetting
<1>9. CASE Finishing
  <2>1. CASE DetachFailed \/ ResetFails \/ ResetDone \/ Finish
    BY <2>1, <1>0, <1>box, NoJobFacts, JobBegun DEF DetachFailed, ResetFails, ResetDone, Finish,
       Fail, BoxIsKnown, Recorded, Recording, Lost, Actors, States, RestartState, JobsByPoint
  <2>2. CASE Detached
    BY <2>2, <1>0, <1>box, JobBegun DEF Detached, Fail, DetachAnswered, BoxIsKnown
  <2>3. CASE FinishReset
    BY <2>3, <1>0, <1>box DEF FinishReset, Fail, BoxIsKnown, Recorded, Recording, Lost, Actors,
       RestartState, NoBoxLeft
  <2> QED
    BY <1>9, <2>1, <2>2, <2>3 DEF Finishing
<1>10. CASE Requesting
  <2>1. CASE RemoveBox \/ CancelOperation \/ CancelReset
    BY <2>1, <1>0, <1>box, NoJobFacts, JobBegun DEF RemoveBox, CancelOperation, CancelReset,
       BoxIsKnown, Recorded, Recording, Lost, Actors, States, RestartState, JobsByPoint
  <2>2. CASE RequestReset
    <3>1. UNCHANGED <<state, file, expected, opc, job, attached, calls>> /\ latch' = TRUE
      BY <2>2 DEF RequestReset
    <3>2. BoxPossible' => BoxPossible
      BY <1>box, <3>1
    <3>3. lapses = {} /\ (lapses' = {} /\ BoxPossible => expected \/ opc = "attaching")
      BY <2>2 DEF RequestReset, BoxPossible
    <3> QED
      BY <1>0, <3>1, <3>2, <3>3 DEF BoxIsKnown, Recorded, Recording, RestartState
  <2>3. CASE Restart
    <3>1. lapses' = {} /\ BoxPossible' => lapses = {} /\ BoxPossible /\ ~AttachWindow
      BY <2>3, <1>box DEF Restart
    <3>2. lapses' = {} /\ BoxPossible' => RestartState # "EMPTY"
      <4>1. RestartState = "EMPTY" /\ ~AttachWindow =>
              opc \notin {"attaching", "attached", "attach_scene"} /\ ~(opc = "outcome" /\ job["op"] # NoJob)
        BY DEF AttachWindow
      <4> QED
        BY <1>0, <3>1, <4>1 DEF BoxIsKnown, Recorded, Recording
    <3>3. /\ state' = RestartState /\ RestartState' = RestartState
          /\ job'["op"] = NoJob /\ rpc' = "idle" /\ opc' = "idle"
      BY <2>3 DEF Restart, RestartState, Actors
    <3>4. RestartState \in {"EMPTY", "UNKNOWN"}
      BY BoundsAssumption DEF RestartState
    <3> QED
      BY <3>2, <3>3, <3>4 DEF BoxIsKnown, Recorded, Lost
  <2> QED
    BY <1>10, <2>1, <2>2, <2>3 DEF Requesting
<1> QED   BY <1>1, <1>2, <1>3, <1>4, <1>5, <1>6, <1>7, <1>8, <1>9, <1>10, Groups

\* "released" is said of a task after its detachment alone.
LEMMA ReleasedByPointNext ==
  ASSUME IInv, Next
  PROVE  ReleasedByPoint'
<1>0. TypeOK /\ ReleasedByPoint /\ GateHolder /\ KindByPoint /\ DetachAnswered
  BY DEF IInv
<1>box. /\ BoxPossible' => BoxPossible \/ (opc = "attach" /\ opc' = "attaching")
       /\ lapses \subseteq lapses'
  BY <1>0, BoxMayAppear
<1>1. CASE SetStateStep("op")
  BY <1>1, <1>0, <1>box DEF SetStateStep, CheckLatch, StoreState, PersistState, ReleasedByPoint,
     Tasks
<1>2. CASE SetStateStep("reset")
  BY <1>2, <1>0, <1>box DEF SetStateStep, CheckLatch, StoreState, PersistState, ReleasedByPoint,
     Tasks
<1>3. CASE Started
  BY <1>3, <1>0, <1>box DEF Started, StartOperation, ReleasedByPoint, Tasks, Recoveries
<1>4. CASE Served
  BY <1>4, <1>0, <1>box DEF Served, Serve, ReleasedByPoint, Tasks
<1>5. CASE Working
  <2>1. CASE BeginTask \/ Validate \/ Scene \/ AttachCanceled
    BY <2>1, <1>0, <1>box DEF BeginTask, Validate, Scene, AttachCanceled, GoSetting,
       ReleasedByPoint, Tasks
  <2>2. CASE PlaceAfterPick \/ Outcome \/ Leave
    BY <2>2, <1>0, <1>box DEF PlaceAfterPick, Outcome, Leave, GoSetting, ReleasedByPoint, Tasks
  <2>3. CASE Recover
    BY <2>3, <1>0, <1>box DEF Recover, GoSetting, ReleasedByPoint, Tasks, Recoveries,
       KindByPoint
  <2> QED
    BY <1>5, <2>1, <2>2, <2>3 DEF Working
<1>6. CASE Attaching
  <2>1. CASE Attach \/ Attached \/ AttachUncertain \/ RecordAttached
    BY <2>1, <1>0, <1>box DEF Attach, Attached, AttachUncertain, RecordAttached, GoSetting,
       ReleasedByPoint, Tasks
  <2>2. CASE AttachScene \/ CarryDone \/ CarryCanceled
    BY <2>2, <1>0, <1>box DEF AttachScene, CarryDone, CarryCanceled, GoSetting, ReleasedByPoint,
       Tasks
  <2> QED
    BY <1>6, <2>1, <2>2 DEF Attaching
<1>7. CASE Releasing
  <2>1. CASE Transport \/ Release \/ ReleaseUncertain \/ ReleaseScene
    BY <2>1, <1>0, <1>box DEF Transport, Release, ReleaseUncertain, ReleaseScene, GoSetting,
       ReleasedByPoint, Tasks
  <2>2. CASE Retreat \/ Throw
    BY <2>2, <1>0, <1>box DEF Retreat, Throw, GoSetting, ReleasedByPoint, Tasks
  <2>3. CASE Released
    BY <2>3, <1>0, <1>box DEF Released, GoSetting, ReleasedByPoint, Tasks, DetachAnswered
  <2> QED
    BY <1>7, <2>1, <2>2, <2>3 DEF Releasing
<1>8. CASE Resetting
  <2>1. CASE LockState \/ GiveUp \/ Acquire \/ Detach
    BY <2>1, <1>0, <1>box DEF LockState, GiveUp, Acquire, Detach, Fail, ReleasedByPoint, Tasks
  <2>2. CASE DetachUnavailable \/ NothingToDetach
    BY <2>2, <1>0, <1>box DEF DetachUnavailable, NothingToDetach, Fail, ReleasedByPoint, Tasks
  <2>3. CASE BeginReset
    BY <2>3, <1>0, <1>box DEF BeginReset, Fail, ReleasedByPoint, Tasks, GateHolder
  <2> QED
    BY <1>8, <2>1, <2>2, <2>3 DEF Resetting
<1>9. CASE Finishing
  <2>1. CASE Detached \/ DetachFailed \/ ResetFails \/ ResetDone
    BY <2>1, <1>0, <1>box DEF Detached, DetachFailed, ResetFails, ResetDone, Fail,
       ReleasedByPoint, Tasks
  <2>2. CASE Finish \/ FinishReset
    BY <2>2, <1>0, <1>box DEF Finish, FinishReset, Fail, ReleasedByPoint, Tasks
  <2> QED
    BY <1>9, <2>1, <2>2 DEF Finishing
<1>10. CASE Requesting
  <2>1. CASE RequestReset \/ RemoveBox \/ CancelOperation \/ CancelReset
    BY <2>1, <1>0, <1>box DEF RequestReset, RemoveBox, CancelOperation, CancelReset,
       ReleasedByPoint, Tasks
  <2>2. CASE Restart
    BY <2>2, <1>0, <1>box DEF Restart, ReleasedByPoint, Tasks
  <2> QED
    BY <1>10, <2>1, <2>2 DEF Requesting
<1> QED   BY <1>1, <1>2, <1>3, <1>4, <1>5, <1>6, <1>7, <1>8, <1>9, <1>10, Groups

\* In UNKNOWN no box is expected but by a recovery or a latched reset, and no task gets far.
LEMMA UnknownNotExpectedNext ==
  ASSUME IInv, Next
  PROVE  UnknownNotExpected'
<1>0. TypeOK /\ UnknownNotExpected /\ GateHolder /\ LatchCovers /\ JobsByPoint /\ SuccessIsEmpty
      /\ KindByPoint /\ NoBoxLeft
  BY DEF IInv
<1>1. CASE SetStateStep("op")
  BY <1>1, <1>0, JobSteps DEF SetStateStep, CheckLatch, StoreState, PersistState, Actors,
     UnknownNotExpected, Tasks, JobsByPoint
<1>2. CASE SetStateStep("reset")
  BY <1>2, <1>0, JobSteps DEF SetStateStep, CheckLatch, StoreState, PersistState, Actors,
     UnknownNotExpected, Tasks, JobsByPoint
<1>3. CASE Started
  BY <1>3, <1>0 DEF Started, StartOperation, UnknownNotExpected, Tasks, Recoveries, LatchCovers,
     JobsByPoint
<1>4. CASE Served
  BY <1>4, <1>0 DEF Served, Serve, UnknownNotExpected, Tasks
<1>5. CASE Working
  <2>1. CASE BeginTask \/ Validate \/ Scene \/ AttachCanceled
    BY <2>1, <1>0, JobBegun, NoJobFacts DEF BeginTask, Validate, Scene, AttachCanceled,
       GoSetting, UnknownNotExpected, Tasks, States, Actors
  <2>2. CASE PlaceAfterPick \/ Outcome
    BY <2>2, <1>0, JobBegun, NoJobFacts DEF PlaceAfterPick, Outcome, GoSetting,
       UnknownNotExpected, Tasks, States, Actors
  <2>3. CASE Recover
    BY <2>3, <1>0, JobBegun, NoJobFacts DEF Recover, GoSetting, UnknownNotExpected, Tasks,
       Recoveries, KindByPoint, States, Actors
  <2>4. CASE Leave
    BY <2>4, <1>0 DEF Leave, GoSetting, UnknownNotExpected, Tasks
  <2> QED
    BY <1>5, <2>1, <2>2, <2>3, <2>4 DEF Working
<1>6. CASE Attaching
  <2>1. CASE Attach \/ RecordAttached \/ AttachScene \/ CarryDone
    BY <2>1, <1>0, JobBegun, NoJobFacts DEF Attach, RecordAttached, AttachScene, CarryDone,
       GoSetting, UnknownNotExpected, Tasks, States, Actors
  <2>2. CASE CarryCanceled
    BY <2>2, <1>0, JobBegun, NoJobFacts DEF CarryCanceled, GoSetting, UnknownNotExpected, Tasks,
       States, Actors
  <2>3. CASE Attached
    BY <2>3, <1>0 DEF Attached, GoSetting, UnknownNotExpected, Tasks, KindByPoint
  <2>4. CASE AttachUncertain
    BY <2>4, <1>0 DEF AttachUncertain, GoSetting, UnknownNotExpected, Tasks, KindByPoint
  <2> QED
    BY <1>6, <2>1, <2>2, <2>3, <2>4 DEF Attaching
<1>7. CASE Releasing
  <2>1. CASE Transport \/ Release \/ Released \/ ReleaseUncertain
    BY <2>1, <1>0, JobBegun, NoJobFacts DEF Transport, Release, Released, ReleaseUncertain,
       GoSetting, UnknownNotExpected, Tasks, States, Actors
  <2>2. CASE ReleaseScene \/ Retreat \/ Throw
    BY <2>2, <1>0, JobBegun, NoJobFacts DEF ReleaseScene, Retreat, Throw, GoSetting,
       UnknownNotExpected, Tasks, States, Actors
  <2> QED
    BY <1>7, <2>1, <2>2 DEF Releasing
<1>8. CASE Resetting
  <2>1. CASE LockState \/ GiveUp \/ Acquire \/ BeginReset
    BY <2>1, <1>0, JobBegun, NoJobFacts DEF LockState, GiveUp, Acquire, BeginReset, Fail,
       UnknownNotExpected, Tasks, States, Actors
  <2>2. CASE Detach \/ DetachUnavailable \/ NothingToDetach
    BY <2>2, <1>0, JobBegun, NoJobFacts DEF Detach, DetachUnavailable, NothingToDetach, Fail,
       UnknownNotExpected, Tasks, States, Actors
  <2> QED
    BY <1>8, <2>1, <2>2 DEF Resetting
<1>9. CASE Finishing
  <2>1. CASE Detached \/ DetachFailed \/ ResetFails \/ ResetDone
    BY <2>1, <1>0, JobBegun, NoJobFacts DEF Detached, DetachFailed, ResetFails, ResetDone, Fail,
       UnknownNotExpected, Tasks, States, Actors
  <2>2. CASE Finish
    BY <2>2, <1>0, JobBegun, NoJobFacts DEF Finish, Fail, UnknownNotExpected, Tasks, States,
       Actors
  <2>3. CASE FinishReset
    BY <2>3, <1>0 DEF FinishReset, Fail, UnknownNotExpected, Tasks, SuccessIsEmpty
  <2> QED
    BY <1>9, <2>1, <2>2, <2>3 DEF Finishing
<1>10. CASE Requesting
  <2>1. CASE RequestReset \/ RemoveBox \/ CancelOperation \/ CancelReset
    BY <2>1, <1>0, JobBegun, NoJobFacts DEF RequestReset, RemoveBox, CancelOperation,
       CancelReset, UnknownNotExpected, Tasks, States, Actors
  <2>2. CASE Restart
    BY <2>2, <1>0, JobBegun, NoJobFacts DEF Restart, UnknownNotExpected, Tasks, States, Actors
  <2> QED
    BY <1>10, <2>1, <2>2 DEF Requesting
<1> QED   BY <1>1, <1>2, <1>3, <1>4, <1>5, <1>6, <1>7, <1>8, <1>9, <1>10, Groups

\* A task that leaves with "not held" leaves no box, unless a restart lost it.
LEMMA HonestLeaveNext ==
  ASSUME IInv, Next
  PROVE  HonestLeave'
<1>0. TypeOK /\ HonestLeave /\ KindByPoint /\ JobsByPoint /\ BoxIsKnown /\ ReleasedByPoint /\
      UnknownNotExpected /\ GateHolder
  BY DEF IInv
<1>box. /\ BoxPossible' => BoxPossible \/ (opc = "attach" /\ opc' = "attaching")
       /\ lapses \subseteq lapses'
  BY <1>0, BoxMayAppear
<1>1. CASE SetStateStep("op")
  BY <1>1, <1>0, JobSteps, <1>box DEF SetStateStep, CheckLatch, StoreState, PersistState,
     Actors, HonestLeave, Lost, Tasks, Recoveries, KindByPoint, JobsByPoint
<1>2. CASE SetStateStep("reset")
  BY <1>2, <1>0, JobSteps, <1>box DEF SetStateStep, CheckLatch, StoreState, PersistState,
     Actors, HonestLeave, Lost, Tasks, Recoveries, KindByPoint, JobsByPoint
<1>3. CASE Started
  BY <1>3, <1>0, <1>box DEF Started, StartOperation, HonestLeave, Lost, Tasks, Actors
<1>4. CASE Served
  BY <1>4, <1>0, <1>box DEF Served, Serve, HonestLeave, Lost, Tasks, Actors
<1>5. CASE Working
  <2>1. CASE BeginTask \/ Validate \/ Scene \/ AttachCanceled
    BY <2>1, <1>0, <1>box DEF BeginTask, Validate, Scene, AttachCanceled, GoSetting,
       HonestLeave, Lost, Tasks, Actors
  <2>2. CASE PlaceAfterPick \/ Leave
    BY <2>2, <1>0, <1>box DEF PlaceAfterPick, Leave, GoSetting, HonestLeave, Lost, Tasks, Actors
  <2>3. CASE Recover
    BY <2>3, <1>0, <1>box DEF Recover, GoSetting, HonestLeave, Lost, Tasks, Actors, KindByPoint,
       Recoveries
  <2>4. CASE Outcome
    <3>1. /\ opc = "outcome" /\ job["op"] = NoJob /\ lapses' = lapses
          /\ UNCHANGED <<state, kind, rpc, job>> /\ opc' = "leave" /\ (BoxPossible' => BoxPossible)
      BY <2>4, <1>box DEF Outcome
    <3>2. ASSUME kind' \in Tasks, ~told', lapses' = {}, BoxPossible'
          PROVE  Lost' /\ state' = "UNKNOWN"
      <4>1. kind \in Tasks /\ lapses = {} /\ BoxPossible
        BY <3>1, <3>2
      <4>2. disposition # "released" /\ state \notin {"HOLDING", "RECOVERY_REQUIRED"}
        BY <2>4, <1>0, <3>1, <3>2, <4>1 DEF Outcome, ObjectHeld, ReleasedByPoint
      <4>3. state \in States /\ state # "EMPTY"
        BY <1>0, <3>1, <4>1, TypeParts DEF BeliefTyped, BoxIsKnown, Recorded, Recording
      <4>4. state = "UNKNOWN"
        BY <4>2, <4>3 DEF States
      <4>5. ~expected
        BY <1>0, <3>1, <4>1, <4>4 DEF UnknownNotExpected
      <4>6. Lost
        BY <1>0, <3>1, <4>1, <4>5 DEF BoxIsKnown
      <4>7. rpc' = rpc /\ state' = state /\ opc' = "leave" /\ job'["op"] = job["op"]
        BY <3>1
      <4> QED
        BY <4>4, <4>6, <4>7 DEF Lost
    <3> QED
      BY <3>2 DEF HonestLeave
  <2> QED
    BY <1>5, <2>1, <2>2, <2>3, <2>4 DEF Working
<1>6. CASE Attaching
  <2>1. CASE Attach \/ Attached \/ AttachUncertain \/ RecordAttached
    BY <2>1, <1>0, <1>box DEF Attach, Attached, AttachUncertain, RecordAttached, GoSetting,
       HonestLeave, Lost, Tasks, Actors
  <2>2. CASE AttachScene \/ CarryDone \/ CarryCanceled
    BY <2>2, <1>0, <1>box DEF AttachScene, CarryDone, CarryCanceled, GoSetting, HonestLeave,
       Lost, Tasks, Actors
  <2> QED
    BY <1>6, <2>1, <2>2 DEF Attaching
<1>7. CASE Releasing
  <2>1. CASE Transport \/ Release \/ Released \/ ReleaseUncertain
    BY <2>1, <1>0, <1>box DEF Transport, Release, Released, ReleaseUncertain, GoSetting,
       HonestLeave, Lost, Tasks, Actors
  <2>2. CASE ReleaseScene \/ Retreat \/ Throw
    BY <2>2, <1>0, <1>box DEF ReleaseScene, Retreat, Throw, GoSetting, HonestLeave, Lost, Tasks,
       Actors
  <2> QED
    BY <1>7, <2>1, <2>2 DEF Releasing
<1>8. CASE Resetting
  <2>1. CASE LockState \/ GiveUp \/ Acquire \/ BeginReset
    BY <2>1, <1>0, <1>box DEF LockState, GiveUp, Acquire, BeginReset, Fail, HonestLeave, Lost,
       Tasks, Actors
  <2>2. CASE Detach \/ DetachUnavailable \/ NothingToDetach
    BY <2>2, <1>0, <1>box DEF Detach, DetachUnavailable, NothingToDetach, Fail, HonestLeave,
       Lost, Tasks, Actors
  <2> QED
    BY <1>8, <2>1, <2>2 DEF Resetting
<1>9. CASE Finishing
  <2>1. CASE Detached \/ DetachFailed \/ ResetFails \/ ResetDone
    BY <2>1, <1>0, <1>box DEF Detached, DetachFailed, ResetFails, ResetDone, Fail, HonestLeave,
       Lost, Tasks, Actors
  <2>2. CASE Finish \/ FinishReset
    BY <2>2, <1>0, <1>box DEF Finish, FinishReset, Fail, HonestLeave, Lost, Tasks, Actors
  <2> QED
    BY <1>9, <2>1, <2>2 DEF Finishing
<1>10. CASE Requesting
  <2>1. CASE RemoveBox \/ CancelOperation \/ CancelReset \/ Restart
    BY <2>1, <1>0, <1>box DEF RemoveBox, CancelOperation, CancelReset, Restart, HonestLeave,
       Lost, Tasks, Actors
  <2>2. CASE RequestReset
    <3>1. UNCHANGED <<state, expected, opc, kind, told, attached, calls>>
      BY <2>2 DEF RequestReset
    <3>2. BoxPossible' => BoxPossible
      BY <1>box, <3>1
    <3>3. lapses = {} /\ (lapses' = {} /\ BoxPossible => expected \/ opc = "attaching")
      BY <2>2 DEF RequestReset, BoxPossible
    <3> QED
      BY <1>0, <3>1, <3>2, <3>3 DEF HonestLeave, UnknownNotExpected
  <2> QED
    BY <1>10, <2>1, <2>2 DEF Requesting
<1> QED   BY <1>1, <1>2, <1>3, <1>4, <1>5, <1>6, <1>7, <1>8, <1>9, <1>10, Groups

-----------------------------------------------------------------------------
\* The invariant holds at first.
LEMMA InitIInv == Init => IInv
<1> SUFFICES ASSUME Init PROVE IInv
  OBVIOUS
<1>1. calls = <<>> /\ DOMAIN calls = {} /\ attached = FALSE
  <2>1. calls = <<>> /\ attached = FALSE
    BY DEF Init
  <2> QED
    BY <2>1
<1>2. TypeOK
  <2>1. WorldTyped
    <3>1. calls \in Seq(Calls)
      BY <1>1
    <3>2. answer \in [Actors -> {"none", "waiting", "ok", "failed"}]
      BY DEF Init
    <3> QED
      BY <1>1, <3>1, <3>2 DEF WorldTyped
  <2>2. BeliefTyped /\ GateTyped /\ OpTyped /\ ResetTyped /\ JobTyped
    BY BoundsAssumption DEF Init, BeliefTyped, GateTyped, OpTyped, ResetTyped, JobTyped, States,
       Tasks
  <2>3. CountTyped
    <3>1. MaxStarts \in Nat /\ MaxResets \in Nat /\ MaxCrashes \in Nat
      BY BoundsAssumption
    <3>2. starts = 0 /\ resets = 0 /\ crashes = 0
      BY DEF Init
    <3> QED
      BY <3>1, <3>2 DEF CountTyped
  <2> QED
    BY <2>1, <2>2, <2>3, TypeParts
<1>3. ~BoxPossible
  BY <1>1 DEF BoxPossible, AttachQueued
<1>4. GateHolder /\ LatchCovers /\ JobsByPoint /\ SuccessIsEmpty /\ KindByPoint
  BY DEF Init, GateHolder, LatchCovers, JobsByPoint, SuccessIsEmpty, KindByPoint, Actors
<1>5. WaitingIsLast /\ DetachAnswered /\ NoBoxLeft /\ BoxIsKnown /\ ReleasedByPoint /\ HonestLeave
  BY <1>1, <1>3 DEF Init, WaitingIsLast, DetachAnswered, NoBoxLeft, BoxIsKnown, ReleasedByPoint,
     HonestLeave
<1>6. UnknownNotExpected
  BY DEF Init, UnknownNotExpected
<1> QED
  BY <1>2, <1>4, <1>5, <1>6 DEF IInv

\* ... and when nothing happens,
LEMMA StutterIInv ==
  ASSUME IInv, UNCHANGED vars
  PROVE  IInv'
<1>1. UNCHANGED <<state, file, attached, calls, answer, expected, disposition, gate, latch, pending>>
  BY DEF vars
<1>2. UNCHANGED <<opc, kind, opCanceled, told, rpc, resetCanceled, resetSuccess, detachDone, job>>
  BY DEF vars
<1>3. UNCHANGED <<starts, resets, crashes, lapses>>
  BY DEF vars
<1>4. TypeOK'
  <2>1. WorldTyped' /\ BeliefTyped' /\ GateTyped'
    BY <1>1, <1>3, TypeParts DEF IInv, WorldTyped, BeliefTyped, GateTyped
  <2>2. OpTyped' /\ ResetTyped' /\ JobTyped' /\ CountTyped'
    BY <1>2, <1>3, TypeParts DEF IInv, OpTyped, ResetTyped, JobTyped, CountTyped
  <2> QED
    BY <2>1, <2>2, TypeParts, PTL
<1>5. (BoxPossible <=> BoxPossible') /\ (Recorded <=> Recorded') /\ (Recording <=> Recording')
      /\ (Lost <=> Lost')
  BY <1>1, <1>2 DEF BoxPossible, AttachQueued, Recorded, RestartState, Recording, Lost
<1>6. (GateHolder /\ LatchCovers /\ JobsByPoint /\ SuccessIsEmpty /\ KindByPoint)'
  BY <1>1, <1>2 DEF IInv, GateHolder, LatchCovers, JobsByPoint, SuccessIsEmpty, KindByPoint
<1>7. (WaitingIsLast /\ DetachAnswered /\ NoBoxLeft)'
  BY <1>1, <1>2, <1>3, <1>5 DEF IInv, WaitingIsLast, DetachAnswered, NoBoxLeft, ClaimsEmpty
<1>8. (BoxIsKnown /\ ReleasedByPoint /\ UnknownNotExpected /\ HonestLeave)'
  BY <1>1, <1>2, <1>3, <1>5 DEF IInv, BoxIsKnown, ReleasedByPoint, UnknownNotExpected,
     HonestLeave
<1> QED
  BY <1>4, <1>6, <1>7, <1>8 DEF IInv

\* ... and after every step.
LEMMA StepIInv ==
  ASSUME IInv, [Next]_vars
  PROVE  IInv'
<1>1. CASE UNCHANGED vars
  BY <1>1, StutterIInv
<1>2. CASE Next
  <2>1. TypeOK'
    BY <1>2, TypeNext DEF IInv
  <2>2. (GateHolder /\ LatchCovers /\ JobsByPoint /\ SuccessIsEmpty /\ KindByPoint)'
    BY <1>2, GateHolderNext, LatchCoversNext, JobsByPointNext, SuccessIsEmptyNext,
       KindByPointNext
  <2>3. (WaitingIsLast /\ DetachAnswered /\ NoBoxLeft /\ BoxIsKnown)'
    BY <1>2, WaitingIsLastNext, DetachAnsweredNext, NoBoxLeftNext, BoxIsKnownNext
  <2>4. (ReleasedByPoint /\ UnknownNotExpected /\ HonestLeave)'
    BY <1>2, ReleasedByPointNext, UnknownNotExpectedNext, HonestLeaveNext
  <2> QED
    BY <2>1, <2>2, <2>3, <2>4 DEF IInv
<1> QED
  BY <1>1, <1>2

\* The invariant the properties rest on: whatever happens between the task, the
\* reset, the service and a restart, the server knows of a box that may be held.
THEOREM Invariance == Spec => []IInv
<1>1. IInv /\ [Next]_vars => IInv'
  BY StepIInv
<1>2. Spec => Init /\ [][Next]_vars
  BY PTL DEF Spec
<1> QED
  BY InitIInv, <1>1, <1>2, PTL

-----------------------------------------------------------------------------
\* Every value the server, its file and the service ever hold is of its type,
\* setState calls and queued calls included.
THEOREM TypeCorrect == Spec => []TypeOK
<1>1. IInv => TypeOK
  BY DEF IInv
<1> QED
  BY <1>1, Invariance, PTL

\* With nobody inside the gate, a server that says EMPTY or would say it after a
\* restart has no box on its arms.
THEOREM EmptyIsEmptyAlways == Spec => []EmptyIsEmpty
<1>1. IInv => EmptyIsEmpty
  <2> SUFFICES ASSUME IInv, gate = "free", lapses = {}, state = "EMPTY" \/ RestartState = "EMPTY",
                      attached
               PROVE  FALSE
    BY DEF EmptyIsEmpty
  <2>1. opc = "idle" /\ job["op"] = NoJob
    BY DEF IInv, GateHolder, JobsByPoint
  <2> QED
    BY <2>1 DEF IInv, BoxIsKnown, BoxPossible, Recorded, Recording
<1> QED
  BY <1>1, Invariance, PTL

\* A task that reports object_held = FALSE leaves no box, in a server that knew.
THEOREM ReportIsHonestAlways == Spec => []ReportIsHonest
<1>1. IInv => ReportIsHonest
  BY DEF IInv, ReportIsHonest, HonestLeave, BoxPossible
<1> QED
  BY <1>1, Invariance, PTL

\* finishReset opens the latch after a success alone, and then EMPTY is stored,
\* the gate is the reset's, and nothing is on the arms.
LEMMA LatchFallsByFinish ==
  ASSUME IInv, Next, latch, ~latch', crashes' = crashes
  PROVE  FinishReset /\ resetSuccess
<1>0. TypeOK /\ GateHolder
  BY DEF IInv
<1>1. CASE SetStateStep("op")
  BY <1>1 DEF SetStateStep, CheckLatch, StoreState, PersistState
<1>2. CASE SetStateStep("reset")
  BY <1>2 DEF SetStateStep, CheckLatch, StoreState, PersistState
<1>3. CASE Started
  BY <1>3 DEF Started, StartOperation
<1>4. CASE Served
  BY <1>4 DEF Served, Serve
<1>5. CASE Working
  BY <1>5 DEF Working, Recover, BeginTask, Validate, Scene, AttachCanceled, PlaceAfterPick,
     Outcome, Leave, GoSetting
<1>6. CASE Attaching
  BY <1>6 DEF Attaching, Attach, Attached, AttachUncertain, RecordAttached, AttachScene,
     CarryDone, CarryCanceled, GoSetting
<1>7. CASE Releasing
  BY <1>7 DEF Releasing, Transport, Release, Released, ReleaseUncertain, ReleaseScene, Retreat,
     Throw, GoSetting
<1>8. CASE Resetting
  BY <1>8 DEF Resetting, LockState, GiveUp, Acquire, BeginReset, Detach, DetachUnavailable,
     NothingToDetach, Fail
<1>9. CASE Finishing
  BY <1>9 DEF Finishing, Detached, DetachFailed, ResetFails, ResetDone, Finish, FinishReset,
     Fail
<1>10. CASE Requesting
  <2>1. CASE Restart
    <3>1. crashes' = crashes + 1 /\ crashes \in Nat
      <4>1. MaxCrashes \in Nat
        BY BoundsAssumption
      <4>2. crashes \in 0..MaxCrashes
        BY <1>0, TypeParts DEF CountTyped
      <4>3. crashes' = crashes + 1
        BY <2>1 DEF Restart
      <4> QED
        BY <4>1, <4>2, <4>3
    <3> QED
      BY <3>1
  <2>2. CASE RequestReset \/ RemoveBox \/ CancelOperation \/ CancelReset
    BY <2>2 DEF RequestReset, RemoveBox, CancelOperation, CancelReset
  <2> QED
    BY <1>10, <2>1, <2>2 DEF Requesting
<1> QED   BY <1>1, <1>2, <1>3, <1>4, <1>5, <1>6, <1>7, <1>8, <1>9, <1>10, Groups

\* The latch falls only to a server that is EMPTY with nothing on its arms.
THEOREM LatchFallsEmptyAlways == Spec => LatchFallsEmpty
<1>1. IInv /\ [Next]_vars =>
        [latch /\ ~latch' /\ crashes' = crashes =>
           state = "EMPTY" /\ gate = "reset" /\ (lapses = {} => ~attached)]_vars
  <2> SUFFICES ASSUME IInv, Next, latch, ~latch', crashes' = crashes
               PROVE  state = "EMPTY" /\ gate = "reset" /\ (lapses = {} => ~attached)
    BY DEF vars
  <2>1. FinishReset /\ resetSuccess
    BY LatchFallsByFinish
  <2>2. job["reset"] = NoJob
    BY <2>1 DEF FinishReset
  <2> QED
    BY <2>1, <2>2 DEF IInv, SuccessIsEmpty, NoBoxLeft, BoxPossible
<1>2. Spec => [][Next]_vars
  BY PTL DEF Spec
<1> QED
  BY <1>1, <1>2, Invariance, PTL DEF LatchFallsEmpty
=============================================================================
