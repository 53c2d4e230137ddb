-------------------------- MODULE ManipulationServer --------------------------
(* src/pick_place_server.cpp: what the server believes about the box (the state
   topic and the state file), against what the simulator's attachment service
   did with it.  One operation worker or recovery service at a time holds the
   gate (ResetCoordinator, whose calls are one step here); a reset goal runs
   beside it until it has the gate itself.  The node may die and start again at
   any point.  simulate_attachment is on; planning and motion are phases that
   succeed at some time or never; plan_only and saved requests are not here. *)
EXTENDS Naturals, Sequences

CONSTANTS
  InitialState,   \* initial_state: what a missing state file means
  MaxStarts,      \* bound: operations and recovery calls admitted
  MaxResets,      \* bound: reset goals
  MaxCrashes      \* bound: restarts of the node

ASSUME BoundsAssumption ==
  /\ InitialState \in {"EMPTY", "UNKNOWN"}
  /\ {MaxStarts, MaxResets, MaxCrashes} \subseteq Nat

VARIABLES
  state, file,          \* state_; the state file
  attached,             \* the box hangs on the arms
  calls, answer,        \* calls in the attachment service; what each actor got back
  expected,             \* attachment_.expected()
  disposition,          \* object_disposition of the task status
  gate, latch, pending, \* holder of busy_, reset_requested_, reset_pending_
  opc, kind, opCanceled, told,       \* the operation; told: the object_held it reported
  rpc, resetCanceled, resetSuccess,  \* the reset goal
  detachDone,           \* reset_physical_detach_done_
  job,                  \* the setState call each actor is inside of
  starts, resets, crashes,
  lapses                \* history: what happened that the server cannot know of (bound:
                        \* operations and resets begin only before a lapse)

world_vars == <<attached, calls, answer>>
gate_vars == <<gate, latch, pending>>
op_vars == <<opc, kind, opCanceled, told>>
reset_vars == <<rpc, resetCanceled, resetSuccess, detachDone>>
count_vars == <<starts, resets, crashes>>
vars == <<state, file, world_vars, expected, disposition, gate_vars, op_vars, reset_vars, job,
          count_vars, lapses>>

Actors == {"op", "reset"}
States == {"UNKNOWN", "EMPTY", "HOLDING", "RECOVERY_REQUIRED"}
Tasks == {"pick", "place", "carry", "pick_place"}
Recoveries == {"confirm_empty", "confirm_holding"}
Calls == [call : {"attach", "detach"}, caller : Actors \cup {"nobody"}]

NoJob == [at |-> "none"]
Jobs == [at : {"check", "store", "persist"}, value : States, override : BOOLEAN]

TypeOK ==
  /\ state \in States /\ file \in {"none", "EMPTY", "HOLDING"}
  /\ attached \in BOOLEAN /\ calls \in Seq(Calls)
  /\ answer \in [Actors -> {"none", "waiting", "ok", "failed"}]
  /\ expected \in BOOLEAN
  /\ disposition \in {"", "not_attached", "attached", "uncertain", "released"}
  /\ gate \in Actors \cup {"free"} /\ latch \in BOOLEAN /\ pending \in BOOLEAN
  /\ opc \in {"idle", "begin", "recover", "validate", "attach", "attaching", "attached",
              "attach_scene", "carry", "scene", "transport", "release", "detaching",
              "release_scene", "retreat", "place", "outcome", "leave"}
  /\ kind \in Tasks \cup Recoveries /\ {opCanceled, told} \subseteq BOOLEAN
  /\ rpc \in {"idle", "lock", "wait", "begin", "cleanup", "detaching", "motion", "finish",
              "close"}
  /\ {resetCanceled, resetSuccess, detachDone} \subseteq BOOLEAN
  /\ job \in [Actors -> Jobs \cup {NoJob}]
  /\ starts \in 0..MaxStarts /\ resets \in 0..MaxResets /\ crashes \in 0..MaxCrashes
  /\ lapses \subseteq {"crash", "late_attach", "persist"}

\* initializeState
RestartState ==
  CASE file = "EMPTY" -> "EMPTY" [] file = "HOLDING" -> "UNKNOWN" [] OTHER -> InitialState

Init ==
  /\ file = "none" /\ state = InitialState
  /\ attached = FALSE /\ calls = <<>> /\ answer = [a \in Actors |-> "none"]
  /\ expected = FALSE /\ disposition = ""
  /\ gate = "free" /\ latch = FALSE /\ pending = FALSE
  /\ opc = "idle" /\ kind = "pick" /\ opCanceled = FALSE /\ told = FALSE
  /\ rpc = "idle" /\ resetCanceled = FALSE /\ resetSuccess = FALSE /\ detachDone = FALSE
  /\ job = [a \in Actors |-> NoJob]
  /\ starts = 0 /\ resets = 0 /\ crashes = 0 /\ lapses = {}

-----------------------------------------------------------------------------
(* setState: look at the latch, store, persist; no lock is held across them. *)

SetState(a, value, override) ==
  job' = [job EXCEPT ![a] = [at |-> "check", value |-> value, override |-> override]]

CheckLatch(a) ==
  /\ job[a].at = "check"
  /\ job' = [job EXCEPT ![a] =
       IF latch /\ job[a].value # "RECOVERY_REQUIRED" /\ ~job[a].override
         THEN NoJob ELSE [@ EXCEPT !.at = "store"]]
  /\ UNCHANGED <<state, file, world_vars, expected, disposition, gate_vars, op_vars, reset_vars,
                 count_vars, lapses>>

StoreState(a) ==
  /\ job[a].at = "store"
  /\ state' = job[a].value
  /\ job' = [job EXCEPT ![a].at = "persist"]
  /\ UNCHANGED <<file, world_vars, expected, disposition, gate_vars, op_vars, reset_vars,
                 count_vars, lapses>>

\* Fault: the state is written as it is.
PersistedAsIs(value) == value

\* persistState: what is not EMPTY may hold a box.
Persisted(value) == IF value = "EMPTY" THEN "EMPTY" ELSE "HOLDING"

PersistState(a) ==
  /\ job[a].at = "persist"
  /\ job' = [job EXCEPT ![a] = NoJob]
  /\ \/ file' = Persisted(job[a].value) /\ UNCHANGED lapses
     \/ UNCHANGED file /\ lapses' = lapses \cup {"persist"}
  /\ UNCHANGED <<state, world_vars, expected, disposition, gate_vars, op_vars, reset_vars,
                 count_vars>>

-----------------------------------------------------------------------------
(* AttachmentController::call, and the simulator's service (external): calls are
   served in order, also those nobody waits for any more; the caller waits two
   seconds for the answer. *)

Dispatch(a, call) ==
  /\ calls' = Append(calls, [call |-> call, caller |-> a])
  /\ answer' = [answer EXCEPT ![a] = "waiting"]
  /\ UNCHANGED attached

Serve(success, delivered) ==
  /\ calls # <<>>
  /\ calls' = Tail(calls)
  /\ attached' = IF success THEN Head(calls).call = "attach" ELSE attached
  /\ answer' = IF delivered /\ Head(calls).caller \in Actors
                 THEN [answer EXCEPT ![Head(calls).caller] = IF success THEN "ok" ELSE "failed"]
                 ELSE answer
  /\ UNCHANGED <<state, file, expected, disposition, gate_vars, op_vars, reset_vars, job,
                 count_vars, lapses>>

Abandoned(a) == [i \in DOMAIN calls |->
                   IF calls[i].caller = a THEN [calls[i] EXCEPT !.caller = "nobody"] ELSE calls[i]]

\* The answer is in, or the two seconds are over; both forget the call.
Returned(a) ==
  /\ calls' = Abandoned(a)
  /\ answer' = [answer EXCEPT ![a] = "none"]
  /\ UNCHANGED attached

AttachQueued == \E i \in DOMAIN calls : calls[i].call = "attach"

\* The operator takes the box out of the arms of an idle server.
RemoveBox ==
  /\ attached /\ gate = "free"
  /\ attached' = FALSE
  /\ UNCHANGED <<state, file, calls, answer, expected, disposition, gate_vars, op_vars,
                 reset_vars, job, count_vars, lapses>>

-----------------------------------------------------------------------------
(* The operation: a task's worker, or the recovery service.  A phase of
   phase_controller_ ends with success, or once the task is canceled; it pauses
   in between for as long as the operator likes. *)

\* Fault: a reset request does not stop the running task.
CanceledByGoal == opCanceled

Canceled == opCanceled \/ latch

At(here) == opc = here /\ job["op"] = NoJob

Go(here, next) == At(here) /\ opc' = next

GoSetting(here, value, next) == Go(here, next) /\ SetState("op", value, FALSE)

\* The goal callbacks and recoverState; the operator confirms what is so.
StartOperation(k) ==
  /\ opc = "idle" /\ gate = "free" /\ ~latch /\ ~pending
  /\ starts < MaxStarts /\ lapses = {}
  /\ k = "confirm_empty" => ~attached
  /\ k = "confirm_holding" => attached
  /\ gate' = "op" /\ kind' = k
  /\ opc' = IF k \in Recoveries THEN "recover" ELSE "begin"
  /\ starts' = starts + 1
  /\ lapses' = IF k = "confirm_empty" /\ AttachQueued THEN lapses \cup {"late_attach"} ELSE lapses
  /\ UNCHANGED <<state, file, world_vars, expected, disposition, latch, pending, opCanceled, told,
                 reset_vars, job, resets, crashes>>

\* cancelGoal
CancelOperation ==
  /\ opc \notin {"idle", "recover", "leave"} /\ ~opCanceled
  /\ opCanceled' = TRUE
  /\ UNCHANGED <<state, file, world_vars, expected, disposition, gate_vars, opc, kind, told,
                 reset_vars, job, count_vars, lapses>>

\* recoverState; clearing or rebuilding the planning scene may fail.
Recover ==
  /\ \/ Go("recover", "leave") /\ UNCHANGED <<expected, job>>
     \/ /\ kind = "confirm_empty" /\ GoSetting("recover", "EMPTY", "leave")
        /\ UNCHANGED expected
     \/ /\ kind = "confirm_holding" /\ GoSetting("recover", "HOLDING", "leave")
        /\ expected' = TRUE
  /\ UNCHANGED <<state, file, world_vars, disposition, gate_vars, kind, opCanceled, told,
                 reset_vars, count_vars, lapses>>

TaskUnchanged == UNCHANGED <<state, file, gate_vars, kind, opCanceled, told, reset_vars,
                             count_vars, lapses>>

BeginTask ==
  /\ Go("begin", "validate")
  /\ disposition' = IF state = "HOLDING" THEN "attached" ELSE "not_attached"
  /\ UNCHANGED <<world_vars, expected, job>> /\ TaskUnchanged

\* The first checks of runPick, runPlace and runMoveCarryPose; a goal may also be
\* refused for a table profile, a target or a pose that makes no sense.
Validate ==
  /\ \/ Go("validate", "outcome")
     \/ ~Canceled /\ Go("validate",
          CASE kind \in {"pick", "pick_place"} /\ state = "EMPTY" -> "attach"
            [] kind \in {"place", "carry"} /\ state = "HOLDING" -> "scene"
            [] OTHER -> "outcome")
  /\ UNCHANGED <<world_vars, expected, disposition, job>> /\ TaskUnchanged

\* A phase without a change of state of its own: scene, then the motion, unless
\* the carry pose is reached already or the place pose cannot be resolved.
Scene ==
  /\ \/ Go("scene", "outcome")
     \/ ~Canceled /\ Go("scene", IF kind = "carry" THEN "carry" ELSE "transport")
  /\ UNCHANGED <<world_vars, expected, disposition, job>> /\ TaskUnchanged

(* runPick *)

AttachCanceled ==
  /\ Canceled /\ Go("attach", "outcome")
  /\ UNCHANGED <<world_vars, expected, disposition, job>> /\ TaskUnchanged

Attach ==
  /\ ~Canceled /\ Go("attach", "attaching")
  /\ Dispatch("op", "attach")
  /\ UNCHANGED <<expected, disposition, job>> /\ TaskUnchanged

Attached ==
  /\ answer["op"] = "ok" /\ ~Canceled
  /\ Go("attaching", "attached")
  /\ Returned("op") /\ expected' = TRUE
  /\ UNCHANGED <<disposition, job>> /\ TaskUnchanged

\* A refusal, no answer in time, or a cancel that the phase sees after the answer.
AttachUncertain ==
  /\ answer["op"] # "ok" \/ Canceled
  /\ GoSetting("attaching", "RECOVERY_REQUIRED", "outcome")
  /\ Returned("op") /\ expected' = TRUE /\ disposition' = "uncertain"
  /\ TaskUnchanged

RecordAttached ==
  /\ \/ Canceled /\ GoSetting("attached", "RECOVERY_REQUIRED", "outcome") /\ UNCHANGED disposition
     \/ ~Canceled /\ GoSetting("attached", "HOLDING", "attach_scene") /\ disposition' = "attached"
  /\ UNCHANGED <<world_vars, expected>> /\ TaskUnchanged

AttachScene ==
  /\ \/ Canceled /\ GoSetting("attach_scene", "RECOVERY_REQUIRED", "outcome")
     \/ ~Canceled /\ GoSetting("attach_scene", "HOLDING", "carry")
  /\ UNCHANGED <<world_vars, expected, disposition>> /\ TaskUnchanged

\* The carry phase of runPick and of runMoveCarryPose; PickPlace goes on to runPlace.
CarryDone ==
  /\ ~Canceled
  /\ GoSetting("carry", "HOLDING", IF kind = "pick_place" THEN "place" ELSE "outcome")
  /\ UNCHANGED <<world_vars, expected, disposition>> /\ TaskUnchanged

CarryCanceled ==
  /\ Canceled /\ GoSetting("carry", "RECOVERY_REQUIRED", "outcome")
  /\ UNCHANGED <<world_vars, expected, disposition>> /\ TaskUnchanged

\* runPlace inside PickPlace looks at the state again.
PlaceAfterPick ==
  /\ Go("place", IF ~Canceled /\ state = "HOLDING" THEN "scene" ELSE "outcome")
  /\ UNCHANGED <<world_vars, expected, disposition, job>> /\ TaskUnchanged

(* runPlace *)

Transport ==
  /\ \/ Canceled /\ GoSetting("transport", "RECOVERY_REQUIRED", "outcome")
     \/ ~Canceled /\ Go("transport", "release") /\ UNCHANGED job
  /\ UNCHANGED <<world_vars, expected, disposition>> /\ TaskUnchanged

Release ==
  /\ \/ /\ Canceled /\ GoSetting("release", "RECOVERY_REQUIRED", "outcome")
        /\ UNCHANGED world_vars
     \/ ~Canceled /\ Go("release", "detaching") /\ Dispatch("op", "detach") /\ UNCHANGED job
  /\ UNCHANGED <<expected, disposition>> /\ TaskUnchanged

Released ==
  /\ answer["op"] = "ok" /\ ~Canceled
  /\ GoSetting("detaching", "EMPTY", "release_scene")
  /\ Returned("op") /\ expected' = FALSE /\ disposition' = "released"
  /\ TaskUnchanged

ReleaseUncertain ==
  /\ answer["op"] # "ok" \/ Canceled
  /\ GoSetting("detaching", "RECOVERY_REQUIRED", "outcome")
  /\ Returned("op") /\ disposition' = "uncertain"
  /\ UNCHANGED expected /\ TaskUnchanged

ReleaseScene ==
  /\ \/ Canceled /\ GoSetting("release_scene", "RECOVERY_REQUIRED", "outcome")
     \/ ~Canceled /\ GoSetting("release_scene", "EMPTY", "retreat")
  /\ UNCHANGED <<world_vars, expected, disposition>> /\ TaskUnchanged

\* A canceled retreat leaves the state alone.
Retreat ==
  /\ \/ Canceled /\ Go("retreat", "outcome") /\ UNCHANGED job
     \/ GoSetting("retreat", "EMPTY", "outcome")
  /\ UNCHANGED <<world_vars, expected, disposition>> /\ TaskUnchanged

\* The catch blocks of executePick, executePlace, ...
Throw ==
  /\ opc \in {"validate", "scene", "attach", "attach_scene", "carry", "transport", "release",
              "release_scene", "retreat"}
  /\ GoSetting(opc, "RECOVERY_REQUIRED", "outcome")
  /\ UNCHANGED <<world_vars, expected, disposition>> /\ TaskUnchanged

\* Fault: the object counts as held in HOLDING only.
ObjectHeldWhenHolding == disposition # "released" /\ state = "HOLDING"

\* outcome
ObjectHeld == disposition # "released" /\ state \in {"HOLDING", "RECOVERY_REQUIRED"}

Outcome ==
  /\ Go("outcome", "leave")
  /\ told' = ObjectHeld
  /\ UNCHANGED <<state, file, world_vars, expected, disposition, gate_vars, kind, opCanceled,
                 reset_vars, job, count_vars, lapses>>

\* releaseOperation; the result goes out after it.
Leave ==
  /\ Go("leave", "idle")
  /\ gate' = "free"
  /\ kind' = "pick" /\ opCanceled' = FALSE /\ told' = FALSE
  /\ UNCHANGED <<state, file, world_vars, expected, disposition, latch, pending, reset_vars, job,
                 count_vars, lapses>>

-----------------------------------------------------------------------------
(* executeReset *)

ResetGo(here, next) == rpc = here /\ job["reset"] = NoJob /\ rpc' = next

ResetUnchanged == UNCHANGED <<state, file, op_vars, resetCanceled, count_vars, lapses>>

\* onResetGoal with confirm_empty: the operator sees no box, or one that the
\* server knows to be attached.
RequestReset ==
  /\ ~pending /\ resets < MaxResets /\ lapses = {}
  /\ attached => expected \/ opc = "attaching"
  /\ ResetGo("idle", "lock")
  /\ pending' = TRUE /\ latch' = TRUE
  /\ resets' = resets + 1
  /\ lapses' = IF AttachQueued /\ ~expected /\ opc # "attaching"
                 THEN lapses \cup {"late_attach"} ELSE lapses
  /\ UNCHANGED <<state, file, world_vars, expected, disposition, gate, op_vars, resetCanceled,
                 resetSuccess, detachDone, job, starts, crashes>>

CancelReset ==
  /\ rpc # "idle" /\ ~resetCanceled
  /\ resetCanceled' = TRUE
  /\ UNCHANGED <<state, file, world_vars, expected, disposition, gate_vars, op_vars, rpc,
                 resetSuccess, detachDone, job, count_vars, lapses>>

LockState ==
  /\ ResetGo("lock", "wait") /\ SetState("reset", "RECOVERY_REQUIRED", FALSE)
  /\ UNCHANGED <<world_vars, expected, disposition, gate_vars, resetSuccess, detachDone>>
  /\ ResetUnchanged

\* fail(...): from any point of executeReset, also through its catch.
Fail(here) ==
  /\ ResetGo(here, "finish") /\ SetState("reset", "RECOVERY_REQUIRED", FALSE)
  /\ resetSuccess' = FALSE
  /\ UNCHANGED <<expected, disposition, gate_vars, detachDone>>
  /\ ResetUnchanged

\* Canceled, or the operation did not leave within reset_preemption_timeout.
GiveUp == Fail("wait") /\ UNCHANGED world_vars

Acquire ==
  /\ gate = "free" /\ ~resetCanceled
  /\ ResetGo("wait", "begin")
  /\ gate' = "reset"
  /\ UNCHANGED <<world_vars, expected, disposition, latch, pending, resetSuccess, detachDone, job>>
  /\ ResetUnchanged

\* beginTask, and the checkpoint that takes the operator's word.
BeginReset ==
  /\ ResetGo("begin", "cleanup")
  /\ disposition' = "released"
  /\ UNCHANGED <<world_vars, expected, gate_vars, resetSuccess, detachDone, job>>
  /\ ResetUnchanged

Detach ==
  /\ ~detachDone /\ expected
  /\ ResetGo("cleanup", "detaching") /\ Dispatch("reset", "detach")
  /\ UNCHANGED <<expected, disposition, gate_vars, resetSuccess, detachDone, job>>
  /\ ResetUnchanged

\* The service is not there.
DetachUnavailable == ~detachDone /\ expected /\ Fail("cleanup") /\ UNCHANGED world_vars

NothingToDetach ==
  /\ detachDone \/ ~expected
  /\ ResetGo("cleanup", "motion")
  /\ expected' = (expected /\ detachDone) /\ detachDone' = TRUE
  /\ UNCHANGED <<world_vars, disposition, gate_vars, resetSuccess, job>>
  /\ ResetUnchanged

Detached ==
  /\ answer["reset"] = "ok"
  /\ ResetGo("detaching", "motion")
  /\ Returned("reset") /\ expected' = FALSE /\ detachDone' = TRUE
  /\ UNCHANGED <<disposition, gate_vars, resetSuccess, job>>
  /\ ResetUnchanged

DetachFailed == answer["reset"] # "ok" /\ Fail("detaching") /\ Returned("reset")

\* The scene, the motion and its verification; a cancel or an exception ends them.
ResetFails == Fail("motion") /\ UNCHANGED world_vars

ResetDone ==
  /\ ~resetCanceled
  /\ ResetGo("motion", "finish") /\ SetState("reset", "EMPTY", TRUE)
  /\ resetSuccess' = TRUE
  /\ UNCHANGED <<world_vars, expected, disposition, gate_vars, detachDone>>
  /\ ResetUnchanged

\* Fault: the detachment of one reset is taken for that of the next.
FinishKeepingDetach ==
  /\ ResetGo("finish", "close")
  /\ \/ /\ resetCanceled /\ SetState("reset", "RECOVERY_REQUIRED", FALSE)
        /\ resetSuccess' = FALSE /\ UNCHANGED detachDone
     \/ ~resetCanceled /\ UNCHANGED <<resetSuccess, job, detachDone>>
  /\ UNCHANGED <<world_vars, expected, disposition, gate_vars>>
  /\ ResetUnchanged

\* finish looks at the cancel once more; only a success keeps nothing.
Finish ==
  /\ ResetGo("finish", "close")
  /\ \/ /\ resetCanceled /\ SetState("reset", "RECOVERY_REQUIRED", FALSE)
        /\ resetSuccess' = FALSE /\ UNCHANGED detachDone
     \/ /\ ~resetCanceled /\ UNCHANGED <<resetSuccess, job>>
        /\ detachDone' = (detachDone /\ ~resetSuccess)
  /\ UNCHANGED <<world_vars, expected, disposition, gate_vars>>
  /\ ResetUnchanged

\* Fault: a failed reset opens the gate again.
FinishResetAlways ==
  /\ ResetGo("close", "idle")
  /\ latch' = FALSE /\ pending' = FALSE
  /\ gate' = IF gate = "reset" THEN "free" ELSE gate
  /\ resetCanceled' = FALSE /\ resetSuccess' = FALSE
  /\ UNCHANGED <<state, file, world_vars, expected, disposition, op_vars, detachDone, job,
                 count_vars, lapses>>

\* finishReset
FinishReset ==
  /\ ResetGo("close", "idle")
  /\ latch' = (latch /\ ~resetSuccess) /\ pending' = FALSE
  /\ gate' = IF gate = "reset" THEN "free" ELSE gate
  /\ resetCanceled' = FALSE /\ resetSuccess' = FALSE
  /\ UNCHANGED <<state, file, world_vars, expected, disposition, op_vars, detachDone, job,
                 count_vars, lapses>>

-----------------------------------------------------------------------------
(* The node dies and starts again: memory is gone, the file and the calls that
   are out are not. *)

\* The box is attached, or about to be, and nothing has been written yet.
AttachWindow ==
  /\ RestartState = "EMPTY"
  /\ \/ opc \in {"attaching", "attached", "attach_scene", "carry"}
     \/ opc = "outcome" /\ job["op"] # NoJob

Restart ==
  /\ crashes < MaxCrashes /\ crashes' = crashes + 1
  /\ lapses' = IF AttachWindow THEN lapses \cup {"crash"} ELSE lapses
  /\ state' = RestartState
  /\ calls' = [i \in DOMAIN calls |-> [calls[i] EXCEPT !.caller = "nobody"]]
  /\ answer' = [a \in Actors |-> "none"]
  /\ expected' = FALSE /\ disposition' = ""
  /\ gate' = "free" /\ latch' = FALSE /\ pending' = FALSE
  /\ opc' = "idle" /\ kind' = "pick" /\ opCanceled' = FALSE /\ told' = FALSE
  /\ rpc' = "idle" /\ resetCanceled' = FALSE /\ resetSuccess' = FALSE /\ detachDone' = FALSE
  /\ job' = [a \in Actors |-> NoJob]
  /\ UNCHANGED <<file, attached, starts, resets>>

-----------------------------------------------------------------------------
SetStateStep(a) == CheckLatch(a) \/ StoreState(a) \/ PersistState(a)

TaskStep ==
  \/ BeginTask \/ Validate \/ Scene \/ AttachCanceled \/ Attach \/ Attached \/ AttachUncertain
  \/ RecordAttached \/ AttachScene \/ CarryDone \/ CarryCanceled \/ PlaceAfterPick
  \/ Transport \/ Release \/ Released \/ ReleaseUncertain \/ ReleaseScene \/ Retreat
  \/ Throw \/ Outcome

ResetStep ==
  \/ LockState \/ GiveUp \/ Acquire \/ BeginReset
  \/ Detach \/ DetachUnavailable \/ NothingToDetach \/ Detached \/ DetachFailed
  \/ ResetFails \/ ResetDone \/ Finish \/ FinishReset

Environment ==
  \/ \E success, delivered \in BOOLEAN : Serve(success, delivered)
  \/ RemoveBox \/ CancelOperation \/ CancelReset \/ Restart

Next ==
  \/ \E a \in Actors : SetStateStep(a)
  \/ \E k \in Tasks \cup Recoveries : StartOperation(k)
  \/ Recover \/ TaskStep \/ Leave
  \/ RequestReset \/ ResetStep
  \/ Environment

(* Threads run; a phase need not end unless it is canceled, and a service need
   not answer: its caller's two seconds pass. *)
Fairness ==
  /\ \A a \in Actors : WF_vars(SetStateStep(a))
  /\ WF_vars(Recover \/ Leave \/ Outcome \/ BeginTask \/ Attached \/ AttachUncertain
             \/ RecordAttached \/ PlaceAfterPick \/ Released \/ ReleaseUncertain)
  /\ WF_vars(Canceled /\ TaskStep)
  /\ WF_vars(LockState \/ GiveUp \/ Acquire \/ BeginReset \/ Detached \/ DetachFailed
             \/ Detach \/ NothingToDetach \/ Finish \/ FinishReset)
  /\ WF_vars(resetCanceled /\ ResetFails)

Spec == Init /\ [][Next]_vars /\ Fairness

-----------------------------------------------------------------------------
\* With nobody inside the gate a server that says EMPTY, or would say it after a
\* restart, has no box on its arms: after any race of a reset with the task that
\* attaches or releases it, after answers that never came, failed resets, and
\* crashes anywhere but between an attachment and its record.
EmptyIsEmpty ==
  gate = "free" /\ lapses = {} /\ "EMPTY" \in {state, RestartState} => ~attached

\* A task that reports object_held = FALSE, in a server that knew where the box
\* was, leaves no box on the arms.
ReportIsHonest ==
  opc = "leave" /\ kind \in Tasks /\ ~told /\ state # "UNKNOWN" /\ lapses = {} => ~attached

\* The latch falls only to a server that is EMPTY with nothing on its arms.
LatchFallsEmpty ==
  [][latch /\ ~latch' /\ crashes' = crashes =>
       state = "EMPTY" /\ gate = "reset" /\ (lapses = {} => ~attached)]_vars

\* A task that was told to stop, by its client or by a reset, leaves the gate,
\* from whatever phase it is in, paused or waiting for an answer.
StopsWhenTold == gate = "op" /\ (opCanceled \/ latch) ~> gate # "op"

\* The README: failure or cancellation of a reset keeps RECOVERY_REQUIRED latched.
LatchedMeansLocked == latch /\ ~pending => state = "RECOVERY_REQUIRED"
=============================================================================
