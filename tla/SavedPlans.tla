----------------------------- MODULE SavedPlans -----------------------------
(* The saved plans of src/pick_place_server.cpp and src/pick_place/saved_plan.cpp:
   plan_only goals that store a plan, the goals and services that drop all of them,
   and executeSavedPlan, which claims one and executes its steps.  Meanwhile the box
   and the table may be moved, the arms may be pushed while nothing runs, steps fail,
   pauses are continued with a new detection scene, and the remainder is planned anew.
   The operation gate lets one request run at a time; one worker. *)
EXTENDS Naturals, Sequences, SequencesExt

CONSTANTS
  MaxSerial,    \* bound: plan_only requests
  MaxMove,      \* bound: how often somebody moves the box, or the table
  MaxRevision,  \* bound: Continue scenes in one execution
  HasPrepare    \* prepare_named_target is not empty

ASSUME SavedPlansAssumption ==
  /\ MaxSerial \in Nat /\ MaxMove \in Nat /\ MaxRevision \in Nat
  /\ HasPrepare \in BOOLEAN

VARIABLES
  box, table,    \* where they are (the world)
  hands,         \* where the hands are (the world)
  attached,      \* the box hangs on the arms (the world)
  plans,         \* saved_plans_, by action
  serial,        \* saved_plan_serial_
  state,         \* state_
  pc, plan, index, released,      \* executeSavedPlan
  followTarget,  \* pick_replan_on_target_movement_, read when the goal begins
  targetMoved,   \* target_replan_pending
  sceneMoved,    \* continue_replan_pending
  revision, savedRevision,        \* detection_scene_revision_, saved_scene_revision
  requested,     \* continue_detection_stamp_ is set
  seen,          \* detection_boxes_ and detection_table_pose_: the accepted poses
  log            \* history: the milestones of this execution

world_vars == <<box, table, hands, attached>>
store_vars == <<plans, serial>>
run_vars == <<plan, index, released, followTarget, targetMoved, sceneMoved, savedRevision, log>>
scene_vars == <<revision, requested, seen>>
vars == <<world_vars, store_vars, state, pc, run_vars, scene_vars>>

Actions == {"pick", "place", "move_carry_pose", "pick_place"}
PickActions == {"pick", "pick_place"}

At(name) == [at |-> name, pose |-> 0]
Pregrasp(pose) == [at |-> "pregrasp", pose |-> pose]
Contact(pose) == [at |-> "contact", pose |-> pose]
Placed(pose) == [at |-> "placed", pose |-> pose]
Hands == [at : {"ready", "prepare", "carry", "other_carry", "clear", "astray"}, pose : {0}]
           \cup [at : {"pregrasp", "contact", "placed"}, pose : 0..MaxMove]

Steps == [name : {"prepare", "pregrasp", "approach", "attach", "carry", "place", "release",
                  "retreat", "ready"},
          kind : {"MOTION", "ATTACH", "RELEASE"}, from : Hands, to : Hands, held : BOOLEAN]

NoPlan == [id |-> 0, action |-> "none", steps |-> <<>>]
Plans == [id : 1..MaxSerial, action : Actions, pick : 0..MaxMove, place : 0..MaxMove,
          scene : 0..MaxRevision, steps : Seq(Steps)]

TypeOK ==
  /\ box \in 0..MaxMove /\ table \in 0..MaxMove /\ hands \in Hands
  /\ {attached, released, followTarget, targetMoved, sceneMoved, requested} \subseteq BOOLEAN
  /\ plans \in [Actions -> Plans \cup {NoPlan}] /\ serial \in 0..MaxSerial
  /\ state \in {"EMPTY", "HOLDING", "RECOVERY_REQUIRED"}
  /\ pc \in {"idle", "loop", "replan", "replan_paused", "step", "step_paused", "dispatch", "done"}
  /\ plan \in Plans \cup {NoPlan}
  /\ CASE pc = "idle" -> index = 0
       [] pc \in {"loop", "done"} -> index \in 1..(Len(plan.steps) + 1)
       [] OTHER -> index \in 1..Len(plan.steps)
  /\ revision \in 0..MaxRevision /\ savedRevision \in 0..MaxRevision
  /\ seen \in [box : 0..MaxMove, table : 0..MaxMove]

-----------------------------------------------------------------------------
(* The steps of a plan. *)

\* saveMotion
Motion(name, from, to, held) ==
  [name |-> name, kind |-> "MOTION", from |-> from, to |-> to, held |-> held]

Attach(from) == [name |-> "attach", kind |-> "ATTACH", from |-> from, to |-> from, held |-> FALSE]
Release(from) == [name |-> "release", kind |-> "RELEASE", from |-> from, to |-> from, held |-> TRUE]

\* savePick: preparation (unless the pick is replanned from where the arms are),
\* pregrasp, approach, attachment, carry.
PickSteps(from, prepare, pick) ==
  LET start == IF prepare THEN At("prepare") ELSE from
  IN (IF prepare THEN <<Motion("prepare", from, start, FALSE)>> ELSE <<>>)
       \o <<Motion("pregrasp", start, Pregrasp(pick), FALSE),
            Motion("approach", Pregrasp(pick), Contact(pick), FALSE),
            Attach(Contact(pick)),
            Motion("carry", Contact(pick), At("carry"), TRUE)>>

\* savePostPlace of the return: retreat and prepare only where they are still to do.
ReturnSteps(from, retreat, prepare) ==
  LET clear == IF retreat THEN At("clear") ELSE from
  IN (IF retreat THEN <<Motion("retreat", from, clear, FALSE)>> ELSE <<>>)
       \o (IF prepare THEN <<Motion("prepare", clear, At("prepare"), FALSE)>> ELSE <<>>)
       \o <<Motion("ready", IF prepare THEN At("prepare") ELSE clear, At("ready"), FALSE)>>

\* savePlace
PlaceSteps(from, place) ==
  <<Motion("place", from, Placed(place), TRUE), Release(Placed(place))>>
    \o ReturnSteps(Placed(place), TRUE, HasPrepare)

\* planCompletePath and the plan_only branches of runPick, runPlace and
\* runMoveCarryPose: the steps of a whole plan for the poses seen.
CompleteSteps(action, from, prepare, poses) ==
  CASE action = "pick" -> PickSteps(from, prepare, poses.box)
    [] action = "place" -> PlaceSteps(from, poses.table)
    [] action = "move_carry_pose" -> <<Motion("carry", from, At("other_carry"), TRUE)>>
    [] action = "pick_place" ->
         PickSteps(from, prepare, poses.box) \o PlaceSteps(At("carry"), poses.table)

\* capturePlanContext
NewPlan(action, poses) ==
  [id |-> serial + 1, action |-> action, pick |-> poses.box, place |-> poses.table, scene |-> 0,
   steps |-> CompleteSteps(action, hands, HasPrepare, poses)]

\* What a complete execution has done, in this order.
Milestones(action) ==
  LET return == (IF HasPrepare THEN <<"retreat", "prepare">> ELSE <<"retreat">>) \o <<"ready">>
  IN CASE action = "pick" -> <<"attach", "carry">>
       [] action = "place" -> <<"release">> \o return
       [] action = "move_carry_pose" -> <<"carry">>
       [] action = "pick_place" -> <<"attach", "carry", "release">> \o return

-----------------------------------------------------------------------------
Poses == [box |-> box, table |-> table]

ActionState(action) == IF action \in PickActions THEN "EMPTY" ELSE "HOLDING"
NoPlans == [a \in Actions |-> NoPlan]

Init ==
  /\ box = 0 /\ table = 0 /\ hands = At("ready") /\ attached = FALSE
  /\ plans = NoPlans /\ serial = 0 /\ state = "EMPTY" /\ pc = "idle"
  /\ plan = NoPlan /\ index = 0 /\ released = FALSE
  /\ followTarget = FALSE /\ targetMoved = FALSE /\ sceneMoved = FALSE
  /\ revision = 0 /\ savedRevision = 0 /\ requested = FALSE
  /\ seen = [box |-> 0, table |-> 0] /\ log = <<>>

(* The world. *)

\* Somebody moves the box while it stands free, or the table.
MoveBox ==
  /\ ~attached /\ box < MaxMove /\ box' = box + 1
  /\ UNCHANGED <<table, hands, attached, store_vars, state, pc, run_vars, scene_vars>>

MoveTable ==
  /\ table < MaxMove /\ table' = table + 1
  /\ UNCHANGED <<box, hands, attached, store_vars, state, pc, run_vars, scene_vars>>

\* The arms are pushed, or sag, while no motion runs.
Drift ==
  /\ pc \in {"idle", "replan_paused", "step_paused"} /\ hands' = At("astray")
  /\ UNCHANGED <<box, table, attached, store_vars, state, pc, run_vars, scene_vars>>

-----------------------------------------------------------------------------
(* Requests other than the execution of a plan. *)

\* beginSavedRequest, the plan_only goal, finishSavedRequest.
PlanOnly(action) ==
  /\ pc = "idle" /\ serial < MaxSerial
  /\ serial' = serial + 1
  /\ \/ UNCHANGED plans
     \/ /\ state = ActionState(action)
        /\ plans' = [plans EXCEPT ![action] = NewPlan(action, Poses)]
  /\ UNCHANGED <<world_vars, state, pc, run_vars, scene_vars>>

\* A physical goal without plan_id drops the plans before it looks at anything; it
\* picks, places, or fails.
NormalGoal ==
  /\ pc = "idle" /\ plans' = NoPlans
  /\ \/ state = "EMPTY" /\ state' = "HOLDING" /\ attached' = TRUE /\ hands' = At("carry")
     \/ state = "HOLDING" /\ state' = "EMPTY" /\ attached' = FALSE /\ hands' = At("ready")
     \/ UNCHANGED <<state, hands, attached>>
     \/ state # "RECOVERY_REQUIRED" /\ state' = "RECOVERY_REQUIRED" /\ attached' \in BOOLEAN
        /\ hands' = At("astray")
  /\ UNCHANGED <<box, table, serial, pc, run_vars, scene_vars>>

\* recoverState: the operator tells what the hands hold.  A posture command and an
\* accepted profile reload drop the plans as well and change nothing else here.
RecoverState ==
  /\ pc = "idle" /\ plans' = NoPlans
  /\ \/ state' = IF attached THEN "HOLDING" ELSE "EMPTY"
     \/ UNCHANGED state
  /\ UNCHANGED <<world_vars, serial, pc, run_vars, scene_vars>>

\* executeReset, to its end or to a failure.
Reset ==
  /\ pc = "idle" /\ plans' = NoPlans
  /\ \/ state' = "EMPTY" /\ attached' = FALSE /\ hands' = At("ready")
     \/ state' = "RECOVERY_REQUIRED" /\ attached' \in {FALSE, attached} /\ hands' = At("astray")
  /\ UNCHANGED <<box, table, serial, pc, run_vars, scene_vars>>

-----------------------------------------------------------------------------
(* executeSavedPlan. *)

Begin(action) ==
  /\ plan' = plans[action] /\ index' = 1 /\ pc' = "loop"
  /\ followTarget' \in BOOLEAN
  /\ seen' = [box |-> plans[action].pick, table |-> plans[action].place]

Found(action) == pc = "idle" /\ plans[action].id > 0

Reject(action) == pc' = "idle" /\ UNCHANGED <<plan, index, followTarget, seen>>

\* Fault: a claim takes only the plan it names.
ClaimOne(action) ==
  /\ Found(action) /\ plans' = [plans EXCEPT ![action] = NoPlan]
  /\ \/ state = ActionState(action) /\ Begin(action)
     \/ Reject(action)
  /\ UNCHANGED <<world_vars, serial, state, released, targetMoved, sceneMoved, savedRevision, log,
                 revision, requested>>

\* claim; then the checks of versions, mode, state, held box, carry frame and table
\* profile, which may reject the plan that is already claimed.
Claim(action) ==
  /\ Found(action) /\ plans' = NoPlans
  /\ \/ state = ActionState(action) /\ Begin(action)
     \/ Reject(action)
  /\ UNCHANGED <<world_vars, serial, state, released, targetMoved, sceneMoved, savedRevision, log,
                 revision, requested>>

Step == plan.steps[index]
CarryOnly == plan.action = "move_carry_pose"
BeforeAttachment == plan.action \in PickActions /\ state = "EMPTY" /\ ~released

\* refreshPickTarget: a stable pose beyond the tolerance replaces the accepted one;
\* the tracker need not have one.
TargetPoses ==
  {seen} \cup IF followTarget /\ BeforeAttachment THEN {[seen EXCEPT !.box = box]} ELSE {}

\* The top of the loop: the scene is restored, the target looked at again.
Loop ==
  /\ pc = "loop" /\ index <= Len(plan.steps)
  /\ \E poses \in TargetPoses :
       /\ seen' = poses
       /\ targetMoved' = (targetMoved \/ poses # seen)
       /\ pc' = IF sceneMoved \/ targetMoved' THEN "replan" ELSE "step"
  /\ UNCHANGED <<world_vars, store_vars, state, plan, index, released, followTarget, sceneMoved,
                 savedRevision, revision, requested, log>>

\* Resets what lives as long as the call.
Leave(newState) ==
  /\ pc' = "idle" /\ state' = newState
  /\ plan' = NoPlan /\ index' = 0 /\ released' = FALSE /\ followTarget' = FALSE
  /\ targetMoved' = FALSE /\ sceneMoved' = FALSE /\ revision' = 0 /\ savedRevision' = 0
  /\ requested' = FALSE /\ seen' = [box |-> 0, table |-> 0] /\ log' = <<>>

\* An error at the top of the loop, or a cancel there or in the replanning phase; an
\* exception, which the goal's handler turns into recovery.
LoopFails ==
  /\ pc \in {"loop", "replan", "replan_paused"}
  /\ Leave(state) \/ Leave("RECOVERY_REQUIRED")
  /\ UNCHANGED <<world_vars, store_vars>>

-----------------------------------------------------------------------------
(* rebuildSavedRemainder. *)

\* Fault: the stages that are done are done again.
ReleasedRemainder ==
  {[place |-> plan.place, steps |-> ReturnSteps(hands, TRUE, HasPrepare)]}

\* After the release: what is left of the return, from where the arms are.
RemainingReturn ==
  {[place |-> plan.place,
    steps |-> ReturnSteps(hands, Step.name = "retreat",
                \E i \in index..Len(plan.steps) : plan.steps[i].name = "prepare")]}

\* Carry (unless done), and for pick_place and place the placement after it.
HeldSteps(from, carry, place) ==
  (IF carry THEN <<Motion("carry", from, At("carry"), TRUE)>> ELSE <<>>)
    \o IF plan.action = "pick" THEN <<>>
       ELSE PlaceSteps(IF carry THEN At("carry") ELSE from, place)

\* refreshPlacementTarget: an explicit request stays, a derived one follows the table.
PlaceTargets(poses) == {plan.place, poses.table}

\* Before the approach the whole pick is planned again from the measured arms; at
\* the approach or the attachment only the way to contact, and none if in contact.
RemainingPick(poses) ==
  LET pick == poses.box
      approach == <<Motion("approach", hands, Contact(pick), FALSE)>>
      attach == <<Attach(Contact(pick))>>
  IN {[place |-> place,
       steps |-> IF Step.kind = "ATTACH" /\ hands = Contact(pick)
                 THEN attach \o HeldSteps(Contact(pick), TRUE, place)
                 ELSE IF Step.kind = "ATTACH" \/ Step.name = "approach"
                 THEN approach \o attach \o HeldSteps(Contact(pick), TRUE, place)
                 ELSE CompleteSteps(plan.action, hands, FALSE, [box |-> pick, table |-> place])] :
        place \in PlaceTargets(poses)}

Remainders(poses) ==
  IF released THEN RemainingReturn
  ELSE IF state = "EMPTY" THEN RemainingPick(poses)
  ELSE {[place |-> place, steps |-> HeldSteps(hands, Step.name = "carry", place)] :
          place \in PlaceTargets(poses)}

\* Fault: the new plan is entered where the old one was left.
AdoptKeepingIndex(remainder, poses) ==
  /\ plan' = [plan EXCEPT !.pick = IF BeforeAttachment THEN poses.box ELSE plan.pick,
                          !.place = remainder.place, !.steps = remainder.steps,
                          !.scene = revision]
  /\ UNCHANGED index

Adopt(remainder, poses) ==
  /\ plan' = [plan EXCEPT !.pick = IF BeforeAttachment THEN poses.box ELSE plan.pick,
                          !.place = remainder.place, !.steps = remainder.steps,
                          !.scene = revision]
  /\ index' = 1

\* prepareContinueScene inside a phase: a fresh scene, once per Continue; moving the
\* carry pose only consumes the request.
AcquireScene ==
  /\ requested /\ pc \in {"replan", "step"}
  /\ requested' = FALSE
  /\ IF CarryOnly THEN UNCHANGED <<revision, seen>>
     ELSE /\ revision' = revision + 1
          /\ seen' = [seen EXCEPT !.table = table,
                                  !.box = IF BeforeAttachment THEN box ELSE seen.box]
  /\ UNCHANGED <<world_vars, store_vars, state, pc, run_vars>>

\* The replanning phase.
Rebuild ==
  /\ pc = "replan" /\ ~requested
  /\ \E poses \in TargetPoses : \E remainder \in Remainders(poses) :
       seen' = poses /\ Adopt(remainder, poses)
  /\ targetMoved' = FALSE /\ sceneMoved' = FALSE /\ savedRevision' = revision /\ pc' = "step"
  /\ UNCHANGED <<world_vars, store_vars, state, released, followTarget, revision, requested, log>>

RebuildFails ==
  /\ pc = "replan" /\ pc' = "replan_paused"
  /\ seen' \in IF requested THEN {seen} ELSE TargetPoses
  /\ UNCHANGED <<world_vars, store_vars, state, run_vars, revision, requested>>

-----------------------------------------------------------------------------
(* One step of the plan. *)

\* Fault: a plan goes on whatever scene was accepted.
SceneIsNeverNew == FALSE

\* saved_scene_revision against the revision of the accepted scene.
SceneIsNew == ~CarryOnly /\ savedRevision # revision

\* The attempt finds that the remainder must be planned again.
StepDeferred ==
  /\ pc = "step" /\ ~requested
  /\ \/ SceneIsNew /\ sceneMoved' = TRUE /\ UNCHANGED <<targetMoved, seen>>
     \/ /\ ~SceneIsNew /\ ~Step.held
        /\ \E poses \in TargetPoses \ {seen} : seen' = poses
        /\ targetMoved' = TRUE /\ UNCHANGED sceneMoved
  /\ pc' = "loop"
  /\ UNCHANGED <<world_vars, store_vars, state, plan, index, released, followTarget, savedRevision,
                 revision, requested, log>>

\* prepareSavedMotion with SEPARATE: recorded start, attachment and path must fit the
\* measured state; the path itself is not changed.
MotionFits == hands = Step.from /\ Step.held = attached

\* validateSavedReleaseRemainder: the rest of the plan is the return of empty arms,
\* the retreat first; each motion is replayed from where the one before it ends.
ReturnFollows ==
  /\ index < Len(plan.steps) /\ plan.steps[index + 1].name = "retreat"
  /\ \A i \in (index + 1)..Len(plan.steps) : plan.steps[i].kind = "MOTION" /\ ~plan.steps[i].held

\* The checks of an attachment or a release: recorded start, collision, contact.
CheckpointFits ==
  /\ hands = Step.from
  /\ hands = IF Step.kind = "ATTACH" THEN Contact(plan.pick) ELSE Placed(plan.place)
  /\ Step.kind = "RELEASE" => ReturnFollows

StepChecked ==
  /\ pc = "step" /\ ~requested /\ ~SceneIsNew
  /\ IF Step.kind = "MOTION" THEN MotionFits ELSE CheckpointFits
  /\ pc' = "dispatch"
  /\ UNCHANGED <<world_vars, store_vars, state, run_vars, scene_vars>>

\* Anything that fails before a dispatch pauses the phase, an attachment request that
\* could not be sent included; a motion counts as dispatched when it is handed over.
StepFails ==
  /\ pc = "step" \/ (pc = "dispatch" /\ Step.kind # "MOTION")
  /\ pc' = "step_paused"
  /\ UNCHANGED <<world_vars, store_vars, state, run_vars, scene_vars>>

\* Continue: the service notes the time, the phase starts again.
Continue ==
  /\ \/ pc = "step_paused" /\ pc' = "step"
     \/ pc = "replan_paused" /\ pc' = "replan"
  /\ revision < MaxRevision
  /\ requested' = TRUE
  /\ UNCHANGED <<world_vars, store_vars, state, run_vars, revision, seen>>

\* A step that ends without success ends the task; with a box in the hands, or
\* after an exception, recovery is needed.
StepCanceled ==
  /\ pc \in {"step", "step_paused"}
  /\ Leave("RECOVERY_REQUIRED") \/ (state # "HOLDING" /\ Leave(state))
  /\ UNCHANGED <<world_vars, store_vars>>

Logged(name) ==
  name \in {"attach", "carry", "release", "retreat", "ready"} \/ (name = "prepare" /\ released)

StepDone ==
  /\ pc' = "loop" /\ index' = index + 1
  /\ log' = IF Logged(Step.name) THEN Append(log, Step.name) ELSE log
  /\ UNCHANGED <<box, table, store_vars, plan, followTarget, targetMoved, sceneMoved, savedRevision,
                 scene_vars>>

ExecuteMotion ==
  /\ pc = "dispatch" /\ Step.kind = "MOTION"
  /\ hands' = Step.to /\ StepDone
  /\ UNCHANGED <<attached, state, released>>

AttachBox ==
  /\ pc = "dispatch" /\ Step.kind = "ATTACH"
  /\ attached' = TRUE /\ state' = "HOLDING" /\ StepDone
  /\ UNCHANGED <<hands, released>>

DetachBox ==
  /\ pc = "dispatch" /\ Step.kind = "RELEASE"
  /\ attached' = FALSE /\ state' = "EMPTY" /\ released' = TRUE /\ StepDone
  /\ UNCHANGED hands

\* Dispatched and not confirmed, or canceled at its end.
DispatchFails ==
  /\ pc = "dispatch"
  /\ IF Step.kind = "MOTION" THEN hands' \in {At("astray"), Step.to} /\ UNCHANGED attached
     ELSE attached' \in BOOLEAN /\ UNCHANGED hands
  /\ Leave("RECOVERY_REQUIRED") /\ UNCHANGED <<box, table, store_vars>>

\* The end of the loop.
Complete ==
  /\ pc = "loop" /\ index > Len(plan.steps) /\ pc' = "done"
  /\ state' = IF released THEN "EMPTY" ELSE "HOLDING"
  /\ UNCHANGED <<world_vars, store_vars, run_vars, scene_vars>>

Return == pc = "done" /\ Leave(state) /\ UNCHANGED <<world_vars, store_vars>>

-----------------------------------------------------------------------------
World == MoveBox \/ MoveTable \/ Drift

Request ==
  (\E a \in Actions : PlanOnly(a) \/ Claim(a)) \/ NormalGoal \/ RecoverState \/ Reset

Replan == Loop \/ LoopFails \/ AcquireScene \/ Rebuild \/ RebuildFails

Execute ==
  StepDeferred \/ StepChecked \/ StepFails \/ Continue \/ StepCanceled \/ ExecuteMotion
    \/ AttachBox \/ DetachBox \/ DispatchFails \/ Complete \/ Return

Next == World \/ Request \/ Replan \/ Execute

Spec == Init /\ [][Next]_vars

-----------------------------------------------------------------------------
\* A plan's number is good for one execution, and only while nothing else was executed
\* and the grip is as it was when the plan was made (SavedPlanStore::claim, and the
\* clear of every goal and service that moves the robot).
Tokens == INSTANCE OneShotPlans WITH
  usable <- {plans[a].id : a \in Actions} \ {0},
  spent <- (1..serial) \ {plans[a].id : a \in Actions},
  running <- plan.id,
  grip <- attached

OneShot == Tokens!Spec

\* What is dispatched starts where the arms are, with the grip it was planned for, on
\* the scene last accepted (a carry change excepted), and grasps the box where it was
\* last accepted, through any number of moves, pauses and replans.
StepsFitWorld ==
  [][pc = "dispatch" /\ <<hands, attached, index>>' # <<hands, attached, index>> =>
       /\ hands = Step.from /\ attached = Step.held
       /\ CarryOnly \/ plan.scene = revision
       /\ Step.kind = "ATTACH" => hands = Contact(seen.box)]_vars

\* Whatever was replanned, an execution does each of its milestones once and in order,
\* and reports success only with all of them done and the state that is true.
WorkDoneOnce ==
  /\ pc # "idle" => IsPrefix(log, Milestones(plan.action))
  /\ pc = "done" => log = Milestones(plan.action) /\ (state = "HOLDING") = attached
=============================================================================
