---------------------------- MODULE DetectionScene ----------------------------
(* The detection scene of one task of src/pick_place_server.cpp: what the trackers
   saw, the snapshot the server keeps of it (detection_boxes_, the table poses),
   the objects PlanningSceneManager retains, and MoveIt's world, which a task's
   planners must all see alike.  A phase of the task is tried, retried, paused and
   continued; every call to MoveIt may be refused, or done and then not confirmed.

   Time is counted in requests: an observation carries the number of requests
   (goal, then every Continue) that precede its stamp, so it was made after
   request r iff at >= r. *)
EXTENDS Naturals, Sequences

CONSTANTS
  Boxes,          \* instances of the localizer
  NoBox,
  Poses,          \* bound: poses a table is seen in, or a box moves through, per request
  MaxContinues    \* bound: Continues of one task

ASSUME SceneAssumption ==
  /\ NoBox \notin Boxes /\ (Boxes \cup {NoBox}) \cap {"main", "other"} = {}
  /\ Poses \in Nat \ {0} /\ MaxContinues \in Nat

VARIABLES
  state,       \* ManipulationState
  goal,        \* kind of task, and whether its place is derived from the table
  disposition, \* the controller's object_disposition
  stage, pc,   \* phase of the task, and where its attempt stands
  epoch,       \* requests so far
  request,     \* detection_request_stamp_
  continueStamp,  \* continue_detection_stamp_ (0: none)
  active, selected,         \* active_box_instance_id_, action_box_selected_
  captured, boxes, tables,  \* detection_scene_captured_, detection_boxes_, the table poses
  target,      \* tracked_box of the Pick
  placement,   \* the table pose place_pose was derived from
  behind,      \* the users of the snapshot whose scene revision is an older one
  live, attached,      \* MoveIt's world objects and attached body
  retaining, retained  \* retained_objects_

task_vars == <<goal, disposition>>
time_vars == <<epoch, request, continueStamp>>
snapshot_vars == <<captured, boxes, tables>>
user_vars == <<active, selected, target, placement, behind>>
scene_vars == <<live, attached, retaining, retained>>
vars == <<state, task_vars, stage, pc, time_vars, snapshot_vars, user_vars, scene_vars>>

Tables == {"main", "other"}    \* the selected table profile and another one
Objects == Boxes \cup Tables
Missing == [at |-> 0, pose |-> 0]
Held == [at |-> 0, pose |-> Poses + 1]    \* where the hands left the box
Placed == [at |-> 0, pose |-> Poses + 2]  \* place_pose
Old == [at |-> 0, pose |-> 1]             \* seen before the request that counts
Seen == [at : 0..MaxContinues + 1, pose : 1..Poses]
Observations == Seen \cup {Missing, Held, Placed}
Nothing(objects) == [o \in objects |-> Missing]
Kinds == {"pick", "place", "pick_place", "move_carry_pose", "reset"}

PickStages == <<"select_box", "pick_scene", "pick", "attach", "attach_scene", "carry">>
PlaceStages == <<"scene", "place", "release", "release_scene", "return">>
Stages(g) ==
  LET target_stage == IF g.auto THEN <<"place_target">> ELSE <<>>
  IN CASE g.kind = "pick" -> PickStages
       [] g.kind = "place" -> target_stage \o PlaceStages
       [] g.kind = "pick_place" -> <<"select">> \o target_stage \o PickStages \o PlaceStages
       [] g.kind = "move_carry_pose" -> <<"carry_scene", "carry">>
       [] g.kind = "reset" -> <<"reset_scene", "reset">>
Name == Stages(goal)[stage]

TypeOK ==
  /\ state \in {"EMPTY", "HOLDING", "RECOVERY_REQUIRED"}
  /\ goal \in [kind : Kinds, auto : BOOLEAN]
  /\ disposition \in {"not_attached", "attached", "released", "uncertain"}
  /\ stage \in 1..Len(Stages(goal)) /\ pc \in {"idle", "attempt", "body", "plan", "failed", "paused"}
  /\ epoch \in 1..MaxContinues + 1 /\ request \in 1..epoch /\ continueStamp \in 0..epoch
  /\ active \in Boxes \cup {NoBox} /\ attached \in Boxes \cup {NoBox}
  /\ {selected, captured, retaining} \subseteq BOOLEAN
  /\ boxes \in [Boxes -> Observations] /\ tables \in [Tables -> Seen \cup {Missing}]
  /\ target \in Observations /\ placement \in Seen \cup {Missing}
  /\ behind \subseteq {"pick", "place"}
  /\ live \in [Objects -> Observations] /\ retained \in [Objects -> Observations]
  /\ captured => retaining

Init ==
  /\ state = "EMPTY" /\ disposition = "not_attached" /\ stage = 1 /\ pc = "idle"
  /\ goal = [kind |-> "reset", auto |-> FALSE]
  /\ epoch = 1 /\ request = 1 /\ continueStamp = 0
  /\ active = NoBox /\ selected = FALSE /\ target = Missing /\ placement = Missing /\ behind = {}
  /\ captured = FALSE /\ boxes = Nothing(Boxes) /\ tables = Nothing(Tables)
  /\ live = Nothing(Objects) /\ attached = NoBox
  /\ retaining = FALSE /\ retained = Nothing(Objects)

-----------------------------------------------------------------------------
(* The trackers: stablePose, freshPoses and waitForStablePose with a not-before
   stamp.  Messages may be late or lost: what is there is any fresh observation made
   after the request, or nothing. *)
BoxesAfter(since) == [at : since..epoch, pose : {1}]
TablesAfter(since) == [at : since..epoch, pose : 1..Poses]

(* The planning scene *)

\* PlanningSceneManager::snapshot: the retained objects in place of the live ones.
View ==
  [o \in Objects |-> IF ~retaining THEN live[o] ELSE IF o = attached THEN Missing ELSE retained[o]]

\* buildDetectionSceneDiff: what it adds and what it removes, on a map of objects.
Replaced(objects, observed, kept) ==
  LET removed == {o \in Objects \ kept : View[o] # Missing}
  IN [o \in Objects |-> IF observed[o] # Missing \/ o \in removed THEN observed[o] ELSE objects[o]]

\* An attached body is kept, unless its release is confirmed; no observation may
\* name an object that is kept.
Kept(protected, confirmed) ==
  IF confirmed \/ attached = NoBox THEN protected ELSE protected \cup {attached}

\* updateDetectionScene, which changes MoveIt and the retained objects even when the
\* synchronization after it fails; then, if it gets that far, retainDetectionObjects.
UpdateScene(observed, protected, confirmed, retain) ==
  LET kept == Kept(protected, confirmed)
  IN /\ \A o \in kept : observed[o] = Missing
     /\ attached' = IF confirmed THEN NoBox ELSE attached
     /\ live' = Replaced(live, observed, kept)
     /\ retained' = IF retaining THEN Replaced(retained, observed, kept)
                    ELSE IF retain THEN live' ELSE retained
     /\ retaining' = (retaining \/ retain)

\* applyBox
ApplyBox(where) ==
  /\ live' = [live EXCEPT ![active] = where]
  /\ retained' = IF retaining THEN [retained EXCEPT ![active] = where] ELSE retained
  /\ UNCHANGED <<attached, retaining>>

(* What an acquisition reads *)

\* collectFreshBoxes: all boxes seen since the request, among them the required one.
BoxReadings(since, required) ==
  {found \in [Boxes -> BoxesAfter(since) \cup {Missing}] : required = NoBox \/ found[required] # Missing}

\* collectFreshTable: a pose this snapshot already accepted stays; a required table
\* is seen after the request, an optional one whenever it was last seen.
TableReading(t, since, known) ==
  IF known[t] # Missing THEN {known[t]}
  ELSE TablesAfter(since) \cup IF t = "main" /\ goal.auto THEN {} ELSE {Missing, Old}
TableReadings(since, known) ==
  {[t \in Tables |-> IF t = "main" THEN main ELSE other] :
     main \in TableReading("main", since, known), other \in TableReading("other", since, known)}

\* The box the task works on is no obstacle.
Obstacles(found, seen, taskBox) ==
  [o \in Objects |-> IF o \in Tables THEN seen[o] ELSE IF o = taskBox THEN Missing ELSE found[o]]

-----------------------------------------------------------------------------
(* The task and its phases *)

\* beginTask and freezeDetectionScene
Begin(kind) ==
  /\ pc = "idle"
  /\ CASE kind \in {"pick", "pick_place"} -> state = "EMPTY"
       [] kind \in {"place", "move_carry_pose"} -> state = "HOLDING"
       [] OTHER -> TRUE
  /\ \E auto \in BOOLEAN :
       /\ kind \notin {"place", "pick_place"} => ~auto
       /\ goal' = [kind |-> kind, auto |-> auto]
  /\ disposition' = CASE kind = "reset" -> "released"
                      [] state = "HOLDING" /\ kind # "reset" -> "attached"
                      [] OTHER -> "not_attached"
  /\ state' = IF kind = "reset" THEN "RECOVERY_REQUIRED" ELSE state
  /\ stage' = 1 /\ pc' = "attempt"
  /\ UNCHANGED <<time_vars, snapshot_vars, user_vars, scene_vars>>

\* The end of the task releases the snapshot; what was seen is now old.
End(final) ==
  /\ state' = final /\ pc' = "idle" /\ stage' = 1
  /\ epoch' = 1 /\ request' = 1 /\ continueStamp' = 0
  /\ captured' = FALSE /\ boxes' = Nothing(Boxes) /\ tables' = Nothing(Tables)
  /\ selected' = FALSE /\ target' = Missing /\ placement' = Missing /\ behind' = {}
  /\ retaining' = FALSE /\ retained' = Nothing(Objects)
  /\ live' = [o \in Objects |-> IF live[o] = Missing THEN Missing ELSE Old]
  /\ UNCHANGED <<goal, disposition, active, attached>>

Succeeded == stage' = stage + 1 /\ pc' = "attempt" /\ UNCHANGED <<state, task_vars, time_vars>>
Failed == pc' = "failed" /\ UNCHANGED <<state, task_vars, stage, time_vars>>
Plans == pc' = "plan" /\ UNCHANGED <<state, task_vars, stage, time_vars>>

PickTarget == goal.kind \in {"pick", "pick_place"} /\ disposition = "not_attached"

-----------------------------------------------------------------------------
(* prepareContinueScene, at the head of every attempt *)

NoScenePending ==
  /\ pc = "attempt" /\ pc' = "body"
  /\ continueStamp = 0 \/ goal.kind = "move_carry_pose"
  /\ continueStamp' = 0
  /\ UNCHANGED <<state, task_vars, stage, epoch, request, snapshot_vars, user_vars, scene_vars>>

\* With no box selected yet the phase itself acquires, from the new request on.
NothingSelected ==
  /\ pc = "attempt" /\ pc' = "body"
  /\ continueStamp # 0 /\ PickTarget /\ ~selected
  /\ request' = continueStamp /\ continueStamp' = 0
  /\ UNCHANGED <<state, task_vars, stage, epoch, snapshot_vars, user_vars, scene_vars>>

\* Fault: the accepted table poses outlive the Continue.
TablesKept == tables
\* The tables the acquisition starts from: none.
KnownTables == Nothing(Tables)

\* Fault: only the attached body is protected, by the scene itself.
UnprotectedTask == {}
\* The objects no Continue may touch: the box in the hands, or placed.
Protected == IF PickTarget \/ goal.kind = "reset" \/ active = NoBox THEN {} ELSE {active}

NewScene(found, seen, retain) ==
  UpdateScene(Obstacles(found, seen, IF PickTarget \/ goal.kind = "reset" THEN NoBox ELSE active),
              Protected, goal.kind = "reset", retain)

ContinueScenePending ==
  /\ pc = "attempt" /\ continueStamp # 0 /\ goal.kind # "move_carry_pose"
  /\ ~(PickTarget /\ ~selected)
  /\ request' = continueStamp

\* A new scene: every user of the snapshot finds its revision outdated.
ContinueScene ==
  /\ ContinueScenePending
  /\ \E found \in BoxReadings(continueStamp, IF PickTarget THEN active ELSE NoBox),
        seen \in TableReadings(continueStamp, KnownTables) :
       NewScene(found, seen, TRUE) /\ boxes' = found /\ tables' = seen
  /\ captured' = TRUE /\ behind' = {"pick", "place"}
  /\ pc' = "body" /\ continueStamp' = 0
  /\ UNCHANGED <<state, task_vars, stage, epoch, active, selected, target, placement>>

\* The snapshot is rolled back and the request kept; the scene may have changed.
ContinueSceneFails ==
  /\ ContinueScenePending /\ pc' = "failed"
  /\ \/ UNCHANGED scene_vars
     \/ \E found \in BoxReadings(continueStamp, IF PickTarget THEN active ELSE NoBox),
           seen \in TableReadings(continueStamp, KnownTables) : NewScene(found, seen, FALSE)
  /\ UNCHANGED <<state, task_vars, stage, epoch, continueStamp, snapshot_vars, user_vars>>

-----------------------------------------------------------------------------
(* What the phases do with the scene *)

InBody(names) == pc = "body" /\ Name \in names

\* selectBox and activateBoxProfile: a box that is seen, be it the one the goal names
\* or the only one; once a snapshot is captured, the same box again.
Select(box) ==
  /\ captured => box = active /\ boxes[box] # Missing
  /\ active' = box /\ selected' = TRUE

\* PickPlace selects before it resolves its placement.
SelectOnly ==
  /\ InBody({"select"}) /\ \E box \in Boxes : Select(box)
  /\ Succeeded
  /\ UNCHANGED <<target, placement, behind, snapshot_vars, scene_vars>>

SelectFromSnapshot ==
  /\ InBody({"select_box"}) /\ captured /\ \E box \in Boxes : Select(box) /\ target' = boxes[box]
  /\ behind' = behind \ {"pick"}
  /\ Succeeded
  /\ UNCHANGED <<placement, snapshot_vars, scene_vars>>

\* Fault: the snapshot counts before its objects are retained.
CaptureTooEarly(found, seen, taskBox, protected, confirmed, retain) ==
  /\ UpdateScene(Obstacles(found, seen, taskBox), protected, confirmed, retain)
  /\ boxes' = found /\ tables' = seen
  /\ captured' = TRUE
\* updateVisibleBoxScene: a snapshot counts once its objects are retained.
CaptureScene(found, seen, taskBox, protected, confirmed, retain) ==
  /\ UpdateScene(Obstacles(found, seen, taskBox), protected, confirmed, retain)
  /\ boxes' = found /\ tables' = seen
  /\ captured' = retain

SelectAndCapture ==
  /\ InBody({"select_box"}) /\ ~captured
  /\ \E box \in Boxes :
       /\ Select(box)
       /\ \E found \in BoxReadings(request, box), seen \in TableReadings(request, tables) :
            CaptureScene(found, seen, box, {}, FALSE, TRUE) /\ target' = found[box]
  /\ behind' = behind \ {"pick"}
  /\ Succeeded
  /\ UNCHANGED placement

\* The box is selected, the tables seen so far are kept, the scene perhaps changed.
SelectAndCaptureFails ==
  /\ InBody({"select_box"}) /\ ~captured
  /\ \E box \in Boxes :
       /\ Select(box)
       /\ \E found \in BoxReadings(request, box), seen \in TableReadings(request, tables) :
            \/ CaptureScene(found, seen, box, {}, FALSE, FALSE)
            \/ /\ tables' \in {tables, [tables EXCEPT !["main"] = seen["main"]], seen}
               /\ UNCHANGED <<captured, boxes, scene_vars>>
  /\ Failed
  /\ UNCHANGED <<target, placement, behind>>

\* waitForStableTableTagPose: the accepted pose of this snapshot, else a new one.
ResolvePlacement ==
  /\ InBody({"place_target"})
  /\ \E seen \in IF tables["main"] = Missing THEN TablesAfter(request) ELSE {tables["main"]} :
       tables' = [tables EXCEPT !["main"] = seen] /\ placement' = seen
  /\ Succeeded
  /\ UNCHANGED <<captured, boxes, active, selected, target, behind, scene_vars>>

\* The first scene of a Place or of a Reset.
CapturesFor == IF Name = "scene" THEN active ELSE NoBox
TakeScene ==
  /\ InBody({"scene", "reset_scene"})
  /\ IF captured THEN UNCHANGED <<snapshot_vars, scene_vars>>
     ELSE \E found \in BoxReadings(request, NoBox), seen \in TableReadings(request, tables) :
            CaptureScene(found, seen, CapturesFor, {CapturesFor} \ {NoBox}, Name = "reset_scene", TRUE)
  /\ Succeeded /\ UNCHANGED user_vars

TakeSceneFails ==
  /\ InBody({"scene", "reset_scene"}) /\ ~captured
  /\ \E found \in BoxReadings(request, NoBox), seen \in TableReadings(request, tables) :
       \/ CaptureScene(found, seen, CapturesFor, {CapturesFor} \ {NoBox}, Name = "reset_scene", FALSE)
       \/ /\ tables' \in {tables, [tables EXCEPT !["main"] = seen["main"]], seen}
          /\ UNCHANGED <<captured, boxes, scene_vars>>
  /\ Failed /\ UNCHANGED user_vars

\* clearCarryObstacles, then retainDetectionObjects: a carry needs no detection.
ClearScene(retain) ==
  /\ InBody({"carry_scene"})
  /\ UpdateScene(Nothing(Objects), {attached} \ {NoBox}, FALSE, retain)
  /\ IF retain THEN Succeeded ELSE Failed
  /\ UNCHANGED <<snapshot_vars, user_vars>>

-----------------------------------------------------------------------------
(* validate_pick_scene: the Pick follows a newer snapshot, then a box that moved. *)

\* Fault: the Pick goes on with the box it selected.
TargetAsSelected == target
PickedBox == IF "pick" \in behind THEN boxes[active] ELSE target
PickFollows == target' = PickedBox /\ behind' = behind \ {"pick"}

\* refreshPickTarget, where the parameter asks for it: the attempt ends, the next one plans for the new pose.
BoxMoved ==
  /\ InBody({"pick_scene", "pick", "attach"}) /\ PickedBox.pose < Poses
  /\ LET now == [at |-> epoch, pose |-> PickedBox.pose + 1]
     IN  /\ ApplyBox(now) /\ boxes' = [boxes EXCEPT ![active] = now] /\ target' = now
  /\ behind' = behind \ {"pick"}
  /\ Failed
  /\ UNCHANGED <<active, selected, placement, captured, tables>>

ShowBox(done) ==
  /\ InBody({"pick_scene"}) /\ PickFollows /\ ApplyBox(PickedBox)
  /\ IF done THEN Succeeded ELSE Failed
  /\ UNCHANGED <<active, selected, placement, snapshot_vars>>

PlanPick ==
  /\ InBody({"pick", "attach"}) /\ PickFollows
  /\ Plans
  /\ UNCHANGED <<active, selected, placement, snapshot_vars, scene_vars>>

\* attachBox: MoveIt's world object becomes the attached body, as it stands there.
\* A request that was applied and not confirmed is only verified the next time.
AttachBox(done) ==
  /\ InBody({"attach_scene"})
  /\ IF attached = active THEN done /\ UNCHANGED <<live, attached>>
     ELSE /\ live[active] # Missing
          /\ attached' = active /\ live' = [live EXCEPT ![active] = Missing]
  /\ IF done THEN Succeeded ELSE Failed
  /\ UNCHANGED <<snapshot_vars, user_vars, retaining, retained>>

\* place_attempt: a newer snapshot gives a new table pose to derive the place from.
PlanPlace ==
  /\ InBody({"place"}) /\ captured
  /\ placement' = IF "place" \in behind /\ goal.auto THEN tables["main"] ELSE placement
  /\ behind' = behind \ {"place"}
  /\ Plans
  /\ UNCHANGED <<active, selected, target, snapshot_vars, scene_vars>>

\* refreshMotionState and validateRetainedScene, then planning.  A carry or a reset
\* has a snapshot by then without asking.
PlanMotion ==
  /\ InBody({"carry", "release", "return", "reset"})
  /\ captured \/ goal.kind = "move_carry_pose"
  /\ Plans
  /\ UNCHANGED <<snapshot_vars, user_vars, scene_vars>>

\* placeBox: detachBox leaves the box in the world, applyBox puts it where it was
\* placed; each may be the last that was done.
PlaceBox(done) ==
  /\ InBody({"release_scene"})
  /\ attached' = NoBox
  /\ \/ /\ ~done /\ attached # NoBox
        /\ live' = [live EXCEPT ![active] = Held] /\ UNCHANGED <<retaining, retained>>
     \/ /\ live' = [live EXCEPT ![active] = Placed]
        /\ retained' = [retained EXCEPT ![active] = Placed] /\ UNCHANGED retaining
  /\ IF done THEN Succeeded ELSE Failed
  /\ UNCHANGED <<snapshot_vars, user_vars>>

-----------------------------------------------------------------------------
(* The ends of an attempt *)

FinalState == CASE goal.kind \in {"pick", "move_carry_pose"} -> "HOLDING" [] OTHER -> "EMPTY"

\* After the carry of a PickPlace, runPlace derives the place again.
Carried ==
  /\ placement' = IF goal.auto THEN tables["main"] ELSE placement
  /\ behind' = behind \ {"place"}
  /\ UNCHANGED <<active, selected, target>>

PlannedAndMoved ==
  /\ pc = "plan" /\ Name \notin {"attach", "release"}
  /\ IF stage = Len(Stages(goal)) THEN End(FinalState)
     ELSE /\ Succeeded
          /\ IF Name = "carry" THEN Carried ELSE UNCHANGED user_vars
          /\ UNCHANGED <<snapshot_vars, scene_vars>>

\* The physical attach or detach, confirmed, or dispatched and uncertain.
AttachOrDetach ==
  /\ pc = "plan" /\ Name \in {"attach", "release"}
  /\ disposition' = IF Name = "attach" THEN "attached" ELSE "released"
  /\ state' = IF Name = "attach" THEN "HOLDING" ELSE "EMPTY"
  /\ stage' = stage + 1 /\ pc' = "attempt"
  /\ UNCHANGED <<goal, time_vars, snapshot_vars, user_vars, scene_vars>>
DispatchUncertain ==
  /\ pc = "plan" /\ Name \in {"attach", "release"} /\ End("RECOVERY_REQUIRED")

\* Anything else that fails: feedback, a refusal, the deadline, the motion.
AttemptFails ==
  /\ pc \in {"attempt", "body", "plan"}
  /\ Failed
  /\ UNCHANGED <<snapshot_vars, user_vars, scene_vars>>

FailedStates ==
  CASE Name \in {"attach_scene", "release", "release_scene"} -> {"RECOVERY_REQUIRED"}
    [] Name \in {"carry", "place"} -> {"HOLDING", "RECOVERY_REQUIRED"}
    [] OTHER -> {state}

\* PhaseRetryController::run, seen from here.
RetryOrPause ==
  /\ pc = "failed" /\ pc' \in {"attempt", "paused"}
  /\ UNCHANGED <<state, task_vars, stage, time_vars, snapshot_vars, user_vars, scene_vars>>
Continue ==
  /\ pc = "paused" /\ pc' = "attempt" /\ epoch <= MaxContinues
  /\ epoch' = epoch + 1 /\ continueStamp' = epoch + 1
  /\ UNCHANGED <<state, task_vars, stage, request, snapshot_vars, user_vars, scene_vars>>
GiveUp == pc \in {"failed", "paused"} /\ \E final \in FailedStates : End(final)

Next ==
  \/ \E kind \in Kinds : Begin(kind)
  \/ NoScenePending \/ NothingSelected \/ ContinueScene \/ ContinueSceneFails
  \/ SelectOnly \/ SelectFromSnapshot \/ SelectAndCapture \/ SelectAndCaptureFails
  \/ ResolvePlacement \/ TakeScene \/ TakeSceneFails
  \/ BoxMoved \/ PlanPick \/ PlanPlace \/ PlanMotion
  \/ \E done \in BOOLEAN : ClearScene(done) \/ ShowBox(done) \/ AttachBox(done) \/ PlaceBox(done)
  \/ PlannedAndMoved \/ AttachOrDetach \/ DispatchUncertain \/ AttemptFails
  \/ RetryOrPause \/ Continue \/ GiveUp

Spec == Init /\ [][Next]_vars

-----------------------------------------------------------------------------
(* Properties *)

OwnBox == IF goal.kind # "reset" /\ disposition \in {"attached", "released"} THEN active ELSE NoBox

\* Whenever a task plans, the objects its planners see are the snapshot the server
\* keeps: the boxes and tables that were accepted together, at their poses there,
\* and the task's own box where the task has it: at the pose the Pick plans for, on
\* the arm, or placed.  An automatic place is derived from the table in that scene.
SceneIsSnapshot ==
  pc = "plan" =>
    /\ \A b \in Boxes \ {OwnBox} : View[b] = boxes[b]
    /\ \A t \in Tables : View[t] = tables[t]
    /\ PickTarget => target = boxes[active]
    /\ attached = IF disposition = "attached" THEN active ELSE NoBox
    /\ disposition = "attached" => View[active] = Missing
    /\ goal.kind # "reset" /\ disposition = "released" => View[active] = Placed
    /\ Name = "place" /\ goal.auto => placement = View["main"]

\* Nothing seen before the goal, or before its last Continue, is planned with
\* (README "Waiting for tag detections"): neither a box nor a required table nor an
\* automatic place; optional tables may be older, a carry needs none.
ScenePostdatesRequest ==
  pc = "plan" /\ goal.kind # "move_carry_pose" =>
    /\ \A b \in Boxes \ {OwnBox} : View[b] # Missing => View[b].at = epoch
    /\ goal.auto => View["main"].at = epoch
    /\ Name = "place" /\ goal.auto => placement.at = epoch

\* While a box is in the hands, or placed and not yet left behind, no acquisition of
\* a scene detaches, removes or moves it in MoveIt; a Reset lets go of everything.
TaskBoxUndisturbed ==
  [][/\ OwnBox # NoBox /\ pc \in {"attempt", "body"}
     /\ pc = "body" => Name \notin {"attach_scene", "release_scene"}
     => attached' = attached /\ View'[OwnBox] = View[OwnBox] /\ live'[OwnBox] = live[OwnBox]]_vars
=============================================================================
