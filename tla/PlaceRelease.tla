----------------------------- MODULE PlaceRelease -----------------------------
(* runPlace of src/pick_place_server.cpp from the transport to the end of the
   return: the place phase, the release phase with its ReleaseCheckpoint, and the
   stages of PostPlaceProgress.  One worker; an attempt may fail at every check
   (feedback, scene, deadline, cancel), and between two attempts of a phase a
   Continue may have brought a new detection scene.  Planners and motions succeed
   or not; the measured arms are where the last motion left them. *)
EXTENDS Naturals, Sequences

CONSTANT MaxRevision   \* bound: Continue scenes accepted in this task

ASSUME RevisionAssumption == MaxRevision \in Nat

VARIABLES
  p2p,          \* motion_planning_mode is POSE_TO_POSE
  tagDerived,   \* the request asks for the tag-derived pose, which each scene gives anew
  hasPrepare,   \* prepare_named_target is not empty
  preflight,    \* place_release_preflight_enabled
  pc,
  revision,     \* detection_scene_revision_
  target,       \* place_pose and the revision it is for (place_scene_revision)
  scope,        \* place_scope
  selected,     \* selected_place_pose
  retreatPlan,  \* the retreat in saved_return, and cached_retreat_start
  arms,         \* where the hands are (the world)
  measured,     \* the state the checkpoint looked at
  correctionPending,
  attached,     \* the box hangs on the arms (the world)
  sceneBox,     \* where the planning scene has the released box
  stage, plan, index, valid,   \* PostPlaceProgress
  cacheAvailable,              \* retreat_cache_available
  \* history, for the properties
  checked,      \* the arms and the revision of the last accepted check
  reached       \* named places of the return reached since the release

config_vars == <<p2p, tagDerived, hasPrepare, preflight>>
target_vars == <<target, scope, selected, retreatPlan>>
checkpoint_vars == <<measured, correctionPending, checked>>
progress_vars == <<stage, plan, index, valid, cacheAvailable, reached>>
vars == <<config_vars, pc, revision, target_vars, arms, checkpoint_vars, attached, sceneBox,
          progress_vars>>

\* A pose is a scene's target (even) or a place beside it (odd); 0 stands for none.
Target(rev) == 2 * (rev + 1)
Beside(pose) == pose + 1
Poses == 2..(2 * MaxRevision + 3)

\* "place" and "near" name a pose: there, or there but out of the contact tolerance.
Hands == [at : {"carry", "astray", "clear", "via", "prepare", "ready"}, pose : {0}]
           \cup [at : {"place", "near"}, pose : Poses]
At(name) == [at |-> name, pose |-> 0]
AtPose(pose) == [at |-> "place", pose |-> pose]
Near(pose) == [at |-> "near", pose |-> pose]

Segments == [from : Hands, to : Hands, retreat : BOOLEAN, revision : 0..MaxRevision]
NoSegment == [retreat |-> FALSE]
NotChecked == [revision |-> MaxRevision + 1]
Stages == {"retreat", "prepare", "ready", "complete"}

TypeOK ==
  /\ {p2p, tagDerived, hasPrepare, preflight, correctionPending, attached, valid,
      cacheAvailable} \subseteq BOOLEAN
  /\ pc \in {"place", "move", "release", "check", "correct", "refresh", "recheck", "detach",
             "release_scene", "stage", "segment", "measured", "end"}
  /\ revision \in 0..MaxRevision
  /\ target \in [pose : Poses, revision : 0..MaxRevision]
  /\ scope \in {"ADAPTIVE", "FIXED_POSE"} /\ selected \in Poses
  /\ retreatPlan \in Segments \cup {NoSegment}
  /\ arms \in Hands /\ measured \in Hands
  /\ sceneBox \in Poses \cup {0}
  /\ stage \in Stages /\ plan \in Seq(Segments) /\ Len(plan) <= 2 /\ index \in 0..2
  /\ checked \in [arms : Hands, revision : 0..MaxRevision] \cup {NotChecked}
  /\ reached \subseteq {"clear", "prepare", "ready"}

Init ==
  /\ p2p \in BOOLEAN /\ tagDerived \in BOOLEAN /\ hasPrepare \in BOOLEAN /\ preflight \in BOOLEAN
  /\ pc = "place" /\ revision = 0
  /\ target = [pose |-> Target(0), revision |-> 0] /\ selected = Target(0)
  /\ scope = "ADAPTIVE" /\ retreatPlan = NoSegment
  /\ arms = At("carry") /\ measured = At("carry")
  /\ correctionPending = FALSE /\ checked = NotChecked
  /\ attached = TRUE /\ sceneBox = 0
  /\ stage = "retreat" /\ plan = <<>> /\ index = 0 /\ valid = FALSE /\ cacheAvailable = TRUE
  /\ reached = {}

Go(here, next) == pc = here /\ pc' = next

\* Where a failed attempt of the running phase leaves the worker.
BetweenAttempts == {"place", "release", "release_scene", "stage"}

-----------------------------------------------------------------------------
(* Between attempts: prepareContinueScene, or a cancel. *)

ContinueScene ==
  /\ pc \in BetweenAttempts /\ revision < MaxRevision
  /\ revision' = revision + 1
  /\ UNCHANGED <<config_vars, pc, target_vars, arms, checkpoint_vars, attached, sceneBox,
                 progress_vars>>

EndTask ==
  /\ pc \in BetweenAttempts /\ pc' = "end"
  /\ UNCHANGED <<config_vars, revision, target_vars, arms, checkpoint_vars, attached, sceneBox,
                 progress_vars>>

\* Any check of an attempt that fails ends it and leaves everything as it was.
AttemptFails ==
  /\ \/ pc \in {"check", "correct", "refresh", "recheck", "detach"} /\ pc' = "release"
     \/ pc \in {"segment", "measured"} /\ pc' = "stage"
  /\ UNCHANGED <<config_vars, revision, target_vars, arms, checkpoint_vars, attached, sceneBox,
                 progress_vars>>

-----------------------------------------------------------------------------
(* The plans of the return. *)

Segment(from, to, retreat) ==
  [from |-> from, to |-> to, retreat |-> retreat, revision |-> revision]

\* planPostPlaceStage: the retreat is one segment; a named target is reached
\* directly or, in closed-chain mode, over a clearance.
StagePlans(s, from) ==
  IF s = "retreat" THEN {<<Segment(from, At("clear"), TRUE)>>}
  ELSE {<<Segment(from, At(s), FALSE)>>}
         \cup IF p2p THEN {}
              ELSE {<<Segment(from, At("via"), FALSE), Segment(At("via"), At(s), FALSE)>>}

\* planPostPlaceSequence: every stage from where the one before it ends.
SequencePlans(from) ==
  {retreat \o prepare \o ready :
     retreat \in StagePlans("retreat", from),
     prepare \in IF hasPrepare THEN StagePlans("prepare", At("clear")) ELSE {<<>>},
     ready \in StagePlans("ready", IF hasPrepare THEN At("prepare") ELSE At("clear"))}

-----------------------------------------------------------------------------
(* place_attempt, of the place phase and of a correction. *)

\* refreshPlacementTarget: an explicit request stays where it was first resolved.
RefreshedPose == IF tagDerived THEN Target(revision) ELSE target.pose

\* Fault: the target follows the scene whatever was accepted before.
RetargetAlways ==
  IF target.revision = revision THEN target
  ELSE [pose |-> RefreshedPose, revision |-> revision]

\* The block under place_scene_revision: a new scene gives a tag-derived target anew,
\* but not to a correction.
Retarget ==
  IF target.revision = revision THEN target
  ELSE [pose |-> IF scope = "ADAPTIVE" THEN RefreshedPose ELSE target.pose,
        revision |-> revision]

\* planAdaptivePlace: an adaptive search may settle beside the target; a pose
\* counts only together with a return from it.
PlanPlace ==
  /\ \/ Go("place", "move") \/ Go("correct", "move")
  /\ target' = Retarget
  /\ \E pose \in IF scope = "ADAPTIVE" THEN {Retarget.pose, Beside(Retarget.pose)}
                 ELSE {Retarget.pose} :
       /\ selected' = pose
       /\ \E return \in SequencePlans(AtPose(pose)) : retreatPlan' = return[1]
  /\ UNCHANGED <<config_vars, revision, scope, arms, checkpoint_vars, attached, sceneBox,
                 progress_vars>>

\* The target is taken over before the plan fails, and the saved return is gone.
PlanPlaceFails ==
  /\ \/ Go("place", "place") \/ Go("correct", "release")
  /\ \/ UNCHANGED <<target, selected>>
     \/ /\ target' = Retarget
        /\ selected' = IF target.revision = revision THEN selected ELSE Retarget.pose
  /\ retreatPlan' \in {retreatPlan, NoSegment}
  /\ UNCHANGED <<config_vars, revision, scope, arms, checkpoint_vars, attached, sceneBox,
                 progress_vars>>

\* Fault: a corrected placement counts as checked.
MoveUnchecked ==
  /\ pc = "move"
  /\ \E hands \in {AtPose(selected), Near(selected)} : arms' = hands
  /\ pc' = IF scope = "ADAPTIVE" THEN "release" ELSE "detach"
  /\ target' = [target EXCEPT !.pose = selected]
  /\ scope' = "FIXED_POSE"
  /\ correctionPending' = FALSE
  /\ checked' = NotChecked
  /\ UNCHANGED <<config_vars, revision, selected, retreatPlan, measured, attached, sceneBox,
                 progress_vars>>

\* execute(transport): the arms settle where they were told, or just beside it.
\* The pose is accepted; a correction is marked done before its fresh check.
Move ==
  /\ pc = "move"
  /\ \E hands \in {AtPose(selected), Near(selected)} : arms' = hands
  /\ pc' = IF scope = "ADAPTIVE" THEN "release" ELSE "refresh"
  /\ target' = [target EXCEPT !.pose = selected]
  /\ scope' = "FIXED_POSE"
  /\ correctionPending' = FALSE
  /\ checked' = NotChecked
  /\ UNCHANGED <<config_vars, revision, selected, retreatPlan, measured, attached, sceneBox,
                 progress_vars>>

MoveFails ==
  /\ pc = "move"
  /\ arms' = At("astray")
  /\ pc' = IF scope = "ADAPTIVE" THEN "place" ELSE "release"
  /\ checked' = NotChecked
  /\ UNCHANGED <<config_vars, revision, target_vars, measured, correctionPending, attached,
                 sceneBox, progress_vars>>

-----------------------------------------------------------------------------
(* ReleaseCheckpoint::validate, then the detachment. *)

Contact == measured = AtPose(target.pose)

\* refresh_release; without one nothing is checked and no correction is asked for.
Refresh ==
  /\ \/ pc = "release" /\ pc' = IF correctionPending THEN "correct" ELSE "check"
     \/ Go("refresh", "recheck")
  /\ measured' = arms
  /\ UNCHANGED <<config_vars, revision, target_vars, arms, correctionPending, checked, attached,
                 sceneBox, progress_vars>>

\* check_release: contact, and (unless disabled) a return from the measured state.
Check ==
  /\ \/ Go("check", "detach") \/ Go("recheck", "detach")
  /\ Contact
  /\ checked' = [arms |-> measured, revision |-> revision]
  /\ UNCHANGED <<config_vars, revision, target_vars, arms, measured, correctionPending, attached,
                 sceneBox, progress_vars>>

\* Out of contact, or no return; a second failure waits for the next attempt.
CheckFails ==
  /\ \/ Go("check", "correct") \/ Go("recheck", "release")
  /\ ~Contact \/ preflight
  /\ correctionPending' = TRUE
  /\ UNCHANGED <<config_vars, revision, target_vars, arms, measured, checked, attached, sceneBox,
                 progress_vars>>

\* attachment_.detach after the saved-checkpoint check of the measured state.
Detach ==
  /\ Go("detach", "release_scene")
  /\ attached' = FALSE
  /\ UNCHANGED <<config_vars, revision, target_vars, arms, checkpoint_vars, sceneBox,
                 progress_vars>>

\* The request was sent and its answer was not a success: the task is over.
DetachUncertain ==
  /\ Go("detach", "end")
  /\ attached' \in BOOLEAN
  /\ UNCHANGED <<config_vars, revision, target_vars, arms, checkpoint_vars, sceneBox,
                 progress_vars>>

\* placeBox
ReleaseScene ==
  /\ Go("release_scene", "stage")
  /\ sceneBox' = target.pose
  /\ UNCHANGED <<config_vars, revision, target_vars, arms, checkpoint_vars, attached,
                 progress_vars>>

-----------------------------------------------------------------------------
(* The stages of the return. *)

ReturnUnchanged == UNCHANGED <<config_vars, revision, target_vars, checkpoint_vars, attached,
                               sceneBox>>

\* Fault: a stage that has a plan left goes on with it.
ReplanIfNone ==
  /\ pc = "stage" /\ stage # "complete"
  /\ \/ /\ valid /\ index < Len(plan)
        /\ pc' = "segment" /\ UNCHANGED <<plan, index, valid, cacheAvailable>>
     \/ /\ ~(valid /\ index < Len(plan))
        /\ pc' = "segment" /\ plan' \in StagePlans(stage, arms) /\ index' = 0 /\ valid' = TRUE
        /\ cacheAvailable' = (cacheAvailable /\ stage # "retreat")
  /\ UNCHANGED <<arms, stage, reached>> /\ ReturnUnchanged

\* Fault: the stage takes the plan of the whole return.
ReplanSequence ==
  /\ Go("stage", "segment") /\ stage # "complete"
  /\ plan' \in SequencePlans(arms)
  /\ index' = 0 /\ valid' = TRUE
  /\ cacheAvailable' = (cacheAvailable /\ stage # "retreat")
  /\ UNCHANGED <<arms, stage, reached>> /\ ReturnUnchanged

\* Fault: a new plan is entered where the old one was left.
ReplanKeepingIndex ==
  /\ Go("stage", "segment") /\ stage # "complete"
  /\ plan' \in StagePlans(stage, arms)
  /\ valid' = TRUE
  /\ cacheAvailable' = (cacheAvailable /\ stage # "retreat")
  /\ UNCHANGED <<arms, stage, index, reached>> /\ ReturnUnchanged

\* validateReusableRetreat: the recorded path still starts at the measured arms.
ReusableRetreat ==
  p2p /\ cacheAvailable /\ retreatPlan # NoSegment /\ retreatPlan.from = arms

\* invalidate, refresh, replan: a plan for this stage only, from the measured state.
\* The retreat planned with the placement is offered once, in POSE_TO_POSE mode, if
\* the arms are where it starts; it is validated on the scene of now.
Replan ==
  /\ Go("stage", "segment") /\ stage # "complete"
  /\ \/ plan' \in StagePlans(stage, arms)
     \/ /\ stage = "retreat" /\ ReusableRetreat
        /\ plan' = <<[retreatPlan EXCEPT !.revision = revision]>>
  /\ index' = 0 /\ valid' = TRUE
  /\ cacheAvailable' = (cacheAvailable /\ stage # "retreat")
  /\ UNCHANGED <<arms, stage, reached>> /\ ReturnUnchanged

ReplanFails ==
  /\ Go("stage", "stage") /\ stage # "complete"
  /\ valid' = FALSE
  /\ cacheAvailable' \in {cacheAvailable, cacheAvailable /\ stage # "retreat"}
  /\ UNCHANGED <<arms, stage, plan, index, reached>> /\ ReturnUnchanged

Current == plan[index + 1]

\* validatePostPlaceSegment
SegmentFits == Current.from = arms /\ ~attached

\* Before each segment the arms are measured and the segment validated from there.
ValidateSegment ==
  /\ Go("segment", "measured")
  /\ valid /\ index < Len(plan)
  /\ SegmentFits
  /\ UNCHANGED <<arms, progress_vars>> /\ ReturnUnchanged

ExecuteSegment ==
  /\ Go("measured", "segment")
  /\ arms' = Current.to
  /\ reached' = reached \cup ({Current.to.at} \cap {"clear", "prepare", "ready"})
  /\ index' = index + 1
  /\ UNCHANGED <<stage, plan, valid, cacheAvailable>> /\ ReturnUnchanged

ExecuteFails ==
  /\ Go("measured", "stage")
  /\ arms' = At("astray")
  /\ UNCHANGED progress_vars /\ ReturnUnchanged

StageComplete == valid /\ plan # <<>> /\ index = Len(plan)

NextStage ==
  CASE stage = "retreat" -> IF hasPrepare THEN "prepare" ELSE "ready"
    [] stage = "prepare" -> "ready"
    [] OTHER -> "complete"

\* stage_complete, then advance_stage with its invalidate.
AdvanceStage ==
  /\ pc = "segment" /\ StageComplete
  /\ stage' = NextStage /\ valid' = FALSE
  /\ pc' = IF stage = "ready" THEN "end" ELSE "stage"
  /\ UNCHANGED <<arms, plan, index, cacheAvailable, reached>> /\ ReturnUnchanged

-----------------------------------------------------------------------------
PlaceStep == PlanPlace \/ PlanPlaceFails \/ Move \/ MoveFails

ReleaseStep == Refresh \/ Check \/ CheckFails \/ Detach \/ DetachUncertain \/ ReleaseScene

ReturnStep ==
  Replan \/ ReplanFails \/ ValidateSegment \/ ExecuteSegment \/ ExecuteFails \/ AdvanceStage

Next == ContinueScene \/ EndTask \/ AttemptFails \/ PlaceStep \/ ReleaseStep \/ ReturnStep

Spec == Init /\ [][Next]_vars

-----------------------------------------------------------------------------
\* The box is let go only where it was to be placed, in contact, and only after a
\* check that saw the arms as they are now on the scene of now: not one from before
\* a correction, a failed motion, or a Continue.
ReleaseIsChecked ==
  [][attached /\ ~attached' =>
       arms = AtPose(target.pose) /\ checked = [arms |-> arms, revision |-> revision]]_vars

\* Once the robot has placed at a pose, corrections and new scenes do not move the
\* goal: what is released, drawn into the scene and retreated from is that pose.
AcceptedPoseIsKept ==
  [][scope = "FIXED_POSE" => target'.pose = target.pose /\ (sceneBox' # 0 => sceneBox' = target.pose)]_vars

\* A stage is left only for the next one and only with its motion done, whatever
\* failed, was replanned, or was continued in between.
StagesAreEarned ==
  /\ stage # "retreat" => "clear" \in reached
  /\ stage \in {"ready", "complete"} /\ hasPrepare => "prepare" \in reached
  /\ stage = "complete" => arms = At("ready")

\* A return motion starts where the arms are, with the box let go, on a plan made
\* or validated for the scene of the last Continue.
SegmentsFitScene ==
  [][pc = "measured" /\ arms' # arms =>
       Current.from = arms /\ Current.revision = revision /\ ~attached]_vars
=============================================================================
