-------------------------- MODULE PlaceRelease_proofs --------------------------
(* Proofs about PlaceRelease for every number of Continue scenes.

   What each check of the release hands on is known at the point where it is used,
   whatever attempt came before: the measured arms are the arms (MeasuredIsNow), an
   accepted check is of them and of the scene of now (CheckedIsNow), a correction
   aims at the accepted pose (CorrectionKeepsPose, BoxAtPose), and the running plan
   is the stage's own, made for the scene of now (PlanIsTheStages).  None of it is
   left to the properties: they speak of one step, the invariant of the points
   between two steps. *)
EXTENDS PlaceRelease, SequenceTheorems, TLAPS

\* A pose still to be accepted leaves room for a place beside it.
AdaptivePoseFits == scope = "ADAPTIVE" => target.pose \in 2..(2 * MaxRevision + 2)

\* The saved retreat, if any, leads to the clearance.
RetreatLeadsClear == retreatPlan = NoSegment \/ retreatPlan.to = At("clear")

\* From the first reached place on, the pose is accepted.
AcceptedByPoint == pc \notin {"place", "move", "end"} => scope = "FIXED_POSE"

CorrectionKeepsPose == scope = "FIXED_POSE" /\ pc = "move" => selected = target.pose

BoxAtPose == sceneBox # 0 => scope = "FIXED_POSE" /\ sceneBox = target.pose

MeasuredIsNow == pc \in {"check", "recheck"} => measured = arms

CheckedIsNow ==
  pc = "detach" =>
    arms = AtPose(target.pose) /\ checked = [arms |-> arms, revision |-> revision]

Goal == IF stage = "retreat" THEN "clear" ELSE stage

\* While segments run: the plan is the stage's, of the scene of now, and its goal is
\* reached when its last segment is.
PlanIsTheStages ==
  pc \in {"segment", "measured"} =>
    /\ stage # "complete"
    /\ valid /\ Len(plan) \in {1, 2} /\ index \in 0..Len(plan)
    /\ plan[Len(plan)].to = At(Goal)
    /\ \A i \in 1..Len(plan) : plan[i].revision = revision
    /\ index = Len(plan) => arms = At(Goal) /\ Goal \in reached

ValidatedFits ==
  pc = "measured" => index < Len(plan) /\ plan[index + 1].from = arms /\ ~attached

CompleteIsEnd == stage = "complete" => pc = "end"

IInv ==
  /\ TypeOK
  /\ AdaptivePoseFits /\ RetreatLeadsClear
  /\ AcceptedByPoint /\ CorrectionKeepsPose /\ BoxAtPose
  /\ MeasuredIsNow /\ CheckedIsNow
  /\ PlanIsTheStages /\ ValidatedFits
  /\ StagesAreEarned /\ CompleteIsEnd

-----------------------------------------------------------------------------
(* What the plans look like. *)

LEMMA HandsFacts ==
  /\ \A name \in {"carry", "astray", "clear", "via", "prepare", "ready"} : At(name) \in Hands
  /\ \A pose \in Poses : AtPose(pose) \in Hands /\ Near(pose) \in Hands
  /\ \A p, q : At(p) = At(q) => p = q
  /\ \A pose, name : At(name) = AtPose(pose) => pose = 0
  BY DEF At, AtPose, Near, Hands, Poses

LEMMA SegmentFacts ==
  ASSUME revision \in 0..MaxRevision, NEW from \in Hands, NEW to \in Hands,
         NEW retreat \in BOOLEAN
  PROVE  /\ Segment(from, to, retreat) \in Segments
         /\ Segment(from, to, retreat).to = to
         /\ Segment(from, to, retreat).revision = revision
  BY DEF Segment, Segments

LEMMA OneSegment ==
  ASSUME NEW a \in Segments
  PROVE  <<a>> \in Seq(Segments) /\ Len(<<a>>) = 1 /\ <<a>>[1] = a
  OBVIOUS

LEMMA TwoSegments ==
  ASSUME NEW a \in Segments, NEW b \in Segments
  PROVE  <<a, b>> \in Seq(Segments) /\ Len(<<a, b>>) = 2 /\ <<a, b>>[1] = a /\ <<a, b>>[2] = b
  OBVIOUS

\* A plan for one stage: one or two segments, of the scene of now, to the stage's goal.
PlansTo(p, goal) ==
  /\ p \in Seq(Segments) /\ Len(p) \in {1, 2}
  /\ p[Len(p)].to = At(goal)
  /\ \A i \in 1..Len(p) : p[i].revision = revision

LEMMA StagePlanShape ==
  ASSUME revision \in 0..MaxRevision, NEW from \in Hands,
         NEW s \in {"retreat", "prepare", "ready"}, NEW p \in StagePlans(s, from)
  PROVE  PlansTo(p, IF s = "retreat" THEN "clear" ELSE s)
<1>0. s # "retreat" => (PlansTo(p, s) => PlansTo(p, IF s = "retreat" THEN "clear" ELSE s))
  OBVIOUS
<1>1. CASE s = "retreat"
  <2> DEFINE a == Segment(from, At("clear"), TRUE)
  <2>1. p = <<a>>
    BY <1>1 DEF StagePlans
  <2>2. a \in Segments /\ a.to = At("clear") /\ a.revision = revision
    BY HandsFacts, SegmentFacts
  <2> HIDE DEF a
  <2> QED
    BY <1>1, <2>1, <2>2, OneSegment DEF PlansTo
<1>2. CASE s # "retreat" /\ p = <<Segment(from, At(s), FALSE)>>
  <2> DEFINE a == Segment(from, At(s), FALSE)
  <2>1. a \in Segments /\ a.to = At(s) /\ a.revision = revision
    BY <1>2, HandsFacts, SegmentFacts
  <2>2. p = <<a>>
    BY <1>2
  <2> HIDE DEF a
  <2>3. PlansTo(p, s)
    BY <2>1, <2>2, OneSegment DEF PlansTo
  <2> QED
    BY <1>0, <1>2, <2>3
<1>3. CASE /\ s # "retreat"
           /\ p = <<Segment(from, At("via"), FALSE), Segment(At("via"), At(s), FALSE)>>
  <2> DEFINE a == Segment(from, At("via"), FALSE)
             b == Segment(At("via"), At(s), FALSE)
  <2>1. a \in Segments /\ a.revision = revision
    BY HandsFacts, SegmentFacts
  <2>2. b \in Segments /\ b.to = At(s) /\ b.revision = revision
    BY <1>3, HandsFacts, SegmentFacts
  <2>3. p = <<a, b>>
    BY <1>3
  <2> HIDE DEF a, b
  <2>4. PlansTo(p, s)
    BY <2>1, <2>2, <2>3, TwoSegments DEF PlansTo
  <2> QED
    BY <1>0, <1>3, <2>4
<1> QED
  BY <1>1, <1>2, <1>3 DEF StagePlans

LEMMA SequenceStartsClear ==
  ASSUME revision \in 0..MaxRevision, NEW from \in Hands, NEW p \in SequencePlans(from)
  PROVE  p[1] \in Segments /\ p[1].to = At("clear")
<1> DEFINE Retreats == StagePlans("retreat", from)
           Prepares == IF hasPrepare THEN StagePlans("prepare", At("clear")) ELSE {<<>>}
           Readies == StagePlans("ready", IF hasPrepare THEN At("prepare") ELSE At("clear"))
           first == Segment(from, At("clear"), TRUE)
<1>1. first \in Segments /\ first.to = At("clear")
  BY HandsFacts, SegmentFacts
<1>2. Retreats = {<<first>>}
  BY DEF StagePlans
<1>3. \A q \in Prepares : q \in Seq(Segments)
  <2>1. \A q \in StagePlans("prepare", At("clear")) : q \in Seq(Segments)
    BY StagePlanShape, HandsFacts DEF PlansTo
  <2>2. <<>> \in Seq(Segments)
    OBVIOUS
  <2> QED
    BY <2>1, <2>2
<1>4. \A q \in Readies : q \in Seq(Segments)
  <2>1. (IF hasPrepare THEN At("prepare") ELSE At("clear")) \in Hands
    BY HandsFacts
  <2> QED
    BY <2>1, StagePlanShape DEF PlansTo
<1>5. SequencePlans(from) = {r \o q \o s : r \in Retreats, q \in Prepares, s \in Readies}
  BY DEF SequencePlans
<1> HIDE DEF Retreats, Prepares, Readies, first
<1>6. PICK r \in Retreats, q \in Prepares, s \in Readies : p = r \o q \o s
  BY <1>5
<1>7. r \in Seq(Segments) /\ Len(r) = 1 /\ r[1] = first
  BY <1>1, <1>2, OneSegment
<1>8. q \in Seq(Segments) /\ s \in Seq(Segments)
  BY <1>3, <1>4
<1>9. r \o q \in Seq(Segments) /\ Len(r \o q) >= 1 /\ (r \o q)[1] = first
  BY <1>7, <1>8, ConcatProperties
<1>10. p[1] = first
  BY <1>6, <1>8, <1>9, ConcatProperties
<1> QED
  BY <1>1, <1>10

LEMMA InitIInv == Init => IInv
<1> SUFFICES ASSUME Init
             PROVE  IInv
  OBVIOUS
<1>1. TypeOK
  <2>1. Target(0) = 2 /\ 2 \in Poses
    BY RevisionAssumption DEF Target, Poses
  <2>2. target \in [pose : Poses, revision : 0..MaxRevision] /\ selected \in Poses
    BY <2>1, RevisionAssumption DEF Init
  <2>3. arms \in Hands /\ measured \in Hands
    BY HandsFacts DEF Init
  <2>4. plan \in Seq(Segments) /\ Len(plan) <= 2
    BY DEF Init
  <2>5. {p2p, tagDerived, hasPrepare, preflight, correctionPending, attached, valid,
         cacheAvailable} \subseteq BOOLEAN
    BY DEF Init
  <2> QED
    BY <2>2, <2>3, <2>4, <2>5, RevisionAssumption DEF Init, TypeOK, Stages
<1>2. AdaptivePoseFits
  BY RevisionAssumption DEF Init, AdaptivePoseFits, Target
<1>3. /\ RetreatLeadsClear /\ AcceptedByPoint /\ CorrectionKeepsPose /\ BoxAtPose
      /\ MeasuredIsNow /\ CheckedIsNow /\ PlanIsTheStages /\ ValidatedFits
      /\ StagesAreEarned /\ CompleteIsEnd
  BY DEF Init, RetreatLeadsClear, AcceptedByPoint, CorrectionKeepsPose, BoxAtPose,
         MeasuredIsNow, CheckedIsNow, PlanIsTheStages, ValidatedFits, StagesAreEarned,
         CompleteIsEnd
<1> QED
  BY <1>1, <1>2, <1>3 DEF IInv
-----------------------------------------------------------------------------
(* Every step keeps the invariant. *)

LEMMA TaskStepIInv ==
  ASSUME IInv, ContinueScene \/ EndTask \/ AttemptFails
  PROVE  IInv'
<1> USE RevisionAssumption
    DEF IInv, TypeOK, AdaptivePoseFits, RetreatLeadsClear, AcceptedByPoint,
           CorrectionKeepsPose, BoxAtPose, MeasuredIsNow, CheckedIsNow, PlanIsTheStages,
           ValidatedFits, StagesAreEarned, CompleteIsEnd, Goal, config_vars, target_vars,
           checkpoint_vars, progress_vars, Go, BetweenAttempts
<1>1. CASE ContinueScene
  BY <1>1 DEF ContinueScene
<1>2. CASE EndTask
  BY <1>2 DEF EndTask
<1>3. CASE AttemptFails
  BY <1>3 DEF AttemptFails
<1> QED
  BY <1>1, <1>2, <1>3

LEMMA ReleaseStepIInv ==
  ASSUME IInv, ReleaseStep
  PROVE  IInv'
<1> USE RevisionAssumption
    DEF IInv, TypeOK, AdaptivePoseFits, RetreatLeadsClear, AcceptedByPoint,
           CorrectionKeepsPose, BoxAtPose, MeasuredIsNow, CheckedIsNow, PlanIsTheStages,
           ValidatedFits, StagesAreEarned, CompleteIsEnd, Goal, config_vars, target_vars,
           checkpoint_vars, progress_vars, Go, BetweenAttempts
<1>1. CASE Refresh
  BY <1>1 DEF Refresh
<1>2. CASE Check
  BY <1>2 DEF Check, Contact
<1>3. CASE CheckFails
  BY <1>3 DEF CheckFails
<1>4. CASE Detach
  BY <1>4 DEF Detach
<1>5. CASE DetachUncertain
  BY <1>5 DEF DetachUncertain
<1>6. CASE ReleaseScene
  BY <1>6 DEF ReleaseScene
<1> QED
  BY <1>1, <1>2, <1>3, <1>4, <1>5, <1>6 DEF ReleaseStep
\* The target a planner is given: an accepted pose is never given anew.
LEMMA RetargetFacts ==
  ASSUME IInv
  PROVE  /\ Retarget \in [pose : Poses, revision : 0..MaxRevision]
         /\ scope = "FIXED_POSE" => Retarget.pose = target.pose
         /\ scope = "ADAPTIVE" => /\ Retarget.pose \in 2..(2 * MaxRevision + 2)
                                  /\ Beside(Retarget.pose) \in Poses
<1>1. revision \in 0..MaxRevision /\ target \in [pose : Poses, revision : 0..MaxRevision]
  BY DEF IInv, TypeOK
<1>2. Target(revision) \in 2..(2 * MaxRevision + 2)
  BY <1>1, RevisionAssumption DEF Target
<1>3. scope = "ADAPTIVE" => target.pose \in 2..(2 * MaxRevision + 2)
  BY DEF IInv, AdaptivePoseFits
<1>4. Retarget.pose \in Poses /\ Retarget.revision \in 0..MaxRevision
  BY <1>1, <1>2, RevisionAssumption DEF Retarget, RefreshedPose, Poses
<1> QED
  BY <1>1, <1>2, <1>3, <1>4, RevisionAssumption DEF Retarget, RefreshedPose, Poses, Beside

LEMMA PlaceStepIInv ==
  ASSUME IInv, PlaceStep
  PROVE  IInv'
<1> USE RevisionAssumption, HandsFacts, RetargetFacts
    DEF IInv, TypeOK, AdaptivePoseFits, RetreatLeadsClear, AcceptedByPoint,
           CorrectionKeepsPose, BoxAtPose, MeasuredIsNow, CheckedIsNow, PlanIsTheStages,
           ValidatedFits, StagesAreEarned, CompleteIsEnd, Goal, config_vars, target_vars,
           checkpoint_vars, progress_vars, Go, BetweenAttempts
<1>1. CASE PlanPlace
  BY <1>1, SequenceStartsClear DEF PlanPlace
<1>2. CASE PlanPlaceFails
  BY <1>2 DEF PlanPlaceFails
<1>3. CASE Move
  <2>1. arms' \in Hands
    BY <1>3 DEF Move
  <2>2. target' \in [pose : Poses, revision : 0..MaxRevision] /\ target'.pose = selected
    BY <1>3 DEF Move
  <2>3. /\ pc' \in {"release", "refresh"} /\ scope' = "FIXED_POSE"
        /\ correctionPending' \in BOOLEAN /\ checked' = NotChecked
        /\ UNCHANGED <<config_vars, revision, selected, retreatPlan, measured, attached,
                       sceneBox, progress_vars>>
    BY <1>3 DEF Move
  <2>4. pc = "move"
    BY <1>3 DEF Move
  <2>5. TypeOK'
    BY <2>1, <2>2, <2>3
  <2> QED
    BY <2>2, <2>3, <2>4, <2>5
<1>4. CASE MoveFails
  BY <1>4 DEF MoveFails
<1> QED
  BY <1>1, <1>2, <1>3, <1>4 DEF PlaceStep

LEMMA ReturnStepIInv ==
  ASSUME IInv, ReturnStep
  PROVE  IInv'
<1> USE RevisionAssumption, HandsFacts
    DEF IInv, TypeOK, AdaptivePoseFits, RetreatLeadsClear, AcceptedByPoint,
           CorrectionKeepsPose, BoxAtPose, MeasuredIsNow, CheckedIsNow, PlanIsTheStages,
           ValidatedFits, StagesAreEarned, CompleteIsEnd, Goal, config_vars, target_vars,
           checkpoint_vars, progress_vars, Go, BetweenAttempts, ReturnUnchanged
<1>1. CASE Replan
  <2>1. PlansTo(plan', Goal)
    <3>1. CASE plan' \in StagePlans(stage, arms)
      BY <1>1, <3>1, StagePlanShape DEF Replan, Stages
    <3>2. CASE stage = "retreat" /\ ReusableRetreat /\ plan' = <<[retreatPlan EXCEPT !.revision = revision]>>
      <4> DEFINE a == [retreatPlan EXCEPT !.revision = revision]
      <4>1. retreatPlan \in Segments /\ retreatPlan.to = At("clear")
        BY <3>2 DEF ReusableRetreat
      <4>2. a \in Segments /\ a.to = At("clear") /\ a.revision = revision
        BY <4>1 DEF Segments
      <4>3. plan' = <<a>>
        BY <3>2
      <4> HIDE DEF a
      <4> QED
        BY <3>2, <4>2, <4>3, OneSegment DEF PlansTo
    <3> QED
      BY <1>1, <3>1, <3>2 DEF Replan
  <2>2. /\ pc = "stage" /\ pc' = "segment" /\ stage # "complete"
        /\ index' = 0 /\ valid' = TRUE /\ cacheAvailable' \in BOOLEAN
        /\ UNCHANGED <<config_vars, revision, target_vars, arms, checkpoint_vars, attached,
                       sceneBox, stage, reached>>
    BY <1>1 DEF Replan
  <2>3. /\ plan' \in Seq(Segments) /\ Len(plan') \in {1, 2}
        /\ plan'[Len(plan')].to = At(Goal)
        /\ \A i \in 1..Len(plan') : plan'[i].revision = revision
    BY <2>1 DEF PlansTo
  <2>4. TypeOK'
    BY <2>2, <2>3
  <2>5. PlanIsTheStages'
    <3>1. Goal' = Goal /\ revision' = revision /\ stage' # "complete" /\ index' = 0 /\ valid'
      BY <2>2
    <3> HIDE DEF IInv, Goal
    <3>2. Len(plan') \in {1, 2}
      BY <2>3
    <3>3. index' \in 0..Len(plan') /\ index' # Len(plan')
      BY <3>1, <3>2
    <3> QED
      BY <2>3, <3>1, <3>3 DEF PlanIsTheStages
  <2>6. StagesAreEarned' /\ CompleteIsEnd'
    BY <2>2
  <2>7. /\ AdaptivePoseFits' /\ RetreatLeadsClear' /\ AcceptedByPoint' /\ CorrectionKeepsPose'
        /\ BoxAtPose' /\ MeasuredIsNow' /\ CheckedIsNow' /\ ValidatedFits'
    BY <2>2
  <2> QED
    BY <2>4, <2>5, <2>6, <2>7
<1>2. CASE ReplanFails
  BY <1>2 DEF ReplanFails
<1>3. CASE ValidateSegment
  BY <1>3 DEF ValidateSegment, SegmentFits, Current
<1>4. CASE ExecuteSegment
  <2>1. /\ pc = "measured" /\ index < Len(plan) /\ Len(plan) \in {1, 2} /\ index \in 0..Len(plan)
        /\ stage # "complete" /\ Goal \in {"clear", "prepare", "ready"}
    BY <1>4 DEF ExecuteSegment, Stages
  <2>2. Current \in Segments
    BY <2>1 DEF Current
  <2>3. arms' = Current.to /\ arms' \in Hands
    BY <1>4, <2>2 DEF ExecuteSegment, Segments
  <2>4. /\ pc' = "segment" /\ index' = index + 1
        /\ reached' = reached \cup ({Current.to.at} \cap {"clear", "prepare", "ready"})
        /\ UNCHANGED <<config_vars, revision, target_vars, checkpoint_vars, attached, sceneBox,
                       stage, plan, valid, cacheAvailable>>
    BY <1>4 DEF ExecuteSegment
  <2>5. index' = Len(plan) => arms' = At(Goal) /\ Goal \in reached'
    <3>1. At(Goal).at = Goal
      BY DEF At
    <3> QED
      BY <2>1, <2>3, <2>4, <3>1 DEF Current
  <2>6. TypeOK'
    BY <2>1, <2>3, <2>4
  <2>7. PlanIsTheStages'
    BY <2>1, <2>4, <2>5
  <2>8. StagesAreEarned'
    BY <2>1, <2>4
  <2> QED
    BY <2>1, <2>4, <2>6, <2>7, <2>8
<1>5. CASE ExecuteFails
  BY <1>5 DEF ExecuteFails
<1>6. CASE AdvanceStage
  <2>1. /\ pc = "segment" /\ arms = At(Goal) /\ Goal \in reached /\ stage # "complete"
    BY <1>6 DEF AdvanceStage, StageComplete
  <2>2. /\ stage' = NextStage /\ valid' = FALSE
        /\ pc' = IF stage = "ready" THEN "end" ELSE "stage"
        /\ UNCHANGED <<config_vars, revision, target_vars, checkpoint_vars, attached, sceneBox,
                       arms, plan, index, cacheAvailable, reached>>
    BY <1>6 DEF AdvanceStage
  <2>3. /\ stage = "retreat" => NextStage = IF hasPrepare THEN "prepare" ELSE "ready"
        /\ stage = "prepare" => NextStage = "ready"
        /\ stage = "ready" => NextStage = "complete"
        /\ stage \in {"retreat", "prepare", "ready"}
    BY <2>1 DEF NextStage, Stages
  <2>4. TypeOK'
    BY <2>1, <2>2, <2>3 DEF Stages
  <2>5. StagesAreEarned'
    BY <2>1, <2>2, <2>3
  <2> QED
    BY <2>1, <2>2, <2>3, <2>4, <2>5
<1> QED
  BY <1>1, <1>2, <1>3, <1>4, <1>5, <1>6 DEF ReturnStep
LEMMA StutterIInv == IInv /\ UNCHANGED vars => IInv'
  BY DEF vars, config_vars, target_vars, checkpoint_vars, progress_vars, IInv, TypeOK,
         AdaptivePoseFits, RetreatLeadsClear, AcceptedByPoint, CorrectionKeepsPose, BoxAtPose,
         MeasuredIsNow, CheckedIsNow, PlanIsTheStages, ValidatedFits, StagesAreEarned,
         CompleteIsEnd, Goal

LEMMA NextIInv == IInv /\ [Next]_vars => IInv'
  BY TaskStepIInv, PlaceStepIInv, ReleaseStepIInv, ReturnStepIInv, StutterIInv DEF Next

\* The placement, its release and its return keep the inductive invariant through
\* every failed attempt and every Continue.
THEOREM Invariance == Spec => []IInv
  BY InitIInv, NextIInv, PTL DEF Spec

-----------------------------------------------------------------------------
\* Every variable keeps its type; a pose never leaves those the scenes of the task
\* can give.
THEOREM TypeCorrect == Spec => []TypeOK
<1>1. IInv => TypeOK
  BY DEF IInv
<1> QED
  BY <1>1, Invariance, PTL

\* A stage of the return is left only for the next one and with its motion done.
THEOREM StagesEarned == Spec => []StagesAreEarned
<1>1. IInv => StagesAreEarned
  BY DEF IInv
<1> QED
  BY <1>1, Invariance, PTL

\* The box is let go only by a detachment, whose check was of these arms and of
\* this scene.
THEOREM ReleaseChecked == Spec => ReleaseIsChecked
<1>1. ASSUME IInv, Next, attached, ~attached'
      PROVE  arms = AtPose(target.pose) /\ checked = [arms |-> arms, revision |-> revision]
  <2>1. pc = "detach"
    BY <1>1 DEF Next, PlaceStep, ReleaseStep, ReturnStep, ContinueScene, EndTask, AttemptFails,
                PlanPlace, PlanPlaceFails, Move, MoveFails, Refresh, Check, CheckFails, Detach,
                DetachUncertain, ReleaseScene, Replan, ReplanFails, ValidateSegment,
                ExecuteSegment, ExecuteFails, AdvanceStage, ReturnUnchanged, Go
  <2> QED
    BY <1>1, <2>1 DEF IInv, CheckedIsNow
<1>2. ASSUME IInv, [Next]_vars
      PROVE  [attached /\ ~attached' =>
                arms = AtPose(target.pose)
                  /\ checked = [arms |-> arms, revision |-> revision]]_vars
  BY <1>1, <1>2
<1> QED
  BY <1>2, Invariance, PTL DEF Spec, ReleaseIsChecked

\* What a step does to the accepted pose: nothing, except that the move of a
\* placement sets it to the pose the arms went to.
LEMMA TargetStep ==
  ASSUME IInv, Next
  PROVE  \/ target' = target
         \/ target' = Retarget
         \/ pc = "move" /\ target' = [target EXCEPT !.pose = selected]
  BY DEF Next, PlaceStep, ReleaseStep, ReturnStep, ContinueScene, EndTask, AttemptFails,
         PlanPlace, PlanPlaceFails, Move, MoveFails, Refresh, Check, CheckFails, Detach,
         DetachUncertain, ReleaseScene, Replan, ReplanFails, ValidateSegment,
         ExecuteSegment, ExecuteFails, AdvanceStage, ReturnUnchanged, target_vars

\* Once accepted, the pose is the one corrections aim at, the box is released at,
\* and the scene is given.
THEOREM AcceptedPoseKept == Spec => AcceptedPoseIsKept
<1>1. ASSUME IInv, IInv', Next, scope = "FIXED_POSE"
      PROVE  target'.pose = target.pose /\ (sceneBox' # 0 => sceneBox' = target.pose)
  <2>1. target \in [pose : Poses, revision : 0..MaxRevision] /\ selected \in Poses
    BY <1>1 DEF IInv, TypeOK
  <2>2. target'.pose = target.pose
    BY <1>1, <2>1, TargetStep, RetargetFacts DEF IInv, CorrectionKeepsPose
  <2> QED
    BY <1>1, <2>2 DEF IInv, BoxAtPose
<1>2. ASSUME IInv, IInv', [Next]_vars
      PROVE  [scope = "FIXED_POSE" => target'.pose = target.pose
                /\ (sceneBox' # 0 => sceneBox' = target.pose)]_vars
  BY <1>1, <1>2
<1> QED
  BY <1>2, Invariance, PTL DEF Spec, AcceptedPoseIsKept

\* A return motion starts where the arms are, after the box was let go, on a plan
\* for the scene of now.
THEOREM SegmentsFit == Spec => SegmentsFitScene
<1>1. ASSUME IInv, pc = "measured"
      PROVE  Current.from = arms /\ Current.revision = revision /\ ~attached
  BY <1>1 DEF IInv, ValidatedFits, PlanIsTheStages, Current
<1>2. ASSUME IInv, [Next]_vars
      PROVE  [pc = "measured" /\ arms' # arms =>
                Current.from = arms /\ Current.revision = revision /\ ~attached]_vars
  BY <1>1, <1>2
<1> QED
  BY <1>2, Invariance, PTL DEF Spec, SegmentsFitScene
=============================================================================
