----------------------------- MODULE MotionSearch -----------------------------
(* The search for a complete pick and place path: planPickPath, planAdaptiveCarryToPose,
   planAdaptivePlace and the routes they build (src/pick_place/dual_arm_motion_planner.cpp),
   and the continuations by which planCompletePath and postPlaceContinuation of
   src/pick_place_server.cpp nest them: a grasp is accepted only with a carry, a carry only
   with a placement, a placement only with a return.  All of it runs in one thread; the
   clock moves while it computes, and the request may be canceled at any moment. *)
EXTENDS PlanningBudget, FiniteSets, SequencesExt

CONSTANTS
  MaxNow,         \* bound: the clock stops here, after every deadline
  Durations,      \* how long one step of a search may take
  PhaseTime,      \* phase_retry_timeout
  PregraspTime, GraspTime, CarryTime, ReturnTime, CandidateTime, AttemptTime,
                  \* the configured timeouts of the searches
  Slack,          \* the 2 s endpointRouteTimeout adds
  SweepTime,      \* the 1.25 s of a closed-chain place route
  Grasps,         \* bound: grasp candidates, in the order of their cost
  TierSize,       \* bound: candidates of one cost
  MaxPlanning, MaxRetry,   \* maximum_planning_candidates, maximum_retry_candidates
  CarryEnds, PlaceEnds, Routes,   \* bounds: endpoints a precheck accepts, route skeletons
  Segments,       \* bound: segments of a route
  ReturnStages,   \* retreat, prepare if configured, ready
  Retreats        \* bound: retreat distances of closed-chain mode

ASSUME MotionSearchAssumption ==
  /\ {MaxNow, PhaseTime, PregraspTime, GraspTime, CarryTime, ReturnTime, CandidateTime,
      AttemptTime, Slack, SweepTime, MaxPlanning, MaxRetry} \subseteq Nat
  /\ {Grasps, TierSize, CarryEnds, PlaceEnds, Routes, Segments, ReturnStages, Retreats} \subseteq Nat \ {0}
  /\ 0 \in Durations /\ Durations \subseteq Nat
  /\ \E longest \in Durations : \A d \in Durations : d <= longest

VARIABLES
  now, cancel,    \* the clock; the goal was canceled
  poseToPose,     \* motion_planning_mode is POSE_TO_POSE
  pickOnly,       \* pick_only of planCompletePath
  deadlines,      \* phase_deadline_ and what the open scopes restore, innermost last
  pc,
  cursor, collected, feasible,      \* planPickPath: candidates looked at, the time that took,
                                    \* and those with a pregrasp state
  turn, index, retry,               \* fast, initial or retry; which; those to try again
  search,         \* the carry or place search that runs
  back,           \* the return search that runs
  scene,          \* the box: live, where MoveIt has it, and kept, its pose in retained_objects_
  built,          \* the pieces captured so far, by reference, from the attempts
  path, result    \* what planPickPath returns

goal_vars == <<poseToPose, pickOnly>>
pick_vars == <<cursor, collected, feasible, turn, index, retry>>
out_vars == <<path, result>>
vars == <<now, cancel, goal_vars, deadlines, pc, pick_vars, search, back, scene, built, out_vars>>

Longest == CHOOSE d \in Durations : \A e \in Durations : e <= d

\* Where the box may be.  In the world: where the request found it, or where the detach of a
\* route leaves it, at the hands as they would hold it in the grasp of a candidate.
Observed == 0
Attached == -1
Places == {Observed} \cup 1..Grasps

\* The pieces: each names what it starts from, and where MoveIt had the box then.
NoPiece == [from |-> <<>>, id |-> <<>>, box |-> Observed]
NoSearch == [leg |-> "none", began |-> 0, by |-> 0, routeBy |-> 0, fast |-> FALSE, route |-> 0, end |-> 0,
             ends |-> 0, seg |-> 0, planned |-> FALSE, box |-> Observed, saved |-> Observed]
NoReturn == [by |-> 0, began |-> 0, stage |-> 0, distance |-> 0]
Pieces == {"grasp", "carry", "place", "return"}
NoPath == [p \in Pieces |-> NoPiece]

\* The scopes that are open where the search stands.
Scopes ==
  CASE pc \in {"start", "pick", "done"} -> 1
    [] pc \in {"attempt", "approach", "search", "precheck", "sweep", "accept"} -> 2
    [] pc \in {"endpoint", "route", "segments", "restore", "timing", "back", "placed"} ->
         IF search.fast THEN 3 ELSE 2

TypeOK ==
  /\ now \in 0..MaxNow /\ collected \in 0..now
  /\ {cancel, poseToPose, pickOnly} \subseteq BOOLEAN
  /\ pc \in {"start", "pick", "attempt", "approach", "search", "endpoint", "precheck", "sweep",
             "route", "segments", "restore", "timing", "back", "placed", "accept", "done"}
  /\ Len(deadlines) = Scopes
  /\ \A i \in 1..Len(deadlines) - 1 : deadlines[i + 1] <= deadlines[i]
  /\ cursor \in 0..Grasps /\ Len(feasible) <= Grasps /\ ToSet(feasible) \subseteq 1..Grasps
  /\ turn \in {"fast", "initial", "retry"} /\ index \in 1..(Grasps + 1)
  /\ ToSet(retry) \subseteq 1..Len(feasible) /\ Cardinality(ToSet(retry)) = Len(retry)
  /\ search.leg \in {"none", "carry", "place"} /\ search.seg \in 0..Segments
  /\ search.route \in 0..(Routes + 1) /\ search.end \in 0..search.ends /\ search.ends \in 0..(CarryEnds + PlaceEnds)
  /\ back.stage \in 0..ReturnStages /\ back.distance \in 0..Retreats
  /\ scene \in [live : Places \cup {Attached}, kept : Places]
  /\ DOMAIN built = Pieces /\ DOMAIN path = Pieces
  /\ result \in {"none", "found", "failed"}

Init ==
  /\ now = 0 /\ cancel = FALSE /\ poseToPose \in BOOLEAN /\ pickOnly \in BOOLEAN
  /\ deadlines = <<PhaseTime>> /\ pc = "start"
  /\ cursor = 0 /\ collected = 0 /\ feasible = <<>>
  /\ turn = "fast" /\ index = 1 /\ retry = <<>>
  /\ search = NoSearch /\ back = NoReturn /\ scene = [live |-> Observed, kept |-> Observed]
  /\ built = NoPath /\ path = NoPath /\ result = "none"

-----------------------------------------------------------------------------
(* Time and cancellation. *)

\* The times at which a step that begins at a time may end.
LaterThan(time) == {Least(time + d, MaxNow) : d \in Durations}
Later == LaterThan(now)

Interrupted(time, limit) == cancel \/ time >= limit

\* canceled of planPickPath: planning_canceled of runPhase.
Canceled(time) == Interrupted(time, deadlines[1])

\* attempt_canceled: also the deadline of the attempt whose continuation this is.
AttemptLimit == Least(deadlines[1], deadlines[2])
Stopped(time) == Interrupted(time, AttemptLimit)

\* fast_canceled, or canceled and the deadline of the route.
RouteLimit == Least(AttemptLimit, Least(search.routeBy, Active(deadlines)))
RouteStopped(time) == Interrupted(time, RouteLimit)

Cancel ==
  /\ pc # "done" /\ ~cancel /\ cancel' = TRUE
  /\ UNCHANGED <<now, goal_vars, deadlines, pc, pick_vars, search, back, scene, built, out_vars>>

Finish(verdict) == pc' = "done" /\ result' = verdict

\* What a call returns: when, and whether it found what it was asked for.  A call looks at
\* the clock before each of its steps, so the last one may end late.
Fails(from) == {[at |-> t, ok |-> FALSE] : t \in LaterThan(from)}
Plans(from, limit) ==
  Fails(from) \cup {[at |-> t, ok |-> TRUE] : t \in {u \in LaterThan(from) : ~Interrupted(from, limit)}}

\* validateTimedReturnTrajectory: the check of the timed path is interrupted as well, and
\* an interrupted check refuses the path.
Checked(outcomes, limit) == {o \in outcomes : o.ok => ~Interrupted(o.at, limit)}

\* setFromDualArmIK: the left arm, then the right arm if there is still time.
DualArmIK(limit) == Plans(now, limit)

\* planCartesianMotion: one pass through the waypoints, and if one of them has no IK,
\* recovery passes in what time is left; the path is checked to its end.
CartesianPass(limit) == Plans(now, limit)
CartesianRecovery(pass, limit) ==
  UNION {Plans(o.at, limit) : o \in {p \in pass : ~p.ok /\ ~Interrupted(p.at, limit)}}
CartesianMotion(limit) ==
  Checked(CartesianPass(limit) \cup CartesianRecovery(CartesianPass(limit), limit), limit)

\* ClosedChainPathPlanner::search: a beam over the waypoints; only the layers are interrupted.
ClosedChainPath(limit) == Plans(now, limit)

\* appendJointSpacePlan: nothing to do, a direct joint route, or OMPL within the time left.
JointSpacePlan(from, limit) == {[at |-> from, ok |-> TRUE]} \cup Checked(Plans(from, limit), limit)

\* segmentOnce of the return: a direct joint route, or a route of the return's pipeline.
ReturnSegment(limit) == Checked(Plans(now, limit), limit)

-----------------------------------------------------------------------------
(* planPickPath: candidates, and the attempts they get. *)

\* planning_elapsed: the time spent collecting candidates does not count.
Remaining == Left(PregraspTime, now - collected)

OpenAttempt(limit) ==
  /\ deadlines' = Scoped(deadlines, limit) /\ pc' = "attempt"

\* The nominal candidate with one seed, before any other is looked at.
NominalFast ==
  /\ pc = "start" /\ poseToPose /\ ~Canceled(now)
  /\ \E t \in Later :
       /\ now' = t /\ collected' = t - now
       /\ \/ feasible' = <<1>> /\ UNCHANGED turn /\ OpenAttempt(now + PregraspTime)
          \/ pc' = "pick" /\ turn' = "initial" /\ UNCHANGED <<feasible, deadlines>>
  /\ UNCHANGED <<cancel, goal_vars, cursor, index, retry, search, back, scene, built, out_vars>>

SkipFast ==
  /\ pc = "start" /\ pc' = "pick" /\ turn' = "initial"
  /\ ~poseToPose \/ Canceled(now)
  /\ UNCHANGED <<now, cancel, goal_vars, deadlines, cursor, collected, feasible, index, retry,
                 search, back, scene, built, out_vars>>

Tier(candidate) == (candidate - 1) \div TierSize

\* graspCostTierEnd, or all candidates at once in closed-chain mode.
TierEnd == IF poseToPose THEN Least((cursor \div TierSize + 1) * TierSize, Grasps) ELSE Grasps

Collecting ==
  /\ pc = "pick" /\ turn = "initial" /\ index <= MaxPlanning
  /\ index = Len(feasible) + 1 /\ cursor < Grasps /\ collected < GraspTime

\* solvePregraspIK on the candidates of a tier: those with a state that is in bounds and
\* free of collision, in the order of cost, then of quality.
Solved(last) ==
  {tier \in UNION {SetToSeqs(found) : found \in SUBSET (cursor + 1..last)} :
     \A i, j \in DOMAIN tier : i < j => Tier(tier[i]) <= Tier(tier[j])}

\* Until the collection's deadline; those found follow the ones already attempted.
CollectTier ==
  /\ Collecting /\ ~Canceled(now) /\ now < deadlines[1]
  /\ \E t \in Later, n \in cursor..TierEnd :
       /\ n < TierEnd => t >= Least(deadlines[1], now + GraspTime - collected)
       /\ now' = t /\ collected' = collected + (t - now) /\ cursor' = n
       /\ \E tier \in Solved(n) : feasible' = feasible \o tier
  /\ UNCHANGED <<cancel, goal_vars, deadlines, pc, turn, index, retry, search, back, scene, built,
                 out_vars>>

\* The next candidate's first attempt, with what is left of the pregrasp budget.
AttemptNext ==
  /\ pc = "pick" /\ turn = "initial" /\ ~Collecting
  /\ index <= MaxPlanning /\ index <= Len(feasible) /\ ~Canceled(now) /\ Remaining > 0
  /\ OpenAttempt(now + Remaining)
  /\ UNCHANGED <<now, cancel, goal_vars, pick_vars, search, back, scene, built, out_vars>>

InitialDone ==
  /\ pc = "pick" /\ turn = "initial" /\ ~Collecting
  /\ index > MaxPlanning \/ index > Len(feasible) \/ (Remaining = 0 /\ ~Canceled(now))
  /\ turn' = "retry" /\ index' = 1
  /\ UNCHANGED <<now, cancel, goal_vars, deadlines, pc, cursor, collected, feasible, retry,
                 search, back, scene, built, out_vars>>

RetryCount == Least(Len(retry), MaxRetry)

\* A candidate that only failed to be reached is tried again with the whole rest.
RetryNext ==
  /\ pc = "pick" /\ turn = "retry" /\ index <= RetryCount /\ ~Canceled(now)
  /\ AdaptiveRetry(PregraspTime, now - collected, RetryCount - index + 1) > 0
  /\ OpenAttempt(now + Remaining)
  /\ UNCHANGED <<now, cancel, goal_vars, pick_vars, search, back, scene, built, out_vars>>

\* Canceled, out of candidates or out of time.
PickFails ==
  /\ pc = "pick"
  /\ \/ turn = "initial" /\ Canceled(now) /\ (Collecting \/ index <= Least(MaxPlanning, Len(feasible)))
     \/ turn = "retry" /\ (index > RetryCount \/ Canceled(now) \/ Remaining = 0)
  /\ Finish("failed")
  /\ UNCHANGED <<now, cancel, goal_vars, deadlines, pick_vars, search, back, scene, built, path>>

\* The candidate the attempt is about.
Candidate == IF turn = "retry" THEN feasible[retry[index]] ELSE feasible[index]

\* The loops around attempt_candidate: what its result leads to at this time.
AttemptEnds(verdict, time) ==
  /\ deadlines' = <<deadlines[1]>> /\ search' = NoSearch /\ back' = NoReturn
  /\ \/ turn = "fast" /\ verdict # "success"
        /\ turn' = "initial" /\ feasible' = <<>> /\ pc' = "pick" /\ UNCHANGED <<index, retry, result>>
     \/ turn = "fast" /\ verdict = "success"
        /\ Finish("found") /\ UNCHANGED <<turn, feasible, index, retry>>
     \/ turn # "fast" /\ Canceled(time)
        /\ Finish("failed") /\ UNCHANGED <<turn, feasible, index, retry>>
     \/ turn # "fast" /\ ~Canceled(time) /\ verdict = "success"
        /\ Finish("found") /\ UNCHANGED <<turn, feasible, index, retry>>
     \/ turn # "fast" /\ ~Canceled(time) /\ verdict # "success"
        /\ index' = index + 1 /\ pc' = "pick" /\ UNCHANGED <<turn, feasible, result>>
        /\ retry' = IF turn = "initial" /\ verdict = "unreached" THEN Append(retry, index) ELSE retry

\* The target is refused, or the deadline passes or no motion is found (OMPL_REJECTED).
PregraspFails ==
  /\ pc = "attempt"
  /\ \E t \in Later, verdict \in {"target", "unreached"} :
       now' = t /\ AttemptEnds(verdict, t)
  /\ UNCHANGED <<cancel, goal_vars, cursor, collected, scene, built, path>>

\* The direct joint route, or OMPL, whose answer may come late.
PlanPregrasp ==
  /\ pc = "attempt" /\ \E o \in Plans(now, AttemptLimit) : o.ok /\ now' = o.at
  /\ built' = [built EXCEPT !["grasp"] = [from |-> <<>>, id |-> <<Candidate>>, box |-> scene.live]]
  /\ pc' = "approach"
  /\ UNCHANGED <<cancel, goal_vars, deadlines, pick_vars, search, back, scene, out_vars>>

\* buildApproach: the straight or closed-chain motion to contact.
Approach ==
  IF poseToPose THEN CartesianMotion(AttemptLimit) ELSE Checked(ClosedChainPath(AttemptLimit), AttemptLimit)
BuildApproach ==
  /\ pc = "approach" /\ \E o \in Approach : o.ok /\ now' = o.at
  /\ pc' = "search"
  /\ search' = [NoSearch EXCEPT !.leg = "carry"]
  /\ UNCHANGED <<cancel, goal_vars, deadlines, pick_vars, back, scene, built, out_vars>>

ApproachFails ==
  /\ pc = "approach"
  /\ \E t \in Later : now' = t /\ AttemptEnds("approach", t)
  /\ UNCHANGED <<cancel, goal_vars, cursor, collected, scene, built, path>>

\* The end of attempt_candidate: the outputs are set only now.
AcceptAttempt ==
  /\ pc = "accept"
  /\ \/ Stopped(now) /\ AttemptEnds("continuation", now) /\ UNCHANGED path
     \/ ~Stopped(now) /\ AttemptEnds("success", now) /\ path' = built
  /\ UNCHANGED <<now, cancel, goal_vars, cursor, collected, scene, built>>

-----------------------------------------------------------------------------
(* planAdaptiveCarryToPose and planAdaptivePlace: a fast path, a precheck of the
   endpoints, and a sweep of the routes over the endpoints it accepted. *)

\* The end of a search without a result rejects the grasp.
SearchFails ==
  /\ \E t \in Later : now' = t /\ AttemptEnds("continuation", t)
  /\ UNCHANGED <<cancel, goal_vars, cursor, collected, scene, built, path>>

SearchTime == CarryTime + (IF search.leg = "place" THEN ReturnTime ELSE 0)

\* The fast path of a carry may use the whole search, that of a placement a fifth of it.
FastTime(remaining) ==
  IF search.leg = "carry" THEN remaining
  ELSE FastAttempt(remaining, EndpointRoute(remaining, Slack, CandidateTime, Segments))

StartSearch ==
  /\ pc = "search"
  /\ LET by == Least(Active(deadlines), now + SearchTime)
         fastBy == now + FastTime(Left(by, now))
         fast == [search EXCEPT !.began = now, !.by = by, !.routeBy = fastBy, !.fast = TRUE]
     IN IF poseToPose
        THEN search' = fast /\ deadlines' = Scoped(deadlines, fastBy) /\ pc' = "endpoint"
        ELSE search' = [search EXCEPT !.began = now, !.by = by] /\ pc' = "precheck" /\ UNCHANGED deadlines
  /\ UNCHANGED <<now, cancel, goal_vars, pick_vars, back, scene, built, out_vars>>

\* fastEndpoint
FastEndpoint ==
  /\ pc = "endpoint" /\ \E o \in Checked(DualArmIK(RouteLimit), RouteLimit) : o.ok /\ now' = o.at
  /\ pc' = "route"
  /\ UNCHANGED <<cancel, goal_vars, deadlines, pick_vars, search, back, scene, built, out_vars>>

\* A route that is given up; the pose it saved of the box goes with it.
WithoutRoute ==
  [search EXCEPT !.fast = FALSE, !.seg = 0, !.planned = FALSE,
                 !.box = Observed, !.saved = Observed]

\* Fault: a fast path that leaves its deadline in force.
FastFailsInScope(time) ==
  /\ now' = time /\ pc' = "precheck" /\ UNCHANGED deadlines
  /\ search' = WithoutRoute

\* The fast path fails: its scope ends and the ranked search begins.
FastFails(time) ==
  /\ now' = time /\ deadlines' = Restored(deadlines) /\ pc' = "precheck"
  /\ search' = WithoutRoute

FastEndpointFails ==
  /\ pc = "endpoint" /\ \E t \in Later : FastFails(t)
  /\ UNCHANGED <<cancel, goal_vars, pick_vars, back, scene, built, out_vars>>

\* carryPoseCandidates, placePoseCandidates: the poses that may be accepted, best first.
PoseCandidates == IF search.leg = "carry" THEN CarryEnds ELSE PlaceEnds

\* The endpoints that pass IK, bounds, margin and collision before the precheck's time is up.
Precheck ==
  /\ pc = "precheck" /\ ~Stopped(now) /\ now < search.by
  /\ \E t \in Later, n \in 1..PoseCandidates :
       now' = t /\ search' = [search EXCEPT !.route = 1, !.end = 0, !.ends = n]
  /\ pc' = "sweep"
  /\ UNCHANGED <<cancel, goal_vars, deadlines, pick_vars, back, scene, built, out_vars>>

PrecheckFails == pc = "precheck" /\ SearchFails

\* Fault: a sweep that stays at the last endpoint.
LastPair == <<search.route, IF search.end < search.ends THEN search.end + 1 ELSE search.end>>

\* Each endpoint with a route before the next route: the next pair of the sweep.
NextPair ==
  IF search.end < search.ends THEN <<search.route, search.end + 1>> ELSE <<search.route + 1, 1>>

\* The route's own deadline; a carry route may use what is left of the search.
RouteTime(remaining) ==
  IF search.leg = "carry" THEN remaining
  ELSE IF poseToPose THEN EndpointRoute(remaining, Slack, CandidateTime, Segments)
  ELSE Least(SweepTime, remaining)

SweepNext ==
  /\ pc = "sweep" /\ NextPair[1] <= Routes /\ ~Stopped(now) /\ now < search.by
  /\ search' = [search EXCEPT !.route = NextPair[1], !.end = NextPair[2],
                              !.routeBy = now + RouteTime(search.by - now), !.seg = 0]
  /\ pc' = "route"
  /\ UNCHANGED <<now, cancel, goal_vars, deadlines, pick_vars, back, scene, built, out_vars>>

SweepEnds ==
  /\ pc = "sweep" /\ (NextPair[1] > Routes \/ Stopped(now) \/ now >= search.by)
  /\ SearchFails

-----------------------------------------------------------------------------
(* buildCarryRoute and buildPlaceRoute.  In pose-to-pose mode the route is planned with
   the box attached to the arms in the planning scene, and the scene is put back before
   the route is accepted; in closed-chain mode the box is added to the scene's copies. *)

\* A route that fails: the sweep goes on, or the fast path ends.
RouteFails(time) ==
  \/ search.fast /\ FastFails(time)
  \/ ~search.fast /\ now' = time /\ pc' = "sweep" /\ UNCHANGED deadlines
     /\ search' = WithoutRoute

\* The box that is attached is the one the scene has, wherever it is; its pose is saved.
RouteBegins ==
  /\ scene' = IF poseToPose THEN [scene EXCEPT !.live = Attached] ELSE scene
  /\ \E t \in Later : now' = t
  /\ search' = [search EXCEPT !.planned = TRUE, !.box = scene'.live, !.saved = scene.live]
  /\ pc' = "segments"
  /\ UNCHANGED <<cancel, goal_vars, deadlines, pick_vars, back, built, out_vars>>

\* Fault: a route that does not ask whether the box is in the scene to be attached.
BeginRouteAnyway == pc = "route" /\ RouteBegins

BeginRoute == pc = "route" /\ (poseToPose => scene.live # Attached) /\ RouteBegins

\* The box as it was saved, in MoveIt and among the retained objects.
AsSaved(saved) == [live |-> saved, kept |-> saved]

\* What endVirtualAttachment may leave when it fails: the box attached, at the hands because
\* its restore was refused, or restored but not confirmed, retained or not.
EndFailures(saved) ==
  {[scene EXCEPT !.live = b] : b \in {Attached, Candidate, saved}} \cup {AsSaved(saved)}

\* The start is out of bounds or there is no box to attach; or the attachment is refused or
\* not confirmed, or MoveIt's scene cannot be read after it, and it is taken back, or not.
BeginFails ==
  /\ pc = "route" /\ \E t \in Later : RouteFails(t)
  /\ \/ UNCHANGED scene
     \/ poseToPose /\ scene.live # Attached /\ scene' \in EndFailures(scene.live)
  /\ UNCHANGED <<cancel, goal_vars, pick_vars, back, built, out_vars>>

\* The next segment of appendPoseToPoseObjectPath, checked on the scene as it is.
AtSegment == pc = "segments" /\ search.planned /\ search.seg < Segments /\ ~RouteStopped(now)

Appended(outcomes, segments) ==
  /\ \E o \in outcomes :
       /\ now' = o.at
       /\ search' = IF o.ok THEN [search EXCEPT !.seg = segments] ELSE [search EXCEPT !.planned = FALSE]
  /\ UNCHANGED <<cancel, goal_vars, deadlines, pc, pick_vars, back, scene, built, out_vars>>

\* The hands are already there: nothing is planned, the state is checked.
SegmentReached ==
  /\ AtSegment /\ poseToPose
  /\ Appended({[at |-> now, ok |-> valid] : valid \in BOOLEAN}, search.seg + 1)

\* The lift and the last descent are straight lines.
CartesianSegment ==
  /\ AtSegment /\ poseToPose /\ Appended(CartesianMotion(RouteLimit), search.seg + 1)

\* A segment an earlier route of the same search planned, checked again on this scene; when
\* it does not pass, the segment is planned.
CachedSegment ==
  /\ AtSegment /\ poseToPose /\ ~search.fast
  /\ Appended({o \in Checked(Plans(now, RouteLimit), RouteLimit) : o.ok}, search.seg + 1)

\* The endpoint the precheck found, for the last segment; the arms may not reach it from
\* here, and then another solution of the same pose is tried if there is time.
EndpointPlans ==
  LET plans == JointSpacePlan(now, RouteLimit)
      others == UNION {JointSpacePlan(o.at, RouteLimit) :
                         o \in {p \in plans : ~p.ok /\ ~RouteStopped(p.at)}}
  IN IF search.seg + 1 = Segments THEN plans \cup others ELSE plans

JointSegment ==
  /\ AtSegment /\ poseToPose /\ Appended(EndpointPlans, search.seg + 1)

\* appendObjectPath: the whole route is one closed-chain search.
ObjectPath ==
  /\ AtSegment /\ ~poseToPose /\ Appended(ClosedChainPath(RouteLimit), Segments)

SegmentStopped ==
  /\ pc = "segments" /\ search.planned /\ search.seg < Segments /\ RouteStopped(now)
  /\ search' = [search EXCEPT !.planned = FALSE]
  /\ UNCHANGED <<now, cancel, goal_vars, deadlines, pc, pick_vars, back, scene, built, out_vars>>

SegmentsEnd ==
  /\ pc = "segments" /\ (search.seg = Segments \/ ~search.planned)
  /\ pc' = "restore"
  /\ UNCHANGED <<now, cancel, goal_vars, deadlines, pick_vars, search, back, scene, built, out_vars>>

\* An exception leaves the route without endVirtualAttachment; the search catches it.
RouteThrows ==
  /\ pc = "segments" /\ \E t \in Later : RouteFails(t)
  /\ UNCHANGED <<cancel, goal_vars, pick_vars, back, scene, built, out_vars>>

\* Fault: a restore that leaves the retained pose as it was.
RestoreUnretained ==
  /\ pc = "restore" /\ search.planned
  /\ scene' = IF poseToPose THEN [scene EXCEPT !.live = search.saved] ELSE scene
  /\ \E t \in Later : now' = t
  /\ pc' = "timing"
  /\ UNCHANGED <<cancel, goal_vars, deadlines, pick_vars, search, back, built, out_vars>>

\* endVirtualAttachment: a route is accepted only if the box is back where it was saved.
RestoreBox ==
  /\ pc = "restore" /\ search.planned
  /\ scene' = IF poseToPose THEN AsSaved(search.saved) ELSE scene
  /\ \E t \in Later : now' = t
  /\ pc' = "timing"
  /\ UNCHANGED <<cancel, goal_vars, deadlines, pick_vars, search, back, built, out_vars>>

\* It fails, or the route was not planned.
RestoreFails ==
  /\ pc = "restore" /\ \E t \in Later : RouteFails(t)
  /\ \/ poseToPose /\ scene' \in EndFailures(search.saved)
     \/ ~poseToPose /\ ~search.planned /\ UNCHANGED scene
  /\ UNCHANGED <<cancel, goal_vars, pick_vars, back, built, out_vars>>

RouteRejected ==
  /\ pc = "timing" /\ \E t \in Later : RouteFails(t)
  /\ UNCHANGED <<cancel, goal_vars, pick_vars, back, scene, built, out_vars>>

-----------------------------------------------------------------------------
(* The routes that are accepted, and what continues them. *)

\* A piece of the route just built, that starts where the piece before it ends.
RoutePiece(previous) ==
  [from |-> previous.id, id |-> previous.id \o <<search.route, search.end>>, box |-> search.box]

\* The carry is captured, and planAdaptivePlace is entered unless only a pick is wanted.
AcceptCarry ==
  /\ pc = "timing" /\ search.leg = "carry" /\ ~Stopped(now) /\ (search.fast => now < search.routeBy)
  /\ built' = [built EXCEPT !["carry"] = RoutePiece(built["grasp"])]
  /\ deadlines' = SubSeq(deadlines, 1, 2)
  /\ search' = [NoSearch EXCEPT !.leg = "place"]
  /\ pc' = IF pickOnly THEN "accept" ELSE "search"
  /\ UNCHANGED <<now, cancel, goal_vars, pick_vars, back, scene, out_vars>>

\* Fault: a slice that does not ask whether there is an alternative.
WholeContinuation(remaining) ==
  PlaceContinuation(remaining, Slack, AttemptTime, ReturnTime, ReturnStages, FALSE)

\* The slice of the search an endpoint's return may use.
ContinuationTime(remaining) ==
  PlaceContinuation(remaining, Slack, AttemptTime, ReturnTime, ReturnStages,
                    search.end < search.ends)

\* The whole place route is valid: its return is planned before it is accepted.
StartReturn ==
  /\ pc = "timing" /\ search.leg = "place" /\ ~Stopped(now) /\ (poseToPose => ~RouteStopped(now))
  /\ LET by == IF search.fast THEN search.routeBy
               ELSE now + ContinuationTime(Left(search.by, now))
     IN back' = [by |-> Least(Least(by, deadlines[1]), now + ReturnTime), began |-> now,
                 stage |-> 0, distance |-> 1]
  /\ pc' = "back"
  /\ UNCHANGED <<now, cancel, goal_vars, deadlines, pick_vars, search, scene, built, out_vars>>

ReturnLimit == Least(AttemptLimit, back.by)
ReturnStopped(time) == Interrupted(time, ReturnLimit)

\* planPostPlaceStage: on a copy of the scene with the box released at the endpoint.
Stage(outcomes) ==
  /\ \E o \in outcomes : o.ok /\ now' = o.at
  /\ back' = [back EXCEPT !.stage = @ + 1]
  /\ UNCHANGED <<cancel, goal_vars, deadlines, pc, pick_vars, search, scene, built, out_vars>>

\* planRetreat, or buildRetreat in closed-chain mode.
PlanRetreat ==
  /\ pc = "back" /\ back.stage = 0
  /\ Stage(IF poseToPose THEN CartesianMotion(ReturnLimit)
           ELSE Checked(ClosedChainPath(ReturnLimit), ReturnLimit))

\* planToNamedTarget: prepare, if one is configured, and ready.
PlanToNamedTarget ==
  /\ pc = "back" /\ back.stage \in 1..(ReturnStages - 1) /\ Stage(ReturnSegment(ReturnLimit))

\* Closed-chain mode tries the return again from a farther retreat; once its time is up
\* no stage of it is begun.
NextRetreat ==
  /\ pc = "back" /\ ~poseToPose /\ back.distance < Retreats
  /\ IF ReturnStopped(now) THEN UNCHANGED now ELSE \E t \in Later : now' = t
  /\ back' = [back EXCEPT !.stage = 0, !.distance = @ + 1]
  /\ UNCHANGED <<cancel, goal_vars, deadlines, pc, pick_vars, search, scene, built, out_vars>>

ReturnFails ==
  /\ pc = "back" /\ \E t \in Later : RouteFails(t)
  /\ back' = NoReturn
  /\ UNCHANGED <<cancel, goal_vars, pick_vars, scene, built, out_vars>>

\* The return is captured as soon as it is feasible; whether the placement is accepted is
\* decided after it.
CaptureReturn ==
  /\ pc = "back" /\ back.stage = ReturnStages /\ ~ReturnStopped(now)
  /\ built' = [built EXCEPT !["return"] = [from |-> RoutePiece(built["carry"]).id,
                                           id |-> RoutePiece(built["carry"]).id]]
  /\ \E t \in Later : now' = t
  /\ pc' = "placed"
  /\ UNCHANGED <<cancel, goal_vars, deadlines, pick_vars, search, back, scene, out_vars>>

\* The continuation answered after its deadline, or after the search's.
PlaceLate ==
  /\ pc = "placed" /\ (ReturnStopped(now) \/ now >= search.by)
  /\ RouteFails(now) /\ back' = NoReturn
  /\ UNCHANGED <<cancel, goal_vars, pick_vars, scene, built, out_vars>>

AcceptPlace ==
  /\ pc = "placed" /\ ~ReturnStopped(now) /\ now < search.by
  /\ built' = [built EXCEPT !["place"] = RoutePiece(built["carry"])]
  /\ deadlines' = SubSeq(deadlines, 1, 2) /\ search' = NoSearch /\ back' = NoReturn
  /\ pc' = "accept"
  /\ UNCHANGED <<now, cancel, goal_vars, pick_vars, scene, out_vars>>

-----------------------------------------------------------------------------
Pick ==
  \/ NominalFast \/ SkipFast \/ CollectTier \/ AttemptNext \/ InitialDone \/ RetryNext \/ PickFails
  \/ PregraspFails \/ PlanPregrasp \/ BuildApproach \/ ApproachFails \/ AcceptAttempt
Search ==
  \/ StartSearch \/ FastEndpoint \/ FastEndpointFails \/ Precheck \/ PrecheckFails
  \/ SweepNext \/ SweepEnds
Route ==
  \/ BeginRoute \/ BeginFails \/ SegmentReached \/ CartesianSegment \/ CachedSegment
  \/ JointSegment \/ ObjectPath \/ SegmentStopped \/ SegmentsEnd \/ RouteThrows
  \/ RestoreBox \/ RestoreFails \/ RouteRejected \/ AcceptCarry
Place ==
  \/ StartReturn \/ PlanRetreat \/ PlanToNamedTarget \/ NextRetreat \/ ReturnFails \/ CaptureReturn \/ PlaceLate
  \/ AcceptPlace

Step == Pick \/ Search \/ Route \/ Place
Done == pc = "done" /\ UNCHANGED vars
Next == Step \/ Cancel \/ Done

\* The planning thread runs until it returns; nothing makes it wait.
Fairness == WF_vars(Step)
Spec == Init /\ [][Next]_vars /\ Fairness

-----------------------------------------------------------------------------
(* Properties. *)

\* The path that is returned is one path: its pieces were built for the same grasp, each
\* from the end of the one before, although each was captured by reference during attempts
\* that failed later.  A carry and a placement were checked with the box attached, a grasp
\* with the box in the world, although a route may leave it attached.  And the path is
\* accepted before the phase's deadline with the box in the world, where MoveIt plans and
\* where the server checks alike, although a refused restore takes the two apart.
AcceptedPathHolds ==
  result = "found" =>
    /\ now < deadlines[1] /\ scene.live # Attached /\ scene.live = scene.kept
    /\ path["grasp"].id = <<Candidate>> /\ path["grasp"].box # Attached
    /\ path["carry"].from = path["grasp"].id
    /\ poseToPose => path["carry"].box = Attached
    /\ ~pickOnly =>
         /\ path["place"].from = path["carry"].id /\ path["return"].from = path["place"].id
         /\ poseToPose => path["place"].box = Attached

\* A placement that is given up, on the fast path or while others are left to try, leaves
\* time for them: the fast path takes a fifth of the search, the return half of what was
\* left, and either overruns by the steps that were running or that put the scene back.
FastPathLeaves(time) == 5 * (search.by - time + 3 * Longest) >= 4 * (search.by - search.began)
ReturnLeaves(time) == 2 * (search.by - time + 2 * Longest) >= search.by - back.began
OthersKeepTime ==
  [][/\ (search.leg = "place" /\ search.fast /\ pc' = "precheck") => FastPathLeaves(now')
     /\ (pc = "back" /\ pc' = "sweep" /\ search.end < search.ends) => ReturnLeaves(now')]_vars

\* Every search ends, found or failed, whatever its candidates do and without waiting for
\* the clock.
SearchEnds == <>(pc = "done")
=============================================================================
