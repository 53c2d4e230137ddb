-------------------------- MODULE MotionSearch_proofs --------------------------
(* Proofs about MotionSearch for any timeouts, any durations with a longest one, and any
   number of grasps, endpoints, routes, segments, return stages and retreats.

   Each point of the search knows which pieces are those of the running attempt: the
   grasp is the candidate's (GraspHolds), a placement continues the carry that was
   accepted for it (CarryHolds, ReturnHolds, PlaceHolds), and while a route is planned the
   box is attached and its saved pose is one of the world; once it is put back, MoveIt and
   the retained objects agree (RouteBox).  How far a route or a return may overrun its
   limit is known at each point, too (RouteInTime, ReturnInTime), and the limits are
   shares of the search's time (FastShare, ReturnShare). *)
EXTENDS MotionSearch, FiniteSetTheorems, SequenceTheorems, TLAPS

RoutePoints == {"endpoint", "route", "segments", "restore", "timing"}
ReturnPoints == {"back", "placed"}
AfterGrasp == {"approach", "search", "precheck", "sweep", "accept"} \cup RoutePoints \cup ReturnPoints
Scenes == [live : Places \cup {Attached}, kept : Places]

ControlTyped ==
  /\ now \in 0..MaxNow
  /\ cancel \in BOOLEAN /\ poseToPose \in BOOLEAN /\ pickOnly \in BOOLEAN
  /\ pc \in {"start", "pick", "attempt", "done"} \cup AfterGrasp
  /\ result \in {"none", "found", "failed"}
  /\ (result = "none" <=> pc # "done")

\* A scope only tightens the deadline.
Descending(d) == d \in Seq(Nat) /\ \A i \in 1..Len(d) - 1 : d[i + 1] <= d[i]

StackTyped == Descending(deadlines) /\ Len(deadlines) = Scopes

\* Where the two loops over the candidates stand.
PickTyped ==
  /\ collected \in 0..now
  /\ cursor \in 0..Grasps /\ turn \in {"fast", "initial", "retry"} /\ index \in 1..(Grasps + 1)
  /\ feasible \in Seq(1..Grasps) /\ Len(feasible) <= Grasps
  /\ turn = "fast" => Len(feasible) <= 1 /\ cursor = 0 /\ retry = <<>> /\ index = 1
  /\ turn # "fast" => Len(feasible) <= cursor
  /\ pc = "start" => turn = "fast" /\ feasible = <<>>
  /\ pc = "pick" => turn # "fast"
  /\ pc \in {"attempt"} \cup AfterGrasp =>
       index <= (IF turn = "retry" THEN Len(retry) ELSE Len(feasible))

RetryTyped ==
  /\ retry \in Seq(Nat \ {0})
  /\ \A i \in 1..Len(retry) : retry[i] <= Len(feasible)
  /\ turn = "initial" => \A i \in 1..Len(retry) : retry[i] < index
  /\ IsFiniteSet(ToSet(retry)) /\ Cardinality(ToSet(retry)) = Len(retry)

SearchRecord ==
  [leg : {"none", "carry", "place"}, began : Nat, by : Nat, routeBy : Nat, fast : BOOLEAN,
   route : 0..(Routes + 1), end : Nat, ends : 0..(CarryEnds + PlaceEnds), seg : 0..Segments,
   planned : BOOLEAN, box : Places \cup {Attached}, saved : Places]
ReturnRecord == [by : Nat, began : Nat, stage : 0..ReturnStages, distance : 0..Retreats]

SearchTyped ==
  /\ search \in SearchRecord
  /\ search.end <= search.ends
  /\ search.fast => poseToPose /\ pc \in RoutePoints \cup ReturnPoints
  /\ pc = "endpoint" => search.fast
  /\ pc \in {"sweep"} \cup RoutePoints \cup ReturnPoints /\ ~search.fast => search.ends > 0
  /\ back \in ReturnRecord

\* Where the box is while a route runs, and when one was accepted: the restore of an accepted
\* route brings MoveIt and the retained objects together again.
RouteBox ==
  /\ scene \in Scenes
  /\ ~poseToPose \/ pc \in {"timing", "accept"} \cup ReturnPoints => scene.live = scene.kept
  /\ poseToPose /\ pc \in {"segments", "restore", "timing"} \cup ReturnPoints => search.box = Attached

LegByPoint ==
  /\ pc \in {"search", "precheck", "sweep"} \cup RoutePoints => search.leg \in {"carry", "place"}
  /\ pc \in ReturnPoints => search.leg = "place"
  /\ search.leg = "place" /\ pc # "accept" => ~pickOnly
  /\ pc \in {"start", "pick", "attempt", "approach"} => search.leg = "none"

GraspHolds ==
  pc \in AfterGrasp =>
    /\ built["grasp"].id = <<Candidate>>
    /\ built["grasp"].box = Attached =>
         scene.live = Attached /\ pc \notin {"segments", "restore", "timing", "accept"} \cup ReturnPoints

CarryHolds ==
  pc = "accept" \/ search.leg = "place" =>
    /\ built["carry"].from = built["grasp"].id
    /\ poseToPose => built["carry"].box = Attached

ReturnHolds == pc = "placed" => built["return"].from = RoutePiece(built["carry"]).id

PlaceHolds ==
  pc = "accept" /\ ~pickOnly =>
    /\ built["place"].from = built["carry"].id /\ built["return"].from = built["place"].id
    /\ poseToPose => built["place"].box = Attached

PathHolds == DOMAIN built = Pieces /\ DOMAIN path = Pieces /\ AcceptedPathHolds

\* How long after the limit of a route its steps may end.
Overrun ==
  CASE pc \in {"endpoint", "route"} -> 0
    [] pc \in {"segments", "restore"} -> Longest
    [] pc = "timing" -> 2 * Longest

RouteInTime ==
  /\ pc = "search" => now < deadlines[1] /\ now < deadlines[2]
  /\ pc \in RoutePoints => search.routeBy <= search.by /\ now <= search.routeBy + Overrun
  /\ search.fast /\ pc = "back" => now <= search.routeBy
  /\ search.fast /\ pc = "placed" => now <= search.routeBy + Longest

\* A fast path of a placement has a fifth of the search's time.
FastShare ==
  search.fast /\ search.leg = "place" => 5 * (search.routeBy - search.began) <= search.by - search.began

\* A return begins in time, or late by what the route overran; and then it ends at once.
ReturnInTime ==
  pc = "back" =>
    /\ search.fast => back.by <= search.routeBy
    /\ ~search.fast => back.began <= search.by + 2 * Longest
    /\ now = back.began \/ (back.began < back.by /\ back.began < now /\ now < back.by + Longest)

\* With an alternative left a return has half of what is left of the search.
ReturnShare ==
  pc = "back" /\ ~search.fast /\ search.end < search.ends /\ back.began < back.by =>
    2 * (back.by - back.began) <= search.by - back.began

IInv ==
  /\ ControlTyped /\ StackTyped /\ PickTyped /\ RetryTyped /\ SearchTyped
  /\ RouteBox /\ LegByPoint /\ GraspHolds /\ CarryHolds /\ ReturnHolds /\ PlaceHolds /\ PathHolds
  /\ RouteInTime /\ FastShare /\ ReturnInTime /\ ReturnShare
-----------------------------------------------------------------------------
(* Shares of a budget, and how long a step takes. *)

LEMMA LeastFacts ==
  ASSUME NEW a \in Int, NEW b \in Int
  PROVE  /\ Least(a, b) \in Int /\ Least(a, b) <= a /\ Least(a, b) <= b
         /\ Least(a, b) = a \/ Least(a, b) = b
  BY DEF Least

LEMMA LeftFacts ==
  ASSUME NEW deadline \in Int, NEW time \in Int
  PROVE  /\ Left(deadline, time) \in Nat
         /\ time < deadline => Left(deadline, time) = deadline - time
         /\ deadline <= time => Left(deadline, time) = 0
  BY DEF Left

LEMMA EndpointRouteFacts ==
  ASSUME NEW remaining \in Nat, NEW slack \in Nat, NEW each \in Nat, NEW n \in Nat
  PROVE  /\ EndpointRoute(remaining, slack, each, n) \in Nat
         /\ EndpointRoute(remaining, slack, each, n) <= remaining
<1>1. each * n \in Nat
  OBVIOUS
<1>2. PICK product \in Nat : product = each * n
  BY <1>1
<1> QED
  BY <1>2 DEF EndpointRoute, Least

\* A fast path has at most a fifth.
LEMMA FastAttemptFacts ==
  ASSUME NEW remaining \in Nat, NEW nominal \in Nat
  PROVE  /\ FastAttempt(remaining, nominal) \in Nat
         /\ 5 * FastAttempt(remaining, nominal) <= remaining
<1>1. remaining \div 5 \in Nat /\ 5 * (remaining \div 5) <= remaining
  OBVIOUS
<1> QED
  BY <1>1 DEF FastAttempt, Least

\* A return with an alternative has at most half.
LEMMA PlaceContinuationFacts ==
  ASSUME NEW remaining \in Nat, NEW slack \in Nat, NEW each \in Nat, NEW whole \in Nat,
         NEW stages \in Nat, NEW alternative \in BOOLEAN
  PROVE  /\ PlaceContinuation(remaining, slack, each, whole, stages, alternative) \in Nat
         /\ PlaceContinuation(remaining, slack, each, whole, stages, alternative) <= remaining
         /\ alternative =>
              2 * PlaceContinuation(remaining, slack, each, whole, stages, alternative) <= remaining
<1>1. PICK route \in Nat : route = EndpointRoute(remaining, slack, each, stages)
  BY EndpointRouteFacts
<1>2. PICK half \in Nat : half = remaining \div 2 /\ 2 * half <= remaining
  OBVIOUS
<1> QED
  BY <1>1, <1>2 DEF PlaceContinuation, Least

LEMMA Bounds ==
  /\ MaxNow \in Nat /\ PhaseTime \in Nat /\ PregraspTime \in Nat /\ GraspTime \in Nat
  /\ CarryTime \in Nat /\ ReturnTime \in Nat /\ CandidateTime \in Nat /\ AttemptTime \in Nat
  /\ Slack \in Nat /\ SweepTime \in Nat /\ MaxPlanning \in Nat /\ MaxRetry \in Nat
  /\ Grasps \in Nat \ {0} /\ TierSize \in Nat \ {0} /\ CarryEnds \in Nat \ {0}
  /\ PlaceEnds \in Nat \ {0} /\ Routes \in Nat \ {0} /\ Segments \in Nat \ {0}
  /\ ReturnStages \in Nat \ {0} /\ Retreats \in Nat \ {0}
  BY MotionSearchAssumption

LEMMA LongestFacts == Longest \in Nat /\ \A d \in Durations : d \in Nat /\ d <= Longest
<1>1. Longest \in Durations /\ \A d \in Durations : d <= Longest
  BY MotionSearchAssumption DEF Longest
<1> QED
  BY <1>1, MotionSearchAssumption

LEMMA LaterFacts ==
  ASSUME NEW from \in 0..MaxNow, NEW t \in LaterThan(from)
  PROVE  t \in from..MaxNow /\ t <= from + Longest
<1>1. PICK d \in Durations : t = Least(from + d, MaxNow)
  BY DEF LaterThan
<1> QED
  BY <1>1, LongestFacts, Bounds DEF Least

LEMMA PlansFacts ==
  ASSUME NEW from \in 0..MaxNow, NEW limit, NEW o \in Plans(from, limit)
  PROVE  /\ o.ok \in BOOLEAN /\ o.at \in from..MaxNow /\ o.at <= from + Longest
         /\ o.ok => ~Interrupted(from, limit)
<1>1. CASE o \in Fails(from)
  <2>1. PICK t \in LaterThan(from) : o = [at |-> t, ok |-> FALSE]
    BY <1>1 DEF Fails
  <2> QED
    BY <2>1, LaterFacts
<1>2. CASE o \in {[at |-> t, ok |-> TRUE] : t \in {u \in LaterThan(from) : ~Interrupted(from, limit)}}
  <2>1. PICK t \in LaterThan(from) : o = [at |-> t, ok |-> TRUE] /\ ~Interrupted(from, limit)
    BY <1>2
  <2> QED
    BY <2>1, LaterFacts
<1> QED
  BY <1>1, <1>2 DEF Plans

\* What a call with a limit returns is a time of now or later, not long after the limit.
InTime(outcomes, limit) ==
  \A o \in outcomes :
    o.ok \in BOOLEAN /\ o.at \in now..MaxNow /\ (now < limit => o.at < limit + Longest)

LEMMA PlansInTime ==
  ASSUME now \in 0..MaxNow, NEW limit \in Int
  PROVE  InTime(Plans(now, limit), limit)
<1> SUFFICES ASSUME NEW o \in Plans(now, limit)
             PROVE  o.ok \in BOOLEAN /\ o.at \in now..MaxNow /\ (now < limit => o.at < limit + Longest)
  BY DEF InTime
<1> QED
  BY PlansFacts, LongestFacts, Bounds

\* A checked outcome is found before its limit.
LEMMA CheckedInTime ==
  ASSUME now \in 0..MaxNow, NEW limit \in Int, NEW outcomes, InTime(outcomes, limit)
  PROVE  /\ InTime(Checked(outcomes, limit), limit)
         /\ \A o \in Checked(outcomes, limit) : o.ok => ~cancel /\ o.at < limit
  BY Bounds DEF InTime, Checked, Interrupted

LEMMA CartesianMotionInTime ==
  ASSUME now \in 0..MaxNow, NEW limit \in Int
  PROVE  /\ InTime(CartesianMotion(limit), limit)
         /\ \A o \in CartesianMotion(limit) : o.ok => ~cancel /\ o.at < limit
<1> DEFINE pass == CartesianPass(limit)
           recovery == CartesianRecovery(pass, limit)
<1>1. InTime(pass, limit)
  BY PlansInTime DEF CartesianPass
<1>2. ASSUME NEW o \in recovery
      PROVE  o.ok \in BOOLEAN /\ o.at \in now..MaxNow /\ (now < limit => o.at < limit + Longest)
  <2>1. PICK p \in pass : ~p.ok /\ ~Interrupted(p.at, limit) /\ o \in Plans(p.at, limit)
    BY <1>2 DEF CartesianRecovery
  <2>2. p.at \in now..MaxNow /\ p.at < limit
    BY <1>1, <2>1, Bounds DEF InTime, Interrupted
  <2>3. PICK from \in 0..MaxNow : from = p.at /\ from >= now /\ from < limit
    BY <2>2, Bounds
  <2>4. o.ok \in BOOLEAN /\ o.at \in from..MaxNow /\ o.at <= from + Longest
    BY <2>1, <2>3, PlansFacts
  <2> QED
    BY <2>3, <2>4, LongestFacts, Bounds
<1>3. InTime(pass \cup recovery, limit)
  BY <1>1, <1>2 DEF InTime
<1> HIDE DEF pass, recovery
<1>4. CartesianMotion(limit) = Checked(pass \cup recovery, limit)
  BY DEF CartesianMotion, pass, recovery
<1> QED
  BY <1>3, <1>4, CheckedInTime

\* The other calls of the searches.
LEMMA CallsInTime ==
  ASSUME now \in 0..MaxNow, NEW limit \in Int
  PROVE  /\ InTime(Checked(ClosedChainPath(limit), limit), limit)
         /\ \A o \in Checked(ClosedChainPath(limit), limit) : o.ok => ~cancel /\ o.at < limit
         /\ InTime(ClosedChainPath(limit), limit)
         /\ InTime(ReturnSegment(limit), limit)
         /\ \A o \in ReturnSegment(limit) : o.ok => ~cancel /\ o.at < limit
         /\ InTime(Checked(DualArmIK(limit), limit), limit)
         /\ \A o \in Checked(DualArmIK(limit), limit) : o.ok => ~cancel /\ o.at < limit
         /\ InTime(Checked(Plans(now, limit), limit), limit)
<1>1. InTime(Plans(now, limit), limit)
  BY PlansInTime
<1> QED
  BY <1>1, CheckedInTime, Zenon DEF ClosedChainPath, ReturnSegment, DualArmIK

\* A joint route may start at once, or from where another attempt ended.
LEMMA JointSpacePlanFacts ==
  ASSUME NEW from \in 0..MaxNow, NEW limit \in Int, NEW o \in JointSpacePlan(from, limit)
  PROVE  o.ok \in BOOLEAN /\ o.at \in from..MaxNow /\ o.at <= from + Longest
<1>1. CASE o = [at |-> from, ok |-> TRUE]
  BY <1>1, LongestFacts, Bounds
<1>2. CASE o \in Plans(from, limit)
  BY <1>2, PlansFacts
<1> QED
  BY <1>1, <1>2 DEF JointSpacePlan, Checked

LEMMA EndpointPlansInTime ==
  ASSUME now \in 0..MaxNow, RouteLimit \in Int
  PROVE  InTime(EndpointPlans, RouteLimit)
<1> DEFINE plans == JointSpacePlan(now, RouteLimit)
<1>1. PICK limit \in Int : limit = RouteLimit
  OBVIOUS
<1>2. ASSUME NEW o \in plans
      PROVE  o.ok \in BOOLEAN /\ o.at \in now..MaxNow /\ (now < limit => o.at < limit + Longest)
  BY <1>1, <1>2, JointSpacePlanFacts, LongestFacts, Bounds
<1>3. ASSUME NEW p \in plans, ~RouteStopped(p.at), NEW o \in JointSpacePlan(p.at, RouteLimit)
      PROVE  o.ok \in BOOLEAN /\ o.at \in now..MaxNow /\ (now < limit => o.at < limit + Longest)
  <2>1. PICK from \in 0..MaxNow : from = p.at /\ from >= now /\ from < limit
    BY <1>1, <1>2, <1>3, Bounds DEF RouteStopped, Interrupted
  <2> QED
    BY <1>1, <1>3, <2>1, JointSpacePlanFacts, LongestFacts, Bounds
<1> HIDE DEF plans
<1>4. EndpointPlans \subseteq
        plans \cup UNION {JointSpacePlan(p.at, RouteLimit) :
                            p \in {q \in plans : ~q.ok /\ ~RouteStopped(q.at)}}
  BY DEF EndpointPlans, plans
<1> QED
  BY <1>1, <1>2, <1>3, <1>4 DEF InTime
-----------------------------------------------------------------------------
(* The stack of deadlines. *)

LEMMA ScopedFacts ==
  ASSUME NEW d, Descending(d), Len(d) > 0, NEW limit \in Nat
  PROVE  /\ Descending(Scoped(d, limit)) /\ Len(Scoped(d, limit)) = Len(d) + 1
         /\ \A i \in 1..Len(d) : Scoped(d, limit)[i] = d[i]
         /\ Active(Scoped(d, limit)) = Least(Active(d), limit)
<1>1. d \in Seq(Nat) /\ Active(d) \in Nat
  BY DEF Descending, Active
<1>2. PICK l \in Nat : l = Least(Active(d), limit) /\ l <= d[Len(d)]
  BY <1>1 DEF Active, Least
<1>3. Scoped(d, limit) = Append(d, l)
  BY <1>2 DEF Scoped
<1> QED
  BY <1>1, <1>2, <1>3 DEF Descending, Active

LEMMA SubSeqFacts ==
  ASSUME NEW d, Descending(d), NEW n \in 1..Len(d)
  PROVE  /\ Descending(SubSeq(d, 1, n)) /\ Len(SubSeq(d, 1, n)) = n
         /\ \A i \in 1..n : SubSeq(d, 1, n)[i] = d[i]
<1>1. d \in Seq(Nat) /\ Len(d) \in Nat
  BY DEF Descending
<1>2. /\ SubSeq(d, 1, n) \in Seq(Nat) /\ Len(SubSeq(d, 1, n)) = n
      /\ \A i \in 1..n : SubSeq(d, 1, n)[i] = d[i]
  BY <1>1
<1> QED
  BY <1>1, <1>2 DEF Descending

LEMMA RestoredFacts ==
  ASSUME NEW d, Descending(d), Len(d) > 1
  PROVE  /\ Descending(Restored(d)) /\ Len(Restored(d)) = Len(d) - 1
         /\ \A i \in 1..Len(d) - 1 : Restored(d)[i] = d[i]
<1>1. Len(d) \in Nat /\ Len(d) - 1 \in 1..Len(d)
  BY DEF Descending
<1> QED
  BY <1>1, SubSeqFacts DEF Restored

LEMMA FirstFacts ==
  ASSUME NEW d, Descending(d), Len(d) > 0
  PROVE  Descending(<<d[1]>>) /\ Len(<<d[1]>>) = 1 /\ <<d[1]>>[1] = d[1]
  BY DEF Descending

\* The limits the points of a search look at.
LEMMA Limits ==
  ASSUME IInv, pc \in {"attempt"} \cup AfterGrasp
  PROVE  /\ deadlines[1] \in Nat /\ deadlines[2] \in Nat /\ deadlines[2] <= deadlines[1]
         /\ Active(deadlines) \in Nat /\ Len(deadlines) > 1
         /\ AttemptLimit \in Int /\ AttemptLimit <= deadlines[1] /\ AttemptLimit <= deadlines[2]
         /\ RouteLimit \in Int /\ RouteLimit <= search.routeBy /\ RouteLimit <= AttemptLimit
         /\ ReturnLimit \in Int /\ ReturnLimit <= back.by /\ ReturnLimit <= AttemptLimit
<1>1. /\ Descending(deadlines) /\ Len(deadlines) = Scopes
      /\ search.routeBy \in Nat /\ back.by \in Nat
  BY DEF IInv, StackTyped, SearchTyped, SearchRecord, ReturnRecord
<1>2. Len(deadlines) \in {2, 3}
  BY <1>1 DEF Scopes, AfterGrasp, RoutePoints, ReturnPoints
<1>3. /\ deadlines[1] \in Nat /\ deadlines[2] \in Nat /\ Active(deadlines) \in Nat
      /\ deadlines[2] <= deadlines[1]
  BY <1>1, <1>2 DEF Descending, Active
<1>4. PICK a \in Int : a = AttemptLimit /\ a <= deadlines[1] /\ a <= deadlines[2]
  BY <1>3 DEF AttemptLimit, Least
<1>5. PICK r \in Int : r = Least(search.routeBy, Active(deadlines)) /\ r <= search.routeBy
  BY <1>1, <1>3 DEF Least
<1>6. RouteLimit = Least(a, r) /\ ReturnLimit = Least(a, back.by)
  BY <1>4, <1>5 DEF RouteLimit, ReturnLimit
<1> QED
  BY <1>1, <1>2, <1>3, <1>4, <1>5, <1>6 DEF Least

-----------------------------------------------------------------------------
(* The clock and the points of the search. *)

USE DEF goal_vars, pick_vars, out_vars

\* The actions by what they do to the clock: none, one step, or a call with an outcome.
LEMMA TimeNext ==
  ASSUME IInv, Next
  PROVE  now' \in now..MaxNow
<1>1. now \in 0..MaxNow /\ now \in now..MaxNow /\ Later = LaterThan(now)
  BY Bounds DEF IInv, ControlTyped, Later
<1>2. \A t \in Later : t \in now..MaxNow
  BY <1>1, LaterFacts
<1>3. \A limit : \A o \in Plans(now, limit) : o.at \in now..MaxNow
  BY <1>1, PlansFacts
<1>4. CASE Pick
  <2>1. CASE BuildApproach
    <3>1. PICK limit \in Int : limit = AttemptLimit
      BY <2>1, Limits DEF BuildApproach, AfterGrasp
    <3>2. InTime(Approach, limit)
      BY <1>1, <3>1, CartesianMotionInTime, CallsInTime DEF Approach
    <3> QED
      BY <2>1, <3>2 DEF BuildApproach, InTime
  <2> QED
    BY <1>1, <1>2, <1>3, <1>4, <2>1
       DEF Pick, NominalFast, SkipFast, CollectTier, AttemptNext, InitialDone, RetryNext, PickFails,
           PregraspFails, PlanPregrasp, ApproachFails, AcceptAttempt
<1>5. CASE Search
  <2>1. CASE FastEndpoint
    <3>1. PICK limit \in Int : limit = RouteLimit
      BY <2>1, Limits DEF FastEndpoint, AfterGrasp, RoutePoints
    <3> QED
      BY <1>1, <2>1, <3>1, CallsInTime DEF FastEndpoint, InTime
  <2> QED
    BY <1>1, <1>2, <1>5, <2>1
       DEF Search, StartSearch, FastEndpointFails, FastFails, Precheck, PrecheckFails, SearchFails,
           SweepNext, SweepEnds
<1>6. CASE Route
  <2>1. ASSUME pc = "segments", NEW outcomes, InTime(outcomes, RouteLimit), NEW n, Appended(outcomes, n)
        PROVE  now' \in now..MaxNow
    BY <2>1 DEF Appended, InTime
  <2>2. CASE SegmentReached \/ CartesianSegment \/ CachedSegment \/ JointSegment \/ ObjectPath
    <3>1. PICK limit \in Int : limit = RouteLimit
      BY <2>2, Limits DEF SegmentReached, CartesianSegment, CachedSegment, JointSegment, ObjectPath,
                          AtSegment, AfterGrasp, RoutePoints
    <3>2. /\ InTime(CartesianMotion(RouteLimit), RouteLimit)
          /\ InTime({o \in Checked(Plans(now, RouteLimit), RouteLimit) : o.ok}, RouteLimit)
          /\ InTime(EndpointPlans, RouteLimit)
          /\ InTime(ClosedChainPath(RouteLimit), RouteLimit)
          /\ InTime({[at |-> now, ok |-> valid] : valid \in BOOLEAN}, RouteLimit)
      <4>1. InTime(CartesianMotion(limit), limit) /\ InTime(ClosedChainPath(limit), limit)
        BY <1>1, CartesianMotionInTime, CallsInTime
      <4>2. InTime(Checked(Plans(now, limit), limit), limit)
        BY <1>1, CallsInTime
      <4>3. InTime({o \in Checked(Plans(now, limit), limit) : o.ok}, limit)
        BY <4>2 DEF InTime
      <4>4. InTime(EndpointPlans, RouteLimit)
        BY <1>1, <3>1, EndpointPlansInTime
      <4>5. InTime({[at |-> now, ok |-> valid] : valid \in BOOLEAN}, limit)
        BY <1>1, LongestFacts DEF InTime
      <4> QED
        BY <3>1, <4>1, <4>3, <4>4, <4>5
    <3> QED
      BY <2>1, <2>2, <3>2 DEF SegmentReached, CartesianSegment, CachedSegment, JointSegment, ObjectPath,
                              AtSegment
  <2> QED
    BY <1>1, <1>2, <1>6, <2>2
       DEF Route, BeginRoute, RouteBegins, BeginFails, RouteFails, FastFails, SegmentStopped, SegmentsEnd,
           RouteThrows, RestoreBox, RestoreFails, RouteRejected, AcceptCarry
<1>7. CASE Place
  <2>1. CASE PlanRetreat \/ PlanToNamedTarget
    <3>1. PICK limit \in Int : limit = ReturnLimit
      BY <2>1, Limits DEF PlanRetreat, PlanToNamedTarget, AfterGrasp, ReturnPoints
    <3>2. /\ InTime(CartesianMotion(limit), limit) /\ InTime(Checked(ClosedChainPath(limit), limit), limit)
          /\ InTime(ReturnSegment(limit), limit)
      BY <1>1, CartesianMotionInTime, CallsInTime
    <3> QED
      BY <2>1, <3>1, <3>2 DEF PlanRetreat, PlanToNamedTarget, Stage, InTime
  <2> QED
    BY <1>1, <1>2, <1>7, <2>1
       DEF Place, StartReturn, NextRetreat, ReturnFails, RouteFails, FastFails, CaptureReturn, PlaceLate,
           AcceptPlace
<1>8. CASE Cancel \/ Done
  BY <1>1, <1>8 DEF Cancel, Done, vars
<1> QED
  BY <1>4, <1>5, <1>6, <1>7, <1>8 DEF Next, Step

\* What the end of an attempt leads to.
LEMMA AttemptEndsFacts ==
  ASSUME IInv, pc \in {"attempt", "approach", "precheck", "sweep", "accept"},
         NEW verdict, NEW time, AttemptEnds(verdict, time)
  PROVE  /\ pc' \in {"pick", "done"} /\ deadlines' = <<deadlines[1]>>
         /\ search' = NoSearch /\ back' = NoReturn
         /\ pc' = "pick" => result' = result /\ turn' # "fast"
         /\ pc' = "done" => result' \in {"found", "failed"} /\ UNCHANGED <<turn, feasible, index, retry>>
         /\ result' = "found" => verdict = "success" /\ pc' = "done"
         /\ pc' = "pick" /\ turn = "fast" =>
              turn' = "initial" /\ feasible' = <<>> /\ UNCHANGED <<index, retry>>
         /\ pc' = "pick" /\ turn # "fast" =>
              /\ index' = index + 1 /\ UNCHANGED <<turn, feasible>>
              /\ retry' = retry \/ (turn = "initial" /\ retry' = Append(retry, index))
  BY DEF AttemptEnds, Finish, IInv, ControlTyped, PickTyped, AfterGrasp

LEMMA ControlTypedNext ==
  ASSUME IInv, Next
  PROVE  ControlTyped'
<1>1. now' \in 0..MaxNow
  BY TimeNext, Bounds DEF IInv, ControlTyped
<1>2. ControlTyped
  BY DEF IInv
<1> SUFFICES /\ cancel' \in BOOLEAN /\ poseToPose' \in BOOLEAN /\ pickOnly' \in BOOLEAN
             /\ pc' \in {"start", "pick", "attempt", "done"} \cup AfterGrasp
             /\ result' \in {"none", "found", "failed"}
             /\ (result' = "none" <=> pc' # "done")
  BY <1>1 DEF ControlTyped
<1>3. CASE Pick
  <2>1. CASE PregraspFails \/ ApproachFails \/ AcceptAttempt
    BY <1>2, <2>1, AttemptEndsFacts DEF PregraspFails, ApproachFails, AcceptAttempt, ControlTyped, AfterGrasp
  <2> QED
    BY <1>2, <1>3, <2>1
       DEF Pick, NominalFast, SkipFast, CollectTier, AttemptNext, InitialDone, RetryNext, PickFails,
           PlanPregrasp, BuildApproach, OpenAttempt, Finish, ControlTyped, AfterGrasp
<1>4. CASE Search
  <2>1. CASE PrecheckFails \/ SweepEnds
    BY <1>2, <2>1, AttemptEndsFacts DEF PrecheckFails, SweepEnds, SearchFails, ControlTyped, AfterGrasp
  <2> QED
    BY <1>2, <1>4, <2>1
       DEF Search, StartSearch, FastEndpoint, FastEndpointFails, FastFails, Precheck, SweepNext,
           ControlTyped, AfterGrasp, RoutePoints
<1>5. CASE Route
  BY <1>2, <1>5
     DEF Route, BeginRoute, RouteBegins, BeginFails, RouteFails, FastFails, SegmentReached, CartesianSegment,
         CachedSegment, JointSegment, ObjectPath, Appended, SegmentStopped, SegmentsEnd, RouteThrows,
         RestoreBox, RestoreFails, RouteRejected, AcceptCarry, ControlTyped, AfterGrasp, RoutePoints
<1>6. CASE Place
  BY <1>2, <1>6
     DEF Place, StartReturn, PlanRetreat, PlanToNamedTarget, Stage, NextRetreat, ReturnFails,
         RouteFails, FastFails, CaptureReturn, PlaceLate, AcceptPlace, ControlTyped, AfterGrasp,
         RoutePoints, ReturnPoints
<1>7. CASE Cancel \/ Done
  BY <1>2, <1>7 DEF Cancel, Done, vars, ControlTyped
<1> QED
  BY <1>3, <1>4, <1>5, <1>6, <1>7 DEF Next, Step

LEMMA StackTypedNext ==
  ASSUME IInv, Next
  PROVE  StackTyped'
<1>1. Descending(deadlines) /\ Len(deadlines) = Scopes
  BY DEF IInv, StackTyped
<1>2. \/ pc \in {"start", "pick", "done"} /\ Len(deadlines) = 1
      \/ /\ pc \in {"attempt", "approach", "search", "precheck", "sweep", "accept"}
         /\ Len(deadlines) = 2 /\ ~search.fast
      \/ /\ pc \in RoutePoints \cup ReturnPoints
         /\ Len(deadlines) = IF search.fast THEN 3 ELSE 2
  BY <1>1 DEF Scopes, RoutePoints, ReturnPoints, AfterGrasp, IInv, ControlTyped, SearchTyped, SearchRecord
<1>3. /\ \A limit \in Nat : /\ Descending(Scoped(deadlines, limit))
                            /\ Len(Scoped(deadlines, limit)) = Len(deadlines) + 1
      /\ Descending(<<deadlines[1]>>) /\ Len(<<deadlines[1]>>) = 1
  BY <1>1, <1>2, ScopedFacts, FirstFacts
<1>4. Len(deadlines) > 1 =>
        /\ Descending(Restored(deadlines)) /\ Len(Restored(deadlines)) = Len(deadlines) - 1
        /\ Descending(SubSeq(deadlines, 1, 2)) /\ Len(SubSeq(deadlines, 1, 2)) = 2
  <2> SUFFICES ASSUME Len(deadlines) > 1
               PROVE  /\ Descending(Restored(deadlines)) /\ Len(Restored(deadlines)) = Len(deadlines) - 1
                      /\ Descending(SubSeq(deadlines, 1, 2)) /\ Len(SubSeq(deadlines, 1, 2)) = 2
    OBVIOUS
  <2>1. 2 \in 1..Len(deadlines)
    BY <1>2
  <2> QED
    BY <1>1, <2>1, RestoredFacts, SubSeqFacts
<1>5. /\ now \in Nat /\ search.by \in Nat /\ search.routeBy \in Nat
  BY Bounds DEF IInv, ControlTyped, SearchTyped, SearchRecord
<1>6. /\ pc' \in {"start", "pick", "done"} => Scopes' = 1
      /\ pc' \in {"attempt", "approach", "search", "precheck", "sweep", "accept"} => Scopes' = 2
      /\ pc' \in RoutePoints \cup ReturnPoints => Scopes' = IF search'.fast THEN 3 ELSE 2
  BY DEF Scopes, RoutePoints, ReturnPoints
<1> SUFFICES Descending(deadlines') /\ Len(deadlines') = Scopes'
  BY DEF StackTyped
<1>7. CASE Pick
  <2>1. CASE NominalFast \/ AttemptNext \/ RetryNext
    <3>1. Remaining \in Nat /\ now + Remaining \in Nat /\ now + PregraspTime \in Nat
      <4>1. now - collected \in Int /\ PregraspTime \in Nat
        BY <1>5, Bounds DEF IInv, PickTyped
      <4> QED
        BY <4>1, <1>5 DEF Remaining, Left
    <3>2. CASE pc' = "attempt"
      <4>1. PICK limit \in Nat : deadlines' = Scoped(deadlines, limit)
        BY <2>1, <3>1, <3>2 DEF NominalFast, AttemptNext, RetryNext, OpenAttempt
      <4>2. pc \in {"start", "pick"}
        BY <2>1 DEF NominalFast, AttemptNext, RetryNext
      <4>3. Len(deadlines) = 1
        BY <1>2, <4>2 DEF RoutePoints, ReturnPoints
      <4> QED
        BY <1>3, <3>2, <4>1, <4>3, <1>6
    <3>3. CASE pc' # "attempt"
      BY <1>1, <1>2, <2>1, <3>3 DEF NominalFast, AttemptNext, RetryNext, OpenAttempt, Scopes
    <3> QED
      BY <3>2, <3>3
  <2>2. CASE PregraspFails \/ ApproachFails \/ AcceptAttempt
    BY <1>3, <2>2, AttemptEndsFacts DEF PregraspFails, ApproachFails, AcceptAttempt, Scopes
  <2> QED
    BY <1>1, <1>2, <1>7, <2>1, <2>2
       DEF Pick, SkipFast, CollectTier, InitialDone, PickFails, PlanPregrasp, BuildApproach, Finish, Scopes
<1>8. CASE Search
  <2>1. CASE StartSearch
    <3>1. PICK by \in Int : by = Least(Active(deadlines), now + SearchTime)
      <4>1. Active(deadlines) \in Nat /\ now + SearchTime \in Int
        <5>1. Active(deadlines) \in Nat
          BY <2>1, Limits DEF StartSearch, AfterGrasp
        <5>2. SearchTime \in Nat
          BY Bounds DEF SearchTime
        <5> QED
          BY <1>5, <5>1, <5>2
      <4> QED
        BY <4>1, LeastFacts
    <3>2. FastTime(Left(by, now)) \in Nat
      <4>1. PICK left \in Nat : left = Left(by, now)
        BY <1>5, LeftFacts
      <4>2. EndpointRoute(left, Slack, CandidateTime, Segments) \in Nat
        BY Bounds, EndpointRouteFacts
      <4>3. FastAttempt(left, EndpointRoute(left, Slack, CandidateTime, Segments)) \in Nat
        BY <4>2, FastAttemptFacts
      <4> QED
        BY <4>1, <4>3 DEF FastTime
    <3>3. now + FastTime(Left(by, now)) \in Nat
      BY <1>5, <3>2
    <3>4. CASE poseToPose
      <4>1. /\ deadlines' = Scoped(deadlines, now + FastTime(Left(by, now))) /\ pc' = "endpoint"
            /\ search' = [search EXCEPT !.began = now, !.by = by,
                                        !.routeBy = now + FastTime(Left(by, now)), !.fast = TRUE]
        BY <2>1, <3>1, <3>4 DEF StartSearch
      <4>2. search'.fast
        BY <4>1 DEF IInv, SearchTyped, SearchRecord
      <4>3. Len(deadlines) = 2
        BY <1>2, <2>1 DEF StartSearch, RoutePoints, ReturnPoints
      <4> QED
        BY <1>3, <3>3, <4>1, <4>2, <4>3, <1>6 DEF RoutePoints
    <3>5. CASE ~poseToPose
      BY <1>1, <1>2, <2>1, <3>5 DEF StartSearch, Scopes
    <3> QED
      BY <3>4, <3>5
  <2>2. CASE PrecheckFails \/ SweepEnds
    BY <1>3, <2>2, AttemptEndsFacts DEF PrecheckFails, SweepEnds, SearchFails, Scopes
  <2>3. CASE FastEndpoint \/ SweepNext \/ Precheck
    BY <1>1, <1>2, <2>3
       DEF FastEndpoint, SweepNext, Precheck, Scopes, IInv, SearchTyped, SearchRecord, RoutePoints,
           ReturnPoints
  <2>4. CASE FastEndpointFails
    <3>1. Len(deadlines) = 3
      BY <1>2, <2>4 DEF FastEndpointFails, IInv, SearchTyped, SearchRecord, RoutePoints
    <3> QED
      BY <1>4, <2>4, <3>1, <1>6 DEF FastEndpointFails, FastFails
  <2> QED
    BY <1>8, <2>1, <2>2, <2>3, <2>4 DEF Search
<1>9. ASSUME NEW time, RouteFails(time), pc \in RoutePoints \cup ReturnPoints
      PROVE  Descending(deadlines') /\ Len(deadlines') = Scopes'
  <2>1. Len(deadlines) = IF search.fast THEN 3 ELSE 2
    BY <1>2, <1>9 DEF RoutePoints, ReturnPoints
  <2>2. CASE search.fast
    <3>1. deadlines' = Restored(deadlines) /\ pc' = "precheck"
      BY <1>9, <2>2 DEF RouteFails, FastFails
    <3>2. Len(deadlines) = 3
      BY <2>1, <2>2
    <3> QED
      BY <1>4, <3>1, <3>2, <1>6
  <2>3. CASE ~search.fast
    <3>1. deadlines' = deadlines /\ pc' = "sweep"
      BY <1>9, <2>3 DEF RouteFails
    <3> QED
      BY <1>1, <2>1, <2>3, <3>1, <1>6
  <2> QED
    BY <2>2, <2>3
<1>10. CASE Route
  <2>1. CASE BeginFails \/ RouteThrows \/ RestoreFails \/ RouteRejected
    BY <1>9, <2>1 DEF BeginFails, RouteThrows, RestoreFails, RouteRejected, RoutePoints
  <2>2. ASSUME NEW outcomes, NEW n, Appended(outcomes, n), pc = "segments"
        PROVE  Descending(deadlines') /\ Len(deadlines') = Scopes'
    BY <1>1, <1>2, <2>2 DEF Appended, Scopes, IInv, SearchTyped, SearchRecord
  <2>3. CASE SegmentReached \/ CartesianSegment \/ CachedSegment \/ JointSegment \/ ObjectPath
    BY <2>2, <2>3 DEF SegmentReached, CartesianSegment, CachedSegment, JointSegment, ObjectPath, AtSegment
  <2>4. CASE AcceptCarry
    BY <1>2, <1>4, <2>4 DEF AcceptCarry, Scopes, RoutePoints
  <2> QED
    BY <1>1, <1>2, <1>10, <2>1, <2>3, <2>4
       DEF Route, BeginRoute, RouteBegins, SegmentStopped, SegmentsEnd, RestoreBox, Scopes, IInv, SearchTyped,
           SearchRecord, RoutePoints
<1>11. CASE Place
  <2>1. CASE ReturnFails \/ PlaceLate
    BY <1>9, <2>1 DEF ReturnFails, PlaceLate, ReturnPoints
  <2>2. CASE AcceptPlace
    BY <1>2, <1>4, <2>2 DEF AcceptPlace, Scopes, ReturnPoints
  <2> QED
    BY <1>1, <1>2, <1>11, <2>1, <2>2
       DEF Place, StartReturn, PlanRetreat, PlanToNamedTarget, Stage, NextRetreat, CaptureReturn, Scopes,
           RoutePoints, ReturnPoints
<1>12. CASE Cancel \/ Done
  BY <1>1, <1>12 DEF Cancel, Done, vars, Scopes
<1> QED
  BY <1>7, <1>8, <1>10, <1>11, <1>12 DEF Next, Step

-----------------------------------------------------------------------------
(* The candidates and the attempts they get. *)

LEMMA TierEndFits ==
  ASSUME IInv
  PROVE  TierEnd \in Int /\ TierEnd <= Grasps
<1>1. cursor \in Nat /\ Grasps \in Nat
  BY Bounds DEF IInv, PickTyped
<1>2. PICK tier \in Int : tier = cursor \div TierSize + 1
  BY <1>1, Bounds
<1>3. PICK end \in Int : end = tier * TierSize
  BY Bounds
<1> QED
  BY <1>1, <1>2, <1>3 DEF TierEnd, Least

LEMMA SolvedFacts ==
  ASSUME cursor \in Nat, NEW last \in cursor..Grasps, NEW tier \in Solved(last)
  PROVE  tier \in Seq(1..Grasps) /\ Len(tier) <= last - cursor
<1>1. PICK found \in SUBSET (cursor + 1..last) : tier \in SetToSeqs(found)
  BY DEF Solved
<1>2. last \in Nat /\ Grasps \in Nat /\ found \subseteq 1..Grasps
  BY Bounds
<1>3. /\ IsFiniteSet(cursor + 1..last)
      /\ Cardinality(cursor + 1..last) = IF cursor + 1 > last THEN 0 ELSE last - (cursor + 1) + 1
  BY <1>2, FS_Interval
<1>4. Cardinality(cursor + 1..last) = last - cursor
  BY <1>2, <1>3
<1>5. Cardinality(found) \in Nat /\ Cardinality(found) <= last - cursor
  BY <1>3, <1>4, FS_Subset, FS_CardinalityType
<1>6. tier \in [1..Cardinality(found) -> found]
  BY <1>1 DEF SetToSeqs
<1>7. PICK k \in Nat : k = Cardinality(found) /\ k <= last - cursor
  BY <1>5
<1>8. tier \in [1..k -> 1..Grasps]
  BY <1>2, <1>6, <1>7
<1>9. tier \in Seq(1..Grasps)
  BY <1>8, SeqDef
<1>10. Len(tier) = k
  <2>1. DOMAIN tier = 1..k /\ DOMAIN tier = 1..Len(tier) /\ Len(tier) \in Nat
    BY <1>8, <1>9, LenProperties
  <2> QED
    BY <2>1
<1> QED
  BY <1>7, <1>9, <1>10

\* No candidate is tried again twice.
LEMMA RetryFits ==
  ASSUME IInv
  PROVE  Len(retry) \in Nat /\ Len(retry) <= Len(feasible)
<1>1. /\ retry \in Seq(Nat \ {0}) /\ \A i \in 1..Len(retry) : retry[i] <= Len(feasible)
      /\ Cardinality(ToSet(retry)) = Len(retry) /\ Len(feasible) \in Nat
  BY DEF IInv, RetryTyped, PickTyped
<1>2. ToSet(retry) \subseteq 1..Len(feasible)
  BY <1>1 DEF ToSet
<1>3. PICK n \in Nat : n = Len(feasible)
  BY <1>1
<1>4. IsFiniteSet(1..n) /\ Cardinality(1..n) = IF 1 > n THEN 0 ELSE n - 1 + 1
  BY FS_Interval
<1>5. Cardinality(1..n) = n
  BY <1>4
<1>6. Cardinality(ToSet(retry)) <= Cardinality(1..n)
  BY <1>2, <1>3, <1>4, FS_Subset
<1> QED
  BY <1>1, <1>3, <1>5, <1>6

\* What a step adds to a time that is part of the clock's.
LEMMA SpanFacts ==
  ASSUME NEW before \in Nat, NEW after \in Nat, before <= after
  PROVE  /\ after - before \in 0..after
         /\ \A spent \in 0..before : spent + (after - before) \in 0..after
  OBVIOUS

LEMMA PickTypedNext ==
  ASSUME IInv, Next
  PROVE  PickTyped'
<1>1. now' \in Nat /\ now \in Nat /\ now <= now' /\ Grasps \in Nat \ {0}
  BY TimeNext, Bounds DEF IInv, ControlTyped
<1>2. PickTyped /\ pc \in {"start", "pick", "attempt", "done"} \cup AfterGrasp
  BY DEF IInv, ControlTyped
<1>3. Len(feasible) \in Nat /\ Len(retry) \in Nat
  BY DEF IInv, PickTyped, RetryTyped
<1>4. ASSUME UNCHANGED pick_vars, pc \in {"attempt"} \cup AfterGrasp, pc' \in AfterGrasp
      PROVE  PickTyped'
  BY <1>1, <1>2, <1>4 DEF PickTyped, AfterGrasp, RoutePoints, ReturnPoints
<1>5. ASSUME NEW verdict, NEW time, AttemptEnds(verdict, time), UNCHANGED <<cursor, collected>>,
             pc \in {"attempt", "approach", "precheck", "sweep", "accept"}
      PROVE  PickTyped'
  <2>1. CASE pc' = "done"
    BY <1>1, <1>2, <1>5, <2>1, AttemptEndsFacts DEF PickTyped, AfterGrasp, RoutePoints, ReturnPoints
  <2>2. CASE pc' = "pick" /\ turn = "fast"
    <3>1. turn' = "initial" /\ feasible' = <<>> /\ index' = index /\ retry' = retry
      BY <1>5, <2>2, AttemptEndsFacts
    <3>2. Len(<<>>) = 0 /\ <<>> \in Seq(1..Grasps)
      OBVIOUS
    <3> QED
      BY <1>1, <1>2, <1>5, <2>2, <3>1, <3>2 DEF PickTyped, AfterGrasp, RoutePoints, ReturnPoints
  <2>3. CASE pc' = "pick" /\ turn # "fast"
    <3>1. turn' = turn /\ feasible' = feasible /\ index' = index + 1
      BY <1>5, <2>3, AttemptEndsFacts
    <3>2. index <= Grasps
      <4>1. turn = "initial" => index <= Len(feasible)
        BY <1>2, <1>5 DEF PickTyped, AfterGrasp
      <4>2. turn = "retry" => index <= Len(retry) /\ Len(retry) <= Len(feasible)
        BY <1>2, <1>5, RetryFits DEF PickTyped, AfterGrasp
      <4>3. turn \in {"initial", "retry"} /\ Len(feasible) <= Grasps /\ index \in Nat
        BY <1>1, <1>2, <2>3 DEF PickTyped
      <4> QED
        BY <1>1, <1>3, <4>1, <4>2, <4>3
    <3> QED
      BY <1>1, <1>2, <1>5, <2>3, <3>1, <3>2 DEF PickTyped, AfterGrasp, RoutePoints, ReturnPoints
  <2> QED
    BY <1>5, <2>1, <2>2, <2>3, AttemptEndsFacts
<1>6. CASE Pick
  <2>1. CASE PregraspFails \/ ApproachFails \/ AcceptAttempt
    BY <1>5, <2>1 DEF PregraspFails, ApproachFails, AcceptAttempt
  <2>2. CASE PlanPregrasp \/ BuildApproach
    BY <1>4, <2>2 DEF PlanPregrasp, BuildApproach, AfterGrasp
  <2>3. CASE NominalFast
    <3>1. collected' = now' - now /\ cursor' = cursor /\ index' = index /\ retry' = retry
      BY <2>3 DEF NominalFast
    <3>2. turn = "fast" /\ feasible = <<>> /\ cursor = 0 /\ index = 1 /\ retry = <<>>
      BY <1>2, <2>3 DEF NominalFast, PickTyped
    <3>3. collected' \in 0..now'
      <4>1. now' - now \in 0..now'
        BY <1>1, SpanFacts
      <4> QED
        BY <3>1, <4>1
    <3>4. /\ <<>> \in Seq(1..Grasps) /\ Len(<<>>) = 0 /\ 1 \in 1..(Grasps + 1)
          /\ <<1>> \in Seq(1..Grasps) /\ Len(<<1>>) = 1
      BY <1>1
    <3>5. CASE feasible' = <<1>> /\ turn' = turn /\ pc' = "attempt"
      <4>1. /\ turn' = "fast" /\ cursor' = 0 /\ index' = 1 /\ retry' = <<>> /\ 0 \in 0..Grasps
            /\ feasible' \in Seq(1..Grasps) /\ Len(feasible') = 1 /\ 1 <= Grasps
        BY <1>1, <3>1, <3>2, <3>4, <3>5
      <4> QED
        BY <3>3, <3>4, <3>5, <4>1 DEF PickTyped
    <3>6. CASE feasible' = feasible /\ turn' = "initial" /\ pc' = "pick"
      <4>1. /\ cursor' = 0 /\ index' = 1 /\ retry' = <<>> /\ 0 \in 0..Grasps
            /\ feasible' \in Seq(1..Grasps) /\ Len(feasible') = 0 /\ 0 <= Grasps
        BY <1>1, <3>1, <3>2, <3>4, <3>6
      <4> QED
        BY <3>3, <3>4, <3>6, <4>1 DEF PickTyped, AfterGrasp, RoutePoints, ReturnPoints
    <3> QED
      BY <2>3, <3>5, <3>6 DEF NominalFast, OpenAttempt
  <2>4. CASE CollectTier
    <3>1. PICK n \in cursor..TierEnd :
            /\ now' \in Later /\ collected' = collected + (now' - now) /\ cursor' = n
            /\ \E tier \in Solved(n) : feasible' = feasible \o tier
            /\ UNCHANGED <<pc, turn, index, retry>>
      BY <2>4 DEF CollectTier
    <3>9. PICK tier \in Solved(n) : feasible' = feasible \o tier
      BY <3>1
    <3>2. cursor \in Nat
      BY <1>2 DEF PickTyped
    <3>3. n \in cursor..Grasps /\ n \in Nat
      BY <1>1, <3>1, <3>2, TierEndFits
    <3>4. tier \in Seq(1..Grasps) /\ Len(tier) <= n - cursor
      BY <3>2, <3>3, SolvedFacts
    <3>5. /\ feasible \in Seq(1..Grasps) /\ Len(feasible) <= cursor /\ turn = "initial" /\ pc = "pick"
      BY <1>2, <2>4 DEF CollectTier, Collecting, PickTyped
    <3>6. feasible' \in Seq(1..Grasps) /\ Len(feasible') = Len(feasible) + Len(tier)
      BY <3>9, <3>4, <3>5
    <3>7. Len(feasible') <= cursor' /\ cursor' \in 0..Grasps
      <4>1. Len(tier) \in Nat /\ cursor' = n
        BY <3>1, <3>4
      <4> QED
        BY <1>3, <3>2, <3>3, <3>4, <3>5, <3>6, <4>1, <1>1
    <3>8. collected' \in 0..now'
      <4>1. collected \in 0..now /\ collected' = collected + (now' - now)
        BY <1>2, <3>1 DEF PickTyped
      <4>2. collected + (now' - now) \in 0..now'
        BY <1>1, <4>1, SpanFacts
      <4> QED
        BY <4>1, <4>2
    <3>10. Len(feasible') \in Nat /\ index' \in 1..(Grasps + 1) /\ turn' = "initial" /\ pc' = "pick"
      BY <1>2, <3>1, <3>5, <3>6 DEF PickTyped
    <3> QED
      BY <1>1, <3>6, <3>7, <3>8, <3>10 DEF PickTyped, AfterGrasp, RoutePoints, ReturnPoints
  <2>5. CASE AttemptNext \/ RetryNext
    <3>1. index <= IF turn = "retry" THEN Len(retry) ELSE Len(feasible)
      <4>1. CASE AttemptNext
        BY <4>1 DEF AttemptNext
      <4>2. CASE RetryNext
        <5>1. turn = "retry" /\ index <= RetryCount /\ index \in Nat /\ MaxRetry \in Nat
          BY <1>1, <1>2, <4>2, Bounds DEF RetryNext, PickTyped
        <5> QED
          BY <1>3, <5>1 DEF RetryCount, Least
      <4> QED
        BY <2>5, <4>1, <4>2
    <3>2. UNCHANGED pick_vars /\ now' = now /\ pc' = "attempt" /\ pc = "pick"
      BY <2>5 DEF AttemptNext, RetryNext, OpenAttempt
    <3> QED
      BY <1>2, <3>1, <3>2 DEF PickTyped
  <2>6. CASE SkipFast \/ InitialDone
    <3>1. /\ now' = now /\ UNCHANGED <<cursor, collected, feasible, retry>> /\ pc' = "pick"
          /\ turn' \in {"initial", "retry"} /\ index' \in {index, 1}
      BY <2>6 DEF SkipFast, InitialDone
    <3>2. SkipFast => cursor = 0 /\ feasible = <<>>
      BY <1>2 DEF SkipFast, PickTyped
    <3>3. Len(feasible) <= cursor
      BY <1>2, <2>6, <3>2 DEF InitialDone, PickTyped
    <3> QED
      BY <1>1, <1>2, <3>1, <3>3 DEF PickTyped, AfterGrasp, RoutePoints, ReturnPoints
  <2>7. CASE PickFails
    BY <1>1, <1>2, <2>7 DEF PickFails, Finish, PickTyped, AfterGrasp, RoutePoints, ReturnPoints
  <2> QED
    BY <1>6, <2>1, <2>2, <2>3, <2>4, <2>5, <2>6, <2>7 DEF Pick
<1>7. CASE Search
  <2>1. CASE PrecheckFails \/ SweepEnds
    BY <1>5, <2>1 DEF PrecheckFails, SweepEnds, SearchFails
  <2> QED
    BY <1>4, <1>7, <2>1
       DEF Search, StartSearch, FastEndpoint, FastEndpointFails, FastFails, Precheck, SweepNext,
           AfterGrasp, RoutePoints
<1>8. CASE Route
  BY <1>4, <1>8
     DEF Route, BeginRoute, RouteBegins, BeginFails, RouteFails, FastFails, SegmentReached, CartesianSegment,
         CachedSegment, JointSegment, ObjectPath, AtSegment, Appended, SegmentStopped, SegmentsEnd,
         RouteThrows, RestoreBox, RestoreFails, RouteRejected, AcceptCarry, AfterGrasp, RoutePoints
<1>9. CASE Place
  BY <1>4, <1>9
     DEF Place, StartReturn, PlanRetreat, PlanToNamedTarget, Stage, NextRetreat, ReturnFails,
         RouteFails, FastFails, CaptureReturn, PlaceLate, AcceptPlace, AfterGrasp, RoutePoints, ReturnPoints
<1>10. CASE Cancel \/ Done
  BY <1>1, <1>2, <1>10 DEF Cancel, Done, vars, PickTyped
<1> QED
  BY <1>6, <1>7, <1>8, <1>9, <1>10 DEF Next, Step

LEMMA RetryTypedNext ==
  ASSUME IInv, Next
  PROVE  RetryTyped'
<1>1. RetryTyped /\ index \in Nat \ {0} /\ feasible \in Seq(1..Grasps)
  BY Bounds DEF IInv, PickTyped
<1>2. Len(feasible) \in Nat /\ Len(retry) \in Nat
  BY <1>1 DEF RetryTyped
<1>3. ASSUME UNCHANGED <<retry, index, feasible, turn>>
      PROVE  RetryTyped'
  BY <1>1, <1>3 DEF RetryTyped
<1>4. ASSUME NEW verdict, NEW time, AttemptEnds(verdict, time),
             pc \in {"attempt", "approach", "precheck", "sweep", "accept"}
      PROVE  RetryTyped'
  <2>1. CASE pc' = "done"
    <3>1. UNCHANGED <<turn, feasible, index>>
      BY <1>4, <2>1, AttemptEndsFacts
    <3>2. UNCHANGED retry
      BY <1>4, <2>1, AttemptEndsFacts
    <3> QED
      BY <1>3, <3>1, <3>2
  <2>2. CASE pc' = "pick" /\ turn = "fast"
    <3>1. retry' = <<>>
      BY <1>4, <2>2, AttemptEndsFacts DEF IInv, PickTyped
    <3>2. ToSet(<<>>) = {}
      BY DEF ToSet
    <3> QED
      BY <3>1, <3>2, FS_EmptySet DEF RetryTyped
  <2>3. CASE pc' = "pick" /\ turn # "fast" /\ retry' = retry
    <3>1. turn' = turn /\ feasible' = feasible /\ index' = index + 1
      BY <1>4, <2>3, AttemptEndsFacts
    <3> QED
      BY <1>1, <2>3, <3>1 DEF RetryTyped
  <2>4. CASE pc' = "pick" /\ turn = "initial" /\ retry' = Append(retry, index)
    <3>1. turn' = turn /\ feasible' = feasible /\ index' = index + 1
      BY <1>4, <2>4, AttemptEndsFacts
    <3>2. index <= Len(feasible)
      BY <1>4, <2>4 DEF IInv, PickTyped, AfterGrasp
    <3>3. /\ retry' \in Seq(Nat \ {0}) /\ Len(retry') = Len(retry) + 1
          /\ \A i \in 1..Len(retry) : retry'[i] = retry[i]
          /\ retry'[Len(retry) + 1] = index
      BY <1>1, <2>4 DEF RetryTyped
    <3>4. index \notin ToSet(retry)
      <4>1. \A i \in 1..Len(retry) : retry[i] \in Nat /\ retry[i] < index
        BY <1>1, <2>4 DEF RetryTyped
      <4>2. index \in Nat /\ DOMAIN retry = 1..Len(retry)
        BY <1>1 DEF RetryTyped
      <4> QED
        BY <4>1, <4>2 DEF ToSet
    <3>5. ToSet(retry') = ToSet(retry) \cup {index}
      <4>1. /\ DOMAIN retry = 1..Len(retry) /\ DOMAIN retry' = 1..(Len(retry) + 1)
        BY <1>1, <1>2, <3>3 DEF RetryTyped
      <4>2. 1..(Len(retry) + 1) = 1..Len(retry) \cup {Len(retry) + 1}
        BY <1>2
      <4> QED
        BY <3>3, <4>1, <4>2 DEF ToSet
    <3>6. IsFiniteSet(ToSet(retry')) /\ Cardinality(ToSet(retry')) = Cardinality(ToSet(retry)) + 1
      BY <1>1, <3>4, <3>5, FS_AddElement DEF RetryTyped
    <3>7. \A i \in 1..Len(retry') : retry'[i] <= Len(feasible') /\ retry'[i] < index'
      BY <1>1, <1>2, <2>4, <3>1, <3>2, <3>3 DEF RetryTyped
    <3> QED
      BY <1>1, <3>3, <3>6, <3>7 DEF RetryTyped
  <2> QED
    BY <1>4, <2>1, <2>2, <2>3, <2>4, AttemptEndsFacts
<1>5. CASE CollectTier
  <2>1. PICK n \in cursor..TierEnd : \E t \in Solved(n) : feasible' = feasible \o t
    BY <1>5 DEF CollectTier
  <2>6. PICK tier \in Solved(n) : feasible' = feasible \o tier
    BY <2>1
  <2>2. cursor \in Nat /\ n \in cursor..Grasps
    BY TierEndFits, Bounds DEF IInv, PickTyped
  <2>3. tier \in Seq(1..Grasps)
    BY <2>2, SolvedFacts
  <2>4. Len(feasible) <= Len(feasible')
    BY <1>1, <2>6, <2>3
  <2>5. Len(feasible') \in Nat
    BY <1>1, <2>6, <2>3
  <2> QED
    BY <1>1, <1>2, <1>5, <2>4, <2>5 DEF CollectTier, RetryTyped
<1>6. CASE retry = <<>> /\ retry' = <<>>
  <2>1. ToSet(<<>>) = {}
    BY DEF ToSet
  <2> QED
    BY <1>6, <2>1, FS_EmptySet DEF RetryTyped
<1>7. CASE Pick
  <2>1. CASE PregraspFails \/ ApproachFails \/ AcceptAttempt
    BY <1>4, <2>1 DEF PregraspFails, ApproachFails, AcceptAttempt
  <2>2. CASE NominalFast \/ SkipFast
    BY <1>6, <2>2 DEF NominalFast, SkipFast, IInv, PickTyped
  <2>3. CASE InitialDone
    BY <1>1, <2>3 DEF InitialDone, RetryTyped
  <2> QED
    BY <1>3, <1>5, <1>7, <2>1, <2>2, <2>3
       DEF Pick, AttemptNext, RetryNext, PickFails, PlanPregrasp, BuildApproach
<1>8. CASE Search
  <2>1. CASE PrecheckFails \/ SweepEnds
    BY <1>4, <2>1 DEF PrecheckFails, SweepEnds, SearchFails
  <2> QED
    BY <1>3, <1>8, <2>1
       DEF Search, StartSearch, FastEndpoint, FastEndpointFails, Precheck, SweepNext
<1>9. CASE Route
  BY <1>3, <1>9
     DEF Route, BeginRoute, RouteBegins, BeginFails, SegmentReached, CartesianSegment, CachedSegment, JointSegment,
         ObjectPath, Appended, SegmentStopped, SegmentsEnd, RouteThrows, RestoreBox, RestoreFails,
         RouteRejected, AcceptCarry
<1>10. CASE Place
  BY <1>3, <1>10
     DEF Place, StartReturn, PlanRetreat, PlanToNamedTarget, Stage, NextRetreat, ReturnFails,
         CaptureReturn, PlaceLate, AcceptPlace
<1>11. CASE Cancel \/ Done
  BY <1>3, <1>11 DEF Cancel, Done, vars
<1> QED
  BY <1>7, <1>8, <1>9, <1>10, <1>11 DEF Next, Step

-----------------------------------------------------------------------------
(* The carry and place searches, and the shares of time they hand out. *)

LEMMA FastTimeFacts ==
  ASSUME NEW remaining \in Nat
  PROVE  /\ FastTime(remaining) \in Nat /\ FastTime(remaining) <= remaining
         /\ search.leg = "place" => 5 * FastTime(remaining) <= remaining
<1>1. PICK nominal \in Nat : nominal = EndpointRoute(remaining, Slack, CandidateTime, Segments)
  BY Bounds, EndpointRouteFacts
<1>2. PICK fifth \in Nat : fifth = FastAttempt(remaining, nominal) /\ 5 * fifth <= remaining
  BY FastAttemptFacts
<1> QED
  BY <1>1, <1>2 DEF FastTime

LEMMA RouteTimeFacts ==
  ASSUME NEW remaining \in Nat
  PROVE  RouteTime(remaining) \in Nat /\ RouteTime(remaining) <= remaining
<1>1. PICK nominal \in Nat :
        nominal = EndpointRoute(remaining, Slack, CandidateTime, Segments) /\ nominal <= remaining
  BY Bounds, EndpointRouteFacts
<1>2. Least(SweepTime, remaining) \in Nat /\ Least(SweepTime, remaining) <= remaining
  BY Bounds DEF Least
<1> QED
  BY <1>1, <1>2 DEF RouteTime

LEMMA ContinuationTimeFacts ==
  ASSUME NEW remaining \in Nat
  PROVE  /\ ContinuationTime(remaining) \in Nat /\ ContinuationTime(remaining) <= remaining
         /\ search.end < search.ends => 2 * ContinuationTime(remaining) <= remaining
<1>1. Slack \in Nat /\ AttemptTime \in Nat /\ ReturnTime \in Nat /\ ReturnStages \in Nat
  BY Bounds
<1>2. CASE search.end < search.ends
  <2>1. ContinuationTime(remaining) =
          PlaceContinuation(remaining, Slack, AttemptTime, ReturnTime, ReturnStages, TRUE)
    BY <1>2, Zenon DEF ContinuationTime
  <2>2. PICK slice \in Nat :
          /\ slice = PlaceContinuation(remaining, Slack, AttemptTime, ReturnTime, ReturnStages, TRUE)
          /\ slice <= remaining /\ 2 * slice <= remaining
    BY <1>1, PlaceContinuationFacts
  <2> QED
    BY <2>1, <2>2
<1>3. CASE ~(search.end < search.ends)
  <2>1. ContinuationTime(remaining) =
          PlaceContinuation(remaining, Slack, AttemptTime, ReturnTime, ReturnStages, FALSE)
    BY <1>3 DEF ContinuationTime, PlaceContinuation
  <2>2. PICK slice \in Nat :
          /\ slice = PlaceContinuation(remaining, Slack, AttemptTime, ReturnTime, ReturnStages, FALSE)
          /\ slice <= remaining
    BY <1>1, PlaceContinuationFacts
  <2> QED
    BY <1>3, <2>1, <2>2
<1> QED
  BY <1>2, <1>3

\* A search that starts has time, and its fast path ends in it.
LEMMA StartSearchFacts ==
  ASSUME IInv, StartSearch
  PROVE  \E by \in Nat, fastBy \in Nat :
           /\ now <= fastBy /\ fastBy <= by
           /\ search.leg = "place" => 5 * (fastBy - now) <= by - now
           /\ \/ /\ poseToPose /\ pc' = "endpoint"
                 /\ search' = [search EXCEPT !.began = now, !.by = by, !.routeBy = fastBy, !.fast = TRUE]
                 /\ deadlines' = Scoped(deadlines, fastBy)
              \/ /\ ~poseToPose /\ pc' = "precheck"
                 /\ search' = [search EXCEPT !.began = now, !.by = by]
<1>1. now \in Nat /\ SearchTime \in Nat
  BY Bounds DEF IInv, ControlTyped, SearchTime
<1>2. Active(deadlines) \in Nat /\ now < Active(deadlines)
  <2>1. pc = "search" /\ Len(deadlines) = 2
    <3>1. pc = "search"
      BY DEF StartSearch
    <3> QED
      BY <3>1 DEF IInv, StackTyped, Scopes
  <2>2. Active(deadlines) = deadlines[2] /\ now < deadlines[2] /\ deadlines[2] \in Nat
    BY <2>1, Limits DEF Active, IInv, RouteInTime, AfterGrasp
  <2> QED
    BY <2>2
<1>3. PICK by \in Nat : by = Least(Active(deadlines), now + SearchTime) /\ now <= by
  BY <1>1, <1>2 DEF Least
<1>4. PICK left \in Nat : left = Left(by, now) /\ left = by - now
  BY <1>1, <1>3 DEF Left
<1>5. PICK share \in Nat :
        share = FastTime(left) /\ share <= left /\ (search.leg = "place" => 5 * share <= left)
  BY <1>4, FastTimeFacts
<1>6. PICK fastBy \in Nat : fastBy = now + share
  BY <1>1, <1>5
<1>7. /\ now <= fastBy /\ fastBy <= by
      /\ search.leg = "place" => 5 * (fastBy - now) <= by - now
  BY <1>1, <1>3, <1>4, <1>5, <1>6
<1>8. \/ /\ poseToPose /\ pc' = "endpoint"
         /\ search' = [search EXCEPT !.began = now, !.by = by, !.routeBy = fastBy, !.fast = TRUE]
         /\ deadlines' = Scoped(deadlines, fastBy)
      \/ /\ ~poseToPose /\ pc' = "precheck"
         /\ search' = [search EXCEPT !.began = now, !.by = by]
  BY <1>3, <1>4, <1>5, <1>6 DEF StartSearch
<1> QED
  BY <1>7, <1>8

\* A route of the sweep ends within its search, and goes to an endpoint there is.
LEMMA SweepNextFacts ==
  ASSUME IInv, SweepNext
  PROVE  \E end \in Nat, route \in 0..(Routes + 1), routeBy \in Nat :
           /\ end <= search.ends /\ now <= routeBy /\ routeBy <= search.by
           /\ search' = [search EXCEPT !.route = route, !.end = end, !.routeBy = routeBy, !.seg = 0]
<1>1. /\ now \in Nat /\ search.by \in Nat /\ search.end \in Nat /\ search.ends \in Nat
      /\ search.route \in 0..(Routes + 1)
  BY Bounds DEF IInv, ControlTyped, SearchTyped, SearchRecord
<1>2. pc = "sweep" /\ ~search.fast /\ search.ends > 0 /\ now < search.by
  BY DEF SweepNext, IInv, SearchTyped, RoutePoints, ReturnPoints
<1>3. PICK end \in Nat, route \in 0..(Routes + 1) : NextPair = <<route, end>> /\ end <= search.ends
  <2>1. CASE search.end < search.ends
    BY <1>1, <2>1 DEF NextPair
  <2>2. CASE ~(search.end < search.ends)
    <3>1. NextPair = <<search.route + 1, 1>>
      BY <2>2 DEF NextPair
    <3>2. NextPair[1] <= Routes
      BY DEF SweepNext
    <3>3. search.route + 1 \in 0..(Routes + 1) /\ 1 <= search.ends
      BY <1>1, <1>2, <3>1, <3>2, Bounds
    <3> QED
      BY <3>1, <3>3
  <2> QED
    BY <2>1, <2>2
<1>4. PICK left \in Nat : left = search.by - now
  BY <1>1, <1>2
<1>5. PICK share \in Nat : share = RouteTime(left) /\ share <= left
  BY <1>4, RouteTimeFacts
<1>6. PICK routeBy \in Nat : routeBy = now + share /\ now <= routeBy /\ routeBy <= search.by
  BY <1>1, <1>4, <1>5
<1>7. search' = [search EXCEPT !.route = route, !.end = end, !.routeBy = routeBy, !.seg = 0]
  BY <1>3, <1>4, <1>5, <1>6 DEF SweepNext
<1> QED
  BY <1>3, <1>6, <1>7

\* A return is given a time of the clock, within that of the fast path if it is its, or
\* with its share of what is left.
LEMMA StartReturnFacts ==
  ASSUME IInv, StartReturn
  PROVE  \E by \in Nat :
           /\ back' = [by |-> by, began |-> now, stage |-> 0, distance |-> 1]
           /\ search.fast => by <= search.routeBy
           /\ ~search.fast /\ search.end < search.ends /\ now < by => 2 * (by - now) <= search.by - now
<1>1. /\ now \in Nat /\ search.by \in Nat /\ search.routeBy \in Nat /\ ReturnTime \in Nat
  BY Bounds DEF IInv, ControlTyped, SearchTyped, SearchRecord
<1>2. deadlines[1] \in Nat
  BY Limits DEF StartReturn, AfterGrasp, RoutePoints
<1>3. PICK left \in Nat :
        /\ left = Left(search.by, now)
        /\ now < search.by => left = search.by - now
        /\ search.by <= now => left = 0
  BY <1>1 DEF Left
<1>4. PICK share \in Nat :
        share = ContinuationTime(left) /\ share <= left /\ (search.end < search.ends => 2 * share <= left)
  BY ContinuationTimeFacts
<1>5. PICK limit \in Nat :
        /\ limit = IF search.fast THEN search.routeBy ELSE now + ContinuationTime(Left(search.by, now))
        /\ search.fast => limit = search.routeBy
        /\ ~search.fast => limit = now + share
  BY <1>1, <1>3, <1>4
<1>6. PICK by \in Nat : by = Least(Least(limit, deadlines[1]), now + ReturnTime) /\ by <= limit
  BY <1>1, <1>2 DEF Least
<1>7. back' = [by |-> by, began |-> now, stage |-> 0, distance |-> 1]
  BY <1>5, <1>6 DEF StartReturn
<1>8. ~search.fast /\ search.end < search.ends /\ now < by => 2 * (by - now) <= search.by - now
  BY <1>1, <1>3, <1>4, <1>5, <1>6
<1>9. search.fast => by <= search.routeBy
  BY <1>5, <1>6
<1> QED
  BY <1>7, <1>8, <1>9

-----------------------------------------------------------------------------
(* The records of the search and of the return. *)

LEMMA EmptyRecords == NoSearch \in SearchRecord /\ NoReturn \in ReturnRecord
<1>1. 0 \in 0..(Routes + 1) /\ 0 \in 0..(CarryEnds + PlaceEnds) /\ 0 \in 0..Segments
  BY Bounds
<1>2. 0 \in 0..ReturnStages /\ 0 \in 0..Retreats
  BY Bounds
<1> QED
  BY <1>1, <1>2 DEF NoSearch, NoReturn, SearchRecord, ReturnRecord, Places

LEMMA RouteFailsFacts ==
  ASSUME IInv, NEW time, RouteFails(time)
  PROVE  /\ pc' \in {"precheck", "sweep"} /\ now' = time
         /\ search'.leg = search.leg /\ ~search'.fast
         /\ search' = WithoutRoute
         /\ pc' = "sweep" => ~search.fast
<1>1. WithoutRoute.leg = search.leg /\ WithoutRoute.fast = FALSE
  BY DEF WithoutRoute, IInv, SearchTyped, SearchRecord
<1> QED
  BY <1>1 DEF RouteFails, FastFails

LEMMA WithoutRouteFacts ==
  ASSUME IInv
  PROVE  /\ WithoutRoute \in SearchRecord /\ WithoutRoute.fast = FALSE
         /\ \A f \in {"leg", "began", "by", "routeBy", "end", "ends"} : WithoutRoute[f] = search[f]
<1>1. search \in SearchRecord
  BY DEF IInv, SearchTyped
<1>2. 0 \in 0..Segments /\ Observed \in Places
  BY Bounds DEF Places
<1> QED
  BY <1>1, <1>2 DEF WithoutRoute, SearchRecord

\* The candidate of the running attempt.
LEMMA CandidateFits ==
  ASSUME IInv, pc \in {"attempt"} \cup AfterGrasp
  PROVE  Candidate \in 1..Grasps
<1>1. /\ feasible \in Seq(1..Grasps) /\ Len(feasible) \in Nat /\ index \in 1..(Grasps + 1)
      /\ index <= (IF turn = "retry" THEN Len(retry) ELSE Len(feasible))
  BY DEF IInv, PickTyped
<1>2. /\ retry \in Seq(Nat \ {0}) /\ Len(retry) \in Nat
      /\ \A i \in 1..Len(retry) : retry[i] <= Len(feasible)
  BY DEF IInv, RetryTyped
<1>3. \A i \in 1..Len(feasible) : feasible[i] \in 1..Grasps
  BY <1>1, ElementOfSeq
<1>4. \A i \in 1..Len(retry) : retry[i] \in 1..Len(feasible)
  <2>1. \A i \in 1..Len(retry) : retry[i] \in Nat \ {0}
    BY <1>2, ElementOfSeq
  <2> QED
    BY <1>1, <1>2, <2>1
<1>5. CASE turn = "retry"
  <2>1. index \in 1..Len(retry)
    BY <1>1, <1>2, <1>5, Bounds
  <2> QED
    BY <1>3, <1>4, <1>5, <2>1 DEF Candidate
<1>6. CASE turn # "retry"
  <2>1. index \in 1..Len(feasible)
    BY <1>1, <1>6, Bounds
  <2> QED
    BY <1>3, <1>6, <2>1 DEF Candidate
<1> QED
  BY <1>5, <1>6

LEMMA AttachedApart == Attached \notin Places /\ Observed \in Places
  BY Bounds DEF Attached, Places, Observed

\* Whatever a failed endVirtualAttachment leaves, the scene has the box, and the retained
\* objects have it in the world.
LEMMA EndFailuresFit ==
  ASSUME IInv, pc \in AfterGrasp, NEW saved \in Places
  PROVE  EndFailures(saved) \subseteq Scenes
<1>1. scene \in Scenes
  BY DEF IInv, RouteBox
<1>2. Candidate \in Places
  BY CandidateFits DEF Places
<1>3. \A b \in {Attached, Candidate, saved} : [scene EXCEPT !.live = b] \in Scenes
  BY <1>1, <1>2 DEF Scenes
<1>4. AsSaved(saved) \in Scenes
  BY DEF AsSaved, Scenes
<1> QED
  BY <1>3, <1>4 DEF EndFailures

LEMMA SearchTypedNext ==
  ASSUME IInv, Next
  PROVE  SearchTyped'
<1>1. /\ SearchTyped /\ search \in SearchRecord /\ back \in ReturnRecord /\ scene \in Scenes
      /\ pc \in {"start", "pick", "attempt", "done"} \cup AfterGrasp
  BY DEF IInv, SearchTyped, RouteBox, ControlTyped
<1>2. NoSearch \in SearchRecord /\ NoReturn \in ReturnRecord
  BY EmptyRecords
<1>3. NoSearch.end = 0 /\ NoSearch.ends = 0 /\ NoSearch.fast = FALSE
  BY DEF NoSearch
\* Steps that leave the records alone, at points where there is no fast path.
<1>4. ASSUME UNCHANGED <<search, back, poseToPose>>,
             pc \notin RoutePoints \cup ReturnPoints,
             pc' \in {"start", "pick", "attempt", "approach", "search", "accept", "done"}
      PROVE  SearchTyped'
  BY <1>1, <1>4 DEF SearchTyped, RoutePoints, ReturnPoints
\* Steps after which there is no search yet, or another one.
<1>5. ASSUME search' \in {NoSearch} \cup {[NoSearch EXCEPT !.leg = l] : l \in {"carry", "place"}},
             back' \in {back, NoReturn},
             pc' \in {"pick", "attempt", "approach", "search", "accept", "done"}
      PROVE  SearchTyped'
  <2>1. search' \in SearchRecord /\ search'.end = 0 /\ search'.ends = 0 /\ search'.fast = FALSE
    <3>1. \A l \in {"carry", "place"} : [NoSearch EXCEPT !.leg = l] \in SearchRecord
      BY <1>2 DEF SearchRecord
    <3>2. \A l : /\ [NoSearch EXCEPT !.leg = l].end = 0 /\ [NoSearch EXCEPT !.leg = l].ends = 0
                 /\ [NoSearch EXCEPT !.leg = l].fast = FALSE
      BY DEF NoSearch
    <3> QED
      BY <1>2, <1>3, <1>5, <3>1, <3>2
  <2> QED
    BY <1>1, <1>2, <1>5, <2>1 DEF SearchTyped, RoutePoints, ReturnPoints
\* Steps within a route or a return.
<1>6. ASSUME search' \in SearchRecord, search'.end = search.end, search'.ends = search.ends,
             search'.fast = search.fast, poseToPose' = poseToPose, back' \in ReturnRecord,
             pc \in RoutePoints \cup ReturnPoints,
             pc' \in (RoutePoints \ {"endpoint"}) \cup ReturnPoints
      PROVE  SearchTyped'
  BY <1>1, <1>6 DEF SearchTyped, RoutePoints, ReturnPoints
<1>7. ASSUME NEW time, RouteFails(time), pc \in RoutePoints \cup ReturnPoints, poseToPose' = poseToPose,
             back' \in {back, NoReturn}
      PROVE  SearchTyped'
  <2>1. /\ search' \in SearchRecord /\ search'.fast = FALSE
        /\ search'.end = search.end /\ search'.ends = search.ends
    BY <1>7, RouteFailsFacts, WithoutRouteFacts
  <2>2. pc' \in {"precheck", "sweep"} /\ (pc' = "sweep" => ~search.fast)
    BY <1>7, RouteFailsFacts
  <2>3. pc' = "sweep" => search.ends > 0
    BY <1>1, <1>7, <2>2 DEF SearchTyped
  <2> QED
    BY <1>1, <1>2, <1>7, <2>1, <2>2, <2>3 DEF SearchTyped, RoutePoints, ReturnPoints
<1>8. CASE Pick
  <2>1. CASE PregraspFails \/ ApproachFails \/ AcceptAttempt
    BY <1>5, <2>1, AttemptEndsFacts DEF PregraspFails, ApproachFails, AcceptAttempt
  <2>2. CASE BuildApproach
    BY <1>5, <2>2 DEF BuildApproach
  <2> QED
    BY <1>4, <1>8, <2>1, <2>2
       DEF Pick, NominalFast, SkipFast, CollectTier, Collecting, AttemptNext, InitialDone, RetryNext,
           PickFails, PlanPregrasp, OpenAttempt, Finish, RoutePoints, ReturnPoints
<1>9. CASE Search
  <2>1. CASE PrecheckFails \/ SweepEnds
    BY <1>5, <2>1, AttemptEndsFacts DEF PrecheckFails, SweepEnds, SearchFails
  <2>2. CASE StartSearch
    <3>1. PICK by \in Nat, fastBy \in Nat :
            \/ /\ poseToPose /\ pc' = "endpoint"
               /\ search' = [search EXCEPT !.began = now, !.by = by, !.routeBy = fastBy, !.fast = TRUE]
            \/ /\ ~poseToPose /\ pc' = "precheck"
               /\ search' = [search EXCEPT !.began = now, !.by = by]
      BY <2>2, StartSearchFacts
    <3>2. now \in Nat /\ ~search.fast
      BY <1>1, <2>2, Bounds DEF IInv, ControlTyped, StartSearch, SearchTyped, RoutePoints, ReturnPoints
    <3>3. poseToPose' = poseToPose /\ back' = back
      BY <2>2 DEF StartSearch
    <3>4. /\ search' \in SearchRecord /\ search'.end = search.end /\ search'.ends = search.ends
          /\ search'.fast => poseToPose /\ pc' = "endpoint"
          /\ pc' = "endpoint" => search'.fast
      BY <1>1, <3>1, <3>2 DEF SearchRecord
    <3> QED
      BY <1>1, <3>1, <3>3, <3>4 DEF SearchTyped, RoutePoints, ReturnPoints
  <2>3. CASE FastEndpoint
    BY <1>1, <1>6, <2>3 DEF FastEndpoint, RoutePoints
  <2>4. CASE FastEndpointFails
    <3>1. search.fast /\ pc \in RoutePoints
      BY <1>1, <2>4 DEF FastEndpointFails, SearchTyped, RoutePoints
    <3> QED
      BY <1>7, <2>4, <3>1 DEF FastEndpointFails, RouteFails
  <2>5. CASE Precheck
    <3>1. PICK n \in 1..PoseCandidates : search' = [search EXCEPT !.route = 1, !.end = 0, !.ends = n]
      BY <2>5 DEF Precheck
    <3>2. n \in 0..(CarryEnds + PlaceEnds) /\ n > 0 /\ 1 \in 0..(Routes + 1)
      BY Bounds DEF PoseCandidates
    <3>3. ~search.fast
      BY <1>1, <2>5 DEF Precheck, SearchTyped, RoutePoints, ReturnPoints
    <3>4. search' \in SearchRecord /\ ~search'.fast /\ search'.end = 0 /\ search'.ends = n
      BY <1>1, <3>1, <3>2, <3>3 DEF SearchRecord
    <3> QED
      BY <1>1, <2>5, <3>2, <3>4 DEF Precheck, SearchTyped, RoutePoints, ReturnPoints
  <2>6. CASE SweepNext
    <3>1. PICK end \in Nat, route \in 0..(Routes + 1), routeBy \in Nat :
            /\ end <= search.ends
            /\ search' = [search EXCEPT !.route = route, !.end = end, !.routeBy = routeBy, !.seg = 0]
      BY <2>6, SweepNextFacts
    <3>2. ~search.fast /\ search.ends > 0
      BY <1>1, <2>6 DEF SweepNext, SearchTyped, RoutePoints, ReturnPoints
    <3>3. 0 \in 0..Segments
      BY Bounds
    <3>4. search' \in SearchRecord /\ ~search'.fast /\ search'.end = end /\ search'.ends = search.ends
      BY <1>1, <3>1, <3>2, <3>3 DEF SearchRecord
    <3> QED
      BY <1>1, <2>6, <3>1, <3>2, <3>4 DEF SweepNext, SearchTyped, RoutePoints, ReturnPoints
  <2> QED
    BY <1>9, <2>1, <2>2, <2>3, <2>4, <2>5, <2>6 DEF Search
<1>10. CASE Route
  <2>1. CASE BeginFails \/ RouteThrows \/ RestoreFails \/ RouteRejected
    BY <1>7, <2>1 DEF BeginFails, RouteThrows, RestoreFails, RouteRejected, RoutePoints
  <2>2. CASE BeginRoute
    <3>1. /\ scene'.live \in Places \cup {Attached} /\ scene.live \in Places
          /\ search' = [search EXCEPT !.planned = TRUE, !.box = scene'.live, !.saved = scene.live]
      <4>1. search' = [search EXCEPT !.planned = TRUE, !.box = scene'.live, !.saved = scene.live]
        BY <2>2 DEF BeginRoute, RouteBegins
      <4>2. scene' = (IF poseToPose THEN [scene EXCEPT !.live = Attached] ELSE scene)
            /\ (poseToPose => scene.live # Attached)
        BY <2>2 DEF BeginRoute, RouteBegins
      <4>3. ~poseToPose => scene.live = scene.kept
        BY DEF IInv, RouteBox
      <4> QED
        BY <1>1, <4>1, <4>2, <4>3 DEF Scenes
    <3>3. /\ search' \in SearchRecord /\ search'.end = search.end /\ search'.ends = search.ends
          /\ search'.fast = search.fast
      BY <1>1, <3>1 DEF SearchRecord
    <3> QED
      BY <1>1, <1>6, <2>2, <3>3 DEF BeginRoute, RouteBegins, RoutePoints
  <2>3. ASSUME NEW outcomes, NEW n \in 0..Segments, Appended(outcomes, n), pc = "segments"
        PROVE  SearchTyped'
    <3>1. search' \in {[search EXCEPT !.seg = n], [search EXCEPT !.planned = FALSE]}
      BY <2>3 DEF Appended
    <3>2. /\ search' \in SearchRecord /\ search'.end = search.end /\ search'.ends = search.ends
          /\ search'.fast = search.fast
      BY <1>1, <2>3, <3>1 DEF SearchRecord
    <3> QED
      BY <1>1, <1>6, <2>3, <3>2 DEF Appended, RoutePoints
  <2>4. CASE SegmentReached \/ CartesianSegment \/ CachedSegment \/ JointSegment \/ ObjectPath
    <3>1. pc = "segments" /\ search.seg < Segments
      BY <2>4 DEF SegmentReached, CartesianSegment, CachedSegment, JointSegment, ObjectPath, AtSegment
    <3>2. search.seg + 1 \in 0..Segments /\ Segments \in 0..Segments
      BY <1>1, <3>1, Bounds DEF SearchRecord
    <3> QED
      BY <2>3, <2>4, <3>1, <3>2 DEF SegmentReached, CartesianSegment, CachedSegment, JointSegment, ObjectPath
  <2>5. CASE SegmentStopped
    <3>1. search' = [search EXCEPT !.planned = FALSE]
      BY <2>5 DEF SegmentStopped
    <3>2. /\ search' \in SearchRecord /\ search'.end = search.end /\ search'.ends = search.ends
          /\ search'.fast = search.fast
      BY <1>1, <3>1 DEF SearchRecord
    <3> QED
      BY <1>1, <1>6, <2>5, <3>2 DEF SegmentStopped, RoutePoints
  <2>6. CASE SegmentsEnd \/ RestoreBox
    BY <1>1, <1>6, <2>6 DEF SegmentsEnd, RestoreBox, RoutePoints
  <2>7. CASE AcceptCarry
    BY <1>5, <2>7 DEF AcceptCarry
  <2> QED
    BY <1>10, <2>1, <2>2, <2>4, <2>5, <2>6, <2>7 DEF Route
<1>11. CASE Place
  <2>1. CASE ReturnFails \/ PlaceLate
    BY <1>7, <2>1 DEF ReturnFails, PlaceLate, ReturnPoints
  <2>2. CASE StartReturn
    <3>1. PICK by \in Nat : back' = [by |-> by, began |-> now, stage |-> 0, distance |-> 1]
      BY <2>2, StartReturnFacts
    <3>2. now \in Nat /\ 0 \in 0..ReturnStages /\ 1 \in 0..Retreats
      BY Bounds DEF IInv, ControlTyped
    <3>3. back' \in ReturnRecord
      BY <3>1, <3>2 DEF ReturnRecord
    <3> QED
      BY <1>1, <1>6, <2>2, <3>3 DEF StartReturn, RoutePoints, ReturnPoints
  <2>3. CASE PlanRetreat \/ PlanToNamedTarget
    <3>1. back.stage + 1 \in 0..ReturnStages
      BY <1>1, <2>3, Bounds DEF PlanRetreat, PlanToNamedTarget, ReturnRecord
    <3>2. back' = [back EXCEPT !.stage = back.stage + 1]
      BY <2>3 DEF PlanRetreat, PlanToNamedTarget, Stage
    <3>3. back' \in ReturnRecord
      BY <1>1, <3>1, <3>2 DEF ReturnRecord
    <3> QED
      BY <1>1, <1>6, <2>3, <3>3 DEF PlanRetreat, PlanToNamedTarget, Stage, ReturnPoints
  <2>4. CASE NextRetreat
    <3>1. back' = [back EXCEPT !.stage = 0, !.distance = back.distance + 1] /\ back.distance < Retreats
      BY <2>4 DEF NextRetreat
    <3>2. 0 \in 0..ReturnStages /\ back.distance + 1 \in 0..Retreats
      BY <1>1, <3>1, Bounds DEF ReturnRecord
    <3>3. back' \in ReturnRecord
      BY <1>1, <3>1, <3>2 DEF ReturnRecord
    <3> QED
      BY <1>1, <1>6, <2>4, <3>3 DEF NextRetreat, ReturnPoints
  <2>5. CASE CaptureReturn
    BY <1>1, <1>6, <2>5 DEF CaptureReturn, ReturnPoints
  <2>6. CASE AcceptPlace
    BY <1>5, <2>6 DEF AcceptPlace
  <2> QED
    BY <1>11, <2>1, <2>2, <2>3, <2>4, <2>5, <2>6 DEF Place
<1>12. CASE Cancel \/ Done
  BY <1>1, <1>12 DEF Cancel, Done, vars, SearchTyped
<1> QED
  BY <1>8, <1>9, <1>10, <1>11, <1>12 DEF Next, Step

-----------------------------------------------------------------------------
(* The scene and the leg, point by point. *)

LEMMA GoalFixed ==
  ASSUME Next
  PROVE  poseToPose' = poseToPose /\ pickOnly' = pickOnly
  BY DEF Next, Step, Pick, NominalFast, SkipFast, CollectTier, AttemptNext, InitialDone, RetryNext,
         PickFails, PregraspFails, PlanPregrasp, BuildApproach, ApproachFails, AcceptAttempt,
         Search, StartSearch, FastEndpoint, FastEndpointFails, Precheck, PrecheckFails, SearchFails,
         SweepNext, SweepEnds, Route, BeginRoute, RouteBegins, BeginFails, SegmentReached, CartesianSegment,
         CachedSegment, JointSegment, ObjectPath, Appended, SegmentStopped, SegmentsEnd, RouteThrows,
         RestoreBox, RestoreFails, RouteRejected, AcceptCarry, Place, StartReturn, PlanRetreat,
         PlanToNamedTarget, Stage, NextRetreat, ReturnFails, CaptureReturn, PlaceLate, AcceptPlace,
         Cancel, Done, vars

LEMMA RouteBoxNext ==
  ASSUME IInv, Next
  PROVE  RouteBox'
<1>1. /\ RouteBox /\ search \in SearchRecord
      /\ pc \in {"start", "pick", "attempt", "done"} \cup AfterGrasp
  BY DEF IInv, SearchTyped, ControlTyped
<1>2. poseToPose' = poseToPose
  BY GoalFixed
\* Steps to points of which nothing is said.
<1>3. ASSUME scene' = scene,
             pc' \in {"start", "pick", "attempt", "approach", "search", "endpoint", "precheck", "sweep",
                      "route", "done"}
      PROVE  RouteBox'
  BY <1>1, <1>2, <1>3 DEF RouteBox, ReturnPoints
\* Steps that stay where a route or a return runs.
<1>4. ASSUME scene' = scene, search'.box = search.box,
             pc' = pc \/ (pc = "segments" /\ pc' = "restore")
               \/ (pc = "timing" /\ pc' = "back") \/ (pc = "back" /\ pc' = "placed")
      PROVE  RouteBox'
  BY <1>1, <1>2, <1>4 DEF RouteBox, ReturnPoints
<1>5. CASE Pick
  <2>1. CASE PregraspFails \/ ApproachFails \/ AcceptAttempt
    BY <1>3, <2>1, AttemptEndsFacts DEF PregraspFails, ApproachFails, AcceptAttempt
  <2> QED
    BY <1>3, <1>5, <2>1
       DEF Pick, NominalFast, SkipFast, CollectTier, Collecting, AttemptNext, InitialDone, RetryNext,
           PickFails, PlanPregrasp, BuildApproach, OpenAttempt, Finish
<1>6. CASE Search
  <2>1. CASE PrecheckFails \/ SweepEnds
    BY <1>3, <2>1, AttemptEndsFacts DEF PrecheckFails, SweepEnds, SearchFails
  <2> QED
    BY <1>3, <1>6, <2>1
       DEF Search, StartSearch, FastEndpoint, FastEndpointFails, FastFails, Precheck, SweepNext
<1>7. CASE Route
  <2>1. CASE RouteThrows \/ RouteRejected
    BY <1>3, <2>1, RouteFailsFacts DEF RouteThrows, RouteRejected
  <2>2. CASE BeginFails \/ RestoreFails
    <3>1. pc' \in {"precheck", "sweep"}
      BY <2>2, RouteFailsFacts DEF BeginFails, RestoreFails
    <3>2. /\ scene' = scene \/ poseToPose
          /\ scene' = scene \/ \E saved \in Places : scene' \in EndFailures(saved)
      BY <1>1, <2>2 DEF BeginFails, RestoreFails, RouteBox, Scenes, SearchRecord
    <3>3. pc \in AfterGrasp
      BY <2>2 DEF BeginFails, RestoreFails, AfterGrasp, RoutePoints
    <3>4. scene' \in Scenes
      BY <1>1, <3>2, <3>3, EndFailuresFit DEF RouteBox
    <3> QED
      BY <1>1, <1>2, <3>1, <3>2, <3>4 DEF RouteBox, ReturnPoints
  <2>3. CASE BeginRoute
    <3>1. search'.box = scene'.live /\ pc' = "segments"
      BY <1>1, <2>3 DEF BeginRoute, RouteBegins, SearchRecord
    <3>2. scene' = IF poseToPose THEN [scene EXCEPT !.live = Attached] ELSE scene
      BY <2>3 DEF BeginRoute, RouteBegins
    <3> QED
      BY <1>1, <1>2, <3>1, <3>2 DEF RouteBox, Scenes, ReturnPoints
  <2>4. ASSUME NEW outcomes, NEW n, Appended(outcomes, n), pc = "segments"
        PROVE  RouteBox'
    <3>1. scene' = scene /\ pc' = pc /\ search'.box = search.box
      BY <1>1, <2>4 DEF Appended, SearchRecord
    <3> QED
      BY <1>4, <3>1
  <2>5. CASE SegmentReached \/ CartesianSegment \/ CachedSegment \/ JointSegment \/ ObjectPath
    BY <2>4, <2>5 DEF SegmentReached, CartesianSegment, CachedSegment, JointSegment, ObjectPath, AtSegment
  <2>6. CASE SegmentStopped \/ SegmentsEnd
    <3>1. scene' = scene /\ search'.box = search.box /\ (pc' = pc \/ (pc = "segments" /\ pc' = "restore"))
      BY <1>1, <2>6 DEF SegmentStopped, SegmentsEnd, SearchRecord
    <3> QED
      BY <1>4, <3>1
  <2>7. CASE RestoreBox
    <3>1. /\ scene' = (IF poseToPose THEN AsSaved(search.saved) ELSE scene)
          /\ search' = search /\ pc = "restore" /\ pc' = "timing"
      BY <2>7 DEF RestoreBox
    <3>2. scene' \in Scenes /\ scene'.live = scene'.kept
      BY <1>1, <3>1 DEF RouteBox, AsSaved, Scenes, SearchRecord
    <3> QED
      BY <1>1, <1>2, <3>1, <3>2 DEF RouteBox, ReturnPoints
  <2>8. CASE AcceptCarry
    <3>1. scene' = scene /\ pc = "timing" /\ pc' \in {"accept", "search"}
      BY <2>8 DEF AcceptCarry
    <3> QED
      BY <1>1, <1>2, <3>1 DEF RouteBox, ReturnPoints
  <2> QED
    BY <1>7, <2>1, <2>2, <2>3, <2>5, <2>6, <2>7, <2>8 DEF Route
<1>8. CASE Place
  <2>1. CASE ReturnFails \/ PlaceLate
    BY <1>3, <2>1, RouteFailsFacts DEF ReturnFails, PlaceLate
  <2>2. CASE AcceptPlace
    <3>1. scene' = scene /\ pc = "placed" /\ pc' = "accept"
      BY <2>2 DEF AcceptPlace
    <3> QED
      BY <1>1, <1>2, <3>1 DEF RouteBox, ReturnPoints
  <2> QED
    BY <1>4, <1>8, <2>1, <2>2
       DEF Place, StartReturn, PlanRetreat, PlanToNamedTarget, Stage, NextRetreat, CaptureReturn
<1>9. CASE Cancel \/ Done
  BY <1>4, <1>9 DEF Cancel, Done, vars
<1> QED
  BY <1>5, <1>6, <1>7, <1>8, <1>9 DEF Next, Step

LEMMA LegByPointNext ==
  ASSUME IInv, Next
  PROVE  LegByPoint'
<1>1. /\ LegByPoint /\ search \in SearchRecord
      /\ pc \in {"start", "pick", "attempt", "done"} \cup AfterGrasp
  BY DEF IInv, SearchTyped, ControlTyped
<1>2. NoSearch.leg = "none" /\ \A l : [NoSearch EXCEPT !.leg = l].leg = l
  BY DEF NoSearch
\* Steps within a search.
<1>3. ASSUME search'.leg = search.leg, pickOnly' = pickOnly,
             pc \in {"search", "precheck", "sweep"} \cup RoutePoints \cup ReturnPoints,
             pc' \in {"search", "precheck", "sweep"} \cup RoutePoints
               \/ (search.leg = "place" /\ pc' \in ReturnPoints)
      PROVE  LegByPoint'
  BY <1>1, <1>3 DEF LegByPoint, RoutePoints, ReturnPoints
<1>4. ASSUME search' \in {search, NoSearch}, search.leg = "none" \/ search' = NoSearch,
             pc' \in {"start", "pick", "attempt", "approach", "done", "accept"}
      PROVE  LegByPoint'
  BY <1>2, <1>4 DEF LegByPoint, RoutePoints, ReturnPoints
<1>5. CASE Pick
  <2>1. CASE PregraspFails \/ ApproachFails \/ AcceptAttempt
    BY <1>4, <2>1, AttemptEndsFacts DEF PregraspFails, ApproachFails, AcceptAttempt
  <2>2. CASE BuildApproach
    <3>1. search' = [NoSearch EXCEPT !.leg = "carry"] /\ pc' = "search"
      BY <2>2 DEF BuildApproach
    <3> QED
      BY <1>2, <3>1 DEF LegByPoint, RoutePoints, ReturnPoints
  <2> QED
    BY <1>1, <1>4, <1>5, <2>1, <2>2
       DEF Pick, NominalFast, SkipFast, CollectTier, Collecting, AttemptNext, InitialDone, RetryNext,
           PickFails, PlanPregrasp, OpenAttempt, Finish, LegByPoint
<1>6. CASE Search
  <2>1. CASE PrecheckFails \/ SweepEnds
    BY <1>4, <2>1, AttemptEndsFacts DEF PrecheckFails, SweepEnds, SearchFails
  <2>2. CASE StartSearch
    <3>1. search'.leg = search.leg /\ pc' \in {"endpoint", "precheck"}
      BY <1>1, <2>2, StartSearchFacts DEF SearchRecord
    <3> QED
      BY <1>3, <2>2, <3>1 DEF StartSearch, RoutePoints
  <2>3. CASE FastEndpoint \/ FastEndpointFails \/ Precheck \/ SweepNext
    <3>1. search'.leg = search.leg
      BY <1>1, <2>3, WithoutRouteFacts
         DEF FastEndpoint, FastEndpointFails, FastFails, Precheck, SweepNext, SearchRecord
    <3> QED
      BY <1>3, <2>3, <3>1 DEF FastEndpoint, FastEndpointFails, FastFails, Precheck, SweepNext, RoutePoints
  <2> QED
    BY <1>6, <2>1, <2>2, <2>3 DEF Search
<1>7. CASE Route
  <2>1. CASE BeginFails \/ RouteThrows \/ RestoreFails \/ RouteRejected
    BY <1>3, <2>1, RouteFailsFacts DEF BeginFails, RouteThrows, RestoreFails, RouteRejected, RoutePoints
  <2>2. ASSUME NEW outcomes, NEW n, Appended(outcomes, n), pc = "segments"
        PROVE  LegByPoint'
    <3>1. search'.leg = search.leg
      BY <1>1, <2>2 DEF Appended, SearchRecord
    <3> QED
      BY <1>3, <2>2, <3>1 DEF Appended, RoutePoints
  <2>3. CASE SegmentReached \/ CartesianSegment \/ CachedSegment \/ JointSegment \/ ObjectPath
    BY <2>2, <2>3 DEF SegmentReached, CartesianSegment, CachedSegment, JointSegment, ObjectPath, AtSegment
  <2>4. CASE BeginRoute \/ SegmentStopped \/ SegmentsEnd \/ RestoreBox
    <3>1. search'.leg = search.leg
      BY <1>1, <2>4 DEF BeginRoute, RouteBegins, SegmentStopped, SegmentsEnd, RestoreBox, SearchRecord
    <3> QED
      BY <1>3, <2>4, <3>1 DEF BeginRoute, RouteBegins, SegmentStopped, SegmentsEnd, RestoreBox, RoutePoints
  <2>5. CASE AcceptCarry
    <3>1. /\ search' = [NoSearch EXCEPT !.leg = "place"] /\ pickOnly' = pickOnly
          /\ pc' = IF pickOnly THEN "accept" ELSE "search"
      BY <2>5 DEF AcceptCarry
    <3> QED
      BY <1>2, <3>1 DEF LegByPoint, RoutePoints, ReturnPoints
  <2> QED
    BY <1>7, <2>1, <2>3, <2>4, <2>5 DEF Route
<1>8. CASE Place
  <2>1. CASE ReturnFails \/ PlaceLate
    BY <1>3, <2>1, RouteFailsFacts DEF ReturnFails, PlaceLate, ReturnPoints, RoutePoints
  <2>2. CASE AcceptPlace
    BY <1>4, <2>2 DEF AcceptPlace
  <2>3. CASE StartReturn \/ PlanRetreat \/ PlanToNamedTarget \/ NextRetreat \/ CaptureReturn
    <3>1. search' = search /\ pickOnly' = pickOnly /\ search.leg = "place"
      BY <1>1, <2>3 DEF StartReturn, PlanRetreat, PlanToNamedTarget, Stage, NextRetreat, CaptureReturn,
                        LegByPoint, ReturnPoints
    <3> QED
      BY <1>3, <2>3, <3>1 DEF StartReturn, PlanRetreat, PlanToNamedTarget, Stage, NextRetreat,
                              CaptureReturn, RoutePoints, ReturnPoints
  <2> QED
    BY <1>8, <2>1, <2>2, <2>3 DEF Place
<1>9. CASE Cancel \/ Done
  BY <1>1, <1>9 DEF Cancel, Done, vars, LegByPoint
<1> QED
  BY <1>5, <1>6, <1>7, <1>8, <1>9 DEF Next, Step

-----------------------------------------------------------------------------
(* The pieces of the path. *)

LEMMA GraspHoldsNext ==
  ASSUME IInv, Next
  PROVE  GraspHolds'
<1>1. /\ GraspHolds /\ RouteBox /\ DOMAIN built = Pieces
      /\ pc \in {"start", "pick", "attempt", "done"} \cup AfterGrasp
  BY DEF IInv, ControlTyped, PathHolds
\* The grasp of the running attempt stays as it is.
<1>2. ASSUME UNCHANGED pick_vars, built'["grasp"] = built["grasp"], pc \in AfterGrasp, pc' \in AfterGrasp,
             \/ built["grasp"].box # Attached
             \/ scene' = scene /\ pc' \notin {"segments", "restore", "timing", "accept"} \cup ReturnPoints
      PROVE  GraspHolds'
  <2>1. Candidate' = Candidate
    BY <1>2 DEF Candidate
  <2> QED
    BY <1>1, <1>2, <2>1 DEF GraspHolds
<1>3. ASSUME pc' \notin AfterGrasp
      PROVE  GraspHolds'
  BY <1>3 DEF GraspHolds
\* Where the box is at hand, the grasp was checked with the box in the world.
<1>4. \/ pc \in {"segments", "restore", "timing", "accept"} \cup ReturnPoints
      \/ pc \in AfterGrasp /\ scene.live # Attached
      => built["grasp"].box # Attached
  BY <1>1 DEF GraspHolds, AfterGrasp, RoutePoints
<1>5. CASE Pick
  <2>1. CASE PregraspFails \/ ApproachFails \/ AcceptAttempt
    BY <1>3, <2>1, AttemptEndsFacts
       DEF PregraspFails, ApproachFails, AcceptAttempt, AfterGrasp, RoutePoints, ReturnPoints
  <2>2. CASE PlanPregrasp
    <3>1. built' = [built EXCEPT !["grasp"] = [from |-> <<>>, id |-> <<Candidate>>, box |-> scene.live]]
      BY <2>2 DEF PlanPregrasp
    <3>2. built'["grasp"].id = <<Candidate>> /\ built'["grasp"].box = scene.live
      BY <1>1, <3>1 DEF Pieces
    <3>3. Candidate' = Candidate
      BY <2>2 DEF PlanPregrasp, Candidate
    <3> QED
      BY <2>2, <3>2, <3>3 DEF PlanPregrasp, GraspHolds, ReturnPoints
  <2>3. CASE BuildApproach
    BY <1>2, <2>3 DEF BuildApproach, AfterGrasp, ReturnPoints
  <2> QED
    BY <1>3, <1>5, <2>1, <2>2, <2>3
       DEF Pick, NominalFast, SkipFast, CollectTier, Collecting, AttemptNext, InitialDone, RetryNext,
           PickFails, OpenAttempt, Finish, AfterGrasp, RoutePoints, ReturnPoints
<1>6. CASE Search
  <2>1. CASE PrecheckFails \/ SweepEnds
    BY <1>3, <2>1, AttemptEndsFacts
       DEF PrecheckFails, SweepEnds, SearchFails, AfterGrasp, RoutePoints, ReturnPoints
  <2> QED
    BY <1>2, <1>6, <2>1
       DEF Search, StartSearch, FastEndpoint, FastEndpointFails, FastFails, Precheck, SweepNext,
           AfterGrasp, RoutePoints, ReturnPoints
<1>7. CASE Route
  <2>1. CASE BeginFails
    <3>1. pc = "route" /\ pc' \in {"precheck", "sweep"} /\ UNCHANGED <<pick_vars, built>>
      BY <2>1, RouteFailsFacts DEF BeginFails
    <3>2. scene' = scene \/ scene.live # Attached
      BY <2>1 DEF BeginFails
    <3> QED
      BY <1>2, <1>4, <3>1, <3>2 DEF AfterGrasp, RoutePoints, ReturnPoints
  <2>2. CASE RouteThrows \/ RestoreFails \/ RouteRejected
    <3>1. /\ pc \in {"segments", "restore", "timing"} /\ pc' \in {"precheck", "sweep"}
          /\ UNCHANGED <<pick_vars, built>>
      BY <2>2, RouteFailsFacts DEF RouteThrows, RestoreFails, RouteRejected
    <3> QED
      BY <1>2, <1>4, <3>1 DEF AfterGrasp, RoutePoints
  <2>3. CASE BeginRoute
    <3>1. scene.live # Attached /\ pc = "route" /\ pc' = "segments" /\ UNCHANGED <<pick_vars, built>>
      BY <1>1, <2>3, AttachedApart DEF BeginRoute, RouteBegins, RouteBox, Scenes
    <3> QED
      BY <1>2, <1>4, <3>1 DEF AfterGrasp, RoutePoints
  <2>4. CASE SegmentReached \/ CartesianSegment \/ CachedSegment \/ JointSegment \/ ObjectPath
    <3>1. pc = "segments" /\ pc' = "segments" /\ UNCHANGED <<pick_vars, built>>
      BY <2>4 DEF SegmentReached, CartesianSegment, CachedSegment, JointSegment, ObjectPath, AtSegment,
                  Appended
    <3> QED
      BY <1>2, <1>4, <3>1 DEF AfterGrasp, RoutePoints
  <2>5. CASE SegmentStopped \/ SegmentsEnd \/ RestoreBox
    <3>1. /\ pc \in {"segments", "restore"} /\ pc' \in {"segments", "restore", "timing"}
          /\ UNCHANGED <<pick_vars, built>>
      BY <2>5 DEF SegmentStopped, SegmentsEnd, RestoreBox
    <3> QED
      BY <1>2, <1>4, <3>1 DEF AfterGrasp, RoutePoints
  <2>6. CASE AcceptCarry
    <3>1. pc = "timing" /\ pc' \in {"accept", "search"} /\ UNCHANGED pick_vars
      BY <2>6 DEF AcceptCarry
    <3>2. built'["grasp"] = built["grasp"]
      BY <1>1, <2>6 DEF AcceptCarry, Pieces
    <3> QED
      BY <1>2, <1>4, <3>1, <3>2 DEF AfterGrasp, RoutePoints
  <2> QED
    BY <1>7, <2>1, <2>2, <2>3, <2>4, <2>5, <2>6 DEF Route
<1>8. CASE Place
  <2>1. /\ pc \in {"timing"} \cup ReturnPoints /\ UNCHANGED pick_vars
        /\ pc' \in {"precheck", "sweep", "accept"} \cup ReturnPoints
    BY <1>8, RouteFailsFacts
       DEF Place, StartReturn, PlanRetreat, PlanToNamedTarget, Stage, NextRetreat, ReturnFails,
           CaptureReturn, PlaceLate, AcceptPlace, ReturnPoints
  <2>2. built'["grasp"] = built["grasp"]
    BY <1>1, <1>8
       DEF Place, StartReturn, PlanRetreat, PlanToNamedTarget, Stage, NextRetreat, ReturnFails,
           CaptureReturn, PlaceLate, AcceptPlace, Pieces
  <2> QED
    BY <1>2, <1>4, <2>1, <2>2 DEF AfterGrasp, RoutePoints
<1>9. CASE Cancel \/ Done
  <2>1. UNCHANGED <<pick_vars, built, scene, pc>>
    BY <1>9 DEF Cancel, Done, vars
  <2> QED
    BY <1>1, <1>2, <1>3, <1>4, <2>1
<1> QED
  BY <1>5, <1>6, <1>7, <1>8, <1>9 DEF Next, Step

LEMMA CarryHoldsNext ==
  ASSUME IInv, Next
  PROVE  CarryHolds'
<1>1. /\ CarryHolds /\ RouteBox /\ LegByPoint /\ search \in SearchRecord /\ DOMAIN built = Pieces
      /\ pc \in {"start", "pick", "attempt", "done"} \cup AfterGrasp
  BY DEF IInv, ControlTyped, PathHolds, SearchTyped
<1>2. poseToPose' = poseToPose
  BY GoalFixed
<1>3. NoSearch.leg = "none" /\ \A l : [NoSearch EXCEPT !.leg = l].leg = l
  BY DEF NoSearch
\* The carry and its grasp stay as they are.
<1>4. ASSUME built'["grasp"] = built["grasp"], built'["carry"] = built["carry"],
             pc' = "accept" \/ search'.leg = "place" => pc = "accept" \/ search.leg = "place"
      PROVE  CarryHolds'
  BY <1>1, <1>2, <1>4 DEF CarryHolds
<1>5. ASSUME pc' # "accept", search'.leg # "place"
      PROVE  CarryHolds'
  BY <1>5 DEF CarryHolds
<1>6. CASE Pick
  <2>1. CASE PregraspFails \/ ApproachFails \/ AcceptAttempt
    BY <1>3, <1>5, <2>1, AttemptEndsFacts DEF PregraspFails, ApproachFails, AcceptAttempt
  <2>2. CASE PlanPregrasp
    BY <1>1, <1>5, <2>2 DEF PlanPregrasp, LegByPoint
  <2>3. CASE BuildApproach
    BY <1>3, <1>5, <2>3 DEF BuildApproach
  <2> QED
    BY <1>4, <1>6, <2>1, <2>2, <2>3
       DEF Pick, NominalFast, SkipFast, CollectTier, AttemptNext, InitialDone, RetryNext, PickFails,
           OpenAttempt, Finish
<1>7. CASE Search
  <2>1. CASE PrecheckFails \/ SweepEnds
    BY <1>3, <1>5, <2>1, AttemptEndsFacts DEF PrecheckFails, SweepEnds, SearchFails
  <2>2. PrecheckFails \/ SweepEnds \/ (search'.leg = search.leg /\ pc' # "accept" /\ built' = built)
    BY <1>1, <1>7, WithoutRouteFacts
       DEF Search, StartSearch, FastEndpoint, FastEndpointFails, FastFails, Precheck, SweepNext,
           SearchRecord
  <2> QED
    BY <1>4, <2>1, <2>2
<1>8. CASE Route
  <2>1. CASE AcceptCarry
    <3>1. built' = [built EXCEPT !["carry"] = RoutePiece(built["grasp"])]
      BY <2>1 DEF AcceptCarry
    <3>2. built'["grasp"] = built["grasp"] /\ built'["carry"] = RoutePiece(built["grasp"])
      BY <1>1, <3>1 DEF Pieces
    <3>3. RoutePiece(built["grasp"]).from = built["grasp"].id /\ RoutePiece(built["grasp"]).box = search.box
      BY DEF RoutePiece
    <3>4. poseToPose => search.box = Attached
      BY <1>1, <2>1 DEF AcceptCarry, RouteBox
    <3> QED
      BY <1>2, <3>2, <3>3, <3>4 DEF CarryHolds
  <2>2. CASE BeginFails \/ RouteThrows \/ RestoreFails \/ RouteRejected
    <3>1. built' = built
      BY <2>2 DEF BeginFails, RouteThrows, RestoreFails, RouteRejected
    <3>2. search'.leg = search.leg /\ pc' # "accept"
      BY <2>2, RouteFailsFacts DEF BeginFails, RouteThrows, RestoreFails, RouteRejected
    <3> QED
      BY <1>4, <3>1, <3>2
  <2>3. ASSUME NEW outcomes, NEW n, Appended(outcomes, n), pc = "segments"
        PROVE  CarryHolds'
    <3>1. search'.leg = search.leg /\ pc' # "accept" /\ built' = built
      BY <1>1, <2>3 DEF Appended, SearchRecord
    <3> QED
      BY <1>4, <3>1
  <2>4. CASE SegmentReached \/ CartesianSegment \/ CachedSegment \/ JointSegment \/ ObjectPath
    BY <2>3, <2>4 DEF SegmentReached, CartesianSegment, CachedSegment, JointSegment, ObjectPath, AtSegment
  <2>5. CASE BeginRoute \/ SegmentStopped \/ SegmentsEnd \/ RestoreBox
    <3>1. search'.leg = search.leg /\ pc' # "accept" /\ built' = built
      BY <1>1, <2>5 DEF BeginRoute, RouteBegins, SegmentStopped, SegmentsEnd, RestoreBox, SearchRecord
    <3> QED
      BY <1>4, <3>1
  <2> QED
    BY <1>8, <2>1, <2>2, <2>4, <2>5 DEF Route
<1>9. CASE Place
  <2>1. search.leg = "place"
    BY <1>1, <1>9
       DEF Place, StartReturn, PlanRetreat, PlanToNamedTarget, Stage, NextRetreat, ReturnFails,
           CaptureReturn, PlaceLate, AcceptPlace, LegByPoint, ReturnPoints
  <2>2. built'["grasp"] = built["grasp"] /\ built'["carry"] = built["carry"]
    BY <1>1, <1>9
       DEF Place, StartReturn, PlanRetreat, PlanToNamedTarget, Stage, NextRetreat, ReturnFails,
           CaptureReturn, PlaceLate, AcceptPlace, Pieces
  <2> QED
    BY <1>4, <2>1, <2>2
<1>10. CASE Cancel \/ Done
  BY <1>4, <1>10 DEF Cancel, Done, vars
<1> QED
  BY <1>6, <1>7, <1>8, <1>9, <1>10 DEF Next, Step

\* The steps that hand a piece on.
LEMMA ReachedBy ==
  ASSUME IInv, Next, pc' \in {"placed", "accept"}
  PROVE  CaptureReturn \/ AcceptCarry \/ AcceptPlace \/ Cancel \/ Done
<1>1. CASE Pick
  <2>1. CASE PregraspFails \/ ApproachFails \/ AcceptAttempt
    BY <2>1, AttemptEndsFacts DEF PregraspFails, ApproachFails, AcceptAttempt
  <2> QED
    BY <1>1, <2>1
       DEF Pick, NominalFast, SkipFast, CollectTier, Collecting, AttemptNext, InitialDone, RetryNext,
           PickFails, PlanPregrasp, BuildApproach, OpenAttempt, Finish
<1>2. CASE Search
  <2>1. CASE PrecheckFails \/ SweepEnds
    BY <2>1, AttemptEndsFacts DEF PrecheckFails, SweepEnds, SearchFails
  <2> QED
    BY <1>2, <2>1
       DEF Search, StartSearch, FastEndpoint, FastEndpointFails, FastFails, Precheck, SweepNext
<1>3. CASE Route
  <2>1. CASE BeginFails \/ RouteThrows \/ RestoreFails \/ RouteRejected
    BY <2>1, RouteFailsFacts DEF BeginFails, RouteThrows, RestoreFails, RouteRejected
  <2> QED
    BY <1>3, <2>1
       DEF Route, BeginRoute, RouteBegins, SegmentReached, CartesianSegment, CachedSegment, JointSegment, ObjectPath,
           AtSegment, Appended, SegmentStopped, SegmentsEnd, RestoreBox
<1>4. CASE Place
  <2>1. CASE ReturnFails \/ PlaceLate
    BY <2>1, RouteFailsFacts DEF ReturnFails, PlaceLate
  <2> QED
    BY <1>4, <2>1
       DEF Place, StartReturn, PlanRetreat, PlanToNamedTarget, Stage, NextRetreat
<1> QED
  BY <1>1, <1>2, <1>3, <1>4 DEF Next, Step

LEMMA ReturnHoldsNext ==
  ASSUME IInv, Next
  PROVE  ReturnHolds'
<1> SUFFICES ASSUME pc' = "placed"
             PROVE  built'["return"].from = RoutePiece(built["carry"])'.id
  BY DEF ReturnHolds
<1>1. CASE CaptureReturn
  <2>1. /\ built' = [built EXCEPT !["return"] = [from |-> RoutePiece(built["carry"]).id,
                                                 id |-> RoutePiece(built["carry"]).id]]
        /\ search' = search
    BY <1>1 DEF CaptureReturn
  <2>2. built'["carry"] = built["carry"] /\ built'["return"].from = RoutePiece(built["carry"]).id
    BY <2>1 DEF Pieces, IInv, PathHolds
  <2> QED
    BY <2>1, <2>2 DEF RoutePiece
<1>2. CASE Cancel \/ Done
  BY <1>2 DEF Cancel, Done, vars, IInv, ReturnHolds, RoutePiece
<1> QED
  BY <1>1, <1>2, ReachedBy DEF AcceptCarry, AcceptPlace

LEMMA PlaceHoldsNext ==
  ASSUME IInv, Next
  PROVE  PlaceHolds'
<1>1. ASSUME pc' # "accept" \/ pickOnly'
      PROVE  PlaceHolds'
  BY <1>1 DEF PlaceHolds
<1>2. CASE AcceptPlace
  <2>1. /\ built' = [built EXCEPT !["place"] = RoutePiece(built["carry"])] /\ pc = "placed"
        /\ poseToPose' = poseToPose
    BY <1>2 DEF AcceptPlace
  <2>2. /\ built'["place"] = RoutePiece(built["carry"]) /\ built'["carry"] = built["carry"]
        /\ built'["return"] = built["return"]
    BY <2>1 DEF Pieces, IInv, PathHolds
  <2>3. RoutePiece(built["carry"]).from = built["carry"].id /\ RoutePiece(built["carry"]).box = search.box
    BY DEF RoutePiece
  <2>4. built["return"].from = RoutePiece(built["carry"]).id /\ (poseToPose => search.box = Attached)
    BY <2>1 DEF IInv, ReturnHolds, RouteBox, ReturnPoints
  <2> QED
    BY <2>1, <2>2, <2>3, <2>4 DEF PlaceHolds
<1>3. CASE Cancel \/ Done
  BY <1>3 DEF Cancel, Done, vars, IInv, PlaceHolds
<1> QED
  BY <1>1, <1>2, <1>3, ReachedBy DEF AcceptCarry, CaptureReturn

\* The path that is found is the one the last attempt built, in time.
LEMMA FoundBy ==
  ASSUME IInv, Next, result # "found", result' = "found"
  PROVE  /\ pc = "accept" /\ ~Stopped(now) /\ path' = built
         /\ UNCHANGED <<now, scene, built, turn, feasible, index, retry, poseToPose, pickOnly>>
         /\ deadlines' = <<deadlines[1]>>
<1>1. AcceptAttempt
  <2>1. CASE Pick
    <3>1. CASE PregraspFails \/ ApproachFails
      BY <3>1, AttemptEndsFacts DEF PregraspFails, ApproachFails
    <3> QED
      BY <2>1, <3>1
         DEF Pick, NominalFast, SkipFast, CollectTier, AttemptNext, InitialDone, RetryNext, PickFails,
             PlanPregrasp, BuildApproach, Finish
  <2>2. CASE Search
    <3>1. CASE PrecheckFails \/ SweepEnds
      BY <3>1, AttemptEndsFacts DEF PrecheckFails, SweepEnds, SearchFails
    <3> QED
      BY <2>2, <3>1 DEF Search, StartSearch, FastEndpoint, FastEndpointFails, Precheck, SweepNext
  <2>3. CASE Route
    BY <2>3
       DEF Route, BeginRoute, RouteBegins, BeginFails, SegmentReached, CartesianSegment, CachedSegment, JointSegment,
           ObjectPath, Appended, SegmentStopped, SegmentsEnd, RouteThrows, RestoreBox, RestoreFails,
           RouteRejected, AcceptCarry
  <2>4. CASE Place
    BY <2>4
       DEF Place, StartReturn, PlanRetreat, PlanToNamedTarget, Stage, NextRetreat, ReturnFails,
           CaptureReturn, PlaceLate, AcceptPlace
  <2>5. CASE Cancel \/ Done
    BY <2>5 DEF Cancel, Done, vars
  <2> QED
    BY <2>1, <2>2, <2>3, <2>4, <2>5 DEF Next, Step
<1>2. pc = "accept"
  BY <1>1 DEF AcceptAttempt
<1>3. ~Stopped(now) /\ AttemptEnds("success", now) /\ path' = built
  <2>1. CASE Stopped(now) /\ AttemptEnds("continuation", now)
    BY <1>2, <2>1, AttemptEndsFacts
  <2> QED
    BY <1>1, <2>1 DEF AcceptAttempt
<1>4. pc' = "done" /\ deadlines' = <<deadlines[1]>> /\ UNCHANGED <<turn, feasible, index, retry>>
  BY <1>2, <1>3, AttemptEndsFacts
<1> QED
  BY <1>1, <1>2, <1>3, <1>4, GoalFixed DEF AcceptAttempt

LEMMA PathHoldsNext ==
  ASSUME IInv, Next
  PROVE  PathHolds'
<1>1. DOMAIN built = Pieces /\ DOMAIN path = Pieces /\ AcceptedPathHolds
  BY DEF IInv, PathHolds
<1>2. DOMAIN built' = Pieces /\ DOMAIN path' = Pieces
  <2>1. CASE AcceptAttempt
    BY <1>1, <2>1 DEF AcceptAttempt
  <2> QED
    BY <1>1, <2>1
       DEF Next, Step, Pick, NominalFast, SkipFast, CollectTier, AttemptNext, InitialDone, RetryNext,
           PickFails, PregraspFails, PlanPregrasp, BuildApproach, ApproachFails,
         Search, StartSearch, FastEndpoint, FastEndpointFails, Precheck, PrecheckFails, SearchFails,
         SweepNext, SweepEnds, Route, BeginRoute, RouteBegins, BeginFails, SegmentReached, CartesianSegment,
         CachedSegment, JointSegment, ObjectPath, Appended, SegmentStopped, SegmentsEnd, RouteThrows,
         RestoreBox, RestoreFails, RouteRejected, AcceptCarry, Place, StartReturn, PlanRetreat,
         PlanToNamedTarget, Stage, NextRetreat, ReturnFails, CaptureReturn, PlaceLate, AcceptPlace,
         Cancel, Done, vars
<1>3. CASE result' # "found"
  BY <1>2, <1>3 DEF PathHolds, AcceptedPathHolds
<1>4. CASE result = "found"
  <2>1. pc = "done"
    BY <1>4 DEF IInv, ControlTyped
  <2>2. UNCHANGED vars
    BY <2>1 DEF Next, Step, Pick, NominalFast, SkipFast, CollectTier, Collecting, AttemptNext,
         InitialDone, RetryNext, PickFails, PregraspFails, PlanPregrasp, BuildApproach, ApproachFails,
         AcceptAttempt, Search, StartSearch, FastEndpoint, FastEndpointFails, Precheck, PrecheckFails,
         SweepNext, SweepEnds, Route, BeginRoute, RouteBegins, BeginFails, SegmentReached, CartesianSegment,
         CachedSegment, JointSegment, ObjectPath, AtSegment, SegmentStopped, SegmentsEnd, RouteThrows,
         RestoreBox, RestoreFails, RouteRejected, AcceptCarry, Place, StartReturn, PlanRetreat,
         PlanToNamedTarget, NextRetreat, ReturnFails, CaptureReturn, PlaceLate, AcceptPlace,
         Cancel, Done
  <2>3. Candidate' = Candidate
    BY <2>2 DEF vars, Candidate
  <2> QED
    BY <1>1, <1>2, <2>2, <2>3 DEF vars, PathHolds, AcceptedPathHolds
<1>5. CASE result # "found" /\ result' = "found"
  <2>1. /\ pc = "accept" /\ ~Stopped(now) /\ path' = built
        /\ UNCHANGED <<now, scene, turn, feasible, index, retry, poseToPose, pickOnly>>
        /\ deadlines' = <<deadlines[1]>>
    BY <1>5, FoundBy
  <2>2. now < deadlines[1]
    BY <2>1, Limits, Bounds DEF Stopped, Interrupted, AfterGrasp, IInv, ControlTyped
  <2>3. now' < deadlines'[1]
    BY <2>1, <2>2
  <2>4. scene.live # Attached /\ scene.live = scene.kept
    BY <2>1, AttachedApart DEF IInv, RouteBox, Scenes
  <2>5. built["grasp"].id = <<Candidate>> /\ built["grasp"].box # Attached
    BY <2>1 DEF IInv, GraspHolds, AfterGrasp
  <2>6. /\ built["carry"].from = built["grasp"].id
        /\ poseToPose => built["carry"].box = Attached
    BY <2>1 DEF IInv, CarryHolds
  <2>7. ~pickOnly =>
          /\ built["place"].from = built["carry"].id /\ built["return"].from = built["place"].id
          /\ poseToPose => built["place"].box = Attached
    BY <2>1 DEF IInv, PlaceHolds
  <2>8. Candidate' = Candidate
    BY <2>1 DEF Candidate
  <2> QED
    BY <1>2, <2>1, <2>3, <2>4, <2>5, <2>6, <2>7, <2>8 DEF PathHolds, AcceptedPathHolds
<1> QED
  BY <1>3, <1>4, <1>5

-----------------------------------------------------------------------------
(* How far a route or a return may overrun. *)

LEMMA Times ==
  ASSUME IInv
  PROVE  /\ now \in 0..MaxNow /\ now \in Nat /\ MaxNow \in Nat /\ Longest \in Nat
         /\ search.by \in Nat /\ search.routeBy \in Nat /\ search.began \in Nat
         /\ back.by \in Nat /\ back.began \in Nat
         /\ Later = LaterThan(now) /\ \A t \in Later : t \in Nat /\ now <= t /\ t <= now + Longest
<1>1. now \in 0..MaxNow /\ MaxNow \in Nat /\ Longest \in Nat /\ Later = LaterThan(now)
  BY Bounds, LongestFacts DEF IInv, ControlTyped, Later
<1>2. \A t \in Later : t \in Nat /\ now <= t /\ t <= now + Longest
  BY <1>1, LaterFacts
<1> QED
  BY <1>1, <1>2 DEF IInv, SearchTyped, SearchRecord, ReturnRecord

\* A call on a route that is not stopped ends not long after the route's limit.
LEMMA AppendedFacts ==
  ASSUME IInv, NEW outcomes, NEW n, Appended(outcomes, n), AtSegment, InTime(outcomes, RouteLimit)
  PROVE  /\ \E t \in Nat : now' = t /\ t <= search.routeBy + Longest
         /\ search'.by = search.by /\ search'.routeBy = search.routeBy
         /\ pc' = "segments" /\ search'.fast = search.fast
<1>1. PICK limit \in Int : limit = RouteLimit /\ limit <= search.routeBy
  BY Limits DEF AtSegment, AfterGrasp, RoutePoints
<1>2. now < limit /\ now \in Nat /\ search.routeBy \in Nat /\ Longest \in Nat /\ MaxNow \in Nat
  BY <1>1, Times DEF AtSegment, RouteStopped, Interrupted
<1>3. PICK o \in outcomes :
        now' = o.at /\ search' \in {[search EXCEPT !.seg = n], [search EXCEPT !.planned = FALSE]}
  BY DEF Appended
<1>4. o.at \in Nat /\ o.at < limit + Longest
  BY <1>1, <1>2, <1>3 DEF InTime
<1>5. PICK t \in Nat : t = o.at /\ t < limit + Longest
  BY <1>4
<1>6. t <= search.routeBy + Longest
  BY <1>1, <1>2, <1>5
<1>7. pc' = "segments" /\ search \in SearchRecord
  BY DEF Appended, AtSegment, IInv, SearchTyped
<1> QED
  BY <1>3, <1>5, <1>6, <1>7 DEF SearchRecord

\* The calls for a segment of a route are in time.
LEMMA SegmentFacts ==
  ASSUME IInv, SegmentReached \/ CartesianSegment \/ CachedSegment \/ JointSegment \/ ObjectPath
  PROVE  /\ \E t \in Nat : now' = t /\ t <= search.routeBy + Longest
         /\ search'.by = search.by /\ search'.routeBy = search.routeBy
         /\ pc' = "segments" /\ search'.fast = search.fast
<1>1. AtSegment /\ now \in 0..MaxNow
  BY Times DEF SegmentReached, CartesianSegment, CachedSegment, JointSegment, ObjectPath
<1>2. PICK limit \in Int : limit = RouteLimit
  BY <1>1, Limits DEF AtSegment, AfterGrasp, RoutePoints
<1>3. InTime(CartesianMotion(limit), limit) /\ InTime(ClosedChainPath(limit), limit)
  BY <1>1, CartesianMotionInTime, CallsInTime
<1>4. InTime({o \in Checked(Plans(now, limit), limit) : o.ok}, limit)
  <2>1. InTime(Checked(Plans(now, limit), limit), limit)
    BY <1>1, CallsInTime
  <2> QED
    BY <2>1 DEF InTime
<1>5. InTime(EndpointPlans, RouteLimit)
  BY <1>1, <1>2, EndpointPlansInTime
<1>6. InTime({[at |-> now, ok |-> valid] : valid \in BOOLEAN}, limit)
  BY <1>1, LongestFacts, Bounds DEF InTime
<1> QED
  BY <1>1, <1>2, <1>3, <1>4, <1>5, <1>6, AppendedFacts
     DEF SegmentReached, CartesianSegment, CachedSegment, JointSegment, ObjectPath

\* A stage of the return that is planned ends before the return's limit.
LEMMA StageFacts ==
  ASSUME IInv, PlanRetreat \/ PlanToNamedTarget
  PROVE  /\ \E t \in Nat : now' = t /\ now <= t /\ t < back.by
         /\ back'.by = back.by /\ back'.began = back.began
         /\ pc = "back" /\ pc' = "back" /\ search' = search
<1>1. pc = "back" /\ pc' = "back" /\ search' = search /\ now \in 0..MaxNow
  BY Times DEF PlanRetreat, PlanToNamedTarget, Stage
<1>2. PICK limit \in Int : limit = ReturnLimit /\ limit <= back.by
  BY <1>1, Limits DEF AfterGrasp, ReturnPoints
<1>3. /\ InTime(CartesianMotion(limit), limit) /\ \A o \in CartesianMotion(limit) : o.ok => o.at < limit
      /\ InTime(Checked(ClosedChainPath(limit), limit), limit)
      /\ \A o \in Checked(ClosedChainPath(limit), limit) : o.ok => o.at < limit
      /\ InTime(ReturnSegment(limit), limit) /\ \A o \in ReturnSegment(limit) : o.ok => o.at < limit
  BY <1>1, CartesianMotionInTime, CallsInTime
<1>4. PICK outcomes \in {CartesianMotion(limit), Checked(ClosedChainPath(limit), limit),
                          ReturnSegment(limit)} :
        Stage(outcomes)
  BY <1>2 DEF PlanRetreat, PlanToNamedTarget
<1>5. PICK o \in outcomes : o.ok /\ now' = o.at
  BY <1>4 DEF Stage
<1>6. o.at \in now..MaxNow /\ o.at < limit
  BY <1>3, <1>4, <1>5 DEF InTime
<1>7. PICK t \in Nat : t = o.at /\ now <= t /\ t < back.by
  BY <1>1, <1>2, <1>6, Times
<1>8. back'.by = back.by /\ back'.began = back.began
  <2>1. back' = [back EXCEPT !.stage = back.stage + 1] /\ back \in ReturnRecord
    BY <1>4 DEF Stage, IInv, SearchTyped
  <2> QED
    BY <2>1 DEF ReturnRecord
<1> QED
  BY <1>1, <1>5, <1>7, <1>8

\* A step to a point where a limit matters.
LEMMA RouteInTimeNext ==
  ASSUME IInv, Next
  PROVE  RouteInTime'
<1>1. /\ RouteInTime /\ search \in SearchRecord
      /\ pc \in {"start", "pick", "attempt", "done"} \cup AfterGrasp
  BY DEF IInv, SearchTyped, ControlTyped
<1>2. ASSUME pc' \notin {"search", "back", "placed"} \cup RoutePoints
      PROVE  RouteInTime'
  BY <1>2 DEF RouteInTime
<1>3. ASSUME NEW after \in Nat, now' = after, NEW overrun \in Nat, Overrun' = overrun, pc' \in RoutePoints,
             search'.routeBy <= search'.by,
             NEW limit \in Nat, search'.routeBy = limit, after <= limit + overrun
      PROVE  RouteInTime'
  BY <1>3 DEF RouteInTime, RoutePoints
<1>4. CASE Pick
  <2>1. CASE PregraspFails \/ ApproachFails \/ AcceptAttempt
    BY <1>2, <2>1, AttemptEndsFacts DEF PregraspFails, ApproachFails, AcceptAttempt, RoutePoints
  <2>2. CASE BuildApproach
    <3>1. PICK limit \in Int : limit = AttemptLimit /\ limit <= deadlines[1] /\ limit <= deadlines[2]
      BY <2>2, Limits DEF BuildApproach, AfterGrasp
    <3>2. now \in 0..MaxNow /\ MaxNow \in Nat /\ deadlines[1] \in Nat /\ deadlines[2] \in Nat
      BY <2>2, Times, Limits DEF BuildApproach, AfterGrasp
    <3>3. PICK o \in Approach : o.ok /\ now' = o.at
      BY <2>2 DEF BuildApproach
    <3>4. o.at \in Nat /\ o.at < limit
      BY <3>1, <3>2, <3>3, CartesianMotionInTime, CallsInTime DEF Approach, InTime
    <3>5. o.at < deadlines[1] /\ o.at < deadlines[2]
      BY <3>1, <3>2, <3>4
    <3> QED
      BY <2>2, <3>3, <3>5 DEF BuildApproach, RouteInTime, RoutePoints
  <2> QED
    BY <1>2, <1>4, <2>1, <2>2
       DEF Pick, NominalFast, SkipFast, CollectTier, Collecting, AttemptNext, InitialDone, RetryNext,
           PickFails, PlanPregrasp, OpenAttempt, Finish, RoutePoints
<1>5. CASE Search
  <2>1. CASE PrecheckFails \/ SweepEnds
    BY <1>2, <2>1, AttemptEndsFacts DEF PrecheckFails, SweepEnds, SearchFails, RoutePoints
  <2>2. CASE StartSearch
    <3>1. PICK by \in Nat, fastBy \in Nat :
            /\ now <= fastBy /\ fastBy <= by
            /\ \/ /\ poseToPose /\ pc' = "endpoint"
                  /\ search' = [search EXCEPT !.began = now, !.by = by, !.routeBy = fastBy, !.fast = TRUE]
               \/ /\ ~poseToPose /\ pc' = "precheck"
      BY <2>2, StartSearchFacts
    <3>2. CASE pc' = "endpoint"
      <4>1. search'.routeBy = fastBy /\ search'.by = by /\ now' = now /\ now \in Nat
        BY <1>1, <2>2, <3>1, <3>2, Times DEF StartSearch, SearchRecord
      <4>2. Overrun' = 0
        BY <3>2 DEF Overrun
      <4> QED
        BY <1>3, <3>1, <3>2, <4>1, <4>2 DEF RoutePoints
    <3> QED
      BY <1>2, <3>1, <3>2 DEF RoutePoints
  <2>3. CASE FastEndpoint
    <3>1. PICK limit \in Int : limit = RouteLimit /\ limit <= search.routeBy
      BY <2>3, Limits DEF FastEndpoint, AfterGrasp, RoutePoints
    <3>2. PICK o \in Checked(DualArmIK(limit), limit) : o.ok /\ now' = o.at
      BY <2>3, <3>1 DEF FastEndpoint
    <3>3. o.at \in Nat /\ o.at < limit
      BY <3>2, Times, CallsInTime DEF InTime
    <3>4. PICK after \in Nat : after = o.at /\ after <= search.routeBy
      BY <3>1, <3>3, Times
    <3>5. Overrun' = 0 /\ pc' = "route" /\ search' = search /\ search.routeBy <= search.by
      BY <1>1, <2>3 DEF FastEndpoint, Overrun, RouteInTime, RoutePoints
    <3> QED
      BY <1>3, <3>2, <3>4, <3>5, Times DEF RoutePoints
  <2>4. CASE SweepNext
    <3>1. PICK end \in Nat, route \in 0..(Routes + 1), routeBy \in Nat :
            /\ now <= routeBy /\ routeBy <= search.by
            /\ search' = [search EXCEPT !.route = route, !.end = end, !.routeBy = routeBy, !.seg = 0]
      BY <2>4, SweepNextFacts
    <3>2. search'.routeBy = routeBy /\ search'.by = search.by /\ now' = now /\ pc' = "route"
      BY <1>1, <2>4, <3>1 DEF SweepNext, SearchRecord
    <3>3. Overrun' = 0
      BY <3>2 DEF Overrun
    <3> QED
      BY <1>3, <3>1, <3>2, <3>3, Times DEF RoutePoints
  <2> QED
    BY <1>2, <1>5, <2>1, <2>2, <2>3, <2>4
       DEF Search, FastEndpointFails, FastFails, Precheck, RoutePoints
<1>6. CASE Route
  <2>1. CASE BeginFails \/ RouteThrows \/ RestoreFails \/ RouteRejected
    BY <1>2, <2>1, RouteFailsFacts DEF BeginFails, RouteThrows, RestoreFails, RouteRejected, RoutePoints
  <2>2. CASE SegmentReached \/ CartesianSegment \/ CachedSegment \/ JointSegment \/ ObjectPath
    <3>1. PICK t \in Nat : now' = t /\ t <= search.routeBy + Longest
      BY <2>2, SegmentFacts
    <3>2. search'.by = search.by /\ search'.routeBy = search.routeBy /\ pc' = "segments"
      BY <2>2, SegmentFacts
    <3>3. pc = "segments"
      BY <2>2 DEF SegmentReached, CartesianSegment, CachedSegment, JointSegment, ObjectPath, AtSegment
    <3>4. search.routeBy <= search.by
      BY <1>1, <3>3 DEF RouteInTime, RoutePoints
    <3>5. Overrun' = Longest
      BY <3>2 DEF Overrun
    <3> QED
      BY <1>3, <3>1, <3>2, <3>4, <3>5, Times DEF RoutePoints
  <2>3. CASE BeginRoute
    <3>1. PICK t \in Later : now' = t
      BY <2>3 DEF BeginRoute, RouteBegins
    <3>2. search.routeBy <= search.by /\ now <= search.routeBy
      BY <1>1, <2>3, Times DEF BeginRoute, RouteBegins, RouteInTime, RoutePoints, Overrun
    <3>3. t \in Nat /\ t <= search.routeBy + Longest
      BY <3>1, <3>2, Times
    <3>4. search'.by = search.by /\ search'.routeBy = search.routeBy /\ pc' = "segments"
      BY <1>1, <2>3 DEF BeginRoute, RouteBegins, SearchRecord
    <3>5. Overrun' = Longest
      BY <3>4 DEF Overrun
    <3> QED
      BY <1>3, <3>1, <3>2, <3>3, <3>4, <3>5, Times DEF RoutePoints
  <2>4. CASE SegmentStopped \/ SegmentsEnd
    <3>1. /\ search'.by = search.by /\ search'.routeBy = search.routeBy /\ now' = now
          /\ pc = "segments" /\ pc' \in {"segments", "restore"}
      BY <1>1, <2>4 DEF SegmentStopped, SegmentsEnd, SearchRecord
    <3>2. search.routeBy <= search.by /\ now <= search.routeBy + Longest
      BY <1>1, <3>1 DEF RouteInTime, RoutePoints, Overrun
    <3>3. Overrun' = Longest
      BY <3>1 DEF Overrun
    <3> QED
      BY <1>3, <3>1, <3>2, <3>3, Times DEF RoutePoints
  <2>5. CASE RestoreBox
    <3>1. PICK t \in Later : now' = t
      BY <2>5 DEF RestoreBox
    <3>2. search.routeBy <= search.by /\ now <= search.routeBy + Longest
      BY <1>1, <2>5 DEF RestoreBox, RouteInTime, RoutePoints, Overrun
    <3>3. t \in Nat /\ t <= search.routeBy + 2 * Longest
      BY <3>1, <3>2, Times
    <3>4. search' = search /\ pc' = "timing"
      BY <2>5 DEF RestoreBox
    <3>5. Overrun' = 2 * Longest
      BY <3>4 DEF Overrun
    <3>6. PICK overrun \in Nat : overrun = 2 * Longest
      BY Times
    <3> QED
      BY <1>3, <3>1, <3>2, <3>3, <3>4, <3>5, <3>6, Times DEF RoutePoints
  <2>6. CASE AcceptCarry
    <3>1. pc = "timing" /\ ~Stopped(now)
      BY <2>6 DEF AcceptCarry
    <3>2. now < deadlines[1] /\ now < deadlines[2]
      <4>1. PICK limit \in Int : limit = AttemptLimit /\ limit <= deadlines[1] /\ limit <= deadlines[2]
        BY <3>1, Limits DEF AfterGrasp, RoutePoints
      <4>2. deadlines[1] \in Nat /\ deadlines[2] \in Nat /\ now < limit
        BY <3>1, <4>1, Limits, Times DEF Stopped, Interrupted, AfterGrasp, RoutePoints
      <4> QED
        BY <4>1, <4>2, Times
    <3>3. deadlines'[1] = deadlines[1] /\ deadlines'[2] = deadlines[2]
      <4>1. 2 \in 1..Len(deadlines) /\ Descending(deadlines)
        BY <3>1, Limits DEF IInv, StackTyped, Descending, AfterGrasp, RoutePoints
      <4> QED
        BY <2>6, <4>1, SubSeqFacts DEF AcceptCarry
    <3>4. now' = now /\ pc' \in {"accept", "search"}
      BY <2>6 DEF AcceptCarry
    <3> QED
      BY <3>2, <3>3, <3>4 DEF RouteInTime, RoutePoints
  <2> QED
    BY <1>6, <2>1, <2>2, <2>3, <2>4, <2>5, <2>6 DEF Route
<1>7. CASE Place
  <2>1. CASE ReturnFails \/ PlaceLate \/ AcceptPlace
    BY <1>2, <2>1, RouteFailsFacts DEF ReturnFails, PlaceLate, AcceptPlace, RoutePoints
  <2>2. CASE StartReturn
    <3>1. pc = "timing" /\ now' = now /\ search' = search /\ pc' = "back"
      BY <2>2 DEF StartReturn
    <3>2. search.fast => now <= search.routeBy
      <4>1. PICK limit \in Int : limit = RouteLimit /\ limit <= search.routeBy
        BY <3>1, Limits DEF AfterGrasp, RoutePoints
      <4>2. search.fast => ~RouteStopped(now)
        BY <2>2 DEF StartReturn, IInv, SearchTyped
      <4> QED
        BY <4>1, <4>2, Times DEF RouteStopped, Interrupted
    <3> QED
      BY <3>1, <3>2 DEF RouteInTime, RoutePoints
  <2>3. CASE PlanRetreat \/ PlanToNamedTarget
    <3>1. PICK t \in Nat : now' = t /\ t < back.by
      BY <2>3, StageFacts
    <3>2. pc = "back" /\ pc' = "back" /\ search' = search
      BY <2>3, StageFacts
    <3>3. search.fast => t <= search.routeBy
      BY <3>1, <3>2, Times DEF IInv, ReturnInTime
    <3> QED
      BY <3>1, <3>2, <3>3 DEF RouteInTime, RoutePoints
  <2>4. CASE NextRetreat
    <3>1. ~search.fast /\ search' = search /\ pc' = "back"
      BY <2>4 DEF NextRetreat, IInv, SearchTyped
    <3> QED
      BY <3>1 DEF RouteInTime, RoutePoints
  <2>5. CASE CaptureReturn
    <3>1. PICK t \in Later : now' = t
      BY <2>5 DEF CaptureReturn
    <3>2. pc = "back" /\ search' = search /\ pc' = "placed"
      BY <2>5 DEF CaptureReturn
    <3>3. search.fast => t <= search.routeBy + Longest
      BY <1>1, <3>2, Times DEF RouteInTime
    <3> QED
      BY <3>1, <3>2, <3>3 DEF RouteInTime, RoutePoints
  <2> QED
    BY <1>7, <2>1, <2>2, <2>3, <2>4, <2>5 DEF Place
<1>8. CASE Cancel \/ Done
  <2>1. UNCHANGED <<now, deadlines, pc, search>>
    BY <1>8 DEF Cancel, Done, vars
  <2> QED
    BY <1>1, <2>1 DEF RouteInTime, Overrun
<1> QED
  BY <1>4, <1>5, <1>6, <1>7, <1>8 DEF Next, Step

LEMMA FastShareNext ==
  ASSUME IInv, Next
  PROVE  FastShare'
<1>1. FastShare /\ search \in SearchRecord
  BY DEF IInv, SearchTyped
<1>2. ASSUME ~search'.fast \/ search' = search
      PROVE  FastShare'
  BY <1>1, <1>2 DEF FastShare
<1>3. ASSUME search'.fast = search.fast, search'.leg = search.leg, search'.began = search.began,
             search'.by = search.by, search'.routeBy = search.routeBy
      PROVE  FastShare'
  BY <1>1, <1>3, Zenon DEF FastShare
<1>4. NoSearch.fast = FALSE /\ \A l : [NoSearch EXCEPT !.leg = l].fast = FALSE
  BY DEF NoSearch
<1>5. CASE Pick
  <2>1. CASE PregraspFails \/ ApproachFails \/ AcceptAttempt
    BY <1>2, <1>4, <2>1, AttemptEndsFacts DEF PregraspFails, ApproachFails, AcceptAttempt
  <2> QED
    BY <1>2, <1>4, <1>5, <2>1
       DEF Pick, NominalFast, SkipFast, CollectTier, AttemptNext, InitialDone, RetryNext, PickFails,
           PlanPregrasp, BuildApproach
<1>6. CASE Search
  <2>1. CASE PrecheckFails \/ SweepEnds
    BY <1>2, <1>4, <2>1, AttemptEndsFacts DEF PrecheckFails, SweepEnds, SearchFails
  <2>2. CASE StartSearch
    <3>1. PICK by \in Nat, fastBy \in Nat :
            /\ search.leg = "place" => 5 * (fastBy - now) <= by - now
            /\ \/ /\ poseToPose /\ pc' = "endpoint"
                  /\ search' = [search EXCEPT !.began = now, !.by = by, !.routeBy = fastBy, !.fast = TRUE]
               \/ /\ ~poseToPose /\ pc' = "precheck"
                  /\ search' = [search EXCEPT !.began = now, !.by = by]
      BY <2>2, StartSearchFacts
    <3>2. CASE search' = [search EXCEPT !.began = now, !.by = by, !.routeBy = fastBy, !.fast = TRUE]
      <4>1. /\ search'.leg = search.leg /\ search'.began = now /\ search'.by = by
            /\ search'.routeBy = fastBy
        BY <1>1, <3>2 DEF SearchRecord
      <4> QED
        BY <3>1, <4>1, Zenon DEF FastShare
    <3>3. CASE search' = [search EXCEPT !.began = now, !.by = by]
      <4>1. ~search.fast
        BY <2>2 DEF StartSearch, IInv, SearchTyped, RoutePoints, ReturnPoints
      <4> QED
        BY <1>1, <1>2, <3>3, <4>1 DEF SearchRecord
    <3> QED
      BY <3>1, <3>2, <3>3
  <2>3. CASE Precheck \/ SweepNext
    <3>1. search'.fast = search.fast
      BY <1>1, <2>3 DEF Precheck, SweepNext, SearchRecord
    <3>2. ~search.fast
      BY <2>3 DEF Precheck, SweepNext, IInv, SearchTyped, RoutePoints, ReturnPoints
    <3> QED
      BY <1>2, <3>1, <3>2
  <2>4. CASE FastEndpoint \/ FastEndpointFails
    BY <1>1, <1>2, <2>4, WithoutRouteFacts DEF FastEndpoint, FastEndpointFails, FastFails, SearchRecord
  <2> QED
    BY <1>6, <2>1, <2>2, <2>3, <2>4 DEF Search
<1>7. CASE Route
  <2>1. CASE BeginFails \/ RouteThrows \/ RestoreFails \/ RouteRejected
    BY <1>2, <2>1, RouteFailsFacts DEF BeginFails, RouteThrows, RestoreFails, RouteRejected
  <2>2. ASSUME NEW outcomes, NEW n, Appended(outcomes, n)
        PROVE  FastShare'
    BY <1>1, <1>3, <2>2 DEF Appended, SearchRecord
  <2>3. CASE SegmentReached \/ CartesianSegment \/ CachedSegment \/ JointSegment \/ ObjectPath
    BY <2>2, <2>3 DEF SegmentReached, CartesianSegment, CachedSegment, JointSegment, ObjectPath
  <2>4. CASE BeginRoute \/ SegmentStopped
    BY <1>1, <1>3, <2>4 DEF BeginRoute, RouteBegins, SegmentStopped, SearchRecord
  <2>5. CASE SegmentsEnd \/ RestoreBox \/ AcceptCarry
    BY <1>2, <1>4, <2>5 DEF SegmentsEnd, RestoreBox, AcceptCarry
  <2> QED
    BY <1>7, <2>1, <2>3, <2>4, <2>5 DEF Route
<1>8. CASE Place
  <2>1. CASE ReturnFails \/ PlaceLate
    BY <1>2, <2>1, RouteFailsFacts DEF ReturnFails, PlaceLate
  <2> QED
    BY <1>2, <1>4, <1>8, <2>1
       DEF Place, StartReturn, PlanRetreat, PlanToNamedTarget, Stage, NextRetreat, CaptureReturn,
           AcceptPlace
<1>9. CASE Cancel \/ Done
  BY <1>2, <1>9 DEF Cancel, Done, vars
<1> QED
  BY <1>5, <1>6, <1>7, <1>8, <1>9 DEF Next, Step

\* Where a step leaves the search in its return.
LEMMA ReturnReachedBy ==
  ASSUME IInv, Next, pc' = "back"
  PROVE  StartReturn \/ PlanRetreat \/ PlanToNamedTarget \/ NextRetreat
           \/ (pc = "back" /\ UNCHANGED <<now, search, back>>)
<1>1. CASE Pick
  <2>1. CASE PregraspFails \/ ApproachFails \/ AcceptAttempt
    BY <2>1, AttemptEndsFacts DEF PregraspFails, ApproachFails, AcceptAttempt
  <2> QED
    BY <1>1, <2>1
       DEF Pick, NominalFast, SkipFast, CollectTier, Collecting, AttemptNext, InitialDone, RetryNext,
           PickFails, PlanPregrasp, BuildApproach, OpenAttempt, Finish
<1>2. CASE Search
  <2>1. CASE PrecheckFails \/ SweepEnds
    BY <2>1, AttemptEndsFacts DEF PrecheckFails, SweepEnds, SearchFails
  <2> QED
    BY <1>2, <2>1
       DEF Search, StartSearch, FastEndpoint, FastEndpointFails, FastFails, Precheck, SweepNext
<1>3. CASE Route
  <2>1. CASE BeginFails \/ RouteThrows \/ RestoreFails \/ RouteRejected
    BY <2>1, RouteFailsFacts DEF BeginFails, RouteThrows, RestoreFails, RouteRejected
  <2> QED
    BY <1>3, <2>1
       DEF Route, BeginRoute, RouteBegins, SegmentReached, CartesianSegment, CachedSegment, JointSegment, ObjectPath,
           AtSegment, Appended, SegmentStopped, SegmentsEnd, RestoreBox, AcceptCarry
<1>4. CASE Place
  <2>1. CASE ReturnFails \/ PlaceLate
    BY <2>1, RouteFailsFacts DEF ReturnFails, PlaceLate
  <2> QED
    BY <1>4, <2>1 DEF Place, CaptureReturn, AcceptPlace
<1>5. CASE Cancel \/ Done
  BY <1>5 DEF Cancel, Done, vars
<1> QED
  BY <1>1, <1>2, <1>3, <1>4, <1>5 DEF Next, Step

LEMMA NextRetreatFacts ==
  ASSUME IInv, NextRetreat
  PROVE  /\ back'.by = back.by /\ back'.began = back.began /\ search' = search /\ pc = "back"
         /\ now' = now \/ (now < back.by /\ now' \in Later)
<1>1. back \in ReturnRecord /\ pc = "back" /\ search' = search
  BY DEF IInv, SearchTyped, NextRetreat
<1>2. back'.by = back.by /\ back'.began = back.began
  BY <1>1 DEF NextRetreat, ReturnRecord
<1>3. PICK limit \in Int : limit = ReturnLimit /\ limit <= back.by
  BY <1>1, Limits DEF AfterGrasp, ReturnPoints
<1>4. CASE ReturnStopped(now)
  BY <1>1, <1>2, <1>4 DEF NextRetreat
<1>5. CASE ~ReturnStopped(now)
  <2>1. now < back.by
    BY <1>3, <1>5, Times DEF ReturnStopped, Interrupted
  <2>2. now' \in Later
    BY <1>5 DEF NextRetreat
  <2> QED
    BY <1>1, <1>2, <2>1, <2>2
<1> QED
  BY <1>4, <1>5

LEMMA ReturnInTimeNext ==
  ASSUME IInv, Next
  PROVE  ReturnInTime'
<1>1. CASE pc' # "back"
  BY <1>1 DEF ReturnInTime
<1>2. CASE pc = "back" /\ UNCHANGED <<now, search, back>>
  BY <1>2 DEF IInv, ReturnInTime
<1>3. CASE StartReturn
  <2>1. PICK by \in Nat :
          /\ back' = [by |-> by, began |-> now, stage |-> 0, distance |-> 1]
          /\ search.fast => by <= search.routeBy
    BY <1>3, StartReturnFacts
  <2>2. pc = "timing" /\ search' = search /\ now' = now
    BY <1>3 DEF StartReturn
  <2>3. search.routeBy <= search.by /\ now <= search.routeBy + 2 * Longest
    BY <2>2 DEF IInv, RouteInTime, RoutePoints, Overrun
  <2>4. now <= search.by + 2 * Longest
    BY <2>3, Times
  <2>5. back'.by = by /\ back'.began = now
    BY <2>1
  <2> QED
    BY <2>1, <2>2, <2>4, <2>5 DEF ReturnInTime
<1>4. ASSUME pc = "back", search' = search, back'.by = back.by, back'.began = back.began,
             NEW t \in Nat, now' = t, now <= t,
             t = now \/ (t < back.by + Longest /\ (now < back.by \/ t < back.by))
      PROVE  ReturnInTime'
  <2>1. /\ search.fast => back.by <= search.routeBy
        /\ ~search.fast => back.began <= search.by + 2 * Longest
        /\ now = back.began \/ (back.began < back.by /\ back.began < now /\ now < back.by + Longest)
    BY <1>4 DEF IInv, ReturnInTime
  <2>2. t = back.began \/ (back.began < back.by /\ back.began < t /\ t < back.by + Longest)
    BY <1>4, <2>1, Times
  <2> QED
    BY <1>4, <2>1, <2>2 DEF ReturnInTime
<1>5. CASE PlanRetreat \/ PlanToNamedTarget
  <2>1. PICK t \in Nat : now' = t /\ now <= t /\ t < back.by
    BY <1>5, StageFacts
  <2>2. t < back.by + Longest
    BY <2>1, Times
  <2> QED
    BY <1>4, <1>5, <2>1, <2>2, StageFacts
<1>6. CASE NextRetreat
  <2>1. CASE now' = now
    <3>1. back'.by = back.by /\ back'.began = back.began /\ search' = search /\ pc = "back"
      BY <1>6, NextRetreatFacts
    <3> QED
      BY <2>1, <3>1, Zenon DEF IInv, ReturnInTime
  <2>2. CASE now < back.by /\ now' \in Later
    <3>1. PICK t \in Later : now' = t
      BY <2>2
    <3>2. t \in Nat /\ now <= t /\ t < back.by + Longest
      BY <2>2, <3>1, Times
    <3> QED
      BY <1>4, <1>6, <2>2, <3>1, <3>2, NextRetreatFacts
  <2> QED
    BY <1>6, <2>1, <2>2, NextRetreatFacts
<1> QED
  BY <1>1, <1>2, <1>3, <1>5, <1>6, ReturnReachedBy

LEMMA ReturnShareNext ==
  ASSUME IInv, Next
  PROVE  ReturnShare'
<1>1. CASE pc' # "back"
  BY <1>1 DEF ReturnShare
<1>2. ASSUME pc = "back", search' = search, back'.by = back.by, back'.began = back.began
      PROVE  ReturnShare'
  BY <1>2, Zenon DEF IInv, ReturnShare
<1>3. CASE StartReturn
  <2>1. PICK by \in Nat :
          /\ back' = [by |-> by, began |-> now, stage |-> 0, distance |-> 1]
          /\ ~search.fast /\ search.end < search.ends /\ now < by => 2 * (by - now) <= search.by - now
    BY <1>3, StartReturnFacts
  <2>2. search' = search /\ back'.by = by /\ back'.began = now
    BY <1>3, <2>1 DEF StartReturn
  <2> QED
    BY <2>1, <2>2, Zenon DEF ReturnShare
<1>4. CASE PlanRetreat \/ PlanToNamedTarget
  BY <1>2, <1>4, StageFacts
<1>5. CASE NextRetreat
  BY <1>2, <1>5, NextRetreatFacts
<1> QED
  BY <1>1, <1>2, <1>3, <1>4, <1>5, ReturnReachedBy

-----------------------------------------------------------------------------
(* The theorems. *)

LEMMA Initially ==
  ASSUME Init
  PROVE  IInv
<1>1. ControlTyped
  <2>1. now \in 0..MaxNow /\ result = "none" /\ pc = "start"
    BY Bounds DEF Init
  <2>2. cancel \in BOOLEAN /\ poseToPose \in BOOLEAN /\ pickOnly \in BOOLEAN
    BY Zenon DEF Init
  <2> QED
    BY <2>1, <2>2 DEF ControlTyped
<1>2. StackTyped
  BY Bounds DEF Init, StackTyped, Scopes, Descending
<1>3. PickTyped
  <2>1. <<>> \in Seq(1..Grasps) /\ Len(<<>>) = 0
    OBVIOUS
  <2> QED
    BY <2>1, Bounds DEF Init, PickTyped, AfterGrasp, RoutePoints, ReturnPoints
<1>4. RetryTyped
  <2>1. ToSet(<<>>) = {}
    BY DEF ToSet
  <2>2. retry = <<>> /\ index = 1
    BY DEF Init
  <2>3. IsFiniteSet({}) /\ Cardinality({}) = 0
    BY FS_EmptySet
  <2>4. <<>> \in Seq(Nat \ {0}) /\ Len(<<>>) = 0
    OBVIOUS
  <2> QED
    BY <2>1, <2>2, <2>3, <2>4 DEF RetryTyped
<1>5. SearchTyped
  <2>1. search = NoSearch /\ back = NoReturn /\ pc = "start"
    BY DEF Init
  <2>2. NoSearch.end = 0 /\ NoSearch.ends = 0 /\ NoSearch.fast = FALSE
    BY DEF NoSearch
  <2> QED
    BY <2>1, <2>2, EmptyRecords DEF SearchTyped, RoutePoints, ReturnPoints
<1>6. RouteBox /\ LegByPoint
  BY DEF Init, RouteBox, LegByPoint, Scenes, Places, Observed, RoutePoints, ReturnPoints, NoSearch
<1>7. GraspHolds /\ CarryHolds /\ ReturnHolds /\ PlaceHolds
  BY DEF Init, GraspHolds, CarryHolds, ReturnHolds, PlaceHolds, NoSearch, AfterGrasp, RoutePoints,
         ReturnPoints
<1>8. PathHolds
  BY DEF Init, PathHolds, AcceptedPathHolds, NoPath
<1>9. RouteInTime /\ FastShare /\ ReturnInTime /\ ReturnShare
  BY DEF Init, RouteInTime, FastShare, ReturnInTime, ReturnShare, NoSearch, RoutePoints
<1> QED
  BY <1>1, <1>2, <1>3, <1>4, <1>5, <1>6, <1>7, <1>8, <1>9 DEF IInv

LEMMA Stutter ==
  ASSUME IInv, UNCHANGED vars
  PROVE  IInv'
<1>1. ControlTyped' /\ StackTyped' /\ PickTyped' /\ RetryTyped' /\ SearchTyped'
  <2>1. ControlTyped' /\ PickTyped'
    BY DEF vars, IInv, ControlTyped, PickTyped
  <2>2. StackTyped'
    BY DEF vars, IInv, StackTyped, Scopes
  <2>3. RetryTyped' /\ SearchTyped'
    BY DEF vars, IInv, RetryTyped, SearchTyped
  <2> QED
    BY <2>1, <2>2, <2>3
<1>2. RouteBox' /\ LegByPoint' /\ GraspHolds' /\ CarryHolds' /\ ReturnHolds' /\ PlaceHolds' /\ PathHolds'
  <2>1. Candidate' = Candidate
    BY DEF vars, Candidate
  <2>2. RoutePiece(built["carry"])' = RoutePiece(built["carry"])
    BY DEF vars, RoutePiece
  <2> QED
    BY <2>1, <2>2 DEF vars, IInv, RouteBox, LegByPoint, GraspHolds, CarryHolds, ReturnHolds, PlaceHolds,
                      PathHolds, AcceptedPathHolds
<1>3. RouteInTime' /\ FastShare' /\ ReturnInTime' /\ ReturnShare'
  BY DEF vars, IInv, RouteInTime, Overrun, FastShare, ReturnInTime, ReturnShare
<1> QED
  BY <1>1, <1>2, <1>3 DEF IInv

LEMMA StepIInv ==
  ASSUME IInv, [Next]_vars
  PROVE  IInv'
<1>1. CASE Next
  BY <1>1, ControlTypedNext, StackTypedNext, PickTypedNext, RetryTypedNext, SearchTypedNext,
     RouteBoxNext, LegByPointNext, GraspHoldsNext, CarryHoldsNext, ReturnHoldsNext, PlaceHoldsNext,
     PathHoldsNext, RouteInTimeNext, FastShareNext, ReturnInTimeNext, ReturnShareNext DEF IInv
<1> QED
  BY <1>1, Stutter

\* The inductive invariant.
THEOREM Invariance == Spec => []IInv
  BY Initially, StepIInv, PTL DEF Spec

\* The stack of deadlines is as deep as the open scopes of the point the search stands at
\* and never rises towards its end, and no candidate is put on the retry list twice.
THEOREM TypeCorrect == Spec => []TypeOK
<1>1. IInv => TypeOK
  <2> SUFFICES ASSUME IInv
               PROVE  TypeOK
    OBVIOUS
  <2>1. /\ now \in 0..MaxNow /\ collected \in 0..now
        /\ {cancel, poseToPose, pickOnly} \subseteq BOOLEAN
        /\ result \in {"none", "found", "failed"}
    BY DEF IInv, ControlTyped, PickTyped
  <2>2. pc \in {"start", "pick", "attempt", "approach", "search", "endpoint", "precheck", "sweep",
                "route", "segments", "restore", "timing", "back", "placed", "accept", "done"}
    BY DEF IInv, ControlTyped, AfterGrasp, RoutePoints, ReturnPoints
  <2>3. Len(deadlines) = Scopes /\ \A i \in 1..Len(deadlines) - 1 : deadlines[i + 1] <= deadlines[i]
    BY DEF IInv, StackTyped, Descending
  <2>4. /\ cursor \in 0..Grasps /\ Len(feasible) <= Grasps
        /\ turn \in {"fast", "initial", "retry"} /\ index \in 1..(Grasps + 1)
    BY DEF IInv, PickTyped
  <2>5. ToSet(feasible) \subseteq 1..Grasps
    <3>1. feasible \in Seq(1..Grasps)
      BY DEF IInv, PickTyped
    <3>2. DOMAIN feasible = 1..Len(feasible) /\ \A i \in 1..Len(feasible) : feasible[i] \in 1..Grasps
      BY <3>1, LenProperties, ElementOfSeq
    <3> QED
      BY <3>2 DEF ToSet
  <2>6. ToSet(retry) \subseteq 1..Len(feasible) /\ Cardinality(ToSet(retry)) = Len(retry)
    <3>1. /\ retry \in Seq(Nat \ {0}) /\ \A i \in 1..Len(retry) : retry[i] <= Len(feasible)
          /\ Len(feasible) \in Nat
      BY DEF IInv, RetryTyped, PickTyped
    <3> QED
      BY <3>1 DEF ToSet, IInv, RetryTyped
  <2>7. search \in SearchRecord /\ back \in ReturnRecord /\ search.end <= search.ends
    BY DEF IInv, SearchTyped
  <2>8. /\ search.leg \in {"none", "carry", "place"} /\ search.seg \in 0..Segments
        /\ search.route \in 0..(Routes + 1) /\ search.ends \in 0..(CarryEnds + PlaceEnds)
        /\ search.end \in 0..search.ends
        /\ back.stage \in 0..ReturnStages /\ back.distance \in 0..Retreats
    BY <2>7, Bounds DEF SearchRecord, ReturnRecord
  <2>9. scene \in [live : Places \cup {Attached}, kept : Places] /\ DOMAIN built = Pieces /\ DOMAIN path = Pieces
    BY DEF IInv, RouteBox, Scenes, PathHolds
  <2> QED
    BY <2>1, <2>2, <2>3, <2>4, <2>5, <2>6, <2>8, <2>9 DEF TypeOK
<1> QED
  BY <1>1, Invariance, PTL

\* The path that is returned is one path, its carry and placement checked with the box
\* attached, its grasp with the box in the world; it is accepted in time and with the box
\* where MoveIt and the retained objects agree, wherever refused restores have left it.
THEOREM AcceptedPathHoldsAlways == Spec => []AcceptedPathHolds
<1>1. IInv => AcceptedPathHolds
  BY DEF IInv, PathHolds
<1> QED
  BY <1>1, Invariance, PTL

\* A fast path that fails stopped at most three steps after its fifth of the search.
LEMMA FastPathShare ==
  ASSUME IInv, search.leg = "place", search.fast, NEW t \in Nat, t <= search.routeBy + 3 * Longest
  PROVE  FastPathLeaves(t)
<1>1. /\ search.by \in Nat /\ search.began \in Nat /\ search.routeBy \in Nat /\ Longest \in Nat
      /\ 5 * (search.routeBy - search.began) <= search.by - search.began
  BY Times DEF IInv, FastShare
<1> QED
  BY <1>1 DEF FastPathLeaves

\* A return that fails stopped at most two steps after its half, or began that late.
LEMMA ReturnHalf ==
  ASSUME IInv, pc = "back", ~search.fast, search.end < search.ends, NEW t \in Nat, t <= now + Longest
  PROVE  ReturnLeaves(t)
<1>1. /\ search.by \in Nat /\ back.began \in Nat /\ back.by \in Nat /\ Longest \in Nat /\ now \in Nat
  BY Times
<1>2. /\ back.began <= search.by + 2 * Longest
      /\ now = back.began \/ (back.began < back.by /\ back.began < now /\ now < back.by + Longest)
      /\ back.began < back.by => 2 * (back.by - back.began) <= search.by - back.began
  BY DEF IInv, ReturnInTime, ReturnShare
<1> QED
  BY <1>1, <1>2 DEF ReturnLeaves

\* What is given up leaves time for what is left to try.
THEOREM OthersKeepTimeAlways == Spec => OthersKeepTime
<1>1. IInv /\ [Next]_vars =>
        [/\ (search.leg = "place" /\ search.fast /\ pc' = "precheck") => FastPathLeaves(now')
         /\ (pc = "back" /\ pc' = "sweep" /\ search.end < search.ends) => ReturnLeaves(now')]_vars
  <2> SUFFICES ASSUME IInv, Next
               PROVE  /\ (search.leg = "place" /\ search.fast /\ pc' = "precheck") => FastPathLeaves(now')
                      /\ (pc = "back" /\ pc' = "sweep" /\ search.end < search.ends) => ReturnLeaves(now')
    OBVIOUS
  <2>1. ASSUME search.leg = "place", search.fast, pc' = "precheck"
        PROVE  FastPathLeaves(now')
    <3>1. pc \in RoutePoints \cup ReturnPoints
      BY <2>1 DEF IInv, SearchTyped
    <3>2. \/ FastEndpointFails \/ BeginFails \/ RouteThrows \/ RestoreFails \/ RouteRejected
          \/ ReturnFails \/ PlaceLate
      BY <2>1, <3>1
         DEF Next, Step, Pick, NominalFast, SkipFast, CollectTier, Collecting, AttemptNext, InitialDone,
             RetryNext, PickFails, PregraspFails, PlanPregrasp, BuildApproach, ApproachFails,
             AcceptAttempt, Search, StartSearch, FastEndpoint, Precheck, PrecheckFails, SweepNext,
             SweepEnds, Route, BeginRoute, RouteBegins, SegmentReached, CartesianSegment, CachedSegment,
             JointSegment, ObjectPath, AtSegment, Appended, SegmentStopped, SegmentsEnd, RestoreBox,
             AcceptCarry, Place, StartReturn, PlanRetreat, PlanToNamedTarget, Stage, NextRetreat,
             CaptureReturn, AcceptPlace, Cancel, Done, vars, RoutePoints, ReturnPoints
    <3>3. PICK t \in Nat : now' = t /\ t <= now + Longest /\ (PlaceLate => t = now)
      <4>1. CASE PlaceLate
        BY <4>1, Times, RouteFailsFacts DEF PlaceLate
      <4>2. CASE FastEndpointFails
        BY <4>2, Times DEF FastEndpointFails, FastFails, PlaceLate
      <4> QED
        BY <3>2, <4>1, <4>2, Times, RouteFailsFacts
           DEF BeginFails, RouteThrows, RestoreFails, RouteRejected, ReturnFails
    <3>4. CASE pc \in RoutePoints
      <4>1. now <= search.routeBy + 2 * Longest
        BY <3>4, Times DEF IInv, RouteInTime, Overrun, RoutePoints
      <4> QED
        BY <2>1, <3>3, <4>1, FastPathShare, Times
    <3>5. CASE pc = "back"
      <4>1. now <= search.routeBy
        BY <2>1, <3>5 DEF IInv, RouteInTime
      <4> QED
        BY <2>1, <3>3, <4>1, FastPathShare, Times
    <3>6. CASE pc = "placed"
      <4>1. now <= search.routeBy + Longest
        BY <2>1, <3>6 DEF IInv, RouteInTime
      <4> QED
        BY <2>1, <3>3, <4>1, FastPathShare, Times
    <3> QED
      BY <3>1, <3>4, <3>5, <3>6 DEF ReturnPoints
  <2>2. ASSUME pc = "back", pc' = "sweep", search.end < search.ends
        PROVE  ReturnLeaves(now')
    <3>1. ReturnFails
      BY <2>2
         DEF Next, Step, Pick, NominalFast, SkipFast, CollectTier, Collecting, AttemptNext, InitialDone,
             RetryNext, PickFails, PregraspFails, PlanPregrasp, BuildApproach, ApproachFails,
             AcceptAttempt, Search, StartSearch, FastEndpoint, FastEndpointFails, Precheck,
             PrecheckFails, SweepNext, SweepEnds, Route, BeginRoute, RouteBegins, BeginFails, SegmentReached,
             CartesianSegment, CachedSegment, JointSegment, ObjectPath, AtSegment, SegmentStopped,
             SegmentsEnd, RouteThrows, RestoreBox, RestoreFails, RouteRejected, AcceptCarry, Place,
             StartReturn, PlanRetreat, PlanToNamedTarget, Stage, NextRetreat, CaptureReturn, PlaceLate,
             AcceptPlace, Cancel, Done, vars
    <3>2. PICK t \in Later : now' = t /\ RouteFails(t)
      BY <3>1, RouteFailsFacts DEF ReturnFails
    <3>3. ~search.fast /\ t \in Nat /\ t <= now + Longest
      BY <2>2, <3>2, RouteFailsFacts, Times
    <3>4. ReturnLeaves(t)
      BY <2>2, <3>3, ReturnHalf
    <3> QED
      BY <3>2, <3>4
  <2> QED
    BY <2>1, <2>2
<1> QED
  BY <1>1, Invariance, PTL DEF Spec, OthersKeepTime
=============================================================================
