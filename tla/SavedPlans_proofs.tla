--------------------------- MODULE SavedPlans_proofs ---------------------------
(* Proofs about SavedPlans for every number of plans, moves of the box and the table,
   and Continue scenes, with and without a preparation.

   What makes a stored plan fit the arms it meets is the shape of its steps: each is
   for the grip the one before it leaves (Chained), whatever part of the plan a
   replanning has replaced.  The running plan is of that shape (RunningPlanFits), an
   attachment is still ahead of empty arms that have not released (AttachAhead), and
   its pick pose is the accepted one unless a replanning is due (PickIsSeen).

   That an execution does each of its milestones once, whatever was replanned, is a
   second invariant on top of that one (RouteInv): a plan is at any time the rest of its
   action's route, from some stage on, and the stage says what the arms hold and what
   the execution has done. *)
EXTENDS SavedPlans, SequenceTheorems, TLAPS

\* The grip after a step.
GripAfter(step) == step.kind = "ATTACH" \/ (step.kind = "MOTION" /\ step.held)

\* A step fits the action it is part of.
StepFits(step, action) ==
  /\ step.kind = "ATTACH" => ~step.held /\ action \in PickActions
  /\ step.kind = "RELEASE" => step.held
  /\ action = "pick" /\ step.held => step.name = "carry"

\* Each step of a part is for the grip that is there: before at its first step, and
\* after is what its last one leaves.
Chained(steps, before, after) ==
  /\ steps = <<>> => (before <=> after)
  /\ steps # <<>> => (steps[1].held <=> before) /\ (GripAfter(steps[Len(steps)]) <=> after)
  /\ \A i \in 1..Len(steps) : i < Len(steps) => (steps[i + 1].held <=> GripAfter(steps[i]))

Fits(steps, action, before, after) ==
  /\ steps \in Seq(Steps)
  /\ \A i \in 1..Len(steps) : StepFits(steps[i], action)
  /\ Chained(steps, before, after)

Attaches(steps, first) == \E i \in first..Len(steps) : steps[i].kind = "ATTACH"
OnlyReturns(steps, first) ==
  \A i \in first..Len(steps) : steps[i].kind = "MOTION" /\ ~steps[i].held

\* A plan as it is stored: all of its action, from the grip the action begins with.
StoredPlanFits(a) ==
  plans[a].id > 0 =>
    /\ plans[a].action = a /\ plans[a].scene = 0
    /\ plans[a].steps # <<>>
    /\ \E after \in BOOLEAN : Fits(plans[a].steps, a, a \notin PickActions, after)
    /\ a \in PickActions => Attaches(plans[a].steps, 1)

StoreFits ==
  /\ \A a \in Actions : plans[a].id <= serial /\ StoredPlanFits(a)
  /\ pc # "idle" => plans = NoPlans

IdleIsClear ==
  /\ pc = "idle" <=> plan.id = 0
  /\ pc = "idle" => /\ ~released /\ ~targetMoved /\ ~sceneMoved /\ ~requested
                    /\ revision = 0 /\ savedRevision = 0

StateIsTrue ==
  /\ state = "HOLDING" => attached
  /\ state = "EMPTY" => ~attached
  /\ pc # "idle" => state \in {"EMPTY", "HOLDING"}

RunningPlanFits ==
  pc # "idle" =>
    /\ plan.steps # <<>>
    /\ \E before, after \in BOOLEAN : Fits(plan.steps, plan.action, before, after)
    /\ index <= Len(plan.steps) => (Step.held <=> attached)
    /\ index > Len(plan.steps) => (GripAfter(plan.steps[Len(plan.steps)]) <=> attached)

ReleasedReturns ==
  /\ released => ~attached /\ OnlyReturns(plan.steps, index)
  /\ pc = "dispatch" /\ Step.kind = "RELEASE" => OnlyReturns(plan.steps, index + 1)

AttachAhead ==
  pc # "idle" /\ ~released /\ ~attached =>
    plan.action \in PickActions /\ Attaches(plan.steps, index)

SceneByRevision ==
  /\ requested => revision < MaxRevision
  /\ plan.id # 0 => plan.scene = savedRevision
  /\ savedRevision <= revision

ReplanIsDue ==
  /\ pc \in {"step", "step_paused", "dispatch"} => ~targetMoved /\ ~sceneMoved
  /\ pc \in {"replan", "replan_paused"} => targetMoved \/ sceneMoved

\* At a dispatch the scene was looked at.
DispatchOnScene ==
  pc = "dispatch" =>
    /\ hands = Step.from
    /\ ~SceneIsNew
    /\ Step.kind = "ATTACH" => hands = Contact(plan.pick)

PickIsSeen ==
  pc # "idle" /\ BeforeAttachment /\ ~targetMoved /\ ~sceneMoved /\ savedRevision = revision =>
    plan.pick = seen.box

IInv ==
  /\ TypeOK
  /\ StoreFits /\ IdleIsClear /\ StateIsTrue
  /\ RunningPlanFits /\ ReleasedReturns /\ AttachAhead
  /\ SceneByRevision /\ ReplanIsDue /\ DispatchOnScene /\ PickIsSeen
-----------------------------------------------------------------------------
(* Parts of plans, and what is made of them. *)

LEMMA EmptyFits ==
  ASSUME NEW action, NEW grip \in BOOLEAN
  PROVE  Fits(<<>>, action, grip, grip)
  BY DEF Fits, Chained

LEMMA OneFits ==
  ASSUME NEW action, NEW a \in Steps, StepFits(a, action)
  PROVE  Fits(<<a>>, action, a.held, GripAfter(a))
<1>1. <<a>> \in Seq(Steps) /\ Len(<<a>>) = 1 /\ <<a>>[1] = a /\ <<a>> # <<>>
  OBVIOUS
<1> QED
  BY <1>1 DEF Fits, Chained

LEMMA ConcatFits ==
  ASSUME NEW action, NEW before \in BOOLEAN, NEW between \in BOOLEAN, NEW after \in BOOLEAN,
         NEW s, NEW t, Fits(s, action, before, between), Fits(t, action, between, after)
  PROVE  Fits(s \o t, action, before, after)
<1> DEFINE st == s \o t
<1>1. s \in Seq(Steps) /\ t \in Seq(Steps)
  BY DEF Fits
<1>2. /\ st \in Seq(Steps) /\ Len(st) = Len(s) + Len(t)
      /\ \A i \in 1..Len(s) : st[i] = s[i]
      /\ \A i \in (Len(s) + 1)..(Len(s) + Len(t)) : st[i] = t[i - Len(s)]
  BY <1>1, ConcatProperties
<1>3. Len(s) \in Nat /\ Len(t) \in Nat /\ (s = <<>> <=> Len(s) = 0) /\ (t = <<>> <=> Len(t) = 0)
      /\ (st = <<>> <=> Len(st) = 0)
  BY <1>1, <1>2, EmptySeq
<1> HIDE DEF st
<1>4. \A i \in 1..Len(st) : StepFits(st[i], action)
  <2> SUFFICES ASSUME NEW i \in 1..Len(st)
               PROVE  StepFits(st[i], action)
    OBVIOUS
  <2>1. CASE i \in 1..Len(s)
    BY <1>2, <2>1 DEF Fits
  <2>2. CASE i \notin 1..Len(s)
    <3>1. i - Len(s) \in 1..Len(t) /\ st[i] = t[i - Len(s)]
      BY <1>2, <1>3, <2>2
    <3> QED
      BY <3>1 DEF Fits
  <2> QED
    BY <2>1, <2>2
<1>5. \A i \in 1..Len(st) : i < Len(st) => (st[i + 1].held <=> GripAfter(st[i]))
  <2> SUFFICES ASSUME NEW i \in 1..Len(st), i < Len(st)
               PROVE  st[i + 1].held <=> GripAfter(st[i])
    OBVIOUS
  <2>1. CASE i < Len(s)
    <3>1. i \in 1..Len(s) /\ st[i] = s[i] /\ st[i + 1] = s[i + 1]
      BY <1>2, <1>3, <2>1
    <3> QED
      BY <2>1, <3>1 DEF Fits, Chained
  <2>2. CASE i = Len(s)
    <3>1. s # <<>> /\ t # <<>> /\ st[i] = s[Len(s)] /\ st[i + 1] = t[1]
      BY <1>2, <1>3, <2>2
    <3> QED
      BY <3>1 DEF Fits, Chained
  <2>3. CASE i > Len(s)
    <3>1. i - Len(s) \in 1..Len(t) /\ i - Len(s) < Len(t)
          /\ st[i] = t[i - Len(s)] /\ st[i + 1] = t[(i - Len(s)) + 1]
      BY <1>2, <1>3, <2>3
    <3> QED
      BY <3>1 DEF Fits, Chained
  <2> QED
    BY <1>3, <2>1, <2>2, <2>3
<1>6. Chained(st, before, after)
  <2>1. CASE Len(s) = 0 /\ Len(t) = 0
    BY <1>2, <1>3, <1>5, <2>1 DEF Fits, Chained
  <2>2. CASE Len(s) = 0 /\ Len(t) # 0
    <3>1. st[1] = t[1] /\ st[Len(st)] = t[Len(t)]
      BY <1>2, <1>3, <2>2
    <3> QED
      BY <1>2, <1>3, <1>5, <2>2, <3>1 DEF Fits, Chained
  <2>3. CASE Len(s) # 0 /\ Len(t) = 0
    <3>1. st[1] = s[1] /\ st[Len(st)] = s[Len(s)]
      BY <1>2, <1>3, <2>3
    <3> QED
      BY <1>2, <1>3, <1>5, <2>3, <3>1 DEF Fits, Chained
  <2>4. CASE Len(s) # 0 /\ Len(t) # 0
    <3>1. st[1] = s[1] /\ st[Len(st)] = t[Len(t)]
      BY <1>2, <1>3, <2>4
    <3> QED
      BY <1>2, <1>3, <1>5, <2>4, <3>1 DEF Fits, Chained
  <2> QED
    BY <2>1, <2>2, <2>3, <2>4
<1> QED
  BY <1>2, <1>4, <1>6 DEF Fits, st

\* The parts that the plans are put together from.
Names == {"prepare", "pregrasp", "approach", "carry", "place", "retreat", "ready"}

LEMMA MotionPart ==
  ASSUME NEW action, NEW name \in Names, NEW from \in Hands, NEW to \in Hands,
         NEW held \in BOOLEAN, action = "pick" /\ held => name = "carry"
  PROVE  Fits(<<Motion(name, from, to, held)>>, action, held, held)
<1> DEFINE a == Motion(name, from, to, held)
<1>1. a \in Steps /\ a.held = held /\ GripAfter(a) = held /\ StepFits(a, action)
  BY DEF Motion, Steps, GripAfter, StepFits, Names
<1> QED
  BY <1>1, OneFits

LEMMA CarryPart ==
  ASSUME NEW action, NEW from \in Hands, NEW to \in Hands
  PROVE  Fits(<<Motion("carry", from, to, TRUE)>>, action, TRUE, TRUE)
  BY MotionPart DEF Names

LEMMA AttachPart ==
  ASSUME NEW action \in PickActions, NEW from \in Hands
  PROVE  /\ Fits(<<Attach(from)>>, action, FALSE, TRUE)
         /\ Attaches(<<Attach(from)>>, 1)
<1>1. Attach(from) \in Steps /\ Attach(from).held = FALSE /\ GripAfter(Attach(from)) = TRUE
      /\ Attach(from).kind = "ATTACH" /\ StepFits(Attach(from), action)
  BY DEF Attach, Steps, GripAfter, StepFits, PickActions
<1> DEFINE a == Attach(from)
<1> HIDE DEF a
<1>2. <<a>>[1] = a /\ 1 \in 1..Len(<<a>>)
  OBVIOUS
<1>3. Attaches(<<a>>, 1)
  BY <1>1, <1>2 DEF Attaches, a
<1> QED
  BY <1>1, <1>3, OneFits DEF a

LEMMA PlacedPart ==
  ASSUME NEW action, action # "pick", NEW from \in Hands, NEW to \in Hands
  PROVE  Fits(<<Motion("place", from, to, TRUE), Release(to)>>, action, TRUE, FALSE)
<1> DEFINE a == Motion("place", from, to, TRUE)
           b == Release(to)
<1>1. a \in Steps /\ b \in Steps /\ a.held = TRUE /\ b.held = TRUE
      /\ GripAfter(a) = TRUE /\ GripAfter(b) = FALSE
      /\ StepFits(a, action) /\ StepFits(b, action)
  BY DEF Motion, Release, Steps, GripAfter, StepFits
<1> HIDE DEF a, b
<1>2. <<a, b>> \in Seq(Steps) /\ Len(<<a, b>>) = 2 /\ <<a, b>>[1] = a /\ <<a, b>>[2] = b
      /\ <<a, b>> # <<>>
  BY <1>1
<1>3. Fits(<<a, b>>, action, TRUE, FALSE)
  BY <1>1, <1>2 DEF Fits, Chained
<1> QED
  BY <1>3 DEF a, b

LEMMA ReachPart ==
  ASSUME NEW action \in PickActions, NEW from \in Hands, NEW pick \in 0..MaxMove
  PROVE  LET steps == <<Motion("pregrasp", from, Pregrasp(pick), FALSE),
                        Motion("approach", Pregrasp(pick), Contact(pick), FALSE),
                        Attach(Contact(pick)),
                        Motion("carry", Contact(pick), At("carry"), TRUE)>>
         IN  Fits(steps, action, FALSE, TRUE) /\ Attaches(steps, 1)
<1> DEFINE a == Motion("pregrasp", from, Pregrasp(pick), FALSE)
           b == Motion("approach", Pregrasp(pick), Contact(pick), FALSE)
           c == Attach(Contact(pick))
           d == Motion("carry", Contact(pick), At("carry"), TRUE)
           s == <<a, b, c, d>>
<1>1. Pregrasp(pick) \in Hands /\ Contact(pick) \in Hands /\ At("carry") \in Hands
  BY DEF Pregrasp, Contact, At, Hands
<1>2. a \in Steps /\ b \in Steps /\ c \in Steps /\ d \in Steps
  BY <1>1 DEF Motion, Attach, Steps
<1>3. /\ a.held = FALSE /\ b.held = FALSE /\ c.held = FALSE /\ d.held = TRUE
      /\ c.kind = "ATTACH"
      /\ GripAfter(a) = FALSE /\ GripAfter(b) = FALSE /\ GripAfter(c) = TRUE /\ GripAfter(d) = TRUE
  BY DEF Motion, Attach, GripAfter
<1>4. StepFits(a, action) /\ StepFits(b, action) /\ StepFits(c, action) /\ StepFits(d, action)
  BY DEF Motion, Attach, StepFits, PickActions
<1> HIDE DEF a, b, c, d
<1>5. s \in Seq(Steps) /\ Len(s) = 4 /\ s # <<>>
      /\ s[1] = a /\ s[2] = b /\ s[3] = c /\ s[4] = d
  BY <1>2
<1> HIDE DEF s
<1>6. \A i \in 1..Len(s) : i = 1 \/ i = 2 \/ i = 3 \/ i = 4
  BY <1>5
<1>7. \A i \in 1..Len(s) : StepFits(s[i], action)
  BY <1>4, <1>5, <1>6
<1>8. Chained(s, FALSE, TRUE)
  BY <1>3, <1>5, <1>6 DEF Chained
<1>9. Fits(s, action, FALSE, TRUE)
  BY <1>5, <1>7, <1>8 DEF Fits
<1>10. 3 \in 1..Len(s) /\ s[3].kind = "ATTACH"
  BY <1>3, <1>5
<1>11. Attaches(s, 1)
  BY <1>10 DEF Attaches
<1> QED
  BY <1>9, <1>11 DEF s, a, b, c, d

\* An attachment of a part is one of the whole.
LEMMA AttachesSurvives ==
  ASSUME NEW s \in Seq(Steps), NEW t \in Seq(Steps), Attaches(s, 1) \/ Attaches(t, 1)
  PROVE  Attaches(s \o t, 1)
<1> DEFINE st == s \o t
<1>1. /\ st \in Seq(Steps) /\ Len(st) = Len(s) + Len(t) /\ Len(s) \in Nat /\ Len(t) \in Nat
      /\ \A i \in 1..Len(s) : st[i] = s[i]
      /\ \A i \in (Len(s) + 1)..(Len(s) + Len(t)) : st[i] = t[i - Len(s)]
  BY ConcatProperties
<1> HIDE DEF st
<1>2. CASE Attaches(s, 1)
  BY <1>1, <1>2 DEF Attaches, st
<1>3. CASE Attaches(t, 1)
  <2>1. PICK i \in 1..Len(t) : t[i].kind = "ATTACH"
    BY <1>3 DEF Attaches
  <2>2. Len(s) + i \in 1..Len(st) /\ st[Len(s) + i] = t[i]
    BY <1>1, <2>1
  <2> QED
    BY <2>1, <2>2 DEF Attaches, st
<1> QED
  BY <1>2, <1>3

\* A return: motions of empty arms.
Returning(s) == s \in Seq(Steps) /\ OnlyReturns(s, 1)

LEMMA ReturningFits ==
  ASSUME NEW action, NEW s, Returning(s)
  PROVE  Fits(s, action, FALSE, FALSE)
<1>1. s \in Seq(Steps) /\ Len(s) \in Nat /\ (s = <<>> <=> Len(s) = 0)
  BY EmptySeq DEF Returning
<1>2. \A i \in 1..Len(s) : s[i].kind = "MOTION" /\ ~s[i].held /\ ~GripAfter(s[i])
                           /\ StepFits(s[i], action)
  BY DEF Returning, OnlyReturns, GripAfter, StepFits
<1>3. Chained(s, FALSE, FALSE)
  BY <1>1, <1>2 DEF Chained
<1> QED
  BY <1>1, <1>2, <1>3 DEF Fits

LEMMA ReturningConcat ==
  ASSUME NEW s, NEW t, Returning(s), Returning(t)
  PROVE  Returning(s \o t)
<1> DEFINE st == s \o t
<1>1. s \in Seq(Steps) /\ t \in Seq(Steps)
  BY DEF Returning
<1>2. /\ st \in Seq(Steps) /\ Len(st) = Len(s) + Len(t) /\ Len(s) \in Nat /\ Len(t) \in Nat
      /\ \A i \in 1..Len(s) : st[i] = s[i]
      /\ \A i \in (Len(s) + 1)..(Len(s) + Len(t)) : st[i] = t[i - Len(s)]
  BY <1>1, ConcatProperties
<1> HIDE DEF st
<1>3. SUFFICES ASSUME NEW i \in 1..Len(st)
               PROVE  st[i].kind = "MOTION" /\ ~st[i].held
  BY <1>2 DEF Returning, OnlyReturns, st
<1>4. CASE i \in 1..Len(s)
  BY <1>2, <1>4 DEF Returning, OnlyReturns
<1>5. CASE i \notin 1..Len(s)
  <2>1. i - Len(s) \in 1..Len(t) /\ st[i] = t[i - Len(s)]
    BY <1>2, <1>5
  <2> QED
    BY <2>1 DEF Returning, OnlyReturns
<1> QED
  BY <1>4, <1>5

LEMMA NotEmpty ==
  ASSUME NEW s \in Seq(Steps), NEW t \in Seq(Steps), s # <<>> \/ t # <<>>
  PROVE  s \o t # <<>>
  BY ConcatProperties, EmptySeq

LEMMA ReturnStepsFit ==
  ASSUME NEW from \in Hands, NEW retreat \in BOOLEAN, NEW prepare \in BOOLEAN
  PROVE  Returning(ReturnSteps(from, retreat, prepare)) /\ ReturnSteps(from, retreat, prepare) # <<>>
<1> DEFINE clear == IF retreat THEN At("clear") ELSE from
           first == IF retreat THEN <<Motion("retreat", from, clear, FALSE)>> ELSE <<>>
           second == IF prepare THEN <<Motion("prepare", clear, At("prepare"), FALSE)>> ELSE <<>>
           last == Motion("ready", IF prepare THEN At("prepare") ELSE clear, At("ready"), FALSE)
<1>1. At("clear") \in Hands /\ At("prepare") \in Hands /\ At("ready") \in Hands /\ clear \in Hands
  BY DEF At, Hands
<1>2. ASSUME NEW name \in Names, NEW f \in Hands, NEW t \in Hands
      PROVE  Returning(<<Motion(name, f, t, FALSE)>>)
  <2> DEFINE a == Motion(name, f, t, FALSE)
  <2>1. a \in Steps /\ a.kind = "MOTION" /\ ~a.held
    BY DEF Motion, Steps, Names
  <2> HIDE DEF a
  <2>2. <<a>> \in Seq(Steps) /\ Len(<<a>>) = 1 /\ <<a>>[1] = a
    BY <2>1
  <2>3. Returning(<<a>>)
    BY <2>1, <2>2 DEF Returning, OnlyReturns
  <2> QED
    BY <2>3 DEF a
<1>3. Returning(<<>>)
  BY DEF Returning, OnlyReturns
<1> HIDE DEF clear
<1>4. Returning(first) /\ Returning(second) /\ Returning(<<last>>)
  BY <1>1, <1>2, <1>3 DEF Names
<1>5. <<last>> # <<>>
  OBVIOUS
<1> HIDE DEF first, second, last
<1>6. Returning(first \o second) /\ Returning((first \o second) \o <<last>>)
  BY <1>4, ReturningConcat
<1>7. (first \o second) \o <<last>> # <<>>
  BY <1>4, <1>5, <1>6, NotEmpty DEF Returning
<1> QED
  BY <1>6, <1>7 DEF ReturnSteps, first, second, last, clear

LEMMA PickStepsFit ==
  ASSUME NEW action \in PickActions, NEW from \in Hands, NEW prepare \in BOOLEAN,
         NEW pick \in 0..MaxMove
  PROVE  Fits(PickSteps(from, prepare, pick), action, FALSE, TRUE)
         /\ Attaches(PickSteps(from, prepare, pick), 1)
<1> DEFINE start == IF prepare THEN At("prepare") ELSE from
           first == IF prepare THEN <<Motion("prepare", from, start, FALSE)>> ELSE <<>>
           reach == <<Motion("pregrasp", start, Pregrasp(pick), FALSE),
                      Motion("approach", Pregrasp(pick), Contact(pick), FALSE),
                      Attach(Contact(pick)),
                      Motion("carry", Contact(pick), At("carry"), TRUE)>>
<1>1. start \in Hands
  BY DEF At, Hands
<1> HIDE DEF start
<1>2. Fits(first, action, FALSE, FALSE)
  BY <1>1, EmptyFits, MotionPart DEF Names
<1>3. Fits(reach, action, FALSE, TRUE) /\ Attaches(reach, 1)
  BY <1>1, ReachPart
<1> HIDE DEF first, reach
<1>4. Fits(first \o reach, action, FALSE, TRUE)
  BY <1>2, <1>3, ConcatFits
<1>5. Attaches(first \o reach, 1)
  BY <1>2, <1>3, AttachesSurvives DEF Fits
<1> QED
  BY <1>4, <1>5 DEF PickSteps, first, reach, start

LEMMA PlaceStepsFit ==
  ASSUME NEW action, action # "pick", NEW from \in Hands, NEW place \in 0..MaxMove
  PROVE  Fits(PlaceSteps(from, place), action, TRUE, FALSE) /\ PlaceSteps(from, place) # <<>>
<1> DEFINE first == <<Motion("place", from, Placed(place), TRUE), Release(Placed(place))>>
           return == ReturnSteps(Placed(place), TRUE, HasPrepare)
<1>1. Placed(place) \in Hands
  BY DEF Placed, Hands
<1>2. Fits(first, action, TRUE, FALSE)
  BY <1>1, PlacedPart
<1>3. Fits(return, action, FALSE, FALSE) /\ return # <<>>
  BY <1>1, ReturnStepsFit, ReturningFits, SavedPlansAssumption
<1> HIDE DEF first, return
<1>4. Fits(first \o return, action, TRUE, FALSE)
  BY <1>2, <1>3, ConcatFits
<1>5. first \o return # <<>>
  BY <1>2, <1>3, NotEmpty DEF Fits
<1> QED
  BY <1>4, <1>5 DEF PlaceSteps, first, return

LEMMA AttachesNotEmpty ==
  ASSUME NEW s \in Seq(Steps), Attaches(s, 1)
  PROVE  s # <<>>
  BY EmptySeq DEF Attaches

\* A whole plan fits the grip its action begins with, and a pick has an attachment.
LEMMA CompleteStepsFit ==
  ASSUME NEW action \in Actions, NEW from \in Hands, NEW prepare \in BOOLEAN,
         NEW poses \in [box : 0..MaxMove, table : 0..MaxMove]
  PROVE  LET steps == CompleteSteps(action, from, prepare, poses)
         IN  /\ steps \in Seq(Steps) /\ steps # <<>>
             /\ \E after \in BOOLEAN : Fits(steps, action, action \notin PickActions, after)
             /\ action \in PickActions => Attaches(steps, 1)
<1>1. poses.box \in 0..MaxMove /\ poses.table \in 0..MaxMove
  OBVIOUS
<1>2. At("carry") \in Hands /\ At("other_carry") \in Hands
  BY DEF At, Hands
<1>3. CASE action = "pick"
  <2> DEFINE s == PickSteps(from, prepare, poses.box)
  <2>1. action \in PickActions /\ CompleteSteps(action, from, prepare, poses) = s
    BY <1>3 DEF PickActions, CompleteSteps
  <2>2. Fits(s, action, FALSE, TRUE) /\ Attaches(s, 1)
    BY <1>1, <2>1, PickStepsFit
  <2> HIDE DEF s
  <2> QED
    BY <2>1, <2>2, AttachesNotEmpty DEF Fits
<1>4. CASE action = "place"
  <2> DEFINE s == PlaceSteps(from, poses.table)
  <2>1. action \notin PickActions /\ CompleteSteps(action, from, prepare, poses) = s
    BY <1>4 DEF PickActions, CompleteSteps
  <2>2. Fits(s, action, TRUE, FALSE) /\ s # <<>>
    BY <1>1, <1>4, PlaceStepsFit
  <2> HIDE DEF s
  <2> QED
    BY <2>1, <2>2 DEF Fits
<1>5. CASE action = "move_carry_pose"
  <2> DEFINE s == <<Motion("carry", from, At("other_carry"), TRUE)>>
  <2>1. action \notin PickActions /\ CompleteSteps(action, from, prepare, poses) = s
    BY <1>5 DEF PickActions, CompleteSteps
  <2>2. Fits(s, action, TRUE, TRUE) /\ s # <<>>
    BY <1>2, CarryPart
  <2> HIDE DEF s
  <2> QED
    BY <2>1, <2>2 DEF Fits
<1>6. CASE action = "pick_place"
  <2> DEFINE p == PickSteps(from, prepare, poses.box)
             q == PlaceSteps(At("carry"), poses.table)
  <2>1. action \in PickActions /\ CompleteSteps(action, from, prepare, poses) = p \o q
    BY <1>6 DEF PickActions, CompleteSteps
  <2>2. Fits(p, action, FALSE, TRUE) /\ Attaches(p, 1)
    BY <1>1, <2>1, PickStepsFit
  <2>3. Fits(q, action, TRUE, FALSE) /\ q # <<>>
    BY <1>1, <1>2, <1>6, PlaceStepsFit
  <2> HIDE DEF p, q
  <2>4. Fits(p \o q, action, FALSE, FALSE)
    BY <2>2, <2>3, ConcatFits
  <2>5. Attaches(p \o q, 1) /\ p \o q # <<>>
    BY <2>2, <2>3, AttachesSurvives, NotEmpty DEF Fits
  <2> QED
    BY <2>1, <2>4, <2>5 DEF Fits
<1> QED
  BY <1>3, <1>4, <1>5, <1>6 DEF Actions

\* What is left once the box is held.
LEMMA HeldStepsFit ==
  ASSUME NEW from \in Hands, NEW carry \in BOOLEAN, NEW place \in 0..MaxMove,
         carry \/ plan.action # "pick"
  PROVE  /\ HeldSteps(from, carry, place) # <<>>
         /\ \E after \in BOOLEAN : Fits(HeldSteps(from, carry, place), plan.action, TRUE, after)
<1> DEFINE start == IF carry THEN At("carry") ELSE from
           first == IF carry THEN <<Motion("carry", from, At("carry"), TRUE)>> ELSE <<>>
           rest == IF plan.action = "pick" THEN <<>> ELSE PlaceSteps(start, place)
<1>1. At("carry") \in Hands /\ start \in Hands
  BY DEF At, Hands
<1> HIDE DEF start
<1>2. Fits(first, plan.action, TRUE, TRUE)
  BY <1>1, EmptyFits, CarryPart
<1>3. \E after \in BOOLEAN : Fits(rest, plan.action, TRUE, after)
  BY <1>1, EmptyFits, PlaceStepsFit
<1>4. first # <<>> \/ rest # <<>>
  BY <1>1, PlaceStepsFit
<1> HIDE DEF first, rest
<1>5. \E after \in BOOLEAN : Fits(first \o rest, plan.action, TRUE, after)
  BY <1>2, <1>3, ConcatFits
<1>6. first \o rest # <<>>
  BY <1>2, <1>3, <1>4, NotEmpty DEF Fits
<1> QED
  BY <1>5, <1>6 DEF HeldSteps, first, rest, start
-----------------------------------------------------------------------------
LEMMA InitIInv == Init => IInv
<1> SUFFICES ASSUME Init
             PROVE  IInv
  OBVIOUS
<1>1. At("ready") \in Hands
  BY DEF At, Hands
<1>2. NoPlan.id = 0 /\ NoPlan.steps = <<>> /\ \A a \in Actions : plans[a] = NoPlan
  BY DEF Init, NoPlans, NoPlan
<1>3. TypeOK
  <2>1. plans \in [Actions -> Plans \cup {NoPlan}]
    BY DEF Init, NoPlans
  <2>2. box \in 0..MaxMove /\ table \in 0..MaxMove /\ serial \in 0..MaxSerial
        /\ revision \in 0..MaxRevision /\ savedRevision \in 0..MaxRevision
        /\ seen \in [box : 0..MaxMove, table : 0..MaxMove]
    BY SavedPlansAssumption DEF Init
  <2> QED
    BY <1>1, <2>1, <2>2 DEF Init, TypeOK
<1>4. StoreFits
  BY <1>2 DEF Init, StoreFits, StoredPlanFits
<1> QED
  BY <1>1, <1>2, <1>3, <1>4, SavedPlansAssumption
     DEF Init, IInv, IdleIsClear, StateIsTrue, RunningPlanFits, ReleasedReturns, AttachAhead,
         SceneByRevision, ReplanIsDue, DispatchOnScene, PickIsSeen, OnlyReturns

\* The world moves.
LEMMA WorldIInv ==
  ASSUME IInv, World
  PROVE  IInv'
<1> USE SavedPlansAssumption
    DEF IInv, TypeOK, StoreFits, StoredPlanFits, IdleIsClear, StateIsTrue, RunningPlanFits, ReleasedReturns, AttachAhead,
         SceneByRevision, ReplanIsDue, DispatchOnScene, PickIsSeen,
         store_vars, run_vars, scene_vars, Step, SceneIsNew, CarryOnly, BeforeAttachment
<1>1. CASE MoveBox
  BY <1>1 DEF MoveBox
<1>2. CASE MoveTable
  BY <1>2 DEF MoveTable
<1>3. CASE Drift
  BY <1>3 DEF Drift, At, Hands
<1> QED
  BY <1>1, <1>2, <1>3 DEF World

\* Where nothing is stored, everything stored fits.
LEMMA NoPlansFit ==
  ASSUME plans' = NoPlans, serial' \in Nat
  PROVE  StoreFits'
<1>1. \A a \in Actions : plans'[a].id = 0
  BY DEF NoPlans, NoPlan
<1> QED
  BY <1>1 DEF StoreFits, StoredPlanFits

\* A request that ends without an execution: the run variables are untouched.
LEMMA NoRunIInv ==
  ASSUME IInv, pc = "idle", UNCHANGED <<pc, run_vars, scene_vars, box, table>>,
         hands' \in Hands, attached' \in BOOLEAN,
         state' \in {"EMPTY", "HOLDING", "RECOVERY_REQUIRED"},
         state' = "HOLDING" => attached', state' = "EMPTY" => ~attached',
         plans' \in [Actions -> Plans \cup {NoPlan}], serial' \in 0..MaxSerial, StoreFits'
  PROVE  IInv'
<1> USE DEF run_vars, scene_vars
<1>1. TypeOK'
  BY DEF IInv, TypeOK
<1>2. IdleIsClear' /\ StateIsTrue'
  BY DEF IInv, IdleIsClear, StateIsTrue
<1>3. RunningPlanFits' /\ ReleasedReturns' /\ AttachAhead' /\ DispatchOnScene' /\ PickIsSeen'
  BY DEF IInv, IdleIsClear, RunningPlanFits, ReleasedReturns, AttachAhead, DispatchOnScene, PickIsSeen
<1>4. SceneByRevision' /\ ReplanIsDue'
  BY DEF IInv, SceneByRevision, ReplanIsDue
<1> QED
  BY <1>1, <1>2, <1>3, <1>4 DEF IInv

LEMMA NoPlansTyped == NoPlans \in [Actions -> Plans \cup {NoPlan}]
  BY DEF NoPlans

LEMMA PlanOnlyIInv ==
  ASSUME IInv, NEW action \in Actions, PlanOnly(action)
  PROVE  IInv'
<1>1. /\ pc = "idle" /\ serial < MaxSerial /\ serial' = serial + 1 /\ serial \in 0..MaxSerial
      /\ UNCHANGED <<hands, attached, state, pc, run_vars, scene_vars, box, table>>
  BY DEF IInv, TypeOK, PlanOnly, world_vars
<1>2. serial' \in 1..MaxSerial /\ serial + 1 \in 1..MaxSerial
  BY <1>1, SavedPlansAssumption
<1>3. CASE UNCHANGED plans
  <2>1. StoreFits'
    <3>1. \A a \in Actions : plans[a].id <= serial'
      <4>1. \A a \in Actions : plans[a].id \in Nat /\ plans[a].id <= serial
        BY SavedPlansAssumption DEF IInv, TypeOK, Plans, NoPlan, StoreFits
      <4> QED
        BY <1>1, <4>1
    <3> QED
      BY <1>1, <1>3, <3>1 DEF IInv, StoreFits, StoredPlanFits
  <2> QED
    BY <1>1, <1>2, <1>3, <2>1, NoRunIInv DEF IInv, TypeOK, StateIsTrue
<1>4. CASE plans' = [plans EXCEPT ![action] = NewPlan(action, Poses)]
  <2> DEFINE new == NewPlan(action, Poses)
             steps == CompleteSteps(action, hands, HasPrepare, Poses)
  <2>1. Poses \in [box : 0..MaxMove, table : 0..MaxMove] /\ hands \in Hands
    BY DEF IInv, TypeOK, Poses
  <2>2. /\ steps \in Seq(Steps) /\ steps # <<>>
        /\ \E after \in BOOLEAN : Fits(steps, action, action \notin PickActions, after)
        /\ action \in PickActions => Attaches(steps, 1)
    BY <2>1, CompleteStepsFit, SavedPlansAssumption
  <2>3. /\ new.id = serial + 1 /\ new.action = action /\ new.scene = 0 /\ new.steps = steps
    BY DEF NewPlan
  <2>4. new \in Plans
    BY <1>2, <2>1, <2>2, SavedPlansAssumption DEF NewPlan, Plans
  <2> HIDE DEF new, steps
  <2>5. plans \in [Actions -> Plans \cup {NoPlan}]
        /\ \A a \in Actions : plans'[a] = IF a = action THEN new ELSE plans[a]
    BY <1>4 DEF IInv, TypeOK, new
  <2>6. plans' \in [Actions -> Plans \cup {NoPlan}]
    BY <1>4, <2>4, <2>5 DEF new
  <2>7. ASSUME NEW a \in Actions
        PROVE  plans'[a].id <= serial' /\ StoredPlanFits(a)'
    <3>1. CASE a = action
      BY <1>1, <2>2, <2>3, <2>5, <3>1 DEF StoredPlanFits
    <3>2. CASE a # action
      <4>1. plans'[a] = plans[a] /\ plans[a].id \in Nat /\ plans[a].id <= serial /\ StoredPlanFits(a)
        BY <2>5, <3>2, SavedPlansAssumption DEF IInv, TypeOK, Plans, NoPlan, StoreFits
      <4> QED
        BY <1>1, <4>1 DEF StoredPlanFits
    <3> QED
      BY <3>1, <3>2
  <2>8. StoreFits'
    BY <1>1, <2>7 DEF StoreFits
  <2> QED
    BY <1>1, <1>2, <2>6, <2>8, NoRunIInv DEF IInv, TypeOK, StateIsTrue
<1> QED
  BY <1>3, <1>4 DEF PlanOnly

\* A claimed plan is of the grip that is there, with its attachment ahead.
LEMMA ClaimIInv ==
  ASSUME IInv, NEW action \in Actions, Claim(action)
  PROVE  IInv'
<1>1. /\ pc = "idle" /\ plans[action].id > 0 /\ plans' = NoPlans
      /\ UNCHANGED <<box, table, hands, attached, serial, state, released, targetMoved, sceneMoved,
                     savedRevision, log, revision, requested>>
  BY DEF Claim, Found, world_vars
<1>2. StoreFits'
  BY <1>1, NoPlansFit DEF IInv, TypeOK
<1>3. CASE Reject(action)
  BY <1>1, <1>2, <1>3, NoRunIInv, NoPlansTyped
     DEF IInv, TypeOK, StateIsTrue, Reject, run_vars, scene_vars
<1>4. CASE state = ActionState(action) /\ Begin(action)
  <2> DEFINE new == plans[action]
  <2>1. new \in Plans /\ new.action = action /\ new.scene = 0 /\ new.steps # <<>>
        /\ new.steps \in Seq(Steps) /\ new.id > 0
    BY <1>1 DEF IInv, TypeOK, StoreFits, StoredPlanFits, Plans, NoPlan
  <2>2. /\ \E after \in BOOLEAN : Fits(new.steps, action, action \notin PickActions, after)
        /\ action \in PickActions => Attaches(new.steps, 1)
    BY <1>1 DEF IInv, StoreFits, StoredPlanFits
  <2>3. /\ pc' = "loop" /\ plan' = new /\ index' = 1 /\ followTarget' \in BOOLEAN
        /\ seen' = [box |-> new.pick, table |-> new.place]
        /\ state \in {"EMPTY", "HOLDING"} /\ (attached <=> action \notin PickActions)
    BY <1>4 DEF Begin, ActionState, IInv, StateIsTrue
  <2> HIDE DEF new
  <2>4. /\ new.pick \in 0..MaxMove /\ new.place \in 0..MaxMove
    BY <2>1 DEF Plans
  <2>5. Len(new.steps) \in Nat /\ Len(new.steps) >= 1
    BY <2>1, EmptySeq
  <2>6. new.steps[1].held <=> attached
    BY <2>1, <2>2, <2>3 DEF Fits, Chained
  <2>7. TypeOK'
    BY <1>1, <2>1, <2>3, <2>4, <2>5, NoPlansTyped DEF IInv, TypeOK
  <2>8. IdleIsClear' /\ StateIsTrue'
    BY <1>1, <2>1, <2>3 DEF IInv, IdleIsClear, StateIsTrue
  <2>9. RunningPlanFits'
    <3>1. \E before, after \in BOOLEAN : Fits(plan'.steps, plan'.action, before, after)
      BY <2>1, <2>2, <2>3
    <3>2. index' <= Len(plan'.steps) /\ ~(index' > Len(plan'.steps)) /\ plan'.steps # <<>>
      BY <2>1, <2>3, <2>5
    <3>3. plan'.steps[index'].held <=> attached'
      BY <1>1, <2>3, <2>6
    <3> QED
      BY <3>1, <3>2, <3>3 DEF RunningPlanFits, Step
  <2>10. ReleasedReturns' /\ AttachAhead'
    BY <1>1, <2>1, <2>2, <2>3 DEF IInv, IdleIsClear, ReleasedReturns, AttachAhead
  <2>11. SceneByRevision' /\ ReplanIsDue' /\ DispatchOnScene' /\ PickIsSeen'
    BY <1>1, <2>1, <2>3
       DEF IInv, IdleIsClear, SceneByRevision, ReplanIsDue, DispatchOnScene, PickIsSeen
  <2> QED
    BY <1>2, <2>7, <2>8, <2>9, <2>10, <2>11 DEF IInv
<1> QED
  BY <1>3, <1>4 DEF Claim

LEMMA RequestIInv ==
  ASSUME IInv, Request
  PROVE  IInv'
<1>1. At("carry") \in Hands /\ At("ready") \in Hands /\ At("astray") \in Hands
  BY DEF At, Hands
<1>2. ASSUME plans' = NoPlans, serial' = serial
      PROVE  StoreFits'
  BY <1>2, NoPlansFit DEF IInv, TypeOK
<1>3. CASE NormalGoal
  <2>1. /\ hands' \in Hands /\ attached' \in BOOLEAN
        /\ state' \in {"EMPTY", "HOLDING", "RECOVERY_REQUIRED"}
        /\ (state' = "HOLDING" => attached') /\ (state' = "EMPTY" => ~attached')
    <3>1. /\ hands \in Hands /\ attached \in BOOLEAN
          /\ state \in {"EMPTY", "HOLDING", "RECOVERY_REQUIRED"}
          /\ (state = "HOLDING" => attached) /\ (state = "EMPTY" => ~attached)
      BY DEF IInv, TypeOK, StateIsTrue
    <3>2. CASE state' = "HOLDING" /\ attached' = TRUE /\ hands' = At("carry")
      BY <1>1, <3>2
    <3>3. CASE state' = "EMPTY" /\ attached' = FALSE /\ hands' = At("ready")
      BY <1>1, <3>3
    <3>4. CASE UNCHANGED <<state, hands, attached>>
      BY <3>1, <3>4
    <3>5. CASE state' = "RECOVERY_REQUIRED" /\ attached' \in BOOLEAN /\ hands' = At("astray")
      BY <1>1, <3>5
    <3> QED
      BY <1>3, <3>2, <3>3, <3>4, <3>5 DEF NormalGoal
  <2>2. /\ pc = "idle" /\ plans' = NoPlans /\ serial' = serial
        /\ UNCHANGED <<pc, run_vars, scene_vars, box, table>>
    BY <1>3 DEF NormalGoal
  <2>3. serial' \in 0..MaxSerial
    BY <2>2 DEF IInv, TypeOK
  <2> QED
    BY <1>2, <2>1, <2>2, <2>3, NoRunIInv, NoPlansTyped
<1>4. CASE RecoverState
  BY <1>2, <1>4, NoRunIInv, NoPlansTyped DEF IInv, TypeOK, StateIsTrue, RecoverState, world_vars
<1>5. CASE Reset
  BY <1>1, <1>2, <1>5, NoRunIInv, NoPlansTyped DEF IInv, TypeOK, StateIsTrue, Reset
<1> QED
  BY <1>3, <1>4, <1>5, PlanOnlyIInv, ClaimIInv DEF Request

\* Whatever leaves an execution leaves it clear.
LEMMA LeftIInv ==
  ASSUME IInv, NEW newState \in {"EMPTY", "HOLDING", "RECOVERY_REQUIRED"}, Leave(newState),
         pc # "idle", UNCHANGED <<box, table, store_vars>>,
         hands' \in Hands, attached' \in BOOLEAN,
         newState = "HOLDING" => attached', newState = "EMPTY" => ~attached'
  PROVE  IInv'
<1> USE SavedPlansAssumption DEF Leave, store_vars
<1>1. NoPlan.id = 0 /\ NoPlan.steps = <<>>
  BY DEF NoPlan
<1>2. TypeOK'
  <2>1. 0 \in 0..MaxMove /\ 0 \in 0..MaxRevision
    OBVIOUS
  <2>2. [box |-> 0, table |-> 0] \in [box : 0..MaxMove, table : 0..MaxMove]
    BY <2>1
  <2> QED
    BY <2>1, <2>2 DEF IInv, TypeOK
<1>3. StoreFits'
  BY DEF IInv, StoreFits, StoredPlanFits
<1>4. IdleIsClear' /\ StateIsTrue' /\ RunningPlanFits' /\ ReleasedReturns' /\ AttachAhead'
  BY <1>1 DEF IdleIsClear, StateIsTrue, RunningPlanFits, ReleasedReturns, AttachAhead
<1>5. SceneByRevision' /\ ReplanIsDue' /\ DispatchOnScene' /\ PickIsSeen'
  BY <1>1 DEF SceneByRevision, ReplanIsDue, DispatchOnScene, PickIsSeen
<1> QED
  BY <1>2, <1>3, <1>4, <1>5 DEF IInv

LEMMA LeaveIInv ==
  ASSUME IInv, LoopFails \/ StepCanceled \/ DispatchFails \/ Return
  PROVE  IInv'
<1>1. hands \in Hands /\ attached \in BOOLEAN /\ state \in {"EMPTY", "HOLDING", "RECOVERY_REQUIRED"}
      /\ (state = "HOLDING" => attached) /\ (state = "EMPTY" => ~attached)
  BY DEF IInv, TypeOK, StateIsTrue
<1>2. CASE LoopFails
  BY <1>1, <1>2, LeftIInv DEF LoopFails, world_vars
<1>3. CASE StepCanceled
  BY <1>1, <1>3, LeftIInv DEF StepCanceled, world_vars
<1>4. CASE DispatchFails
  <2>1. hands' \in Hands /\ attached' \in BOOLEAN
    <3>1. Step \in Steps
      BY <1>4 DEF DispatchFails, IInv, TypeOK, IdleIsClear, Plans, NoPlan, Step
    <3>2. Step.to \in Hands /\ At("astray") \in Hands
      BY <3>1 DEF Steps, At, Hands
    <3> QED
      BY <1>1, <1>4, <3>2 DEF DispatchFails
  <2> QED
    BY <1>4, <2>1, LeftIInv DEF DispatchFails
<1>5. CASE Return
  BY <1>1, <1>5, LeftIInv DEF Return, world_vars
<1> QED
  BY <1>2, <1>3, <1>4, <1>5

\* The scene and the accepted poses change, the plan and the world do not: an earlier
\* point of the execution, or one that nothing new is claimed at.
LEMMA SceneIInv ==
  ASSUME IInv, pc # "idle", UNCHANGED <<world_vars, store_vars, state, plan, index, released, savedRevision>>,
         pc' \in {"loop", "replan", "replan_paused", "step", "step_paused"},
         pc = "loop" /\ pc' # "loop" => index <= Len(plan.steps),
         followTarget' \in BOOLEAN, targetMoved' \in BOOLEAN, sceneMoved' \in BOOLEAN,
         requested' \in BOOLEAN, seen' \in [box : 0..MaxMove, table : 0..MaxMove],
         revision' \in 0..MaxRevision, revision' >= revision,
         requested' => revision' < MaxRevision,
         ReplanIsDue', PickIsSeen', pc # "done"
  PROVE  IInv'
<1> USE SavedPlansAssumption DEF world_vars, store_vars
<1>1. TypeOK'
  <2>1. /\ box' \in 0..MaxMove /\ table' \in 0..MaxMove /\ hands' \in Hands
        /\ plans' \in [Actions -> Plans \cup {NoPlan}] /\ serial' \in 0..MaxSerial
        /\ state' \in {"EMPTY", "HOLDING", "RECOVERY_REQUIRED"}
        /\ plan' \in Plans \cup {NoPlan} /\ savedRevision' \in 0..MaxRevision
        /\ attached' \in BOOLEAN /\ released' \in BOOLEAN
    BY DEF IInv, TypeOK
  <2>2. CASE pc \in {"loop", "done"}
    <3>1. index' \in 1..(Len(plan'.steps) + 1)
      BY <2>2 DEF IInv, TypeOK
    <3>2. pc' # "loop" => index' \in 1..Len(plan'.steps)
      <4>1. plan.steps \in Seq(Steps) /\ Len(plan.steps) \in Nat
        BY <2>2 DEF IInv, TypeOK, IdleIsClear, Plans, NoPlan
      <4> QED
        BY <2>2, <3>1, <4>1
    <3> QED
      BY <2>1, <2>2, <3>1, <3>2 DEF TypeOK
  <2>3. CASE pc \notin {"loop", "done"}
    <3>1. index' \in 1..Len(plan'.steps)
      BY <2>3 DEF IInv, TypeOK
    <3>2. plan.steps \in Seq(Steps) /\ Len(plan.steps) \in Nat
      BY <2>3 DEF IInv, TypeOK, IdleIsClear, Plans, NoPlan
    <3>3. index' \in 1..(Len(plan'.steps) + 1)
      BY <3>1, <3>2
    <3> QED
      BY <2>1, <2>3, <3>1, <3>3 DEF TypeOK
  <2> QED
    BY <2>2, <2>3
<1>2. StoreFits' /\ IdleIsClear' /\ StateIsTrue'
  BY DEF IInv, StoreFits, StoredPlanFits, IdleIsClear, StateIsTrue
<1>3. RunningPlanFits' /\ ReleasedReturns' /\ AttachAhead' /\ DispatchOnScene'
  BY DEF IInv, RunningPlanFits, ReleasedReturns, AttachAhead, DispatchOnScene, Step
<1>4. SceneByRevision'
  BY DEF IInv, SceneByRevision, TypeOK
<1> QED
  BY <1>1, <1>2, <1>3, <1>4 DEF IInv

LEMMA TargetPosesTyped ==
  ASSUME IInv
  PROVE  \A poses \in TargetPoses : poses \in [box : 0..MaxMove, table : 0..MaxMove]
  BY DEF IInv, TypeOK, TargetPoses

LEMMA ReplanIInv ==
  ASSUME IInv, Loop \/ AcquireScene \/ RebuildFails
  PROVE  IInv'
<1> USE SavedPlansAssumption
    DEF IInv, TypeOK, StoreFits, StoredPlanFits, IdleIsClear, StateIsTrue, RunningPlanFits,
        ReleasedReturns, AttachAhead, SceneByRevision, ReplanIsDue, DispatchOnScene, PickIsSeen,
        world_vars, store_vars, run_vars, scene_vars, Step, SceneIsNew, CarryOnly,
        BeforeAttachment, TargetPoses
<1>1. CASE Loop
  BY <1>1 DEF Loop
<1>2. CASE AcquireScene
  <2>1. /\ pc \in {"replan", "step"} /\ requested /\ requested' = FALSE
        /\ UNCHANGED <<world_vars, store_vars, state, pc, run_vars>>
        /\ revision < MaxRevision /\ revision \in 0..MaxRevision
        /\ savedRevision \in 0..MaxRevision /\ savedRevision <= revision
    BY <1>2 DEF AcquireScene
  <2>2. CASE CarryOnly
    <3>1. UNCHANGED <<revision, seen, savedRevision>>
      BY <1>2, <2>1, <2>2 DEF AcquireScene
    <3>2. PickIsSeen' /\ ReplanIsDue'
      BY <2>1, <3>1
    <3>3. seen' \in [box : 0..MaxMove, table : 0..MaxMove] /\ revision' \in 0..MaxRevision
          /\ revision' >= revision
      BY <2>1, <3>1
    <3> QED
      BY <2>1, <3>2, <3>3, SceneIInv
  <2>3. CASE ~CarryOnly
    <3>1. /\ revision' = revision + 1 /\ savedRevision' = savedRevision
          /\ seen' = [seen EXCEPT !.table = table, !.box = IF BeforeAttachment THEN box ELSE seen.box]
      BY <1>2, <2>1, <2>3 DEF AcquireScene
    <3>5. seen' \in [box : 0..MaxMove, table : 0..MaxMove]
      <4>1. seen \in [box : 0..MaxMove, table : 0..MaxMove] /\ box \in 0..MaxMove
            /\ table \in 0..MaxMove /\ seen.box \in 0..MaxMove
        OBVIOUS
      <4>2. (IF BeforeAttachment THEN box ELSE seen.box) \in 0..MaxMove
        BY <4>1
      <4> HIDE DEF IInv, BeforeAttachment
      <4> QED
        BY <3>1, <4>1, <4>2
    <3>2. revision' \in 0..MaxRevision /\ revision' >= revision /\ savedRevision' # revision'
      BY <2>1, <3>1
    <3>3. PickIsSeen' /\ ReplanIsDue'
      BY <2>1, <3>2
    <3> QED
      BY <2>1, <3>1, <3>2, <3>3, <3>5, SceneIInv
  <2> QED
    BY <2>2, <2>3
<1>3. CASE RebuildFails
  BY <1>3 DEF RebuildFails
<1> QED
  BY <1>1, <1>2, <1>3

\* A step that passed its checks starts where the arms are, on the accepted scene; a
\* release has nothing but the return after it.
LEMMA CheckedIInv ==
  ASSUME IInv, StepChecked
  PROVE  IInv'
<1>1. /\ pc = "step" /\ pc' = "dispatch" /\ ~SceneIsNew
      /\ UNCHANGED <<world_vars, store_vars, state, run_vars, scene_vars>>
  BY DEF StepChecked
<1>2. /\ UNCHANGED <<box, table, hands, attached, plans, serial, state, plan, index, released>>
      /\ UNCHANGED <<followTarget, targetMoved, sceneMoved, savedRevision, log>>
      /\ UNCHANGED <<revision, requested, seen>>
  BY <1>1 DEF world_vars, store_vars, run_vars, scene_vars
<1>3. Step' = Step /\ SceneIsNew' = SceneIsNew /\ BeforeAttachment' = BeforeAttachment
  BY <1>2 DEF Step, SceneIsNew, CarryOnly, BeforeAttachment
<1>4. TypeOK'
  BY <1>1, <1>2 DEF IInv, TypeOK
<1>5. StoreFits' /\ IdleIsClear' /\ StateIsTrue'
  BY <1>1, <1>2 DEF IInv, StoreFits, StoredPlanFits, IdleIsClear, StateIsTrue
<1>6. RunningPlanFits' /\ AttachAhead'
  BY <1>1, <1>2, <1>3 DEF IInv, RunningPlanFits, AttachAhead
<1>7. Step.kind = "RELEASE" => OnlyReturns(plan.steps, index + 1)
  BY <1>1 DEF StepChecked, CheckpointFits, ReturnFollows, OnlyReturns
<1>8. ReleasedReturns'
  BY <1>1, <1>2, <1>3, <1>7 DEF IInv, ReleasedReturns
<1>9. hands = Step.from /\ (Step.kind = "ATTACH" => hands = Contact(plan.pick))
  BY DEF StepChecked, MotionFits, CheckpointFits
<1>10. DispatchOnScene'
  BY <1>1, <1>2, <1>3, <1>9 DEF DispatchOnScene
<1>11. SceneByRevision' /\ ReplanIsDue' /\ PickIsSeen'
  BY <1>1, <1>2, <1>3 DEF IInv, SceneByRevision, ReplanIsDue, PickIsSeen
<1> QED
  BY <1>4, <1>5, <1>6, <1>8, <1>10, <1>11 DEF IInv

LEMMA ExecuteIInv ==
  ASSUME IInv, StepDeferred \/ StepChecked \/ StepFails \/ Continue \/ Complete
  PROVE  IInv'
<1> USE SavedPlansAssumption
    DEF IInv, TypeOK, StoreFits, StoredPlanFits, IdleIsClear, StateIsTrue, RunningPlanFits,
        ReleasedReturns, AttachAhead, SceneByRevision, ReplanIsDue, DispatchOnScene, PickIsSeen,
        world_vars, store_vars, run_vars, scene_vars, Step, SceneIsNew, CarryOnly,
        BeforeAttachment, TargetPoses
<1>1. CASE StepDeferred
  <2>1. /\ pc = "step" /\ pc' = "loop" /\ ~requested
        /\ UNCHANGED <<world_vars, store_vars, state, plan, index, released, followTarget, savedRevision,
                       revision, requested, log>>
    BY <1>1 DEF StepDeferred
  <2>2. /\ targetMoved' \in BOOLEAN /\ sceneMoved' \in BOOLEAN /\ (targetMoved' \/ sceneMoved')
        /\ seen' \in [box : 0..MaxMove, table : 0..MaxMove]
    BY <1>1, TargetPosesTyped DEF StepDeferred
  <2>3. PickIsSeen' /\ ReplanIsDue'
    BY <2>1, <2>2
  <2> QED
    BY <2>1, <2>2, <2>3, SceneIInv
<1>2. CASE StepChecked
  BY <1>2, CheckedIInv
<1>3. CASE StepFails
  <2>1. /\ pc \in {"step", "dispatch"} /\ pc' = "step_paused"
        /\ UNCHANGED <<world_vars, store_vars, state, run_vars, scene_vars>>
    BY <1>3 DEF StepFails
  <2>2. PickIsSeen' /\ ReplanIsDue'
    BY <2>1
  <2> QED
    BY <2>1, <2>2, SceneIInv
<1>4. CASE Continue
  <2>1. /\ pc \in {"step_paused", "replan_paused"} /\ pc' \in {"step", "replan"}
        /\ UNCHANGED <<world_vars, store_vars, state, run_vars, revision, seen>>
        /\ revision < MaxRevision /\ requested' = TRUE
    BY <1>4 DEF Continue
  <2>2. PickIsSeen' /\ ReplanIsDue'
    <3>1. pc = "step_paused" <=> pc' = "step"
      BY <1>4 DEF Continue
    <3> QED
      BY <2>1, <3>1
  <2>3. revision \in 0..MaxRevision /\ seen \in [box : 0..MaxMove, table : 0..MaxMove]
    OBVIOUS
  <2>4. revision' >= revision
    BY <2>1, <2>3
  <2> QED
    BY <2>1, <2>2, <2>3, <2>4, SceneIInv
<1>5. CASE Complete
  BY <1>5 DEF Complete, Attaches
<1> QED
  BY <1>1, <1>2, <1>3, <1>4, <1>5

\* The running plan, seen from the step it is at.
LEMMA AtAStep ==
  ASSUME IInv, pc # "idle", index <= Len(plan.steps)
  PROVE  /\ plan \in Plans /\ plan.steps \in Seq(Steps) /\ Len(plan.steps) \in Nat
         /\ index \in 1..Len(plan.steps) /\ Step \in Steps
         /\ Step.held <=> attached
         /\ StepFits(Step, plan.action)
         /\ index < Len(plan.steps) => (plan.steps[index + 1].held <=> GripAfter(Step))
<1>1. plan \in Plans /\ plan.steps \in Seq(Steps)
  BY DEF IInv, TypeOK, IdleIsClear, Plans, NoPlan
<1>2. Len(plan.steps) \in Nat
  BY <1>1
<1>3. index \in 1..Len(plan.steps)
  <2>1. pc \in {"loop", "done"} => index \in 1..(Len(plan.steps) + 1)
    BY DEF IInv, TypeOK
  <2>2. pc \notin {"loop", "done"} => index \in 1..Len(plan.steps)
    BY DEF IInv, TypeOK
  <2> QED
    BY <1>2, <2>1, <2>2
<1>4. Step \in Steps
  BY <1>1, <1>3 DEF Step
<1>5. PICK before \in BOOLEAN, after \in BOOLEAN : Fits(plan.steps, plan.action, before, after)
  BY DEF IInv, RunningPlanFits
<1>6. StepFits(Step, plan.action)
      /\ (index < Len(plan.steps) => (plan.steps[index + 1].held <=> GripAfter(Step)))
  BY <1>3, <1>5 DEF Fits, Chained, Step
<1> QED
  BY <1>1, <1>2, <1>3, <1>4, <1>6 DEF IInv, RunningPlanFits

\* A step is done, and the next one is for the grip it left.
LEMMA AdvanceIInv ==
  ASSUME IInv, ExecuteMotion \/ AttachBox \/ DetachBox
  PROVE  IInv'
<1>1. /\ pc = "dispatch" /\ pc' = "loop" /\ index' = index + 1
      /\ UNCHANGED <<box, table, store_vars, plan, followTarget, targetMoved, sceneMoved, savedRevision,
                     scene_vars>>
  BY DEF ExecuteMotion, AttachBox, DetachBox, StepDone
<1>2. index <= Len(plan.steps)
  BY <1>1 DEF IInv, TypeOK
<1>3. /\ plan \in Plans /\ plan.steps \in Seq(Steps) /\ Len(plan.steps) \in Nat
      /\ index \in 1..Len(plan.steps) /\ Step \in Steps
      /\ (Step.held <=> attached) /\ StepFits(Step, plan.action)
      /\ (index < Len(plan.steps) => (plan.steps[index + 1].held <=> GripAfter(Step)))
  BY <1>1, <1>2, AtAStep
<1>4. /\ hands' \in Hands /\ attached' \in BOOLEAN /\ released' \in BOOLEAN
      /\ state' \in {"EMPTY", "HOLDING"}
      /\ (state' = "HOLDING" => attached') /\ (state' = "EMPTY" => ~attached')
  <2>1. /\ hands \in Hands /\ attached \in BOOLEAN /\ released \in BOOLEAN
        /\ state \in {"EMPTY", "HOLDING"}
        /\ (state = "HOLDING" => attached) /\ (state = "EMPTY" => ~attached)
    BY <1>1 DEF IInv, TypeOK, StateIsTrue
  <2>2. Step.to \in Hands
    BY <1>3 DEF Steps
  <2>3. CASE ExecuteMotion
    BY <2>1, <2>2, <2>3 DEF ExecuteMotion
  <2>4. CASE AttachBox
    BY <2>1, <2>4 DEF AttachBox
  <2>5. CASE DetachBox
    BY <2>1, <2>5 DEF DetachBox
  <2> QED
    BY <2>3, <2>4, <2>5
<1>5. attached' <=> GripAfter(Step)
  BY <1>3 DEF ExecuteMotion, AttachBox, DetachBox, GripAfter
<1>6. TypeOK'
  <2>1. index' \in 1..(Len(plan'.steps) + 1)
    BY <1>1, <1>3
  <2> QED
    BY <1>1, <1>4, <2>1 DEF IInv, TypeOK, store_vars, scene_vars
<1>7. StoreFits' /\ IdleIsClear' /\ StateIsTrue'
  BY <1>1, <1>4 DEF IInv, StoreFits, StoredPlanFits, IdleIsClear, StateIsTrue, store_vars
<1>8. RunningPlanFits'
  <2>1. plan.steps # <<>> /\ \E before, after \in BOOLEAN : Fits(plan.steps, plan.action, before, after)
    BY <1>1 DEF IInv, RunningPlanFits
  <2>2. CASE index < Len(plan.steps)
    <3>1. index' <= Len(plan'.steps) /\ ~(index' > Len(plan'.steps))
      BY <1>1, <1>3, <2>2
    <3>2. plan'.steps[index'].held <=> attached'
      BY <1>1, <1>3, <1>5, <2>2
    <3> QED
      BY <1>1, <2>1, <3>1, <3>2 DEF RunningPlanFits, Step
  <2>3. CASE index = Len(plan.steps)
    <3>1. index' > Len(plan'.steps) /\ ~(index' <= Len(plan'.steps))
      BY <1>1, <1>3, <2>3
    <3>2. GripAfter(plan'.steps[Len(plan'.steps)]) <=> attached'
      BY <1>1, <1>5, <2>3 DEF Step
    <3> QED
      BY <1>1, <2>1, <3>1, <3>2 DEF RunningPlanFits
  <2> QED
    BY <1>3, <2>2, <2>3
<1>9. ReleasedReturns' /\ AttachAhead'
  <2>1. CASE ExecuteMotion
    <3>1. released' = released /\ attached' = attached /\ Step.kind = "MOTION"
      BY <2>1 DEF ExecuteMotion
    <3>2. released => OnlyReturns(plan.steps, index + 1)
      BY <1>3 DEF IInv, ReleasedReturns, OnlyReturns
    <3>3. Attaches(plan.steps, index) => Attaches(plan.steps, index + 1)
      BY <1>3, <3>1 DEF Attaches, Step
    <3> QED
      BY <1>1, <3>1, <3>2, <3>3 DEF IInv, ReleasedReturns, AttachAhead
  <2>2. CASE AttachBox
    <3>1. released' = released /\ attached' = TRUE /\ Step.kind = "ATTACH"
      BY <2>2 DEF AttachBox
    <3>2. ~released
      BY <1>3, <3>1 DEF IInv, ReleasedReturns, OnlyReturns, Step
    <3> QED
      BY <1>1, <3>1, <3>2 DEF ReleasedReturns, AttachAhead
  <2>3. CASE DetachBox
    <3>1. released' = TRUE /\ attached' = FALSE /\ Step.kind = "RELEASE"
      BY <2>3 DEF DetachBox
    <3> QED
      BY <1>1, <3>1 DEF IInv, ReleasedReturns, AttachAhead
  <2> QED
    BY <2>1, <2>2, <2>3
<1>10. SceneByRevision' /\ ReplanIsDue' /\ DispatchOnScene'
  BY <1>1 DEF IInv, SceneByRevision, ReplanIsDue, DispatchOnScene, scene_vars
<1>11. PickIsSeen'
  <2>1. CASE ExecuteMotion
    BY <1>1, <2>1 DEF IInv, PickIsSeen, BeforeAttachment, ExecuteMotion, scene_vars
  <2>2. CASE AttachBox
    BY <2>2 DEF PickIsSeen, BeforeAttachment, AttachBox
  <2>3. CASE DetachBox
    BY <2>3 DEF PickIsSeen, BeforeAttachment, DetachBox
  <2> QED
    BY <2>1, <2>2, <2>3
<1> QED
  BY <1>6, <1>7, <1>8, <1>9, <1>10, <1>11 DEF IInv

\* A pick that is planned anew before its attachment has one of three shapes.
LEMMA RemainingPickShapes ==
  ASSUME NEW poses, NEW remainder \in RemainingPick(poses)
  PROVE  LET pick == poses.box
             approach == <<Motion("approach", hands, Contact(pick), FALSE)>>
             attach == <<Attach(Contact(pick))>>
         IN  \E place \in PlaceTargets(poses) :
               \/ remainder = [place |-> place,
                               steps |-> attach \o HeldSteps(Contact(pick), TRUE, place)]
               \/ remainder = [place |-> place,
                               steps |-> approach \o attach \o HeldSteps(Contact(pick), TRUE, place)]
               \/ remainder = [place |-> place,
                               steps |-> CompleteSteps(plan.action, hands, FALSE,
                                                       [box |-> pick, table |-> place])]
<1> DEFINE pick == poses.box
           approach == <<Motion("approach", hands, Contact(pick), FALSE)>>
           attach == <<Attach(Contact(pick))>>
           Held(place) == HeldSteps(Contact(pick), TRUE, place)
           Whole(place) == CompleteSteps(plan.action, hands, FALSE, [box |-> pick, table |-> place])
<1>1. PICK place \in PlaceTargets(poses) :
        remainder =
          [place |-> place,
           steps |-> IF Step.kind = "ATTACH" /\ hands = Contact(pick) THEN attach \o Held(place)
                     ELSE IF Step.kind = "ATTACH" \/ Step.name = "approach"
                     THEN approach \o attach \o Held(place)
                     ELSE Whole(place)]
  BY DEF RemainingPick
<1> HIDE DEF pick, approach, attach, Held, Whole
<1>2. CASE Step.kind = "ATTACH" /\ hands = Contact(pick)
  <2>1. remainder = [place |-> place, steps |-> attach \o Held(place)]
    BY <1>1, <1>2
  <2> QED
    BY <2>1 DEF pick, attach, Held
<1>3. CASE ~(Step.kind = "ATTACH" /\ hands = Contact(pick))
           /\ (Step.kind = "ATTACH" \/ Step.name = "approach")
  <2>1. remainder = [place |-> place, steps |-> approach \o attach \o Held(place)]
    BY <1>1, <1>3
  <2> QED
    BY <2>1 DEF pick, approach, attach, Held
<1>4. CASE ~(Step.kind = "ATTACH" \/ Step.name = "approach")
  <2>1. remainder = [place |-> place, steps |-> Whole(place)]
    BY <1>1, <1>4
  <2> QED
    BY <2>1 DEF pick, Whole
<1> QED
  BY <1>2, <1>3, <1>4

\* Whatever point the remainder is planned anew from, it is for the grip that is there.
LEMMA RemainderFits ==
  ASSUME IInv, pc = "replan", NEW poses \in [box : 0..MaxMove, table : 0..MaxMove],
         NEW remainder \in Remainders(poses)
  PROVE  /\ remainder.place \in 0..MaxMove
         /\ remainder.steps \in Seq(Steps) /\ remainder.steps # <<>>
         /\ \E after \in BOOLEAN : Fits(remainder.steps, plan.action, attached, after)
         /\ released => OnlyReturns(remainder.steps, 1)
         /\ ~released /\ ~attached => Attaches(remainder.steps, 1)
<1> DEFINE Goal == /\ remainder.place \in 0..MaxMove
                   /\ remainder.steps \in Seq(Steps) /\ remainder.steps # <<>>
                   /\ \E after \in BOOLEAN : Fits(remainder.steps, plan.action, attached, after)
                   /\ released => OnlyReturns(remainder.steps, 1)
                   /\ ~released /\ ~attached => Attaches(remainder.steps, 1)
<1>1. index <= Len(plan.steps)
  BY DEF IInv, TypeOK
<1>2. /\ plan \in Plans /\ Step \in Steps /\ (Step.held <=> attached) /\ StepFits(Step, plan.action)
  BY <1>1, AtAStep
<1>3. /\ plan.place \in 0..MaxMove /\ plan.action \in Actions /\ hands \in Hands
      /\ attached \in BOOLEAN /\ released \in BOOLEAN
      /\ \A place \in PlaceTargets(poses) : place \in 0..MaxMove
  BY <1>2 DEF IInv, TypeOK, Plans, PlaceTargets
<1>4. CASE released
  <2> DEFINE prepare == \E i \in index..Len(plan.steps) : plan.steps[i].name = "prepare"
             retreat == Step.name = "retreat"
             steps == ReturnSteps(hands, retreat, prepare)
  <2>1. prepare \in BOOLEAN /\ retreat \in BOOLEAN
    OBVIOUS
  <2>2. remainder = [place |-> plan.place, steps |-> steps]
    BY <1>4 DEF Remainders, RemainingReturn
  <2> HIDE DEF prepare, retreat
  <2>3. Returning(steps) /\ steps # <<>>
    BY <1>3, <2>1, ReturnStepsFit
  <2> HIDE DEF steps
  <2>4. Fits(steps, plan.action, FALSE, FALSE)
    BY <2>3, ReturningFits
  <2>5. attached = FALSE
    BY <1>3, <1>4 DEF IInv, ReleasedReturns
  <2> QED
    BY <1>3, <1>4, <2>2, <2>3, <2>4, <2>5 DEF Returning
<1>5. CASE ~released /\ state = "EMPTY"
  <2>1. attached = FALSE /\ plan.action \in PickActions
    BY <1>3, <1>5 DEF IInv, StateIsTrue, AttachAhead
  <2> DEFINE pick == poses.box
             approach == <<Motion("approach", hands, Contact(pick), FALSE)>>
             attach == <<Attach(Contact(pick))>>
             Held(place) == HeldSteps(Contact(pick), TRUE, place)
             Whole(place) == CompleteSteps(plan.action, hands, FALSE, [box |-> pick, table |-> place])
  <2>2. PICK place \in 0..MaxMove :
          \/ remainder = [place |-> place, steps |-> attach \o Held(place)]
          \/ remainder = [place |-> place, steps |-> approach \o attach \o Held(place)]
          \/ remainder = [place |-> place, steps |-> Whole(place)]
    BY <1>3, <1>5, RemainingPickShapes DEF Remainders
  <2>3. pick \in 0..MaxMove /\ Contact(pick) \in Hands
    BY DEF Contact, Hands
  <2>4. Fits(attach, plan.action, FALSE, TRUE) /\ Attaches(attach, 1)
    BY <2>1, <2>3, AttachPart
  <2>5. Fits(approach, plan.action, FALSE, FALSE)
    BY <1>3, <2>3, MotionPart DEF Names
  <2>6. \E after \in BOOLEAN : Fits(Held(place), plan.action, TRUE, after)
    BY <2>3, HeldStepsFit
  <2>7. /\ Whole(place) \in Seq(Steps)
        /\ \E after \in BOOLEAN : Fits(Whole(place), plan.action, FALSE, after)
        /\ Attaches(Whole(place), 1)
    <3>1. [box |-> pick, table |-> place] \in [box : 0..MaxMove, table : 0..MaxMove]
      BY <2>3
    <3>2. /\ Whole(place) \in Seq(Steps)
          /\ \E after \in BOOLEAN :
               Fits(Whole(place), plan.action, plan.action \notin PickActions, after)
          /\ plan.action \in PickActions => Attaches(Whole(place), 1)
      BY <1>3, <3>1, CompleteStepsFit
    <3>3. (plan.action \notin PickActions) = FALSE
      BY <2>1
    <3> HIDE DEF Whole
    <3> QED
      BY <2>1, <3>2, <3>3
  <2> HIDE DEF pick, approach, attach, Held, Whole
  <2>8. /\ \E after \in BOOLEAN : Fits(attach \o Held(place), plan.action, FALSE, after)
        /\ Attaches(attach \o Held(place), 1)
    BY <2>4, <2>6, ConcatFits, AttachesSurvives DEF Fits
  <2>9. /\ \E after \in BOOLEAN : Fits(approach \o (attach \o Held(place)), plan.action, FALSE, after)
        /\ Attaches(approach \o (attach \o Held(place)), 1)
    BY <2>5, <2>8, ConcatFits, AttachesSurvives DEF Fits
  <2>10. approach \o attach \o Held(place) = approach \o (attach \o Held(place))
    BY <2>4, <2>5, <2>6, ConcatAssociative DEF Fits
  <2>11. /\ remainder.place \in 0..MaxMove
         /\ \E after \in BOOLEAN : Fits(remainder.steps, plan.action, FALSE, after)
         /\ Attaches(remainder.steps, 1)
    <3>1. CASE remainder = [place |-> place, steps |-> attach \o Held(place)]
      BY <2>8, <3>1
    <3>2. CASE remainder = [place |-> place, steps |-> approach \o attach \o Held(place)]
      BY <2>9, <2>10, <3>2
    <3>3. CASE remainder = [place |-> place, steps |-> Whole(place)]
      BY <2>7, <3>3
    <3> QED
      BY <2>2, <3>1, <3>2, <3>3
  <2>12. remainder.steps \in Seq(Steps)
    BY <2>11 DEF Fits
  <2> QED
    BY <1>5, <2>1, <2>11, <2>12, AttachesNotEmpty
<1>6. CASE ~released /\ state # "EMPTY"
  <2>1. attached = TRUE
    BY <1>3, <1>6 DEF IInv, StateIsTrue
  <2> DEFINE carry == Step.name = "carry"
             steps(place) == HeldSteps(hands, carry, place)
  <2>2. PICK place \in 0..MaxMove : remainder = [place |-> place, steps |-> steps(place)]
    BY <1>3, <1>6 DEF Remainders
  <2>3. carry \in BOOLEAN /\ (carry \/ plan.action # "pick")
    BY <1>2, <2>1 DEF StepFits
  <2> HIDE DEF carry
  <2>4. /\ steps(place) # <<>>
        /\ \E after \in BOOLEAN : Fits(steps(place), plan.action, TRUE, after)
    BY <1>3, <2>3, HeldStepsFit
  <2> HIDE DEF steps
  <2>5. steps(place) \in Seq(Steps)
    BY <2>4 DEF Fits
  <2> QED
    BY <1>6, <2>1, <2>2, <2>4, <2>5
<1> QED
  BY <1>4, <1>5, <1>6

LEMMA RebuildIInv ==
  ASSUME IInv, Rebuild
  PROVE  IInv'
<1>1. /\ pc = "replan" /\ pc' = "step" /\ ~requested /\ index' = 1
      /\ targetMoved' = FALSE /\ sceneMoved' = FALSE /\ savedRevision' = revision
      /\ UNCHANGED <<world_vars, store_vars, state, released, followTarget, revision, requested, log>>
  BY DEF Rebuild, Adopt
<1>0. PICK poses \in TargetPoses :
        \E remainder \in Remainders(poses) : seen' = poses /\ Adopt(remainder, poses)
  BY DEF Rebuild
<1>2. PICK remainder \in Remainders(poses) : seen' = poses /\ Adopt(remainder, poses)
  BY <1>0
<1>3. poses \in [box : 0..MaxMove, table : 0..MaxMove]
  BY TargetPosesTyped
<1>4. /\ remainder.place \in 0..MaxMove
      /\ remainder.steps \in Seq(Steps) /\ remainder.steps # <<>>
      /\ \E after \in BOOLEAN : Fits(remainder.steps, plan.action, attached, after)
      /\ released => OnlyReturns(remainder.steps, 1)
      /\ ~released /\ ~attached => Attaches(remainder.steps, 1)
  BY <1>1, <1>3, RemainderFits
<1>5. plan \in Plans
  BY <1>1 DEF IInv, TypeOK, IdleIsClear, NoPlan
<1>6. /\ revision \in 0..MaxRevision /\ plan.pick \in 0..MaxMove /\ attached \in BOOLEAN
      /\ poses.box \in 0..MaxMove
  BY <1>3, <1>5 DEF IInv, TypeOK, Plans
<1>7. /\ plan' \in Plans /\ plan'.id = plan.id /\ plan'.action = plan.action
      /\ plan'.steps = remainder.steps /\ plan'.scene = revision
      /\ plan'.pick = IF BeforeAttachment THEN poses.box ELSE plan.pick
  <2>1. plan' = [plan EXCEPT !.pick = IF BeforeAttachment THEN poses.box ELSE plan.pick,
                             !.place = remainder.place, !.steps = remainder.steps,
                             !.scene = revision]
    BY <1>2 DEF Adopt
  <2>2. (IF BeforeAttachment THEN poses.box ELSE plan.pick) \in 0..MaxMove
    BY <1>6
  <2> HIDE DEF BeforeAttachment
  <2> QED
    BY <1>4, <1>5, <1>6, <2>1, <2>2 DEF Plans
<1>8. Len(plan'.steps) \in Nat /\ 1 <= Len(plan'.steps) /\ ~(1 > Len(plan'.steps))
  BY <1>4, <1>7, EmptySeq
<1>9. TypeOK'
  <2>1. /\ box' \in 0..MaxMove /\ table' \in 0..MaxMove /\ hands' \in Hands
        /\ plans' \in [Actions -> Plans \cup {NoPlan}] /\ serial' \in 0..MaxSerial
        /\ state' \in {"EMPTY", "HOLDING", "RECOVERY_REQUIRED"}
        /\ attached' \in BOOLEAN /\ released' \in BOOLEAN /\ followTarget' \in BOOLEAN
        /\ requested' \in BOOLEAN /\ revision' \in 0..MaxRevision
    BY <1>1 DEF IInv, TypeOK, world_vars, store_vars
  <2>2. index' \in 1..Len(plan'.steps)
    BY <1>1, <1>8
  <2> QED
    BY <1>1, <1>2, <1>3, <1>6, <1>7, <2>1, <2>2 DEF TypeOK
<1>10. StoreFits' /\ IdleIsClear' /\ StateIsTrue'
  BY <1>1, <1>7 DEF IInv, StoreFits, StoredPlanFits, IdleIsClear, StateIsTrue, world_vars, store_vars
<1>11. RunningPlanFits'
  <2>1. plan'.steps[1].held <=> attached
    BY <1>4, <1>7 DEF Fits, Chained
  <2>2. \E before, after \in BOOLEAN : Fits(plan'.steps, plan'.action, before, after)
    BY <1>4, <1>6, <1>7
  <2> QED
    BY <1>1, <1>4, <1>7, <1>8, <2>1, <2>2 DEF RunningPlanFits, Step, world_vars
<1>12. ReleasedReturns' /\ AttachAhead'
  BY <1>1, <1>4, <1>7 DEF IInv, ReleasedReturns, AttachAhead, world_vars
<1>13. SceneByRevision' /\ ReplanIsDue' /\ DispatchOnScene'
  BY <1>1, <1>6, <1>7 DEF IInv, SceneByRevision, ReplanIsDue, DispatchOnScene
<1>14. PickIsSeen'
  BY <1>1, <1>2, <1>7 DEF PickIsSeen, BeforeAttachment
<1> QED
  BY <1>9, <1>10, <1>11, <1>12, <1>13, <1>14 DEF IInv

LEMMA StutterIInv ==
  ASSUME IInv, UNCHANGED vars
  PROVE  IInv'
  BY DEF IInv, TypeOK, StoreFits, StoredPlanFits, IdleIsClear, StateIsTrue, RunningPlanFits,
         ReleasedReturns, AttachAhead, SceneByRevision, ReplanIsDue, DispatchOnScene, PickIsSeen,
         vars, world_vars, store_vars, run_vars, scene_vars, Step, SceneIsNew, CarryOnly,
         BeforeAttachment

LEMMA StepIInv ==
  ASSUME IInv, [Next]_vars
  PROVE  IInv'
  BY WorldIInv, RequestIInv, LeaveIInv, ReplanIInv, RebuildIInv, ExecuteIInv, AdvanceIInv,
     StutterIInv DEF Next, Replan, Execute
-----------------------------------------------------------------------------
\* The inductive invariant holds for any number of plans, moves and Continue scenes.
THEOREM Invariance == Spec => []IInv
  BY InitIInv, StepIInv, PTL DEF Spec

\* The variables keep their types: no index ever leaves the plan it belongs to, whatever
\* replanning has made of the plan's length.
THEOREM TypeCorrect == Spec => []TypeOK
<1>1. IInv => TypeOK
  BY DEF IInv
<1> QED
  BY <1>1, Invariance, PTL

LEMMA DispatchFits ==
  ASSUME IInv, pc = "dispatch"
  PROVE  /\ hands = Step.from /\ attached = Step.held
         /\ CarryOnly \/ plan.scene = revision
         /\ Step.kind = "ATTACH" => hands = Contact(seen.box)
<1>1. index <= Len(plan.steps)
  BY DEF IInv, TypeOK
<1>2. /\ plan \in Plans /\ index \in 1..Len(plan.steps) /\ Len(plan.steps) \in Nat /\ Step \in Steps
      /\ (Step.held <=> attached) /\ StepFits(Step, plan.action)
  BY <1>1, AtAStep
<1>3. attached = Step.held
  <2>1. attached \in BOOLEAN /\ Step.held \in BOOLEAN
    BY <1>2 DEF IInv, TypeOK, Steps
  <2> QED
    BY <1>2, <2>1
<1>4. hands = Step.from /\ (CarryOnly \/ savedRevision = revision)
  BY DEF IInv, DispatchOnScene, SceneIsNew
<1>5. plan.scene = savedRevision
  BY DEF IInv, IdleIsClear, SceneByRevision
<1>6. ASSUME Step.kind = "ATTACH"
      PROVE  hands = Contact(seen.box)
  <2>1. plan.action \in PickActions /\ ~attached
    BY <1>2, <1>6 DEF StepFits
  <2>2. ~released
    BY <1>2, <1>6 DEF IInv, ReleasedReturns, OnlyReturns, Step
  <2>3. state = "EMPTY"
    BY <2>1 DEF IInv, StateIsTrue
  <2>4. ~CarryOnly
    BY <2>1 DEF CarryOnly, PickActions
  <2>5. plan.pick = seen.box
    BY <1>4, <2>1, <2>2, <2>3, <2>4 DEF IInv, PickIsSeen, ReplanIsDue, BeforeAttachment
  <2> QED
    BY <1>6, <2>5 DEF IInv, DispatchOnScene
<1> QED
  BY <1>3, <1>4, <1>5, <1>6

\* Through any number of moves, pauses and replans, what executeSavedPlan dispatches
\* starts where the arms are, with the grip it was planned for, on the scene last
\* accepted, and it grasps the box where it was last accepted.
THEOREM StepsFit == Spec => StepsFitWorld
<1>1. ASSUME IInv, [Next]_vars
      PROVE  [pc = "dispatch" /\ <<hands, attached, index>>' # <<hands, attached, index>> =>
                /\ hands = Step.from /\ attached = Step.held
                /\ CarryOnly \/ plan.scene = revision
                /\ Step.kind = "ATTACH" => hands = Contact(seen.box)]_vars
  BY <1>1, DispatchFits
<1> QED
  BY <1>1, Invariance, PTL DEF Spec, StepsFitWorld
-----------------------------------------------------------------------------
(* The store implements one-shot plans. *)
Usable == {plans[a].id : a \in Actions} \ {0}
Spent == (1..serial) \ {plans[a].id : a \in Actions}

LEMMA IdsBounded ==
  ASSUME IInv
  PROVE  serial \in Nat /\ \A a \in Actions : plans[a].id \in 0..serial
<1>1. serial \in Nat /\ MaxSerial \in Nat
  BY SavedPlansAssumption DEF IInv, TypeOK
<1>2. ASSUME NEW a \in Actions
      PROVE  plans[a].id \in 0..serial
  <2>1. plans[a] \in Plans \cup {NoPlan} /\ plans[a].id <= serial
    BY DEF IInv, TypeOK, StoreFits
  <2>2. plans[a].id \in Nat
    BY <1>1, <2>1 DEF Plans, NoPlan
  <2> QED
    BY <1>1, <2>1, <2>2
<1> QED
  BY <1>1, <1>2

\* Whatever leaves no plan behind, and starts none, is an Act of the abstract store.
LEMMA DroppedPlansAct ==
  ASSUME IInv, plans' = NoPlans, serial' = serial, attached' \in BOOLEAN, plan'.id \in {0, plan.id}
  PROVE  Tokens!Act
<1>1. \A a \in Actions : plans'[a].id = 0
  BY DEF NoPlans, NoPlan
<1>2. Usable' = {}
  BY <1>1 DEF Usable
<1>3. Spent' = Spent \cup Usable
  BY <1>1, IdsBounded DEF Spent, Usable
<1> QED
  BY <1>2, <1>3 DEF Usable, Spent, Tokens!Act

LEMMA TokensNext ==
  Tokens!Next <=>
    \/ Tokens!Act
    \/ \E id \in Usable : Tokens!Use(id)
    \/ \E id \in Usable' \cup Spent' :
         Tokens!Waste(id) \/ \E replaced \in SUBSET Usable : Tokens!Store(id, replaced)
  BY DEF Tokens!Next, Usable, Spent

\* A plan_only request uses a new number up: for the plan it stores, or for nothing.
LEMMA PlanOnlyTokens ==
  ASSUME IInv, NEW action \in Actions, PlanOnly(action)
  PROVE  Tokens!Next
<1>1. /\ pc = "idle" /\ serial' = serial + 1 /\ plan' = plan /\ attached' = attached
      /\ plan.id = 0
  BY DEF PlanOnly, run_vars, world_vars, IInv, IdleIsClear
<1>2. serial \in Nat /\ \A a \in Actions : plans[a].id \in 0..serial
  BY IdsBounded
<1>3. PICK new : new = serial + 1
  OBVIOUS
<1>6. new \in Nat \ {0} /\ new \notin Usable /\ new \notin Spent
  BY <1>2, <1>3 DEF Usable, Spent
<1>4. CASE UNCHANGED plans
  <2>1. Usable' = Usable
    BY <1>4 DEF Usable
  <2>2. Spent' = Spent \cup {new}
    BY <1>1, <1>2, <1>3, <1>4 DEF Spent
  <2>3. Tokens!Waste(new)
    BY <1>1, <1>6, <2>1, <2>2 DEF Tokens!Waste, Tokens!Fresh, Usable, Spent
  <2>4. new \in Spent'
    BY <2>2
  <2>5. \E id \in Usable' \cup Spent' : Tokens!Waste(id)
    BY <2>3, <2>4
  <2> QED
    BY <2>5, TokensNext
<1>5. CASE plans' = [plans EXCEPT ![action] = NewPlan(action, Poses)]
  <2>1. plans'[action].id = new /\ \A a \in Actions : a # action => plans'[a] = plans[a]
    BY <1>3, <1>5 DEF NewPlan, IInv, TypeOK
  <2> DEFINE Ids == {plans[a].id : a \in Actions}
  <2>10. PICK replaced : replaced = Usable \ Usable'
    OBVIOUS
  <2>2. Ids' \subseteq Ids \cup {new} /\ new \in Ids'
    BY <2>1
  <2>3. Usable = Ids \ {0} /\ Usable' = Ids' \ {0}
    BY DEF Usable
  <2>4. Spent = (1..serial) \ Ids /\ Spent' = (1..new) \ Ids'
    BY <1>1, <1>3 DEF Spent
  <2>5. Ids \subseteq 0..serial
    BY <1>2
  <2> HIDE DEF Ids
  <2>6. Usable' = (Usable \ replaced) \cup {new}
    BY <1>6, <2>2, <2>3, <2>10
  <2>7. Spent' = Spent \cup replaced
    <3>1. ASSUME NEW x \in Spent'
          PROVE  x \in Spent \cup replaced
      <4>1. x \in 1..new /\ x \notin Ids' /\ x # new
        BY <2>2, <2>4
      <4>2. x \in 1..serial
        BY <1>2, <1>3, <4>1
      <4> QED
        BY <2>3, <2>4, <2>10, <4>1, <4>2
    <3>2. ASSUME NEW x \in Spent
          PROVE  x \in Spent'
      <4>1. x \in 1..serial /\ x \notin Ids
        BY <2>4
      <4>2. x \in 1..new /\ x # new
        BY <1>2, <1>3, <4>1
      <4> QED
        BY <2>2, <2>4, <4>1, <4>2
    <3>3. ASSUME NEW x \in replaced
          PROVE  x \in Spent'
      <4>1. x \in Ids /\ x # 0 /\ x \notin Ids'
        BY <2>3, <2>10
      <4>2. x \in 1..new
        BY <1>2, <1>3, <2>5, <4>1
      <4> QED
        BY <2>4, <4>1, <4>2
    <3> QED
      BY <3>1, <3>2, <3>3
  <2>8. new \in Usable' /\ replaced \in SUBSET Usable
    BY <2>6, <2>10
  <2>9. Tokens!Store(new, replaced)
    BY <1>1, <1>6, <2>6, <2>7 DEF Tokens!Store, Tokens!Fresh, Usable, Spent
  <2>11. \E id \in Usable' \cup Spent' : \E r \in SUBSET Usable : Tokens!Store(id, r)
    BY <2>8, <2>9
  <2> QED
    BY <2>11, TokensNext
<1> QED
  BY <1>4, <1>5 DEF PlanOnly

LEMMA ClaimTokens ==
  ASSUME IInv, NEW action \in Actions, Claim(action)
  PROVE  Tokens!Next
<1>1. /\ pc = "idle" /\ plans[action].id > 0 /\ plans' = NoPlans
      /\ serial' = serial /\ attached' = attached /\ plan.id = 0
  BY DEF Claim, Found, world_vars, IInv, IdleIsClear
<1>2. attached' \in BOOLEAN
  BY <1>1 DEF IInv, TypeOK
<1>3. CASE Reject(action)
  BY <1>1, <1>2, <1>3, DroppedPlansAct DEF Reject, Tokens!Next
<1>4. CASE Begin(action)
  <2>8. PICK id : id = plans[action].id
    OBVIOUS
  <2>1. id \in 0..serial /\ serial \in Nat
    BY <2>8, IdsBounded
  <2>2. id \in Usable
    BY <1>1, <2>1, <2>8 DEF Usable
  <2>3. \A a \in Actions : plans'[a].id = 0
    BY <1>1 DEF NoPlans, NoPlan
  <2>4. Usable' = {} /\ Spent' = Spent \cup Usable
    BY <1>1, <2>3, IdsBounded DEF Spent, Usable
  <2>5. plan'.id = id
    BY <1>4, <2>8 DEF Begin
  <2>6. Tokens!Use(id)
    BY <1>1, <2>2, <2>4, <2>5 DEF Tokens!Use, Usable, Spent
  <2>7. \E i \in Usable : Tokens!Use(i)
    BY <2>2, <2>6
  <2> QED
    BY <2>7, TokensNext
<1> QED
  BY <1>3, <1>4 DEF Claim

\* Steps of the world change no plan.
LEMMA WorldTokens ==
  ASSUME World
  PROVE  UNCHANGED <<Usable, Spent, plan.id, attached>>
  BY DEF World, MoveBox, MoveTable, Drift, store_vars, run_vars, Usable, Spent

\* During an execution nothing is stored, so that its steps may do what they do.
LEMMA RunTokens ==
  ASSUME IInv, Replan \/ Execute
  PROVE  Tokens!Act
<1>1. pc # "idle" /\ plans' = plans /\ serial' = serial
  BY DEF Replan, Loop, LoopFails, AcquireScene, Rebuild, RebuildFails, Execute, StepDeferred,
         StepChecked, StepFails, Continue, StepCanceled, ExecuteMotion, AttachBox, DetachBox,
         StepDone, DispatchFails, Complete, Return, store_vars
<1>2. plans' = NoPlans
  BY <1>1 DEF IInv, StoreFits
<1>3. attached' \in BOOLEAN
  <2>1. attached \in BOOLEAN
    BY DEF IInv, TypeOK
  <2> QED
    BY <2>1
       DEF Replan, Loop, LoopFails, AcquireScene, Rebuild, RebuildFails, Execute, StepDeferred,
           StepChecked, StepFails, Continue, StepCanceled, ExecuteMotion, AttachBox, DetachBox,
           DispatchFails, Complete, Return, world_vars
<1>4. plan'.id \in {0, plan.id}
  <2>1. CASE Rebuild
    <3>1. plan \in Plans
      BY <1>1 DEF IInv, TypeOK, IdleIsClear, NoPlan
    <3>2. plan'.id = plan.id
      BY <2>1, <3>1 DEF Rebuild, Adopt, Plans
    <3> QED
      BY <3>2
  <2>2. CASE LoopFails \/ StepCanceled \/ DispatchFails \/ Return
    BY <2>2 DEF LoopFails, StepCanceled, DispatchFails, Return, Leave, NoPlan
  <2>3. CASE Loop \/ AcquireScene \/ RebuildFails
    BY <2>3 DEF Loop, AcquireScene, RebuildFails, run_vars
  <2>4. CASE StepDeferred \/ StepChecked \/ StepFails \/ Continue \/ ExecuteMotion \/ AttachBox
               \/ DetachBox \/ Complete
    BY <2>4 DEF StepDeferred, StepChecked, StepFails, Continue, ExecuteMotion, AttachBox,
                DetachBox, StepDone, Complete, run_vars
  <2> QED
    BY <2>1, <2>2, <2>3, <2>4 DEF Replan, Execute
<1> QED
  BY <1>1, <1>2, <1>3, <1>4, DroppedPlansAct

\* SavedPlanStore implements one-shot plans: the number a preview gave its client is
\* good for one execution, while nothing else was executed and the grip is as it was.
THEOREM OneShotAlways == Spec => OneShot
<1>1. Init => Tokens!Init
  <2>1. ASSUME Init
        PROVE  Usable = {} /\ Spent = {} /\ plan.id = 0 /\ attached = FALSE
    <3>1. \A a \in Actions : plans[a].id = 0
      BY <2>1 DEF Init, NoPlans, NoPlan
    <3> QED
      BY <2>1, <3>1 DEF Init, Usable, Spent, NoPlan
  <2> QED
    BY <2>1 DEF Usable, Spent, Tokens!Init
<1>2. ASSUME IInv, [Next]_vars
      PROVE  [Tokens!Next]_(Tokens!vars)
  <2>1. CASE UNCHANGED vars
    BY <2>1 DEF vars, world_vars, store_vars, run_vars, Tokens!vars
  <2>2. CASE World
    BY <2>2, WorldTokens DEF Usable, Spent, Tokens!vars
  <2>3. CASE NormalGoal \/ RecoverState \/ Reset
    <3>1. attached \in BOOLEAN
      BY <1>2 DEF IInv, TypeOK
    <3>2. plans' = NoPlans /\ serial' = serial /\ attached' \in BOOLEAN /\ plan' = plan
      BY <2>3, <3>1 DEF NormalGoal, RecoverState, Reset, world_vars, run_vars
    <3> QED
      BY <1>2, <3>2, DroppedPlansAct DEF Tokens!Next
  <2>4. ASSUME NEW a \in Actions, PlanOnly(a) \/ Claim(a)
        PROVE  Tokens!Next
    BY <1>2, <2>4, PlanOnlyTokens, ClaimTokens
  <2>5. CASE Replan \/ Execute
    BY <1>2, <2>5, RunTokens DEF Tokens!Next
  <2> QED
    BY <1>2, <2>1, <2>2, <2>3, <2>4, <2>5 DEF Next, Request
<1> QED
  BY <1>1, <1>2, Invariance, PTL DEF Spec, OneShot, Tokens!Spec
-----------------------------------------------------------------------------
(* The stages of a whole task, in their order.  Every plan, as it is stored and whatever
   a replanning has made of it, is what is left of this route from some stage on; so the
   stage the execution is at says what it has done. *)
Returned == IF HasPrepare THEN 10 ELSE 9
LastStage(action) == IF action \in {"pick", "move_carry_pose"} THEN 5 ELSE Returned
FirstStage(action) ==
  IF action = "place" THEN 6 ELSE IF action = "move_carry_pose" THEN 5 ELSE 1

StageName(p) ==
  CASE p = 1 -> "prepare" [] p = 2 -> "pregrasp" [] p = 3 -> "approach" [] p = 4 -> "attach"
    [] p = 5 -> "carry" [] p = 6 -> "place" [] p = 7 -> "release" [] p = 8 -> "retreat"
    [] p = 9 /\ HasPrepare -> "prepare" [] OTHER -> "ready"
StageKind(p) == IF p = 4 THEN "ATTACH" ELSE IF p = 7 THEN "RELEASE" ELSE "MOTION"

\* The steps are the stages from first on.
Covers(steps, first) ==
  \A i \in 1..Len(steps) :
    steps[i].name = StageName(first + i - 1) /\ steps[i].kind = StageKind(first + i - 1)

\* The steps are the rest of the action's route, from first on.
Finishes(steps, action, first) ==
  /\ first >= FirstStage(action) /\ first + Len(steps) = LastStage(action) + 1
  /\ Covers(steps, first)

\* The milestones before a stage.
Passed(action, p) ==
  (IF p <= 4 THEN 0 ELSE IF p <= 6 THEN p - 4 ELSE p - 5)
    - (IF action = "place" THEN 2 ELSE IF action = "move_carry_pose" THEN 1 ELSE 0)

Stage == LastStage(plan.action) + index - Len(plan.steps)

StoreFinishes ==
  \A a \in Actions : plans[a].id > 0 =>
    \E first \in FirstStage(a)..(IF a \in PickActions THEN 4 ELSE FirstStage(a)) :
      Finishes(plans[a].steps, a, first)

PlanFinishes == pc # "idle" => Finishes(plan.steps, plan.action, Stage - index + 1)

StageTellsWorld ==
  pc # "idle" => (attached <=> Stage \in 5..7) /\ (released <=> Stage >= 8)

StageTellsLog ==
  IF pc = "idle" THEN log = <<>>
  ELSE log = SubSeq(Milestones(plan.action), 1, Passed(plan.action, Stage))

DoneAtEnd == pc = "done" => index > Len(plan.steps)

\* Moving the carry pose follows neither a target nor a scene.
CarryNeverReplanned == CarryOnly => ~targetMoved /\ ~sceneMoved

RouteInv ==
  /\ StoreFinishes /\ PlanFinishes /\ StageTellsWorld /\ StageTellsLog
  /\ DoneAtEnd /\ CarryNeverReplanned

LEMMA CoversNone ==
  ASSUME NEW p \in Nat
  PROVE  Covers(<<>>, p)
  BY DEF Covers

LEMMA CoversOne ==
  ASSUME NEW p \in Nat, NEW a, a.name = StageName(p), a.kind = StageKind(p)
  PROVE  Covers(<<a>>, p)
<1>1. Len(<<a>>) = 1 /\ <<a>>[1] = a
  OBVIOUS
<1>2. ASSUME NEW i \in 1..Len(<<a>>)
      PROVE  i = 1 /\ p + i - 1 = p
  BY <1>1
<1> QED
  BY <1>1, <1>2 DEF Covers

LEMMA CoversConcat ==
  ASSUME NEW p \in Nat, NEW s \in Seq(Steps), NEW t \in Seq(Steps), NEW q \in Nat,
         q = p + Len(s), Covers(s, p), Covers(t, q)
  PROVE  Covers(s \o t, p) /\ Len(s \o t) = Len(s) + Len(t) /\ s \o t \in Seq(Steps)
<1> DEFINE st == s \o t
<1>1. /\ st \in Seq(Steps) /\ Len(st) = Len(s) + Len(t) /\ Len(s) \in Nat /\ Len(t) \in Nat
      /\ \A i \in 1..Len(s) : st[i] = s[i]
      /\ \A i \in (Len(s) + 1)..(Len(s) + Len(t)) : st[i] = t[i - Len(s)]
  BY ConcatProperties
<1> HIDE DEF st
<1>2. ASSUME NEW i \in 1..Len(st)
      PROVE  st[i].name = StageName(p + i - 1) /\ st[i].kind = StageKind(p + i - 1)
  <2>1. CASE i \in 1..Len(s)
    BY <1>1, <2>1 DEF Covers
  <2>2. CASE i \notin 1..Len(s)
    <3>1. PICK j \in 1..Len(t) : j = i - Len(s)
      BY <1>1, <2>2
    <3>2. st[i] = t[j] /\ q + j - 1 = p + i - 1
      BY <1>1, <2>2, <3>1
    <3>3. t[j].name = StageName(q + j - 1) /\ t[j].kind = StageKind(q + j - 1)
      BY DEF Covers
    <3> QED
      BY <3>2, <3>3
  <2> QED
    BY <2>1, <2>2
<1> QED
  BY <1>1, <1>2 DEF Covers, st

\* A motion of a stage that is one.
LEMMA MotionCovers ==
  ASSUME NEW p \in 1..10, p \notin {4, 7}, NEW name \in Names, name = StageName(p),
         NEW from \in Hands, NEW to \in Hands, NEW held \in BOOLEAN
  PROVE  LET s == <<Motion(name, from, to, held)>>
         IN  Covers(s, p) /\ Len(s) = 1 /\ s \in Seq(Steps)
<1> DEFINE a == Motion(name, from, to, held)
<1>1. a.name = name /\ a.kind = StageKind(p) /\ a \in Steps
  BY DEF Motion, StageKind, Steps, Names
<1> HIDE DEF a
<1>2. Covers(<<a>>, p) /\ Len(<<a>>) = 1 /\ <<a>> \in Seq(Steps)
  BY <1>1, CoversOne
<1> QED
  BY <1>2 DEF a

LEMMA AttachCovers ==
  ASSUME NEW from \in Hands
  PROVE  Covers(<<Attach(from)>>, 4) /\ Len(<<Attach(from)>>) = 1 /\ <<Attach(from)>> \in Seq(Steps)
<1> DEFINE a == Attach(from)
<1>1. a.name = StageName(4) /\ a.kind = StageKind(4) /\ a \in Steps
  BY DEF Attach, StageName, StageKind, Steps
<1> HIDE DEF a
<1>2. Covers(<<a>>, 4) /\ Len(<<a>>) = 1 /\ <<a>> \in Seq(Steps)
  BY <1>1, CoversOne
<1> QED
  BY <1>2 DEF a

LEMMA StageNames ==
  /\ StageName(1) = "prepare" /\ StageName(2) = "pregrasp" /\ StageName(3) = "approach"
  /\ StageName(5) = "carry" /\ StageName(6) = "place" /\ StageName(8) = "retreat"
  /\ HasPrepare => StageName(9) = "prepare"
  /\ StageName(Returned) = "ready" /\ Returned \in {9, 10}
  BY SavedPlansAssumption DEF StageName, Returned

\* The return is done again only from the stage the arms are at.
LEMMA ReturnFinishes ==
  ASSUME NEW from \in Hands, NEW p \in 8..Returned, NEW retreat \in BOOLEAN, NEW prepare \in BOOLEAN,
         retreat <=> p = 8, prepare <=> HasPrepare /\ p <= 9
  PROVE  LET s == ReturnSteps(from, retreat, prepare)
         IN  Covers(s, p) /\ p + Len(s) = Returned + 1 /\ s \in Seq(Steps)
<1> DEFINE clear == IF retreat THEN At("clear") ELSE from
           start == IF prepare THEN At("prepare") ELSE clear
           first == IF retreat THEN <<Motion("retreat", from, clear, FALSE)>> ELSE <<>>
           second == IF prepare THEN <<Motion("prepare", clear, At("prepare"), FALSE)>> ELSE <<>>
           third == <<Motion("ready", start, At("ready"), FALSE)>>
<1>1. At("clear") \in Hands /\ At("prepare") \in Hands /\ At("ready") \in Hands
      /\ clear \in Hands /\ start \in Hands
  BY DEF At, Hands
<1>2. ReturnSteps(from, retreat, prepare) = (first \o second) \o third
  BY DEF ReturnSteps
<1> HIDE DEF clear, start
<1>3. Covers(first, p) /\ first \in Seq(Steps) /\ Len(first) = IF p = 8 THEN 1 ELSE 0
  <2>1. CASE retreat
    <3>1. first = <<Motion("retreat", from, clear, FALSE)>> /\ p = 8
      BY <2>1
    <3>2. 8 \in 1..10 /\ 8 \notin {4, 7} /\ StageName(8) = "retreat" /\ "retreat" \in Names
      BY StageNames DEF Names
    <3> HIDE DEF first
    <3>3. Covers(first, 8) /\ Len(first) = 1 /\ first \in Seq(Steps)
      BY <1>1, <3>1, <3>2, MotionCovers
    <3> QED
      BY <3>1, <3>3
  <2>2. CASE ~retreat
    BY <2>2, CoversNone
  <2> QED
    BY <2>1, <2>2
<1> DEFINE q == p + Len(first)
<1>4. q = p + Len(first) /\ q = IF p = 8 THEN 9 ELSE p
  BY <1>3
<1> HIDE DEF first, q
<1>5. Covers(second, q) /\ second \in Seq(Steps) /\ Len(second) = IF prepare THEN 1 ELSE 0
  <2>1. CASE prepare
    <3>0. p = 8 \/ p = 9
      BY <2>1
    <3>1. q = 9 /\ second = <<Motion("prepare", clear, At("prepare"), FALSE)>>
      <4>1. q = 9
        BY <1>4, <3>0
      <4> QED
        BY <2>1, <4>1
    <3>2. 9 \in 1..10 /\ 9 \notin {4, 7} /\ StageName(9) = "prepare" /\ "prepare" \in Names
      BY <2>1, StageNames DEF Names
    <3> HIDE DEF second
    <3>3. Covers(second, 9) /\ Len(second) = 1 /\ second \in Seq(Steps)
      BY <1>1, <3>1, <3>2, MotionCovers
    <3> QED
      BY <2>1, <3>1, <3>3
  <2>2. CASE ~prepare
    <3>1. q \in Nat /\ second = <<>>
      BY <1>4, <2>2
    <3> HIDE DEF second
    <3> QED
      BY <2>2, <3>1, CoversNone
  <2> QED
    BY <2>1, <2>2
<1> DEFINE r == q + Len(second)
<1>6. r = q + Len(second) /\ r = Returned /\ Returned \in {9, 10} /\ q \in Nat
  <2>1. HasPrepare \in BOOLEAN
    BY SavedPlansAssumption
  <2> QED
    BY <1>4, <1>5, <2>1 DEF Returned
<1> HIDE DEF second, r
<1>7. Covers(third, r) /\ Len(third) = 1 /\ third \in Seq(Steps)
  <2>1. Returned \in 1..10 /\ Returned \notin {4, 7} /\ StageName(Returned) = "ready"
        /\ "ready" \in Names
    BY <1>6, StageNames DEF Names
  <2>2. Covers(third, Returned) /\ Len(third) = 1 /\ third \in Seq(Steps)
    BY <1>1, <2>1, MotionCovers
  <2> QED
    BY <1>6, <2>2
<1> HIDE DEF third
<1>8. /\ Covers(first \o second, p) /\ Len(first \o second) = Len(first) + Len(second)
      /\ first \o second \in Seq(Steps)
  <2>1. p \in Nat
    OBVIOUS
  <2> QED
    BY <1>3, <1>4, <1>5, <1>6, <2>1, CoversConcat
<1>9. r = p + Len(first \o second) /\ r \in Nat /\ p \in Nat
  BY <1>3, <1>4, <1>5, <1>6, <1>8
<1>10. /\ Covers((first \o second) \o third, p)
       /\ Len((first \o second) \o third) = Len(first \o second) + 1
       /\ (first \o second) \o third \in Seq(Steps)
  BY <1>7, <1>8, <1>9, CoversConcat
<1>11. p + Len((first \o second) \o third) = Returned + 1
  BY <1>3, <1>4, <1>5, <1>6, <1>8, <1>9, <1>10
<1> QED
  BY <1>2, <1>10, <1>11 DEF first, second, third

\* The placement and the return after it.
LEMMA PlaceFinishes ==
  ASSUME NEW from \in Hands, NEW place \in 0..MaxMove
  PROVE  LET s == PlaceSteps(from, place)
         IN  Covers(s, 6) /\ 6 + Len(s) = Returned + 1 /\ s \in Seq(Steps)
<1> DEFINE a == Motion("place", from, Placed(place), TRUE)
           b == Release(Placed(place))
           put == <<a, b>>
           return == ReturnSteps(Placed(place), TRUE, HasPrepare)
<1>1. Placed(place) \in Hands
  BY DEF Placed, Hands
<1>2. PlaceSteps(from, place) = put \o return
  BY DEF PlaceSteps
<1>3. /\ a \in Steps /\ a.name = StageName(6) /\ a.kind = StageKind(6)
      /\ b \in Steps /\ b.name = StageName(7) /\ b.kind = StageKind(7)
  BY <1>1 DEF Motion, Release, Steps, StageName, StageKind
<1>4. Covers(return, 8) /\ 8 + Len(return) = Returned + 1 /\ return \in Seq(Steps)
      /\ Returned \in {9, 10}
  <2>1. Returned \in {9, 10} /\ HasPrepare \in BOOLEAN
    BY StageNames, SavedPlansAssumption
  <2>2. 8 \in 8..Returned /\ (TRUE <=> 8 = 8) /\ (HasPrepare <=> HasPrepare /\ 8 <= 9)
    BY <2>1
  <2>3. TRUE \in BOOLEAN
    OBVIOUS
  <2>4. Covers(return, 8) /\ 8 + Len(return) = Returned + 1 /\ return \in Seq(Steps)
    BY <1>1, <2>1, <2>2, <2>3, ReturnFinishes
  <2> QED
    BY <2>1, <2>4
<1> HIDE DEF a, b, return
<1>5. Covers(put, 6) /\ Len(put) = 2 /\ put \in Seq(Steps)
  <2>1. Len(put) = 2 /\ put \in Seq(Steps) /\ put[1] = a /\ put[2] = b
    BY <1>3
  <2> HIDE DEF put
  <2>2. ASSUME NEW i \in 1..Len(put)
        PROVE  put[i].name = StageName(6 + i - 1) /\ put[i].kind = StageKind(6 + i - 1)
    <3>1. CASE i = 1
      BY <1>3, <2>1, <3>1
    <3>2. CASE i = 2
      BY <1>3, <2>1, <3>2
    <3> QED
      BY <2>1, <3>1, <3>2
  <2> QED
    BY <2>1, <2>2 DEF Covers
<1> HIDE DEF put
<1>6. /\ Covers(put \o return, 6) /\ Len(put \o return) = Len(put) + Len(return)
      /\ put \o return \in Seq(Steps)
  <2>1. 8 = 6 + Len(put) /\ 8 \in Nat /\ 6 \in Nat
    BY <1>5
  <2> QED
    BY <1>4, <1>5, <2>1, CoversConcat
<1>7. Len(return) \in Nat
  BY <1>4
<1>8. 6 + Len(put \o return) = Returned + 1
  BY <1>4, <1>5, <1>6, <1>7
<1> QED
  BY <1>2, <1>6, <1>8

\* A pick, from the preparation or from where the arms are.
LEMMA PickFinishes ==
  ASSUME NEW from \in Hands, NEW prepare \in BOOLEAN, NEW pick \in 0..MaxMove,
         NEW p \in 1..2, p = IF prepare THEN 1 ELSE 2
  PROVE  LET s == PickSteps(from, prepare, pick)
         IN  Covers(s, p) /\ p + Len(s) = 6 /\ s \in Seq(Steps)
<1> DEFINE start == IF prepare THEN At("prepare") ELSE from
           first == IF prepare THEN <<Motion("prepare", from, start, FALSE)>> ELSE <<>>
           a == Motion("pregrasp", start, Pregrasp(pick), FALSE)
           b == Motion("approach", Pregrasp(pick), Contact(pick), FALSE)
           c == Attach(Contact(pick))
           d == Motion("carry", Contact(pick), At("carry"), TRUE)
           reach == <<a, b, c, d>>
<1>1. start \in Hands /\ Pregrasp(pick) \in Hands /\ Contact(pick) \in Hands /\ At("carry") \in Hands
  BY DEF Pregrasp, Contact, At, Hands
<1>2. PickSteps(from, prepare, pick) = first \o reach
  BY DEF PickSteps
<1> HIDE DEF start
<1>3. Covers(first, p) /\ first \in Seq(Steps) /\ p + Len(first) = 2
  <2>1. CASE prepare
    <3>1. first = <<Motion("prepare", from, start, FALSE)>> /\ p = 1
      BY <2>1
    <3>2. 1 \in 1..10 /\ 1 \notin {4, 7} /\ StageName(1) = "prepare" /\ "prepare" \in Names
      BY StageNames DEF Names
    <3> HIDE DEF first
    <3>3. Covers(first, 1) /\ Len(first) = 1 /\ first \in Seq(Steps)
      BY <1>1, <3>1, <3>2, MotionCovers
    <3>4. p = 1
      BY <3>1
    <3>5. p + Len(first) = 2
      BY <3>3, <3>4
    <3> QED
      BY <3>3, <3>4, <3>5
  <2>2. CASE ~prepare
    BY <2>2, CoversNone
  <2> QED
    BY <2>1, <2>2
<1>4. /\ a \in Steps /\ a.name = StageName(2) /\ a.kind = StageKind(2)
      /\ b \in Steps /\ b.name = StageName(3) /\ b.kind = StageKind(3)
      /\ c \in Steps /\ c.name = StageName(4) /\ c.kind = StageKind(4)
      /\ d \in Steps /\ d.name = StageName(5) /\ d.kind = StageKind(5)
  BY <1>1 DEF Motion, Attach, Steps, StageName, StageKind
<1> HIDE DEF first, a, b, c, d
<1>5. Covers(reach, 2) /\ Len(reach) = 4 /\ reach \in Seq(Steps)
  <2>1. Len(reach) = 4 /\ reach \in Seq(Steps)
        /\ reach[1] = a /\ reach[2] = b /\ reach[3] = c /\ reach[4] = d
    BY <1>4
  <2> HIDE DEF reach
  <2>2. ASSUME NEW i \in 1..Len(reach)
        PROVE  reach[i].name = StageName(2 + i - 1) /\ reach[i].kind = StageKind(2 + i - 1)
    <3>1. CASE i = 1
      BY <1>4, <2>1, <3>1
    <3>2. CASE i = 2
      BY <1>4, <2>1, <3>2
    <3>3. CASE i = 3
      BY <1>4, <2>1, <3>3
    <3>4. CASE i = 4
      BY <1>4, <2>1, <3>4
    <3> QED
      BY <2>1, <3>1, <3>2, <3>3, <3>4
  <2> QED
    BY <2>1, <2>2 DEF Covers
<1> HIDE DEF reach
<1>6. /\ Covers(first \o reach, p) /\ Len(first \o reach) = Len(first) + Len(reach)
      /\ first \o reach \in Seq(Steps)
  <2>1. 2 \in Nat /\ p \in Nat
    OBVIOUS
  <2> QED
    BY <1>3, <1>5, <2>1, CoversConcat
<1>7. Len(first) \in Nat /\ p \in Nat
  BY <1>3
<1>8. p + Len(first \o reach) = 6
  BY <1>3, <1>5, <1>6, <1>7
<1> QED
  BY <1>2, <1>6, <1>8

\* What is left once the box is held: the carry unless it is done, and the placement.
LEMMA HeldFinishes ==
  ASSUME NEW from \in Hands, NEW carry \in BOOLEAN, NEW place \in 0..MaxMove,
         plan.action \in {"pick", "place", "pick_place"}, plan.action = "pick" => carry,
         NEW p \in 5..6, p = IF carry THEN 5 ELSE 6
  PROVE  LET s == HeldSteps(from, carry, place)
         IN  Covers(s, p) /\ p + Len(s) = LastStage(plan.action) + 1 /\ s \in Seq(Steps)
<1> DEFINE start == IF carry THEN At("carry") ELSE from
           first == IF carry THEN <<Motion("carry", from, At("carry"), TRUE)>> ELSE <<>>
           rest == IF plan.action = "pick" THEN <<>> ELSE PlaceSteps(start, place)
<1>1. At("carry") \in Hands /\ start \in Hands
  BY DEF At, Hands
<1>2. HeldSteps(from, carry, place) = first \o rest
  BY DEF HeldSteps
<1> HIDE DEF start
<1>3. Covers(first, p) /\ first \in Seq(Steps) /\ p + Len(first) = 6
  <2>1. CASE carry
    <3>1. first = <<Motion("carry", from, At("carry"), TRUE)>> /\ p = 5
      BY <2>1
    <3>2. 5 \in 1..10 /\ 5 \notin {4, 7} /\ StageName(5) = "carry" /\ "carry" \in Names
      BY StageNames DEF Names
    <3> HIDE DEF first
    <3>3. Covers(first, 5) /\ Len(first) = 1 /\ first \in Seq(Steps)
      BY <1>1, <3>1, <3>2, MotionCovers
    <3>4. p = 5
      BY <3>1
    <3>5. p + Len(first) = 6
      BY <3>3, <3>4
    <3> QED
      BY <3>3, <3>4, <3>5
  <2>2. CASE ~carry
    BY <2>2, CoversNone
  <2> QED
    BY <2>1, <2>2
<1>4. Covers(rest, 6) /\ rest \in Seq(Steps) /\ 6 + Len(rest) = LastStage(plan.action) + 1
  <2>1. CASE plan.action = "pick"
    <3>1. rest = <<>> /\ LastStage(plan.action) = 5
      BY <2>1 DEF LastStage
    <3>2. Covers(<<>>, 6) /\ Len(<<>>) = 0 /\ <<>> \in Seq(Steps)
      BY CoversNone
    <3> HIDE DEF rest
    <3>3. Covers(rest, 6) /\ rest \in Seq(Steps) /\ Len(rest) = 0
      BY <3>1, <3>2
    <3> QED
      BY <3>1, <3>3
  <2>2. CASE plan.action # "pick"
    <3>1. rest = PlaceSteps(start, place) /\ LastStage(plan.action) = Returned
      BY <2>2 DEF LastStage
    <3> HIDE DEF rest
    <3> QED
      BY <1>1, <3>1, PlaceFinishes
  <2> QED
    BY <2>1, <2>2
<1> HIDE DEF first, rest
<1>5. /\ Covers(first \o rest, p) /\ Len(first \o rest) = Len(first) + Len(rest)
      /\ first \o rest \in Seq(Steps)
  <2>1. 6 \in Nat /\ p \in Nat
    OBVIOUS
  <2> QED
    BY <1>3, <1>4, <2>1, CoversConcat
<1>6. Len(first) \in Nat /\ Len(rest) \in Nat /\ p \in Nat
  BY <1>3, <1>4
<1>7. p + Len(first \o rest) = LastStage(plan.action) + 1
  BY <1>3, <1>4, <1>5, <1>6
<1> QED
  BY <1>2, <1>5, <1>7

\* A whole plan starts at its action's first stage, a pick without preparation at its second.
LEMMA CompleteFinishes ==
  ASSUME NEW action \in Actions, NEW from \in Hands, NEW prepare \in BOOLEAN,
         NEW poses \in [box : 0..MaxMove, table : 0..MaxMove], NEW p \in Nat,
         p = IF action \in PickActions THEN IF prepare THEN 1 ELSE 2 ELSE FirstStage(action)
  PROVE  Finishes(CompleteSteps(action, from, prepare, poses), action, p)
<1>1. poses.box \in 0..MaxMove /\ poses.table \in 0..MaxMove
  OBVIOUS
<1>2. At("carry") \in Hands /\ At("other_carry") \in Hands
  BY DEF At, Hands
<1>3. CASE action = "pick"
  <2> DEFINE s == PickSteps(from, prepare, poses.box)
  <2>1. CompleteSteps(action, from, prepare, poses) = s /\ FirstStage(action) = 1
        /\ LastStage(action) = 5 /\ p \in 1..2 /\ p = IF prepare THEN 1 ELSE 2
    BY <1>3 DEF PickActions, CompleteSteps, FirstStage, LastStage
  <2>2. Covers(s, p) /\ p + Len(s) = 6
    BY <1>1, <2>1, PickFinishes
  <2> HIDE DEF s
  <2> QED
    BY <2>1, <2>2 DEF Finishes
<1>4. CASE action = "place"
  <2> DEFINE s == PlaceSteps(from, poses.table)
  <2>1. CompleteSteps(action, from, prepare, poses) = s /\ FirstStage(action) = 6
        /\ LastStage(action) = Returned /\ p = 6
    BY <1>4 DEF PickActions, CompleteSteps, FirstStage, LastStage
  <2>2. Covers(s, 6) /\ 6 + Len(s) = Returned + 1
    BY <1>1, PlaceFinishes
  <2> HIDE DEF s
  <2> QED
    BY <2>1, <2>2 DEF Finishes
<1>5. CASE action = "move_carry_pose"
  <2> DEFINE s == <<Motion("carry", from, At("other_carry"), TRUE)>>
  <2>1. CompleteSteps(action, from, prepare, poses) = s /\ FirstStage(action) = 5
        /\ LastStage(action) = 5 /\ p = 5
    BY <1>5 DEF PickActions, CompleteSteps, FirstStage, LastStage
  <2>2. 5 \in 1..10 /\ 5 \notin {4, 7} /\ StageName(5) = "carry" /\ "carry" \in Names
    BY StageNames DEF Names
  <2>3. Covers(s, 5) /\ Len(s) = 1
    BY <1>2, <2>2, MotionCovers
  <2> HIDE DEF s
  <2> QED
    BY <2>1, <2>3 DEF Finishes
<1>6. CASE action = "pick_place"
  <2> DEFINE a == PickSteps(from, prepare, poses.box)
             b == PlaceSteps(At("carry"), poses.table)
  <2>1. CompleteSteps(action, from, prepare, poses) = a \o b /\ FirstStage(action) = 1
        /\ LastStage(action) = Returned /\ p \in 1..2 /\ p = IF prepare THEN 1 ELSE 2
    BY <1>6 DEF PickActions, CompleteSteps, FirstStage, LastStage
  <2>2. Covers(a, p) /\ p + Len(a) = 6 /\ a \in Seq(Steps)
    BY <1>1, <2>1, PickFinishes
  <2>3. Covers(b, 6) /\ 6 + Len(b) = Returned + 1 /\ b \in Seq(Steps)
    BY <1>1, <1>2, PlaceFinishes
  <2> HIDE DEF a, b
  <2>4. Covers(a \o b, p) /\ Len(a \o b) = Len(a) + Len(b)
    <3>1. 6 \in Nat
      OBVIOUS
    <3> QED
      BY <2>2, <2>3, <3>1, CoversConcat
  <2>5. Len(a) \in Nat /\ Len(b) \in Nat
    BY <2>2, <2>3
  <2>6. p + Len(a \o b) = Returned + 1 /\ p >= 1
    BY <2>1, <2>2, <2>3, <2>4, <2>5
  <2> QED
    BY <2>1, <2>4, <2>6 DEF Finishes
<1> QED
  BY <1>3, <1>4, <1>5, <1>6 DEF Actions
-----------------------------------------------------------------------------
(* The milestones along the route. *)
MilestoneNames == {"attach", "carry", "release", "retreat", "prepare", "ready"}
MilestoneStages == {4, 5, 7, 8, 9, 10}

LEMMA ReturnMilestones ==
  LET return == (IF HasPrepare THEN <<"retreat", "prepare">> ELSE <<"retreat">>) \o <<"ready">>
  IN  /\ return \in Seq(MilestoneNames) /\ Len(return) = Returned - 7
      /\ \A i \in 1..Len(return) : return[i] = StageName(7 + i)
<1>1. CASE HasPrepare = TRUE
  <2> DEFINE s == <<"retreat", "prepare">>
             t == <<"ready">>
             return == s \o t
  <2>1. s \in Seq(MilestoneNames) /\ Len(s) = 2 /\ s[1] = "retreat" /\ s[2] = "prepare"
        /\ t \in Seq(MilestoneNames) /\ Len(t) = 1 /\ t[1] = "ready"
    BY DEF MilestoneNames
  <2> HIDE DEF s, t
  <2>2. return \in Seq(MilestoneNames) /\ Len(return) = 3
        /\ return[1] = "retreat" /\ return[2] = "prepare" /\ return[3] = "ready"
    <3>1. /\ return \in Seq(MilestoneNames) /\ Len(return) = Len(s) + Len(t)
          /\ \A i \in 1..Len(s) + Len(t) : return[i] = IF i <= Len(s) THEN s[i] ELSE t[i - Len(s)]
      BY <2>1, ConcatProperties
    <3> HIDE DEF return
    <3>2. Len(return) = 3 /\ \A i \in 1..3 : return[i] = IF i <= 2 THEN s[i] ELSE t[i - 2]
      BY <2>1, <3>1
    <3> QED
      BY <2>1, <3>1, <3>2
  <2> HIDE DEF return
  <2>3. Returned = 10 /\ StageName(8) = "retreat" /\ StageName(9) = "prepare"
        /\ StageName(10) = "ready"
    BY <1>1 DEF Returned, StageName
  <2>4. \A i \in 1..Len(return) : return[i] = StageName(7 + i)
    <3> SUFFICES ASSUME NEW i \in 1..Len(return)
                 PROVE  return[i] = StageName(7 + i)
      OBVIOUS
    <3>1. i = 1 \/ i = 2 \/ i = 3
      BY <2>2
    <3> QED
      BY <2>2, <2>3, <3>1
  <2>5. Len(return) = Returned - 7
    BY <2>2, <2>3
  <2> QED
    BY <1>1, <2>2, <2>4, <2>5 DEF return, s, t
<1>2. CASE HasPrepare = FALSE
  <2> DEFINE s == <<"retreat">>
             t == <<"ready">>
             return == s \o t
  <2>1. s \in Seq(MilestoneNames) /\ Len(s) = 1 /\ s[1] = "retreat"
        /\ t \in Seq(MilestoneNames) /\ Len(t) = 1 /\ t[1] = "ready"
    BY DEF MilestoneNames
  <2> HIDE DEF s, t
  <2>2. return \in Seq(MilestoneNames) /\ Len(return) = 2
        /\ return[1] = "retreat" /\ return[2] = "ready"
    BY <2>1, ConcatProperties
  <2> HIDE DEF return
  <2>3. Returned = 9 /\ StageName(8) = "retreat" /\ StageName(9) = "ready"
    BY <1>2 DEF Returned, StageName
  <2>4. \A i \in 1..Len(return) : return[i] = StageName(7 + i)
    <3> SUFFICES ASSUME NEW i \in 1..Len(return)
                 PROVE  return[i] = StageName(7 + i)
      OBVIOUS
    <3>1. i = 1 \/ i = 2
      BY <2>2
    <3> QED
      BY <2>2, <2>3, <3>1
  <2>5. Len(return) = Returned - 7
    BY <2>2, <2>3
  <2> QED
    BY <1>2, <2>2, <2>4, <2>5 DEF return, s, t
<1> QED
  BY <1>1, <1>2, SavedPlansAssumption

\* How many milestones an action has before a stage, and which one the stage is.
LEMMA MilestonesAlong ==
  ASSUME NEW action \in Actions, NEW p \in Nat,
         FirstStage(action) <= p, p <= LastStage(action) + 1
  PROVE  LET M == Milestones(action)
         IN  /\ M \in Seq(MilestoneNames) /\ Passed(action, p) \in 0..Len(M)
             /\ p = LastStage(action) + 1 => Passed(action, p) = Len(M)
             /\ p <= LastStage(action) /\ p \in MilestoneStages =>
                  /\ Passed(action, p + 1) = Passed(action, p) + 1
                  /\ Passed(action, p) + 1 \in 1..Len(M)
                  /\ M[Passed(action, p) + 1] = StageName(p)
             /\ p <= LastStage(action) /\ p \notin MilestoneStages =>
                  Passed(action, p + 1) = Passed(action, p)
<1> DEFINE return == (IF HasPrepare THEN <<"retreat", "prepare">> ELSE <<"retreat">>) \o <<"ready">>
           M == Milestones(action)
           n == Passed(action, p)
           m == Passed(action, p + 1)
<1>1. /\ return \in Seq(MilestoneNames) /\ Len(return) = Returned - 7
      /\ \A i \in 1..Len(return) : return[i] = StageName(7 + i)
  BY ReturnMilestones
<1>2. Returned \in {9, 10}
  BY StageNames
<1>3. StageName(4) = "attach" /\ StageName(5) = "carry" /\ StageName(7) = "release"
  BY DEF StageName
<1>4. CASE action = "pick"
  <2>1. M = <<"attach", "carry">> /\ FirstStage(action) = 1 /\ LastStage(action) = 5
    BY <1>4 DEF Milestones, FirstStage, LastStage
  <2>2. M \in Seq(MilestoneNames) /\ Len(M) = 2 /\ M[1] = "attach" /\ M[2] = "carry"
    BY <2>1 DEF MilestoneNames
  <2>3. p \in 1..6
    BY <2>1
  <2>4. n = (IF p <= 4 THEN 0 ELSE IF p = 5 THEN 1 ELSE 2)
        /\ (p <= 5 => m = IF p <= 3 THEN 0 ELSE p - 3)
    BY <1>4, <2>3 DEF Passed
  <2> HIDE DEF M, n, m
  <2> QED
    BY <1>3, <2>1, <2>2, <2>3, <2>4 DEF MilestoneStages, M, n, m
<1>5. CASE action = "move_carry_pose"
  <2>1. M = <<"carry">> /\ FirstStage(action) = 5 /\ LastStage(action) = 5
    BY <1>5 DEF Milestones, FirstStage, LastStage
  <2>2. M \in Seq(MilestoneNames) /\ Len(M) = 1 /\ M[1] = "carry"
    BY <2>1 DEF MilestoneNames
  <2>3. p \in 5..6
    BY <2>1
  <2>4. n = p - 5 /\ (p = 5 => m = 1)
    BY <1>5, <2>3 DEF Passed
  <2> HIDE DEF M, n, m
  <2> QED
    BY <1>3, <2>1, <2>2, <2>3, <2>4 DEF MilestoneStages, M, n, m
<1>6. CASE action = "place"
  <2>1. M = <<"release">> \o return /\ FirstStage(action) = 6 /\ LastStage(action) = Returned
    BY <1>6 DEF Milestones, FirstStage, LastStage
  <2> DEFINE s == <<"release">>
  <2>2. s \in Seq(MilestoneNames) /\ Len(s) = 1 /\ s[1] = "release"
    BY DEF MilestoneNames
  <2> HIDE DEF return, s, M, n, m
  <2>3. /\ M \in Seq(MilestoneNames) /\ Len(M) = Returned - 6 /\ M[1] = "release"
        /\ \A i \in 2..Len(M) : M[i] = StageName(6 + i)
    <3>1. M = s \o return
      BY <2>1 DEF s
    <3>2. /\ M \in Seq(MilestoneNames) /\ Len(M) = 1 + Len(return)
          /\ \A i \in 1..Len(M) : M[i] = IF i <= 1 THEN s[i] ELSE return[i - 1]
      BY <1>1, <2>2, <3>1, ConcatProperties
    <3>3. Len(M) = Returned - 6
      BY <1>1, <1>2, <3>2
    <3>4. M[1] = "release"
      BY <1>2, <2>2, <3>2, <3>3
    <3>5. ASSUME NEW i \in 2..Len(M)
          PROVE  M[i] = StageName(6 + i)
      <4>1. PICK j \in 1..Len(return) : j = i - 1
        BY <1>1, <1>2, <3>2
      <4>2. M[i] = return[j] /\ 7 + j = 6 + i
        BY <1>2, <3>2, <3>3, <4>1
      <4> QED
        BY <1>1, <4>2
    <3> QED
      BY <3>2, <3>3, <3>4, <3>5
  <2>4. p \in 6..11 /\ p <= Returned + 1
    BY <1>2, <2>1
  <2>5. n = (IF p = 6 THEN 0 ELSE p - 7) /\ m = (IF p = 6 THEN 0 ELSE p - 6)
    BY <1>6, <2>4 DEF Passed, n, m
  <2>6. /\ n \in 0..Len(M) /\ (p = Returned + 1 => n = Len(M))
        /\ (p <= Returned /\ p # 6 => m = n + 1 /\ n + 1 \in 1..Len(M))
        /\ (p = 6 => m = n)
    BY <1>2, <2>3, <2>4, <2>5
  <2>7. ASSUME p <= Returned, p # 6
        PROVE  M[n + 1] = StageName(p)
    <3>1. CASE p = 7
      BY <1>3, <2>3, <2>5, <3>1
    <3>2. CASE p # 7
      <4>1. n + 1 \in 2..Len(M) /\ 6 + (n + 1) = p
        BY <1>2, <2>3, <2>4, <2>5, <2>7, <3>2
      <4> QED
        BY <2>3, <4>1
    <3> QED
      BY <3>1, <3>2
  <2>8. p \in MilestoneStages <=> p \in 7..10
    BY <2>4 DEF MilestoneStages
  <2>9. p <= Returned => p <= 10
    BY <1>2, <2>4
  <2>10. p <= Returned => (p \in MilestoneStages <=> p # 6)
    BY <2>4, <2>8, <2>9
  <2> QED
    BY <2>1, <2>3, <2>6, <2>7, <2>10 DEF M, n, m
<1>7. CASE action = "pick_place"
  <2> DEFINE s == <<"attach", "carry", "release">>
  <2>1. M = s \o return /\ FirstStage(action) = 1 /\ LastStage(action) = Returned
    BY <1>7 DEF Milestones, FirstStage, LastStage
  <2>2. s \in Seq(MilestoneNames) /\ Len(s) = 3 /\ s[1] = "attach" /\ s[2] = "carry" /\ s[3] = "release"
    BY DEF MilestoneNames
  <2> HIDE DEF return, s, M, n, m
  <2>3. /\ M \in Seq(MilestoneNames) /\ Len(M) = Returned - 4
        /\ M[1] = "attach" /\ M[2] = "carry" /\ M[3] = "release"
        /\ \A i \in 4..Len(M) : M[i] = StageName(4 + i)
    <3>1. /\ s \o return \in Seq(MilestoneNames) /\ Len(s \o return) = Len(s) + Len(return)
          /\ \A i \in 1..Len(s) + Len(return) :
               (s \o return)[i] = IF i <= Len(s) THEN s[i] ELSE return[i - Len(s)]
      BY <1>1, <2>2, ConcatProperties
    <3>2. /\ M \in Seq(MilestoneNames) /\ Len(M) = 3 + Len(return)
          /\ \A i \in 1..Len(M) : M[i] = IF i <= 3 THEN s[i] ELSE return[i - 3]
      BY <2>1, <2>2, <3>1
    <3>3. Len(M) = Returned - 4
      BY <1>1, <1>2, <3>2
    <3>4. M[1] = "attach" /\ M[2] = "carry" /\ M[3] = "release"
      BY <1>2, <2>2, <3>2, <3>3
    <3>5. ASSUME NEW i \in 4..Len(M)
          PROVE  M[i] = StageName(4 + i)
      <4>1. PICK j \in 1..Len(return) : j = i - 3
        BY <1>1, <1>2, <3>2
      <4>2. M[i] = return[j] /\ 7 + j = 4 + i
        BY <1>2, <3>2, <3>3, <4>1
      <4> QED
        BY <1>1, <4>2
    <3> QED
      BY <3>2, <3>3, <3>4, <3>5
  <2>4. p \in 1..11 /\ p <= Returned + 1
    BY <1>2, <2>1
  <2>5. /\ n = IF p <= 4 THEN 0 ELSE IF p <= 6 THEN p - 4 ELSE p - 5
        /\ m = IF p <= 3 THEN 0 ELSE IF p <= 5 THEN p - 3 ELSE p - 4
    BY <1>7, <2>4 DEF Passed, n, m
  <2>6. /\ n \in 0..Len(M) /\ (p = Returned + 1 => n = Len(M))
        /\ (p <= Returned /\ p \notin {1, 2, 3, 6} => m = n + 1 /\ n + 1 \in 1..Len(M))
        /\ (p \in {1, 2, 3, 6} => m = n)
    BY <1>2, <2>3, <2>4, <2>5
  <2>7. ASSUME p <= Returned, p \notin {1, 2, 3, 6}
        PROVE  M[n + 1] = StageName(p)
    <3>1. CASE p \in {4, 5, 7}
      BY <1>3, <2>3, <2>5, <3>1
    <3>2. CASE p \notin {4, 5, 7}
      <4>1. n + 1 \in 4..Len(M) /\ 4 + (n + 1) = p
        BY <1>2, <2>3, <2>4, <2>5, <2>7, <3>2
      <4> QED
        BY <2>3, <4>1
    <3> QED
      BY <3>1, <3>2
  <2>8. p <= Returned => (p \in MilestoneStages <=> p \notin {1, 2, 3, 6})
    BY <1>2, <2>4 DEF MilestoneStages
  <2> QED
    BY <2>1, <2>3, <2>6, <2>7, <2>8 DEF M, n, m
<1> QED
  BY <1>4, <1>5, <1>6, <1>7 DEF Actions

\* The milestone a step is lengthens what is done of them by one.
LEMMA OneMore ==
  ASSUME NEW M \in Seq(MilestoneNames), NEW n \in Nat, n + 1 \in 1..Len(M)
  PROVE  SubSeq(M, 1, n + 1) = Append(SubSeq(M, 1, n), M[n + 1])
<1>1. Len(M) \in Nat /\ 1 \in 1..Len(M)
  OBVIOUS
<1>2. PICK k \in 1..Len(M) : k = n + 1
  OBVIOUS
<1>3. SubSeq(M, 1, k) = SubSeq(M, 1, k - 1) \o <<M[k]>>
  BY <1>1, <1>2, SubSeqRecursiveSecond
<1>4. k - 1 = n
  BY <1>2
<1>5. SubSeq(M, 1, n) \in Seq(MilestoneNames) /\ M[k] \in MilestoneNames
  <2>1. \A i \in 1..n : M[i] \in MilestoneNames
    BY <1>2
  <2> QED
    BY <1>2, <2>1, SubSeqProperties
<1>6. Append(SubSeq(M, 1, n), M[k]) = SubSeq(M, 1, n) \o <<M[k]>>
  BY <1>5, AppendIsConcat
<1> QED
  BY <1>2, <1>3, <1>4, <1>6

LEMMA SomeIsPrefix ==
  ASSUME NEW M \in Seq(MilestoneNames), NEW n \in 0..Len(M)
  PROVE  IsPrefix(SubSeq(M, 1, n), M)
<1> DEFINE s == SubSeq(M, 1, n)
<1>1. \A i \in 1..n : M[i] \in MilestoneNames
  OBVIOUS
<1>2. s \in Seq(MilestoneNames) /\ Len(s) = n
  BY <1>1, SubSeqProperties
<1>3. SubSeq(s, 1, Len(s)) = s
  BY <1>2, SubSeqFull
<1> QED
  BY <1>2, <1>3 DEF IsPrefix
-----------------------------------------------------------------------------
(* The execution keeps to the route. *)

\* The step the execution is at, and those after it, are stages of the route.
LEMMA AtAStage ==
  ASSUME IInv, RouteInv, pc # "idle", index <= Len(plan.steps)
  PROVE  /\ plan.action \in Actions /\ index \in 1..Len(plan.steps) /\ Len(plan.steps) \in Nat
         /\ Stage \in Nat /\ FirstStage(plan.action) <= Stage
         /\ Stage = LastStage(plan.action) + index - Len(plan.steps)
         /\ Stage <= LastStage(plan.action)
         /\ Step.name = StageName(Stage) /\ Step.kind = StageKind(Stage)
         /\ \A i \in index..Len(plan.steps) : plan.steps[i].name = StageName(Stage + i - index)
<1>1. plan \in Plans /\ index \in 1..Len(plan.steps) /\ Len(plan.steps) \in Nat
  BY AtAStep
<1>2. plan.action \in Actions
  BY <1>1 DEF Plans
<1>3. LastStage(plan.action) \in Nat /\ FirstStage(plan.action) \in Nat
  BY StageNames DEF LastStage, FirstStage
<1>4. PICK stage \in Int : stage = Stage
  BY <1>1, <1>3 DEF Stage
<1>5. stage = LastStage(plan.action) + index - Len(plan.steps)
  BY <1>4 DEF Stage
<1>6. PICK first \in Int : first = stage - index + 1
  BY <1>1
<1>7. first >= FirstStage(plan.action) /\ Covers(plan.steps, first)
  BY <1>4, <1>6 DEF RouteInv, PlanFinishes, Finishes
<1>8. stage \in Nat /\ FirstStage(plan.action) <= stage /\ stage <= LastStage(plan.action)
  <2>1. PICK n \in Nat, l \in Nat, f \in Nat :
          n = Len(plan.steps) /\ l = LastStage(plan.action) /\ f = FirstStage(plan.action)
    BY <1>1, <1>3
  <2>2. PICK k \in 1..n : k = index
    BY <1>1, <2>1
  <2>3. stage = l + k - n /\ first = stage - k + 1 /\ first >= f
    BY <1>5, <1>6, <1>7, <2>1, <2>2
  <2>4. stage \in Nat /\ f <= stage /\ stage <= l
    BY <2>3
  <2> QED
    BY <2>1, <2>4
<1>9. first + index - 1 = stage
  BY <1>1, <1>6
<1>10. Step.name = StageName(stage) /\ Step.kind = StageKind(stage)
  BY <1>1, <1>7, <1>9 DEF Covers, Step
<1>11. ASSUME NEW i \in index..Len(plan.steps)
       PROVE  plan.steps[i].name = StageName(stage + i - index)
  <2>1. i \in 1..Len(plan.steps) /\ first + i - 1 = stage + i - index
    BY <1>1, <1>6
  <2> QED
    BY <1>7, <2>1 DEF Covers
<1> QED
  BY <1>1, <1>2, <1>4, <1>5, <1>8, <1>10, <1>11

\* What is left of a return is from the stage it is at.
LEMMA ReturnRemains ==
  ASSUME IInv, RouteInv, pc # "idle", index <= Len(plan.steps), released
  PROVE  Finishes(ReturnSteps(hands, Step.name = "retreat",
                    \E i \in index..Len(plan.steps) : plan.steps[i].name = "prepare"),
                  plan.action, Stage)
<1> DEFINE retreat == Step.name = "retreat"
           prepare == \E i \in index..Len(plan.steps) : plan.steps[i].name = "prepare"
<1>1. /\ plan.action \in Actions /\ index \in 1..Len(plan.steps) /\ Len(plan.steps) \in Nat
      /\ Stage \in Nat /\ FirstStage(plan.action) <= Stage
      /\ Stage = LastStage(plan.action) + index - Len(plan.steps)
      /\ Stage <= LastStage(plan.action)
      /\ Step.name = StageName(Stage)
      /\ \A i \in index..Len(plan.steps) : plan.steps[i].name = StageName(Stage + i - index)
  BY AtAStage
<1>2. PICK p \in Nat : p = Stage
  BY <1>1
<1>3. p >= 8
  BY <1>2 DEF RouteInv, StageTellsWorld
<1>4. Returned \in {9, 10}
  BY StageNames
<1>5. LastStage(plan.action) = Returned /\ p \in 8..Returned
  BY <1>1, <1>2, <1>3, <1>4 DEF LastStage
<1>6. retreat <=> p = 8
  <2>1. p = 8 \/ p = 9 \/ p = 10
    BY <1>4, <1>5
  <2>2. StageName(8) = "retreat" /\ StageName(9) # "retreat" /\ StageName(10) # "retreat"
    BY DEF StageName
  <2> QED
    BY <1>1, <1>2, <2>1, <2>2
<1>7. ASSUME prepare
      PROVE  HasPrepare /\ p <= 9
  <2>1. PICK i \in index..Len(plan.steps) : plan.steps[i].name = "prepare"
    BY <1>7
  <2>2. StageName(p + i - index) = "prepare"
    BY <1>1, <1>2, <2>1
  <2>3. PICK q \in Nat : q = p + i - index
    BY <1>1, <1>2
  <2>4. q >= p /\ q >= 8
    BY <1>1, <1>3, <2>3
  <2>5. q = 9 /\ HasPrepare
    BY <2>2, <2>3, <2>4 DEF StageName
  <2> QED
    BY <2>4, <2>5
<1>8. ASSUME HasPrepare, p <= 9
      PROVE  prepare
  <2>1. Returned = 10
    BY <1>8 DEF Returned
  <2>2. PICK n \in Nat : n = Len(plan.steps)
    BY <1>1
  <2>3. PICK k \in 1..n : k = index
    BY <1>1, <2>2
  <2>4. p = 10 + k - n
    BY <1>1, <1>2, <1>5, <2>1, <2>2, <2>3
  <2>5. PICK i \in Int : i = k + 9 - p
    OBVIOUS
  <2>6. i \in k..n /\ p + i - k = 9
    BY <1>8, <2>4, <2>5
  <2>7. i \in index..Len(plan.steps) /\ p + i - index = 9
    BY <2>2, <2>3, <2>6
  <2>8. plan.steps[i].name = StageName(9)
    BY <1>1, <1>2, <2>7
  <2> QED
    BY <1>8, <2>7, <2>8, StageNames
<1> HIDE DEF retreat, prepare
<1>9. prepare <=> HasPrepare /\ p <= 9
  BY <1>7, <1>8
<1>10. retreat \in BOOLEAN /\ prepare \in BOOLEAN /\ hands \in Hands
  BY DEF retreat, prepare, IInv, TypeOK
<1>11. /\ Covers(ReturnSteps(hands, retreat, prepare), p)
       /\ p + Len(ReturnSteps(hands, retreat, prepare)) = Returned + 1
  BY <1>5, <1>6, <1>9, <1>10, ReturnFinishes
<1>12. p >= FirstStage(plan.action)
  BY <1>1, <1>2
<1> QED
  BY <1>2, <1>5, <1>11, <1>12 DEF Finishes, retreat, prepare

\* A pick is planned anew from its attachment, its approach, or its second stage.
LEMMA PickRemains ==
  ASSUME IInv, plan.action \in PickActions, NEW pick \in 0..MaxMove, NEW place \in 0..MaxMove
  PROVE  LET held == HeldSteps(Contact(pick), TRUE, place)
             attach == <<Attach(Contact(pick))>>
             approach == <<Motion("approach", hands, Contact(pick), FALSE)>>
         IN  /\ Finishes(attach \o held, plan.action, 4)
             /\ Finishes(approach \o (attach \o held), plan.action, 3)
             /\ approach \o attach \o held = approach \o (attach \o held)
             /\ Finishes(CompleteSteps(plan.action, hands, FALSE, [box |-> pick, table |-> place]),
                         plan.action, 2)
<1> DEFINE held == HeldSteps(Contact(pick), TRUE, place)
           attach == <<Attach(Contact(pick))>>
           approach == <<Motion("approach", hands, Contact(pick), FALSE)>>
           last == LastStage(plan.action)
<1>1. Contact(pick) \in Hands /\ hands \in Hands
  BY DEF Contact, Hands, IInv, TypeOK
<1>2. FirstStage(plan.action) = 1 /\ plan.action \in Actions
      /\ plan.action \in {"pick", "place", "pick_place"}
  BY DEF PickActions, Actions, FirstStage
<1>3. last \in Nat
  BY StageNames DEF LastStage
<1>4. Covers(held, 5) /\ 5 + Len(held) = last + 1 /\ held \in Seq(Steps)
  <2>1. TRUE \in BOOLEAN /\ 5 \in 5..6 /\ 5 = IF TRUE THEN 5 ELSE 6
    OBVIOUS
  <2> QED
    BY <1>1, <1>2, <2>1, HeldFinishes
<1>5. Covers(attach, 4) /\ Len(attach) = 1 /\ attach \in Seq(Steps)
  BY <1>1, AttachCovers
<1>6. Covers(approach, 3) /\ Len(approach) = 1 /\ approach \in Seq(Steps)
  <2>1. 3 \in 1..10 /\ 3 \notin {4, 7} /\ StageName(3) = "approach" /\ "approach" \in Names
    BY StageNames DEF Names
  <2> QED
    BY <1>1, <2>1, MotionCovers
<1> HIDE DEF held, attach, approach, last
<1>7. /\ Covers(attach \o held, 4) /\ Len(attach \o held) = 1 + Len(held)
      /\ attach \o held \in Seq(Steps)
  <2>1. 5 = 4 + Len(attach) /\ 4 \in Nat /\ 5 \in Nat
    BY <1>5
  <2>2. Covers(attach \o held, 4) /\ Len(attach \o held) = Len(attach) + Len(held)
        /\ attach \o held \in Seq(Steps)
    BY <1>4, <1>5, <2>1, CoversConcat
  <2> QED
    BY <1>5, <2>2
<1>8. /\ Covers(approach \o (attach \o held), 3)
      /\ Len(approach \o (attach \o held)) = 1 + Len(attach \o held)
  <2>1. 4 = 3 + Len(approach) /\ 3 \in Nat /\ 4 \in Nat
    BY <1>6
  <2>2. Covers(approach \o (attach \o held), 3)
        /\ Len(approach \o (attach \o held)) = Len(approach) + Len(attach \o held)
    BY <1>6, <1>7, <2>1, CoversConcat
  <2> QED
    BY <1>6, <2>2
<1>9. Len(held) \in Nat /\ Len(attach \o held) \in Nat
  BY <1>4, <1>7
<1>10. 4 + Len(attach \o held) = last + 1 /\ 3 + Len(approach \o (attach \o held)) = last + 1
  BY <1>3, <1>4, <1>7, <1>8, <1>9
<1>11. Finishes(attach \o held, plan.action, 4) /\ Finishes(approach \o (attach \o held), plan.action, 3)
  BY <1>2, <1>7, <1>8, <1>10 DEF Finishes, last
<1>12. approach \o attach \o held = approach \o (attach \o held)
  <2>1. approach \in Seq(Steps) /\ attach \in Seq(Steps) /\ held \in Seq(Steps)
    BY <1>4, <1>5, <1>6
  <2> QED
    BY <2>1, ConcatAssociative
<1>13. Finishes(CompleteSteps(plan.action, hands, FALSE, [box |-> pick, table |-> place]),
                plan.action, 2)
  <2>1. [box |-> pick, table |-> place] \in [box : 0..MaxMove, table : 0..MaxMove]
    OBVIOUS
  <2>2. 2 = IF plan.action \in PickActions THEN IF FALSE THEN 1 ELSE 2 ELSE FirstStage(plan.action)
    OBVIOUS
  <2>3. 2 \in Nat /\ FALSE \in BOOLEAN
    OBVIOUS
  <2> QED
    BY <1>1, <1>2, <2>1, <2>2, <2>3, CompleteFinishes
<1> QED
  BY <1>11, <1>12, <1>13 DEF held, attach, approach

\* The remainder is the rest of the route from a stage with the same milestones done.
LEMMA RemainderFinishes ==
  ASSUME IInv, RouteInv, pc = "replan", NEW poses \in [box : 0..MaxMove, table : 0..MaxMove],
         NEW remainder \in Remainders(poses)
  PROVE  \E p \in Nat : /\ Finishes(remainder.steps, plan.action, p)
                        /\ attached <=> p \in 5..7
                        /\ released <=> p >= 8
                        /\ Passed(plan.action, p) = Passed(plan.action, Stage)
<1>1. index <= Len(plan.steps)
  BY DEF IInv, TypeOK
<1>2. /\ plan.action \in Actions /\ Stage \in Nat /\ FirstStage(plan.action) <= Stage
      /\ Stage <= LastStage(plan.action)
      /\ Step.name = StageName(Stage)
  BY <1>1, AtAStage
<1>3. PICK stage \in Nat : stage = Stage
  BY <1>2
<1>4. (attached <=> stage \in 5..7) /\ (released <=> stage >= 8)
  BY <1>3 DEF RouteInv, StageTellsWorld
<1>5. /\ attached \in BOOLEAN /\ released \in BOOLEAN /\ hands \in Hands
      /\ \A place \in PlaceTargets(poses) : place \in 0..MaxMove
  <2>1. plan \in Plans
    BY <1>1, AtAStep
  <2> QED
    BY <2>1 DEF IInv, TypeOK, Plans, PlaceTargets
<1>6. plan.action # "move_carry_pose"
  BY DEF IInv, ReplanIsDue, RouteInv, CarryNeverReplanned, CarryOnly
<1>7. CASE released
  <2> DEFINE steps == ReturnSteps(hands, Step.name = "retreat",
                        \E i \in index..Len(plan.steps) : plan.steps[i].name = "prepare")
  <2>1. remainder = [place |-> plan.place, steps |-> steps]
    BY <1>7 DEF Remainders, RemainingReturn
  <2>2. Finishes(steps, plan.action, stage)
    BY <1>1, <1>3, <1>7, ReturnRemains
  <2> HIDE DEF steps
  <2>3. Finishes(remainder.steps, plan.action, stage)
    BY <2>1, <2>2
  <2> QED
    BY <1>3, <1>4, <2>3
<1>8. CASE ~released /\ state = "EMPTY"
  <2>1. attached = FALSE /\ plan.action \in PickActions
    BY <1>5, <1>8 DEF IInv, StateIsTrue, AttachAhead
  <2>2. stage \in 0..4
    BY <1>4, <1>8, <2>1
  <2> DEFINE pick == poses.box
             held(place) == HeldSteps(Contact(pick), TRUE, place)
             attach == <<Attach(Contact(pick))>>
             approach == <<Motion("approach", hands, Contact(pick), FALSE)>>
             whole(place) == CompleteSteps(plan.action, hands, FALSE, [box |-> pick, table |-> place])
  <2>3. PICK place \in 0..MaxMove :
          \/ remainder = [place |-> place, steps |-> attach \o held(place)]
          \/ remainder = [place |-> place, steps |-> approach \o attach \o held(place)]
          \/ remainder = [place |-> place, steps |-> whole(place)]
    BY <1>5, <1>8, RemainingPickShapes DEF Remainders
  <2>4. pick \in 0..MaxMove
    OBVIOUS
  <2>5. /\ Finishes(attach \o held(place), plan.action, 4)
        /\ Finishes(approach \o (attach \o held(place)), plan.action, 3)
        /\ approach \o attach \o held(place) = approach \o (attach \o held(place))
        /\ Finishes(whole(place), plan.action, 2)
    BY <2>1, <2>4, PickRemains
  <2> HIDE DEF pick, held, attach, approach, whole
  <2>6. \E p \in 2..4 : Finishes(remainder.steps, plan.action, p)
    <3>1. CASE remainder = [place |-> place, steps |-> attach \o held(place)]
      BY <2>5, <3>1
    <3>2. CASE remainder = [place |-> place, steps |-> approach \o attach \o held(place)]
      BY <2>5, <3>2
    <3>3. CASE remainder = [place |-> place, steps |-> whole(place)]
      BY <2>5, <3>3
    <3> QED
      BY <2>3, <3>1, <3>2, <3>3
  <2>7. PICK p \in 2..4 : Finishes(remainder.steps, plan.action, p)
    BY <2>6
  <2>8. Passed(plan.action, p) = 0 /\ Passed(plan.action, stage) = 0
    BY <2>1, <2>2 DEF Passed, PickActions
  <2>9. p \in Nat /\ p \notin 5..7 /\ ~(p >= 8)
    OBVIOUS
  <2> QED
    BY <1>3, <1>8, <2>1, <2>7, <2>8, <2>9
<1>9. CASE ~released /\ state # "EMPTY"
  <2>1. attached = TRUE
    BY <1>5, <1>9 DEF IInv, StateIsTrue
  <2>2. stage \in 5..7
    BY <1>4, <2>1
  <2> DEFINE carry == Step.name = "carry"
             p == IF carry THEN 5 ELSE 6
  <2>3. PICK place \in 0..MaxMove : remainder.steps = HeldSteps(hands, carry, place)
    BY <1>5, <1>9 DEF Remainders
  <2>4. carry <=> stage = 5
    <3>1. StageName(5) = "carry" /\ StageName(6) # "carry" /\ StageName(7) # "carry"
      BY DEF StageName
    <3>2. stage = 5 \/ stage = 6 \/ stage = 7
      BY <2>2
    <3> QED
      BY <1>2, <1>3, <3>1, <3>2
  <2>5. plan.action = "pick" => carry
    <3>1. plan.action = "pick" => stage <= 5
      BY <1>2, <1>3 DEF LastStage
    <3> QED
      BY <2>2, <2>4, <3>1
  <2>6. p >= FirstStage(plan.action)
    <3>1. plan.action = "place" => stage >= 6
      BY <1>2, <1>3 DEF FirstStage
    <3> QED
      BY <1>6, <2>2, <2>4, <3>1 DEF FirstStage
  <2>7. Passed(plan.action, p) = Passed(plan.action, stage)
    <3>1. stage = 5 \/ stage = 6 \/ stage = 7
      BY <2>2
    <3>2. p = IF stage = 5 THEN 5 ELSE 6
      BY <2>4
    <3> HIDE DEF p
    <3> QED
      BY <3>1, <3>2 DEF Passed
  <2>8. plan.action \in {"pick", "place", "pick_place"}
    BY <1>2, <1>6 DEF Actions
  <2>9. carry \in BOOLEAN /\ p \in 5..6
    OBVIOUS
  <2>10. p \in Nat /\ p \in 5..7 /\ ~(p >= 8)
    BY <2>9
  <2>11. p = IF carry THEN 5 ELSE 6
    OBVIOUS
  <2> HIDE DEF carry, p
  <2>12. Finishes(remainder.steps, plan.action, p)
    <3>1. /\ Covers(HeldSteps(hands, carry, place), p)
          /\ p + Len(HeldSteps(hands, carry, place)) = LastStage(plan.action) + 1
      BY <1>5, <2>5, <2>8, <2>9, <2>11, HeldFinishes
    <3> QED
      BY <2>3, <2>6, <3>1 DEF Finishes
  <2> QED
    BY <1>3, <1>9, <2>1, <2>7, <2>10, <2>12
<1> QED
  BY <1>7, <1>8, <1>9

LEMMA InitRoute == Init => RouteInv
<1> SUFFICES ASSUME Init
             PROVE  RouteInv
  OBVIOUS
<1>1. \A a \in Actions : plans[a].id = 0
  BY DEF Init, NoPlans, NoPlan
<1>2. StoreFinishes
  BY <1>1 DEF StoreFinishes
<1>3. PlanFinishes /\ StageTellsWorld /\ StageTellsLog /\ DoneAtEnd /\ CarryNeverReplanned
  BY DEF Init, PlanFinishes, StageTellsWorld, StageTellsLog, DoneAtEnd, CarryNeverReplanned
<1> QED
  BY <1>2, <1>3 DEF RouteInv

LEMMA NoPlansFinish ==
  ASSUME plans' = NoPlans
  PROVE  StoreFinishes'
<1>1. \A a \in Actions : plans'[a].id = 0
  BY DEF NoPlans, NoPlan
<1> QED
  BY <1>1 DEF StoreFinishes

\* No execution: what is stored is all there is to say.
LEMMA IdleRoute ==
  ASSUME IInv', StoreFinishes', pc' = "idle", log' = <<>>
  PROVE  RouteInv'
<1>1. PlanFinishes' /\ StageTellsWorld' /\ StageTellsLog' /\ DoneAtEnd'
  BY DEF PlanFinishes, StageTellsWorld, StageTellsLog, DoneAtEnd
<1>2. CarryNeverReplanned'
  BY DEF IInv, IdleIsClear, CarryNeverReplanned
<1> QED
  BY <1>1, <1>2 DEF RouteInv

\* The execution is where it was, in the world it was in.
LEMMA SameStage ==
  ASSUME RouteInv, UNCHANGED <<plans, plan, index, attached, released, log>>,
         pc' = "idle" <=> pc = "idle", DoneAtEnd', CarryNeverReplanned'
  PROVE  RouteInv'
<1>1. Stage' = Stage
  BY DEF Stage
<1>2. StoreFinishes' /\ PlanFinishes' /\ StageTellsWorld' /\ StageTellsLog'
  BY <1>1 DEF RouteInv, StoreFinishes, PlanFinishes, StageTellsWorld, StageTellsLog
<1> QED
  BY <1>2 DEF RouteInv

LEMMA WaitingRoute ==
  ASSUME IInv, RouteInv,
         \/ World \/ Loop \/ AcquireScene \/ RebuildFails
         \/ StepDeferred \/ StepChecked \/ StepFails \/ Continue \/ Complete \/ UNCHANGED vars
  PROVE  RouteInv'
<1>1. /\ UNCHANGED <<plans, plan, index, attached, released, log>>
      /\ pc' = "idle" <=> pc = "idle"
  BY DEF World, MoveBox, MoveTable, Drift, Loop, AcquireScene, RebuildFails, StepDeferred,
         StepChecked, StepFails, Continue, Complete, vars, world_vars, store_vars, run_vars,
         scene_vars
<1>2. DoneAtEnd'
  BY <1>1 DEF RouteInv, DoneAtEnd, World, MoveBox, MoveTable, Drift, Loop, AcquireScene,
              RebuildFails, StepDeferred, StepChecked, StepFails, Continue, Complete, vars,
              world_vars, store_vars, run_vars, scene_vars
<1>3. CarryNeverReplanned'
  <2>1. CASE CarryOnly
    <3>1. ~targetMoved /\ ~sceneMoved /\ ~SceneIsNew /\ ~BeforeAttachment
      BY <2>1 DEF RouteInv, CarryNeverReplanned, SceneIsNew, BeforeAttachment, CarryOnly, PickActions
    <3>2. TargetPoses = {seen}
      BY <3>1 DEF TargetPoses
    <3>3. targetMoved \in BOOLEAN /\ sceneMoved \in BOOLEAN
      BY DEF IInv, TypeOK
    <3>4. ~StepDeferred
      BY <3>1, <3>2 DEF StepDeferred
    <3>5. CASE Loop
      BY <3>1, <3>2, <3>5 DEF Loop, CarryNeverReplanned
    <3>6. CASE ~Loop
      <4>1. targetMoved' = targetMoved /\ sceneMoved' = sceneMoved
        BY <3>4, <3>6
           DEF World, MoveBox, MoveTable, Drift, AcquireScene, RebuildFails, StepChecked,
               StepFails, Continue, Complete, vars, run_vars
      <4> QED
        BY <3>1, <4>1 DEF CarryNeverReplanned
    <3> QED
      BY <3>5, <3>6
  <2>2. CASE ~CarryOnly
    BY <1>1, <2>2 DEF CarryOnly, CarryNeverReplanned
  <2> QED
    BY <2>1, <2>2
<1> QED
  BY <1>1, <1>2, <1>3, SameStage

LEMMA IdleRequestRoute ==
  ASSUME IInv, IInv', RouteInv,
         \/ NormalGoal \/ RecoverState \/ Reset
         \/ LoopFails \/ StepCanceled \/ DispatchFails \/ Return
  PROVE  RouteInv'
<1>1. pc' = "idle" /\ log' = <<>>
  BY DEF RouteInv, StageTellsLog, NormalGoal, RecoverState, Reset, LoopFails, StepCanceled,
         DispatchFails, Return, Leave, run_vars
<1>2. plans' = NoPlans \/ plans' = plans
  BY DEF NormalGoal, RecoverState, Reset, LoopFails, StepCanceled, DispatchFails, Return, store_vars
<1>3. StoreFinishes'
  BY <1>2, NoPlansFinish DEF RouteInv, StoreFinishes
<1> QED
  BY <1>1, <1>3, IdleRoute

LEMMA PlanOnlyRoute ==
  ASSUME IInv, IInv', RouteInv, NEW action \in Actions, PlanOnly(action)
  PROVE  RouteInv'
<1>1. pc' = "idle" /\ log' = <<>>
  BY DEF PlanOnly, RouteInv, StageTellsLog, run_vars
<1>2. CASE UNCHANGED plans
  BY <1>1, <1>2, IdleRoute DEF RouteInv, StoreFinishes
<1>3. CASE plans' = [plans EXCEPT ![action] = NewPlan(action, Poses)]
  <2> DEFINE new == NewPlan(action, Poses)
             steps == CompleteSteps(action, hands, HasPrepare, Poses)
             first == IF action \in PickActions THEN IF HasPrepare THEN 1 ELSE 2
                      ELSE FirstStage(action)
  <2>1. Poses \in [box : 0..MaxMove, table : 0..MaxMove] /\ hands \in Hands
    BY DEF IInv, TypeOK, Poses
  <2>2. first \in Nat /\ first \in FirstStage(action)..(IF action \in PickActions THEN 4 ELSE FirstStage(action))
    BY DEF FirstStage, PickActions, Actions
  <2>3. first = IF action \in PickActions THEN IF HasPrepare THEN 1 ELSE 2 ELSE FirstStage(action)
    OBVIOUS
  <2> HIDE DEF first
  <2>4. Finishes(steps, action, first)
    BY <2>1, <2>2, <2>3, CompleteFinishes, SavedPlansAssumption
  <2>5. new.steps = steps
    BY DEF NewPlan
  <2> HIDE DEF new, steps
  <2>6. \A a \in Actions : plans'[a] = IF a = action THEN new ELSE plans[a]
    BY <1>3 DEF IInv, TypeOK, new
  <2>7. ASSUME NEW a \in Actions, plans'[a].id > 0
        PROVE  \E p \in FirstStage(a)..(IF a \in PickActions THEN 4 ELSE FirstStage(a)) :
                 Finishes(plans'[a].steps, a, p)
    <3>1. CASE a = action
      <4>1. plans'[a].steps = steps
        BY <2>5, <2>6, <3>1
      <4> QED
        BY <2>2, <2>4, <3>1, <4>1
    <3>2. CASE a # action
      <4>1. plans'[a] = plans[a]
        BY <2>6, <3>2
      <4> QED
        BY <2>7, <4>1 DEF RouteInv, StoreFinishes
    <3> QED
      BY <3>1, <3>2
  <2>8. StoreFinishes'
    BY <2>7 DEF StoreFinishes
  <2> QED
    BY <1>1, <2>8, IdleRoute
<1> QED
  BY <1>2, <1>3 DEF PlanOnly

LEMMA ClaimRoute ==
  ASSUME IInv, IInv', RouteInv, NEW action \in Actions, Claim(action)
  PROVE  RouteInv'
<1>1. /\ pc = "idle" /\ plans[action].id > 0 /\ plans' = NoPlans
      /\ UNCHANGED <<attached, released, log, targetMoved, sceneMoved>>
  BY DEF Claim, Found, world_vars
<1>2. StoreFinishes' /\ log = <<>>
  BY <1>1, NoPlansFinish DEF RouteInv, StageTellsLog
<1>3. CASE Reject(action)
  BY <1>1, <1>2, <1>3, IdleRoute DEF Reject
<1>4. CASE state = ActionState(action) /\ Begin(action)
  <2> DEFINE new == plans[action]
  <2>1. /\ new \in Plans /\ new.action = action /\ new.steps \in Seq(Steps)
        /\ (attached <=> action \notin PickActions) /\ released = FALSE
        /\ ~targetMoved /\ ~sceneMoved
    <3>1. new \in Plans /\ new.action = action /\ new.steps \in Seq(Steps)
      <4>1. new \in Plans
        BY <1>1 DEF IInv, TypeOK, NoPlan
      <4>2. new.action = action
        BY <1>1 DEF IInv, StoreFits, StoredPlanFits
      <4> QED
        BY <4>1, <4>2 DEF Plans
    <3>2. attached <=> action \notin PickActions
      BY <1>4 DEF IInv, StateIsTrue, ActionState
    <3>3. released = FALSE /\ ~targetMoved /\ ~sceneMoved
      BY <1>1 DEF IInv, TypeOK, IdleIsClear
    <3> QED
      BY <3>1, <3>2, <3>3
  <2>2. PICK first \in FirstStage(action)..(IF action \in PickActions THEN 4 ELSE FirstStage(action)) :
          Finishes(new.steps, action, first)
    BY <1>1 DEF RouteInv, StoreFinishes
  <2>3. pc' = "loop" /\ plan' = new /\ index' = 1
    BY <1>4 DEF Begin
  <2> HIDE DEF new
  <2>4. /\ first \in Nat /\ first + Len(new.steps) = LastStage(action) + 1
        /\ LastStage(action) \in Nat /\ Len(new.steps) \in Nat
        /\ FirstStage(action) <= first /\ first <= LastStage(action) + 1
    <3>1. LastStage(action) \in Nat /\ FirstStage(action) \in Nat
      BY StageNames DEF LastStage, FirstStage
    <3>2. Len(new.steps) \in Nat /\ first + Len(new.steps) = LastStage(action) + 1
      BY <2>1, <2>2 DEF Finishes
    <3>3. first \in Nat /\ FirstStage(action) <= first
      BY <2>2, <3>1 DEF FirstStage
    <3>4. PICK n \in Nat, l \in Nat : n = Len(new.steps) /\ l = LastStage(action)
      BY <3>1, <3>2
    <3>5. first <= l + 1
      BY <3>2, <3>3, <3>4
    <3> QED
      BY <3>1, <3>2, <3>3, <3>4, <3>5
  <2>5. Stage' = first
    <3>1. Stage' = LastStage(action) + 1 - Len(new.steps)
      BY <2>1, <2>3 DEF Stage
    <3> QED
      BY <2>4, <3>1
  <2>6. PlanFinishes'
    <3>1. Stage' - index' + 1 = first
      BY <2>3, <2>4, <2>5
    <3> QED
      BY <2>1, <2>2, <2>3, <3>1 DEF PlanFinishes
  <2>7. (first \in 5..7 <=> action \notin PickActions) /\ ~(first >= 8)
    <3>1. CASE action \in PickActions
      BY <2>2, <2>4, <3>1
    <3>2. CASE action \notin PickActions
      <4>1. first = FirstStage(action) /\ action \in {"place", "move_carry_pose"}
        BY <2>2, <2>4, <3>2 DEF FirstStage, PickActions, Actions
      <4> QED
        BY <3>2, <4>1 DEF FirstStage
    <3> QED
      BY <3>1, <3>2
  <2>8. StageTellsWorld'
    BY <1>1, <2>1, <2>5, <2>7 DEF StageTellsWorld
  <2>9. Passed(action, first) = 0
    <3>1. CASE action \in PickActions
      BY <2>2, <2>4, <3>1 DEF Passed, PickActions
    <3>2. CASE action \notin PickActions
      <4>1. first = FirstStage(action) /\ action \in {"place", "move_carry_pose"}
        BY <2>2, <2>4, <3>2 DEF FirstStage, PickActions, Actions
      <4> QED
        BY <4>1 DEF FirstStage, Passed
    <3> QED
      BY <3>1, <3>2
  <2>10. StageTellsLog'
    <3>1. SubSeq(Milestones(action), 1, 0) = <<>>
      BY SubSeqEmpty
    <3>2. log' = <<>>
      BY <1>1, <1>2
    <3> QED
      BY <2>1, <2>3, <2>5, <2>9, <3>1, <3>2 DEF StageTellsLog
  <2>11. DoneAtEnd' /\ CarryNeverReplanned'
    BY <1>1, <2>1, <2>3 DEF DoneAtEnd, CarryNeverReplanned
  <2> QED
    BY <1>2, <2>6, <2>8, <2>10, <2>11 DEF RouteInv
<1> QED
  BY <1>3, <1>4 DEF Claim

\* Whatever stage the remainder is entered at, no milestone is done again or left out.
LEMMA RebuildRoute ==
  ASSUME IInv, IInv', RouteInv, Rebuild
  PROVE  RouteInv'
<1>1. /\ pc = "replan" /\ pc' = "step" /\ index' = 1
      /\ targetMoved' = FALSE /\ sceneMoved' = FALSE
      /\ UNCHANGED <<plans, attached, released, log>>
  BY DEF Rebuild, Adopt, world_vars, store_vars
<1>2. PICK poses \in TargetPoses :
        \E remainder \in Remainders(poses) : seen' = poses /\ Adopt(remainder, poses)
  BY DEF Rebuild
<1>3. PICK remainder \in Remainders(poses) : seen' = poses /\ Adopt(remainder, poses)
  BY <1>2
<1>4. poses \in [box : 0..MaxMove, table : 0..MaxMove]
  BY TargetPosesTyped
<1>5. plan \in Plans
  BY <1>1 DEF IInv, TypeOK, IdleIsClear, NoPlan
<1>6. plan'.action = plan.action /\ plan'.steps = remainder.steps
  <2>1. plan' = [plan EXCEPT !.pick = IF BeforeAttachment THEN poses.box ELSE plan.pick,
                             !.place = remainder.place, !.steps = remainder.steps,
                             !.scene = revision]
    BY <1>3 DEF Adopt
  <2> HIDE DEF BeforeAttachment
  <2> QED
    BY <1>5, <2>1 DEF Plans
<1>7. PICK p \in Nat : /\ Finishes(remainder.steps, plan.action, p)
                       /\ attached <=> p \in 5..7
                       /\ released <=> p >= 8
                       /\ Passed(plan.action, p) = Passed(plan.action, Stage)
  BY <1>1, <1>4, RemainderFinishes
<1>8. Stage' = p
  <2>1. Stage' = LastStage(plan.action) + 1 - Len(remainder.steps)
    BY <1>1, <1>6 DEF Stage
  <2>2. p + Len(remainder.steps) = LastStage(plan.action) + 1
    BY <1>7 DEF Finishes
  <2>3. remainder.steps \in Seq(Steps)
    BY <1>1, <1>4, RemainderFits
  <2>4. Len(remainder.steps) \in Nat /\ LastStage(plan.action) \in Nat
    BY <2>3, StageNames DEF LastStage
  <2> QED
    BY <2>1, <2>2, <2>4
<1>9. PlanFinishes'
  <2>1. Stage' - index' + 1 = p
    BY <1>1, <1>8
  <2> QED
    BY <1>6, <1>7, <2>1 DEF PlanFinishes
<1>10. StageTellsWorld'
  BY <1>1, <1>7, <1>8 DEF StageTellsWorld
<1>11. StageTellsLog'
  <2>1. log = SubSeq(Milestones(plan.action), 1, Passed(plan.action, Stage))
    BY <1>1 DEF RouteInv, StageTellsLog
  <2> QED
    BY <1>1, <1>6, <1>7, <1>8, <2>1 DEF StageTellsLog
<1>12. StoreFinishes' /\ DoneAtEnd' /\ CarryNeverReplanned'
  BY <1>1 DEF RouteInv, StoreFinishes, DoneAtEnd, CarryNeverReplanned
<1> QED
  BY <1>9, <1>10, <1>11, <1>12 DEF RouteInv

\* A step that is done takes the execution to the next stage.
LEMMA AdvanceRoute ==
  ASSUME IInv, IInv', RouteInv, ExecuteMotion \/ AttachBox \/ DetachBox
  PROVE  RouteInv'
<1>1. /\ pc = "dispatch" /\ pc' = "loop" /\ index' = index + 1
      /\ UNCHANGED <<plans, plan, targetMoved, sceneMoved>>
      /\ log' = IF Logged(Step.name) THEN Append(log, Step.name) ELSE log
  BY DEF ExecuteMotion, AttachBox, DetachBox, StepDone, store_vars
<1>2. index <= Len(plan.steps)
  BY <1>1 DEF IInv, TypeOK
<1>3. /\ plan.action \in Actions /\ index \in 1..Len(plan.steps) /\ Len(plan.steps) \in Nat
      /\ Stage \in Nat /\ FirstStage(plan.action) <= Stage
      /\ Stage <= LastStage(plan.action)
      /\ Step.name = StageName(Stage) /\ Step.kind = StageKind(Stage)
  BY <1>1, <1>2, AtAStage
<1>4. PICK p \in Nat : p = Stage
  BY <1>3
<1>5. LastStage(plan.action) \in Nat /\ FirstStage(plan.action) \in Nat
      /\ LastStage(plan.action) <= 10 /\ 1 <= FirstStage(plan.action)
  BY StageNames DEF LastStage, FirstStage
<1>6. p \in 1..10
  BY <1>3, <1>4, <1>5
<1>7. Stage' = p + 1
  <2>1. PICK n \in Nat, l \in Nat, k \in Nat :
          n = Len(plan.steps) /\ l = LastStage(plan.action) /\ k = index
    BY <1>3, <1>5
  <2>2. p = l + k - n /\ Stage' = l + (k + 1) - n
    BY <1>1, <1>4, <2>1 DEF Stage
  <2> QED
    BY <2>2
<1>8. (attached <=> p \in 5..7) /\ (released <=> p >= 8)
  BY <1>1, <1>4 DEF RouteInv, StageTellsWorld
<1>9. (attached' <=> p + 1 \in 5..7) /\ (released' <=> p + 1 >= 8)
  <2>1. CASE ExecuteMotion
    <3>1. p # 4 /\ p # 7 /\ attached' = attached /\ released' = released
      BY <1>3, <1>4, <2>1 DEF ExecuteMotion, StageKind
    <3>2. (p + 1 \in 5..7 <=> p \in 5..7) /\ (p + 1 >= 8 <=> p >= 8)
      BY <1>6, <3>1
    <3> QED
      BY <1>8, <3>1, <3>2
  <2>2. CASE AttachBox
    <3>1. attached' = TRUE /\ released' = released /\ Step.kind = "ATTACH"
      BY <2>2 DEF AttachBox
    <3>2. p = 4
      BY <1>3, <1>4, <3>1 DEF StageKind
    <3> QED
      BY <1>8, <3>1, <3>2
  <2>3. CASE DetachBox
    <3>1. attached' = FALSE /\ released' = TRUE /\ Step.kind = "RELEASE"
      BY <2>3 DEF DetachBox
    <3>2. p = 7
      BY <1>3, <1>4, <3>1 DEF StageKind
    <3> QED
      BY <3>1, <3>2
  <2> QED
    BY <2>1, <2>2, <2>3
<1>10. Logged(Step.name) <=> p \in MilestoneStages
  <2>1. \/ p = 1 \/ p = 2 \/ p = 3 \/ p = 4 \/ p = 5 \/ p = 6 \/ p = 7 \/ p = 8 \/ p = 9 \/ p = 10
    BY <1>6
  <2>2. /\ StageName(1) = "prepare" /\ StageName(2) = "pregrasp" /\ StageName(3) = "approach"
        /\ StageName(4) = "attach" /\ StageName(5) = "carry" /\ StageName(6) = "place"
        /\ StageName(7) = "release" /\ StageName(8) = "retreat"
        /\ StageName(9) \in {"prepare", "ready"} /\ StageName(10) = "ready"
    BY DEF StageName
  <2>3. Step.name = StageName(p)
    BY <1>3, <1>4
  <2>4. p = 1 => ~released
    BY <1>8
  <2>5. p = 9 => released
    BY <1>8
  <2> QED
    BY <2>1, <2>2, <2>3, <2>4, <2>5 DEF Logged, MilestoneStages
<1>11. StageTellsLog'
  <2> DEFINE M == Milestones(plan.action)
             n == Passed(plan.action, p)
  <2>1. log = SubSeq(M, 1, n)
    BY <1>1, <1>4 DEF RouteInv, StageTellsLog
  <2>2. p <= LastStage(plan.action) /\ p <= LastStage(plan.action) + 1 /\ FirstStage(plan.action) <= p
    BY <1>3, <1>4, <1>5
  <2>3. /\ M \in Seq(MilestoneNames) /\ n \in 0..Len(M)
        /\ p \in MilestoneStages =>
             /\ Passed(plan.action, p + 1) = n + 1
             /\ n + 1 \in 1..Len(M)
             /\ M[n + 1] = StageName(p)
        /\ p \notin MilestoneStages => Passed(plan.action, p + 1) = n
    BY <1>3, <2>2, MilestonesAlong
  <2> HIDE DEF M, n
  <2>4. log' = SubSeq(M, 1, Passed(plan.action, p + 1))
    <3>1. CASE p \in MilestoneStages
      <4>1. n \in Nat
        BY <2>3
      <4>2. SubSeq(M, 1, n + 1) = Append(SubSeq(M, 1, n), M[n + 1])
        BY <2>3, <3>1, <4>1, OneMore
      <4>3. log' = Append(log, StageName(p))
        BY <1>1, <1>3, <1>4, <1>10, <3>1
      <4> QED
        BY <2>1, <2>3, <3>1, <4>2, <4>3
    <3>2. CASE p \notin MilestoneStages
      <4>1. log' = log
        BY <1>1, <1>10, <3>2
      <4> QED
        BY <2>1, <2>3, <3>2, <4>1
    <3> QED
      BY <3>1, <3>2
  <2> QED
    BY <1>1, <1>7, <2>4 DEF StageTellsLog, M
<1>12. PlanFinishes'
  <2>1. Stage' - index' + 1 = Stage - index + 1
    BY <1>1, <1>3, <1>4, <1>7
  <2> QED
    BY <1>1, <2>1 DEF RouteInv, PlanFinishes
<1>13. StageTellsWorld'
  BY <1>7, <1>9 DEF StageTellsWorld
<1>14. StoreFinishes' /\ DoneAtEnd' /\ CarryNeverReplanned'
  BY <1>1 DEF RouteInv, StoreFinishes, DoneAtEnd, CarryNeverReplanned, CarryOnly
<1> QED
  BY <1>11, <1>12, <1>13, <1>14 DEF RouteInv

LEMMA RouteStep ==
  ASSUME IInv, IInv', RouteInv, [Next]_vars
  PROVE  RouteInv'
  BY WaitingRoute, IdleRequestRoute, PlanOnlyRoute, ClaimRoute, RebuildRoute, AdvanceRoute
     DEF Next, Request, Replan, Execute

\* Every execution keeps to the route of its action, wherever it is replanned.
THEOREM RouteKept == Spec => []RouteInv
<1>1. IInv /\ IInv' /\ RouteInv /\ [Next]_vars => RouteInv'
  BY RouteStep
<1> QED
  BY <1>1, InitRoute, Invariance, PTL DEF Spec

\* Whatever was replanned, executeSavedPlan does each milestone of the action once and
\* in order, and what it reports at its end is done and true.
THEOREM WorkDoneOnceAlways == Spec => []WorkDoneOnce
<1>1. ASSUME IInv, RouteInv
      PROVE  WorkDoneOnce
  <2> DEFINE M == Milestones(plan.action)
             p == Stage
  <2>1. CASE pc = "idle"
    BY <2>1 DEF WorkDoneOnce
  <2>2. CASE pc # "idle"
    <3>1. plan \in Plans /\ plan.action \in Actions /\ plan.steps \in Seq(Steps)
          /\ Len(plan.steps) \in Nat
      BY <1>1, <2>2 DEF IInv, TypeOK, IdleIsClear, Plans, NoPlan
    <3>2. index \in 1..(Len(plan.steps) + 1)
      <4>1. pc \in {"loop", "done"} \/ index \in 1..Len(plan.steps)
        BY <1>1, <2>2 DEF IInv, TypeOK
      <4>2. pc \in {"loop", "done"} => index \in 1..(Len(plan.steps) + 1)
        BY <1>1 DEF IInv, TypeOK
      <4> QED
        BY <3>1, <4>1, <4>2
    <3>3. LastStage(plan.action) \in Nat /\ FirstStage(plan.action) \in Nat
      BY StageNames DEF LastStage, FirstStage
    <3>4. p \in Nat /\ FirstStage(plan.action) <= p /\ p <= LastStage(plan.action) + 1
          /\ (index > Len(plan.steps) => p = LastStage(plan.action) + 1)
      <4>1. PICK n \in Nat, l \in Nat, f \in Nat :
              n = Len(plan.steps) /\ l = LastStage(plan.action) /\ f = FirstStage(plan.action)
        BY <3>1, <3>3
      <4>2. PICK k \in 1..(n + 1) : k = index
        BY <3>2, <4>1
      <4>3. PICK stage \in Int : stage = p
        BY <3>1, <3>2, <3>3 DEF Stage
      <4>4. stage = l + k - n
        BY <4>1, <4>2, <4>3 DEF Stage
      <4>5. stage - k + 1 >= f
        BY <1>1, <2>2, <4>1, <4>2, <4>3 DEF RouteInv, PlanFinishes, Finishes
      <4>6. stage \in Nat /\ f <= stage /\ stage <= l + 1 /\ (k > n => stage = l + 1)
        BY <4>2, <4>4, <4>5
      <4> QED
        BY <4>1, <4>2, <4>3, <4>6
    <3>5. log = SubSeq(M, 1, Passed(plan.action, p))
      BY <1>1, <2>2 DEF RouteInv, StageTellsLog
    <3> HIDE DEF M, p
    <3>6. /\ M \in Seq(MilestoneNames) /\ Passed(plan.action, p) \in 0..Len(M)
          /\ p = LastStage(plan.action) + 1 => Passed(plan.action, p) = Len(M)
      BY <3>1, <3>4, MilestonesAlong DEF M
    <3>7. IsPrefix(log, M)
      BY <3>5, <3>6, SomeIsPrefix
    <3>8. ASSUME pc = "done"
          PROVE  log = M
      <4>1. index > Len(plan.steps)
        BY <1>1, <3>8 DEF RouteInv, DoneAtEnd
      <4>2. log = SubSeq(M, 1, Len(M))
        BY <3>4, <3>5, <3>6, <4>1
      <4> QED
        BY <3>6, <4>2, SubSeqFull
    <3>9. (state = "HOLDING") = attached
      <4>1. attached \in BOOLEAN /\ (state = "HOLDING" <=> attached)
        BY <1>1, <2>2 DEF IInv, TypeOK, StateIsTrue
      <4> QED
        BY <4>1
    <3> QED
      BY <3>7, <3>8, <3>9 DEF WorkDoneOnce, M
  <2> QED
    BY <2>1, <2>2
<1> QED
  BY <1>1, Invariance, RouteKept, PTL
=============================================================================
