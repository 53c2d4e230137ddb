------------------------- MODULE DetectionScene_proofs -------------------------
(* Proofs about DetectionScene for any boxes, any number of poses and any number of
   Continues.

   A captured snapshot is what MoveIt shows, but for the box of the task, whenever no
   Continue waits for its scene (SnapshotShown), and it was seen since the request that
   counts (SnapshotFresh).  Where the box of the task is follows from the phase
   (DispositionByPhase, AttachedByPhase); what the Pick and the Place derived from a
   snapshot follows it unless they are marked behind (TargetFollows, PlacementFollows). *)
EXTENDS DetectionScene, SequenceTheorems, TLAPS

Busy == pc # "idle"

BeforeAttach == {"select", "select_box", "pick_scene", "pick", "attach"}
WithBox == {"attach_scene", "carry_scene", "carry", "scene", "place", "release"}
AfterRelease == {"release_scene", "return"}

DispositionByPhase ==
  Busy => disposition = IF goal.kind = "reset" \/ Name \in AfterRelease THEN "released"
                        ELSE IF Name \in WithBox \/ goal.kind = "place" THEN "attached"
                        ELSE IF goal.kind = "move_carry_pose" THEN "attached"
                        ELSE "not_attached"

StateByPhase ==
  Busy => state = IF goal.kind = "reset" THEN "RECOVERY_REQUIRED"
                  ELSE IF disposition = "attached" THEN "HOLDING" ELSE "EMPTY"

AttachedByPhase ==
  /\ attached # NoBox => attached = active /\ live[attached] = Missing
  /\ state = "EMPTY" /\ (~Busy \/ Name # "release_scene") => attached = NoBox
  /\ state = "HOLDING" => active \in Boxes
  /\ state = "HOLDING" /\ (~Busy \/ Name # "attach_scene") => attached = active
  /\ goal.kind = "reset" /\ retaining => attached = NoBox
  /\ selected \/ (captured /\ goal.kind # "reset") => active \in Boxes
  /\ Busy /\ goal.kind # "reset" /\ Name \notin {"select", "select_box"} => active \in Boxes

StampByPoint ==
  /\ continueStamp \in {0, epoch}
  /\ pc \in {"idle", "body", "plan"} => continueStamp = 0
  /\ ~Busy => epoch = 1 /\ request = 1
  /\ continueStamp = 0 /\ goal.kind # "move_carry_pose" => request = epoch

CapturedByPhase ==
  /\ retaining => captured \/ (Busy /\ goal.kind = "move_carry_pose" /\ Name = "carry")
  /\ captured /\ PickTarget => selected
  /\ ~Busy => ~captured /\ ~selected /\ boxes = Nothing(Boxes) /\ tables = Nothing(Tables)
  /\ goal.kind = "move_carry_pose" =>
       ~captured /\ boxes = Nothing(Boxes) /\ tables = Nothing(Tables)
  /\ Busy /\ goal.kind # "move_carry_pose" /\ Name \notin {"select", "place_target", "select_box", "scene", "reset_scene"}
       => captured
  /\ Busy /\ Name = "scene" /\ goal.kind = "pick_place" => captured
  /\ Busy /\ goal.kind = "move_carry_pose" /\ Name = "carry" =>
       retaining /\ \A o \in Objects : View[o] = Missing
  /\ Busy /\ PickTarget /\ Name \notin {"select", "select_box"} => selected
  /\ PickTarget /\ ~selected => tables = Nothing(Tables)

SnapshotShown ==
  captured /\ continueStamp = 0 =>
    /\ \A b \in Boxes \ {OwnBox} : View[b] = boxes[b] \/ (b = active /\ Name = "pick_scene")
    /\ \A t \in Tables : View[t] = tables[t]

PlacedShown ==
  Busy /\ Name = "return" => View[active] = Placed

TargetFollows ==
  Busy /\ Name \in {"pick_scene", "pick", "attach"} =>
    /\ "pick" \notin behind => target = boxes[active]
    /\ pc = "plan" => "pick" \notin behind

PlacementFollows ==
  Busy /\ goal.auto /\ Name \notin {"select", "place_target"} =>
    /\ "place" \notin behind => placement = tables["main"]
    /\ pc = "plan" /\ Name = "place" => "place" \notin behind

SnapshotFresh ==
  continueStamp = 0 /\ goal.kind # "move_carry_pose" =>
    /\ captured => \A b \in Boxes : boxes[b] = Missing \/ boxes[b].at = epoch
    /\ goal.auto => tables["main"] = Missing \/ tables["main"].at = epoch

AutoSeen ==
  Busy /\ goal.auto /\ (captured \/ Name \notin {"select", "place_target"}) =>
    tables["main"] # Missing

PlanPoint ==
  /\ pc = "plan" => Name \in {"pick", "attach", "place", "carry", "release", "return", "reset"}
  /\ goal.auto => goal.kind \in {"place", "pick_place"}

IInv ==
  /\ TypeOK /\ DispositionByPhase /\ StateByPhase /\ AttachedByPhase /\ StampByPoint
  /\ CapturedByPhase /\ SnapshotShown /\ PlacedShown /\ TargetFollows /\ PlacementFollows
  /\ SnapshotFresh /\ AutoSeen /\ PlanPoint
-----------------------------------------------------------------------------
(* The phases of a task, one after the other. *)

\* What comes when: names of S, each followed by one that R allows.
Chain(s, S, R) ==
  /\ s \in Seq(S) /\ Len(s) \in Nat \ {0}
  /\ \A i \in 1..Len(s) : i + 1 \in 1..Len(s) => <<s[i], s[i + 1]>> \in R

HeadOf(s) == s[1]
LastOf(s) == s[Len(s)]

LEMMA ChainJoined ==
  ASSUME NEW S, NEW R, NEW s, NEW t,
         Chain(s, S, R), Chain(t, S, R), <<LastOf(s), HeadOf(t)>> \in R
  PROVE  /\ Chain(s \o t, S, R)
         /\ HeadOf(s \o t) = HeadOf(s) /\ LastOf(s \o t) = LastOf(t)
<1>0. PICK u : u = s \o t
  OBVIOUS
<1>1. /\ s \in Seq(S) /\ t \in Seq(S) /\ Len(s) \in Nat \ {0} /\ Len(t) \in Nat \ {0}
  BY DEF Chain
<1>2. u \in Seq(S) /\ Len(u) = Len(s) + Len(t)
  BY <1>0, <1>1
<1>3. \A i \in 1..Len(s) + Len(t) : u[i] = IF i <= Len(s) THEN s[i] ELSE t[i - Len(s)]
  BY <1>0, <1>1
<1>4. PICK m, n : m = Len(s) /\ n = Len(t)
  OBVIOUS
<1>5. m \in Nat \ {0} /\ n \in Nat \ {0} /\ Len(u) = m + n
  BY <1>1, <1>2, <1>4
<1>6. \A i \in 1..m + n : u[i] = IF i <= m THEN s[i] ELSE t[i - m]
  BY <1>3, <1>4
<1>7. /\ \A i \in 1..m : i + 1 \in 1..m => <<s[i], s[i + 1]>> \in R
      /\ \A i \in 1..n : i + 1 \in 1..n => <<t[i], t[i + 1]>> \in R
      /\ <<s[m], t[1]>> \in R
  BY <1>4 DEF Chain, HeadOf, LastOf
<1>8. ASSUME NEW i \in 1..m + n, i + 1 \in 1..m + n
      PROVE  <<u[i], u[i + 1]>> \in R
  <2>1. i \in Nat /\ m \in Nat /\ n \in Nat /\ i >= 1 /\ i + 1 <= m + n
    BY <1>5, <1>8
  <2>2. PICK k : k = i + 1
    OBVIOUS
  <2>3. /\ u[i] = IF i <= m THEN s[i] ELSE t[i - m]
        /\ u[k] = IF k <= m THEN s[k] ELSE t[k - m]
    <3>1. i \in 1..m + n /\ k \in 1..m + n
      BY <1>8, <2>2
    <3> QED
      BY <1>6, <3>1
  <2>4. CASE k <= m
    <3>1. u[i] = s[i] /\ u[k] = s[k]
      BY <2>1, <2>2, <2>3, <2>4
    <3>2. i \in 1..m /\ i + 1 \in 1..m
      BY <2>1, <2>2, <2>4
    <3>3. <<s[i], s[k]>> \in R
      BY <1>7, <2>2, <3>2
    <3> QED
      BY <2>2, <3>1, <3>3
  <2>5. CASE i = m
    <3>1. u[i] = s[m] /\ u[k] = t[1]
      BY <2>1, <2>2, <2>3, <2>5
    <3> QED
      BY <1>7, <2>2, <3>1
  <2>6. CASE i > m
    <3>1. PICK j : j = i - m
      OBVIOUS
    <3>2. j \in 1..n /\ j + 1 \in 1..n /\ k - m = j + 1
      BY <2>1, <2>2, <2>6, <3>1
    <3>3. u[i] = t[j] /\ u[k] = t[j + 1]
      BY <2>1, <2>2, <2>3, <2>6, <3>1, <3>2
    <3> QED
      BY <1>7, <2>2, <3>2, <3>3
  <2>7. k <= m \/ i = m \/ i > m
    BY <2>1, <2>2
  <2> QED
    BY <2>4, <2>5, <2>6, <2>7
<1>9. u[1] = s[1] /\ u[m + n] = t[n]
  BY <1>5, <1>6
<1>10. Len(u) \in Nat \ {0} /\ \A i \in 1..Len(u) : i + 1 \in 1..Len(u) => <<u[i], u[i + 1]>> \in R
  BY <1>5, <1>8
<1>11. Chain(u, S, R)
  BY <1>2, <1>10 DEF Chain
<1>12. HeadOf(u) = HeadOf(s) /\ LastOf(u) = LastOf(t)
  BY <1>4, <1>5, <1>9 DEF HeadOf, LastOf
<1> QED
  BY <1>0, <1>11, <1>12

\* The names of a task's phases, which may follow which, the first and the last.
TargetPhase(g) == IF g.auto THEN {"place_target"} ELSE {}
PhaseNames(g) ==
  CASE g.kind = "pick" -> (BeforeAttach \ {"select"}) \cup {"attach_scene", "carry"}
    [] g.kind = "place" -> {"scene", "place", "release"} \cup AfterRelease \cup TargetPhase(g)
    [] g.kind = "pick_place" ->
         BeforeAttach \cup {"attach_scene", "carry", "scene", "place", "release"} \cup AfterRelease \cup TargetPhase(g)
    [] g.kind = "move_carry_pose" -> {"carry_scene", "carry"}
    [] g.kind = "reset" -> {"reset_scene", "reset"}

Follows(g) ==
  {<<"select", IF g.auto THEN "place_target" ELSE "select_box">>,
   <<"place_target", IF g.kind = "place" THEN "scene" ELSE "select_box">>,
   <<"select_box", "pick_scene">>, <<"pick_scene", "pick">>, <<"pick", "attach">>,
   <<"attach", "attach_scene">>, <<"attach_scene", "carry">>, <<"scene", "place">>,
   <<"place", "release">>, <<"release", "release_scene">>, <<"release_scene", "return">>,
   <<"carry_scene", "carry">>, <<"reset_scene", "reset">>}
  \cup IF g.kind = "pick_place" THEN {<<"carry", "scene">>} ELSE {}

First(g) ==
  CASE g.kind = "pick" -> "select_box"
    [] g.kind = "place" -> IF g.auto THEN "place_target" ELSE "scene"
    [] g.kind = "pick_place" -> "select"
    [] g.kind = "move_carry_pose" -> "carry_scene"
    [] g.kind = "reset" -> "reset_scene"

Final(g) ==
  CASE g.kind \in {"pick", "move_carry_pose"} -> "carry"
    [] g.kind = "reset" -> "reset"
    [] OTHER -> "return"

Goals == [kind : Kinds, auto : BOOLEAN]

LEMMA ChainOfOne ==
  ASSUME NEW S, NEW R, NEW x \in S
  PROVE  Chain(<<x>>, S, R) /\ HeadOf(<<x>>) = x /\ LastOf(<<x>>) = x
<1>1. <<x>> \in Seq(S) /\ <<x>>[1] = x /\ Len(<<x>>) = 1
  OBVIOUS
<1> QED
  BY <1>1 DEF Chain, HeadOf, LastOf

LEMMA ChainOfTwo ==
  ASSUME NEW S, NEW R, NEW x \in S, NEW y \in S, <<x, y>> \in R
  PROVE  Chain(<<x, y>>, S, R) /\ HeadOf(<<x, y>>) = x /\ LastOf(<<x, y>>) = y
<1>1. <<x, y>> \in Seq(S) /\ <<x, y>>[1] = x /\ Len(<<x, y>>) = 2 /\ <<x, y>>[2] = y
  OBVIOUS
<1> QED
  BY <1>1 DEF Chain, HeadOf, LastOf

LEMMA PickChain ==
  ASSUME NEW g \in Goals, g.kind \in {"pick", "pick_place"}
  PROVE  /\ Chain(PickStages, PhaseNames(g), Follows(g))
         /\ HeadOf(PickStages) = "select_box" /\ LastOf(PickStages) = "carry"
<1>1. Len(PickStages) = 6
  BY DEF PickStages
<1>2. /\ PickStages[1] = "select_box" /\ PickStages[2] = "pick_scene" /\ PickStages[3] = "pick"
      /\ PickStages[4] = "attach" /\ PickStages[5] = "attach_scene" /\ PickStages[6] = "carry"
  BY DEF PickStages
<1>3. PickStages \in Seq(PhaseNames(g))
  <2> DEFINE S == PhaseNames(g)
  <2>1. /\ "select_box" \in S /\ "pick_scene" \in S /\ "pick" \in S /\ "attach" \in S
        /\ "attach_scene" \in S /\ "carry" \in S
    BY DEF PhaseNames, BeforeAttach
  <2> HIDE DEF S
  <2>2. PickStages \in Seq(S)
    BY <2>1 DEF PickStages
  <2> QED
    BY <2>2 DEF S
<1>4. /\ <<PickStages[1], PickStages[2]>> \in Follows(g) /\ <<PickStages[2], PickStages[3]>> \in Follows(g)
      /\ <<PickStages[3], PickStages[4]>> \in Follows(g) /\ <<PickStages[4], PickStages[5]>> \in Follows(g)
      /\ <<PickStages[5], PickStages[6]>> \in Follows(g)
  BY <1>2 DEF Follows
<1>5. \A i \in 1..6 : i + 1 \in 1..6 => <<PickStages[i], PickStages[i + 1]>> \in Follows(g)
  <2> SUFFICES ASSUME NEW i \in 1..6, i + 1 \in 1..6
               PROVE  <<PickStages[i], PickStages[i + 1]>> \in Follows(g)
    OBVIOUS
  <2>1. i = 1 \/ i = 2 \/ i = 3 \/ i = 4 \/ i = 5
    OBVIOUS
  <2> QED
    BY <1>4, <2>1
<1> QED
  BY <1>1, <1>2, <1>3, <1>5 DEF Chain, HeadOf, LastOf

LEMMA PlaceChain ==
  ASSUME NEW g \in Goals, g.kind \in {"place", "pick_place"}
  PROVE  /\ Chain(PlaceStages, PhaseNames(g), Follows(g))
         /\ HeadOf(PlaceStages) = "scene" /\ LastOf(PlaceStages) = "return"
<1>1. Len(PlaceStages) = 5
  BY DEF PlaceStages
<1>2. /\ PlaceStages[1] = "scene" /\ PlaceStages[2] = "place" /\ PlaceStages[3] = "release"
      /\ PlaceStages[4] = "release_scene" /\ PlaceStages[5] = "return"
  BY DEF PlaceStages
<1>3. PlaceStages \in Seq(PhaseNames(g))
  <2> DEFINE S == PhaseNames(g)
  <2>1. /\ "scene" \in S /\ "place" \in S /\ "release" \in S /\ "release_scene" \in S
        /\ "return" \in S
    BY DEF PhaseNames, AfterRelease
  <2> HIDE DEF S
  <2>2. PlaceStages \in Seq(S)
    BY <2>1 DEF PlaceStages
  <2> QED
    BY <2>2 DEF S
<1>4. /\ <<PlaceStages[1], PlaceStages[2]>> \in Follows(g) /\ <<PlaceStages[2], PlaceStages[3]>> \in Follows(g)
      /\ <<PlaceStages[3], PlaceStages[4]>> \in Follows(g) /\ <<PlaceStages[4], PlaceStages[5]>> \in Follows(g)
  BY <1>2 DEF Follows
<1>5. \A i \in 1..5 : i + 1 \in 1..5 => <<PlaceStages[i], PlaceStages[i + 1]>> \in Follows(g)
  <2> SUFFICES ASSUME NEW i \in 1..5, i + 1 \in 1..5
               PROVE  <<PlaceStages[i], PlaceStages[i + 1]>> \in Follows(g)
    OBVIOUS
  <2>1. i = 1 \/ i = 2 \/ i = 3 \/ i = 4
    OBVIOUS
  <2> QED
    BY <1>4, <2>1
<1> QED
  BY <1>1, <1>2, <1>3, <1>5 DEF Chain, HeadOf, LastOf

\* Every task is such a chain, from its first phase to its last.
LEMMA StagesChain ==
  ASSUME NEW g \in Goals
  PROVE  /\ Chain(Stages(g), PhaseNames(g), Follows(g))
         /\ HeadOf(Stages(g)) = First(g) /\ LastOf(Stages(g)) = Final(g)
<1>0. PICK S, R : S = PhaseNames(g) /\ R = Follows(g)
  OBVIOUS
<1>1. CASE g.kind = "pick"
  BY <1>1, PickChain DEF Stages, First, Final
<1>2. CASE g.kind = "place"
  <2>1. CASE g.auto
    <3>1. Stages(g) = <<"place_target">> \o PlaceStages
      BY <1>2, <2>1 DEF Stages
    <3>2. "place_target" \in S /\ <<"place_target", "scene">> \in R
      BY <1>0, <1>2, <2>1 DEF PhaseNames, TargetPhase, Follows
    <3>3. PICK head : head = <<"place_target">>
      OBVIOUS
    <3>4. Chain(head, S, R) /\ HeadOf(head) = "place_target" /\ LastOf(head) = "place_target"
      BY <3>2, <3>3, ChainOfOne
    <3>5. Chain(PlaceStages, S, R) /\ HeadOf(PlaceStages) = "scene" /\ LastOf(PlaceStages) = "return"
      BY <1>0, <1>2, PlaceChain
    <3>6. <<LastOf(head), HeadOf(PlaceStages)>> \in R
      BY <3>2, <3>4, <3>5
    <3>7. /\ Chain(head \o PlaceStages, S, R)
          /\ HeadOf(head \o PlaceStages) = "place_target" /\ LastOf(head \o PlaceStages) = "return"
      BY <3>4, <3>5, <3>6, ChainJoined
    <3>8. First(g) = "place_target" /\ Final(g) = "return"
      BY <1>2, <2>1 DEF First, Final
    <3> QED
      BY <1>0, <3>1, <3>3, <3>7, <3>8
  <2>2. CASE ~g.auto
    <3>1. PlaceStages \in Seq(S)
      BY <1>0, <1>2, PlaceChain DEF Chain
    <3>2. Stages(g) = PlaceStages
      BY <1>2, <2>2, <3>1, ConcatEmptySeq DEF Stages
    <3> QED
      BY <1>2, <2>2, <3>2, PlaceChain DEF First, Final
  <2> QED
    BY <2>1, <2>2
<1>3. CASE g.kind = "pick_place"
  <2>1. PICK one, two : one = <<"select">> /\ two = <<"place_target">>
    OBVIOUS
  <2>2. PICK head : head = IF g.auto THEN one \o two ELSE one
    OBVIOUS
  <2>3. Stages(g) = (head \o PickStages) \o PlaceStages
    <3>1. CASE g.auto
      BY <1>3, <2>1, <2>2, <3>1 DEF Stages
    <3>2. CASE ~g.auto
      <4>1. one \o <<>> = one
        <5>1. one \in Seq({"select"})
          BY <2>1
        <5> QED
          BY <5>1, ConcatEmptySeq
      <4> QED
        BY <1>3, <2>1, <2>2, <3>2, <4>1 DEF Stages
    <3> QED
      BY <3>1, <3>2
  <2>4. Chain(head, S, R) /\ HeadOf(head) = "select" /\ <<LastOf(head), "select_box">> \in R
    <3>1. CASE g.auto
      <4>1. "select" \in S /\ "place_target" \in S /\ <<"select", "place_target">> \in R
            /\ <<"place_target", "select_box">> \in R
        BY <1>0, <1>3, <3>1 DEF PhaseNames, TargetPhase, Follows, BeforeAttach
      <4>2. /\ Chain(one, S, R) /\ HeadOf(one) = "select" /\ LastOf(one) = "select"
            /\ Chain(two, S, R) /\ HeadOf(two) = "place_target" /\ LastOf(two) = "place_target"
        BY <2>1, <4>1, ChainOfOne
      <4>3. <<LastOf(one), HeadOf(two)>> \in R
        BY <4>1, <4>2
      <4>4. /\ Chain(one \o two, S, R)
            /\ HeadOf(one \o two) = "select" /\ LastOf(one \o two) = "place_target"
        BY <4>2, <4>3, ChainJoined
      <4> QED
        BY <2>2, <3>1, <4>1, <4>4
    <3>2. CASE ~g.auto
      <4>1. "select" \in S /\ <<"select", "select_box">> \in R
        BY <1>0, <1>3, <3>2 DEF PhaseNames, TargetPhase, Follows, BeforeAttach
      <4>2. Chain(one, S, R) /\ HeadOf(one) = "select" /\ LastOf(one) = "select"
        BY <2>1, <4>1, ChainOfOne
      <4> QED
        BY <2>2, <3>2, <4>1, <4>2
    <3> QED
      BY <3>1, <3>2
  <2>5. <<"carry", "scene">> \in R
    BY <1>0, <1>3 DEF Follows
  <2>6. /\ Chain(PickStages, S, R) /\ Chain(PlaceStages, S, R)
        /\ HeadOf(PickStages) = "select_box" /\ LastOf(PickStages) = "carry"
        /\ HeadOf(PlaceStages) = "scene" /\ LastOf(PlaceStages) = "return"
    BY <1>0, <1>3, PickChain, PlaceChain
  <2>7. PICK mid : mid = head \o PickStages
    OBVIOUS
  <2>8. Chain(mid, S, R) /\ HeadOf(mid) = "select" /\ LastOf(mid) = "carry"
    <3>1. <<LastOf(head), HeadOf(PickStages)>> \in R
      BY <2>4, <2>6
    <3>2. /\ Chain(head \o PickStages, S, R)
          /\ HeadOf(head \o PickStages) = "select" /\ LastOf(head \o PickStages) = "carry"
      BY <2>4, <2>6, <3>1, ChainJoined
    <3> QED
      BY <2>7, <3>2
  <2>9. /\ Chain(mid \o PlaceStages, S, R)
        /\ HeadOf(mid \o PlaceStages) = "select" /\ LastOf(mid \o PlaceStages) = "return"
    <3>1. <<LastOf(mid), HeadOf(PlaceStages)>> \in R
      BY <2>5, <2>6, <2>8
    <3> QED
      BY <2>6, <2>8, <3>1, ChainJoined
  <2>10. First(g) = "select" /\ Final(g) = "return"
    BY <1>3 DEF First, Final
  <2> QED
    BY <1>0, <2>3, <2>7, <2>9, <2>10
<1>4. CASE g.kind = "move_carry_pose"
  <2>1. "carry_scene" \in S /\ "carry" \in S /\ <<"carry_scene", "carry">> \in R
    BY <1>0, <1>4 DEF PhaseNames, TargetPhase, Follows
  <2>2. Stages(g) = <<"carry_scene", "carry">>
    BY <1>4 DEF Stages
  <2>3. First(g) = "carry_scene" /\ Final(g) = "carry"
    BY <1>4 DEF First, Final
  <2> QED
    BY <1>0, <2>1, <2>2, <2>3, ChainOfTwo
<1>5. CASE g.kind = "reset"
  <2>1. "reset_scene" \in S /\ "reset" \in S /\ <<"reset_scene", "reset">> \in R
    BY <1>0, <1>5 DEF PhaseNames, TargetPhase, Follows
  <2>2. Stages(g) = <<"reset_scene", "reset">>
    BY <1>5 DEF Stages
  <2>3. First(g) = "reset_scene" /\ Final(g) = "reset"
    BY <1>5 DEF First, Final
  <2> QED
    BY <1>0, <2>1, <2>2, <2>3, ChainOfTwo
<1> QED
  BY <1>1, <1>2, <1>3, <1>4, <1>5 DEF Goals, Kinds

-----------------------------------------------------------------------------
(* Where a task stands. *)

ControlTyped ==
  /\ state \in {"EMPTY", "HOLDING", "RECOVERY_REQUIRED"} /\ goal \in Goals
  /\ disposition \in {"not_attached", "attached", "released", "uncertain"}
  /\ stage \in 1..Len(Stages(goal)) /\ pc \in {"idle", "attempt", "body", "plan", "failed", "paused"}
TimeTyped == epoch \in 1..MaxContinues + 1 /\ request \in 1..epoch /\ continueStamp \in 0..epoch
UserTyped ==
  /\ active \in Boxes \cup {NoBox} /\ selected \in BOOLEAN
  /\ target \in Observations /\ placement \in Seen \cup {Missing} /\ behind \subseteq {"pick", "place"}
SnapshotTyped ==
  captured \in BOOLEAN /\ boxes \in [Boxes -> Observations] /\ tables \in [Tables -> Seen \cup {Missing}]
SceneTyped ==
  /\ attached \in Boxes \cup {NoBox} /\ retaining \in BOOLEAN
  /\ live \in [Objects -> Observations] /\ retained \in [Objects -> Observations]
RetainedFirst == captured => retaining

LEMMA TypeParts ==
  TypeOK <=> ControlTyped /\ TimeTyped /\ UserTyped /\ SnapshotTyped /\ SceneTyped /\ RetainedFirst
<1>1. {selected, captured, retaining} \subseteq BOOLEAN
        <=> selected \in BOOLEAN /\ captured \in BOOLEAN /\ retaining \in BOOLEAN
  OBVIOUS
<1> QED
  BY <1>1, Zenon DEF TypeOK, ControlTyped, TimeTyped, UserTyped, SnapshotTyped, SceneTyped, RetainedFirst, Goals

\* The phase a task is in, and the one that comes next.
LEMMA NameFacts ==
  ASSUME ControlTyped
  PROVE  /\ Name \in PhaseNames(goal) /\ Len(Stages(goal)) \in Nat
         /\ stage = 1 => Name = First(goal)
         /\ stage = Len(Stages(goal)) => Name = Final(goal)
<1>1. goal \in Goals /\ stage \in 1..Len(Stages(goal))
  BY DEF ControlTyped
<1>2. PICK s : s = Stages(goal)
  OBVIOUS
<1>3. /\ s \in Seq(PhaseNames(goal)) /\ Len(s) \in Nat
      /\ s[1] = First(goal) /\ s[Len(s)] = Final(goal)
  BY <1>1, <1>2, StagesChain DEF Chain, HeadOf, LastOf
<1>4. Name = s[stage]
  BY <1>2 DEF Name
<1>5. s[stage] \in PhaseNames(goal)
  BY <1>1, <1>2, <1>3
<1> QED
  BY <1>2, <1>3, <1>4, <1>5

LEMMA NextName ==
  ASSUME ControlTyped, goal' = goal, stage' = stage + 1, stage # Len(Stages(goal))
  PROVE  <<Name, Name'>> \in Follows(goal) /\ stage' \in 1..Len(Stages(goal'))
<1>1. goal \in Goals /\ stage \in 1..Len(Stages(goal))
  BY DEF ControlTyped
<1>2. PICK s : s = Stages(goal)
  OBVIOUS
<1>3. /\ Len(s) \in Nat
      /\ \A i \in 1..Len(s) : i + 1 \in 1..Len(s) => <<s[i], s[i + 1]>> \in Follows(goal)
  BY <1>1, <1>2, StagesChain DEF Chain
<1>4. Name = s[stage] /\ Name' = s[stage + 1]
  BY <1>2 DEF Name
<1>5. stage \in 1..Len(s) /\ stage + 1 \in 1..Len(s)
  BY <1>1, <1>2, <1>3
<1> QED
  BY <1>2, <1>3, <1>4, <1>5

LEMMA SameName ==
  ASSUME goal' = goal, stage' = stage
  PROVE  Name' = Name /\ Stages(goal') = Stages(goal)
  BY DEF Name

\* What a step does to the task: it begins or ends it, it stays in the phase, or it
\* goes on to the next one.
Stays ==
  /\ Busy /\ pc' \in {"attempt", "body", "plan", "failed", "paused"}
  /\ UNCHANGED <<state, goal, disposition, stage>>
Advances ==
  /\ Busy /\ pc' = "attempt" /\ stage' = stage + 1 /\ stage # Len(Stages(goal))
  /\ Name \notin {"attach", "release"} /\ UNCHANGED <<state, goal, disposition>>
Ends ==
  \E final : /\ End(final) /\ Busy
             /\ \/ pc = "plan" /\ stage = Len(Stages(goal)) /\ final = FinalState
                \/ final = "RECOVERY_REQUIRED"
                \/ pc \in {"failed", "paused"} /\ final \in FailedStates

LEMMA Control ==
  ASSUME ControlTyped, Next
  PROVE  \/ \E kind \in Kinds : Begin(kind)
         \/ Stays \/ Advances \/ AttachOrDetach \/ Ends
<1> USE DEF Busy, task_vars
<1>1. Name \notin {"carry", "return", "reset"} => stage # Len(Stages(goal))
  BY NameFacts DEF Final
<1>2. CASE \E kind \in Kinds : Begin(kind)
  BY <1>2
<1>3. CASE NoScenePending \/ NothingSelected \/ ContinueScene \/ ContinueSceneFails
  BY <1>3 DEF NoScenePending, NothingSelected, ContinueScene, ContinueSceneFails, ContinueScenePending, Stays
<1>4. CASE SelectOnly \/ SelectFromSnapshot \/ SelectAndCapture \/ ResolvePlacement \/ TakeScene
  BY <1>1, <1>4 DEF SelectOnly, SelectFromSnapshot, SelectAndCapture, ResolvePlacement, TakeScene, InBody,
     Succeeded, Advances
<1>5. CASE SelectAndCaptureFails \/ TakeSceneFails \/ BoxMoved \/ PlanPick \/ PlanPlace \/ PlanMotion
  BY <1>5 DEF SelectAndCaptureFails, TakeSceneFails, BoxMoved, PlanPick, PlanPlace, PlanMotion, InBody,
     Failed, Plans, Stays
<1>6. ASSUME NEW done \in BOOLEAN, ClearScene(done) \/ ShowBox(done) \/ AttachBox(done) \/ PlaceBox(done)
      PROVE  Stays \/ Advances
  BY <1>1, <1>6 DEF ClearScene, ShowBox, AttachBox, PlaceBox, InBody, Failed, Succeeded, Stays, Advances
<1>7. CASE PlannedAndMoved
  <2>1. CASE stage = Len(Stages(goal))
    BY <1>7, <2>1 DEF PlannedAndMoved, Ends
  <2>2. CASE stage # Len(Stages(goal))
    BY <1>7, <2>2 DEF PlannedAndMoved, Succeeded, Advances
  <2> QED
    BY <2>1, <2>2
<1>8. CASE DispatchUncertain \/ GiveUp
  BY <1>8 DEF DispatchUncertain, GiveUp, Ends
<1>9. CASE AttemptFails \/ RetryOrPause \/ Continue
  BY <1>9 DEF AttemptFails, RetryOrPause, Continue, Failed, Stays
<1> QED
  BY <1>2, <1>3, <1>4, <1>5, <1>6, <1>7, <1>8, <1>9 DEF Next

LEMMA FirstName ==
  ASSUME goal' \in Goals, stage' = 1
  PROVE  Name' = First(goal') /\ stage' \in 1..Len(Stages(goal'))
<1>1. PICK g, s : g = goal' /\ s = Stages(g)
  OBVIOUS
<1>2. Len(s) \in Nat \ {0} /\ s[1] = First(g)
  BY <1>1, StagesChain DEF Chain, HeadOf
<1>3. Name' = s[1] /\ Stages(goal') = s
  BY <1>1 DEF Name
<1> QED
  BY <1>1, <1>2, <1>3

LEMMA ControlTypedNext ==
  ASSUME ControlTyped, Next
  PROVE  ControlTyped'
<1>1. CASE \E kind \in Kinds : Begin(kind)
  <2>1. PICK kind \in Kinds : Begin(kind)
    BY <1>1
  <2>2. goal' \in Goals /\ stage' = 1
    BY <2>1 DEF Begin, Goals
  <2>3. stage' \in 1..Len(Stages(goal'))
    BY <2>2, FirstName
  <2> QED
    BY <2>1, <2>2, <2>3 DEF Begin, ControlTyped
<1>2. CASE Stays
  <2>1. stage' \in 1..Len(Stages(goal'))
    BY <1>2, SameName DEF Stays, ControlTyped
  <2> QED
    BY <1>2, <2>1 DEF Stays, ControlTyped
<1>3. CASE Advances
  BY <1>3, NextName DEF Advances, ControlTyped
<1>4. CASE AttachOrDetach
  <2>1. stage # Len(Stages(goal))
    BY <1>4, NameFacts DEF AttachOrDetach, Final
  <2>2. stage' \in 1..Len(Stages(goal'))
    BY <1>4, <2>1, NextName DEF AttachOrDetach, task_vars
  <2> QED
    BY <1>4, <2>2 DEF AttachOrDetach, ControlTyped
<1>5. CASE Ends
  <2>1. PICK final : End(final) /\ final \in {"EMPTY", "HOLDING", "RECOVERY_REQUIRED"}
    BY <1>5 DEF Ends, FinalState, FailedStates, ControlTyped
  <2>2. goal' \in Goals /\ stage' = 1
    BY <2>1 DEF End, ControlTyped
  <2>3. stage' \in 1..Len(Stages(goal'))
    BY <2>2, FirstName
  <2> QED
    BY <2>1, <2>2, <2>3 DEF End, ControlTyped
<1> QED
  BY <1>1, <1>2, <1>3, <1>4, <1>5, Control

LEMMA DispositionByPhaseNext ==
  ASSUME ControlTyped, DispositionByPhase, StateByPhase, Next
  PROVE  DispositionByPhase'
<1> USE DEF task_vars
<1>1. CASE \E kind \in Kinds : Begin(kind)
  <2>1. PICK kind \in Kinds : Begin(kind)
    BY <1>1
  <2>2. goal' \in Goals /\ stage' = 1 /\ goal'.kind = kind
    BY <2>1 DEF Begin, Goals
  <2>3. Name' = First(goal')
    BY <2>2, FirstName
  <2>4. kind \in {"place", "pick_place"} \/ ~goal'.auto
    BY <2>1 DEF Begin
  <2> QED
    BY <2>1, <2>2, <2>3, <2>4
    DEF Begin, DispositionByPhase, First, Kinds, WithBox, AfterRelease
<1>2. CASE Stays
  BY <1>2, SameName DEF Stays, DispositionByPhase
<1>3. CASE Advances
  <2>1. <<Name, Name'>> \in Follows(goal)
    BY <1>3, NextName DEF Advances
  <2>2. Name \in PhaseNames(goal)
    BY NameFacts
  <2> QED
    BY <1>3, <2>1, <2>2 DEF Advances, DispositionByPhase, Follows, PhaseNames, TargetPhase, WithBox, AfterRelease, BeforeAttach,
      Busy
<1>4. CASE AttachOrDetach
  <2>1. stage # Len(Stages(goal)) /\ Name \in PhaseNames(goal)
    BY <1>4, NameFacts DEF AttachOrDetach, Final
  <2>2. <<Name, Name'>> \in Follows(goal)
    BY <1>4, <2>1, NextName DEF AttachOrDetach, task_vars
  <2> QED
    BY <1>4, <2>1, <2>2 DEF AttachOrDetach, DispositionByPhase, Follows, PhaseNames, TargetPhase, WithBox, AfterRelease, BeforeAttach
<1>5. CASE Ends
  BY <1>5 DEF Ends, End, DispositionByPhase, Busy
<1> QED
  BY <1>1, <1>2, <1>3, <1>4, <1>5, Control

LEMMA StateByPhaseNext ==
  ASSUME ControlTyped, DispositionByPhase, StateByPhase, Next
  PROVE  StateByPhase'
<1> USE DEF task_vars
<1>1. CASE \E kind \in Kinds : Begin(kind)
  <2>1. PICK kind \in Kinds : Begin(kind)
    BY <1>1
  <2>2. goal'.kind = kind
    BY <2>1 DEF Begin
  <2> QED
    BY <2>1, <2>2 DEF Begin, StateByPhase, Kinds
<1>2. CASE Stays \/ Advances
  BY <1>2 DEF Stays, Advances, StateByPhase
<1>3. CASE AttachOrDetach
  <2>1. Name \in PhaseNames(goal)
    BY NameFacts
  <2> QED
    BY <1>3, <2>1 DEF AttachOrDetach, StateByPhase, PhaseNames, TargetPhase, WithBox, AfterRelease, BeforeAttach
<1>4. CASE Ends
  BY <1>4 DEF Ends, End, StateByPhase, Busy
<1> QED
  BY <1>1, <1>2, <1>3, <1>4, Control

\* Only these steps reach the planners.
LEMMA PlansBy ==
  ASSUME ControlTyped, Next, pc' = "plan"
  PROVE  PlanPick \/ PlanPlace \/ PlanMotion
BY DEF Next, Begin, NoScenePending, NothingSelected, ContinueScene, ContinueSceneFails, SelectOnly, SelectFromSnapshot,
       SelectAndCapture, SelectAndCaptureFails, ResolvePlacement, TakeScene, TakeSceneFails, BoxMoved, ClearScene,
       ShowBox, AttachBox, PlaceBox, PlannedAndMoved, AttachOrDetach, DispatchUncertain, AttemptFails, RetryOrPause,
       Continue, GiveUp, End, Succeeded, Failed

LEMMA PlanPointNext ==
  ASSUME ControlTyped, PlanPoint, Next
  PROVE  PlanPoint'
<1>1. pc' = "plan" =>
        Name' \in {"pick", "attach", "place", "carry", "release", "return", "reset"}
  <2> SUFFICES ASSUME pc' = "plan"
               PROVE  Name' \in {"pick", "attach", "place", "carry", "release", "return", "reset"}
    OBVIOUS
  <2>1. Name' = Name
    BY PlansBy, SameName DEF PlanPick, PlanPlace, PlanMotion, Plans, task_vars
  <2> QED
    BY <2>1, PlansBy DEF PlanPick, PlanPlace, PlanMotion, InBody
<1>2. goal'.auto => goal'.kind \in {"place", "pick_place"}
  <2>1. CASE \E kind \in Kinds : Begin(kind)
    BY <2>1 DEF Begin
  <2>2. CASE Stays \/ Advances \/ AttachOrDetach \/ Ends
    <3>1. goal' = goal
      BY <2>2 DEF Stays, Advances, AttachOrDetach, Ends, End
    <3> QED
      BY <3>1 DEF PlanPoint
  <2> QED
    BY <2>1, <2>2, Control
<1> QED
  BY <1>1, <1>2 DEF PlanPoint

LEMMA TimeNext ==
  ASSUME ControlTyped, TimeTyped, StampByPoint, Next
  PROVE  TimeTyped' /\ StampByPoint'
<1> USE DEF task_vars, time_vars, Busy
<1>0. MaxContinues \in Nat
  BY SceneAssumption
<1>1. CASE \E kind \in Kinds : Begin(kind)
  BY <1>1 DEF Begin, TimeTyped, StampByPoint
<1>2. CASE NoScenePending
  BY <1>0, <1>2 DEF NoScenePending, TimeTyped, StampByPoint
<1>3. CASE NothingSelected
  BY <1>0, <1>3 DEF NothingSelected, TimeTyped, StampByPoint
<1>4. CASE ContinueScene
  BY <1>0, <1>4 DEF ContinueScene, ContinueScenePending, TimeTyped, StampByPoint
<1>5. CASE ContinueSceneFails
  BY <1>0, <1>5 DEF ContinueSceneFails, ContinueScenePending, TimeTyped, StampByPoint
<1>6. CASE UNCHANGED <<goal, time_vars>> /\ pc' # "idle"
           /\ (pc' \in {"attempt", "failed", "paused"} \/ pc = "body")
  BY <1>6 DEF TimeTyped, StampByPoint
<1>7. CASE Continue
  BY <1>0, <1>7 DEF Continue, TimeTyped, StampByPoint
<1>8. CASE \E final : End(final)
  BY <1>0, <1>8 DEF End, TimeTyped, StampByPoint
<1>9. CASE PlannedAndMoved
  BY <1>6, <1>8, <1>9 DEF PlannedAndMoved, Succeeded
<1>10. CASE SelectOnly \/ SelectFromSnapshot \/ SelectAndCapture \/ SelectAndCaptureFails
         \/ ResolvePlacement \/ TakeScene \/ TakeSceneFails \/ BoxMoved
  BY <1>6, <1>10 DEF SelectOnly, SelectFromSnapshot, SelectAndCapture, SelectAndCaptureFails, ResolvePlacement,
     TakeScene, TakeSceneFails, BoxMoved, InBody, Succeeded, Failed
<1>11. CASE PlanPick \/ PlanPlace \/ PlanMotion \/ AttachOrDetach \/ AttemptFails \/ RetryOrPause
  BY <1>6, <1>11 DEF PlanPick, PlanPlace, PlanMotion, InBody, Plans, AttachOrDetach, AttemptFails, RetryOrPause,
     Failed
<1>12. ASSUME NEW done \in BOOLEAN, ClearScene(done) \/ ShowBox(done) \/ AttachBox(done) \/ PlaceBox(done)
       PROVE  TimeTyped' /\ StampByPoint'
  BY <1>6, <1>12 DEF ClearScene, ShowBox, AttachBox, PlaceBox, Succeeded, Failed
<1>13. CASE DispatchUncertain \/ GiveUp
  BY <1>8, <1>13 DEF DispatchUncertain, GiveUp
<1> QED
  BY <1>1, <1>2, <1>3, <1>4, <1>5, <1>7, <1>9, <1>10, <1>11, <1>12, <1>13 DEF Next
-----------------------------------------------------------------------------
(* What an acquisition reads and what it does to the scene. *)

LEMMA Sorts ==
  /\ Boxes \subseteq Objects /\ Tables \subseteq Objects /\ NoBox \notin Objects
  /\ \A b \in Boxes : b \notin Tables
  /\ "main" \in Tables /\ "other" \in Tables
  BY SceneAssumption DEF Objects, Tables

LEMMA Poses3 ==
  /\ Missing \in Observations /\ Held \in Observations /\ Placed \in Observations
  /\ Missing # Held /\ Missing # Placed /\ Missing \notin Seen
  /\ Old \in Seen /\ Old # Missing
  /\ Seen \subseteq Observations
  /\ \A o \in Observations : o.pose < Poses => o = Missing \/ o \in Seen
<1>1. Poses \in Nat \ {0} /\ MaxContinues \in Nat
  BY SceneAssumption
<1>2. Missing \in Observations /\ Held \in Observations /\ Placed \in Observations /\ Seen \subseteq Observations
  BY DEF Observations
<1>3. Missing.pose = 0 /\ Held.pose = Poses + 1 /\ Placed.pose = Poses + 2 /\ Old.pose = 1 /\ Old.at = 0
  BY DEF Missing, Held, Placed, Old
<1>4. Missing \notin Seen
  BY <1>3 DEF Seen
<1>5. Old \in Seen
  BY <1>1 DEF Seen, Old
<1>6. \A o \in Observations : o.pose < Poses => o = Missing \/ o \in Seen
  BY <1>1, <1>3 DEF Observations
<1>7. Missing # Held /\ Missing # Placed
  BY <1>1, <1>3
<1> QED
  BY <1>1, <1>2, <1>3, <1>4, <1>5, <1>6, <1>7

LEMMA BoxesRead ==
  ASSUME TimeTyped, NEW since \in 1..epoch, NEW required, NEW found \in BoxReadings(since, required)
  PROVE  /\ found \in [Boxes -> Seen \cup {Missing}]
         /\ since = epoch => \A b \in Boxes : found[b] = Missing \/ found[b].at = epoch
         /\ required # NoBox => found[required] # Missing
<1>1. found \in [Boxes -> BoxesAfter(since) \cup {Missing}] /\ (required = NoBox \/ found[required] # Missing)
  BY DEF BoxReadings
<1>2. epoch \in Nat /\ since \in Nat /\ epoch <= MaxContinues + 1 /\ Poses \in Nat \ {0} /\ MaxContinues \in Nat
  BY SceneAssumption DEF TimeTyped
<1>3. BoxesAfter(since) \subseteq Seen
  <2>1. since..epoch \subseteq 0..MaxContinues + 1 /\ {1} \subseteq 1..Poses
    BY <1>2
  <2> QED
    BY <2>1 DEF BoxesAfter, Seen
<1>4. since = epoch => \A o \in BoxesAfter(since) : o.at = epoch
  BY <1>2 DEF BoxesAfter
<1> QED
  BY <1>1, <1>3, <1>4

LEMMA TablesRead ==
  ASSUME TimeTyped, NEW since \in 1..epoch, NEW known \in [Tables -> Seen \cup {Missing}],
         NEW seen \in TableReadings(since, known)
  PROVE  /\ seen \in [Tables -> Seen \cup {Missing}]
         /\ \A t \in Tables : known[t] # Missing => seen[t] = known[t]
         /\ goal.auto => seen["main"] # Missing
         /\ goal.auto /\ since = epoch /\ known["main"] = Missing => seen["main"].at = epoch
<1>1. PICK main \in TableReading("main", since, known), other \in TableReading("other", since, known) :
        seen = [t \in Tables |-> IF t = "main" THEN main ELSE other]
  BY DEF TableReadings
<1>2. epoch \in Nat /\ since \in Nat /\ epoch <= MaxContinues + 1 /\ Poses \in Nat \ {0} /\ MaxContinues \in Nat
  BY SceneAssumption DEF TimeTyped
<1>3. TablesAfter(since) \subseteq Seen
  <2>1. since..epoch \subseteq 0..MaxContinues + 1
    BY <1>2
  <2> QED
    BY <2>1 DEF TablesAfter, Seen
<1>4. since = epoch => \A o \in TablesAfter(since) : o.at = epoch
  BY <1>2 DEF TablesAfter
<1>5. "main" \in Tables /\ "other" \in Tables /\ \A t \in Tables : t = "main" \/ t = "other"
  BY DEF Tables
<1>6. /\ main \in Seen \cup {Missing} /\ (known["main"] # Missing => main = known["main"])
      /\ goal.auto => main # Missing
      /\ goal.auto /\ since = epoch /\ known["main"] = Missing => main.at = epoch
  BY <1>3, <1>4, <1>5, Poses3 DEF TableReading
<1>7. other \in Seen \cup {Missing} /\ (known["other"] # Missing => other = known["other"])
  BY <1>3, <1>5, Poses3 DEF TableReading
<1> QED
  BY <1>1, <1>5, <1>6, <1>7

LEMMA ObstaclesShown ==
  ASSUME NEW found \in [Boxes -> Seen \cup {Missing}], NEW seen \in [Tables -> Seen \cup {Missing}], NEW taskBox
  PROVE  /\ Obstacles(found, seen, taskBox) \in [Objects -> Observations]
         /\ \A t \in Tables : Obstacles(found, seen, taskBox)[t] = seen[t]
         /\ \A b \in Boxes : b # taskBox => Obstacles(found, seen, taskBox)[b] = found[b]
         /\ taskBox \in Boxes => Obstacles(found, seen, taskBox)[taskBox] = Missing
<1>1. \A o \in Objects : Obstacles(found, seen, taskBox)[o] =
        IF o \in Tables THEN seen[o] ELSE IF o = taskBox THEN Missing ELSE found[o]
  BY DEF Obstacles
<1>2. \A o \in Objects : (IF o \in Tables THEN seen[o] ELSE IF o = taskBox THEN Missing ELSE found[o]) \in Observations
  BY Poses3 DEF Objects
<1>3. Obstacles(found, seen, taskBox) \in [Objects -> Observations]
  BY <1>2 DEF Obstacles
<1> QED
  BY <1>1, <1>3, Sorts

LEMMA ViewTyped ==
  ASSUME SceneTyped
  PROVE  /\ \A o \in Objects : View[o] = IF ~retaining THEN live[o] ELSE IF o = attached THEN Missing ELSE retained[o]
         /\ View \in [Objects -> Observations]
BY Poses3 DEF View, SceneTyped

LEMMA ViewNext ==
  \A o \in Objects : View'[o] = IF ~retaining' THEN live'[o] ELSE IF o = attached' THEN Missing ELSE retained'[o]
BY DEF View

LEMMA ViewKept ==
  ASSUME UNCHANGED scene_vars
  PROVE  View' = View
BY DEF View, scene_vars

LEMMA Updated ==
  ASSUME SceneTyped, attached # NoBox => live[attached] = Missing,
         NEW observed \in [Objects -> Observations], NEW protected \in SUBSET Boxes,
         NEW confirmed \in BOOLEAN, NEW retain \in BOOLEAN,
         UpdateScene(observed, protected, confirmed, retain)
  PROVE  /\ SceneTyped' /\ retaining' = (retaining \/ retain)
         /\ attached' = IF confirmed THEN NoBox ELSE attached
         /\ \A o \in Kept(protected, confirmed) : live'[o] = live[o]
         /\ attached' = attached => \A o \in Kept(protected, confirmed) : View'[o] = View[o]
         /\ retaining' /\ (retaining /\ confirmed => attached = NoBox) =>
              \A o \in Objects \ Kept(protected, confirmed) : View'[o] = observed[o]
<1>1. PICK kept : kept = Kept(protected, confirmed)
  OBVIOUS
<1>2. /\ \A o \in kept : observed[o] = Missing
      /\ attached' = IF confirmed THEN NoBox ELSE attached
      /\ live' = Replaced(live, observed, kept)
      /\ retained' = IF retaining THEN Replaced(retained, observed, kept) ELSE IF retain THEN live' ELSE retained
      /\ retaining' = (retaining \/ retain)
  BY <1>1 DEF UpdateScene
<1>3. kept \subseteq Objects /\ kept \subseteq Boxes
      /\ (~confirmed /\ attached # NoBox => attached \in kept)
  BY <1>1, Sorts DEF Kept, SceneTyped
<1>4. ASSUME NEW objects \in [Objects -> Observations]
      PROVE  /\ Replaced(objects, observed, kept) \in [Objects -> Observations]
             /\ \A o \in kept : Replaced(objects, observed, kept)[o] = objects[o]
             /\ \A o \in Objects \ kept : Replaced(objects, observed, kept)[o] =
                  IF observed[o] # Missing \/ View[o] # Missing THEN observed[o] ELSE objects[o]
  <2>1. \A o \in Objects : Replaced(objects, observed, kept)[o] =
          IF observed[o] # Missing \/ o \in {p \in Objects \ kept : View[p] # Missing} THEN observed[o] ELSE objects[o]
    BY DEF Replaced
  <2>2. Replaced(objects, observed, kept) \in [Objects -> Observations]
    BY DEF Replaced
  <2> QED
    BY <1>2, <1>3, <2>1, <2>2
<1>5. /\ live \in [Objects -> Observations] /\ retained \in [Objects -> Observations]
      /\ retaining \in BOOLEAN /\ attached \in Boxes \cup {NoBox}
  BY DEF SceneTyped
<1>6. live' \in [Objects -> Observations] /\ retained' \in [Objects -> Observations]
  BY <1>2, <1>4, <1>5
<1>7. SceneTyped'
  BY <1>2, <1>5, <1>6 DEF SceneTyped
<1>8. \A o \in kept : live'[o] = live[o]
  BY <1>2, <1>4, <1>5
<1>9. ASSUME attached' = attached, NEW o \in kept
      PROVE  View'[o] = View[o]
  <2>1. View[o] = IF ~retaining THEN live[o] ELSE IF o = attached THEN Missing ELSE retained[o]
    BY <1>3, ViewTyped
  <2>2. View'[o] = IF ~retaining' THEN live'[o] ELSE IF o = attached' THEN Missing ELSE retained'[o]
    BY <1>3, ViewNext
  <2>3. retaining => retained'[o] = retained[o]
    BY <1>2, <1>4, <1>5
  <2>4. ~retaining /\ retaining' => retained'[o] = live[o]
    BY <1>2, <1>8
  <2>5. o = attached => live[o] = Missing
    BY <1>3, Sorts
  <2> QED
    BY <1>2, <1>5, <1>8, <1>9, <2>1, <2>2, <2>3, <2>4, <2>5
<1>10. ASSUME retaining', retaining /\ confirmed => attached = NoBox, NEW o \in Objects \ kept
       PROVE  View'[o] = observed[o]
  <2>1. View[o] = IF ~retaining THEN live[o] ELSE IF o = attached THEN Missing ELSE retained[o]
    BY ViewTyped
  <2>2. o # attached'
    BY <1>2, <1>3, Sorts
  <2>3. View'[o] = retained'[o]
    BY <1>10, <2>2, ViewNext
  <2>4. CASE retaining
    <3>1. retained'[o] = IF observed[o] # Missing \/ View[o] # Missing THEN observed[o] ELSE retained[o]
      BY <1>2, <1>4, <1>5, <2>4
    <3>2. o # attached
      BY <1>3, <1>10, <2>4, Sorts
    <3> QED
      BY <2>1, <2>3, <2>4, <3>1, <3>2
  <2>5. CASE ~retaining
    <3>1. retained'[o] = live'[o]
      BY <1>2, <1>10, <2>5
    <3>2. live'[o] = IF observed[o] # Missing \/ View[o] # Missing THEN observed[o] ELSE live[o]
      BY <1>2, <1>4, <1>5
    <3> QED
      BY <2>1, <2>3, <2>5, <3>1, <3>2
  <2> QED
    BY <1>5, <2>4, <2>5
<1> QED
  BY <1>1, <1>2, <1>7, <1>8, <1>9, <1>10

LEMMA Applied ==
  ASSUME SceneTyped, active \in Boxes, NEW where \in Observations, ApplyBox(where)
  PROVE  /\ SceneTyped' /\ UNCHANGED <<attached, retaining>>
         /\ live'[active] = where /\ \A o \in Objects \ {active} : live'[o] = live[o]
         /\ attached # active => View'[active] = where
         /\ \A o \in Objects \ {active} : View'[o] = View[o]
<1>1. /\ live' = [live EXCEPT ![active] = where]
      /\ retained' = IF retaining THEN [retained EXCEPT ![active] = where] ELSE retained
      /\ attached' = attached /\ retaining' = retaining
  BY DEF ApplyBox
<1>2. /\ live \in [Objects -> Observations] /\ retained \in [Objects -> Observations]
      /\ retaining \in BOOLEAN /\ attached \in Boxes \cup {NoBox} /\ active \in Objects
  BY Sorts DEF SceneTyped
<1>3. live' \in [Objects -> Observations] /\ retained' \in [Objects -> Observations]
  BY <1>1, <1>2
<1>4. SceneTyped'
  BY <1>1, <1>2, <1>3 DEF SceneTyped
<1>5. live'[active] = where /\ \A o \in Objects \ {active} : live'[o] = live[o] /\ retained'[o] = retained[o]
  BY <1>1, <1>2
<1>6. retaining => retained'[active] = where
  BY <1>1, <1>2
<1>7. attached # active => View'[active] = where
  BY <1>1, <1>2, <1>5, <1>6, ViewNext
<1>8. \A o \in Objects \ {active} : View'[o] = View[o]
  BY <1>1, <1>5, ViewNext, ViewTyped
<1> QED
  BY <1>1, <1>4, <1>5, <1>7, <1>8

-----------------------------------------------------------------------------
(* The steps that change the scene. *)

\* The box of the task, as the protection of its object sees it.
LEMMA OwnBoxFacts ==
  ASSUME ControlTyped, UserTyped, SceneTyped, DispositionByPhase, StateByPhase, AttachedByPhase, Busy
  PROVE  /\ OwnBox = IF PickTarget \/ goal.kind = "reset" THEN NoBox ELSE active
         /\ attached \in {NoBox, active}
         /\ OwnBox = NoBox /\ goal.kind # "reset" => attached = NoBox
         /\ attached # NoBox => live[attached] = Missing
<1>1. Name \in PhaseNames(goal)
  BY NameFacts
<1>2. goal.kind \in Kinds /\ goal \in Goals
  BY DEF ControlTyped, Goals
<1>3. disposition \in {"not_attached", "attached", "released"}
  BY DEF DispositionByPhase
<1>4. goal.kind \in {"place", "move_carry_pose"} => disposition # "not_attached"
  BY DEF DispositionByPhase
<1>5. OwnBox = IF PickTarget \/ goal.kind = "reset" THEN NoBox ELSE active
  BY <1>2, <1>3, <1>4 DEF OwnBox, PickTarget, Kinds
<1>6. attached \in {NoBox, active} /\ (attached # NoBox => live[attached] = Missing)
  BY DEF AttachedByPhase
<1>7. disposition = "not_attached" => Name # "release_scene"
  BY DEF DispositionByPhase, AfterRelease
<1>8. goal.kind # "reset" /\ disposition = "not_attached" => attached = NoBox
  BY <1>7 DEF StateByPhase, AttachedByPhase
<1>9. goal.kind # "reset" /\ active = NoBox => attached = NoBox
  BY <1>6
<1> QED
  BY <1>5, <1>6, <1>8, <1>9 DEF PickTarget

\* A scene acquired for a Continue, whether it is retained or not.
LEMMA NewSceneShown ==
  ASSUME ControlTyped, UserTyped, SceneTyped, DispositionByPhase, StateByPhase, AttachedByPhase, Busy,
         NEW found \in [Boxes -> Seen \cup {Missing}], NEW seen \in [Tables -> Seen \cup {Missing}],
         NEW retain \in BOOLEAN, NewScene(found, seen, retain)
  PROVE  /\ SceneTyped' /\ retaining' = (retaining \/ retain)
         /\ attached' = IF goal.kind = "reset" THEN NoBox ELSE attached
         /\ OwnBox # NoBox => live'[OwnBox] = live[OwnBox] /\ View'[OwnBox] = View[OwnBox]
         /\ retaining' => /\ \A t \in Tables : View'[t] = seen[t]
                          /\ \A b \in Boxes \ {OwnBox} : View'[b] = found[b]
<1>1. PICK own, taskBox : own = OwnBox /\ taskBox = IF PickTarget \/ goal.kind = "reset" THEN NoBox ELSE active
  OBVIOUS
<1>2. /\ own = taskBox /\ attached \in {NoBox, active} /\ (own = NoBox /\ goal.kind # "reset" => attached = NoBox)
      /\ attached # NoBox => live[attached] = Missing
      /\ own \in Boxes \cup {NoBox} /\ own \in {NoBox, active}
  BY <1>1, OwnBoxFacts DEF UserTyped
<1>3. Protected = {own} \ {NoBox}
  <2>1. Protected = IF PickTarget \/ goal.kind = "reset" \/ active = NoBox THEN {} ELSE {active}
    BY DEF Protected
  <2> QED
    BY <1>1, <1>2, <2>1
<1>4. PICK observed, confirmed : observed = Obstacles(found, seen, taskBox) /\ confirmed = (goal.kind = "reset")
  OBVIOUS
<1>5. UpdateScene(observed, Protected, confirmed, retain)
  BY <1>1, <1>4 DEF NewScene
<1>6. /\ observed \in [Objects -> Observations] /\ \A t \in Tables : observed[t] = seen[t]
      /\ \A b \in Boxes : b # taskBox => observed[b] = found[b]
  BY <1>4, ObstaclesShown
<1>7. Kept(Protected, confirmed) = {own} \ {NoBox}
  <2>1. goal.kind # "reset" => attached = NoBox \/ attached = own
    BY <1>2
  <2> QED
    BY <1>3, <1>4, <2>1 DEF Kept
<1>8. confirmed /\ retaining => attached = NoBox
  BY <1>4 DEF AttachedByPhase
<1>9. confirmed \in BOOLEAN /\ Protected \in SUBSET Boxes
  BY <1>2, <1>3, <1>4
<1>10. /\ SceneTyped' /\ retaining' = (retaining \/ retain)
       /\ attached' = IF confirmed THEN NoBox ELSE attached
       /\ \A o \in {own} \ {NoBox} : live'[o] = live[o]
       /\ attached' = attached => \A o \in {own} \ {NoBox} : View'[o] = View[o]
       /\ retaining' => \A o \in Objects \ ({own} \ {NoBox}) : View'[o] = observed[o]
  BY <1>2, <1>5, <1>6, <1>7, <1>8, <1>9, Updated
<1>11. own # NoBox => attached' = attached
  BY <1>1, <1>2, <1>4, <1>10
<1>12. retaining' => /\ \A t \in Tables : View'[t] = seen[t]
                     /\ \A b \in Boxes \ {own} : View'[b] = found[b]
  BY <1>2, <1>6, <1>10, Sorts
<1> QED
  BY <1>1, <1>4, <1>10, <1>11, <1>12

\* A scene taken by a phase that had none.
LEMMA CaptureShown ==
  ASSUME SceneTyped, ~retaining, attached # NoBox => live[attached] = Missing,
         NEW found \in [Boxes -> Seen \cup {Missing}], NEW seen \in [Tables -> Seen \cup {Missing}],
         NEW taskBox, NEW protected \in SUBSET Boxes, NEW confirmed \in BOOLEAN, NEW retain \in BOOLEAN,
         Kept(protected, confirmed) \subseteq {taskBox},
         CaptureScene(found, seen, taskBox, protected, confirmed, retain)
  PROVE  /\ SceneTyped' /\ SnapshotTyped' /\ retaining' = retain
         /\ captured' = retain /\ boxes' = found /\ tables' = seen
         /\ attached' = IF confirmed THEN NoBox ELSE attached
         /\ attached' = attached =>
              \A o \in Kept(protected, confirmed) : live'[o] = live[o] /\ View'[o] = View[o]
         /\ retain => /\ \A t \in Tables : View'[t] = tables'[t]
                      /\ \A b \in Boxes : b # taskBox => View'[b] = boxes'[b]
<1>1. PICK observed, kept : observed = Obstacles(found, seen, taskBox) /\ kept = Kept(protected, confirmed)
  OBVIOUS
<1>2. /\ UpdateScene(observed, protected, confirmed, retain)
      /\ boxes' = found /\ tables' = seen /\ captured' = retain
  BY <1>1 DEF CaptureScene
<1>3. /\ observed \in [Objects -> Observations] /\ \A t \in Tables : observed[t] = seen[t]
      /\ \A b \in Boxes : b # taskBox => observed[b] = found[b]
  BY <1>1, ObstaclesShown
<1>4. retaining \in BOOLEAN
  BY DEF SceneTyped
<1>5. /\ SceneTyped' /\ retaining' = (retaining \/ retain)
      /\ attached' = IF confirmed THEN NoBox ELSE attached
      /\ \A o \in kept : live'[o] = live[o]
      /\ attached' = attached => \A o \in kept : View'[o] = View[o]
      /\ retaining' => \A o \in Objects \ kept : View'[o] = observed[o]
  BY <1>1, <1>2, <1>3, Updated
<1>6. retaining' = retain
  BY <1>5
<1>7. SnapshotTyped'
  BY <1>2, Poses3 DEF SnapshotTyped
<1>8. kept \subseteq {taskBox} /\ kept \subseteq Boxes
  BY <1>1, Sorts DEF Kept, SceneTyped
<1>9. ASSUME retain
      PROVE  /\ \A t \in Tables : View'[t] = tables'[t]
             /\ \A b \in Boxes : b # taskBox => View'[b] = boxes'[b]
  BY <1>2, <1>3, <1>5, <1>6, <1>8, <1>9, Sorts
<1> QED
  BY <1>1, <1>2, <1>5, <1>6, <1>7, <1>9

\* What a request and its readings leave of the snapshot's age.
FreshBoxes == \A b \in Boxes : boxes[b] = Missing \/ boxes[b].at = epoch
FreshMain == goal.auto => tables["main"] # Missing /\ tables["main"].at = epoch

LEMMA ContinueSceneEffect ==
  ASSUME IInv, ContinueScene
  PROVE  /\ Name' = Name /\ OwnBox' = OwnBox /\ PickTarget' = PickTarget /\ Busy /\ Busy'
         /\ SceneTyped' /\ SnapshotTyped' /\ captured' /\ retaining'
         /\ attached' = IF goal.kind = "reset" THEN NoBox ELSE attached
         /\ OwnBox # NoBox => live'[OwnBox] = live[OwnBox] /\ View'[OwnBox] = View[OwnBox]
         /\ \A t \in Tables : View'[t] = tables'[t]
         /\ \A b \in Boxes \ {OwnBox} : View'[b] = boxes'[b]
         /\ FreshBoxes' /\ FreshMain'
<1>1. /\ ControlTyped /\ TimeTyped /\ UserTyped /\ SnapshotTyped /\ SceneTyped /\ DispositionByPhase
      /\ StateByPhase /\ AttachedByPhase /\ StampByPoint
  BY TypeParts DEF IInv
<1>2. /\ continueStamp # 0 /\ Busy /\ Busy' /\ goal' = goal /\ disposition' = disposition /\ stage' = stage
      /\ epoch' = epoch /\ active' = active /\ captured' = TRUE
  BY DEF ContinueScene, ContinueScenePending, Busy, task_vars
<1>3. continueStamp = epoch /\ continueStamp \in 1..epoch
  <2>1. continueStamp = epoch
    BY <1>1, <1>2 DEF StampByPoint
  <2>2. epoch \in Nat /\ continueStamp \in 0..epoch
    BY <1>1, SceneAssumption DEF TimeTyped
  <2> QED
    BY <1>2, <2>1, <2>2
<1>4. PICK found \in BoxReadings(continueStamp, IF PickTarget THEN active ELSE NoBox),
           seen \in TableReadings(continueStamp, KnownTables) :
        NewScene(found, seen, TRUE) /\ boxes' = found /\ tables' = seen
  BY DEF ContinueScene
<1>5. KnownTables \in [Tables -> Seen \cup {Missing}] /\ \A t \in Tables : KnownTables[t] = Missing
  BY DEF KnownTables, Nothing
<1>6. /\ found \in [Boxes -> Seen \cup {Missing}]
      /\ \A b \in Boxes : found[b] = Missing \/ found[b].at = epoch
  BY <1>1, <1>3, BoxesRead
<1>7. /\ seen \in [Tables -> Seen \cup {Missing}]
      /\ goal.auto => seen["main"] # Missing /\ seen["main"].at = epoch
  BY <1>1, <1>3, <1>5, TablesRead, Sorts
<1>8. /\ SceneTyped' /\ retaining'
      /\ attached' = IF goal.kind = "reset" THEN NoBox ELSE attached
      /\ OwnBox # NoBox => live'[OwnBox] = live[OwnBox] /\ View'[OwnBox] = View[OwnBox]
      /\ retaining' => /\ \A t \in Tables : View'[t] = seen[t]
                       /\ \A b \in Boxes \ {OwnBox} : View'[b] = found[b]
  <2>1. retaining' = (retaining \/ TRUE) /\ TRUE \in BOOLEAN
    BY <1>1, <1>2, <1>4, <1>6, <1>7, NewSceneShown
  <2> QED
    BY <1>1, <1>2, <1>4, <1>6, <1>7, <2>1, NewSceneShown
<1>9. SnapshotTyped'
  BY <1>2, <1>4, <1>6, <1>7, Poses3 DEF SnapshotTyped
<1>10. Name' = Name /\ OwnBox' = OwnBox /\ PickTarget' = PickTarget
  BY <1>2, SameName DEF OwnBox, PickTarget
<1>11. FreshBoxes' /\ FreshMain'
  BY <1>2, <1>4, <1>6, <1>7 DEF FreshBoxes, FreshMain
<1> QED
  BY <1>2, <1>4, <1>8, <1>9, <1>10, <1>11

LEMMA ContinueSceneFailsEffect ==
  ASSUME IInv, ContinueSceneFails
  PROVE  /\ Name' = Name /\ OwnBox' = OwnBox /\ PickTarget' = PickTarget /\ Busy /\ Busy'
         /\ SceneTyped' /\ retaining' = retaining /\ continueStamp' # 0 /\ continueStamp # 0
         /\ attached' = attached \/ (goal.kind = "reset" /\ attached' = NoBox)
         /\ attached' # NoBox => live'[attached'] = live[attached']
         /\ OwnBox # NoBox => live'[OwnBox] = live[OwnBox] /\ View'[OwnBox] = View[OwnBox]
         /\ goal.kind # "move_carry_pose"
<1>1. /\ ControlTyped /\ TimeTyped /\ UserTyped /\ SnapshotTyped /\ SceneTyped /\ DispositionByPhase
      /\ StateByPhase /\ AttachedByPhase /\ StampByPoint
  BY TypeParts DEF IInv
<1>2. /\ continueStamp # 0 /\ Busy /\ Busy' /\ goal' = goal /\ disposition' = disposition /\ stage' = stage
      /\ epoch' = epoch /\ active' = active /\ continueStamp' = continueStamp /\ goal.kind # "move_carry_pose"
  BY DEF ContinueSceneFails, ContinueScenePending, Busy, task_vars, user_vars
<1>3. continueStamp \in 1..epoch
  <2>1. epoch \in Nat /\ continueStamp \in 0..epoch
    BY <1>1, SceneAssumption DEF TimeTyped
  <2> QED
    BY <1>2, <2>1
<1>4. Name' = Name /\ OwnBox' = OwnBox /\ PickTarget' = PickTarget
  BY <1>2, SameName DEF OwnBox, PickTarget
<1>5. CASE UNCHANGED scene_vars
  BY <1>1, <1>2, <1>4, <1>5, ViewKept DEF scene_vars, SceneTyped
<1>6. CASE \E found \in BoxReadings(continueStamp, IF PickTarget THEN active ELSE NoBox),
              seen \in TableReadings(continueStamp, KnownTables) : NewScene(found, seen, FALSE)
  <2>1. PICK found \in BoxReadings(continueStamp, IF PickTarget THEN active ELSE NoBox),
             seen \in TableReadings(continueStamp, KnownTables) : NewScene(found, seen, FALSE)
    BY <1>6
  <2>2. KnownTables \in [Tables -> Seen \cup {Missing}]
    BY DEF KnownTables, Nothing
  <2>3. found \in [Boxes -> Seen \cup {Missing}]
    BY <1>1, <1>3, BoxesRead
  <2>4. seen \in [Tables -> Seen \cup {Missing}]
    BY <1>1, <1>3, <2>2, TablesRead
  <2>5. /\ SceneTyped' /\ retaining' = (retaining \/ FALSE)
        /\ attached' = IF goal.kind = "reset" THEN NoBox ELSE attached
        /\ OwnBox # NoBox => live'[OwnBox] = live[OwnBox] /\ View'[OwnBox] = View[OwnBox]
    BY <1>1, <1>2, <2>1, <2>3, <2>4, NewSceneShown
  <2>6. retaining' = retaining
    BY <1>1, <2>5 DEF SceneTyped
  <2>7. /\ attached \in {NoBox, active} /\ OwnBox \in {NoBox, active}
        /\ OwnBox = NoBox /\ goal.kind # "reset" => attached = NoBox
    BY <1>1, <1>2, OwnBoxFacts
  <2>8. attached' # NoBox => live'[attached'] = live[attached']
    BY <2>5, <2>7
  <2> QED
    BY <1>2, <1>4, <2>5, <2>6, <2>8
<1> QED
  BY <1>5, <1>6 DEF ContinueSceneFails

\* Where a task stands when it is in the body of a phase.
LEMMA BodyFacts ==
  ASSUME IInv, pc = "body"
  PROVE  /\ ControlTyped /\ TimeTyped /\ UserTyped /\ SnapshotTyped /\ SceneTyped /\ Busy
         /\ Name \in PhaseNames(goal) /\ continueStamp = 0
         /\ goal.kind # "move_carry_pose" => request = epoch
         /\ request \in 1..epoch /\ (attached # NoBox => live[attached] = Missing)
         /\ ~captured /\ goal.kind # "move_carry_pose" => ~retaining
<1>1. ControlTyped /\ TimeTyped /\ UserTyped /\ SnapshotTyped /\ SceneTyped
  BY TypeParts DEF IInv
<1>2. Busy /\ continueStamp = 0 /\ (goal.kind # "move_carry_pose" => request = epoch)
  BY DEF IInv, StampByPoint, Busy
<1>3. (attached # NoBox => live[attached] = Missing) /\ (~captured /\ goal.kind # "move_carry_pose" => ~retaining)
  BY DEF IInv, AttachedByPhase, CapturedByPhase
<1> QED
  BY <1>1, <1>2, <1>3, NameFacts DEF TimeTyped

\* The phase that selects the box, while nothing is in the hands.
LEMMA SelectFacts ==
  ASSUME IInv, InBody({"select_box"})
  PROVE  /\ goal.kind \in {"pick", "pick_place"} /\ disposition = "not_attached" /\ PickTarget
         /\ state = "EMPTY" /\ attached = NoBox /\ Kept({}, FALSE) = {}
<1>1. pc = "body" /\ Name = "select_box"
  BY DEF InBody
<1>2. Busy /\ Name \in PhaseNames(goal) /\ goal \in Goals
  BY <1>1, BodyFacts DEF ControlTyped
<1>3. goal.kind \in {"pick", "pick_place"}
  BY <1>1, <1>2 DEF PhaseNames, TargetPhase, BeforeAttach, AfterRelease, Goals, Kinds
<1>4. disposition = "not_attached"
  BY <1>1, <1>2, <1>3 DEF IInv, DispositionByPhase, WithBox, AfterRelease
<1>5. state = "EMPTY"
  BY <1>2, <1>3, <1>4 DEF IInv, StateByPhase
<1>6. attached = NoBox
  BY <1>1, <1>5 DEF IInv, AttachedByPhase
<1> QED
  BY <1>3, <1>4, <1>5, <1>6 DEF PickTarget, Kept

\* The first capture reads what is fresh, but for tables this task already knows.
LEMMA CaptureReads ==
  ASSUME TimeTyped, SnapshotTyped, request = epoch, NEW required,
         NEW found \in BoxReadings(request, required), NEW seen \in TableReadings(request, tables)
  PROVE  /\ found \in [Boxes -> Seen \cup {Missing}] /\ seen \in [Tables -> Seen \cup {Missing}]
         /\ \A b \in Boxes : found[b] = Missing \/ found[b].at = epoch
         /\ required # NoBox => found[required] # Missing
         /\ goal.auto => /\ seen["main"] # Missing
                         /\ seen["main"] = tables["main"] \/ seen["main"].at = epoch
         /\ \A t \in Tables : tables[t] # Missing => seen[t] = tables[t]
<1>1. request \in 1..epoch /\ tables \in [Tables -> Seen \cup {Missing}]
  BY DEF TimeTyped, SnapshotTyped
<1>2. /\ found \in [Boxes -> Seen \cup {Missing}]
      /\ \A b \in Boxes : found[b] = Missing \/ found[b].at = epoch
      /\ required # NoBox => found[required] # Missing
  BY <1>1, BoxesRead
<1>3. /\ seen \in [Tables -> Seen \cup {Missing}]
      /\ \A t \in Tables : tables[t] # Missing => seen[t] = tables[t]
      /\ goal.auto => seen["main"] # Missing
      /\ goal.auto /\ tables["main"] = Missing => seen["main"].at = epoch
  BY <1>1, TablesRead
<1> QED
  BY <1>2, <1>3, Sorts

LEMMA SelectAndCaptureEffect ==
  ASSUME IInv, SelectAndCapture
  PROVE  /\ Busy /\ Busy' /\ goal' = goal /\ Name = "select_box" /\ Name' = "pick_scene" /\ PickTarget'
         /\ active' \in Boxes /\ selected' /\ target' = boxes'[active'] /\ "pick" \notin behind'
         /\ OwnBox' = NoBox /\ attached = NoBox /\ attached' = NoBox
         /\ SceneTyped' /\ SnapshotTyped' /\ captured' /\ retaining'
         /\ \A t \in Tables : View'[t] = tables'[t]
         /\ \A b \in Boxes : b # active' => View'[b] = boxes'[b]
         /\ FreshBoxes'
         /\ goal.auto => /\ tables'["main"] # Missing
                         /\ tables'["main"] = tables["main"] \/ tables'["main"].at = epoch'
         /\ \A t \in Tables : tables[t] # Missing => tables'[t] = tables[t]
<1>1. InBody({"select_box"}) /\ pc = "body" /\ ~captured /\ Name = "select_box"
  BY DEF SelectAndCapture, InBody
<1>2. /\ ControlTyped /\ TimeTyped /\ SnapshotTyped /\ SceneTyped /\ Busy
      /\ goal.kind \in {"pick", "pick_place"} /\ disposition = "not_attached"
      /\ attached = NoBox /\ Kept({}, FALSE) = {} /\ request = epoch /\ ~retaining
  BY <1>1, BodyFacts, SelectFacts
<1>3. PICK box \in Boxes : /\ Select(box)
                           /\ \E found \in BoxReadings(request, box), seen \in TableReadings(request, tables) :
                                CaptureScene(found, seen, box, {}, FALSE, TRUE) /\ target' = found[box]
  BY DEF SelectAndCapture
<1>4. PICK found \in BoxReadings(request, box), seen \in TableReadings(request, tables) :
        CaptureScene(found, seen, box, {}, FALSE, TRUE) /\ target' = found[box]
  BY <1>3
<1>5. active' = box /\ selected' = TRUE
  BY <1>3 DEF Select
<1>6. /\ found \in [Boxes -> Seen \cup {Missing}] /\ seen \in [Tables -> Seen \cup {Missing}]
      /\ \A b \in Boxes : found[b] = Missing \/ found[b].at = epoch
      /\ goal.auto => seen["main"] # Missing /\ (seen["main"] = tables["main"] \/ seen["main"].at = epoch)
      /\ \A t \in Tables : tables[t] # Missing => seen[t] = tables[t]
  BY <1>2, <1>3, <1>4, CaptureReads
<1>7. /\ SceneTyped' /\ SnapshotTyped' /\ retaining' = TRUE
      /\ captured' = TRUE /\ boxes' = found /\ tables' = seen /\ attached' = NoBox
      /\ \A t \in Tables : View'[t] = tables'[t]
      /\ \A b \in Boxes : b # box => View'[b] = boxes'[b]
  <2>1. Kept({}, FALSE) \subseteq {box} /\ {} \in SUBSET Boxes /\ TRUE \in BOOLEAN /\ FALSE \in BOOLEAN
    BY <1>2
  <2> QED
    BY <1>2, <1>4, <1>6, <2>1, CaptureShown
<1>8. goal' = goal /\ disposition' = disposition /\ stage' = stage + 1 /\ epoch' = epoch /\ Busy'
      /\ behind' = behind \ {"pick"}
  BY DEF SelectAndCapture, Succeeded, task_vars, time_vars, Busy
<1>9. Name' = "pick_scene"
  <2>1. stage # Len(Stages(goal))
    BY <1>1, <1>2, NameFacts DEF Final
  <2>2. <<Name, Name'>> \in Follows(goal)
    BY <1>2, <1>8, <2>1, NextName
  <2> QED
    BY <1>1, <2>2 DEF Follows
<1>10. OwnBox' = NoBox /\ PickTarget'
  BY <1>2, <1>8 DEF OwnBox, PickTarget
<1>11. FreshBoxes'
  BY <1>6, <1>7, <1>8 DEF FreshBoxes
<1>12. /\ \A b \in Boxes : b # active' => View'[b] = boxes'[b]
       /\ target' = boxes'[active'] /\ active' \in Boxes
       /\ goal.auto => tables'["main"] # Missing /\ (tables'["main"] = tables["main"] \/ tables'["main"].at = epoch')
       /\ \A t \in Tables : tables[t] # Missing => tables'[t] = tables[t]
  BY <1>3, <1>4, <1>5, <1>6, <1>7, <1>8
<1> QED
  BY <1>1, <1>2, <1>5, <1>7, <1>8, <1>9, <1>10, <1>11, <1>12

LEMMA SelectAndCaptureFailsEffect ==
  ASSUME IInv, SelectAndCaptureFails
  PROVE  /\ Busy /\ Busy' /\ goal' = goal /\ Name = "select_box" /\ Name' = "select_box" /\ PickTarget
         /\ active' \in Boxes /\ selected' /\ attached = NoBox /\ attached' = NoBox
         /\ SceneTyped' /\ SnapshotTyped' /\ ~captured /\ ~captured' /\ ~retaining'
         /\ goal.auto => \/ tables'["main"] = tables["main"]
                         \/ tables'["main"] # Missing /\ tables'["main"].at = epoch'
         /\ tables["main"] # Missing => tables'["main"] = tables["main"]
<1>1. InBody({"select_box"}) /\ pc = "body" /\ ~captured /\ Name = "select_box"
  BY DEF SelectAndCaptureFails, InBody
<1>2. /\ ControlTyped /\ TimeTyped /\ SnapshotTyped /\ SceneTyped /\ Busy
      /\ goal.kind \in {"pick", "pick_place"} /\ disposition = "not_attached"
      /\ attached = NoBox /\ Kept({}, FALSE) = {} /\ request = epoch /\ ~retaining /\ PickTarget
  BY <1>1, BodyFacts, SelectFacts
<1>3. PICK box \in Boxes :
        /\ Select(box)
        /\ \E found \in BoxReadings(request, box), seen \in TableReadings(request, tables) :
             \/ CaptureScene(found, seen, box, {}, FALSE, FALSE)
             \/ /\ tables' \in {tables, [tables EXCEPT !["main"] = seen["main"]], seen}
                /\ UNCHANGED <<captured, boxes, scene_vars>>
  BY DEF SelectAndCaptureFails
<1>4. active' = box /\ selected' = TRUE
  BY <1>3 DEF Select
<1>5. PICK found \in BoxReadings(request, box), seen \in TableReadings(request, tables) :
        \/ CaptureScene(found, seen, box, {}, FALSE, FALSE)
        \/ /\ tables' \in {tables, [tables EXCEPT !["main"] = seen["main"]], seen}
           /\ UNCHANGED <<captured, boxes, scene_vars>>
  BY <1>3
<1>6. /\ found \in [Boxes -> Seen \cup {Missing}] /\ seen \in [Tables -> Seen \cup {Missing}]
      /\ goal.auto => seen["main"] # Missing /\ (seen["main"] = tables["main"] \/ seen["main"].at = epoch)
      /\ tables["main"] # Missing => seen["main"] = tables["main"]
  BY <1>2, <1>3, <1>5, CaptureReads, Sorts
<1>7. goal' = goal /\ stage' = stage /\ epoch' = epoch /\ Busy'
  BY DEF SelectAndCaptureFails, Failed, task_vars, time_vars, Busy
<1>8. Name' = Name
  BY <1>7, SameName
<1>9. /\ SceneTyped' /\ SnapshotTyped' /\ ~captured' /\ ~retaining' /\ attached' = NoBox
      /\ goal.auto => \/ tables'["main"] = tables["main"]
                      \/ tables'["main"] # Missing /\ tables'["main"].at = epoch
      /\ tables["main"] # Missing => tables'["main"] = tables["main"]
  <2>1. CASE CaptureScene(found, seen, box, {}, FALSE, FALSE)
    <3>1. Kept({}, FALSE) \subseteq {box} /\ {} \in SUBSET Boxes /\ FALSE \in BOOLEAN
      BY <1>2
    <3> QED
      BY <1>2, <1>6, <2>1, <3>1, CaptureShown
  <2>2. CASE /\ tables' \in {tables, [tables EXCEPT !["main"] = seen["main"]], seen}
             /\ UNCHANGED <<captured, boxes, scene_vars>>
    <3>1. tables' \in [Tables -> Seen \cup {Missing}] /\ tables'["main"] \in {tables["main"], seen["main"]}
      BY <1>2, <1>6, <2>2, Sorts DEF SnapshotTyped
    <3> QED
      BY <1>1, <1>2, <1>6, <2>2, <3>1 DEF SnapshotTyped, SceneTyped, scene_vars
  <2> QED
    BY <1>5, <2>1, <2>2
<1> QED
  BY <1>1, <1>2, <1>4, <1>7, <1>8, <1>9

\* The first scene of a Place, with the box in the hands, or of a Reset.
LEMMA TakeFacts ==
  ASSUME IInv, InBody({"scene", "reset_scene"})
  PROVE  /\ Busy /\ goal.kind # "move_carry_pose" /\ OwnBox = CapturesFor /\ ~PickTarget
         /\ Name = "scene" => /\ goal.kind \in {"place", "pick_place"} /\ attached = active /\ active \in Boxes
                              /\ disposition = "attached"
         /\ Name = "reset_scene" => goal.kind = "reset" /\ CapturesFor = NoBox
         /\ Kept({CapturesFor} \ {NoBox}, Name = "reset_scene") = {CapturesFor} \ {NoBox}
<1>1. pc = "body" /\ Name \in {"scene", "reset_scene"}
  BY DEF InBody
<1>2. Busy /\ Name \in PhaseNames(goal) /\ goal \in Goals
  BY <1>1, BodyFacts DEF ControlTyped
<1>3. CASE Name = "scene"
  <2>1. goal.kind \in {"place", "pick_place"}
    BY <1>2, <1>3 DEF PhaseNames, TargetPhase, BeforeAttach, AfterRelease, Goals, Kinds
  <2>2. disposition = "attached"
    BY <1>2, <1>3, <2>1 DEF IInv, DispositionByPhase, WithBox, AfterRelease
  <2>3. state = "HOLDING"
    BY <1>2, <2>1, <2>2 DEF IInv, StateByPhase
  <2>4. attached = active /\ active \in Boxes
    BY <1>3, <2>3 DEF IInv, AttachedByPhase
  <2>5. CapturesFor = active
    BY <1>3 DEF CapturesFor
  <2>6. Kept({active} \ {NoBox}, FALSE) = {active} \ {NoBox}
    BY <2>4 DEF Kept
  <2> QED
    BY <1>2, <1>3, <2>1, <2>2, <2>4, <2>5, <2>6 DEF OwnBox, PickTarget
<1>4. CASE Name = "reset_scene"
  <2>1. goal.kind = "reset"
    BY <1>2, <1>4 DEF PhaseNames, TargetPhase, BeforeAttach, AfterRelease, Goals, Kinds
  <2>2. CapturesFor = NoBox
    BY <1>4 DEF CapturesFor
  <2> QED
    BY <1>2, <1>4, <2>1, <2>2 DEF OwnBox, PickTarget, Kept
<1> QED
  BY <1>1, <1>3, <1>4

LEMMA TakeSceneEffect ==
  ASSUME IInv, TakeScene, ~captured
  PROVE  /\ Busy /\ Busy' /\ goal' = goal /\ Name' \in {"place", "reset"} /\ ~PickTarget /\ ~PickTarget'
         /\ OwnBox' = OwnBox /\ goal.kind # "move_carry_pose"
         /\ SceneTyped' /\ SnapshotTyped' /\ captured' /\ retaining'
         /\ attached' = IF goal.kind = "reset" THEN NoBox ELSE attached
         /\ OwnBox # NoBox => live'[OwnBox] = live[OwnBox] /\ View'[OwnBox] = View[OwnBox]
         /\ \A t \in Tables : View'[t] = tables'[t]
         /\ \A b \in Boxes \ {OwnBox} : View'[b] = boxes'[b]
         /\ FreshBoxes'
         /\ goal.auto => /\ tables'["main"] # Missing
                         /\ tables'["main"] = tables["main"] \/ tables'["main"].at = epoch'
         /\ \A t \in Tables : tables[t] # Missing => tables'[t] = tables[t]
<1>1. InBody({"scene", "reset_scene"}) /\ pc = "body" /\ Name \in {"scene", "reset_scene"}
  BY DEF TakeScene, InBody
<1>2. /\ ControlTyped /\ TimeTyped /\ UserTyped /\ SnapshotTyped /\ SceneTyped /\ Busy /\ Name \in PhaseNames(goal)
      /\ goal.kind # "move_carry_pose" /\ request = epoch /\ ~retaining
      /\ attached # NoBox => live[attached] = Missing
  BY <1>1, BodyFacts, TakeFacts
<1>3. /\ OwnBox = CapturesFor /\ ~PickTarget
      /\ Kept({OwnBox} \ {NoBox}, Name = "reset_scene") = {OwnBox} \ {NoBox}
      /\ Name = "scene" => goal.kind # "reset"
      /\ Name = "reset_scene" => goal.kind = "reset" /\ OwnBox = NoBox
      /\ OwnBox \in Boxes \cup {NoBox}
  <2>1. OwnBox = CapturesFor /\ ~PickTarget
    BY <1>1, TakeFacts
  <2>2. Kept({CapturesFor} \ {NoBox}, Name = "reset_scene") = {CapturesFor} \ {NoBox}
    BY <1>1, TakeFacts
  <2>3. CapturesFor \in Boxes \cup {NoBox}
    BY <1>2 DEF CapturesFor, UserTyped
  <2>4. /\ Name = "scene" => goal.kind # "reset"
        /\ Name = "reset_scene" => goal.kind = "reset" /\ CapturesFor = NoBox
    BY <1>1, TakeFacts
  <2> QED
    BY <2>1, <2>2, <2>3, <2>4
<1>4. PICK own, confirmed : own = OwnBox /\ confirmed = (Name = "reset_scene")
  OBVIOUS
<1>5. PICK found \in BoxReadings(request, NoBox), seen \in TableReadings(request, tables) :
        CaptureScene(found, seen, own, {own} \ {NoBox}, confirmed, TRUE)
  BY <1>3, <1>4 DEF TakeScene
<1>6. /\ found \in [Boxes -> Seen \cup {Missing}] /\ seen \in [Tables -> Seen \cup {Missing}]
      /\ \A b \in Boxes : found[b] = Missing \/ found[b].at = epoch
      /\ goal.auto => seen["main"] # Missing /\ (seen["main"] = tables["main"] \/ seen["main"].at = epoch)
      /\ \A t \in Tables : tables[t] # Missing => seen[t] = tables[t]
  BY <1>2, <1>5, CaptureReads, Sorts
<1>7. Kept({own} \ {NoBox}, confirmed) = {own} \ {NoBox} /\ {own} \ {NoBox} \in SUBSET Boxes /\ confirmed \in BOOLEAN
  BY <1>3, <1>4
<1>8. /\ SceneTyped' /\ SnapshotTyped' /\ retaining' = TRUE
      /\ captured' = TRUE /\ boxes' = found /\ tables' = seen
      /\ attached' = IF confirmed THEN NoBox ELSE attached
      /\ attached' = attached =>
           \A o \in {own} \ {NoBox} : live'[o] = live[o] /\ View'[o] = View[o]
      /\ \A t \in Tables : View'[t] = tables'[t]
      /\ \A b \in Boxes : b # own => View'[b] = boxes'[b]
  <2>1. PICK protected : protected = {own} \ {NoBox}
    OBVIOUS
  <2>2. /\ Kept(protected, confirmed) = protected /\ Kept(protected, confirmed) \subseteq {own}
        /\ protected \in SUBSET Boxes /\ confirmed \in BOOLEAN /\ TRUE \in BOOLEAN
    BY <1>7, <2>1
  <2>3. CaptureScene(found, seen, own, protected, confirmed, TRUE)
    BY <1>5, <2>1
  <2>4. /\ SceneTyped' /\ SnapshotTyped' /\ retaining' = TRUE
        /\ captured' = TRUE /\ boxes' = found /\ tables' = seen
        /\ attached' = IF confirmed THEN NoBox ELSE attached
        /\ attached' = attached =>
             \A o \in Kept(protected, confirmed) : live'[o] = live[o] /\ View'[o] = View[o]
        /\ \A t \in Tables : View'[t] = tables'[t]
        /\ \A b \in Boxes : b # own => View'[b] = boxes'[b]
    <3>1. CASE confirmed = TRUE
      <4>1. /\ CaptureScene(found, seen, own, protected, TRUE, TRUE) /\ Kept(protected, TRUE) \subseteq {own}
            /\ TRUE \in BOOLEAN
        BY <2>2, <2>3, <3>1
      <4>2. /\ SceneTyped' /\ SnapshotTyped' /\ retaining' = TRUE
            /\ captured' = TRUE /\ boxes' = found /\ tables' = seen
            /\ attached' = NoBox
            /\ attached' = attached =>
                 \A o \in Kept(protected, TRUE) : live'[o] = live[o] /\ View'[o] = View[o]
            /\ \A t \in Tables : View'[t] = tables'[t]
            /\ \A b \in Boxes : b # own => View'[b] = boxes'[b]
        BY <1>2, <1>6, <2>2, <4>1, CaptureShown
      <4> QED
        BY <3>1, <4>2
    <3>2. CASE confirmed = FALSE
      <4>1. /\ CaptureScene(found, seen, own, protected, FALSE, TRUE) /\ Kept(protected, FALSE) \subseteq {own}
            /\ TRUE \in BOOLEAN /\ FALSE \in BOOLEAN
        BY <2>2, <2>3, <3>2
      <4>2. /\ SceneTyped' /\ SnapshotTyped' /\ retaining' = TRUE
            /\ captured' = TRUE /\ boxes' = found /\ tables' = seen
            /\ attached' = attached
            /\ attached' = attached =>
                 \A o \in Kept(protected, FALSE) : live'[o] = live[o] /\ View'[o] = View[o]
            /\ \A t \in Tables : View'[t] = tables'[t]
            /\ \A b \in Boxes : b # own => View'[b] = boxes'[b]
        BY <1>2, <1>6, <2>2, <4>1, CaptureShown
      <4> QED
        BY <3>2, <4>2
    <3> QED
      BY <2>2, <3>1, <3>2
  <2> QED
    BY <2>1, <2>2, <2>4
<1>9. goal' = goal /\ disposition' = disposition /\ stage' = stage + 1 /\ epoch' = epoch /\ Busy' /\ active' = active
  BY DEF TakeScene, Succeeded, task_vars, time_vars, user_vars, Busy
<1>10. Name' \in {"place", "reset"}
  <2>1. stage # Len(Stages(goal))
    BY <1>1, <1>2, NameFacts DEF Final
  <2>2. <<Name, Name'>> \in Follows(goal)
    BY <1>2, <1>9, <2>1, NextName
  <2> QED
    BY <1>1, <2>2 DEF Follows
<1>11. OwnBox' = OwnBox /\ PickTarget' = PickTarget
  BY <1>9 DEF OwnBox, PickTarget
<1>12. FreshBoxes'
  BY <1>6, <1>8, <1>9 DEF FreshBoxes
<1>13. confirmed = (goal.kind = "reset") /\ (own # NoBox => ~confirmed)
  BY <1>1, <1>3, <1>4
<1>14. /\ goal.auto => tables'["main"] # Missing /\ (tables'["main"] = tables["main"] \/ tables'["main"].at = epoch')
       /\ \A t \in Tables : tables[t] # Missing => tables'[t] = tables[t]
  BY <1>6, <1>8, <1>9
<1>15. /\ attached' = IF goal.kind = "reset" THEN NoBox ELSE attached
       /\ OwnBox # NoBox => live'[OwnBox] = live[OwnBox] /\ View'[OwnBox] = View[OwnBox]
       /\ \A b \in Boxes \ {OwnBox} : View'[b] = boxes'[b]
  BY <1>4, <1>8, <1>13
<1> QED
  BY <1>2, <1>3, <1>8, <1>9, <1>10, <1>11, <1>12, <1>14, <1>15

LEMMA TakeSceneFailsEffect ==
  ASSUME IInv, TakeSceneFails
  PROVE  /\ Busy /\ Busy' /\ goal' = goal /\ Name' = Name /\ ~PickTarget /\ ~PickTarget' /\ OwnBox' = OwnBox
         /\ goal.kind # "move_carry_pose" /\ Name \in {"scene", "reset_scene"}
         /\ SceneTyped' /\ SnapshotTyped' /\ ~captured /\ ~captured' /\ ~retaining'
         /\ attached' = attached \/ (goal.kind = "reset" /\ attached' = NoBox)
         /\ attached' # NoBox => live'[attached'] = live[attached']
         /\ OwnBox # NoBox => live'[OwnBox] = live[OwnBox] /\ View'[OwnBox] = View[OwnBox]
         /\ goal.auto => \/ tables'["main"] = tables["main"]
                         \/ tables'["main"] # Missing /\ tables'["main"].at = epoch'
         /\ tables["main"] # Missing => tables'["main"] = tables["main"]
<1>1. InBody({"scene", "reset_scene"}) /\ pc = "body" /\ Name \in {"scene", "reset_scene"} /\ ~captured
  BY DEF TakeSceneFails, InBody
<1>2. /\ ControlTyped /\ TimeTyped /\ UserTyped /\ SnapshotTyped /\ SceneTyped /\ Busy
      /\ goal.kind # "move_carry_pose" /\ request = epoch /\ ~retaining
      /\ attached # NoBox => live[attached] = Missing
  BY <1>1, BodyFacts, TakeFacts
<1>3. /\ OwnBox = CapturesFor /\ ~PickTarget
      /\ Name = "scene" => goal.kind # "reset"
      /\ Name = "reset_scene" => goal.kind = "reset" /\ CapturesFor = NoBox
  BY <1>1, TakeFacts
<1>4. OwnBox \in Boxes \cup {NoBox}
  BY <1>2, <1>3 DEF CapturesFor, UserTyped
<1>5. PICK own, protected : own = OwnBox /\ protected = {own} \ {NoBox}
  OBVIOUS
<1>6. Kept(protected, Name = "reset_scene") = protected /\ protected \subseteq {own} /\ protected \in SUBSET Boxes
  <2>1. Kept({CapturesFor} \ {NoBox}, Name = "reset_scene") = {CapturesFor} \ {NoBox}
    BY <1>1, TakeFacts
  <2> QED
    BY <1>3, <1>4, <1>5, <2>1
<1>7. PICK found \in BoxReadings(request, NoBox), seen \in TableReadings(request, tables) :
        \/ CaptureScene(found, seen, own, protected, Name = "reset_scene", FALSE)
        \/ /\ tables' \in {tables, [tables EXCEPT !["main"] = seen["main"]], seen}
           /\ UNCHANGED <<captured, boxes, scene_vars>>
  BY <1>3, <1>5 DEF TakeSceneFails
<1>8. /\ found \in [Boxes -> Seen \cup {Missing}] /\ seen \in [Tables -> Seen \cup {Missing}]
      /\ goal.auto => seen["main"] # Missing /\ (seen["main"] = tables["main"] \/ seen["main"].at = epoch)
      /\ tables["main"] # Missing => seen["main"] = tables["main"]
  BY <1>2, <1>7, CaptureReads, Sorts
<1>9. /\ goal' = goal /\ disposition' = disposition /\ stage' = stage /\ epoch' = epoch /\ Busy'
      /\ active' = active
  BY DEF TakeSceneFails, Failed, task_vars, time_vars, user_vars, Busy
<1>10. Name' = Name /\ OwnBox' = OwnBox /\ PickTarget' = PickTarget
  BY <1>9, SameName DEF OwnBox, PickTarget
<1>11. /\ SceneTyped' /\ SnapshotTyped' /\ ~captured' /\ ~retaining'
       /\ attached' = attached \/ (goal.kind = "reset" /\ attached' = NoBox)
       /\ attached' # NoBox => live'[attached'] = live[attached']
       /\ own # NoBox => live'[own] = live[own] /\ View'[own] = View[own]
       /\ goal.auto => \/ tables'["main"] = tables["main"]
                       \/ tables'["main"] # Missing /\ tables'["main"].at = epoch
       /\ tables["main"] # Missing => tables'["main"] = tables["main"]
  <2>1. CASE CaptureScene(found, seen, own, protected, Name = "reset_scene", FALSE) /\ Name = "scene"
    <3>1. (Name = "reset_scene") = FALSE
      BY <2>1
    <3>2. /\ CaptureScene(found, seen, own, protected, FALSE, FALSE) /\ Kept(protected, FALSE) = protected
          /\ Kept(protected, FALSE) \subseteq {own} /\ FALSE \in BOOLEAN
      BY <1>6, <2>1, <3>1
    <3>3. /\ SceneTyped' /\ SnapshotTyped' /\ retaining' = FALSE /\ captured' = FALSE /\ tables' = seen
          /\ attached' = attached
          /\ attached' = attached =>
               \A o \in Kept(protected, FALSE) : live'[o] = live[o] /\ View'[o] = View[o]
      BY <1>2, <1>6, <1>8, <3>2, CaptureShown
    <3>4. attached = own
      BY <1>1, <1>3, <1>5, <2>1, TakeFacts DEF CapturesFor
    <3> QED
      BY <1>5, <1>8, <3>2, <3>3, <3>4
  <2>2. CASE CaptureScene(found, seen, own, protected, Name = "reset_scene", FALSE) /\ Name = "reset_scene"
    <3>1. (Name = "reset_scene") = TRUE
      BY <2>2
    <3>2. /\ CaptureScene(found, seen, own, protected, TRUE, FALSE) /\ Kept(protected, TRUE) \subseteq {own}
          /\ FALSE \in BOOLEAN /\ TRUE \in BOOLEAN
      BY <1>6, <2>2, <3>1
    <3>3. /\ SceneTyped' /\ SnapshotTyped' /\ retaining' = FALSE /\ captured' = FALSE /\ tables' = seen
          /\ attached' = NoBox
      BY <1>2, <1>6, <1>8, <3>2, CaptureShown
    <3> QED
      BY <1>3, <1>5, <1>8, <2>2, <3>3
  <2>3. CASE /\ tables' \in {tables, [tables EXCEPT !["main"] = seen["main"]], seen}
             /\ UNCHANGED <<captured, boxes, scene_vars>>
    <3>1. tables' \in [Tables -> Seen \cup {Missing}] /\ tables'["main"] \in {tables["main"], seen["main"]}
      BY <1>2, <1>8, <2>3, Sorts DEF SnapshotTyped
    <3>2. View' = View
      BY <2>3, ViewKept
    <3> QED
      BY <1>1, <1>2, <1>8, <2>3, <3>1, <3>2 DEF SnapshotTyped, SceneTyped, scene_vars
  <2> QED
    BY <1>1, <1>7, <2>1, <2>2, <2>3
<1> QED
  BY <1>1, <1>2, <1>3, <1>5, <1>9, <1>10, <1>11

\* A carry clears the scene of all but the box in the hands.
LEMMA ClearSceneEffect ==
  ASSUME IInv, NEW done \in BOOLEAN, ClearScene(done)
  PROVE  /\ Busy /\ Busy' /\ goal' = goal /\ goal.kind = "move_carry_pose" /\ Name = "carry_scene"
         /\ Name' = IF done THEN "carry" ELSE Name
         /\ SceneTyped' /\ attached' = attached /\ retaining' = (retaining \/ done)
         /\ attached # NoBox => live'[attached] = live[attached] /\ View'[attached] = View[attached]
         /\ retaining' => \A o \in Objects : View'[o] = Missing
<1>1. InBody({"carry_scene"}) /\ pc = "body" /\ Name = "carry_scene"
  BY DEF ClearScene, InBody
<1>2. /\ ControlTyped /\ SceneTyped /\ Busy /\ Name \in PhaseNames(goal) /\ goal \in Goals
      /\ attached # NoBox => live[attached] = Missing
  BY <1>1, BodyFacts DEF ControlTyped
<1>3. goal.kind = "move_carry_pose"
  BY <1>1, <1>2 DEF PhaseNames, TargetPhase, BeforeAttach, AfterRelease, Goals, Kinds
<1>4. PICK observed, protected : observed = Nothing(Objects) /\ protected = {attached} \ {NoBox}
  OBVIOUS
<1>5. UpdateScene(observed, protected, FALSE, done)
  BY <1>4 DEF ClearScene
<1>6. observed \in [Objects -> Observations] /\ \A o \in Objects : observed[o] = Missing
  BY <1>4, Poses3 DEF Nothing
<1>7. protected \in SUBSET Boxes /\ Kept(protected, FALSE) = protected
  BY <1>2, <1>4 DEF Kept, SceneTyped
<1>8. /\ SceneTyped' /\ retaining' = (retaining \/ done) /\ attached' = attached
      /\ \A o \in protected : live'[o] = live[o]
      /\ attached' = attached => \A o \in protected : View'[o] = View[o]
      /\ retaining' => \A o \in Objects \ protected : View'[o] = observed[o]
  <2>1. FALSE \in BOOLEAN
    OBVIOUS
  <2>2. /\ SceneTyped' /\ retaining' = (retaining \/ done) /\ attached' = attached
        /\ \A o \in Kept(protected, FALSE) : live'[o] = live[o]
        /\ attached' = attached => \A o \in Kept(protected, FALSE) : View'[o] = View[o]
        /\ retaining' => \A o \in Objects \ Kept(protected, FALSE) : View'[o] = observed[o]
    BY <1>2, <1>5, <1>6, <1>7, <2>1, Updated
  <2> QED
    BY <1>7, <2>2
<1>9. attached # NoBox => attached \in protected
  BY <1>4
<1>10. attached # NoBox => View[attached] = Missing
  <2>1. attached # NoBox => attached \in Objects
    BY <1>2, Sorts DEF SceneTyped
  <2> QED
    BY <1>2, <2>1, ViewTyped
<1>11. retaining' => \A o \in Objects : View'[o] = Missing
  BY <1>4, <1>6, <1>8, <1>9, <1>10
<1>12. goal' = goal /\ Busy' /\ stage' = IF done THEN stage + 1 ELSE stage
  BY DEF ClearScene, Succeeded, Failed, task_vars, Busy
<1>13. Name' = IF done THEN "carry" ELSE Name
  <2>1. stage # Len(Stages(goal))
    BY <1>1, <1>2, <1>3, NameFacts DEF Final
  <2>2. CASE done
    <3>1. <<Name, Name'>> \in Follows(goal)
      BY <1>2, <1>12, <2>1, <2>2, NextName
    <3> QED
      BY <1>1, <2>2, <3>1 DEF Follows
  <2>3. CASE ~done
    BY <1>12, <2>3, SameName
  <2> QED
    BY <2>2, <2>3
<1> QED
  BY <1>1, <1>2, <1>3, <1>8, <1>9, <1>11, <1>12, <1>13

\* The box in the phases that show, attach and place it.
LEMMA BoxPhaseFacts ==
  ASSUME IInv, Busy, Name \in {"pick_scene", "pick", "attach", "attach_scene", "release_scene"}
  PROVE  /\ goal.kind \in {"pick", "place", "pick_place"} /\ active \in Boxes /\ captured /\ retaining
         /\ attached \in {NoBox, active}
         /\ Name \in {"pick_scene", "pick", "attach"} =>
              goal.kind # "place" /\ PickTarget /\ OwnBox = NoBox /\ attached = NoBox
         /\ Name \in {"attach_scene", "release_scene"} => OwnBox = active /\ ~PickTarget
<1>1. Name \in PhaseNames(goal) /\ goal \in Goals /\ ControlTyped
  BY NameFacts, TypeParts DEF IInv, ControlTyped
<1>2. goal.kind \in {"pick", "place", "pick_place"}
      /\ (goal.kind = "place" => Name = "release_scene")
  BY <1>1 DEF PhaseNames, TargetPhase, BeforeAttach, AfterRelease, Goals, Kinds
<1>3. active \in Boxes /\ captured /\ retaining /\ attached \in {NoBox, active}
  BY <1>2, TypeParts DEF IInv, AttachedByPhase, CapturedByPhase, RetainedFirst
<1>4. disposition = IF Name = "release_scene" THEN "released"
                    ELSE IF Name = "attach_scene" THEN "attached" ELSE "not_attached"
  BY <1>2 DEF IInv, DispositionByPhase, WithBox, AfterRelease
<1>5. Name \in {"pick_scene", "pick", "attach"} => attached = NoBox
  BY <1>2, <1>4 DEF IInv, StateByPhase, AttachedByPhase
<1> QED
  BY <1>2, <1>3, <1>4, <1>5 DEF PickTarget, OwnBox

LEMMA AttachBoxEffect ==
  ASSUME IInv, NEW done \in BOOLEAN, AttachBox(done)
  PROVE  /\ Busy /\ Busy' /\ goal' = goal /\ Name = "attach_scene" /\ Name' = IF done THEN "carry" ELSE Name
         /\ disposition' = disposition /\ active' = active /\ OwnBox = active /\ OwnBox' = OwnBox /\ active \in Boxes
         /\ ~PickTarget /\ ~PickTarget'
         /\ SceneTyped' /\ attached' = active /\ live'[active] = Missing /\ retaining' = retaining
         /\ \A o \in Objects : o # active => View'[o] = View[o]
<1>1. InBody({"attach_scene"}) /\ pc = "body" /\ Name = "attach_scene"
  BY DEF AttachBox, InBody
<1>2. /\ ControlTyped /\ SceneTyped /\ Busy
      /\ attached # NoBox => live[attached] = Missing
  BY <1>1, BodyFacts
<1>3. active \in Boxes /\ attached \in {NoBox, active} /\ OwnBox = active /\ ~PickTarget
  BY <1>1, <1>2, BoxPhaseFacts
<1>4. /\ goal' = goal /\ Busy' /\ stage' = IF done THEN stage + 1 ELSE stage
      /\ disposition' = disposition /\ active' = active /\ retaining' = retaining /\ retained' = retained
  BY DEF AttachBox, Succeeded, Failed, task_vars, user_vars, Busy
<1>5. attached' = active /\ (live' = live \/ live' = [live EXCEPT ![active] = Missing])
      /\ (attached # active => live' = [live EXCEPT ![active] = Missing])
  BY DEF AttachBox
<1>6. active \in Objects /\ live \in [Objects -> Observations] /\ active # NoBox
  BY <1>2, <1>3, Sorts DEF SceneTyped
<1>7. /\ live' \in [Objects -> Observations] /\ live'[active] = Missing
      /\ \A o \in Objects : o # active => live'[o] = live[o]
  BY <1>2, <1>3, <1>5, <1>6, Poses3
<1>8. SceneTyped'
  BY <1>2, <1>3, <1>4, <1>5, <1>7 DEF SceneTyped
<1>9. ASSUME NEW o \in Objects, o # active
      PROVE  View'[o] = View[o]
  <2>1. View[o] = IF ~retaining THEN live[o] ELSE IF o = attached THEN Missing ELSE retained[o]
    BY <1>2, ViewTyped
  <2>2. View'[o] = IF ~retaining' THEN live'[o] ELSE IF o = attached' THEN Missing ELSE retained'[o]
    BY ViewNext
  <2>3. o # attached
    BY <1>3, <1>9, Sorts
  <2> QED
    BY <1>4, <1>5, <1>7, <1>9, <2>1, <2>2, <2>3
<1>10. Name' = IF done THEN "carry" ELSE Name
  <2>1. stage # Len(Stages(goal))
    BY <1>1, <1>2, NameFacts DEF Final
  <2>2. CASE done
    <3>1. <<Name, Name'>> \in Follows(goal)
      BY <1>2, <1>4, <2>1, <2>2, NextName
    <3> QED
      BY <1>1, <2>2, <3>1 DEF Follows
  <2>3. CASE ~done
    BY <1>4, <2>3, SameName
  <2> QED
    BY <2>2, <2>3
<1>11. OwnBox' = OwnBox /\ PickTarget' = PickTarget
  BY <1>4 DEF OwnBox, PickTarget
<1> QED
  BY <1>1, <1>2, <1>3, <1>4, <1>5, <1>7, <1>8, <1>9, <1>10, <1>11

LEMMA PlaceBoxEffect ==
  ASSUME IInv, NEW done \in BOOLEAN, PlaceBox(done)
  PROVE  /\ Busy /\ Busy' /\ goal' = goal /\ Name = "release_scene" /\ Name' = IF done THEN "return" ELSE Name
         /\ disposition' = disposition /\ active' = active /\ OwnBox = active /\ OwnBox' = OwnBox /\ active \in Boxes
         /\ ~PickTarget /\ ~PickTarget'
         /\ SceneTyped' /\ attached' = NoBox /\ retaining' = retaining
         /\ done => View'[active] = Placed
         /\ \A o \in Objects : o # active => View'[o] = View[o]
<1>1. InBody({"release_scene"}) /\ pc = "body" /\ Name = "release_scene"
  BY DEF PlaceBox, InBody
<1>2. ControlTyped /\ SceneTyped /\ Busy
  BY <1>1, BodyFacts
<1>3. active \in Boxes /\ attached \in {NoBox, active} /\ OwnBox = active /\ ~PickTarget /\ retaining
  BY <1>1, <1>2, BoxPhaseFacts
<1>4. /\ goal' = goal /\ Busy' /\ stage' = IF done THEN stage + 1 ELSE stage
      /\ disposition' = disposition /\ active' = active /\ retaining' = retaining /\ attached' = NoBox
  BY DEF PlaceBox, Succeeded, Failed, task_vars, user_vars, Busy
<1>5. \/ ~done /\ live' = [live EXCEPT ![active] = Held] /\ retained' = retained
      \/ live' = [live EXCEPT ![active] = Placed] /\ retained' = [retained EXCEPT ![active] = Placed]
  BY DEF PlaceBox
<1>6. active \in Objects /\ live \in [Objects -> Observations] /\ retained \in [Objects -> Observations]
      /\ active # NoBox
  BY <1>2, <1>3, Sorts DEF SceneTyped
<1>7. /\ live' \in [Objects -> Observations] /\ retained' \in [Objects -> Observations]
      /\ \A o \in Objects : o # active => live'[o] = live[o] /\ retained'[o] = retained[o]
      /\ done => retained'[active] = Placed
  BY <1>5, <1>6, Poses3
<1>8. SceneTyped'
  BY <1>2, <1>4, <1>7 DEF SceneTyped
<1>9. ASSUME NEW o \in Objects, o # active
      PROVE  View'[o] = View[o]
  <2>1. View[o] = IF ~retaining THEN live[o] ELSE IF o = attached THEN Missing ELSE retained[o]
    BY <1>2, ViewTyped
  <2>2. View'[o] = IF ~retaining' THEN live'[o] ELSE IF o = attached' THEN Missing ELSE retained'[o]
    BY ViewNext
  <2>3. o # attached /\ o # NoBox
    BY <1>3, <1>9, Sorts
  <2> QED
    BY <1>4, <1>7, <1>9, <2>1, <2>2, <2>3
<1>10. done => View'[active] = Placed
  BY <1>3, <1>4, <1>6, <1>7, ViewNext
<1>11. Name' = IF done THEN "return" ELSE Name
  <2>1. stage # Len(Stages(goal))
    BY <1>1, <1>2, NameFacts DEF Final
  <2>2. CASE done
    <3>1. <<Name, Name'>> \in Follows(goal)
      BY <1>2, <1>4, <2>1, <2>2, NextName
    <3> QED
      BY <1>1, <2>2, <3>1 DEF Follows
  <2>3. CASE ~done
    BY <1>4, <2>3, SameName
  <2> QED
    BY <2>2, <2>3
<1>12. OwnBox' = OwnBox /\ PickTarget' = PickTarget
  BY <1>4 DEF OwnBox, PickTarget
<1> QED
  BY <1>1, <1>2, <1>3, <1>4, <1>8, <1>9, <1>10, <1>11, <1>12
-----------------------------------------------------------------------------
(* Every step keeps what the task knows of the scene. *)

Data ==
  /\ UserTyped /\ SnapshotTyped /\ SceneTyped /\ RetainedFirst
  /\ AttachedByPhase /\ CapturedByPhase /\ SnapshotShown /\ PlacedShown
  /\ TargetFollows /\ PlacementFollows /\ SnapshotFresh /\ AutoSeen

LEMMA IInvParts ==
  IInv <=> /\ ControlTyped /\ TimeTyped /\ DispositionByPhase /\ StateByPhase /\ StampByPoint /\ PlanPoint
           /\ Data
BY TypeParts DEF IInv, Data


LEMMA QuietKeeps ==
  ASSUME IInv, Busy, Busy', UNCHANGED <<goal, disposition, state, stage>>,
         UNCHANGED <<snapshot_vars, user_vars, scene_vars>>,
         pc' = "plan" => Name \notin {"pick_scene", "pick", "attach", "place"},
         continueStamp' = 0 /\ goal.kind # "move_carry_pose" =>
           \/ continueStamp = 0 /\ epoch' = epoch
           \/ PickTarget /\ ~selected /\ ~captured
  PROVE  Data'
<1>1. ControlTyped /\ TimeTyped /\ UserTyped /\ SnapshotTyped /\ SceneTyped /\ RetainedFirst
  BY TypeParts DEF IInv
<1>2. /\ goal' = goal /\ disposition' = disposition /\ state' = state /\ active' = active /\ selected' = selected
      /\ target' = target /\ placement' = placement /\ behind' = behind /\ captured' = captured /\ boxes' = boxes
      /\ tables' = tables /\ live' = live /\ attached' = attached /\ retaining' = retaining /\ retained' = retained
  BY DEF snapshot_vars, user_vars, scene_vars
<1>3. Name' = Name /\ View' = View /\ OwnBox' = OwnBox /\ PickTarget' = PickTarget
  BY <1>2, SameName, ViewKept DEF OwnBox, PickTarget
<1>4. UserTyped'
  BY <1>1, <1>2, <1>3 DEF IInv, UserTyped
<1>5. SnapshotTyped'
  BY <1>1, <1>2, <1>3 DEF IInv, SnapshotTyped
<1>6. SceneTyped'
  BY <1>1, <1>2, <1>3 DEF IInv, SceneTyped
<1>7. RetainedFirst'
  BY <1>1, <1>2, <1>3 DEF IInv, RetainedFirst
<1>8. AttachedByPhase'
  BY <1>1, <1>2, <1>3 DEF IInv, AttachedByPhase
<1>9. CapturedByPhase'
  BY <1>1, <1>2, <1>3 DEF IInv, CapturedByPhase
<1>10. SnapshotShown'
  BY <1>1, <1>2, <1>3 DEF IInv, SnapshotShown, CapturedByPhase
<1>11. PlacedShown'
  BY <1>1, <1>2, <1>3 DEF IInv, PlacedShown
<1>12. TargetFollows'
  BY <1>1, <1>2, <1>3 DEF IInv, TargetFollows
<1>13. PlacementFollows'
  BY <1>1, <1>2, <1>3 DEF IInv, PlacementFollows
<1>14. SnapshotFresh'
  <2>1. CASE continueStamp = 0 /\ epoch' = epoch
    BY <1>1, <1>2, <2>1 DEF IInv, SnapshotFresh
  <2>2. CASE PickTarget /\ ~selected /\ ~captured
    <3>1. tables["main"] = Missing
      BY <2>2, Sorts DEF IInv, CapturedByPhase, Nothing
    <3> QED
      BY <1>2, <2>2, <3>1 DEF SnapshotFresh
  <2> QED
    BY <1>2, <2>1, <2>2 DEF SnapshotFresh
<1>15. AutoSeen'
  BY <1>1, <1>2, <1>3 DEF IInv, AutoSeen
<1> QED
  BY <1>4, <1>5, <1>6, <1>7, <1>8, <1>9, <1>10, <1>11, <1>12, <1>13, <1>14, <1>15 DEF Data

LEMMA BeginKeeps ==
  ASSUME IInv, NEW kind \in Kinds, Begin(kind)
  PROVE  Data'
<1>1. ControlTyped /\ TimeTyped /\ UserTyped /\ SnapshotTyped /\ SceneTyped /\ RetainedFirst
  BY TypeParts DEF IInv
<1>2. ~Busy /\ Busy' /\ goal' \in Goals /\ stage' = 1 /\ goal'.kind = kind /\ (kind \in {"place", "pick_place"} \/ ~goal'.auto)
  BY DEF Begin, Goals, Busy
<1>3. Name' = First(goal')
  BY <1>2, FirstName
<1>4. /\ UNCHANGED <<time_vars, snapshot_vars, user_vars, scene_vars>> /\ View' = View /\ pc' = "attempt"
      /\ kind \in {"pick", "pick_place"} => state = "EMPTY" /\ state' = "EMPTY" /\ disposition' = "not_attached"
      /\ kind \in {"place", "move_carry_pose"} => state = "HOLDING" /\ state' = "HOLDING" /\ disposition' = "attached"
      /\ kind = "reset" => state' = "RECOVERY_REQUIRED" /\ disposition' = "released"
  BY ViewKept DEF Begin
<1>5. /\ ~captured /\ ~selected /\ ~retaining /\ boxes = Nothing(Boxes) /\ tables = Nothing(Tables)
      /\ epoch = 1 /\ continueStamp = 0
  BY <1>1, <1>2 DEF IInv, CapturedByPhase, StampByPoint, Busy, SnapshotTyped, UserTyped, SceneTyped
<1>6. /\ active' = active /\ selected' = selected /\ target' = target /\ placement' = placement /\ behind' = behind
      /\ captured' = captured /\ boxes' = boxes /\ tables' = tables /\ live' = live /\ attached' = attached
      /\ retaining' = retaining /\ retained' = retained /\ continueStamp' = continueStamp /\ epoch' = epoch
  BY <1>4 DEF snapshot_vars, user_vars, scene_vars, time_vars
<1>7. Name' \in {"select", "select_box", "place_target", "scene", "carry_scene", "reset_scene"}
      /\ (Name' \in {"scene", "place_target"} => kind = "place") /\ (kind = "reset" <=> Name' = "reset_scene")
      /\ (Name' = "carry_scene" <=> kind = "move_carry_pose")
      /\ (PickTarget' => Name' \in {"select", "select_box"}) /\ (goal'.auto => Name' \in {"select", "place_target"})
  BY <1>2, <1>3, <1>4 DEF First, Kinds, Goals, PickTarget
<1>8. \A t \in Tables : tables[t] = Missing
  BY <1>5 DEF Nothing
<1>9. UserTyped'
  BY <1>1, <1>2, <1>3, <1>4, <1>5, <1>6, <1>7, <1>8 DEF IInv, UserTyped
<1>10. SnapshotTyped'
  BY <1>1, <1>2, <1>3, <1>4, <1>5, <1>6, <1>7, <1>8 DEF IInv, SnapshotTyped
<1>11. SceneTyped'
  BY <1>1, <1>2, <1>3, <1>4, <1>5, <1>6, <1>7, <1>8 DEF IInv, SceneTyped
<1>12. RetainedFirst'
  BY <1>1, <1>2, <1>3, <1>4, <1>5, <1>6, <1>7, <1>8 DEF IInv, RetainedFirst
<1>13. AttachedByPhase'
  BY <1>2, <1>4, <1>5, <1>6, <1>7 DEF IInv, AttachedByPhase, Kinds
<1>14. CapturedByPhase'
  BY <1>2, <1>4, <1>5, <1>6, <1>7 DEF IInv, CapturedByPhase, Kinds, PickTarget
<1>15. SnapshotShown'
  BY <1>1, <1>2, <1>3, <1>4, <1>5, <1>6, <1>7, <1>8 DEF IInv, SnapshotShown
<1>16. PlacedShown'
  BY <1>1, <1>2, <1>3, <1>4, <1>5, <1>6, <1>7, <1>8 DEF IInv, PlacedShown
<1>17. TargetFollows'
  BY <1>1, <1>2, <1>3, <1>4, <1>5, <1>6, <1>7, <1>8 DEF IInv, TargetFollows
<1>18. PlacementFollows'
  BY <1>1, <1>2, <1>3, <1>4, <1>5, <1>6, <1>7, <1>8 DEF IInv, PlacementFollows
<1>19. SnapshotFresh'
  BY <1>2, <1>5, <1>6, <1>8, Sorts DEF IInv, SnapshotFresh
<1>20. AutoSeen'
  BY <1>1, <1>2, <1>3, <1>4, <1>5, <1>6, <1>7, <1>8 DEF IInv, AutoSeen
<1> QED
  BY <1>9, <1>10, <1>11, <1>12, <1>13, <1>14, <1>15, <1>16, <1>17, <1>18, <1>19, <1>20 DEF Data

LEMMA EndKeeps ==
  ASSUME IInv, Ends
  PROVE  Data'
<1>1. ControlTyped /\ TimeTyped /\ UserTyped /\ SnapshotTyped /\ SceneTyped /\ RetainedFirst
  BY TypeParts DEF IInv
<1>2. PICK final :
        /\ End(final) /\ Busy
        /\ \/ pc = "plan" /\ stage = Len(Stages(goal)) /\ final = FinalState
           \/ final = "RECOVERY_REQUIRED"
           \/ pc \in {"failed", "paused"} /\ final \in FailedStates
  BY DEF Ends
<1>3. /\ ~Busy' /\ state' = final /\ goal' = goal /\ active' = active /\ attached' = attached
      /\ continueStamp' = 0 /\ captured' = FALSE /\ boxes' = Nothing(Boxes) /\ tables' = Nothing(Tables)
      /\ selected' = FALSE /\ target' = Missing /\ placement' = Missing /\ behind' = {}
      /\ retaining' = FALSE /\ retained' = Nothing(Objects)
      /\ live' = [o \in Objects |-> IF live[o] = Missing THEN Missing ELSE Old]
  BY <1>2 DEF End, Busy
<1>4. Nothing(Boxes) \in [Boxes -> Observations] /\ Nothing(Objects) \in [Objects -> Observations]
      /\ Nothing(Tables) \in [Tables -> Seen \cup {Missing}] /\ \A t \in Tables : Nothing(Tables)[t] = Missing
  BY Poses3 DEF Nothing
<1>5. /\ final = "EMPTY" => state \in {"EMPTY", "RECOVERY_REQUIRED"} /\ attached = NoBox
      /\ final = "HOLDING" => attached = active /\ active \in Boxes
  <2>1. CASE pc = "plan" /\ stage = Len(Stages(goal)) /\ final = FinalState
    <3>1. Name = Final(goal) /\ goal \in Goals
      BY <1>1, <2>1, NameFacts DEF ControlTyped
    <3>2. CASE goal.kind \in {"pick", "move_carry_pose"}
      <4>1. Name = "carry" /\ final = "HOLDING"
        BY <2>1, <3>1, <3>2 DEF Final, FinalState
      <4>2. state = "HOLDING"
        BY <1>2, <3>2, <4>1 DEF IInv, DispositionByPhase, StateByPhase, WithBox, AfterRelease
      <4> QED
        BY <4>1, <4>2 DEF IInv, AttachedByPhase
    <3>3. CASE goal.kind \in {"place", "pick_place"}
      <4>1. Name = "return" /\ final = "EMPTY"
        BY <2>1, <3>1, <3>3 DEF Final, FinalState
      <4>2. state = "EMPTY"
        BY <1>2, <3>3, <4>1 DEF IInv, DispositionByPhase, StateByPhase, WithBox, AfterRelease
      <4> QED
        BY <4>1, <4>2 DEF IInv, AttachedByPhase
    <3>4. CASE goal.kind = "reset"
      <4>1. Name = "reset" /\ final = "EMPTY"
        BY <2>1, <3>1, <3>4 DEF Final, FinalState
      <4>2. retaining /\ state = "RECOVERY_REQUIRED"
        BY <1>1, <1>2, <3>4, <4>1 DEF IInv, CapturedByPhase, RetainedFirst, StateByPhase
      <4> QED
        BY <3>4, <4>1, <4>2 DEF IInv, AttachedByPhase
    <3> QED
      BY <3>1, <3>2, <3>3, <3>4 DEF Goals, Kinds
  <2>2. CASE final = "RECOVERY_REQUIRED"
    BY <2>2
  <2>3. CASE final \in FailedStates
    <3>1. CASE Name \in {"attach_scene", "release", "release_scene"}
      BY <2>3, <3>1 DEF FailedStates
    <3>2. CASE Name \in {"carry", "place"}
      <4>1. goal.kind # "reset"
        BY <1>1, <3>2, NameFacts DEF PhaseNames, TargetPhase, BeforeAttach, AfterRelease
      <4>2. state = "HOLDING" /\ final \in {"HOLDING", "RECOVERY_REQUIRED"}
        BY <1>2, <2>3, <3>2, <4>1 DEF IInv, DispositionByPhase, StateByPhase, WithBox, AfterRelease, FailedStates
      <4> QED
        BY <3>2, <4>2 DEF IInv, AttachedByPhase
    <3>3. CASE Name \notin {"attach_scene", "release", "release_scene", "carry", "place"}
      <4>1. final = state
        BY <2>3, <3>3 DEF FailedStates
      <4> QED
        BY <1>2, <3>3, <4>1 DEF IInv, AttachedByPhase
    <3> QED
      BY <3>1, <3>2, <3>3
  <2> QED
    BY <1>2, <2>1, <2>2, <2>3
<1>6. live' \in [Objects -> Observations] /\ \A o \in Objects : live[o] = Missing => live'[o] = Missing
  BY <1>3, Poses3
<1>7. UserTyped'
  BY <1>1, <1>3, Poses3 DEF IInv, UserTyped
<1>8. SnapshotTyped'
  BY <1>1, <1>2, <1>3, <1>4, <1>5, <1>6 DEF IInv, SnapshotTyped
<1>9. SceneTyped'
  BY <1>1, <1>3, <1>4, <1>6 DEF IInv, SceneTyped
<1>10. RetainedFirst'
  BY <1>1, <1>2, <1>3, <1>4, <1>5, <1>6 DEF IInv, RetainedFirst
<1>11. AttachedByPhase'
  <2>1. attached # NoBox => attached = active /\ attached \in Objects /\ live[attached] = Missing
    BY <1>1, Sorts DEF IInv, AttachedByPhase, SceneTyped
  <2> QED
    BY <1>3, <1>5, <1>6, <2>1 DEF AttachedByPhase
<1>12. CapturedByPhase'
  BY <1>1, <1>2, <1>3, <1>4, <1>5, <1>6 DEF IInv, CapturedByPhase, Busy
<1>13. SnapshotShown'
  BY <1>1, <1>2, <1>3, <1>4, <1>5, <1>6 DEF IInv, SnapshotShown
<1>14. PlacedShown'
  BY <1>1, <1>2, <1>3, <1>4, <1>5, <1>6 DEF IInv, PlacedShown
<1>15. TargetFollows'
  BY <1>1, <1>2, <1>3, <1>4, <1>5, <1>6 DEF IInv, TargetFollows
<1>16. PlacementFollows'
  BY <1>1, <1>2, <1>3, <1>4, <1>5, <1>6 DEF IInv, PlacementFollows
<1>17. SnapshotFresh'
  BY <1>3, <1>4, Sorts DEF IInv, SnapshotFresh
<1>18. AutoSeen'
  BY <1>1, <1>2, <1>3, <1>4, <1>5, <1>6 DEF IInv, AutoSeen
<1> QED
  BY <1>7, <1>8, <1>9, <1>10, <1>11, <1>12, <1>13, <1>14, <1>15, <1>16, <1>17, <1>18 DEF Data

LEMMA ReturnFacts ==
  ASSUME IInv, Busy, Name = "return"
  PROVE  OwnBox = active /\ active \in Boxes /\ active # NoBox
<1>1. Name \in PhaseNames(goal) /\ goal \in Goals
  BY NameFacts, IInvParts DEF ControlTyped
<1>2. goal.kind \in {"place", "pick_place"}
  BY <1>1 DEF PhaseNames, TargetPhase, BeforeAttach, AfterRelease, Goals, Kinds
<1>3. disposition = "released"
  BY DEF IInv, DispositionByPhase, AfterRelease
<1>4. active \in Boxes
  BY <1>2 DEF IInv, AttachedByPhase
<1> QED
  BY <1>2, <1>3, <1>4, SceneAssumption DEF OwnBox

\* A scene acquired for a Continue finds the box of the task known.
LEMMA ActiveKnown ==
  ASSUME IInv, Busy, goal.kind # "reset", PickTarget => selected
  PROVE  active \in Boxes
<1>1. CASE PickTarget
  BY <1>1 DEF IInv, AttachedByPhase
<1>2. CASE ~PickTarget
  <2>1. Name \in PhaseNames(goal) /\ goal \in Goals
    BY NameFacts, IInvParts DEF ControlTyped
  <2>2. Name \notin {"select", "select_box"}
    <3>1. SUFFICES ASSUME Name \in {"select", "select_box"} PROVE FALSE
      OBVIOUS
    <3>2. goal.kind \in {"pick", "pick_place"}
      BY <2>1, <3>1 DEF PhaseNames, TargetPhase, BeforeAttach, AfterRelease, Goals, Kinds
    <3>3. disposition = "not_attached"
      BY <3>1, <3>2 DEF IInv, DispositionByPhase, WithBox, AfterRelease
    <3> QED
      BY <1>2, <3>2, <3>3 DEF PickTarget
  <2> QED
    BY <2>2 DEF IInv, AttachedByPhase
<1> QED
  BY <1>1, <1>2

LEMMA ContinueSceneKeeps ==
  ASSUME IInv, ContinueScene
  PROVE  Data'
<1>1. ControlTyped /\ TimeTyped /\ UserTyped /\ SnapshotTyped /\ SceneTyped /\ RetainedFirst
  BY TypeParts DEF IInv
<1>2. /\ Name' = Name /\ OwnBox' = OwnBox /\ PickTarget' = PickTarget /\ Busy /\ Busy'
      /\ SceneTyped' /\ SnapshotTyped' /\ captured' /\ retaining'
      /\ attached' = IF goal.kind = "reset" THEN NoBox ELSE attached
      /\ OwnBox # NoBox => live'[OwnBox] = live[OwnBox] /\ View'[OwnBox] = View[OwnBox]
      /\ \A t \in Tables : View'[t] = tables'[t]
      /\ \A b \in Boxes \ {OwnBox} : View'[b] = boxes'[b]
      /\ FreshBoxes' /\ FreshMain'
  BY ContinueSceneEffect
<1>3. /\ UNCHANGED <<active, selected, target, placement>> /\ state' = state /\ goal' = goal /\ epoch' = epoch
      /\ behind' = {"pick", "place"} /\ pc' = "body" /\ goal.kind # "move_carry_pose" /\ (PickTarget => selected)
  BY DEF ContinueScene, ContinueScenePending, task_vars
<1>4. goal.kind # "reset" => active \in Boxes
  BY <1>2, <1>3, ActiveKnown
<1>5. /\ Name = "return" => OwnBox = active /\ active # NoBox
      /\ attached # NoBox /\ goal.kind # "reset" => OwnBox = attached
  <2>1. /\ OwnBox = IF PickTarget \/ goal.kind = "reset" THEN NoBox ELSE active
        /\ attached \in {NoBox, active} /\ (OwnBox = NoBox /\ goal.kind # "reset" => attached = NoBox)
    BY <1>1, <1>2, OwnBoxFacts DEF IInv
  <2>2. Name = "return" => OwnBox = active /\ active # NoBox
    BY <1>2, ReturnFacts
  <2>3. attached # NoBox /\ goal.kind # "reset" => OwnBox = attached
    BY <2>1
  <2> QED
    BY <2>2, <2>3
<1>6. UserTyped'
  BY <1>1, <1>2, <1>3, <1>4, <1>5 DEF IInv, UserTyped
<1>7. SnapshotTyped'
  BY <1>1, <1>2, <1>3, <1>4, <1>5 DEF IInv, SnapshotTyped
<1>8. SceneTyped'
  BY <1>1, <1>2, <1>3, <1>4, <1>5 DEF IInv, SceneTyped
<1>9. RetainedFirst'
  BY <1>1, <1>2, <1>3, <1>4, <1>5 DEF IInv, RetainedFirst
<1>10. AttachedByPhase'
  BY <1>1, <1>2, <1>3, <1>4, <1>5 DEF IInv, AttachedByPhase, StateByPhase
<1>11. CapturedByPhase'
  BY <1>1, <1>2, <1>3, <1>4, <1>5 DEF IInv, CapturedByPhase
<1>12. SnapshotShown'
  BY <1>1, <1>2, <1>3, <1>4, <1>5 DEF IInv, SnapshotShown
<1>13. PlacedShown'
  BY <1>1, <1>2, <1>3, <1>4, <1>5 DEF IInv, PlacedShown
<1>14. TargetFollows'
  BY <1>1, <1>2, <1>3, <1>4, <1>5 DEF IInv, TargetFollows
<1>15. PlacementFollows'
  BY <1>1, <1>2, <1>3, <1>4, <1>5 DEF IInv, PlacementFollows
<1>16. SnapshotFresh'
  BY <1>1, <1>2, <1>3, <1>4, <1>5 DEF IInv, SnapshotFresh, FreshBoxes, FreshMain
<1>17. AutoSeen'
  BY <1>1, <1>2, <1>3, <1>4, <1>5 DEF IInv, AutoSeen, FreshMain
<1> QED
  BY <1>6, <1>7, <1>8, <1>9, <1>10, <1>11, <1>12, <1>13, <1>14, <1>15, <1>16, <1>17 DEF Data

LEMMA ContinueSceneFailsKeeps ==
  ASSUME IInv, ContinueSceneFails
  PROVE  Data'
<1>1. ControlTyped /\ TimeTyped /\ UserTyped /\ SnapshotTyped /\ SceneTyped /\ RetainedFirst
  BY TypeParts DEF IInv
<1>2. /\ Name' = Name /\ OwnBox' = OwnBox /\ PickTarget' = PickTarget /\ Busy /\ Busy'
      /\ SceneTyped' /\ retaining' = retaining /\ continueStamp' # 0
      /\ attached' = attached \/ (goal.kind = "reset" /\ attached' = NoBox)
      /\ attached' # NoBox => live'[attached'] = live[attached']
      /\ OwnBox # NoBox => live'[OwnBox] = live[OwnBox] /\ View'[OwnBox] = View[OwnBox]
      /\ goal.kind # "move_carry_pose"
  BY ContinueSceneFailsEffect
<1>3. /\ UNCHANGED <<active, selected, target, placement, behind, captured, boxes, tables>>
      /\ state' = state /\ goal' = goal /\ pc' = "failed"
  BY DEF ContinueSceneFails, ContinueScenePending, task_vars, user_vars, snapshot_vars
<1>4. /\ Name = "return" => OwnBox = active /\ active # NoBox
      /\ attached # NoBox /\ goal.kind # "reset" => OwnBox = attached
  <2>1. /\ OwnBox = IF PickTarget \/ goal.kind = "reset" THEN NoBox ELSE active
        /\ attached \in {NoBox, active} /\ (OwnBox = NoBox /\ goal.kind # "reset" => attached = NoBox)
    BY <1>1, <1>2, OwnBoxFacts DEF IInv
  <2>2. Name = "return" => OwnBox = active /\ active # NoBox
    BY <1>2, ReturnFacts
  <2>3. attached # NoBox /\ goal.kind # "reset" => OwnBox = attached
    BY <2>1
  <2> QED
    BY <2>2, <2>3
<1>5. UserTyped'
  BY <1>1, <1>2, <1>3, <1>4 DEF IInv, UserTyped
<1>6. SnapshotTyped'
  BY <1>1, <1>2, <1>3, <1>4 DEF IInv, SnapshotTyped
<1>7. SceneTyped'
  BY <1>1, <1>2, <1>3, <1>4 DEF IInv, SceneTyped
<1>8. RetainedFirst'
  BY <1>1, <1>2, <1>3, <1>4 DEF IInv, RetainedFirst
<1>9. AttachedByPhase'
  BY <1>1, <1>2, <1>3, <1>4 DEF IInv, AttachedByPhase, StateByPhase
<1>10. CapturedByPhase'
  BY <1>1, <1>2, <1>3, <1>4 DEF IInv, CapturedByPhase
<1>11. SnapshotShown'
  BY <1>1, <1>2, <1>3, <1>4 DEF IInv, SnapshotShown
<1>12. PlacedShown'
  BY <1>1, <1>2, <1>3, <1>4 DEF IInv, PlacedShown
<1>13. TargetFollows'
  BY <1>1, <1>2, <1>3, <1>4 DEF IInv, TargetFollows
<1>14. PlacementFollows'
  BY <1>1, <1>2, <1>3, <1>4 DEF IInv, PlacementFollows
<1>15. SnapshotFresh'
  BY <1>1, <1>2, <1>3, <1>4 DEF IInv, SnapshotFresh
<1>16. AutoSeen'
  BY <1>1, <1>2, <1>3, <1>4 DEF IInv, AutoSeen
<1> QED
  BY <1>5, <1>6, <1>7, <1>8, <1>9, <1>10, <1>11, <1>12, <1>13, <1>14, <1>15, <1>16 DEF Data

\* A step that succeeds in a phase that is never the last.
LEMMA SucceedsTo ==
  ASSUME IInv, Busy, Name \notin {"carry", "return", "reset"}, Succeeded
  PROVE  /\ <<Name, Name'>> \in Follows(goal) /\ Name \in PhaseNames(goal) /\ goal \in Goals
         /\ goal' = goal /\ disposition' = disposition /\ state' = state /\ epoch' = epoch /\ Busy' /\ pc' = "attempt"
         /\ continueStamp' = continueStamp /\ PickTarget' = PickTarget
<1>1. ControlTyped
  BY IInvParts
<1>2. stage # Len(Stages(goal)) /\ Name \in PhaseNames(goal) /\ goal \in Goals
  BY <1>1, NameFacts DEF Final, ControlTyped
<1>3. /\ goal' = goal /\ disposition' = disposition /\ state' = state /\ epoch' = epoch /\ Busy' /\ pc' = "attempt"
      /\ stage' = stage + 1 /\ continueStamp' = continueStamp
  BY DEF Succeeded, task_vars, time_vars, Busy
<1> QED
  BY <1>1, <1>2, <1>3, NextName DEF PickTarget

LEMMA SelectOnlyKeeps ==
  ASSUME IInv, SelectOnly
  PROVE  Data'
<1>1. ControlTyped /\ TimeTyped /\ UserTyped /\ SnapshotTyped /\ SceneTyped /\ RetainedFirst
  BY TypeParts DEF IInv
<1>2. pc = "body" /\ Name = "select" /\ Busy
  BY DEF SelectOnly, InBody, Busy
<1>3. /\ goal' = goal /\ disposition' = disposition /\ state' = state /\ epoch' = epoch /\ Busy' /\ pc' = "attempt"
      /\ continueStamp' = continueStamp /\ PickTarget' = PickTarget /\ goal \in Goals
  BY <1>2, SucceedsTo DEF SelectOnly
<1>4. goal.kind = "pick_place" /\ Name' = IF goal.auto THEN "place_target" ELSE "select_box"
  <2>1. <<Name, Name'>> \in Follows(goal) /\ Name \in PhaseNames(goal) /\ goal \in Goals
    BY <1>2, SucceedsTo DEF SelectOnly
  <2>2. goal.kind = "pick_place"
    BY <1>2, <2>1 DEF PhaseNames, TargetPhase, BeforeAttach, AfterRelease, Goals, Kinds
  <2>3. Name' = IF goal.auto THEN "place_target" ELSE "select_box"
    BY <1>2, <2>1 DEF Follows
  <2> QED
    BY <2>2, <2>3
<1>5. disposition = "not_attached" /\ attached = NoBox /\ state = "EMPTY"
  BY <1>2, <1>4 DEF IInv, DispositionByPhase, StateByPhase, AttachedByPhase, WithBox, AfterRelease
<1>6. /\ active' \in Boxes /\ selected' = TRUE /\ (captured => active' = active)
      /\ UNCHANGED <<target, placement, behind, captured, boxes, tables, live, attached, retaining, retained>>
  BY DEF SelectOnly, Select, snapshot_vars, scene_vars
<1>7. View' = View /\ OwnBox = NoBox /\ OwnBox' = NoBox
  BY <1>3, <1>4, <1>5, <1>6, ViewKept DEF OwnBox, scene_vars
<1>8. UserTyped'
  BY <1>1, <1>2, <1>3, <1>4, <1>5, <1>6, <1>7 DEF IInv, UserTyped
<1>9. SnapshotTyped'
  BY <1>1, <1>2, <1>3, <1>4, <1>5, <1>6, <1>7 DEF IInv, SnapshotTyped
<1>10. SceneTyped'
  BY <1>1, <1>2, <1>3, <1>4, <1>5, <1>6, <1>7 DEF IInv, SceneTyped
<1>11. RetainedFirst'
  BY <1>1, <1>2, <1>3, <1>4, <1>5, <1>6, <1>7 DEF IInv, RetainedFirst
<1>12. AttachedByPhase'
  BY <1>1, <1>2, <1>3, <1>4, <1>5, <1>6, <1>7 DEF IInv, AttachedByPhase
<1>13. CapturedByPhase'
  BY <1>1, <1>2, <1>3, <1>4, <1>5, <1>6, <1>7 DEF IInv, CapturedByPhase
<1>14. SnapshotShown'
  BY <1>1, <1>2, <1>3, <1>4, <1>5, <1>6, <1>7 DEF IInv, SnapshotShown
<1>15. PlacedShown'
  BY <1>1, <1>2, <1>3, <1>4, <1>5, <1>6, <1>7 DEF IInv, PlacedShown
<1>16. TargetFollows'
  BY <1>1, <1>2, <1>3, <1>4, <1>5, <1>6, <1>7 DEF IInv, TargetFollows
<1>17. PlacementFollows'
  BY <1>1, <1>2, <1>3, <1>4, <1>5, <1>6, <1>7 DEF IInv, PlacementFollows
<1>18. SnapshotFresh'
  BY <1>1, <1>2, <1>3, <1>4, <1>5, <1>6, <1>7 DEF IInv, SnapshotFresh
<1>19. AutoSeen'
  BY <1>1, <1>2, <1>3, <1>4, <1>5, <1>6, <1>7 DEF IInv, AutoSeen
<1> QED
  BY <1>8, <1>9, <1>10, <1>11, <1>12, <1>13, <1>14, <1>15, <1>16, <1>17, <1>18, <1>19 DEF Data

LEMMA SelectFromSnapshotKeeps ==
  ASSUME IInv, SelectFromSnapshot
  PROVE  Data'
<1>1. ControlTyped /\ TimeTyped /\ UserTyped /\ SnapshotTyped /\ SceneTyped /\ RetainedFirst
  BY TypeParts DEF IInv
<1>2. pc = "body" /\ Name = "select_box" /\ Busy /\ captured
  BY DEF SelectFromSnapshot, InBody, Busy
<1>3. /\ goal' = goal /\ disposition' = disposition /\ state' = state /\ epoch' = epoch /\ Busy' /\ pc' = "attempt"
      /\ continueStamp' = continueStamp /\ PickTarget' = PickTarget /\ goal \in Goals
  BY <1>2, SucceedsTo DEF SelectFromSnapshot
<1>4. Name' = "pick_scene"
  <2>1. <<Name, Name'>> \in Follows(goal)
    BY <1>2, SucceedsTo DEF SelectFromSnapshot
  <2> QED
    BY <1>2, <2>1 DEF Follows
<1>5. goal.kind \in {"pick", "pick_place"} /\ disposition = "not_attached" /\ attached = NoBox /\ state = "EMPTY"
  BY <1>2, SelectFacts DEF SelectFromSnapshot
<1>6. /\ active' \in Boxes /\ active' = active /\ selected' = TRUE /\ target' = boxes[active'] /\ behind' = behind \ {"pick"}
      /\ UNCHANGED <<placement, captured, boxes, tables, live, attached, retaining, retained>>
  BY <1>2 DEF SelectFromSnapshot, Select, snapshot_vars, scene_vars
<1>7. View' = View /\ OwnBox = NoBox /\ OwnBox' = NoBox
  BY <1>3, <1>5, <1>6, ViewKept DEF OwnBox, scene_vars
<1>8. UserTyped'
  BY <1>1, <1>2, <1>3, <1>4, <1>5, <1>6, <1>7 DEF IInv, UserTyped, SnapshotTyped
<1>9. SnapshotTyped'
  BY <1>1, <1>2, <1>3, <1>4, <1>5, <1>6, <1>7 DEF IInv, SnapshotTyped
<1>10. SceneTyped'
  BY <1>1, <1>2, <1>3, <1>4, <1>5, <1>6, <1>7 DEF IInv, SceneTyped
<1>11. RetainedFirst'
  BY <1>1, <1>2, <1>3, <1>4, <1>5, <1>6, <1>7 DEF IInv, RetainedFirst
<1>12. AttachedByPhase'
  BY <1>1, <1>2, <1>3, <1>4, <1>5, <1>6, <1>7 DEF IInv, AttachedByPhase
<1>13. CapturedByPhase'
  BY <1>1, <1>2, <1>3, <1>4, <1>5, <1>6, <1>7 DEF IInv, CapturedByPhase
<1>14. SnapshotShown'
  BY <1>1, <1>2, <1>3, <1>4, <1>5, <1>6, <1>7 DEF IInv, SnapshotShown
<1>15. PlacedShown'
  BY <1>1, <1>2, <1>3, <1>4, <1>5, <1>6, <1>7 DEF IInv, PlacedShown
<1>16. TargetFollows'
  BY <1>1, <1>2, <1>3, <1>4, <1>5, <1>6, <1>7 DEF IInv, TargetFollows
<1>17. PlacementFollows'
  BY <1>1, <1>2, <1>3, <1>4, <1>5, <1>6, <1>7 DEF IInv, PlacementFollows
<1>18. SnapshotFresh'
  BY <1>1, <1>2, <1>3, <1>4, <1>5, <1>6, <1>7 DEF IInv, SnapshotFresh
<1>19. AutoSeen'
  BY <1>1, <1>2, <1>3, <1>4, <1>5, <1>6, <1>7 DEF IInv, AutoSeen
<1> QED
  BY <1>8, <1>9, <1>10, <1>11, <1>12, <1>13, <1>14, <1>15, <1>16, <1>17, <1>18, <1>19 DEF Data

LEMMA SelectAndCaptureKeeps ==
  ASSUME IInv, SelectAndCapture
  PROVE  Data'
<1>1. ControlTyped /\ TimeTyped /\ UserTyped /\ SnapshotTyped /\ SceneTyped /\ RetainedFirst
  BY TypeParts DEF IInv
<1>2. /\ Busy /\ Busy' /\ goal' = goal /\ Name = "select_box" /\ Name' = "pick_scene" /\ PickTarget'
      /\ active' \in Boxes /\ selected' /\ target' = boxes'[active'] /\ "pick" \notin behind'
      /\ OwnBox' = NoBox /\ attached = NoBox /\ attached' = NoBox
      /\ SceneTyped' /\ SnapshotTyped' /\ captured' /\ retaining'
      /\ \A t \in Tables : View'[t] = tables'[t]
      /\ \A b \in Boxes : b # active' => View'[b] = boxes'[b]
      /\ FreshBoxes'
      /\ goal.auto => /\ tables'["main"] # Missing
                      /\ tables'["main"] = tables["main"] \/ tables'["main"].at = epoch'
      /\ \A t \in Tables : tables[t] # Missing => tables'[t] = tables[t]
  BY SelectAndCaptureEffect
<1>3. /\ selected' = TRUE /\ placement' = placement /\ behind' = behind \ {"pick"} /\ state' = state /\ epoch' = epoch
      /\ pc' = "attempt" /\ pc = "body"
  BY DEF SelectAndCapture, Select, InBody, Succeeded, time_vars
<1>4. goal.kind \in {"pick", "pick_place"} /\ state = "EMPTY"
  BY SelectFacts DEF SelectAndCapture
<1>5. /\ goal.auto => tables'["main"] = tables["main"] /\ tables["main"] # Missing
      /\ goal.auto => tables["main"].at = epoch
  BY <1>2, <1>3, <1>4, Sorts DEF IInv, AutoSeen, SnapshotFresh, StampByPoint
<1>6. UserTyped'
  BY <1>1, <1>2, <1>3 DEF IInv, UserTyped, SnapshotTyped
<1>7. SnapshotTyped'
  BY <1>1, <1>2, <1>3, <1>4, <1>5 DEF IInv, SnapshotTyped
<1>8. SceneTyped'
  BY <1>1, <1>2, <1>3, <1>4, <1>5 DEF IInv, SceneTyped
<1>9. RetainedFirst'
  BY <1>1, <1>2, <1>3, <1>4, <1>5 DEF IInv, RetainedFirst
<1>10. AttachedByPhase'
  BY <1>1, <1>2, <1>3, <1>4, <1>5 DEF IInv, AttachedByPhase
<1>11. CapturedByPhase'
  BY <1>1, <1>2, <1>3, <1>4, <1>5 DEF IInv, CapturedByPhase
<1>12. SnapshotShown'
  BY <1>1, <1>2, <1>3, <1>4, <1>5 DEF IInv, SnapshotShown
<1>13. PlacedShown'
  BY <1>1, <1>2, <1>3, <1>4, <1>5 DEF IInv, PlacedShown
<1>14. TargetFollows'
  BY <1>1, <1>2, <1>3, <1>4, <1>5 DEF IInv, TargetFollows
<1>15. PlacementFollows'
  BY <1>1, <1>2, <1>3, <1>4, <1>5 DEF IInv, PlacementFollows
<1>16. SnapshotFresh'
  BY <1>1, <1>2, <1>3, <1>4, <1>5 DEF IInv, SnapshotFresh, FreshBoxes
<1>17. AutoSeen'
  BY <1>1, <1>2, <1>3, <1>4, <1>5 DEF IInv, AutoSeen
<1> QED
  BY <1>6, <1>7, <1>8, <1>9, <1>10, <1>11, <1>12, <1>13, <1>14, <1>15, <1>16, <1>17 DEF Data

LEMMA SelectAndCaptureFailsKeeps ==
  ASSUME IInv, SelectAndCaptureFails
  PROVE  Data'
<1>1. ControlTyped /\ TimeTyped /\ UserTyped /\ SnapshotTyped /\ SceneTyped /\ RetainedFirst
  BY TypeParts DEF IInv
<1>2. /\ Busy /\ Busy' /\ goal' = goal /\ Name = "select_box" /\ Name' = "select_box" /\ PickTarget
      /\ active' \in Boxes /\ selected' /\ attached = NoBox /\ attached' = NoBox
      /\ SceneTyped' /\ SnapshotTyped' /\ ~captured /\ ~captured' /\ ~retaining'
      /\ tables["main"] # Missing => tables'["main"] = tables["main"]
  BY SelectAndCaptureFailsEffect
<1>3. /\ selected' = TRUE /\ UNCHANGED <<target, placement, behind>> /\ state' = state /\ epoch' = epoch
      /\ continueStamp' = continueStamp /\ pc' = "failed" /\ disposition' = disposition /\ pc = "body"
  BY DEF SelectAndCaptureFails, Select, InBody, Failed, time_vars, task_vars
<1>4. goal.kind \in {"pick", "pick_place"} /\ state = "EMPTY"
  BY SelectFacts DEF SelectAndCaptureFails
<1>5. goal.auto => tables["main"] # Missing /\ tables["main"].at = epoch
  BY <1>2, <1>3, <1>4, Sorts DEF IInv, AutoSeen, SnapshotFresh, StampByPoint
<1>6. UserTyped'
  BY <1>1, <1>2, <1>3, <1>4, <1>5 DEF IInv, UserTyped
<1>7. SnapshotTyped'
  BY <1>1, <1>2, <1>3, <1>4, <1>5 DEF IInv, SnapshotTyped
<1>8. SceneTyped'
  BY <1>1, <1>2, <1>3, <1>4, <1>5 DEF IInv, SceneTyped
<1>9. RetainedFirst'
  BY <1>1, <1>2, <1>3, <1>4, <1>5 DEF IInv, RetainedFirst
<1>10. AttachedByPhase'
  BY <1>1, <1>2, <1>3, <1>4, <1>5 DEF IInv, AttachedByPhase
<1>11. CapturedByPhase'
  BY <1>1, <1>2, <1>3, <1>4, <1>5 DEF IInv, CapturedByPhase
<1>12. SnapshotShown'
  BY <1>1, <1>2, <1>3, <1>4, <1>5 DEF IInv, SnapshotShown
<1>13. PlacedShown'
  BY <1>1, <1>2, <1>3, <1>4, <1>5 DEF IInv, PlacedShown
<1>14. TargetFollows'
  BY <1>1, <1>2, <1>3, <1>4, <1>5 DEF IInv, TargetFollows
<1>15. PlacementFollows'
  BY <1>1, <1>2, <1>3, <1>4, <1>5 DEF IInv, PlacementFollows
<1>16. SnapshotFresh'
  BY <1>1, <1>2, <1>3, <1>4, <1>5 DEF IInv, SnapshotFresh
<1>17. AutoSeen'
  BY <1>1, <1>2, <1>3, <1>4, <1>5 DEF IInv, AutoSeen
<1> QED
  BY <1>6, <1>7, <1>8, <1>9, <1>10, <1>11, <1>12, <1>13, <1>14, <1>15, <1>16, <1>17 DEF Data

LEMMA ResolvePlacementKeeps ==
  ASSUME IInv, ResolvePlacement
  PROVE  Data'
<1>1. ControlTyped /\ TimeTyped /\ UserTyped /\ SnapshotTyped /\ SceneTyped /\ RetainedFirst
  BY TypeParts DEF IInv
<1>2. pc = "body" /\ Name = "place_target" /\ Busy
  BY DEF ResolvePlacement, InBody, Busy
<1>3. /\ goal' = goal /\ disposition' = disposition /\ state' = state /\ epoch' = epoch /\ Busy' /\ pc' = "attempt"
      /\ continueStamp' = continueStamp /\ PickTarget' = PickTarget /\ goal \in Goals
  BY <1>2, SucceedsTo DEF ResolvePlacement
<1>4. /\ goal.auto /\ goal.kind \in {"place", "pick_place"}
      /\ Name' = IF goal.kind = "place" THEN "scene" ELSE "select_box"
  <2>1. <<Name, Name'>> \in Follows(goal) /\ Name \in PhaseNames(goal)
    BY <1>2, SucceedsTo DEF ResolvePlacement
  <2>2. goal.auto /\ goal.kind \in {"place", "pick_place"}
    BY <1>2, <1>3, <2>1 DEF PhaseNames, TargetPhase, BeforeAttach, AfterRelease, Goals, Kinds
  <2>3. Name' = IF goal.kind = "place" THEN "scene" ELSE "select_box"
    BY <1>2, <2>1 DEF Follows
  <2> QED
    BY <2>2, <2>3
<1>5. PICK seen \in IF tables["main"] = Missing THEN TablesAfter(request) ELSE {tables["main"]} :
        tables' = [tables EXCEPT !["main"] = seen] /\ placement' = seen
  BY DEF ResolvePlacement
<1>6. UNCHANGED <<captured, boxes, active, selected, target, behind, live, attached, retaining, retained>>
  BY DEF ResolvePlacement, scene_vars
<1>7. continueStamp = 0 /\ request = epoch /\ epoch \in Nat
  BY <1>1, <1>2, <1>4, BodyFacts, SceneAssumption DEF TimeTyped
<1>8. /\ seen \in Seen /\ (tables["main"] # Missing => seen = tables["main"])
      /\ tables["main"] = Missing => seen.at = epoch
  <2>1. CASE tables["main"] # Missing
    BY <1>1, <1>5, <2>1, Sorts DEF SnapshotTyped
  <2>2. CASE tables["main"] = Missing
    <3>1. seen \in TablesAfter(request)
      BY <1>5, <2>2
    <3>2. epoch <= MaxContinues + 1 /\ epoch >= 1 /\ MaxContinues \in Nat
      BY <1>1, <1>7, SceneAssumption DEF TimeTyped
    <3>3. seen.at = epoch
      BY <1>7, <3>1 DEF TablesAfter
    <3>4. seen \in Seen
      BY <1>7, <3>1, <3>2 DEF TablesAfter, Seen
    <3> QED
      BY <2>2, <3>3, <3>4
  <2> QED
    BY <2>1, <2>2
<1>9. /\ tables' \in [Tables -> Seen \cup {Missing}] /\ tables'["main"] = seen
      /\ captured => tables' = tables
  <2>1. tables' \in [Tables -> Seen \cup {Missing}] /\ tables'["main"] = seen
    BY <1>1, <1>5, <1>8, Sorts DEF SnapshotTyped
  <2>2. captured => tables["main"] # Missing
    BY <1>2, <1>4 DEF IInv, AutoSeen
  <2>3. captured => tables' = tables
    BY <1>1, <1>5, <1>8, <2>2, Sorts DEF SnapshotTyped
  <2> QED
    BY <2>1, <2>3
<1>10. View' = View /\ OwnBox' = OwnBox /\ seen # Missing
  BY <1>3, <1>6, <1>8, ViewKept, Poses3 DEF OwnBox, scene_vars
<1>11. disposition = IF goal.kind = "place" THEN "attached" ELSE "not_attached"
  BY <1>2, <1>4 DEF IInv, DispositionByPhase, WithBox, AfterRelease
<1>12. UserTyped'
  BY <1>1, <1>2, <1>3, <1>4, <1>5, <1>6, <1>7, <1>8, <1>9, <1>10, <1>11 DEF IInv, UserTyped
<1>13. SnapshotTyped'
  BY <1>1, <1>2, <1>3, <1>4, <1>5, <1>6, <1>7, <1>8, <1>9, <1>10, <1>11 DEF IInv, SnapshotTyped
<1>14. SceneTyped'
  BY <1>1, <1>2, <1>3, <1>4, <1>5, <1>6, <1>7, <1>8, <1>9, <1>10, <1>11 DEF IInv, SceneTyped
<1>15. RetainedFirst'
  BY <1>1, <1>2, <1>3, <1>4, <1>5, <1>6, <1>7, <1>8, <1>9, <1>10, <1>11 DEF IInv, RetainedFirst
<1>16. AttachedByPhase'
  BY <1>1, <1>2, <1>3, <1>4, <1>5, <1>6, <1>7, <1>8, <1>9, <1>10, <1>11 DEF IInv, AttachedByPhase
<1>17. CapturedByPhase'
  <2>1. PickTarget <=> goal.kind = "pick_place"
    BY <1>4, <1>11 DEF PickTarget
  <2>2. PickTarget => selected
    BY <1>2, <2>1 DEF IInv, CapturedByPhase
  <2>3. Name' = "scene" => goal.kind = "place"
    BY <1>4
  <2> QED
    BY <1>1, <1>2, <1>3, <1>4, <1>6, <1>9, <1>10, <2>1, <2>2, <2>3 DEF IInv, CapturedByPhase
<1>18. SnapshotShown'
  BY <1>1, <1>2, <1>3, <1>4, <1>5, <1>6, <1>7, <1>8, <1>9, <1>10, <1>11 DEF IInv, SnapshotShown
<1>19. PlacedShown'
  BY <1>1, <1>2, <1>3, <1>4, <1>5, <1>6, <1>7, <1>8, <1>9, <1>10, <1>11 DEF IInv, PlacedShown
<1>20. TargetFollows'
  BY <1>1, <1>2, <1>3, <1>4, <1>5, <1>6, <1>7, <1>8, <1>9, <1>10, <1>11 DEF IInv, TargetFollows
<1>21. PlacementFollows'
  BY <1>1, <1>2, <1>3, <1>4, <1>5, <1>6, <1>7, <1>8, <1>9, <1>10, <1>11 DEF IInv, PlacementFollows
<1>22. SnapshotFresh'
  BY <1>1, <1>2, <1>3, <1>4, <1>5, <1>6, <1>7, <1>8, <1>9, <1>10, <1>11 DEF IInv, SnapshotFresh
<1>23. AutoSeen'
  BY <1>1, <1>2, <1>3, <1>4, <1>5, <1>6, <1>7, <1>8, <1>9, <1>10, <1>11 DEF IInv, AutoSeen
<1> QED
  BY <1>12, <1>13, <1>14, <1>15, <1>16, <1>17, <1>18, <1>19, <1>20, <1>21, <1>22, <1>23 DEF Data

LEMMA TakeSceneKeeps ==
  ASSUME IInv, TakeScene
  PROVE  Data'
<1>1. ControlTyped /\ TimeTyped /\ UserTyped /\ SnapshotTyped /\ SceneTyped /\ RetainedFirst
  BY TypeParts DEF IInv
<1>2. pc = "body" /\ Name \in {"scene", "reset_scene"} /\ Busy
  BY DEF TakeScene, InBody, Busy
<1>3. /\ goal' = goal /\ disposition' = disposition /\ state' = state /\ epoch' = epoch /\ Busy' /\ pc' = "attempt"
      /\ continueStamp' = continueStamp /\ PickTarget' = PickTarget /\ goal \in Goals
  BY <1>2, SucceedsTo DEF TakeScene
<1>4. Name' = (IF Name = "scene" THEN "place" ELSE "reset") /\ goal.kind # "move_carry_pose"
  <2>1. <<Name, Name'>> \in Follows(goal)
    BY <1>2, SucceedsTo DEF TakeScene
  <2>2. goal.kind # "move_carry_pose"
    BY TakeFacts DEF TakeScene
  <2> QED
    BY <1>2, <2>1, <2>2 DEF Follows
<1>5. UNCHANGED <<active, selected, target, placement, behind>>
  BY DEF TakeScene, user_vars
<1>6. /\ ~PickTarget /\ OwnBox' = OwnBox
      /\ Name = "scene" => attached = active /\ OwnBox = active /\ active \in Boxes /\ goal.kind # "reset"
      /\ Name = "reset_scene" => goal.kind = "reset"
  <2>1. /\ ~PickTarget /\ OwnBox = CapturesFor
        /\ Name = "scene" => goal.kind \in {"place", "pick_place"} /\ attached = active /\ active \in Boxes
        /\ Name = "reset_scene" => goal.kind = "reset"
    BY <1>2, TakeFacts DEF TakeScene
  <2>2. OwnBox' = OwnBox
    BY <1>3, <1>5 DEF OwnBox
  <2> QED
    BY <2>1, <2>2 DEF CapturesFor
<1>7. goal.auto => tables["main"] # Missing /\ tables["main"].at = epoch
  BY <1>2, <1>4, Sorts DEF IInv, AutoSeen, SnapshotFresh, StampByPoint
<1>8. /\ SceneTyped' /\ SnapshotTyped' /\ captured' = TRUE /\ retaining' = TRUE
      /\ attached' \in {attached, NoBox} /\ (Name = "scene" => attached' = attached)
      /\ attached' # NoBox => live'[attached'] = Missing
      /\ goal.kind = "reset" => attached' = NoBox
      /\ \A t \in Tables : View'[t] = tables'[t]
      /\ \A b \in Boxes \ {OwnBox} : View'[b] = boxes'[b]
      /\ FreshBoxes' /\ (goal.auto => tables'["main"] = tables["main"])
  <2>1. CASE captured
    <3>1. /\ UNCHANGED <<captured, boxes, tables, live, attached, retaining, retained>> /\ View' = View
          /\ continueStamp = 0 /\ retaining
      BY <1>1, <1>2, <2>1, ViewKept DEF TakeScene, snapshot_vars, scene_vars, RetainedFirst, IInv, StampByPoint
    <3>2. goal.kind = "reset" => attached = NoBox
      BY <3>1 DEF IInv, AttachedByPhase
    <3>3. attached # NoBox => live[attached] = Missing
      BY DEF IInv, AttachedByPhase
    <3>4. /\ \A t \in Tables : View[t] = tables[t]
          /\ \A b \in Boxes \ {OwnBox} : View[b] = boxes[b]
          /\ \A b \in Boxes : boxes[b] = Missing \/ boxes[b].at = epoch
      BY <1>2, <1>4, <2>1, <3>1 DEF IInv, SnapshotShown, SnapshotFresh
    <3>5. SceneTyped' /\ SnapshotTyped' /\ captured' = TRUE /\ retaining' = TRUE
      BY <1>1, <2>1, <3>1 DEF SceneTyped, SnapshotTyped
    <3>6. FreshBoxes'
      BY <1>3, <3>1, <3>4 DEF FreshBoxes
    <3> QED
      BY <3>1, <3>2, <3>3, <3>4, <3>5, <3>6
  <2>2. CASE ~captured
    <3>1. /\ SceneTyped' /\ SnapshotTyped' /\ captured' /\ retaining'
          /\ attached' = IF goal.kind = "reset" THEN NoBox ELSE attached
          /\ OwnBox # NoBox => live'[OwnBox] = live[OwnBox] /\ View'[OwnBox] = View[OwnBox]
          /\ \A t \in Tables : View'[t] = tables'[t]
          /\ \A b \in Boxes \ {OwnBox} : View'[b] = boxes'[b]
          /\ FreshBoxes'
          /\ \A t \in Tables : tables[t] # Missing => tables'[t] = tables[t]
      BY <2>2, TakeSceneEffect
    <3>2. goal.auto => tables'["main"] = tables["main"]
      BY <1>7, <3>1, Sorts
    <3>3. attached' # NoBox => Name = "scene" /\ attached' = active /\ OwnBox = active /\ live[active] = Missing
      BY <1>2, <1>6, <3>1 DEF IInv, AttachedByPhase
    <3>4. attached' # NoBox => live'[attached'] = Missing
      BY <3>1, <3>3
    <3>5. captured' = TRUE /\ retaining' = TRUE
      BY <3>1 DEF SceneTyped, SnapshotTyped
    <3> QED
      BY <1>6, <3>1, <3>2, <3>4, <3>5
  <2> QED
    BY <2>1, <2>2
<1>9. UserTyped'
  BY <1>1, <1>2, <1>3, <1>4, <1>5, <1>6, <1>7, <1>8 DEF IInv, UserTyped
<1>10. SnapshotTyped'
  BY <1>1, <1>2, <1>3, <1>4, <1>5, <1>6, <1>7, <1>8 DEF IInv, SnapshotTyped
<1>11. SceneTyped'
  BY <1>1, <1>2, <1>3, <1>4, <1>5, <1>6, <1>7, <1>8 DEF IInv, SceneTyped
<1>12. RetainedFirst'
  BY <1>1, <1>2, <1>3, <1>4, <1>5, <1>6, <1>7, <1>8 DEF IInv, RetainedFirst
<1>13. AttachedByPhase'
  BY <1>1, <1>2, <1>3, <1>4, <1>5, <1>6, <1>7, <1>8 DEF IInv, AttachedByPhase, StateByPhase
<1>14. CapturedByPhase'
  BY <1>1, <1>2, <1>3, <1>4, <1>5, <1>6, <1>7, <1>8 DEF IInv, CapturedByPhase
<1>15. SnapshotShown'
  BY <1>1, <1>2, <1>3, <1>4, <1>5, <1>6, <1>7, <1>8 DEF IInv, SnapshotShown
<1>16. PlacedShown'
  BY <1>1, <1>2, <1>3, <1>4, <1>5, <1>6, <1>7, <1>8 DEF IInv, PlacedShown
<1>17. TargetFollows'
  BY <1>1, <1>2, <1>3, <1>4, <1>5, <1>6, <1>7, <1>8 DEF IInv, TargetFollows
<1>18. PlacementFollows'
  BY <1>1, <1>2, <1>3, <1>4, <1>5, <1>6, <1>7, <1>8 DEF IInv, PlacementFollows
<1>19. SnapshotFresh'
  BY <1>1, <1>2, <1>3, <1>4, <1>5, <1>6, <1>7, <1>8 DEF IInv, SnapshotFresh, FreshBoxes
<1>20. AutoSeen'
  BY <1>1, <1>2, <1>3, <1>4, <1>5, <1>6, <1>7, <1>8 DEF IInv, AutoSeen
<1> QED
  BY <1>9, <1>10, <1>11, <1>12, <1>13, <1>14, <1>15, <1>16, <1>17, <1>18, <1>19, <1>20 DEF Data

LEMMA TakeSceneFailsKeeps ==
  ASSUME IInv, TakeSceneFails
  PROVE  Data'
<1>1. ControlTyped /\ TimeTyped /\ UserTyped /\ SnapshotTyped /\ SceneTyped /\ RetainedFirst
  BY TypeParts DEF IInv
<1>2. /\ Busy /\ Busy' /\ goal' = goal /\ Name' = Name /\ ~PickTarget /\ ~PickTarget' /\ OwnBox' = OwnBox
      /\ goal.kind # "move_carry_pose" /\ Name \in {"scene", "reset_scene"}
      /\ SceneTyped' /\ SnapshotTyped' /\ ~captured /\ ~captured' /\ ~retaining'
      /\ attached' = attached \/ (goal.kind = "reset" /\ attached' = NoBox)
      /\ attached' # NoBox => live'[attached'] = live[attached']
      /\ OwnBox # NoBox => live'[OwnBox] = live[OwnBox] /\ View'[OwnBox] = View[OwnBox]
      /\ tables["main"] # Missing => tables'["main"] = tables["main"]
  BY TakeSceneFailsEffect
<1>3. /\ UNCHANGED <<active, selected, target, placement, behind>> /\ state' = state /\ epoch' = epoch
      /\ continueStamp' = continueStamp /\ pc' = "failed" /\ disposition' = disposition /\ pc = "body"
  BY DEF TakeSceneFails, InBody, Failed, time_vars, task_vars, user_vars
<1>4. goal.auto => tables["main"] # Missing /\ tables["main"].at = epoch
  BY <1>2, <1>3, Sorts DEF IInv, AutoSeen, SnapshotFresh, StampByPoint
<1>5. UserTyped'
  BY <1>1, <1>2, <1>3, <1>4 DEF IInv, UserTyped
<1>6. SnapshotTyped'
  BY <1>1, <1>2, <1>3, <1>4 DEF IInv, SnapshotTyped
<1>7. SceneTyped'
  BY <1>1, <1>2, <1>3, <1>4 DEF IInv, SceneTyped
<1>8. RetainedFirst'
  BY <1>1, <1>2, <1>3, <1>4 DEF IInv, RetainedFirst
<1>9. AttachedByPhase'
  BY <1>1, <1>2, <1>3, <1>4 DEF IInv, AttachedByPhase, StateByPhase
<1>10. CapturedByPhase'
  BY <1>1, <1>2, <1>3, <1>4 DEF IInv, CapturedByPhase
<1>11. SnapshotShown'
  BY <1>1, <1>2, <1>3, <1>4 DEF IInv, SnapshotShown
<1>12. PlacedShown'
  BY <1>1, <1>2, <1>3, <1>4 DEF IInv, PlacedShown
<1>13. TargetFollows'
  BY <1>1, <1>2, <1>3, <1>4 DEF IInv, TargetFollows
<1>14. PlacementFollows'
  BY <1>1, <1>2, <1>3, <1>4 DEF IInv, PlacementFollows
<1>15. SnapshotFresh'
  BY <1>1, <1>2, <1>3, <1>4 DEF IInv, SnapshotFresh
<1>16. AutoSeen'
  BY <1>1, <1>2, <1>3, <1>4 DEF IInv, AutoSeen
<1> QED
  BY <1>5, <1>6, <1>7, <1>8, <1>9, <1>10, <1>11, <1>12, <1>13, <1>14, <1>15, <1>16 DEF Data

\* The box a Pick works on, as refreshPickTarget finds it.
LEMMA PickedFacts ==
  ASSUME IInv, Busy, Name \in {"pick_scene", "pick", "attach"}
  PROVE  PickedBox = boxes[active] /\ PickedBox \in Observations /\ active \in Boxes
<1>1. active \in Boxes /\ boxes \in [Boxes -> Observations]
  BY BoxPhaseFacts, IInvParts DEF Data, SnapshotTyped
<1>2. "pick" \notin behind => target = boxes[active]
  BY DEF IInv, TargetFollows
<1> QED
  BY <1>1, <1>2 DEF PickedBox

LEMMA BoxMovedKeeps ==
  ASSUME IInv, BoxMoved
  PROVE  Data'
<1>1. ControlTyped /\ TimeTyped /\ UserTyped /\ SnapshotTyped /\ SceneTyped /\ RetainedFirst
  BY TypeParts DEF IInv
<1>2. pc = "body" /\ Name \in {"pick_scene", "pick", "attach"} /\ Busy
  BY DEF BoxMoved, InBody, Busy
<1>3. /\ goal.kind \in {"pick", "pick_place"} /\ active \in Boxes /\ active \in Objects /\ captured /\ retaining
      /\ PickTarget /\ OwnBox = NoBox /\ attached = NoBox
      /\ PickedBox = boxes[active] /\ PickedBox \in Observations /\ continueStamp = 0 /\ request = epoch
  BY <1>1, <1>2, BoxPhaseFacts, PickedFacts, BodyFacts, Sorts
<1>4. /\ goal' = goal /\ disposition' = disposition /\ state' = state /\ epoch' = epoch /\ Busy' /\ pc' = "failed"
      /\ continueStamp' = continueStamp /\ Name' = Name /\ OwnBox' = OwnBox /\ PickTarget' = PickTarget
      /\ UNCHANGED <<active, selected, placement, captured, tables>> /\ behind' = behind \ {"pick"}
  BY SameName DEF BoxMoved, Failed, task_vars, time_vars, Busy, OwnBox, PickTarget
<1>5. PICK now : now = [at |-> epoch, pose |-> PickedBox.pose + 1]
  OBVIOUS
<1>6. ApplyBox(now) /\ boxes' = [boxes EXCEPT ![active] = now] /\ target' = now
  BY <1>5 DEF BoxMoved
<1>7. now \in Observations /\ now.at = epoch
  <2>1. PickedBox.pose < Poses /\ Poses \in Nat \ {0} /\ MaxContinues \in Nat
    BY SceneAssumption DEF BoxMoved
  <2>2. PickedBox.pose \in Nat
    BY <1>3, <2>1 DEF Observations, Seen, Missing, Held, Placed
  <2>3. epoch \in 0..MaxContinues + 1
    BY <1>1, <2>1 DEF TimeTyped
  <2>4. now \in Seen
    BY <1>5, <2>1, <2>2, <2>3 DEF Seen
  <2> QED
    BY <1>5, <2>4, Poses3
<1>8. /\ SceneTyped' /\ UNCHANGED <<attached, retaining>> /\ View'[active] = now
      /\ live'[active] = now /\ \A o \in Objects \ {active} : live'[o] = live[o] /\ View'[o] = View[o]
  <2>1. attached # active
    BY <1>3, Sorts
  <2> QED
    BY <1>1, <1>3, <1>6, <1>7, <2>1, Applied
<1>9. /\ boxes' \in [Boxes -> Observations] /\ boxes'[active] = now
      /\ \A b \in Boxes \ {active} : boxes'[b] = boxes[b]
  BY <1>1, <1>3, <1>6, <1>7 DEF SnapshotTyped
<1>10. UserTyped'
  BY <1>1, <1>2, <1>3, <1>4, <1>5, <1>6, <1>7, <1>8, <1>9 DEF IInv, UserTyped
<1>11. SnapshotTyped'
  BY <1>1, <1>2, <1>3, <1>4, <1>5, <1>6, <1>7, <1>8, <1>9 DEF IInv, SnapshotTyped
<1>12. SceneTyped'
  BY <1>1, <1>2, <1>3, <1>4, <1>5, <1>6, <1>7, <1>8, <1>9 DEF IInv, SceneTyped
<1>13. RetainedFirst'
  BY <1>1, <1>2, <1>3, <1>4, <1>5, <1>6, <1>7, <1>8, <1>9 DEF IInv, RetainedFirst
<1>14. AttachedByPhase'
  BY <1>1, <1>2, <1>3, <1>4, <1>5, <1>6, <1>7, <1>8, <1>9 DEF IInv, AttachedByPhase
<1>15. CapturedByPhase'
  BY <1>1, <1>2, <1>3, <1>4, <1>5, <1>6, <1>7, <1>8, <1>9 DEF IInv, CapturedByPhase
<1>16. SnapshotShown'
  BY <1>2, <1>3, <1>4, <1>8, <1>9, Sorts DEF IInv, SnapshotShown
<1>17. PlacedShown'
  BY <1>1, <1>2, <1>3, <1>4, <1>5, <1>6, <1>7, <1>8, <1>9 DEF IInv, PlacedShown
<1>18. TargetFollows'
  BY <1>1, <1>2, <1>3, <1>4, <1>5, <1>6, <1>7, <1>8, <1>9 DEF IInv, TargetFollows
<1>19. PlacementFollows'
  BY <1>1, <1>2, <1>3, <1>4, <1>5, <1>6, <1>7, <1>8, <1>9 DEF IInv, PlacementFollows
<1>20. SnapshotFresh'
  BY <1>1, <1>2, <1>3, <1>4, <1>5, <1>6, <1>7, <1>8, <1>9 DEF IInv, SnapshotFresh
<1>21. AutoSeen'
  BY <1>1, <1>2, <1>3, <1>4, <1>5, <1>6, <1>7, <1>8, <1>9 DEF IInv, AutoSeen
<1> QED
  BY <1>10, <1>11, <1>12, <1>13, <1>14, <1>15, <1>16, <1>17, <1>18, <1>19, <1>20, <1>21 DEF Data

LEMMA ShowBoxKeeps ==
  ASSUME IInv, NEW done \in BOOLEAN, ShowBox(done)
  PROVE  Data'
<1>1. ControlTyped /\ TimeTyped /\ UserTyped /\ SnapshotTyped /\ SceneTyped /\ RetainedFirst
  BY TypeParts DEF IInv
<1>2. pc = "body" /\ Name = "pick_scene" /\ Busy
  BY DEF ShowBox, InBody, Busy
<1>3. /\ goal.kind \in {"pick", "pick_place"} /\ active \in Boxes /\ active \in Objects /\ captured /\ retaining
      /\ PickTarget /\ OwnBox = NoBox /\ attached = NoBox
      /\ PickedBox = boxes[active] /\ PickedBox \in Observations /\ continueStamp = 0 /\ request = epoch
  BY <1>1, <1>2, BoxPhaseFacts, PickedFacts, BodyFacts, Sorts
<1>4. /\ goal' = goal /\ disposition' = disposition /\ state' = state /\ epoch' = epoch /\ Busy'
      /\ continueStamp' = continueStamp /\ OwnBox' = OwnBox /\ PickTarget' = PickTarget /\ pc' \in {"attempt", "failed"}
      /\ UNCHANGED <<active, selected, placement, captured, boxes, tables>> /\ behind' = behind \ {"pick"}
      /\ target' = PickedBox /\ ApplyBox(PickedBox)
  BY DEF ShowBox, PickFollows, Failed, Succeeded, task_vars, time_vars, snapshot_vars, Busy, OwnBox,
     PickTarget
<1>5. Name' \in {"pick_scene", "pick"}
  <2>1. CASE done
    <3>1. <<Name, Name'>> \in Follows(goal)
      BY <1>2, <2>1, SucceedsTo DEF ShowBox
    <3> QED
      BY <1>2, <3>1 DEF Follows
  <2>2. CASE ~done
    BY <1>2, <2>2, SameName DEF ShowBox, Failed, task_vars
  <2> QED
    BY <2>1, <2>2
<1>6. /\ SceneTyped' /\ UNCHANGED <<attached, retaining>> /\ View'[active] = boxes[active]
      /\ \A o \in Objects \ {active} : live'[o] = live[o] /\ View'[o] = View[o]
  <2>1. attached # active
    BY <1>3, Sorts
  <2> QED
    BY <1>1, <1>3, <1>4, <2>1, Applied
<1>7. UserTyped'
  BY <1>1, <1>2, <1>3, <1>4, <1>5, <1>6 DEF IInv, UserTyped
<1>8. SnapshotTyped'
  BY <1>1, <1>2, <1>3, <1>4, <1>5, <1>6 DEF IInv, SnapshotTyped
<1>9. SceneTyped'
  BY <1>1, <1>2, <1>3, <1>4, <1>5, <1>6 DEF IInv, SceneTyped
<1>10. RetainedFirst'
  BY <1>1, <1>2, <1>3, <1>4, <1>5, <1>6 DEF IInv, RetainedFirst
<1>11. AttachedByPhase'
  BY <1>1, <1>2, <1>3, <1>4, <1>5, <1>6 DEF IInv, AttachedByPhase
<1>12. CapturedByPhase'
  BY <1>1, <1>2, <1>3, <1>4, <1>5, <1>6 DEF IInv, CapturedByPhase
<1>13. SnapshotShown'
  BY <1>2, <1>3, <1>4, <1>5, <1>6, Sorts DEF IInv, SnapshotShown
<1>14. PlacedShown'
  BY <1>1, <1>2, <1>3, <1>4, <1>5, <1>6 DEF IInv, PlacedShown
<1>15. TargetFollows'
  BY <1>1, <1>2, <1>3, <1>4, <1>5, <1>6 DEF IInv, TargetFollows
<1>16. PlacementFollows'
  BY <1>1, <1>2, <1>3, <1>4, <1>5, <1>6 DEF IInv, PlacementFollows
<1>17. SnapshotFresh'
  BY <1>1, <1>2, <1>3, <1>4, <1>5, <1>6 DEF IInv, SnapshotFresh
<1>18. AutoSeen'
  BY <1>1, <1>2, <1>3, <1>4, <1>5, <1>6 DEF IInv, AutoSeen
<1> QED
  BY <1>7, <1>8, <1>9, <1>10, <1>11, <1>12, <1>13, <1>14, <1>15, <1>16, <1>17, <1>18 DEF Data

LEMMA PlanPickKeeps ==
  ASSUME IInv, PlanPick
  PROVE  Data'
<1>1. ControlTyped /\ TimeTyped /\ UserTyped /\ SnapshotTyped /\ SceneTyped /\ RetainedFirst
  BY TypeParts DEF IInv
<1>2. pc = "body" /\ Name \in {"pick", "attach"} /\ Busy
  BY DEF PlanPick, InBody, Busy
<1>3. /\ goal.kind \in {"pick", "pick_place"} /\ active \in Boxes /\ active \in Objects /\ captured /\ retaining
      /\ PickTarget /\ OwnBox = NoBox /\ attached = NoBox
      /\ PickedBox = boxes[active] /\ PickedBox \in Observations /\ continueStamp = 0 /\ request = epoch
  BY <1>1, <1>2, BoxPhaseFacts, PickedFacts, BodyFacts, Sorts
<1>4. /\ goal' = goal /\ disposition' = disposition /\ state' = state /\ epoch' = epoch /\ Busy' /\ pc' = "plan"
      /\ continueStamp' = continueStamp /\ OwnBox' = OwnBox /\ PickTarget' = PickTarget /\ Name' = Name
      /\ UNCHANGED <<active, selected, placement, captured, boxes, tables, live, attached, retaining, retained>>
      /\ behind' = behind \ {"pick"} /\ target' = PickedBox
  BY SameName DEF PlanPick, PickFollows, Plans, task_vars, time_vars, snapshot_vars, scene_vars, Busy, OwnBox,
     PickTarget
<1>5. View' = View
  BY <1>4, ViewKept DEF scene_vars
<1>6. UserTyped'
  BY <1>1, <1>2, <1>3, <1>4, <1>5 DEF IInv, UserTyped
<1>7. SnapshotTyped'
  BY <1>1, <1>2, <1>3, <1>4, <1>5 DEF IInv, SnapshotTyped
<1>8. SceneTyped'
  BY <1>1, <1>2, <1>3, <1>4, <1>5 DEF IInv, SceneTyped
<1>9. RetainedFirst'
  BY <1>1, <1>2, <1>3, <1>4, <1>5 DEF IInv, RetainedFirst
<1>10. AttachedByPhase'
  BY <1>1, <1>2, <1>3, <1>4, <1>5 DEF IInv, AttachedByPhase
<1>11. CapturedByPhase'
  BY <1>1, <1>2, <1>3, <1>4, <1>5 DEF IInv, CapturedByPhase
<1>12. SnapshotShown'
  BY <1>1, <1>2, <1>3, <1>4, <1>5 DEF IInv, SnapshotShown
<1>13. PlacedShown'
  BY <1>1, <1>2, <1>3, <1>4, <1>5 DEF IInv, PlacedShown
<1>14. TargetFollows'
  BY <1>1, <1>2, <1>3, <1>4, <1>5 DEF IInv, TargetFollows
<1>15. PlacementFollows'
  BY <1>1, <1>2, <1>3, <1>4, <1>5 DEF IInv, PlacementFollows
<1>16. SnapshotFresh'
  BY <1>1, <1>2, <1>3, <1>4, <1>5 DEF IInv, SnapshotFresh
<1>17. AutoSeen'
  BY <1>1, <1>2, <1>3, <1>4, <1>5 DEF IInv, AutoSeen
<1> QED
  BY <1>6, <1>7, <1>8, <1>9, <1>10, <1>11, <1>12, <1>13, <1>14, <1>15, <1>16, <1>17 DEF Data

LEMMA PlanPlaceKeeps ==
  ASSUME IInv, PlanPlace
  PROVE  Data'
<1>1. ControlTyped /\ TimeTyped /\ UserTyped /\ SnapshotTyped /\ SceneTyped /\ RetainedFirst
  BY TypeParts DEF IInv
<1>2. pc = "body" /\ Name = "place" /\ Busy /\ continueStamp = 0
  BY DEF PlanPlace, InBody, Busy, IInv, StampByPoint
<1>3. /\ goal' = goal /\ disposition' = disposition /\ state' = state /\ epoch' = epoch /\ Busy' /\ pc' = "plan"
      /\ continueStamp' = continueStamp /\ OwnBox' = OwnBox /\ PickTarget' = PickTarget /\ Name' = Name
      /\ UNCHANGED <<active, selected, target, captured, boxes, tables, live, attached, retaining, retained>>
      /\ behind' = behind \ {"place"}
      /\ placement' = IF "place" \in behind /\ goal.auto THEN tables["main"] ELSE placement
  BY SameName DEF PlanPlace, Plans, task_vars, time_vars, snapshot_vars, scene_vars, Busy, OwnBox, PickTarget
<1>4. View' = View
  BY <1>3, ViewKept DEF scene_vars
<1>5. tables["main"] \in Seen \cup {Missing}
  BY <1>1, Sorts DEF SnapshotTyped
<1>6. UserTyped'
  BY <1>1, <1>2, <1>3, <1>4, <1>5 DEF IInv, UserTyped
<1>7. SnapshotTyped'
  BY <1>1, <1>2, <1>3, <1>4, <1>5 DEF IInv, SnapshotTyped
<1>8. SceneTyped'
  BY <1>1, <1>2, <1>3, <1>4, <1>5 DEF IInv, SceneTyped
<1>9. RetainedFirst'
  BY <1>1, <1>2, <1>3, <1>4, <1>5 DEF IInv, RetainedFirst
<1>10. AttachedByPhase'
  BY <1>1, <1>2, <1>3, <1>4, <1>5 DEF IInv, AttachedByPhase
<1>11. CapturedByPhase'
  BY <1>1, <1>2, <1>3, <1>4, <1>5 DEF IInv, CapturedByPhase
<1>12. SnapshotShown'
  BY <1>1, <1>2, <1>3, <1>4, <1>5 DEF IInv, SnapshotShown
<1>13. PlacedShown'
  BY <1>1, <1>2, <1>3, <1>4, <1>5 DEF IInv, PlacedShown
<1>14. TargetFollows'
  BY <1>1, <1>2, <1>3, <1>4, <1>5 DEF IInv, TargetFollows
<1>15. PlacementFollows'
  BY <1>1, <1>2, <1>3, <1>4, <1>5 DEF IInv, PlacementFollows
<1>16. SnapshotFresh'
  BY <1>1, <1>2, <1>3, <1>4, <1>5 DEF IInv, SnapshotFresh
<1>17. AutoSeen'
  BY <1>1, <1>2, <1>3, <1>4, <1>5 DEF IInv, AutoSeen
<1> QED
  BY <1>6, <1>7, <1>8, <1>9, <1>10, <1>11, <1>12, <1>13, <1>14, <1>15, <1>16, <1>17 DEF Data

LEMMA ClearSceneKeeps ==
  ASSUME IInv, NEW done \in BOOLEAN, ClearScene(done)
  PROVE  Data'
<1>1. ControlTyped /\ TimeTyped /\ UserTyped /\ SnapshotTyped /\ SceneTyped /\ RetainedFirst
  BY TypeParts DEF IInv
<1>2. /\ Busy /\ Busy' /\ goal' = goal /\ goal.kind = "move_carry_pose" /\ Name = "carry_scene"
      /\ Name' = (IF done THEN "carry" ELSE Name)
      /\ SceneTyped' /\ attached' = attached /\ retaining' = (retaining \/ done)
      /\ attached # NoBox => live'[attached] = live[attached] /\ View'[attached] = View[attached]
      /\ retaining' => \A o \in Objects : View'[o] = Missing
  BY ClearSceneEffect
<1>3. /\ UNCHANGED <<active, selected, target, placement, behind, captured, boxes, tables>> /\ state' = state
      /\ disposition' = disposition /\ pc' \in {"attempt", "failed"}
  BY DEF ClearScene, Succeeded, Failed, task_vars, user_vars, snapshot_vars
<1>4. ~captured /\ ~goal.auto /\ ~retaining /\ retaining' = done /\ ~PickTarget'
  <2>1. ~captured
    BY <1>2 DEF IInv, CapturedByPhase
  <2>2. ~goal.auto
    BY <1>2 DEF IInv, PlanPoint
  <2>3. ~retaining
    BY <1>2, <2>1 DEF IInv, CapturedByPhase
  <2>4. ~PickTarget'
    BY <1>2 DEF PickTarget
  <2> QED
    BY <1>2, <2>1, <2>2, <2>3, <2>4
<1>5. UserTyped'
  BY <1>1, <1>2, <1>3, <1>4 DEF IInv, UserTyped
<1>6. SnapshotTyped'
  BY <1>1, <1>2, <1>3, <1>4 DEF IInv, SnapshotTyped
<1>7. SceneTyped'
  BY <1>1, <1>2, <1>3, <1>4 DEF IInv, SceneTyped
<1>8. RetainedFirst'
  BY <1>1, <1>2, <1>3, <1>4 DEF IInv, RetainedFirst
<1>9. AttachedByPhase'
  BY <1>1, <1>2, <1>3, <1>4 DEF IInv, AttachedByPhase
<1>10. CapturedByPhase'
  BY <1>1, <1>2, <1>3, <1>4 DEF IInv, CapturedByPhase
<1>11. SnapshotShown'
  BY <1>1, <1>2, <1>3, <1>4 DEF IInv, SnapshotShown
<1>12. PlacedShown'
  BY <1>1, <1>2, <1>3, <1>4 DEF IInv, PlacedShown
<1>13. TargetFollows'
  BY <1>1, <1>2, <1>3, <1>4 DEF IInv, TargetFollows
<1>14. PlacementFollows'
  BY <1>1, <1>2, <1>3, <1>4 DEF IInv, PlacementFollows
<1>15. SnapshotFresh'
  BY <1>1, <1>2, <1>3, <1>4 DEF IInv, SnapshotFresh
<1>16. AutoSeen'
  BY <1>1, <1>2, <1>3, <1>4 DEF IInv, AutoSeen
<1> QED
  BY <1>5, <1>6, <1>7, <1>8, <1>9, <1>10, <1>11, <1>12, <1>13, <1>14, <1>15, <1>16 DEF Data

LEMMA AttachBoxKeeps ==
  ASSUME IInv, NEW done \in BOOLEAN, AttachBox(done)
  PROVE  Data'
<1>1. ControlTyped /\ TimeTyped /\ UserTyped /\ SnapshotTyped /\ SceneTyped /\ RetainedFirst
  BY TypeParts DEF IInv
<1>2. /\ Busy /\ Busy' /\ goal' = goal /\ Name = "attach_scene" /\ Name' = (IF done THEN "carry" ELSE Name)
      /\ disposition' = disposition /\ active' = active /\ OwnBox = active /\ OwnBox' = OwnBox /\ active \in Boxes
      /\ ~PickTarget /\ ~PickTarget'
      /\ SceneTyped' /\ attached' = active /\ live'[active] = Missing /\ retaining' = retaining
      /\ \A o \in Objects : o # active => View'[o] = View[o]
  BY AttachBoxEffect
<1>3. /\ UNCHANGED <<selected, target, placement, behind, captured, boxes, tables>> /\ state' = state
      /\ epoch' = epoch /\ continueStamp' = continueStamp /\ continueStamp = 0 /\ pc' \in {"attempt", "failed"}
  BY DEF AttachBox, InBody, Succeeded, Failed, task_vars, time_vars, user_vars, snapshot_vars, IInv,
     StampByPoint
<1>4. goal.kind \in {"pick", "place", "pick_place"} /\ captured /\ state = "HOLDING"
  <2>1. goal.kind \in {"pick", "place", "pick_place"} /\ captured
    BY <1>2, BoxPhaseFacts
  <2> QED
    BY <1>2, <2>1 DEF IInv, DispositionByPhase, StateByPhase, WithBox, AfterRelease
<1>5. UserTyped'
  BY <1>1, <1>2, <1>3, <1>4 DEF IInv, UserTyped
<1>6. SnapshotTyped'
  BY <1>1, <1>2, <1>3, <1>4 DEF IInv, SnapshotTyped
<1>7. SceneTyped'
  BY <1>1, <1>2, <1>3, <1>4 DEF IInv, SceneTyped
<1>8. RetainedFirst'
  BY <1>1, <1>2, <1>3, <1>4 DEF IInv, RetainedFirst
<1>9. AttachedByPhase'
  BY <1>1, <1>2, <1>3, <1>4 DEF IInv, AttachedByPhase
<1>10. CapturedByPhase'
  BY <1>1, <1>2, <1>3, <1>4 DEF IInv, CapturedByPhase
<1>11. SnapshotShown'
  BY <1>2, <1>3, <1>4, Sorts DEF IInv, SnapshotShown
<1>12. PlacedShown'
  BY <1>1, <1>2, <1>3, <1>4 DEF IInv, PlacedShown
<1>13. TargetFollows'
  BY <1>1, <1>2, <1>3, <1>4 DEF IInv, TargetFollows
<1>14. PlacementFollows'
  BY <1>1, <1>2, <1>3, <1>4 DEF IInv, PlacementFollows
<1>15. SnapshotFresh'
  BY <1>1, <1>2, <1>3, <1>4 DEF IInv, SnapshotFresh
<1>16. AutoSeen'
  BY <1>1, <1>2, <1>3, <1>4 DEF IInv, AutoSeen
<1> QED
  BY <1>5, <1>6, <1>7, <1>8, <1>9, <1>10, <1>11, <1>12, <1>13, <1>14, <1>15, <1>16 DEF Data

LEMMA PlaceBoxKeeps ==
  ASSUME IInv, NEW done \in BOOLEAN, PlaceBox(done)
  PROVE  Data'
<1>1. ControlTyped /\ TimeTyped /\ UserTyped /\ SnapshotTyped /\ SceneTyped /\ RetainedFirst
  BY TypeParts DEF IInv
<1>2. /\ Busy /\ Busy' /\ goal' = goal /\ Name = "release_scene" /\ Name' = (IF done THEN "return" ELSE Name)
      /\ disposition' = disposition /\ active' = active /\ OwnBox = active /\ OwnBox' = OwnBox /\ active \in Boxes
      /\ ~PickTarget /\ ~PickTarget'
      /\ SceneTyped' /\ attached' = NoBox /\ retaining' = retaining
      /\ done => View'[active] = Placed
      /\ \A o \in Objects : o # active => View'[o] = View[o]
  BY PlaceBoxEffect
<1>3. /\ UNCHANGED <<selected, target, placement, behind, captured, boxes, tables>> /\ state' = state
      /\ epoch' = epoch /\ continueStamp' = continueStamp /\ continueStamp = 0 /\ pc' \in {"attempt", "failed"}
  BY DEF PlaceBox, InBody, Succeeded, Failed, task_vars, time_vars, user_vars, snapshot_vars, IInv,
     StampByPoint
<1>4. goal.kind \in {"pick", "place", "pick_place"} /\ captured /\ state = "EMPTY"
  <2>1. goal.kind \in {"pick", "place", "pick_place"} /\ captured
    BY <1>2, BoxPhaseFacts
  <2> QED
    BY <1>2, <2>1 DEF IInv, DispositionByPhase, StateByPhase, WithBox, AfterRelease
<1>5. UserTyped'
  BY <1>1, <1>2, <1>3, <1>4 DEF IInv, UserTyped
<1>6. SnapshotTyped'
  BY <1>1, <1>2, <1>3, <1>4 DEF IInv, SnapshotTyped
<1>7. SceneTyped'
  BY <1>1, <1>2, <1>3, <1>4 DEF IInv, SceneTyped
<1>8. RetainedFirst'
  BY <1>1, <1>2, <1>3, <1>4 DEF IInv, RetainedFirst
<1>9. AttachedByPhase'
  BY <1>1, <1>2, <1>3, <1>4 DEF IInv, AttachedByPhase
<1>10. CapturedByPhase'
  BY <1>1, <1>2, <1>3, <1>4 DEF IInv, CapturedByPhase
<1>11. SnapshotShown'
  BY <1>2, <1>3, <1>4, Sorts DEF IInv, SnapshotShown
<1>12. PlacedShown'
  BY <1>1, <1>2, <1>3, <1>4 DEF IInv, PlacedShown
<1>13. TargetFollows'
  BY <1>1, <1>2, <1>3, <1>4 DEF IInv, TargetFollows
<1>14. PlacementFollows'
  BY <1>1, <1>2, <1>3, <1>4 DEF IInv, PlacementFollows
<1>15. SnapshotFresh'
  BY <1>1, <1>2, <1>3, <1>4 DEF IInv, SnapshotFresh
<1>16. AutoSeen'
  BY <1>1, <1>2, <1>3, <1>4 DEF IInv, AutoSeen
<1> QED
  BY <1>5, <1>6, <1>7, <1>8, <1>9, <1>10, <1>11, <1>12, <1>13, <1>14, <1>15, <1>16 DEF Data

LEMMA MovedKeeps ==
  ASSUME IInv, PlannedAndMoved, stage # Len(Stages(goal))
  PROVE  Data'
<1>1. ControlTyped /\ TimeTyped /\ UserTyped /\ SnapshotTyped /\ SceneTyped /\ RetainedFirst
  BY TypeParts DEF IInv
<1>2. pc = "plan" /\ Busy /\ Name \notin {"attach", "release"} /\ continueStamp = 0
  BY DEF PlannedAndMoved, Busy, IInv, StampByPoint
<1>3. /\ goal' = goal /\ disposition' = disposition /\ state' = state /\ epoch' = epoch /\ Busy' /\ pc' = "attempt"
      /\ continueStamp' = continueStamp /\ OwnBox' = OwnBox /\ PickTarget' = PickTarget /\ stage' = stage + 1
      /\ UNCHANGED <<active, selected, target, captured, boxes, tables, live, attached, retaining, retained>>
      /\ IF Name = "carry"
         THEN placement' = (IF goal.auto THEN tables["main"] ELSE placement) /\ behind' = behind \ {"place"}
         ELSE placement' = placement /\ behind' = behind
  BY <1>2 DEF PlannedAndMoved, Succeeded, Carried, task_vars, time_vars, snapshot_vars, user_vars, scene_vars,
     Busy, OwnBox, PickTarget
<1>4. /\ Name \in {"pick", "place", "carry"} /\ (Name = "carry" => goal.kind = "pick_place")
      /\ Name' = IF Name = "pick" THEN "attach" ELSE IF Name = "place" THEN "release" ELSE "scene"
  <2>1. <<Name, Name'>> \in Follows(goal)
    BY <1>1, <1>3, NextName
  <2>2. Name \in {"pick", "attach", "place", "carry", "release", "return", "reset"}
    BY <1>2 DEF IInv, PlanPoint
  <2> QED
    BY <1>2, <2>1, <2>2 DEF Follows
<1>5. View' = View
  BY <1>3, ViewKept DEF scene_vars
<1>6. tables["main"] \in Seen \cup {Missing}
  BY <1>1, Sorts DEF SnapshotTyped
<1>7. UserTyped'
  BY <1>1, <1>2, <1>3, <1>4, <1>5, <1>6 DEF IInv, UserTyped
<1>8. SnapshotTyped'
  BY <1>1, <1>2, <1>3, <1>4, <1>5, <1>6 DEF IInv, SnapshotTyped
<1>9. SceneTyped'
  BY <1>1, <1>2, <1>3, <1>4, <1>5, <1>6 DEF IInv, SceneTyped
<1>10. RetainedFirst'
  BY <1>1, <1>2, <1>3, <1>4, <1>5, <1>6 DEF IInv, RetainedFirst
<1>11. AttachedByPhase'
  BY <1>1, <1>2, <1>3, <1>4, <1>5, <1>6 DEF IInv, AttachedByPhase
<1>12. CapturedByPhase'
  BY <1>1, <1>2, <1>3, <1>4, <1>5, <1>6 DEF IInv, CapturedByPhase
<1>13. SnapshotShown'
  BY <1>1, <1>2, <1>3, <1>4, <1>5, <1>6 DEF IInv, SnapshotShown
<1>14. PlacedShown'
  BY <1>1, <1>2, <1>3, <1>4, <1>5, <1>6 DEF IInv, PlacedShown
<1>15. TargetFollows'
  BY <1>1, <1>2, <1>3, <1>4, <1>5, <1>6 DEF IInv, TargetFollows
<1>16. PlacementFollows'
  BY <1>1, <1>2, <1>3, <1>4, <1>5, <1>6 DEF IInv, PlacementFollows
<1>17. SnapshotFresh'
  BY <1>1, <1>2, <1>3, <1>4, <1>5, <1>6 DEF IInv, SnapshotFresh
<1>18. AutoSeen'
  BY <1>1, <1>2, <1>3, <1>4, <1>5, <1>6 DEF IInv, AutoSeen
<1> QED
  BY <1>7, <1>8, <1>9, <1>10, <1>11, <1>12, <1>13, <1>14, <1>15, <1>16, <1>17, <1>18 DEF Data

LEMMA AttachOrDetachKeeps ==
  ASSUME IInv, AttachOrDetach
  PROVE  Data'
<1>1. ControlTyped /\ TimeTyped /\ UserTyped /\ SnapshotTyped /\ SceneTyped /\ RetainedFirst
  BY TypeParts DEF IInv
<1>2. pc = "plan" /\ Busy /\ Name \in {"attach", "release"} /\ continueStamp = 0
  BY DEF AttachOrDetach, Busy, IInv, StampByPoint
<1>3. /\ goal' = goal /\ epoch' = epoch /\ Busy' /\ pc' = "attempt" /\ continueStamp' = continueStamp
      /\ stage' = stage + 1 /\ request' = request
      /\ UNCHANGED <<active, selected, target, placement, behind, captured, boxes, tables, live, attached>>
      /\ UNCHANGED <<retaining, retained>>
      /\ disposition' = (IF Name = "attach" THEN "attached" ELSE "released")
      /\ state' = (IF Name = "attach" THEN "HOLDING" ELSE "EMPTY")
  BY <1>2 DEF AttachOrDetach, time_vars, snapshot_vars, user_vars, scene_vars, Busy
<1>4. /\ Name' = (IF Name = "attach" THEN "attach_scene" ELSE "release_scene")
      /\ goal.kind \in {"pick", "place", "pick_place"}
  <2>1. stage # Len(Stages(goal)) /\ Name \in PhaseNames(goal) /\ goal \in Goals
    BY <1>1, <1>2, NameFacts DEF Final, ControlTyped
  <2>2. <<Name, Name'>> \in Follows(goal)
    BY <1>1, <1>3, <2>1, NextName
  <2> QED
    BY <1>2, <2>1, <2>2 DEF Follows, PhaseNames, TargetPhase, BeforeAttach, AfterRelease, Goals, Kinds
<1>5. /\ active \in Boxes /\ attached \in {NoBox, active} /\ (Name = "attach" => attached = NoBox) /\ ~PickTarget'
      /\ OwnBox' = active /\ OwnBox \in {NoBox, active}
  <2>1. active \in Boxes
    BY <1>2, <1>4 DEF IInv, AttachedByPhase
  <2>2. Name = "attach" => attached = NoBox
    BY <1>2, BoxPhaseFacts
  <2>3. attached \in {NoBox, active}
    BY DEF IInv, AttachedByPhase
  <2> QED
    BY <1>3, <1>4, <2>1, <2>2, <2>3 DEF PickTarget, OwnBox
<1>6. View' = View
  BY <1>3, ViewKept DEF scene_vars
<1>7. UserTyped'
  BY <1>1, <1>2, <1>3, <1>4, <1>5, <1>6 DEF IInv, UserTyped
<1>8. SnapshotTyped'
  BY <1>1, <1>2, <1>3, <1>4, <1>5, <1>6 DEF IInv, SnapshotTyped
<1>9. SceneTyped'
  BY <1>1, <1>2, <1>3, <1>4, <1>5, <1>6 DEF IInv, SceneTyped
<1>10. RetainedFirst'
  BY <1>1, <1>2, <1>3, <1>4, <1>5, <1>6 DEF IInv, RetainedFirst
<1>11. AttachedByPhase'
  BY <1>1, <1>2, <1>3, <1>4, <1>5, <1>6 DEF IInv, AttachedByPhase
<1>12. CapturedByPhase'
  BY <1>1, <1>2, <1>3, <1>4, <1>5, <1>6 DEF IInv, CapturedByPhase
<1>13. SnapshotShown'
  BY <1>2, <1>3, <1>4, <1>5, <1>6, Sorts DEF IInv, SnapshotShown
<1>14. PlacedShown'
  BY <1>1, <1>2, <1>3, <1>4, <1>5, <1>6 DEF IInv, PlacedShown
<1>15. TargetFollows'
  BY <1>1, <1>2, <1>3, <1>4, <1>5, <1>6 DEF IInv, TargetFollows
<1>16. PlacementFollows'
  BY <1>1, <1>2, <1>3, <1>4, <1>5, <1>6 DEF IInv, PlacementFollows
<1>17. SnapshotFresh'
  BY <1>1, <1>2, <1>3, <1>4, <1>5, <1>6 DEF IInv, SnapshotFresh
<1>18. AutoSeen'
  BY <1>1, <1>2, <1>3, <1>4, <1>5, <1>6 DEF IInv, AutoSeen
<1> QED
  BY <1>7, <1>8, <1>9, <1>10, <1>11, <1>12, <1>13, <1>14, <1>15, <1>16, <1>17, <1>18 DEF Data
-----------------------------------------------------------------------------
LEMMA DataNext ==
  ASSUME IInv, Next
  PROVE  Data'
<1> USE DEF task_vars
<1>1. CASE \E kind \in Kinds : Begin(kind)
  BY <1>1, BeginKeeps
<1>2. CASE ContinueScene \/ ContinueSceneFails
  BY <1>2, ContinueSceneKeeps, ContinueSceneFailsKeeps
<1>3. CASE SelectOnly \/ SelectFromSnapshot \/ SelectAndCapture \/ SelectAndCaptureFails
  BY <1>3, SelectOnlyKeeps, SelectFromSnapshotKeeps, SelectAndCaptureKeeps, SelectAndCaptureFailsKeeps
<1>4. CASE ResolvePlacement \/ TakeScene \/ TakeSceneFails
  BY <1>4, ResolvePlacementKeeps, TakeSceneKeeps, TakeSceneFailsKeeps
<1>5. CASE BoxMoved \/ PlanPick \/ PlanPlace
  BY <1>5, BoxMovedKeeps, PlanPickKeeps, PlanPlaceKeeps
<1>6. ASSUME NEW done \in BOOLEAN, ClearScene(done) \/ ShowBox(done) \/ AttachBox(done) \/ PlaceBox(done)
      PROVE  Data'
  BY <1>6, ClearSceneKeeps, ShowBoxKeeps, AttachBoxKeeps, PlaceBoxKeeps
<1>7. CASE PlannedAndMoved
  <2>1. CASE stage = Len(Stages(goal))
    <3>1. Ends
      BY <1>7, <2>1 DEF PlannedAndMoved, Ends, Busy
    <3> QED
      BY <3>1, EndKeeps
  <2>2. CASE stage # Len(Stages(goal))
    BY <1>7, <2>2, MovedKeeps
  <2> QED
    BY <2>1, <2>2
<1>8. CASE AttachOrDetach
  BY <1>8, AttachOrDetachKeeps
<1>9. CASE DispatchUncertain \/ GiveUp
  <2>1. Ends
    BY <1>9 DEF DispatchUncertain, GiveUp, Ends, Busy
  <2> QED
    BY <2>1, EndKeeps
<1>10. CASE NoScenePending
  <2>1. /\ Busy /\ Busy' /\ UNCHANGED <<goal, disposition, state, stage>>
        /\ UNCHANGED <<snapshot_vars, user_vars, scene_vars>> /\ pc' # "plan"
        /\ goal.kind # "move_carry_pose" => continueStamp = 0 /\ epoch' = epoch
    BY <1>10 DEF NoScenePending, Busy
  <2> QED
    BY <2>1, QuietKeeps
<1>11. CASE NothingSelected
  <2>1. /\ Busy /\ Busy' /\ UNCHANGED <<goal, disposition, state, stage>>
        /\ UNCHANGED <<snapshot_vars, user_vars, scene_vars>> /\ pc' # "plan"
        /\ PickTarget /\ ~selected
    BY <1>11 DEF NothingSelected, Busy
  <2>2. ~captured
    BY <2>1 DEF IInv, CapturedByPhase
  <2> QED
    BY <2>1, <2>2, QuietKeeps
<1>12. CASE PlanMotion \/ AttemptFails \/ RetryOrPause
  <2>1. /\ Busy /\ Busy' /\ UNCHANGED <<goal, disposition, state, stage>>
        /\ UNCHANGED <<snapshot_vars, user_vars, scene_vars>> /\ continueStamp' = continueStamp /\ epoch' = epoch
        /\ pc' = "plan" => Name \notin {"pick_scene", "pick", "attach", "place"}
    BY <1>12 DEF PlanMotion, AttemptFails, RetryOrPause, InBody, Plans, Failed, time_vars, Busy
  <2> QED
    BY <2>1, QuietKeeps
<1>13. CASE Continue
  <2>1. /\ Busy /\ Busy' /\ UNCHANGED <<goal, disposition, state, stage>>
        /\ UNCHANGED <<snapshot_vars, user_vars, scene_vars>> /\ pc' # "plan" /\ continueStamp' = epoch + 1
    BY <1>13 DEF Continue, Busy
  <2>2. epoch \in Nat
    BY IInvParts, SceneAssumption DEF TimeTyped
  <2> QED
    BY <2>1, <2>2, QuietKeeps
<1> QED
  BY <1>1, <1>2, <1>3, <1>4, <1>5, <1>6, <1>7, <1>8, <1>9, <1>10, <1>11, <1>12, <1>13 DEF Next

\* What a task that plans knows.
LEMMA PlanView ==
  ASSUME IInv, pc = "plan"
  PROVE  /\ \A b \in Boxes \ {OwnBox} : View[b] = boxes[b]
         /\ \A t \in Tables : View[t] = tables[t]
         /\ PickTarget => target = boxes[active]
         /\ attached = IF disposition = "attached" THEN active ELSE NoBox
         /\ disposition = "attached" => View[active] = Missing
         /\ goal.kind # "reset" /\ disposition = "released" => View[active] = Placed
         /\ Name = "place" /\ goal.auto => placement = View["main"]
         /\ goal.kind # "move_carry_pose" => captured
         /\ continueStamp = 0 /\ Name \notin {"select", "place_target"}
<1>1. Busy /\ continueStamp = 0 /\ ControlTyped /\ SceneTyped /\ Name \in PhaseNames(goal) /\ goal \in Goals
  BY IInvParts, NameFacts DEF IInv, StampByPoint, Busy, Data, ControlTyped
<1>2. Name \in {"pick", "attach", "place", "carry", "release", "return", "reset"}
  BY DEF IInv, PlanPoint
<1>3. goal.kind # "move_carry_pose" => captured
  BY <1>1, <1>2 DEF IInv, CapturedByPhase
<1>4. /\ \A b \in Boxes \ {OwnBox} : View[b] = boxes[b]
      /\ \A t \in Tables : View[t] = tables[t]
  <2>1. CASE goal.kind = "move_carry_pose"
    <3>1. Name = "carry"
      BY <1>1, <1>2, <2>1 DEF PhaseNames
    <3>2. \A o \in Objects : View[o] = Missing
      BY <1>1, <2>1, <3>1 DEF IInv, CapturedByPhase
    <3>3. \A b \in Boxes : boxes[b] = Missing
      BY <2>1 DEF IInv, CapturedByPhase, Nothing
    <3>4. \A t \in Tables : tables[t] = Missing
      BY <2>1 DEF IInv, CapturedByPhase, Nothing
    <3> QED
      BY <3>2, <3>3, <3>4, Sorts
  <2>2. CASE goal.kind # "move_carry_pose"
    BY <1>1, <1>2, <1>3, <2>2 DEF IInv, SnapshotShown
  <2> QED
    BY <2>1, <2>2
<1>5. /\ disposition = "attached" => goal.kind # "reset" /\ state = "HOLDING"
      /\ disposition = "released" /\ goal.kind # "reset" => Name = "return" /\ state = "EMPTY"
      /\ disposition = "not_attached" => goal.kind # "reset" /\ state = "EMPTY" /\ Name \in {"pick", "attach"}
      /\ disposition \in {"attached", "released", "not_attached"}
      /\ goal.kind = "reset" => Name = "reset"
  <2>1. goal.kind = "reset" => Name = "reset"
    BY <1>1, <1>2 DEF PhaseNames
  <2>2. Name = "reset" => goal.kind = "reset"
    BY <1>1 DEF PhaseNames, TargetPhase, BeforeAttach, AfterRelease, Goals, Kinds
  <2> QED
    BY <1>1, <1>2, <2>1, <2>2 DEF IInv, DispositionByPhase, StateByPhase, WithBox, AfterRelease
<1>6. PickTarget => target = boxes[active]
  BY <1>1, <1>5 DEF IInv, TargetFollows, PickTarget
<1>7. attached = IF disposition = "attached" THEN active ELSE NoBox
  <2>1. goal.kind = "reset" => attached = NoBox
    <3>1. goal.kind = "reset" => retaining
      BY <1>3, IInvParts DEF Data, RetainedFirst
    <3> QED
      BY <3>1 DEF IInv, AttachedByPhase
  <2>2. disposition = "attached" => attached = active
    BY <1>2, <1>5 DEF IInv, AttachedByPhase
  <2>3. disposition # "attached" /\ goal.kind # "reset" => attached = NoBox
    BY <1>2, <1>5 DEF IInv, AttachedByPhase
  <2> QED
    BY <1>5, <2>1, <2>2, <2>3
<1>8. disposition = "attached" => View[active] = Missing
  <2>1. disposition = "attached" => active \in Boxes /\ active \in Objects
    BY <1>5, Sorts DEF IInv, AttachedByPhase
  <2>2. disposition = "attached" => attached = active /\ live[active] = Missing
    BY <1>7, <2>1, SceneAssumption DEF IInv, AttachedByPhase
  <2> QED
    BY <1>1, <2>1, <2>2, ViewTyped
<1>9. goal.kind # "reset" /\ disposition = "released" => View[active] = Placed
  BY <1>1, <1>5 DEF IInv, PlacedShown
<1>10. Name = "place" /\ goal.auto => placement = View["main"]
  BY <1>1, <1>4, Sorts DEF IInv, PlacementFollows
<1> QED
  BY <1>1, <1>2, <1>3, <1>4, <1>6, <1>7, <1>8, <1>9, <1>10

\* What acquires, selects or plans leaves the box of the task alone.
LEMMA AcquisitionKeepsBox ==
  ASSUME IInv, Next, OwnBox # NoBox, pc \in {"attempt", "body"},
         pc = "body" => Name \notin {"attach_scene", "release_scene"}
  PROVE  attached' = attached /\ View'[OwnBox] = View[OwnBox] /\ live'[OwnBox] = live[OwnBox]
<1> DEFINE Kept3 == attached' = attached /\ View'[OwnBox] = View[OwnBox] /\ live'[OwnBox] = live[OwnBox]
<1>1. goal.kind # "reset" /\ disposition \in {"attached", "released"} /\ ~PickTarget /\ OwnBox = active
  BY DEF OwnBox, PickTarget
<1>2. CASE UNCHANGED scene_vars
  BY <1>2, ViewKept DEF scene_vars
<1>3. CASE ContinueScene \/ ContinueSceneFails
  BY <1>1, <1>3, ContinueSceneEffect, ContinueSceneFailsEffect
<1>4. CASE TakeScene \/ TakeSceneFails
  <2>1. CASE TakeScene /\ captured
    BY <1>2, <2>1 DEF TakeScene
  <2>2. CASE TakeScene /\ ~captured
    BY <1>1, <2>2, TakeSceneEffect
  <2>3. CASE TakeSceneFails
    BY <1>1, <2>3, TakeSceneFailsEffect
  <2> QED
    BY <1>4, <2>1, <2>2, <2>3
<1>5. CASE SelectAndCapture \/ SelectAndCaptureFails
  BY <1>1, <1>5, SelectFacts DEF SelectAndCapture, SelectAndCaptureFails
<1>6. ASSUME NEW done \in BOOLEAN, ClearScene(done)
      PROVE  Kept3
  <2>1. /\ Busy /\ goal.kind = "move_carry_pose" /\ Name = "carry_scene" /\ attached' = attached
        /\ attached # NoBox => live'[attached] = live[attached] /\ View'[attached] = View[attached]
    BY <1>6, ClearSceneEffect
  <2>2. state = "HOLDING"
    BY <2>1 DEF IInv, DispositionByPhase, StateByPhase, WithBox, AfterRelease
  <2>3. attached = active
    BY <2>1, <2>2 DEF IInv, AttachedByPhase
  <2> QED
    BY <1>1, <2>1, <2>3
<1>7. ASSUME NEW done \in BOOLEAN, ShowBox(done) \/ AttachBox(done) \/ PlaceBox(done)
      PROVE  Kept3
  <2>1. pc = "body" /\ Name \in {"pick_scene", "attach_scene", "release_scene"}
    BY <1>7 DEF ShowBox, AttachBox, PlaceBox, InBody
  <2> QED
    BY <1>1, <2>1, BoxPhaseFacts DEF Busy
<1>8. CASE BoxMoved
  <2>1. pc = "body" /\ Name \in {"pick_scene", "pick", "attach"}
    BY <1>8 DEF BoxMoved, InBody
  <2> QED
    BY <1>1, <2>1, BoxPhaseFacts DEF Busy
<1>9. CASE \E kind \in Kinds : Begin(kind)
  BY <1>9 DEF Begin
<1>10. CASE PlannedAndMoved \/ AttachOrDetach \/ DispatchUncertain \/ RetryOrPause \/ Continue \/ GiveUp
  BY <1>10 DEF PlannedAndMoved, AttachOrDetach, DispatchUncertain, RetryOrPause, Continue, GiveUp
<1>11. CASE \/ NoScenePending \/ NothingSelected \/ SelectOnly \/ SelectFromSnapshot \/ ResolvePlacement
            \/ PlanPick \/ PlanPlace \/ PlanMotion \/ AttemptFails
  BY <1>2, <1>11 DEF NoScenePending, NothingSelected, SelectOnly, SelectFromSnapshot, ResolvePlacement,
     PlanPick, PlanPlace, PlanMotion, AttemptFails
<1> QED
  BY <1>3, <1>4, <1>5, <1>6, <1>7, <1>8, <1>9, <1>10, <1>11 DEF Next

LEMMA InitIInv == Init => IInv
<1> SUFFICES ASSUME Init PROVE IInv
  OBVIOUS
<1> USE DEF Busy
<1>1. goal = [kind |-> "reset", auto |-> FALSE] /\ goal \in Goals /\ goal.kind = "reset" /\ goal.auto = FALSE
  BY DEF Init, Goals, Kinds
<1>2. stage \in 1..Len(Stages(goal))
  <2>1. Len(Stages(goal)) \in Nat \ {0}
    BY <1>1, StagesChain DEF Chain
  <2>2. stage = 1
    BY DEF Init
  <2> QED
    BY <2>1, <2>2
<1>3. /\ pc = "idle" /\ state = "EMPTY" /\ disposition = "not_attached"
      /\ epoch = 1 /\ request = 1 /\ continueStamp = 0 /\ captured = FALSE /\ selected = FALSE /\ retaining = FALSE
      /\ attached = NoBox /\ active = NoBox /\ ~PickTarget
  BY <1>1 DEF Init, PickTarget
<1>4. ControlTyped
  BY <1>1, <1>2, <1>3 DEF ControlTyped
<1>5. TimeTyped
  BY <1>3, SceneAssumption DEF TimeTyped
<1>6. /\ boxes = Nothing(Boxes) /\ tables = Nothing(Tables) /\ live = Nothing(Objects) /\ retained = Nothing(Objects)
      /\ target = Missing /\ placement = Missing /\ behind = {}
  BY DEF Init
<1>7. UserTyped /\ SnapshotTyped /\ SceneTyped /\ RetainedFirst
  BY <1>3, <1>6, Poses3 DEF UserTyped, SnapshotTyped, SceneTyped, RetainedFirst, Nothing
<1>8. DispositionByPhase /\ StateByPhase /\ StampByPoint /\ PlanPoint
  BY <1>1, <1>3 DEF DispositionByPhase, StateByPhase, StampByPoint, PlanPoint
<1>9. AttachedByPhase /\ CapturedByPhase
  BY <1>1, <1>3, <1>6 DEF AttachedByPhase, CapturedByPhase
<1>10. SnapshotShown /\ PlacedShown /\ TargetFollows /\ PlacementFollows /\ SnapshotFresh /\ AutoSeen
  BY <1>1, <1>3 DEF SnapshotShown, PlacedShown, TargetFollows, PlacementFollows, SnapshotFresh, AutoSeen
<1> QED
  BY <1>4, <1>5, <1>7, <1>8, <1>9, <1>10, IInvParts DEF Data

LEMMA StutterIInv ==
  ASSUME IInv, UNCHANGED vars
  PROVE  IInv'
<1>1. /\ UNCHANGED <<state, goal, disposition, stage, pc, epoch, request, continueStamp>>
      /\ UNCHANGED <<active, selected, captured, boxes, tables, target, placement, behind>>
      /\ UNCHANGED <<live, attached, retaining, retained>>
  BY DEF vars, task_vars, time_vars, snapshot_vars, user_vars, scene_vars
<1>2. Name' = Name /\ View' = View /\ OwnBox' = OwnBox /\ PickTarget' = PickTarget /\ Busy' = Busy
  BY <1>1, SameName, ViewKept DEF OwnBox, PickTarget, Busy, scene_vars
<1>3. TypeOK'
  BY <1>1 DEF IInv, TypeOK
<1>4. (DispositionByPhase /\ StateByPhase /\ StampByPoint /\ PlanPoint)'
  BY <1>1, <1>2 DEF IInv, DispositionByPhase, StateByPhase, StampByPoint, PlanPoint
<1>5. (AttachedByPhase /\ CapturedByPhase)'
  BY <1>1, <1>2 DEF IInv, AttachedByPhase, CapturedByPhase
<1>6. (SnapshotShown /\ PlacedShown /\ TargetFollows /\ PlacementFollows /\ SnapshotFresh /\ AutoSeen)'
  BY <1>1, <1>2 DEF IInv, SnapshotShown, PlacedShown, TargetFollows, PlacementFollows, SnapshotFresh, AutoSeen
<1> QED
  BY <1>3, <1>4, <1>5, <1>6 DEF IInv

LEMMA StepIInv ==
  ASSUME IInv, [Next]_vars
  PROVE  IInv'
<1>1. CASE UNCHANGED vars
  BY <1>1, StutterIInv
<1>2. CASE Next
  <2>1. ControlTyped /\ TimeTyped /\ DispositionByPhase /\ StateByPhase /\ StampByPoint /\ PlanPoint
    BY IInvParts
  <2>2. ControlTyped' /\ TimeTyped' /\ StampByPoint'
    BY <1>2, <2>1, ControlTypedNext, TimeNext
  <2>3. DispositionByPhase' /\ StateByPhase' /\ PlanPoint'
    BY <1>2, <2>1, DispositionByPhaseNext, StateByPhaseNext, PlanPointNext
  <2>4. Data'
    BY <1>2, DataNext
  <2> QED
    BY <2>2, <2>3, <2>4, IInvParts, PTL
<1> QED
  BY <1>1, <1>2

\* The invariant the properties rest on: what the task holds of the scene, where its
\* box is and what its plans derive from follow from the phase it is in.
THEOREM Invariance == Spec => []IInv
<1>1. IInv /\ [Next]_vars => IInv'
  BY StepIInv
<1> QED
  BY InitIInv, <1>1, PTL DEF Spec

-----------------------------------------------------------------------------
\* Every stamp, pose and object of the task, the snapshot and the scene is of its type.
THEOREM TypeCorrect == Spec => []TypeOK
<1>1. IInv => TypeOK
  BY DEF IInv
<1> QED
  BY <1>1, Invariance, PTL

\* What the planners of a task see is the snapshot the server keeps and the task's own
\* box where the task has it; the place is derived from the table in that scene.
THEOREM SceneIsSnapshotAlways == Spec => []SceneIsSnapshot
<1>1. IInv => SceneIsSnapshot
  <2> SUFFICES ASSUME IInv, pc = "plan" PROVE SceneIsSnapshot
    BY DEF SceneIsSnapshot
  <2>1. /\ \A b \in Boxes \ {OwnBox} : View[b] = boxes[b]
        /\ \A t \in Tables : View[t] = tables[t]
        /\ PickTarget => target = boxes[active]
        /\ attached = IF disposition = "attached" THEN active ELSE NoBox
        /\ disposition = "attached" => View[active] = Missing
        /\ goal.kind # "reset" /\ disposition = "released" => View[active] = Placed
        /\ Name = "place" /\ goal.auto => placement = View["main"]
    BY PlanView
  <2> QED
    BY <2>1 DEF SceneIsSnapshot
<1> QED
  BY <1>1, Invariance, PTL

\* No plan uses a box, a required table or a place that was seen before the request, or
\* the Continue, it answers.
THEOREM ScenePostdatesRequestAlways == Spec => []ScenePostdatesRequest
<1>1. IInv => ScenePostdatesRequest
  <2> SUFFICES ASSUME IInv, pc = "plan", goal.kind # "move_carry_pose" PROVE ScenePostdatesRequest
    BY DEF ScenePostdatesRequest
  <2>1. /\ \A b \in Boxes \ {OwnBox} : View[b] = boxes[b]
        /\ View["main"] = tables["main"]
        /\ Name = "place" /\ goal.auto => placement = View["main"]
        /\ captured /\ continueStamp = 0 /\ Name \notin {"select", "place_target"}
    BY PlanView, Sorts
  <2>2. \A b \in Boxes : boxes[b] = Missing \/ boxes[b].at = epoch
    BY <2>1 DEF IInv, SnapshotFresh
  <2>3. goal.auto => tables["main"].at = epoch
    BY <2>1 DEF IInv, SnapshotFresh, AutoSeen, Busy
  <2> QED
    BY <2>1, <2>2, <2>3 DEF ScenePostdatesRequest
<1> QED
  BY <1>1, Invariance, PTL

\* No acquisition of a scene detaches, moves or removes the box in the hands, or the
\* one that was placed.
THEOREM TaskBoxUndisturbedAlways == Spec => TaskBoxUndisturbed
<1>1. IInv /\ [Next]_vars =>
        [/\ OwnBox # NoBox /\ pc \in {"attempt", "body"}
         /\ pc = "body" => Name \notin {"attach_scene", "release_scene"}
         => attached' = attached /\ View'[OwnBox] = View[OwnBox] /\ live'[OwnBox] = live[OwnBox]]_vars
  <2> SUFFICES ASSUME IInv, Next, OwnBox # NoBox, pc \in {"attempt", "body"},
                      pc = "body" => Name \notin {"attach_scene", "release_scene"}
               PROVE  attached' = attached /\ View'[OwnBox] = View[OwnBox] /\ live'[OwnBox] = live[OwnBox]
    OBVIOUS
  <2> QED
    BY AcquisitionKeepsBox
<1> QED
  BY <1>1, Invariance, PTL DEF Spec, TaskBoxUndisturbed
=============================================================================
