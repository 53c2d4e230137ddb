--------------------------- MODULE PhaseRetry_proofs ---------------------------
(* Proofs about PhaseRetry for every number of attempts, phases, physical phases,
   tasks and pauses.

   The controller keeps no record of what it did: that a request is not sent again,
   or a cycle not begun for nothing, follows from where the worker stands.  The
   conjuncts below say what each of its points knows: no request is out before an
   attempt's body (DispatchedAtOutcome), a new cycle has its Continue or ends at
   once (CyclesByPoint), a pause that may still be answered has not been
   (AnswerableIsNew), and a Continue's stamp is either waiting or acquired
   (StampOrScene). *)
EXTENDS PhaseRetry, TLAPS

NoTask == {"idle", "op_admitted", "reset_admitted"}
AtPause == {"paused", "shown", "waiting"}
InCycle == {"loop", "prepare", "body", "outcome", "failed", "decide"}

TaskByPoint ==
  /\ wpc \in {"op_admitted", "reset_admitted"} => task.id < MaxTasks
  /\ wpc \notin NoTask => task.id >= 1

DispatchedAtOutcome ==
  wpc \in {"cycle", "loop", "prepare", "body", "decide"} \cup AtPause => ~dispatched

\* What was sent was sent by a phase that is over, or by this one, which knows it.
EffectsByPhase ==
  /\ NeverRedispatched
  /\ \A p \in 1..Phases : p > phase => effects[p] = 0
  /\ wpc \notin NoTask \cup {"done"} /\ ~dispatched => effects[phase] = 0

CyclesByPoint ==
  /\ CyclesNeedContinue
  /\ continueRequested => resumes.cycles <= resumes.continues
  /\ wpc = "cycle" => Canceled \/ resumes.cycles <= resumes.continues

\* The worker is at the pause it may be asked to leave, or on its way out of a
\* canceled one.
AnswerableAtPause ==
  /\ canContinue \/ continueRequested => wpc \in AtPause \/ (wpc = "cycle" /\ Canceled)
  /\ ~(canContinue /\ continueRequested)
  /\ wpc \in AtPause => pauseId >= 1

\* Only the pauses the operator may answer are left for another cycle.
PausesBounded ==
  /\ wpc \in InCycle \/ continueRequested => pauseId <= MaxPauses
  /\ wpc = "cycle" => Canceled \/ pauseId <= MaxPauses
  /\ resumes.continues <= pauseId /\ (canContinue => resumes.continues < pauseId)

\* Requests, answers and what was shown are of pauses that have been.
PausesHaveBeen ==
  /\ \A pause \in published :
       pause[1] <= task.id /\ (pause[1] = task.id => pause[2] <= pauseId)
  /\ accepted \subseteq published
  /\ request # NoRequest => request \in published /\ request[2] <= MaxPauses

AnswerableIsNew == canContinue => <<task.id, pauseId>> \notin accepted

LateIsCanceled ==
  /\ CancelStopsRetries
  /\ late > 0 => Canceled
  /\ wpc = "prepare" => late = 0

AttemptLeft == wpc = "prepare" => attempt < Attempts

StampOrScene ==
  /\ scene <= pauseId /\ stamp <= pauseId /\ (stamp # 0 => scene <= stamp)
  /\ wpc \in {"body", "outcome"} => stamp = 0
  /\ task.action # "move_carry_pose" =>
       \A pause \in accepted : pause[1] = task.id => pause[2] <= scene \/ pause[2] <= stamp

IInv ==
  /\ TypeOK
  /\ TaskByPoint /\ DispatchedAtOutcome /\ EffectsByPhase
  /\ CyclesByPoint /\ AnswerableAtPause /\ PausesBounded
  /\ PausesHaveBeen /\ AnswerableIsNew
  /\ LateIsCanceled /\ AttemptLeft /\ StampOrScene
-----------------------------------------------------------------------------
LEMMA InitIInv == Init => IInv
<1> SUFFICES ASSUME Init
             PROVE  IInv
  OBVIOUS
<1>1. TypeOK
  <2>1. task \in [id : 0..MaxTasks, action : Actions, planOnly : BOOLEAN]
    BY BoundsAssumption DEF Init, Actions
  <2>2. /\ resumes \in [continues : 0..MaxPauses, cycles : 0..MaxPauses + 1]
        /\ effects \in [1..Phases -> 0..2]
    BY BoundsAssumption DEF Init
  <2>3. phase \in 1..Phases /\ pauseId \in 0..MaxPauses + 1 /\ stamp \in 0..MaxPauses
        /\ scene \in 0..MaxPauses /\ attempt \in 0..Attempts /\ late \in 0..Attempts
    BY BoundsAssumption DEF Init
  <2> QED
    BY <2>1, <2>2, <2>3 DEF Init, TypeOK
<1> QED
  BY <1>1, BoundsAssumption
     DEF Init, IInv, TaskByPoint, DispatchedAtOutcome, EffectsByPhase, CyclesByPoint, AnswerableAtPause,
         PausesBounded, PausesHaveBeen, AnswerableIsNew, LateIsCanceled, AttemptLeft,
         StampOrScene, NeverRedispatched, CyclesNeedContinue, CancelStopsRetries, NoTask,
         AtPause, InCycle

LEMMA WorkerStepIInv ==
  ASSUME IInv, Admit \/ Run \/ EndTask
  PROVE  IInv'
<1> USE BoundsAssumption
    DEF IInv, TypeOK, TaskByPoint, DispatchedAtOutcome, EffectsByPhase, CyclesByPoint, AnswerableAtPause,
           PausesBounded, PausesHaveBeen, AnswerableIsNew, LateIsCanceled, AttemptLeft,
           StampOrScene, NeverRedispatched, CyclesNeedContinue, CancelStopsRetries, NoTask,
           AtPause, InCycle,
           status_vars, scene_vars, service_vars, history_vars, cancel_vars, WorkerAt, Canceled
<1>1. CASE Admit
  BY <1>1 DEF Admit
<1>2. CASE Cycle
  <2>1. TypeOK'
    <3>1. CASE Canceled
      BY <1>2, <3>1 DEF Cycle, EndCanceled
    <3>2. CASE ~Canceled
      <4>1. resumes.cycles + 1 \in 0..MaxPauses + 1
        BY <1>2, <3>2 DEF Cycle
      <4>2. resumes' \in [continues : 0..MaxPauses, cycles : 0..MaxPauses + 1]
        BY <1>2, <3>2, <4>1 DEF Cycle
      <4>3. /\ wpc' = "loop" /\ attempt' = 0 /\ expired' = FALSE
            /\ UNCHANGED <<status, pauseId, canContinue, continueRequested>>
            /\ UNCHANGED <<task, phase, dispatched, cancel_vars, scene_vars, service_vars,
                           published, effects, late>>
        BY <1>2, <3>2 DEF Cycle
      <4>4. TypeOK
        OBVIOUS
      <4> HIDE DEF IInv
      <4>5. /\ {canContinue', continueRequested', dispatched', expired'} \subseteq BOOLEAN
            /\ {goalCanceled', resetRequested', stopRequested'} \subseteq BOOLEAN
        BY <4>3, <4>4
      <4>6. /\ task' \in [id : 0..MaxTasks, action : Actions, planOnly : BOOLEAN]
            /\ status' \in {"idle", "running", "retrying", "paused", "completed", "failed", "canceled"}
            /\ pauseId' \in 0..MaxPauses + 1 /\ attempt' \in 0..Attempts
        BY <4>3, <4>4
      <4>7. /\ phase' \in 1..Phases
            /\ stamp' \in 0..MaxPauses /\ scene' \in 0..MaxPauses
            /\ request' \in Pauses \cup {NoRequest}
            /\ published' \subseteq Pauses /\ accepted' \subseteq Pauses
            /\ effects' \in [1..Phases -> 0..2] /\ late' \in 0..Attempts
        BY <4>3, <4>4
      <4> QED
        BY <4>2, <4>3, <4>5, <4>6, <4>7
    <3> QED
      BY <3>1, <3>2
  <2>2. TaskByPoint' /\ DispatchedAtOutcome'
    BY <1>2 DEF Cycle, EndCanceled
  <2>3. EffectsByPhase'
    BY <1>2 DEF Cycle, EndCanceled
  <2>4. CyclesByPoint'
    <3>1. CASE Canceled
      BY <1>2, <3>1 DEF Cycle, EndCanceled
    <3>2. CASE ~Canceled
      <4>1. /\ resumes \in [continues : 0..MaxPauses, cycles : 0..MaxPauses + 1]
            /\ resumes.cycles <= resumes.continues /\ ~continueRequested
        BY <1>2, <3>2 DEF Cycle
      <4>2. /\ resumes' = [resumes EXCEPT !.cycles = @ + 1] /\ wpc' = "loop"
            /\ continueRequested' = continueRequested
        BY <1>2, <3>2 DEF Cycle
      <4>3. resumes'.cycles = resumes.cycles + 1 /\ resumes'.continues = resumes.continues
        BY <4>1, <4>2
      <4> HIDE DEF IInv
      <4> QED
        BY <4>1, <4>2, <4>3
    <3> QED
      BY <3>1, <3>2
  <2>5. AnswerableAtPause'
    BY <1>2 DEF Cycle, EndCanceled
  <2>6. PausesBounded'
    BY <1>2 DEF Cycle, EndCanceled
  <2>7. PausesHaveBeen' /\ AnswerableIsNew'
    BY <1>2 DEF Cycle, EndCanceled
  <2>8. LateIsCanceled' /\ AttemptLeft'
    BY <1>2 DEF Cycle, EndCanceled
  <2>9. StampOrScene'
    BY <1>2 DEF Cycle, EndCanceled
  <2> QED
    BY <2>1, <2>2, <2>3, <2>4, <2>5, <2>6, <2>7, <2>8, <2>9
<1>3. CASE Loop
  BY <1>3 DEF Loop, MayAttempt
<1>4. CASE Dispatch
  BY <1>4 DEF Dispatch
<1>5. CASE Succeed
  <2>1. TypeOK'
    <3>1. CASE Canceled
      BY <1>5, <3>1 DEF Succeed, EndCanceled
    <3>2. CASE ~Canceled
      <4>1. /\ phase' \in 1..Phases /\ wpc' \in {"done", "cycle"} /\ status' = "running"
            /\ dispatched' = FALSE /\ stopRequested' \in BOOLEAN
        BY <1>5, <3>2 DEF Succeed
      <4>2. resumes' \in [continues : 0..MaxPauses, cycles : 0..MaxPauses + 1]
        BY <1>5, <3>2 DEF Succeed
      <4>3. /\ UNCHANGED <<task, pauseId, canContinue, attempt, continueRequested, expired>>
            /\ UNCHANGED <<goalCanceled, resetRequested, scene_vars, service_vars, published,
                           effects, late>>
        BY <1>5, <3>2 DEF Succeed
      <4> QED
        BY <4>1, <4>2, <4>3
    <3> QED
      BY <3>1, <3>2
  <2>2. TaskByPoint' /\ DispatchedAtOutcome'
    BY <1>5 DEF Succeed, EndCanceled
  <2>3. EffectsByPhase'
    BY <1>5 DEF Succeed, EndCanceled
  <2>4. CyclesByPoint'
    BY <1>5 DEF Succeed, EndCanceled
  <2>5. AnswerableAtPause'
    BY <1>5 DEF Succeed, EndCanceled
  <2>6. PausesBounded'
    BY <1>5 DEF Succeed, EndCanceled
  <2>7. PausesHaveBeen' /\ AnswerableIsNew'
    BY <1>5 DEF Succeed, EndCanceled
  <2>8. LateIsCanceled' /\ AttemptLeft'
    BY <1>5 DEF Succeed, EndCanceled
  <2>9. StampOrScene'
    BY <1>5 DEF Succeed, EndCanceled
  <2> QED
    BY <2>1, <2>2, <2>3, <2>4, <2>5, <2>6, <2>7, <2>8, <2>9
<1>6. CASE Fail
  BY <1>6 DEF Fail
<1>7. CASE AfterFailure
  BY <1>7 DEF AfterFailure
<1>8. CASE Decide
  <2>1. TypeOK'
    <3>1. CASE Canceled \/ task.planOnly
      BY <1>8, <3>1 DEF Decide, EndCanceled
    <3>2. CASE ~Canceled /\ ~task.planOnly
      <4>1. pauseId \in 0..MaxPauses
        BY <1>8 DEF Decide
      <4>2. /\ wpc' = "paused" /\ status' = "paused" /\ canContinue' = TRUE
            /\ pauseId' = pauseId + 1 /\ continueRequested' = FALSE /\ expired' = FALSE
            /\ UNCHANGED <<attempt, task, phase, dispatched, cancel_vars, scene_vars,
                           service_vars, published, history_vars>>
        BY <1>8, <3>2 DEF Decide, EndCanceled
      <4>3. pauseId' \in 0..MaxPauses + 1
        BY <4>1, <4>2
      <4> QED
        BY <4>2, <4>3
    <3> QED
      BY <3>1, <3>2
  <2>2. TaskByPoint' /\ DispatchedAtOutcome'
    BY <1>8 DEF Decide, EndCanceled
  <2>3. EffectsByPhase'
    BY <1>8 DEF Decide, EndCanceled
  <2>4. CyclesByPoint'
    BY <1>8 DEF Decide, EndCanceled
  <2>5. AnswerableAtPause'
    BY <1>8 DEF Decide, EndCanceled
  <2>6. PausesBounded'
    BY <1>8 DEF Decide, EndCanceled
  <2>7. PausesHaveBeen' /\ AnswerableIsNew'
    <3>1. CASE Canceled \/ task.planOnly
      BY <1>8, <3>1 DEF Decide, EndCanceled
    <3>2. CASE ~Canceled /\ ~task.planOnly
      <4>1. /\ pauseId' = pauseId + 1 /\ pauseId \in Nat
            /\ UNCHANGED <<task, published, accepted, request>>
        BY <1>8, <3>2 DEF Decide, EndCanceled
      <4>2. PausesHaveBeen'
        <5>1. \A pause \in published :
                pause[1] <= task.id /\ (pause[1] = task.id => pause[2] <= pauseId)
          OBVIOUS
        <5>2. \A pause \in published : pause[2] \in Nat
          BY DEF Pauses
        <5>3. \A pause \in published :
                pause[1] <= task'.id /\ (pause[1] = task'.id => pause[2] <= pauseId')
          BY <4>1, <5>1, <5>2
        <5>4. accepted \subseteq published /\ (request # NoRequest => request \in published /\ request[2] <= MaxPauses)
          OBVIOUS
        <5> HIDE DEF IInv
        <5> QED
          BY <4>1, <5>3, <5>4
      <4>3. \A pause \in accepted : pause[1] = task.id => pause[2] <= pauseId
        OBVIOUS
      <4>4. AnswerableIsNew'
        BY <4>1, <4>3
      <4> QED
        BY <4>2, <4>4
    <3> QED
      BY <3>1, <3>2
  <2>8. LateIsCanceled' /\ AttemptLeft'
    BY <1>8 DEF Decide, EndCanceled
  <2>9. StampOrScene'
    BY <1>8 DEF Decide, EndCanceled
  <2> QED
    BY <2>1, <2>2, <2>3, <2>4, <2>5, <2>6, <2>7, <2>8, <2>9
<1>9. CASE PublishPause
  BY <1>9 DEF PublishPause, Pauses
<1>10. CASE EnterWait
  BY <1>10 DEF EnterWait
<1>11. CASE Resume
  <2>1. TypeOK'
    BY <1>11 DEF Resume
  <2>2. TaskByPoint' /\ DispatchedAtOutcome'
    BY <1>11 DEF Resume
  <2>3. EffectsByPhase'
    BY <1>11 DEF Resume
  <2>4. CyclesByPoint'
    BY <1>11 DEF Resume
  <2>5. AnswerableAtPause'
    BY <1>11 DEF Resume
  <2>6. PausesBounded'
    BY <1>11 DEF Resume
  <2>7. PausesHaveBeen' /\ AnswerableIsNew'
    BY <1>11 DEF Resume
  <2>8. LateIsCanceled' /\ AttemptLeft'
    BY <1>11 DEF Resume
  <2>9. StampOrScene'
    BY <1>11 DEF Resume
  <2> QED
    BY <2>1, <2>2, <2>3, <2>4, <2>5, <2>6, <2>7, <2>8, <2>9
<1>12. CASE EndTask
  BY <1>12 DEF EndTask
<1>13. ASSUME NEW acquired \in BOOLEAN, Prepare(acquired)
      PROVE  IInv'
  <2>1. TypeOK'
    <3>1. attempt' = attempt + 1 /\ attempt' \in 0..Attempts
      BY <1>13 DEF Prepare, BeginAttempt
    <3>2. late' \in 0..Attempts
      BY <1>13 DEF Prepare, BeginAttempt
    <3>3. stamp' \in 0..MaxPauses /\ scene' \in 0..MaxPauses /\ wpc' \in {"body", "failed"}
      BY <1>13 DEF Prepare, PrepareScene
    <3>4. /\ status' \in {"running", "retrying"} /\ canContinue' = FALSE
          /\ UNCHANGED <<pauseId, continueRequested, task, phase, dispatched, expired, cancel_vars>>
          /\ UNCHANGED <<service_vars, published, resumes, effects>>
      BY <1>13 DEF Prepare, BeginAttempt
    <3> QED
      BY <3>1, <3>2, <3>3, <3>4
  <2>2. TaskByPoint' /\ DispatchedAtOutcome'
    BY <1>13 DEF Prepare, BeginAttempt, PrepareScene
  <2>3. EffectsByPhase'
    BY <1>13 DEF Prepare, BeginAttempt, PrepareScene
  <2>4. CyclesByPoint'
    BY <1>13 DEF Prepare, BeginAttempt, PrepareScene
  <2>5. AnswerableAtPause'
    BY <1>13 DEF Prepare, BeginAttempt, PrepareScene
  <2>6. PausesBounded'
    BY <1>13 DEF Prepare, BeginAttempt, PrepareScene
  <2>7. PausesHaveBeen' /\ AnswerableIsNew'
    BY <1>13 DEF Prepare, BeginAttempt, PrepareScene
  <2>8. LateIsCanceled' /\ AttemptLeft'
    BY <1>13 DEF Prepare, BeginAttempt, PrepareScene
  <2>9. StampOrScene'
    <3>1. CASE acquired
      <4>1. /\ wpc' = "body" /\ stamp' = 0
            /\ scene' = IF stamp # 0 /\ task.action # "move_carry_pose" THEN stamp ELSE scene
            /\ UNCHANGED <<pauseId, task, accepted>>
        BY <1>13, <3>1 DEF Prepare, BeginAttempt, PrepareScene
      <4>2. /\ scene \in Nat /\ stamp \in Nat /\ pauseId \in Nat
            /\ scene <= pauseId /\ stamp <= pauseId /\ (stamp # 0 => scene <= stamp)
        OBVIOUS
      <4>3. accepted \subseteq Pauses
        OBVIOUS
      <4>4. \A pause \in accepted : pause[2] \in Nat /\ pause[2] >= 1
        BY <4>3 DEF Pauses
      <4>5. task.action # "move_carry_pose" =>
              \A pause \in accepted : pause[1] = task.id => pause[2] <= scene \/ pause[2] <= stamp
        OBVIOUS
      <4> HIDE DEF IInv
      <4> QED
        BY <4>1, <4>2, <4>4, <4>5
    <3>2. CASE ~acquired
      BY <1>13, <3>2 DEF Prepare, BeginAttempt, PrepareScene
    <3> QED
      BY <3>1, <3>2
  <2> QED
    BY <2>1, <2>2, <2>3, <2>4, <2>5, <2>6, <2>7, <2>8, <2>9
<1> QED
  BY <1>1, <1>2, <1>3, <1>4, <1>5, <1>6, <1>7, <1>8, <1>9, <1>10, <1>11, <1>12, <1>13 DEF Run, Attempt

LEMMA BeginTaskIInv ==
  ASSUME IInv, NEW action \in Actions, NEW planOnly \in BOOLEAN, BeginTask(action, planOnly)
  PROVE  IInv'
<1> USE BoundsAssumption
    DEF IInv, TypeOK, TaskByPoint, DispatchedAtOutcome, EffectsByPhase, CyclesByPoint, AnswerableAtPause,
           PausesBounded, PausesHaveBeen, AnswerableIsNew, LateIsCanceled, AttemptLeft,
           StampOrScene, NeverRedispatched, CyclesNeedContinue, CancelStopsRetries, NoTask,
           AtPause, InCycle,
           status_vars, scene_vars, service_vars, history_vars, cancel_vars, WorkerAt, Canceled, BeginTask
<1>1. TypeOK'
  <2>1. task' \in [id : 0..MaxTasks, action : Actions, planOnly : BOOLEAN]
    BY DEF Actions
  <2>2. /\ resumes' \in [continues : 0..MaxPauses, cycles : 0..MaxPauses + 1]
        /\ effects' \in [1..Phases -> 0..2]
    OBVIOUS
  <2>3. /\ phase' = 1 /\ pauseId' = 0 /\ stamp' = 0 /\ scene' = 0 /\ attempt' = 0 /\ late' = 0
        /\ wpc' = "cycle" /\ status' = "running"
    OBVIOUS
  <2>4. /\ canContinue' = FALSE /\ continueRequested' = FALSE /\ dispatched' = FALSE
        /\ goalCanceled' = FALSE /\ stopRequested' \in BOOLEAN
        /\ UNCHANGED <<expired, resetRequested, service_vars, published>>
    OBVIOUS
  <2>5. TypeOK
    OBVIOUS
  <2> HIDE DEF IInv, BeginTask
  <2>6. /\ {canContinue', continueRequested', dispatched', expired'} \subseteq BOOLEAN
        /\ {goalCanceled', resetRequested', stopRequested'} \subseteq BOOLEAN
    BY <2>4, <2>5
  <2>7. /\ phase' \in 1..Phases /\ pauseId' \in 0..MaxPauses + 1 /\ stamp' \in 0..MaxPauses
        /\ scene' \in 0..MaxPauses /\ attempt' \in 0..Attempts /\ late' \in 0..Attempts
    BY <2>3
  <2>8. /\ request' \in Pauses \cup {NoRequest}
        /\ published' \subseteq Pauses /\ accepted' \subseteq Pauses
    BY <2>4, <2>5
  <2> QED
    BY <2>1, <2>2, <2>3, <2>6, <2>7, <2>8
<1>2. TaskByPoint' /\ DispatchedAtOutcome'
  OBVIOUS
<1>3. EffectsByPhase'
  OBVIOUS
<1>4. CyclesByPoint' /\ AnswerableAtPause' /\ PausesBounded'
  OBVIOUS
<1>5. PausesHaveBeen' /\ AnswerableIsNew'
  <2>1. /\ task'.id = task.id + 1 /\ task.id \in Nat /\ canContinue' = FALSE
        /\ UNCHANGED <<accepted, published, request>>
    OBVIOUS
  <2>2. /\ \A pause \in published : pause[1] \in Nat /\ pause[1] <= task.id
        /\ accepted \subseteq published
        /\ request # NoRequest => request \in published /\ request[2] <= MaxPauses
    BY DEF Pauses
  <2> HIDE DEF IInv, BeginTask
  <2> QED
    BY <2>1, <2>2
<1>6. LateIsCanceled' /\ AttemptLeft'
  OBVIOUS
<1>7. StampOrScene'
  <2>1. \A pause \in accepted : pause[1] \in Nat /\ pause[1] <= task.id /\ task.id \in Nat
    BY DEF Pauses
  <2>2. /\ task'.id = task.id + 1 /\ accepted' = accepted /\ wpc' = "cycle"
        /\ stamp' = 0 /\ scene' = 0 /\ pauseId' = 0
    OBVIOUS
  <2>3. \A pause \in accepted : pause[1] # task'.id
    BY <2>1, <2>2
  <2> HIDE DEF IInv, BeginTask
  <2> QED
    BY <2>2, <2>3
<1> QED
  BY <1>1, <1>2, <1>3, <1>4, <1>5, <1>6, <1>7

LEMMA OthersStepIInv ==
  ASSUME IInv, Expire \/ CancelGoal \/ RequestReset \/ Service
  PROVE  IInv'
<1> USE BoundsAssumption
    DEF IInv, TypeOK, TaskByPoint, DispatchedAtOutcome, EffectsByPhase, CyclesByPoint, AnswerableAtPause,
           PausesBounded, PausesHaveBeen, AnswerableIsNew, LateIsCanceled, AttemptLeft,
           StampOrScene, NeverRedispatched, CyclesNeedContinue, CancelStopsRetries, NoTask,
           AtPause, InCycle,
           status_vars, scene_vars, service_vars, history_vars, cancel_vars, WorkerAt, Canceled
<1>1. CASE Expire
  BY <1>1 DEF Expire
<1>2. CASE CancelGoal
  BY <1>2 DEF CancelGoal
<1>3. CASE RequestReset
  BY <1>3 DEF RequestReset
<1>4. CASE AcceptContinue
  <2>1. TypeOK'
    <3>1. request \in Pauses /\ request[2] \in 0..MaxPauses
      BY <1>4 DEF AcceptContinue, Pauses
    <3>2. resumes' \in [continues : 0..MaxPauses, cycles : 0..MaxPauses + 1]
      <4>1. /\ resumes.continues \in Nat /\ pauseId \in Nat /\ resumes.continues < pauseId
            /\ pauseId = request[2] /\ request[2] <= MaxPauses
        BY <1>4 DEF AcceptContinue, Answerable
      <4>2. resumes.continues + 1 \in 0..MaxPauses
        BY <4>1, BoundsAssumption
      <4>3. /\ resumes' = [resumes EXCEPT !.continues = @ + 1]
            /\ resumes \in [continues : 0..MaxPauses, cycles : 0..MaxPauses + 1]
        BY <1>4 DEF AcceptContinue
      <4> QED
        BY <4>2, <4>3
    <3> QED
      BY <1>4, <3>1, <3>2 DEF AcceptContinue
  <2>2. TaskByPoint' /\ DispatchedAtOutcome'
    BY <1>4 DEF AcceptContinue, Answerable
  <2>3. EffectsByPhase'
    BY <1>4 DEF AcceptContinue, Answerable
  <2>4. CyclesByPoint'
    BY <1>4 DEF AcceptContinue, Answerable
  <2>5. AnswerableAtPause'
    BY <1>4 DEF AcceptContinue, Answerable
  <2>6. PausesBounded'
    BY <1>4 DEF AcceptContinue, Answerable
  <2>7. PausesHaveBeen' /\ AnswerableIsNew'
    BY <1>4 DEF AcceptContinue, Answerable
  <2>8. LateIsCanceled' /\ AttemptLeft'
    BY <1>4 DEF AcceptContinue, Answerable
  <2>9. StampOrScene'
    BY <1>4 DEF AcceptContinue, Answerable
  <2> QED
    BY <2>1, <2>2, <2>3, <2>4, <2>5, <2>6, <2>7, <2>8, <2>9
<1>5. CASE RefuseContinue
  BY <1>5 DEF RefuseContinue
<1>6. ASSUME NEW pause \in published, ReceiveContinue(pause)
      PROVE  IInv'
  BY <1>6 DEF ReceiveContinue, NoRequest
<1> QED
  BY <1>1, <1>2, <1>3, <1>4, <1>5, <1>6 DEF Service
LEMMA StutterIInv == IInv /\ UNCHANGED vars => IInv'
<1> SUFFICES ASSUME IInv, UNCHANGED vars
             PROVE  IInv'
  OBVIOUS
<1> USE DEF vars, status_vars, scene_vars, service_vars, history_vars, cancel_vars, Canceled
<1>1. TypeOK'
  BY DEF IInv, TypeOK
<1>2. TaskByPoint' /\ DispatchedAtOutcome' /\ EffectsByPhase'
  BY DEF IInv, TaskByPoint, DispatchedAtOutcome, EffectsByPhase, NeverRedispatched
<1>3. CyclesByPoint' /\ AnswerableAtPause' /\ PausesBounded'
  BY DEF IInv, CyclesByPoint, AnswerableAtPause, PausesBounded, CyclesNeedContinue
<1>4. PausesHaveBeen' /\ AnswerableIsNew'
  BY DEF IInv, PausesHaveBeen, AnswerableIsNew
<1>5. LateIsCanceled' /\ AttemptLeft' /\ StampOrScene'
  BY DEF IInv, LateIsCanceled, AttemptLeft, StampOrScene, CancelStopsRetries
<1> QED
  BY <1>1, <1>2, <1>3, <1>4, <1>5 DEF IInv

LEMMA NextIInv == IInv /\ [Next]_vars => IInv'
  BY WorkerStepIInv, BeginTaskIInv, OthersStepIInv, StutterIInv DEF Next, Worker

\* PhaseRetryController::run, the Continue service, the cancelers and the clock keep
\* the inductive invariant, however they interleave.
THEOREM Invariance == Spec => []IInv
  BY InitIInv, NextIInv, PTL DEF Spec

-----------------------------------------------------------------------------
\* Every variable keeps its type; the counters stay within the attempts and pauses.
THEOREM TypeCorrect == Spec => []TypeOK
<1>1. IInv => TypeOK
  BY DEF IInv
<1> QED
  BY <1>1, Invariance, PTL

\* An attach or detach request goes out at most once per phase of a task.
THEOREM NeverRedispatchedAlways == Spec => []NeverRedispatched
<1>1. IInv => NeverRedispatched
  BY DEF IInv, EffectsByPhase
<1> QED
  BY <1>1, Invariance, PTL

\* A phase is tried again after its first cycle only for an accepted Continue.
THEOREM CyclesNeedContinueAlways == Spec => []CyclesNeedContinue
<1>1. IInv => CyclesNeedContinue
  BY DEF IInv, CyclesByPoint
<1> QED
  BY <1>1, Invariance, PTL

\* A cancel lets at most one attempt begin after it, the one past its check.
THEOREM CancelStopsRetriesAlways == Spec => []CancelStopsRetries
<1>1. IInv => CancelStopsRetries
  BY DEF IInv, LateIsCanceled
<1> QED
  BY <1>1, Invariance, PTL

\* No attempt runs on a scene older than the last Continue of its task.
THEOREM ResumesOnFreshSceneAlways == Spec => []ResumesOnFreshScene
<1>1. ASSUME IInv
      PROVE  ResumesOnFreshScene
  <2>1. \A pause \in accepted : pause[2] \in Nat /\ pause[2] >= 1
    BY <1>1 DEF IInv, TypeOK, Pauses
  <2> QED
    BY <1>1, <2>1 DEF IInv, StampOrScene, ResumesOnFreshScene
<1> QED
  BY <1>1, Invariance, PTL

\* The continue signal is raised by the Continue service alone.
LEMMA OnlyAcceptSignals ==
  ASSUME IInv, Next, continueRequested', ~continueRequested
  PROVE  AcceptContinue
<1> USE DEF status_vars
<1>1. ~Admit /\ ~Run /\ ~EndTask
  BY DEF Admit, Run, Attempt, EndTask, Cycle, Loop, Prepare, BeginAttempt, Dispatch, Succeed, Fail,
         AfterFailure, Decide, PublishPause, EnterWait, Resume, EndCanceled
<1>2. \A action \in Actions, planOnly \in BOOLEAN : ~BeginTask(action, planOnly)
  BY DEF BeginTask
<1>3. ~Expire /\ ~CancelGoal /\ ~RequestReset
  BY DEF Expire, CancelGoal, RequestReset
<1>4. ~RefuseContinue /\ \A pause \in published : ~ReceiveContinue(pause)
  BY DEF RefuseContinue, ReceiveContinue
<1> QED
  BY <1>1, <1>2, <1>3, <1>4 DEF Next, Worker, Service

\* A pause is answered once, by a request that names it, while the worker is at it or
\* leaves it for a cancel.
THEOREM OneContinueEach == Spec => OneContinuePerPause
<1>1. ASSUME IInv, Next, continueRequested', ~continueRequested
      PROVE  /\ request \notin accepted
             /\ request = <<task.id, pauseId>>
             /\ wpc \in {"paused", "shown", "waiting"} \/ Canceled
  <2>1. request = <<task.id, pauseId>> /\ canContinue
    BY <1>1, OnlyAcceptSignals DEF AcceptContinue, Answerable
  <2>2. request \notin accepted
    BY <1>1, <2>1 DEF IInv, AnswerableIsNew
  <2>3. wpc \in {"paused", "shown", "waiting"} \/ Canceled
    BY <1>1, <2>1 DEF IInv, AnswerableAtPause, AtPause
  <2> QED
    BY <2>1, <2>2, <2>3
<1>2. ASSUME IInv, [Next]_vars
      PROVE  [continueRequested' /\ ~continueRequested =>
                /\ request \notin accepted
                /\ request = <<task.id, pauseId>>
                /\ wpc \in {"paused", "shown", "waiting"} \/ Canceled]_vars
  BY <1>1, <1>2
<1> QED
  BY <1>2, Invariance, PTL DEF Spec, OneContinuePerPause
=============================================================================
