----------------------------- MODULE PhaseRetry ------------------------------
(* A task of the manipulation server as a sequence of phases, each run by
   PhaseRetryController::run: bounded attempts against a deadline, then a pause
   that an operator ends with /continue_manipulation, at any point a cancel.
   The worker thread, the Continue service (one callback at a time) and the
   cancelers share the controller's status under its mutex; a cancel, the reset
   latch and the clock are read outside it.  Anything the worker does inside one
   critical section is one step, with the publish that follows it. *)
EXTENDS Naturals, FiniteSets

CONSTANTS
  Attempts,   \* phase_retry_attempts
  Phases,     \* phases of a task
  Physical,   \* phases whose attempt dispatches an attach or detach request
  MaxTasks,   \* bound: tasks begun
  MaxPauses   \* bound: pauses of one task the operator may answer

ASSUME BoundsAssumption ==
  /\ Attempts \in Nat \ {0} /\ Phases \in Nat \ {0} /\ Physical \subseteq 1..Phases
  /\ MaxTasks \in Nat /\ MaxPauses \in Nat

VARIABLES
  task,        \* task_id (0: none yet), action and plan_only of the current task
  status, pauseId, canContinue, attempt,  \* the controller's status_
  continueRequested,
  wpc,         \* where the worker stands
  phase,       \* index of the phase being run
  dispatched,  \* attach_dispatched / detach_dispatched of the phase
  expired,     \* the cycle's deadline has passed (it says nothing between cycles)
  goalCanceled, resetRequested,
  stopRequested,  \* the trajectory executor's cancel_requested_
  stamp,       \* continue_detection_stamp_: the Continue that asks for a new scene, 0 for none
  scene,       \* the Continue the planning scene was last acquired for
  request,     \* the Continue request its callback is serving
  published,   \* the pauses /manipulation_task_status has shown as can_continue
  \* what happened in this task, for the properties
  accepted,    \* pauses whose Continue was accepted (all tasks)
  resumes,     \* Continues accepted in this run of the phase, and cycles begun in it
  effects,     \* physical requests dispatched, per phase
  late         \* attempts begun after the cancel

status_vars == <<status, pauseId, canContinue, attempt, continueRequested>>
scene_vars == <<stamp, scene>>
service_vars == <<request, accepted>>
history_vars == <<resumes, effects, late>>
cancel_vars == <<goalCanceled, resetRequested, stopRequested>>
vars == <<task, status_vars, wpc, phase, dispatched, expired, cancel_vars, scene_vars,
          service_vars, published, history_vars>>

Actions == {"pick", "move_carry_pose", "reset"}
Pauses == (1..MaxTasks) \X (1..MaxPauses + 1)
NoRequest == <<0, 0>>

TypeOK ==
  /\ task \in [id : 0..MaxTasks, action : Actions, planOnly : BOOLEAN]
  /\ status \in {"idle", "running", "retrying", "paused", "completed", "failed", "canceled"}
  /\ pauseId \in 0..MaxPauses + 1 /\ attempt \in 0..Attempts
  /\ {canContinue, continueRequested, dispatched, expired} \subseteq BOOLEAN
  /\ {goalCanceled, resetRequested, stopRequested} \subseteq BOOLEAN
  /\ wpc \in {"idle", "op_admitted", "reset_admitted", "cycle", "loop", "prepare", "body", "outcome", "failed",
              "decide", "paused", "shown", "waiting", "failed_task", "done"}
  /\ phase \in 1..Phases
  /\ stamp \in 0..MaxPauses /\ scene \in 0..MaxPauses
  /\ request \in Pauses \cup {NoRequest}
  /\ published \subseteq Pauses /\ accepted \subseteq Pauses
  /\ resumes \in [continues : 0..MaxPauses, cycles : 0..MaxPauses + 1]
  /\ effects \in [1..Phases -> 0..2] /\ late \in 0..Attempts

Init ==
  /\ task = [id |-> 0, action |-> "pick", planOnly |-> FALSE]
  /\ status = "idle" /\ pauseId = 0 /\ attempt = 0
  /\ canContinue = FALSE /\ continueRequested = FALSE
  /\ wpc = "idle" /\ phase = 1 /\ dispatched = FALSE /\ expired = FALSE
  /\ goalCanceled = FALSE /\ resetRequested = FALSE /\ stopRequested = FALSE
  /\ stamp = 0 /\ scene = 0 /\ request = NoRequest /\ published = {} /\ accepted = {}
  /\ resumes = [continues |-> 0, cycles |-> 0]
  /\ effects = [p \in 1..Phases |-> 0] /\ late = 0

\* The canceled predicate of the task; a reset is not canceled by its own latch.
Canceled == goalCanceled \/ (resetRequested /\ task.action # "reset")

WorkerAt(here, next) == wpc = here /\ wpc' = next

-----------------------------------------------------------------------------
(* The worker. *)

\* The goal callback's reservation: with the latch up only a reset gets in.
Admit ==
  /\ WorkerAt("idle", IF resetRequested THEN "reset_admitted" ELSE "op_admitted")
  /\ task.id < MaxTasks
  /\ UNCHANGED <<task, status_vars, phase, dispatched, expired, cancel_vars, scene_vars,
                 service_vars, published, history_vars>>

\* beginTask, in the worker started for the admitted goal; the goal callback of
\* an operation has taken back the last stop before (resetCancellation).
BeginTask(action, planOnly) ==
  /\ WorkerAt(IF action = "reset" THEN "reset_admitted" ELSE "op_admitted", "cycle")
  /\ planOnly => action = "pick"
  /\ task' = [id |-> task.id + 1, action |-> action, planOnly |-> planOnly]
  /\ status' = "running" /\ pauseId' = 0 /\ attempt' = 0
  /\ canContinue' = FALSE /\ continueRequested' = FALSE
  /\ phase' = 1 /\ dispatched' = FALSE /\ goalCanceled' = FALSE
  /\ stamp' = 0 /\ scene' = 0
  /\ resumes' = [continues |-> 0, cycles |-> 0]
  /\ effects' = [p \in 1..Phases |-> 0] /\ late' = 0
  /\ stopRequested' = (stopRequested /\ action = "reset")
  /\ UNCHANGED <<expired, resetRequested, service_vars, published>>

\* finish("canceled"), when the loop is left for a cancel.
EndCanceled ==
  /\ wpc' = "failed_task"
  /\ status' = "canceled" /\ canContinue' = FALSE /\ continueRequested' = FALSE
  /\ UNCHANGED <<pauseId, attempt>>

\* while (!canceled()): a new cycle has a new deadline and a new attempt count.
Cycle ==
  /\ wpc = "cycle"
  /\ IF Canceled
       THEN EndCanceled /\ UNCHANGED <<expired, resumes>>
       ELSE /\ wpc' = "loop" /\ attempt' = 0 /\ expired' = FALSE
            /\ resumes' = [resumes EXCEPT !.cycles = @ + 1]
            /\ UNCHANGED <<status, pauseId, canContinue, continueRequested>>
  /\ UNCHANGED <<task, phase, dispatched, cancel_vars, scene_vars, service_vars, published,
                 effects, late>>

\* Fault: one attempt too many.
MayAttemptOnceMore == attempt <= Attempts /\ ~Canceled /\ ~expired

\* Fault: the retries do not look at the cancel.
MayAttemptCanceled == attempt < Attempts /\ ~expired

\* The for loop's condition, its three reads taken as one.
MayAttempt == attempt < Attempts /\ ~Canceled /\ ~expired

Loop ==
  /\ WorkerAt("loop", IF MayAttempt THEN "prepare" ELSE "decide")
  /\ UNCHANGED <<task, status_vars, phase, dispatched, expired, cancel_vars, scene_vars,
                 service_vars, published, history_vars>>

\* The head of an attempt, then prepareContinueScene: a scene is acquired for
\* the Continue that asked for one, or the attempt fails and the request stays.
\* Acquisition first waits for the arms to stand still (waitUntilStopped), which
\* fails at once while a stop is requested.
BeginAttempt ==
  /\ attempt' = attempt + 1
  /\ status' = IF attempt = 0 THEN "running" ELSE "retrying"
  /\ canContinue' = FALSE
  /\ late' = IF Canceled THEN late + 1 ELSE late
  /\ UNCHANGED <<pauseId, continueRequested>>

\* Fault: the request for a new scene is consumed before the scene is acquired.
PrepareSceneConsuming(acquired) ==
  /\ acquired \/ (stamp # 0 /\ task.action # "move_carry_pose")
  /\ wpc' = IF acquired THEN "body" ELSE "failed"
  /\ stamp' = 0
  /\ scene' = IF acquired /\ stamp # 0 /\ task.action # "move_carry_pose" THEN stamp ELSE scene

PrepareScene(acquired) ==
  /\ acquired \/ (stamp # 0 /\ task.action # "move_carry_pose")
  /\ wpc' = IF acquired THEN "body" ELSE "failed"
  /\ stamp' = IF acquired THEN 0 ELSE stamp
  /\ scene' = IF acquired /\ stamp # 0 /\ task.action # "move_carry_pose" THEN stamp ELSE scene

Prepare(acquired) ==
  /\ wpc = "prepare"
  /\ acquired => stamp = 0 \/ task.action = "move_carry_pose" \/ ~stopRequested
  /\ BeginAttempt /\ PrepareScene(acquired)
  /\ UNCHANGED <<task, phase, dispatched, expired, cancel_vars, service_vars, published,
                 resumes, effects>>

\* A physical phase's attempt validates first: it may fail before the request.
\* Once the request is sent its flag is up whatever the answer.
Dispatch ==
  /\ phase \in Physical /\ ~task.planOnly
  /\ WorkerAt("body", "outcome")
  /\ dispatched' = TRUE
  /\ effects' = [effects EXCEPT ![phase] = @ + 1]
  /\ UNCHANGED <<task, status_vars, phase, expired, cancel_vars, scene_vars, service_vars,
                 published, resumes, late>>

\* A cancel seen after a successful attempt leaves the loop all the same.  A reset
\* takes back the stop of its own goal callback after its first phase.
Succeed ==
  /\ IF phase \in Physical /\ ~task.planOnly THEN wpc = "outcome" ELSE wpc = "body"
  /\ IF Canceled
       THEN EndCanceled /\ UNCHANGED <<phase, dispatched, resumes, stopRequested>>
       ELSE /\ wpc' = IF phase = Phases THEN "done" ELSE "cycle"
            /\ status' = "running"
            /\ phase' = IF phase = Phases THEN phase ELSE phase + 1
            /\ dispatched' = FALSE
            /\ stopRequested' = (stopRequested /\ ~(task.action = "reset" /\ phase = 1))
            /\ resumes' = [continues |-> 0, cycles |-> 0]
            /\ UNCHANGED <<pauseId, canContinue, attempt, continueRequested>>
  /\ UNCHANGED <<task, expired, goalCanceled, resetRequested, scene_vars, service_vars, published,
                 effects, late>>

Fail ==
  /\ wpc \in {"body", "outcome"} /\ wpc' = "failed"
  /\ UNCHANGED <<task, status_vars, phase, dispatched, expired, cancel_vars, scene_vars,
                 service_vars, published, history_vars>>

\* Fault: a physical request that failed is retried like a motion.
RetryAnyFailure ==
  /\ WorkerAt("failed", "loop")
  /\ UNCHANGED <<task, status_vars, phase, dispatched, expired, cancel_vars, scene_vars,
                 service_vars, published, history_vars>>

\* if (terminal()) return false: a request that was sent is not sent again.  The
\* delay before the next attempt ends with its time, the deadline or a cancel, at
\* any moment: it is the time the worker stands at "loop".
AfterFailure ==
  /\ WorkerAt("failed", IF dispatched THEN "failed_task" ELSE "loop")
  /\ UNCHANGED <<task, status_vars, phase, dispatched, expired, cancel_vars, scene_vars,
                 service_vars, published, history_vars>>

\* Attempts or time are used up: cancel, return to the planner, or pause.
Decide ==
  /\ wpc = "decide"
  /\ \/ /\ Canceled /\ EndCanceled
     \/ /\ ~Canceled /\ task.planOnly
        /\ wpc' = "failed_task" /\ UNCHANGED status_vars
     \/ /\ ~Canceled /\ ~task.planOnly
        /\ wpc' = "paused" /\ status' = "paused" /\ canContinue' = TRUE
        /\ pauseId' = pauseId + 1 /\ continueRequested' = FALSE
        /\ UNCHANGED attempt
  /\ expired' = FALSE
  /\ UNCHANGED <<task, phase, dispatched, cancel_vars, scene_vars, service_vars, published,
                 history_vars>>

PublishPause ==
  /\ WorkerAt("paused", "shown")
  /\ published' = published \cup {<<task.id, pauseId>>}
  /\ UNCHANGED <<task, status_vars, phase, dispatched, expired, cancel_vars, scene_vars,
                 service_vars, history_vars>>

\* Fault: the signal is cleared on the way into the wait, after the pause was shown.
EnterWaitClearing ==
  /\ WorkerAt("shown", "waiting")
  /\ continueRequested' = FALSE
  /\ UNCHANGED <<task, status, pauseId, canContinue, attempt, phase, dispatched, expired,
                 cancel_vars, scene_vars, service_vars, published, history_vars>>

\* A Continue may come before the worker takes the mutex again.
EnterWait ==
  /\ WorkerAt("shown", "waiting")
  /\ UNCHANGED <<task, status_vars, phase, dispatched, expired, cancel_vars, scene_vars,
                 service_vars, published, history_vars>>

\* Fault: a condition-variable wake-up is taken for a Continue.
ResumeOnAnyWakeUp ==
  /\ WorkerAt("waiting", "cycle")
  /\ continueRequested' = FALSE
  /\ UNCHANGED <<task, status, pauseId, canContinue, attempt, phase, dispatched, expired,
                 cancel_vars, scene_vars, service_vars, published, history_vars>>

\* Fault: a paused task does not look at its cancel.
ResumeOnContinueOnly ==
  /\ continueRequested
  /\ WorkerAt("waiting", "cycle")
  /\ continueRequested' = FALSE
  /\ UNCHANGED <<task, status, pauseId, canContinue, attempt, phase, dispatched, expired,
                 cancel_vars, scene_vars, service_vars, published, history_vars>>

\* The wait loop is left for a Continue or a cancel; the next test is the cycle's.
Resume ==
  /\ continueRequested \/ Canceled
  /\ WorkerAt("waiting", "cycle")
  /\ continueRequested' = FALSE
  /\ UNCHANGED <<task, status, pauseId, canContinue, attempt, phase, dispatched, expired,
                 cancel_vars, scene_vars, service_vars, published, history_vars>>

\* The action's own epilogue: finish and release.  A reset looks at its cancel
\* once more, and clears the latch only if it succeeded.
EndTask ==
  /\ wpc \in {"done", "failed_task"} /\ wpc' = "idle"
  /\ LET success == wpc = "done" /\ ~(task.action = "reset" /\ goalCanceled)
     IN  /\ status' = IF success THEN "completed"
                      ELSE IF goalCanceled THEN "canceled" ELSE "failed"
         /\ resetRequested' = (resetRequested /\ ~(task.action = "reset" /\ success))
  /\ canContinue' = FALSE /\ continueRequested' = FALSE
  /\ UNCHANGED <<task, pauseId, attempt, phase, dispatched, expired, goalCanceled, stopRequested,
                 scene_vars, service_vars, published, history_vars>>

-----------------------------------------------------------------------------
(* The clock, the cancelers and the Continue service.  A goal that is canceled
   and a reset goal that is accepted stop the executor (requestStop). *)

\* The deadline is looked at before an attempt and by its preparation.
Expire ==
  /\ ~expired /\ expired' = TRUE
  /\ wpc \in {"loop", "prepare"}
  /\ UNCHANGED <<task, status_vars, wpc, phase, dispatched, cancel_vars, scene_vars,
                 service_vars, published, history_vars>>

CancelGoal ==
  /\ wpc \notin {"idle", "op_admitted", "reset_admitted"}
  /\ ~goalCanceled /\ goalCanceled' = TRUE /\ stopRequested' = TRUE
  /\ UNCHANGED <<task, status_vars, wpc, phase, dispatched, expired, resetRequested,
                 scene_vars, service_vars, published, history_vars>>

RequestReset ==
  /\ ~resetRequested /\ resetRequested' = TRUE /\ stopRequested' = TRUE
  /\ UNCHANGED <<task, status_vars, wpc, phase, dispatched, expired, goalCanceled,
                 scene_vars, service_vars, published, history_vars>>

\* A request may name any pause that was ever shown, at any later time and any
\* number of times.  The callback looks at the latch before it takes the mutex.
ReceiveContinue(pause) ==
  /\ request = NoRequest
  /\ pause \in published /\ pause[2] <= MaxPauses
  /\ ~resetRequested \/ task.action = "reset"
  /\ request' = pause
  /\ UNCHANGED <<task, status_vars, wpc, phase, dispatched, expired, cancel_vars, scene_vars,
                 accepted, published, history_vars>>

\* Fault: the pause's number is not compared.
AnswerableByTask ==
  /\ request[1] = task.id
  /\ status = "paused" /\ canContinue /\ ~continueRequested

\* requestContinue's conditions.
Answerable ==
  /\ request = <<task.id, pauseId>>
  /\ status = "paused" /\ canContinue /\ ~continueRequested

\* The stamp is stored before the worker can see the signal.
AcceptContinue ==
  /\ request # NoRequest /\ Answerable
  /\ request' = NoRequest
  /\ accepted' = accepted \cup {request}
  /\ stamp' = request[2]
  /\ continueRequested' = TRUE /\ canContinue' = FALSE
  /\ resumes' = [resumes EXCEPT !.continues = @ + 1]
  /\ UNCHANGED <<task, status, pauseId, attempt, wpc, phase, dispatched, expired, cancel_vars,
                 scene, published, effects, late>>

RefuseContinue ==
  /\ request # NoRequest /\ ~Answerable
  /\ request' = NoRequest
  /\ UNCHANGED <<task, status_vars, wpc, phase, dispatched, expired, cancel_vars, scene_vars,
                 accepted, published, history_vars>>

-----------------------------------------------------------------------------
Attempt ==
  \/ \E acquired \in BOOLEAN : Prepare(acquired)
  \/ Dispatch \/ Succeed \/ Fail

Run ==
  \/ Cycle \/ Loop \/ Attempt \/ AfterFailure \/ Decide \/ PublishPause \/ EnterWait \/ Resume

Worker ==
  \/ \E action \in Actions, planOnly \in BOOLEAN : BeginTask(action, planOnly)
  \/ Run \/ EndTask

Service == (\E pause \in published : ReceiveContinue(pause)) \/ AcceptContinue \/ RefuseContinue

Next == Admit \/ Worker \/ Expire \/ CancelGoal \/ RequestReset \/ Service

(* The worker thread is scheduled and each attempt ends: planners, executor and
   the simulator's service calls are bounded by the deadline or a timeout of
   their own.  Nobody has to send a Continue, cancel, or start a task. *)
Spec == Init /\ [][Next]_vars /\ WF_vars(Worker)

-----------------------------------------------------------------------------
\* An attach or detach request goes out at most once in a task, whatever the
\* retries, pauses and Continues after it (README, uncertain dispatch).
NeverRedispatched == \A p \in 1..Phases : effects[p] <= 1

\* Beyond its first cycle a phase is tried again only for a Continue: no wake-up,
\* leftover signal or second request starts another round of motion.
CyclesNeedContinue == resumes.cycles <= resumes.continues + 1

\* After a cancel at most the attempt that had passed its check begins.
CancelStopsRetries == late <= 1

\* An attempt's body never runs on a planning scene older than the last Continue
\* of its task; a carry motion keeps its own scene.
ResumesOnFreshScene ==
  wpc \in {"body", "outcome"} /\ task.action # "move_carry_pose" =>
    \A pause \in accepted : pause[1] = task.id => pause[2] <= scene

\* A pause is answered once, by a request that names it, while the worker is
\* stopped at it (or leaves it for a cancel): late, duplicated and replayed
\* requests are refused.
OneContinuePerPause ==
  [][continueRequested' /\ ~continueRequested =>
       /\ request \notin accepted
       /\ request = <<task.id, pauseId>>
       /\ wpc \in {"paused", "shown", "waiting"} \/ Canceled]_vars

\* The answer to a pause is not lost, however it interleaves with the worker's
\* way into the wait: the worker leaves the pause.
AnsweredPauseEnds ==
  \A t \in 1..MaxTasks, p \in 1..MaxPauses :
    <<t, p>> \in accepted ~> ~(task.id = t /\ pauseId = p /\ wpc \in {"paused", "shown", "waiting"})

\* A Continue that was accepted gets as far as acquiring its scene: with the task
\* neither canceled nor out of time, the preparation fails only in acquiring
\* (README: Reset acquires observations timestamped after Continue is accepted).
ContinueReachesAcquisition ==
  [][wpc = "prepare" /\ wpc' = "failed" => Canceled \/ expired \/ ~stopRequested]_vars

\* Cancel, or the latch of a reset, ends the task from wherever it stands, the
\* pause included: a reset that preempts is not left waiting for an operator.
CancelEndsTask == Canceled ~> wpc \in {"idle", "op_admitted", "reset_admitted"}
=============================================================================
