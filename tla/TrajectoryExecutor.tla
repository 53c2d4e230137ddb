-------------------------- MODULE TrajectoryExecutor --------------------------
(* src/pick_place/trajectory_executor.cpp: one worker thread sends trajectories
   to MoveIt's ExecuteTrajectory server and judges from the arms' feedback
   whether they settled; cancel callbacks, a reset and the destructor stop it at
   any time.  transition_mutex_ orders a send against a stop; the feedback
   callback stores a sample and then, outside the mutex, counts it.  The
   controller, its answers and MoveGroup's stop event are external. *)
EXTENDS Naturals

CONSTANTS
  Settle,      \* execution_settle_samples
  MaxTasks,    \* bound: tasks, each accepted by a goal callback
  MaxGoals     \* bound: trajectories sent

ASSUME BoundsAssumption ==
  Settle \in Nat \ {0} /\ MaxTasks \in Nat /\ MaxGoals \in Nat

VARIABLES
  task,              \* number of tasks accepted
  cancelRequested, shutdownRequested,   \* cancel_requested_, shutdown_requested_
  goalCanceled,      \* canceled() of the current task
  wpc,               \* where the worker stands
  goal,              \* its last trajectory goal
  cancelNow,
  activeGoal,        \* active_goal_, 0 for none
  goals,             \* what the controller did with each goal
  cancelSent,        \* cancel requests on their way to the controller
  stopSent,          \* a MoveGroup stop event on its way
  spc, stopping,     \* the stopping thread: where it stands, and what it stops
  latest,            \* latest_feedback_: within tolerance? received since the controller
                     \* was done with this goal? already looked at for it?
  pending,           \* stored, but not yet counted by feedback_generation_
  newer,             \* feedback_generation_ is past last_feedback_generation
  count,             \* settled_samples
  run                \* the last unbroken run of settled samples: how many were looked
                     \* at, and how many different ones received since

worker_vars == <<wpc, goal, cancelNow, activeGoal>>
controller_vars == <<goals, cancelSent, stopSent>>
stop_vars == <<cancelRequested, shutdownRequested, goalCanceled, spc, stopping>>
feedback_vars == <<latest, pending, newer>>
settle_vars == <<count, run>>
vars == <<task, worker_vars, controller_vars, stop_vars, feedback_vars, settle_vars>>

Goals == 1..MaxGoals
InFlight == {g \in Goals : goals[g] \in {"sent", "executing"}}

\* Fault: only the goal's own canceled() is consulted.
CanceledByGoal == goalCanceled \/ shutdownRequested

\* cancel_requested_ || canceled(); the actions' canceled() includes the server's
\* own shutting_down_, raised just before requestShutdown.
Canceled == cancelRequested \/ goalCanceled \/ shutdownRequested

Samples == [good : BOOLEAN, late : BOOLEAN, seen : BOOLEAN]
NoSample == [good |-> FALSE]
NoRun == [looked |-> 0, fresh |-> 0]

TypeOK ==
  /\ task \in 0..MaxTasks
  /\ {cancelRequested, shutdownRequested, goalCanceled, cancelNow, stopSent} \subseteq BOOLEAN
  /\ wpc \in {"idle", "ready", "planned", "admission", "handle", "cancel_now", "result",
              "baseline", "settle", "copy", "success"}
  /\ goal \in 0..MaxGoals /\ activeGoal \in 0..MaxGoals
  /\ goals \in [Goals -> {"unsent", "sent", "executing", "rejected", "succeeded", "failed"}]
  /\ cancelSent \subseteq Goals
  /\ spc \in {"idle", "called", "flagged", "looked"}
  /\ stopping \in [task : 0..MaxTasks, goal : 0..MaxGoals]
  /\ latest \in Samples \cup {NoSample}
  /\ pending \in BOOLEAN /\ newer \in BOOLEAN
  /\ count \in 0..Settle /\ run \in [looked : 0..Settle, fresh : 0..Settle]

Init ==
  /\ task = 0 /\ cancelRequested = FALSE /\ shutdownRequested = FALSE /\ goalCanceled = FALSE
  /\ wpc = "idle" /\ goal = 0 /\ cancelNow = FALSE /\ activeGoal = 0
  /\ goals = [g \in Goals |-> "unsent"] /\ cancelSent = {} /\ stopSent = FALSE
  /\ spc = "idle" /\ stopping = [task |-> 0, goal |-> 0]
  /\ latest = NoSample /\ pending = FALSE /\ newer = FALSE
  /\ count = 0 /\ run = NoRun

WorkerAt(here, next) == wpc = here /\ wpc' = next

-----------------------------------------------------------------------------
(* The worker. *)

\* The goal callback admits a task and takes the last stop back.
BeginTask ==
  /\ task < MaxTasks /\ ~shutdownRequested
  /\ WorkerAt("idle", "ready")
  /\ task' = task + 1
  /\ cancelRequested' = FALSE /\ goalCanceled' = FALSE
  /\ UNCHANGED <<goal, cancelNow, activeGoal, controller_vars, shutdownRequested, spc, stopping,
                 feedback_vars, settle_vars>>

\* The task's result is sent; the next one may be accepted.
EndTask ==
  /\ WorkerAt("ready", "idle")
  /\ UNCHANGED <<task, goal, cancelNow, activeGoal, controller_vars, stop_vars, feedback_vars,
                 settle_vars>>

\* waitUntilStopped before a plan is made: refused while a goal is registered.
WaitUntilStopped ==
  /\ activeGoal = 0 /\ ~Canceled
  /\ WorkerAt("ready", "planned")
  /\ UNCHANGED <<task, goal, cancelNow, activeGoal, controller_vars, stop_vars, feedback_vars,
                 settle_vars>>

\* execute: the check and the send are one critical section.
SendGoal ==
  /\ wpc = "planned" /\ goal < MaxGoals
  /\ IF Canceled
       THEN wpc' = "ready" /\ UNCHANGED <<goal, goals, latest>>
       ELSE /\ wpc' = "admission" /\ goal' = goal + 1
            /\ goals' = [goals EXCEPT ![goal + 1] = "sent"]
            /\ latest' = IF latest = NoSample THEN NoSample
                         ELSE [latest EXCEPT !.late = FALSE, !.seen = FALSE]
  /\ UNCHANGED <<task, cancelNow, activeGoal, cancelSent, stopSent, stop_vars, pending, newer,
                 settle_vars>>

\* Fault: a canceled task does not wait for its admission.
PollAdmissionLeaving ==
  /\ wpc = "admission" /\ Canceled
  /\ wpc' = "ready"
  /\ UNCHANGED <<task, goal, cancelNow, activeGoal, controller_vars, stop_vars, feedback_vars,
                 settle_vars>>

\* Every 20 ms while the answer is out: a cancel stops MoveIt and goes on
\* waiting, only the shutdown leaves.
PollAdmission ==
  /\ wpc = "admission" /\ Canceled
  /\ wpc' = IF shutdownRequested THEN "ready" ELSE wpc
  /\ stopSent' = (stopSent \/ ~shutdownRequested)
  /\ UNCHANGED <<task, goal, cancelNow, activeGoal, goals, cancelSent, stop_vars,
                 feedback_vars, settle_vars>>

Admission ==
  /\ wpc = "admission" /\ goals[goal] # "sent"
  /\ WorkerAt("admission", IF goals[goal] = "rejected" THEN "ready" ELSE "handle")
  /\ UNCHANGED <<task, goal, cancelNow, activeGoal, controller_vars, stop_vars, feedback_vars,
                 settle_vars>>

\* From here a stop finds the goal; one that came before is seen here.
RegisterGoal ==
  /\ WorkerAt("handle", "cancel_now")
  /\ activeGoal' = goal
  /\ cancelNow' = Canceled
  /\ UNCHANGED <<task, goal, controller_vars, stop_vars, feedback_vars, settle_vars>>

CancelNow ==
  /\ WorkerAt("cancel_now", "result")
  /\ cancelSent' = IF cancelNow THEN cancelSent \cup {goal} ELSE cancelSent
  /\ cancelNow' = FALSE
  /\ UNCHANGED <<task, goal, activeGoal, goals, stopSent, stop_vars,
                 feedback_vars, settle_vars>>

\* Every 20 ms while the goal runs.
PollResult ==
  /\ wpc = "result" /\ Canceled
  /\ IF shutdownRequested
       THEN activeGoal' = 0 /\ wpc' = "ready" /\ UNCHANGED cancelSent
       ELSE cancelSent' = cancelSent \cup {goal} /\ UNCHANGED <<activeGoal, wpc>>
  /\ UNCHANGED <<task, goal, cancelNow, goals, stopSent, stop_vars, feedback_vars,
                 settle_vars>>

\* A result other than success stops MoveIt and fails.
Result ==
  /\ wpc = "result" /\ goal \notin InFlight
  /\ activeGoal' = IF activeGoal = goal THEN 0 ELSE activeGoal
  /\ wpc' = IF goals[goal] = "succeeded" THEN "baseline" ELSE "ready"
  /\ stopSent' = (stopSent \/ goals[goal] # "succeeded")
  /\ UNCHANGED <<task, goal, cancelNow, goals, cancelSent, stop_vars, feedback_vars,
                 settle_vars>>

-----------------------------------------------------------------------------
(* waitForSettled *)

\* No feedback ever: failure.  Otherwise samples count from the generation now.
Baseline ==
  /\ WorkerAt("baseline", IF latest = NoSample THEN "ready" ELSE "settle")
  /\ newer' = FALSE /\ count' = 0 /\ run' = NoRun
  /\ UNCHANGED <<task, goal, cancelNow, activeGoal, controller_vars, stop_vars, latest, pending>>

PollFeedback ==
  /\ Canceled \/ newer
  /\ WorkerAt("settle", IF Canceled THEN "ready" ELSE "copy")
  /\ newer' = (newer /\ Canceled)
  /\ UNCHANGED <<task, goal, cancelNow, activeGoal, controller_vars, stop_vars, latest, pending,
                 settle_vars>>

\* Fault: a sample out of tolerance does not start the count again.
NextCountKept == IF latest.good THEN count + 1 ELSE count

NextCount == IF latest.good THEN count + 1 ELSE 0

NextRun ==
  IF latest.good
    THEN [looked |-> run.looked + 1,
          fresh |-> IF latest.late /\ ~latest.seen THEN run.fresh + 1 ELSE run.fresh]
    ELSE NoRun

\* Fault: one sample more than asked for.
CopyFeedbackOnceMore ==
  /\ wpc = "copy"
  /\ wpc' = IF NextCount > Settle THEN "success" ELSE "settle"
  /\ count' = NextCount /\ run' = NextRun
  /\ latest' = [latest EXCEPT !.seen = TRUE]
  /\ UNCHANGED <<task, goal, cancelNow, activeGoal, controller_vars, stop_vars, pending, newer>>

\* The sample is copied under the mutex, some time after its generation was read.
CopyFeedback ==
  /\ wpc = "copy"
  /\ wpc' = IF NextCount >= Settle THEN "success" ELSE "settle"
  /\ count' = NextCount /\ run' = NextRun
  /\ latest' = [latest EXCEPT !.seen = TRUE]
  /\ UNCHANGED <<task, goal, cancelNow, activeGoal, controller_vars, stop_vars, pending, newer>>

\* execution_settle_timeout
SettleExpires ==
  /\ WorkerAt("settle", "ready")
  /\ stopSent' = TRUE
  /\ UNCHANGED <<task, goal, cancelNow, activeGoal, goals, cancelSent, stop_vars, feedback_vars,
                 settle_vars>>

Succeed ==
  /\ WorkerAt("success", "ready")
  /\ UNCHANGED <<task, goal, cancelNow, activeGoal, controller_vars, stop_vars, feedback_vars,
                 settle_vars>>

-----------------------------------------------------------------------------
(* The feedback callback: store under the mutex, count after it.  Samples nobody
   waits for are left out. *)

Looking == wpc \in {"result", "baseline", "settle", "copy"}

StoreFeedback(good) ==
  /\ Looking /\ ~pending
  /\ pending' = TRUE
  /\ latest' = [good |-> good, late |-> goal \notin InFlight, seen |-> FALSE]
  /\ UNCHANGED <<task, worker_vars, controller_vars, stop_vars, newer, settle_vars>>

CountFeedback ==
  /\ pending /\ pending' = FALSE /\ newer' = TRUE
  /\ UNCHANGED <<task, worker_vars, controller_vars, stop_vars, latest, settle_vars>>

-----------------------------------------------------------------------------
(* The stopping thread: requestStop from a cancel or a reset, requestShutdown
   from the destructor.  The task it was called for may have ended, and the next
   one begun, before its flag goes up, and the goal it cancels before its cancel
   goes out. *)

CallStop ==
  /\ spc = "idle" /\ task > 0 /\ ~shutdownRequested
  /\ spc' = "called"
  /\ stopping' = [task |-> task, goal |-> 0]
  /\ UNCHANGED <<task, worker_vars, controller_vars, cancelRequested, shutdownRequested,
                 goalCanceled, feedback_vars, settle_vars>>

RequestShutdown ==
  /\ spc = "idle" /\ ~shutdownRequested
  /\ spc' = "called"
  /\ shutdownRequested' = TRUE
  /\ stopping' = [task |-> task, goal |-> 0]
  /\ UNCHANGED <<task, worker_vars, controller_vars, cancelRequested, goalCanceled,
                 feedback_vars, settle_vars>>

\* Fault: the destructor raises its own flag and leaves the rest to the worker.
RequestStopUnlessShutdown ==
  /\ spc = "called" /\ spc' = IF shutdownRequested THEN "idle" ELSE "flagged"
  /\ cancelRequested' = TRUE
  /\ UNCHANGED <<task, worker_vars, controller_vars, shutdownRequested, goalCanceled,
                 stopping, feedback_vars, settle_vars>>

RequestStop ==
  /\ spc = "called" /\ spc' = "flagged"
  /\ cancelRequested' = TRUE
  /\ UNCHANGED <<task, worker_vars, controller_vars, shutdownRequested, goalCanceled,
                 stopping, feedback_vars, settle_vars>>

LookForGoal ==
  /\ spc = "flagged" /\ spc' = "looked"
  /\ stopping' = [stopping EXCEPT !.goal = activeGoal]
  /\ UNCHANGED <<task, worker_vars, controller_vars, cancelRequested, shutdownRequested,
                 goalCanceled, feedback_vars, settle_vars>>

\* The cancel and the stop event go out; the action is canceling from then on.
SendStop ==
  /\ spc = "looked" /\ spc' = "idle"
  /\ cancelSent' = IF stopping.goal = 0 THEN cancelSent ELSE cancelSent \cup {stopping.goal}
  /\ stopSent' = TRUE
  /\ goalCanceled' = (goalCanceled \/ stopping.task = task)
  /\ stopping' = [task |-> 0, goal |-> 0]
  /\ UNCHANGED <<task, worker_vars, goals, cancelRequested, shutdownRequested,
                 feedback_vars, settle_vars>>

-----------------------------------------------------------------------------
(* The controller (external). *)

Answer(g, answer) ==
  /\ goals[g] = "sent"
  /\ goals' = [goals EXCEPT ![g] = answer]
  /\ UNCHANGED <<task, worker_vars, cancelSent, stopSent, stop_vars, feedback_vars,
                 settle_vars>>

Complete(g, result) ==
  /\ goals[g] = "executing"
  /\ goals' = [goals EXCEPT ![g] = result]
  /\ UNCHANGED <<task, worker_vars, cancelSent, stopSent, stop_vars, feedback_vars, settle_vars>>

CancelArrives(g) ==
  /\ g \in cancelSent
  /\ cancelSent' = cancelSent \ {g}
  /\ goals' = IF goals[g] = "executing" THEN [goals EXCEPT ![g] = "failed"] ELSE goals
  /\ UNCHANGED <<task, worker_vars, stopSent, stop_vars, feedback_vars, settle_vars>>

\* The stop event stops whatever executes when it arrives.
StopArrives ==
  /\ stopSent /\ stopSent' = FALSE
  /\ goals' = [g \in Goals |-> IF goals[g] = "executing" THEN "failed" ELSE goals[g]]
  /\ UNCHANGED <<task, worker_vars, cancelSent, stop_vars, feedback_vars, settle_vars>>

-----------------------------------------------------------------------------
Execute ==
  \/ SendGoal \/ PollAdmission \/ Admission \/ RegisterGoal \/ CancelNow \/ PollResult \/ Result
  \/ Baseline \/ PollFeedback \/ CopyFeedback \/ SettleExpires \/ Succeed

Feedback == (\E good \in BOOLEAN : StoreFeedback(good)) \/ CountFeedback

Stopper == RequestStop \/ LookForGoal \/ SendStop

Controller ==
  \E g \in Goals :
    \/ \E answer \in {"executing", "rejected"} : Answer(g, answer)
    \/ \E result \in {"succeeded", "failed"} : Complete(g, result)
    \/ CancelArrives(g)

Next ==
  \/ BeginTask \/ EndTask \/ WaitUntilStopped \/ Execute
  \/ Feedback
  \/ CallStop \/ RequestShutdown \/ Stopper
  \/ Controller \/ StopArrives

(* The threads are scheduled, and the controller answers goals and acts on
   cancels and stops it receives; nothing says a motion ends by itself. *)
Fairness ==
  /\ WF_vars(PollAdmission) /\ WF_vars(Admission) /\ WF_vars(RegisterGoal) /\ WF_vars(CancelNow)
  /\ WF_vars(PollResult) /\ WF_vars(Result)
  /\ WF_vars(Stopper) /\ WF_vars(StopArrives)
  /\ \A g \in Goals :
       WF_vars(Answer(g, "executing") \/ Answer(g, "rejected")) /\ WF_vars(CancelArrives(g))

Spec == Init /\ [][Next]_vars /\ Fairness

-----------------------------------------------------------------------------
\* Until the shutdown the arms follow one trajectory at a time: none is sent,
\* and no plan is made from measured positions, while another one may still move.
PlansAtRest ==
  wpc \in {"idle", "ready", "planned"} /\ ~shutdownRequested => InFlight = {}

\* execute returns success only for a goal the controller completed, and only on
\* an unbroken run of settled samples, one of them received since.
SuccessIsSettled ==
  wpc = "success" =>
    /\ goals[goal] = "succeeded"
    /\ run.looked >= Settle
    /\ Settle > 1 => run.fresh >= 1

\* What the README asks: consecutive samples, each received after the controller
\* was done, so as many different ones as execution_settle_samples says.
SettledSamplesAreFresh == wpc = "success" => run.fresh >= Settle

\* A stop ends the motion, wherever it meets the worker: before the send, while
\* the admission is out, before active_goal_ is set, or in the motion.
StopEndsMotion ==
  (cancelRequested \/ goalCanceled) /\ ~shutdownRequested ~> InFlight = {} \/ shutdownRequested

\* The destructor's stop ends a motion whose admission the worker had seen, even
\* though the worker drops active_goal_ without canceling.
ShutdownEndsMotion ==
  shutdownRequested /\ wpc \in {"handle", "cancel_now", "result"} ~> InFlight = {}
=============================================================================
