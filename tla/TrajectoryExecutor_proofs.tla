----------------------- MODULE TrajectoryExecutor_proofs -----------------------
(* Proofs about TrajectoryExecutor for every number of settle samples, tasks and
   trajectories.

   At most the last goal moves, and until the shutdown only while the worker waits
   for it (OneInFlight): a stop never makes the worker walk away.  Of the settled
   samples one at most can be older than the end of the motion, because a second
   look takes a second count, and that one a sample stored since (OldLooks). *)
EXTENDS TrajectoryExecutor, TLAPS

Waiting == {"admission", "handle", "cancel_now", "result"}
Settling == {"baseline", "settle", "copy", "success"}

GoalByPoint ==
  /\ wpc \in Waiting \cup Settling => goal >= 1
  /\ \A g \in Goals : g > goal => goals[g] = "unsent"

OneInFlight ==
  \A g \in InFlight : g = goal /\ (wpc \in Waiting \/ shutdownRequested)

SettlesWhenDone == wpc \in Settling => goals[goal] = "succeeded"

CountsLooks ==
  /\ count = run.looked
  /\ wpc \in {"settle", "copy"} => count < Settle /\ latest \in Samples
  /\ wpc = "success" => count >= Settle

\* The sample was stored after the motion and has not been looked at.
Fresh == latest.late /\ ~latest.seen

\* Looks that are due although nothing more is stored.
LooksDue ==
  (IF pending THEN 1 ELSE 0) + (IF newer THEN 1 ELSE 0) + (IF wpc = "copy" THEN 1 ELSE 0)

OldLooks ==
  /\ wpc \in {"settle", "copy", "success"} /\ run.fresh = 0 => run.looked <= 1
  /\ wpc \in {"settle", "copy"} /\ run.fresh = 0 /\ latest.good /\ ~Fresh =>
       run.looked + LooksDue <= 1

RunFits == run.fresh <= run.looked

IInv ==
  /\ TypeOK
  /\ GoalByPoint /\ OneInFlight /\ SettlesWhenDone
  /\ CountsLooks /\ OldLooks /\ RunFits
-----------------------------------------------------------------------------
LEMMA InitIInv == Init => IInv
<1> SUFFICES ASSUME Init
             PROVE  IInv
  OBVIOUS
<1>1. TypeOK
  <2>1. /\ goals \in [Goals -> {"unsent", "sent", "executing", "rejected", "succeeded", "failed"}]
        /\ cancelSent \subseteq Goals /\ stopping \in [task : 0..MaxTasks, goal : 0..MaxGoals]
    BY BoundsAssumption DEF Init
  <2>2. /\ count \in 0..Settle /\ run \in [looked : 0..Settle, fresh : 0..Settle]
        /\ goal \in 0..MaxGoals /\ activeGoal \in 0..MaxGoals /\ task \in 0..MaxTasks
    BY BoundsAssumption DEF Init, NoRun
  <2> QED
    BY <2>1, <2>2 DEF Init, TypeOK
<1> QED
  BY <1>1, BoundsAssumption
     DEF Init, IInv, GoalByPoint, OneInFlight, SettlesWhenDone, CountsLooks, OldLooks, RunFits,
         Waiting, Settling, Goals, InFlight, NoRun

LEMMA TaskStepIInv ==
  ASSUME IInv, BeginTask \/ EndTask \/ WaitUntilStopped
  PROVE  IInv'
<1> USE BoundsAssumption
    DEF IInv, TypeOK, GoalByPoint, OneInFlight, SettlesWhenDone, CountsLooks, OldLooks, RunFits,
        Waiting, Settling, Fresh, LooksDue, Goals, InFlight, worker_vars, controller_vars,
        stop_vars, feedback_vars, settle_vars, WorkerAt, Canceled
<1>1. CASE BeginTask
  <2>1. TypeOK'
    <3>1. /\ task' \in 0..MaxTasks
          /\ {cancelRequested', shutdownRequested', goalCanceled', cancelNow', stopSent'} \subseteq BOOLEAN
      <4>1. task' \in 0..MaxTasks
        BY <1>1 DEF BeginTask
      <4>2. /\ cancelRequested' = FALSE /\ goalCanceled' = FALSE
            /\ UNCHANGED <<shutdownRequested, cancelNow, stopSent>>
        BY <1>1 DEF BeginTask
      <4> QED
        BY <4>1, <4>2
    <3>2. /\ goal' \in 0..MaxGoals /\ activeGoal' \in 0..MaxGoals
          /\ goals' \in [Goals -> {"unsent", "sent", "executing", "rejected", "succeeded", "failed"}]
          /\ cancelSent' \subseteq Goals
      BY <1>1 DEF BeginTask
    <3>3. /\ wpc' \in {"idle", "ready", "planned", "admission", "handle", "cancel_now", "result",
                       "baseline", "settle", "copy", "success"}
          /\ spc' \in {"idle", "called", "flagged", "looked"}
          /\ stopping' \in [task : 0..MaxTasks, goal : 0..MaxGoals]
      BY <1>1 DEF BeginTask
    <3>4. /\ latest' \in Samples \cup {NoSample} /\ pending' \in BOOLEAN /\ newer' \in BOOLEAN
      BY <1>1 DEF BeginTask
    <3>5. /\ count' \in 0..Settle /\ run' \in [looked : 0..Settle, fresh : 0..Settle]
      BY <1>1 DEF BeginTask
    <3> HIDE DEF IInv
    <3> QED
      BY <3>1, <3>2, <3>3, <3>4, <3>5
  <2>2. GoalByPoint' /\ OneInFlight'
    BY <1>1 DEF BeginTask
  <2>3. SettlesWhenDone' /\ CountsLooks'
    BY <1>1 DEF BeginTask
  <2>4. OldLooks' /\ RunFits'
    BY <1>1 DEF BeginTask
  <2> QED
    BY <2>1, <2>2, <2>3, <2>4
<1>2. CASE EndTask
  BY <1>2 DEF EndTask
<1>3. CASE WaitUntilStopped
  BY <1>3 DEF WaitUntilStopped
<1> QED
  BY <1>1, <1>2, <1>3 DEF BeginTask

LEMMA ExecuteIInv ==
  ASSUME IInv, Execute
  PROVE  IInv'
<1> USE BoundsAssumption
    DEF IInv, TypeOK, GoalByPoint, OneInFlight, SettlesWhenDone, CountsLooks, OldLooks, RunFits,
        Waiting, Settling, Fresh, LooksDue, Goals, InFlight, worker_vars, controller_vars,
        stop_vars, feedback_vars, settle_vars, WorkerAt, Canceled
<1>1. CASE SendGoal
  <2>1. TypeOK'
    <3>1. /\ task' \in 0..MaxTasks
          /\ {cancelRequested', shutdownRequested', goalCanceled', cancelNow', stopSent'} \subseteq BOOLEAN
      BY <1>1 DEF SendGoal, Samples, NoSample
    <3>2. /\ goal' \in 0..MaxGoals /\ activeGoal' \in 0..MaxGoals
          /\ goals' \in [Goals -> {"unsent", "sent", "executing", "rejected", "succeeded", "failed"}]
          /\ cancelSent' \subseteq Goals
      BY <1>1 DEF SendGoal, Samples, NoSample
    <3>3. /\ wpc' \in {"idle", "ready", "planned", "admission", "handle", "cancel_now", "result",
                       "baseline", "settle", "copy", "success"}
          /\ spc' \in {"idle", "called", "flagged", "looked"}
          /\ stopping' \in [task : 0..MaxTasks, goal : 0..MaxGoals]
      BY <1>1 DEF SendGoal, Samples, NoSample
    <3>4. /\ latest' \in Samples \cup {NoSample} /\ pending' \in BOOLEAN /\ newer' \in BOOLEAN
      BY <1>1 DEF SendGoal, Samples, NoSample
    <3>5. /\ count' \in 0..Settle /\ run' \in [looked : 0..Settle, fresh : 0..Settle]
      BY <1>1 DEF SendGoal, Samples, NoSample
    <3> HIDE DEF IInv
    <3> QED
      BY <3>1, <3>2, <3>3, <3>4, <3>5
  <2>2. GoalByPoint' /\ OneInFlight'
    <3>1. CASE Canceled
      BY <1>1, <3>1 DEF SendGoal
    <3>2. CASE ~Canceled
      <4>1. /\ \A g \in Goals : goals[g] \notin {"sent", "executing"}
            /\ \A g \in Goals : g > goal => goals[g] = "unsent"
            /\ goals \in [Goals -> {"unsent", "sent", "executing", "rejected", "succeeded", "failed"}]
            /\ goal \in Nat /\ goal + 1 \in Goals
        BY <1>1, <3>2 DEF SendGoal
      <4>2. /\ wpc' = "admission" /\ goal' = goal + 1
            /\ goals' = [goals EXCEPT ![goal + 1] = "sent"]
        BY <1>1, <3>2 DEF SendGoal
      <4> HIDE DEF IInv
      <4> QED
        BY <4>1, <4>2
    <3> QED
      BY <3>1, <3>2
  <2>3. SettlesWhenDone' /\ CountsLooks'
    BY <1>1 DEF SendGoal, Samples, NoSample
  <2>4. OldLooks' /\ RunFits'
    BY <1>1 DEF SendGoal, Samples, NoSample
  <2> QED
    BY <2>1, <2>2, <2>3, <2>4
<1>2. CASE PollAdmission
  BY <1>2 DEF PollAdmission
<1>3. CASE Admission
  BY <1>3 DEF Admission
<1>4. CASE RegisterGoal
  BY <1>4 DEF RegisterGoal
<1>5. CASE CancelNow
  <2>1. TypeOK'
    <3>1. /\ task' \in 0..MaxTasks
          /\ {cancelRequested', shutdownRequested', goalCanceled', cancelNow', stopSent'} \subseteq BOOLEAN
      BY <1>5 DEF CancelNow
    <3>2. /\ goal' \in 0..MaxGoals /\ activeGoal' \in 0..MaxGoals
          /\ goals' \in [Goals -> {"unsent", "sent", "executing", "rejected", "succeeded", "failed"}]
          /\ cancelSent' \subseteq Goals
      BY <1>5 DEF CancelNow
    <3>3. /\ wpc' \in {"idle", "ready", "planned", "admission", "handle", "cancel_now", "result",
                       "baseline", "settle", "copy", "success"}
          /\ spc' \in {"idle", "called", "flagged", "looked"}
          /\ stopping' \in [task : 0..MaxTasks, goal : 0..MaxGoals]
      BY <1>5 DEF CancelNow
    <3>4. /\ latest' \in Samples \cup {NoSample} /\ pending' \in BOOLEAN /\ newer' \in BOOLEAN
      BY <1>5 DEF CancelNow
    <3>5. /\ count' \in 0..Settle /\ run' \in [looked : 0..Settle, fresh : 0..Settle]
      BY <1>5 DEF CancelNow
    <3> HIDE DEF IInv
    <3> QED
      BY <3>1, <3>2, <3>3, <3>4, <3>5
  <2>2. GoalByPoint' /\ OneInFlight'
    BY <1>5 DEF CancelNow
  <2>3. SettlesWhenDone' /\ CountsLooks'
    BY <1>5 DEF CancelNow
  <2>4. OldLooks' /\ RunFits'
    BY <1>5 DEF CancelNow
  <2> QED
    BY <2>1, <2>2, <2>3, <2>4
<1>6. CASE PollResult
  <2>1. TypeOK'
    <3>1. /\ task' \in 0..MaxTasks
          /\ {cancelRequested', shutdownRequested', goalCanceled', cancelNow', stopSent'} \subseteq BOOLEAN
      BY <1>6 DEF PollResult
    <3>2. /\ goal' \in 0..MaxGoals /\ activeGoal' \in 0..MaxGoals
          /\ goals' \in [Goals -> {"unsent", "sent", "executing", "rejected", "succeeded", "failed"}]
          /\ cancelSent' \subseteq Goals
      <4>1. cancelSent' \subseteq Goals
        <5>1. goal \in Goals /\ cancelSent \subseteq Goals
          BY <1>6 DEF PollResult
        <5>2. cancelSent' \in {cancelSent, cancelSent \cup {goal}}
          BY <1>6 DEF PollResult
        <5> HIDE DEF IInv, Goals
        <5> QED
          BY <5>1, <5>2
      <4>2. activeGoal' \in {0, activeGoal} /\ UNCHANGED <<goal, goals>>
        BY <1>6 DEF PollResult
      <4> QED
        BY <4>1, <4>2
    <3>3. /\ wpc' \in {"idle", "ready", "planned", "admission", "handle", "cancel_now", "result",
                       "baseline", "settle", "copy", "success"}
          /\ spc' \in {"idle", "called", "flagged", "looked"}
          /\ stopping' \in [task : 0..MaxTasks, goal : 0..MaxGoals]
      BY <1>6 DEF PollResult
    <3>4. /\ latest' \in Samples \cup {NoSample} /\ pending' \in BOOLEAN /\ newer' \in BOOLEAN
      BY <1>6 DEF PollResult
    <3>5. /\ count' \in 0..Settle /\ run' \in [looked : 0..Settle, fresh : 0..Settle]
      BY <1>6 DEF PollResult
    <3> HIDE DEF IInv
    <3> QED
      BY <3>1, <3>2, <3>3, <3>4, <3>5
  <2>2. GoalByPoint' /\ OneInFlight'
    BY <1>6 DEF PollResult
  <2>3. SettlesWhenDone' /\ CountsLooks'
    BY <1>6 DEF PollResult
  <2>4. OldLooks' /\ RunFits'
    BY <1>6 DEF PollResult
  <2> QED
    BY <2>1, <2>2, <2>3, <2>4
<1>7. CASE Result
  BY <1>7 DEF Result
<1>8. CASE Baseline
  <2>1. TypeOK'
    <3>1. /\ task' \in 0..MaxTasks
          /\ {cancelRequested', shutdownRequested', goalCanceled', cancelNow', stopSent'} \subseteq BOOLEAN
      BY <1>8 DEF Baseline, NoRun
    <3>2. /\ goal' \in 0..MaxGoals /\ activeGoal' \in 0..MaxGoals
          /\ goals' \in [Goals -> {"unsent", "sent", "executing", "rejected", "succeeded", "failed"}]
          /\ cancelSent' \subseteq Goals
      BY <1>8 DEF Baseline, NoRun
    <3>3. /\ wpc' \in {"idle", "ready", "planned", "admission", "handle", "cancel_now", "result",
                       "baseline", "settle", "copy", "success"}
          /\ spc' \in {"idle", "called", "flagged", "looked"}
          /\ stopping' \in [task : 0..MaxTasks, goal : 0..MaxGoals]
      BY <1>8 DEF Baseline, NoRun
    <3>4. /\ latest' \in Samples \cup {NoSample} /\ pending' \in BOOLEAN /\ newer' \in BOOLEAN
      BY <1>8 DEF Baseline, NoRun
    <3>5. /\ count' \in 0..Settle /\ run' \in [looked : 0..Settle, fresh : 0..Settle]
      BY <1>8 DEF Baseline, NoRun
    <3> HIDE DEF IInv
    <3> QED
      BY <3>1, <3>2, <3>3, <3>4, <3>5
  <2>2. GoalByPoint' /\ OneInFlight'
    BY <1>8 DEF Baseline, NoRun
  <2>3. SettlesWhenDone' /\ CountsLooks'
    BY <1>8 DEF Baseline, NoRun
  <2>4. OldLooks' /\ RunFits'
    BY <1>8 DEF Baseline, NoRun
  <2> QED
    BY <2>1, <2>2, <2>3, <2>4
<1>9. CASE PollFeedback
  BY <1>9 DEF PollFeedback
<1>10. CASE CopyFeedback
  <2>1. TypeOK'
    <3>1. /\ task' \in 0..MaxTasks
          /\ {cancelRequested', shutdownRequested', goalCanceled', cancelNow', stopSent'} \subseteq BOOLEAN
      BY <1>10 DEF CopyFeedback, NextCount, NextRun, NoRun, Samples
    <3>2. /\ goal' \in 0..MaxGoals /\ activeGoal' \in 0..MaxGoals
          /\ goals' \in [Goals -> {"unsent", "sent", "executing", "rejected", "succeeded", "failed"}]
          /\ cancelSent' \subseteq Goals
      BY <1>10 DEF CopyFeedback, NextCount, NextRun, NoRun, Samples
    <3>3. /\ wpc' \in {"idle", "ready", "planned", "admission", "handle", "cancel_now", "result",
                       "baseline", "settle", "copy", "success"}
          /\ spc' \in {"idle", "called", "flagged", "looked"}
          /\ stopping' \in [task : 0..MaxTasks, goal : 0..MaxGoals]
      BY <1>10 DEF CopyFeedback, NextCount, NextRun, NoRun, Samples
    <3>4. /\ latest' \in Samples \cup {NoSample} /\ pending' \in BOOLEAN /\ newer' \in BOOLEAN
      BY <1>10 DEF CopyFeedback, NextCount, NextRun, NoRun, Samples
    <3>5. /\ count' \in 0..Settle /\ run' \in [looked : 0..Settle, fresh : 0..Settle]
      BY <1>10 DEF CopyFeedback, NextCount, NextRun, NoRun, Samples
    <3> HIDE DEF IInv
    <3> QED
      BY <3>1, <3>2, <3>3, <3>4, <3>5
  <2>2. GoalByPoint' /\ OneInFlight'
    BY <1>10 DEF CopyFeedback, NextCount, NextRun, NoRun, Samples
  <2>3. SettlesWhenDone' /\ CountsLooks'
    <3>1. /\ wpc = "copy" /\ UNCHANGED <<goal, goals>> /\ count' = NextCount /\ run' = NextRun
          /\ wpc' = IF NextCount >= Settle THEN "success" ELSE "settle"
      BY <1>10 DEF CopyFeedback
    <3>2. latest' \in Samples
      BY <1>10 DEF CopyFeedback, Samples
    <3>3. run'.looked = NextCount /\ NextCount \in Nat
      BY <3>1 DEF NextRun, NextCount, NoRun
    <3> QED
      BY <3>1, <3>2, <3>3
  <2>4. OldLooks' /\ RunFits'
    <3>1. /\ run \in [looked : 0..Settle, fresh : 0..Settle] /\ run.fresh <= run.looked
          /\ latest \in Samples /\ wpc = "copy" /\ pending \in BOOLEAN /\ newer \in BOOLEAN
      BY <1>10 DEF CopyFeedback
    <3>2. /\ run.fresh = 0 => run.looked <= 1
          /\ run.fresh = 0 /\ latest.good /\ ~Fresh =>
               run.looked + (IF pending THEN 1 ELSE 0) + (IF newer THEN 1 ELSE 0) + 1 <= 1
      BY <3>1
    <3>3. /\ run' = NextRun /\ wpc' \in {"settle", "success"} /\ pending' = pending /\ newer' = newer
          /\ latest' = [latest EXCEPT !.seen = TRUE]
      BY <1>10 DEF CopyFeedback
    <3>4. latest'.good = latest.good /\ latest'.seen = TRUE
      BY <3>1, <3>3 DEF Samples
    <3>5. CASE ~latest.good
      <4>1. run'.looked = 0 /\ run'.fresh = 0
        BY <3>3, <3>5 DEF NextRun, NoRun
      <4> HIDE DEF IInv
      <4> QED
        BY <3>4, <3>5, <4>1
    <3>6. CASE latest.good /\ Fresh
      <4>1. run'.looked = run.looked + 1 /\ run'.fresh = run.fresh + 1
        BY <3>3, <3>6 DEF NextRun
      <4> HIDE DEF IInv
      <4> QED
        BY <3>1, <4>1
    <3>7. CASE latest.good /\ ~Fresh
      <4>1. run'.looked = run.looked + 1 /\ run'.fresh = run.fresh
        BY <3>3, <3>7 DEF NextRun
      <4> HIDE DEF IInv
      <4>2. run.fresh = 0 => run.looked = 0 /\ ~pending /\ ~newer
        BY <3>1, <3>2, <3>7
      <4> QED
        BY <3>1, <3>3, <4>1, <4>2
    <3> QED
      BY <3>5, <3>6, <3>7
  <2> QED
    BY <2>1, <2>2, <2>3, <2>4
<1>11. CASE SettleExpires
  BY <1>11 DEF SettleExpires
<1>12. CASE Succeed
  BY <1>12 DEF Succeed
<1> QED
  BY <1>1, <1>2, <1>3, <1>4, <1>5, <1>6, <1>7, <1>8, <1>9, <1>10, <1>11, <1>12 DEF Execute

LEMMA FeedbackIInv ==
  ASSUME IInv, Feedback
  PROVE  IInv'
<1> USE BoundsAssumption
    DEF IInv, TypeOK, GoalByPoint, OneInFlight, SettlesWhenDone, CountsLooks, OldLooks, RunFits,
        Waiting, Settling, Fresh, LooksDue, Goals, InFlight, worker_vars, controller_vars,
        stop_vars, feedback_vars, settle_vars, WorkerAt, Canceled
<1>1. ASSUME NEW good \in BOOLEAN, StoreFeedback(good)
      PROVE  IInv'
  BY <1>1 DEF StoreFeedback, Looking, Samples
<1>2. CASE CountFeedback
  <2>1. TypeOK'
    BY <1>2 DEF CountFeedback
  <2>2. GoalByPoint' /\ OneInFlight'
    BY <1>2 DEF CountFeedback
  <2>3. SettlesWhenDone' /\ CountsLooks'
    BY <1>2 DEF CountFeedback
  <2>4. OldLooks' /\ RunFits'
    BY <1>2 DEF CountFeedback
  <2> QED
    BY <2>1, <2>2, <2>3, <2>4
<1> QED
  BY <1>1, <1>2 DEF Feedback

LEMMA StopIInv ==
  ASSUME IInv, CallStop \/ RequestShutdown \/ Stopper
  PROVE  IInv'
<1> USE BoundsAssumption
    DEF IInv, TypeOK, GoalByPoint, OneInFlight, SettlesWhenDone, CountsLooks, OldLooks, RunFits,
        Waiting, Settling, Fresh, LooksDue, Goals, InFlight, worker_vars, controller_vars,
        stop_vars, feedback_vars, settle_vars, WorkerAt, Canceled
<1>1. CASE CallStop
  BY <1>1 DEF CallStop
<1>2. CASE RequestShutdown
  BY <1>2 DEF RequestShutdown
<1>3. CASE RequestStop
  BY <1>3 DEF RequestStop
<1>4. CASE LookForGoal
  BY <1>4 DEF LookForGoal
<1>5. CASE SendStop
  <2>1. TypeOK'
    <3>1. /\ task' \in 0..MaxTasks
          /\ {cancelRequested', shutdownRequested', goalCanceled', cancelNow', stopSent'} \subseteq BOOLEAN
      BY <1>5 DEF SendStop
    <3>2. /\ goal' \in 0..MaxGoals /\ activeGoal' \in 0..MaxGoals
          /\ goals' \in [Goals -> {"unsent", "sent", "executing", "rejected", "succeeded", "failed"}]
          /\ cancelSent' \subseteq Goals
      <4>1. cancelSent' \subseteq Goals
        <5>1. (stopping.goal # 0 => stopping.goal \in Goals) /\ cancelSent \subseteq Goals
          OBVIOUS
        <5>2. cancelSent' = IF stopping.goal = 0 THEN cancelSent ELSE cancelSent \cup {stopping.goal}
          BY <1>5 DEF SendStop
        <5> HIDE DEF IInv, Goals
        <5> QED
          BY <5>1, <5>2
      <4>2. activeGoal' \in {0, activeGoal} /\ UNCHANGED <<goal, goals>>
        BY <1>5 DEF SendStop
      <4> QED
        BY <4>1, <4>2
    <3>3. /\ wpc' \in {"idle", "ready", "planned", "admission", "handle", "cancel_now", "result",
                       "baseline", "settle", "copy", "success"}
          /\ spc' \in {"idle", "called", "flagged", "looked"}
          /\ stopping' \in [task : 0..MaxTasks, goal : 0..MaxGoals]
      BY <1>5 DEF SendStop
    <3>4. /\ latest' \in Samples \cup {NoSample} /\ pending' \in BOOLEAN /\ newer' \in BOOLEAN
      BY <1>5 DEF SendStop
    <3>5. /\ count' \in 0..Settle /\ run' \in [looked : 0..Settle, fresh : 0..Settle]
      BY <1>5 DEF SendStop
    <3> HIDE DEF IInv
    <3> QED
      BY <3>1, <3>2, <3>3, <3>4, <3>5
  <2>2. GoalByPoint' /\ OneInFlight'
    BY <1>5 DEF SendStop
  <2>3. SettlesWhenDone' /\ CountsLooks'
    BY <1>5 DEF SendStop
  <2>4. OldLooks' /\ RunFits'
    BY <1>5 DEF SendStop
  <2> QED
    BY <2>1, <2>2, <2>3, <2>4
<1> QED
  BY <1>1, <1>2, <1>3, <1>4, <1>5 DEF Stopper

LEMMA ControllerIInv ==
  ASSUME IInv, Controller \/ StopArrives
  PROVE  IInv'
<1> USE BoundsAssumption
    DEF IInv, TypeOK, GoalByPoint, OneInFlight, SettlesWhenDone, CountsLooks, OldLooks, RunFits,
        Waiting, Settling, Fresh, LooksDue, Goals, InFlight, worker_vars, controller_vars,
        stop_vars, feedback_vars, settle_vars, WorkerAt, Canceled
<1>1. ASSUME NEW g \in Goals, NEW answer \in {"executing", "rejected"}, Answer(g, answer)
      PROVE  IInv'
  BY <1>1 DEF Answer
<1>2. ASSUME NEW g \in Goals, NEW result \in {"succeeded", "failed"}, Complete(g, result)
      PROVE  IInv'
  BY <1>2 DEF Complete
<1>3. ASSUME NEW g \in Goals, CancelArrives(g)
      PROVE  IInv'
  BY <1>3 DEF CancelArrives
<1>4. CASE StopArrives
  <2>1. TypeOK'
    BY <1>4 DEF StopArrives
  <2>2. GoalByPoint' /\ OneInFlight'
    BY <1>4 DEF StopArrives
  <2>3. SettlesWhenDone' /\ CountsLooks'
    BY <1>4 DEF StopArrives
  <2>4. OldLooks' /\ RunFits'
    BY <1>4 DEF StopArrives
  <2> QED
    BY <2>1, <2>2, <2>3, <2>4
<1> QED
  BY <1>1, <1>2, <1>3, <1>4 DEF Controller

LEMMA StutterIInv == IInv /\ UNCHANGED vars => IInv'
<1> SUFFICES ASSUME IInv, UNCHANGED vars
             PROVE  IInv'
  OBVIOUS
<1> USE DEF vars, worker_vars, controller_vars, stop_vars, feedback_vars, settle_vars
<1>1. TypeOK'
  BY DEF IInv, TypeOK
<1>2. GoalByPoint' /\ OneInFlight' /\ SettlesWhenDone'
  BY DEF IInv, GoalByPoint, OneInFlight, SettlesWhenDone, InFlight
<1>3. CountsLooks' /\ OldLooks' /\ RunFits'
  BY DEF IInv, CountsLooks, OldLooks, RunFits, LooksDue, Fresh
<1> QED
  BY <1>1, <1>2, <1>3 DEF IInv

LEMMA NextIInv == IInv /\ [Next]_vars => IInv'
  BY TaskStepIInv, ExecuteIInv, FeedbackIInv, StopIInv, ControllerIInv, StutterIInv DEF Next

\* The worker, the feedback callback, the stopping thread and the controller keep the
\* inductive invariant, however they interleave.
THEOREM Invariance == Spec => []IInv
  BY InitIInv, NextIInv, PTL DEF Spec

-----------------------------------------------------------------------------
\* Every variable keeps its type; the worker never counts past the samples it needs.
THEOREM TypeCorrect == Spec => []TypeOK
<1>1. IInv => TypeOK
  BY DEF IInv
<1> QED
  BY <1>1, Invariance, PTL

\* Until the shutdown the arms follow one trajectory at a time: nothing is planned or
\* sent while a goal may still move them.
THEOREM PlansAtRestAlways == Spec => []PlansAtRest
<1>1. IInv => PlansAtRest
  BY DEF IInv, OneInFlight, PlansAtRest, Waiting
<1> QED
  BY <1>1, Invariance, PTL

\* Success needs a completed goal and an unbroken run of settled samples, one of them
\* received since.
THEOREM SuccessIsSettledAlways == Spec => []SuccessIsSettled
<1>1. ASSUME IInv
      PROVE  SuccessIsSettled
  <2>1. run \in [looked : 0..Settle, fresh : 0..Settle] /\ Settle \in Nat
    BY <1>1, BoundsAssumption DEF IInv, TypeOK
  <2> QED
    BY <1>1, <2>1 DEF IInv, SettlesWhenDone, CountsLooks, OldLooks, SuccessIsSettled, Settling
<1> QED
  BY <1>1, Invariance, PTL
=============================================================================
