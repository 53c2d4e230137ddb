# Formal models of the X2 box manipulation server

TLA+ specifications, TLC runs and TLAPS proofs for `agibot_x2_manipulation`: the ROS 2
server that picks, carries and places a box with the two arms of an AgiBot X2 through
MoveIt, and resets itself when something went wrong. Paths are relative to the
repository; `P` stands for `agibot_x2_manipulation/src`, and `server` for
`P/pick_place_server.cpp`.

Run a check with `tlc -config X.cfg M` and the proofs with `tlapm ResetCoordinator_proofs.tla`.

## 1. The system

### 1.1 Components

| Component | State it keeps | Operations |
|---|---|---|
| `ResetCoordinator` (`P/reset_coordinator.cpp`) | four atomics: `busy_`, `reset_requested_` (latch), `reset_pending_`, `reset_owns_operation_` | `reserveOperation`, `releaseOperation`, `requestReset`, `waitForResetAccess`, `finishReset` |
| `PhaseRetryController` (`include/.../phase_retry_controller.hpp`) | `status_` (task, phase, attempt, pause, disposition), `continue_requested_` | `begin`, `run`, `checkpoint`, `requestContinue`, `finish` |
| `TrajectoryExecutor` (`P/pick_place/trajectory_executor.cpp`) | `cancel_requested_`, `shutdown_requested_`, `active_goal_`, the last feedback and its generation | `execute`, `waitUntilStopped`, `waitForSettled`, `requestStop`, `requestShutdown`, `resetCancellation`, the feedback callback |
| Manipulation state (`server`: `setState`, `initializeState`, `recoverState`, `run*`, `execute*`, `executeReset`) | `state_` (UNKNOWN, EMPTY, HOLDING, RECOVERY_REQUIRED), held geometry, `reset_physical_detach_done_` | Pick, Place, PickPlace, MoveCarryPose, Reset, the recovery service |
| `ManipulationStateStore` (`P/pick_place/manipulation_state_store.cpp`) | state file, task file | `load`, `persist` |
| `AttachmentController` (`P/pick_place/attachment_controller.cpp`) | `expected()` | `call` to the simulator's attach or detach service |
| Continue scene acquisition (`server`: `prepareContinueScene`) | `continue_detection_stamp_`, a scene snapshot | wait for rest, acquire box and table, roll back |
| `ReleaseCheckpoint`, `PostPlaceProgress`, `PostPlacePlanner` (`P/pick_place/`) | whether a correction is pending; stage, plan and segment of the return | `validate`; `invalidate`, `replan`, `advance_segment`, `advance_stage`; plans of a stage or of the whole return |
| `SavedPlan` (`P/pick_place/saved_plan.hpp`, `saved_plan.cpp`) | one plan per action, its steps recorded by plan_only requests | save, `claim`, `clear`, replay |
| `PlanningSceneManager`, box and table pose trackers, perception readiness | MoveIt's world and attached body, the retained objects; stamped detections | `updateDetectionScene`, `retainDetectionObjects`, `snapshot`, attach, place; wait for a stable pose not before a stamp |
| Box localizer node, box profile registry | the profile catalog and its version, in two nodes | reload, select |
| `DualArmMotionPlanner`, Cartesian and closed-chain planners, planning budget | candidate search under a deadline; a segment cache | plan\*; slices of a budget |
| Locomanipulation posture controller | active target, feedback window | request, publish, deactivate |
| Camera preprocessing, dummy detectors, trace logger, scripts, launch, messages, patches | none that other parts depend on | |

### 1.2 How they interact

- Goal callbacks, services, cancel callbacks and subscriptions run on a multi-threaded
  executor. Each accepted goal gets a worker thread of its own. One *operation* (task,
  recovery, profile reload) at a time holds `busy_`; a *reset* goal may be accepted while
  an operation runs. Its goal callback raises the latch and asks the trajectory executor
  to stop; its worker waits for `busy_` under `reset_preemption_timeout`.
- A worker runs its task as a list of *phases*. `PhaseRetryController::run` tries a phase a
  bounded number of times before a deadline, then pauses until the Continue service or a
  cancel. Its `canceled` predicate reads the goal handle and the reset latch, so the
  coordinator, the controller and the executor are coupled through atomics only.
- Some attempts plan, some execute a trajectory (`TrajectoryExecutor`), and two dispatch a
  request to the attachment service of the simulator, which may be served late and which
  cannot be taken back.
- After each decisive step the worker calls `setState`: look at the latch, store `state_`,
  write the file. Three threads (operation worker, recovery service, reset worker) do so
  without a lock across the three.
- All phases of a task see one *detection snapshot*: boxes and tables acquired after the
  goal, retained by the planning scene manager. A Continue acquires a new one, whose
  *revision* tells the users of the old one to look again.
- A plan_only request searches a complete path and stores it; a later goal names it and
  executes it step by step, each step a phase.
- The planners are nested by callbacks: a grasp is accepted only with a carry, a carry only
  with a placement, a placement only with a return, each under its share of the time.
- After a restart the file is all that is left; the box is still where it was.

### 1.3 What is hard

Interleavings of atomics without a lock (coordinator, `setState`, feedback generation); a
stop that must meet the worker wherever it stands; retries and Continues around physical
requests that must not be repeated; answers later than their timeout; a reset that fails,
is canceled, and is retried; a crash between a physical effect and its record; pauses
without a limit that a cancel must end. `PROJECT.json` lists each of these hazards at its
line, with the properties that cover it or the reason why none does.

### 1.4 What makes each component correct

| Component | Correct when |
|---|---|
| `ResetCoordinator` | never two inside; the latch falls only inside a reset that is alone; a reset is decided; nobody gets in over the latch |
| `PhaseRetryController` | no physical request is repeated; a pause is answered once, by its own Continue, and the answer is not lost; a cancel ends the task |
| `TrajectoryExecutor` | one trajectory at a time; a plan is made at rest; success means settled on fresh samples; a stop ends the motion |
| Manipulation state, store, attachment | EMPTY means no box on the arms, now and after a restart; a task's result is honest; the latch falls over an empty robot; the latched server says RECOVERY_REQUIRED |
| Detection scene | every planner sees the accepted snapshot; nothing required in it is older than the request; no acquisition touches the box that is held or placed |
| Release and return | no release without a check of the arms and the scene of now; the accepted pose stays; each stage is earned once |
| Saved plans | a plan is executed at most once; each step starts where the robot is, on the scene last accepted; attach and release happen once |
| Profile reload | catalog and held box agree in both nodes, whatever answer is lost |
| Posture | no target is published while a reset moves the arms |
| Budgets and search | what is accepted fits together and was validated together; one candidate leaves the others their time; the search ends |

## 2. The modules

| Module | Models |
|---|---|
| `OperationGate` | the abstract gate: at most one client inside |
| `ResetCoordinator` | `ResetCoordinator`, one step per atomic access |
| `PhaseRetry` | `PhaseRetryController` with a worker, the Continue service, cancels, the latch and `prepareContinueScene` |
| `TrajectoryExecutor` | `TrajectoryExecutor` with a worker, one stopping thread, the feedback callback and the controller |
| `ManipulationServer` | state, file, tasks, recovery and reset against the box, with restarts |
| `PlaceRelease` | `runPlace` from the transport to the end of the return: `ReleaseCheckpoint`, `PostPlaceProgress` |
| `OneShotPlans` | the abstract promise of a saved plan: a number good for one use |
| `SavedPlans` | `SavedPlanStore`, plan_only requests, `executeSavedPlan` with its replanned remainders |
| `PlanningBudget` | `planning_budget.cpp` and `ScopedPlanningDeadline` as operators over integers |
| `MotionSearch` | the nested searches of `DualArmMotionPlanner` and `planCompletePath` against the clock |
| `DetectionScene` | the snapshot of a task, the trackers it is made from, `PlanningSceneManager`, `prepareContinueScene` |
| `*_proofs` | the theorems about `ResetCoordinator`, `PhaseRetry`, `TrajectoryExecutor`, `ManipulationServer`, `PlaceRelease`, `SavedPlans`, `DetectionScene`, `MotionSearch` (section 5) |
| `MC*` | the instances TLC checks |

Operators whose comment begins with *Fault:* are plausible bugs of the operator after
them. No action uses them; substituting one must break a property, which is how the
properties were tried out (`mutants` in `PROJECT.json`).

### 2.1 `ResetCoordinator`

Every load, store, exchange and compare-and-swap of the five functions is an action;
`opc[t]` and `rpc[r]` say which one a thread does next. `CheckRequested` ... `BackOut` are
`reserveOperation`, in the order of the source: two loads, the compare-and-swap, the two
loads again, and the release when one of them refuses. `RequestReset` and `Latch` are the
two stores of `requestReset`. `Wake` and `WaitExpires` are the two ways `wait_for` ends;
both are needed, because `releaseOperation` notifies without the mutex and a wake-up may be
lost. `CheckCancel`, `CheckBusy`, `Take`, `Own` are the rest of `waitForResetAccess`, and
`ClearLatch`, `DropOwner`, `ReleaseReset`, `ClearPending` are `finishReset`. A reset may be
canceled at any time. `FinishReset(r, TRUE)` needs a goal that is not being canceled at
that point, as in `executeReset`. Memory is sequentially consistent: the atomics use the
default ordering.

The guard of `requestReset` is a compare-and-swap on `reset_pending_` in the code, so
`RequestReset` sets it and tests it in one step.

### 2.2 `PhaseRetry`

A task is `Phases` phases, those in `Physical` dispatch a request. The worker's `wpc`
follows `run`: `cycle` (the outer `while`), `loop` (the `for`), `prepare`
(`prepareContinueScene`), `body`, `outcome` (the request is out), `failed`, `decide`, the
pause in three steps (`paused` decided under the mutex, `shown` published, `waiting` in the
wait loop), and the task's end. A critical section and the publish that follows it are one
step, except the publish of the pause, after which the operator may answer before the
worker takes the mutex again.

The clock is `Expire`: the deadline passes at any moment of a cycle. The Continue service is
two steps, `ReceiveContinue` (it looks at the latch) and `AcceptContinue` or
`RefuseContinue` (under the mutex). A request may name any pause ever shown, any number of
times, so replayed and late requests are there, also those of an earlier task. Three
actions stand for all: `pick` (with and without `plan_only`), `move_carry_pose`, which keeps
its scene, and `reset`, which its own latch does not cancel. `resumes`, `effects`, `late`
and `accepted` are history for the properties.

### 2.3 `TrajectoryExecutor`

The worker's `wpc` follows `execute` (`planned`, `admission`, `handle`, `cancel_now`,
`result`) and `waitForSettled` (`baseline`, `settle`, `copy`, `success`). Sections under
`transition_mutex_` are one step; the flag of a stop, its look at `active_goal_`, and the
requests it sends are three. Cancel requests and the stop event are messages that arrive
later: the goal may have ended, or the next task begun, when they do. The feedback callback
stores a sample (`StoreFeedback`) and counts it (`CountFeedback`) in two steps, as the
source does; a sample is within tolerance or not, and was received after its motion ended
or not. The stop may come from a task that is over by then, since the gate is released
before the goal's result is sent.

### 2.4 `ManipulationServer`

The phases of a task are steps that succeed at some time, fail, or are left for a cancel;
`opc` names the phase. What the module keeps in full is every `setState`, every change of
`expected()`, `disposition` and `reset_physical_detach_done_`, and every request to the
attachment service. `setState` itself is three steps (`CheckLatch`, `StoreState`,
`PersistState`) that interleave with the other threads; the write may fail, which the code
logs. `Serve` is the simulator: requests are served in order, with or without success, and
the answer may be lost. A caller that waited two seconds leaves its request behind.
`Restart` may come at any point; `RestartState` is what `initializeState` then reads.

The gate's operations are one step each here. That is what `RefinesGate` justifies:
the atomics of `ResetCoordinator` behave as a gate that opens and closes in one step.
`RefinesGate` says nothing about the latch: `StartOperation` is refused while the latch is
up, so the admission over a raised latch of finding 1 is not among the behaviours here.

What the environment is assumed to do, and what is therefore not shown:

- the operator tells the truth: CONFIRM_EMPTY and the confirmation of a reset are given
  when the arms are empty or, for a reset, when the server knows of the box or its attach
  is under way; CONFIRM_HOLDING is given when the box hangs;
- `simulate_attachment` is on; `plan_only` requests and saved plans are in `SavedPlans`;
- `lapses` records three things the server cannot know of: a crash between an attachment
  and its record, a confirmation while an attach that timed out is still queued, and a
  write that failed. The properties about the box are claimed for histories without a
  lapse; operations and resets begin only before one, which bounds the state space.

### 2.5 `PlaceRelease`

One Place, from its first plan to the last stage of the return. `pc` names the running
phase (`place`, `release`, `release_scene`, `stage`) and, within an attempt, the next
check. `ContinueScene` (a new scene, between attempts), `EndTask` (a cancel) and
`AttemptFails` (feedback, scene, deadline) may come wherever the code looks.

- `PlanPlace`, `Move` and their failures are `place_attempt`, shared by the place phase and
  by `correct_release`. `Retarget` is the block under `place_scene_revision`: a new scene
  gives a tag-derived target anew while `place_scope` is ADAPTIVE, that is, until one was
  reached. A search may settle beside the target (`Beside`).
- `Refresh`, `Check`, `CheckFails` are `ReleaseCheckpoint::validate` with its flag
  `correctionPending`; `Move` clears it before the fresh check of the corrected pose, as
  `correct` does in the source.
- `Replan`, `ValidateSegment`, `ExecuteSegment`, `AdvanceStage` are `PostPlaceProgress` and
  the loop around it. The retreat planned together with the placement is offered once.

The configuration (`p2p`, `tagDerived`, `hasPrepare`, `preflight`) is chosen in `Init`. The
geometry is a place: `arms` is where the last motion left the hands, exactly at a pose, near
it but out of the contact tolerance, or astray. The final state changes are in
`ManipulationServer`.

### 2.6 `SavedPlans` over `OneShotPlans`

`plans` is the store. `PlanOnly` may store a plan, replacing one of the same action; every
physical goal without `plan_id`, recovery, posture command, profile reload and reset
(`NormalGoal`, `RecoverState`, `Reset`) drops all. `Claim` drops all as well, and then the
checks of `executeSavedPlan` may still reject the plan claimed.

An execution loops over the steps of its plan. `Loop` looks at the pick target again;
`StepChecked` compares start, grip and, for attach and release, contact with the measured
state; `StepDeferred` finds that the scene or the target is a new one and that the
remainder has to be replanned; `Rebuild` does so (`RemainingPick`, `HeldSteps`,
`RemainingReturn`) and enters the new plan at its first step. `Continue` and `AcquireScene`
are the new scene between attempts. In the world, `MoveBox`, `MoveTable` and `Drift` happen
in between.

A step is its name, kind, grip and the places it leads from and to. Left out: adaptive place
offsets and closed-chain clearance segments, table profile and version fields (`Claim` may
reject for them), and the CONTINUOUS alignment of `prepareSavedMotion`, which the server
never asks for.

`CheckpointFits` asks that the return follows a release in every plan; the server skips that
check when `place_release_preflight_enabled` is off (`server:2339`). No property rests on it.

`OneShotPlans` is the client's view: the number of a plan is good for one use, and only
while nothing else moved the robot since. `OneShot` is the refinement.

### 2.7 `PlanningBudget` and `MotionSearch`

`PlanningBudget` has the shares `planning_budget.cpp` computes, in whole ticks, and the stack
of deadlines `ScopedPlanningDeadline` keeps. `MotionSearch` is the thread that uses them.
Every action that computes lets the clock run by a member of `Durations`, and looks at the
clock where the code does: before a step, not in it, so that steps end late.

- `NominalFast` ... `AcceptAttempt` are `planPickPath`: candidates collected tier by tier
  under `GraspTime`, one attempt each, then retries of those that only failed to be reached.
- `StartSearch` ... `SweepEnds` are `planAdaptiveCarryToPose` and `planAdaptivePlace`: a fast
  path in a scope of its own, a precheck, a sweep of pairs of route and endpoint.
- `BeginRoute` ... `RouteRejected` are `buildCarryRoute`, `buildPlaceRoute` and
  `appendPoseToPoseObjectPath`, with the virtual attachment of the box (`scene`: where MoveIt
  has it, and the pose in `retained_objects_`). Each call to MoveIt may fail with or without
  its effect (`EndFailures`): the box may stay attached, be in the world at the hands because
  it was detached and its restore refused, or be put back without the retained pose following.
  An exception skips `endVirtualAttachment` (`RouteThrows`).
- `AcceptCarry`, `StartReturn` ... `AcceptPlace` are the continuations of `planCompletePath` and
  `postPlaceContinuation`. `built` is what they capture by reference from attempts that
  may fail later; `path` is what is returned.

Observed while translating, and part of the model: the carry's fast path may use the whole
search budget (DualArmMotionPlanner, line 1899 and its comment), and so may the nominal
candidate of a pick; a carry route is accepted without another look at its own deadline,
which the attempt's deadline catches; segments of a pose-to-pose route carry
`validated_timing`, so the check of the whole carry spline (lines 1698, 1778) is run by
place routes only; a box left attached makes all later routes of the search fail, because
`beginVirtualAttachment` looks for the world box first; a box left in the world at the hands
does not: it is found there, its displaced pose saved, the route planned, and the box put back
to that pose, which is then the retained one as well (`planning_scene_manager.cpp:977`). So a
grasp may be planned, and a path accepted, with the box away from where it was observed,
although planning retries are to retain the poses of objects (the package's README, line 1290);
`AcceptedPathHolds` says what holds in spite of that. Restoring the retained object, and not
what MoveIt has when the route begins, would keep the pose.

Left out: the numerics, the trajectory caches of `runPick`, `buildCarryTransitionRoute`
(move_carry), and the contents of the segment cache, which lives as long as a search and
whose hits are validated again (`CachedSegment`).

### 2.8 `DetectionScene`

Tasks of all kinds run through their phases; `pc` says where an attempt stands. Time is
counted in requests: an observation carries the number of requests (the goal, then every
Continue) before its stamp. A tracker may return any observation after the stamp it is
asked for, or none; an optional table also an older one (`TableReading`).

- `ContinueScene`, `ContinueSceneFails`, `NoScenePending`, `NothingSelected` are
  `prepareContinueScene`. Its failures may come after MoveIt changed; its rollback restores
  tables and `captured`, but neither the request stamp nor MoveIt. This is harmless, as the
  stamp stays and the next attempt acquires again: `SceneIsSnapshot` holds.
- `SelectAndCapture`, `TakeScene`, `ResolvePlacement`, `ClearScene` are the first acquisition,
  and `CaptureScene` is `updateVisibleBoxScene`: a snapshot counts once it is retained.
- `UpdateScene`, `Replaced`, `Kept`, `View`, `ApplyBox`, `AttachBox`, `PlaceBox` are
  `PlanningSceneManager`: `live` and `attached` are MoveIt's, `retained` the copy that
  `snapshot` shows to planners instead. Requests may be applied and not confirmed.
- `PickedBox`, `BoxMoved`, `PlanPlace`, `Carried` are the users of a snapshot: `behind` holds
  those that did not yet compare revisions.

A stable table pose is a mean whose stamp is the last sample's; earlier samples may predate
the request, which the model does not tell apart. Left out: saved execution (in `SavedPlans`),
`recoverState`'s scene calls, profiles, `visible_boxes_as_obstacles` = false, objects other
programs put into the scene, and operations of the manager that no phase calls.

A text of the repository that the code does not follow: README.md:1281 and
`object_retention_validation.md` say that optional boxes and tables with only pre-request
observations are excluded; `collectOptionalTablePose` (`server:967`) takes a table that was
seen before the request if its observation is still fresh, and its own comment says so.
`ScenePostdatesRequest` therefore claims boxes and required tables only.

## 3. Runs

| Run | Configuration | Checks | Result |
|---|---|---|---|
| `reset_coordinator` | `MCResetCoordinator.cfg` | `TypeOK`, `Exclusive`, `ImplementsGate`, `LatchFallsInsideReset`, `ResetIsDecided` | holds, 11,619 states |
| `reset_latch` | `MCResetCoordinatorLatch.cfg` | `FailedResetKeepsOperationsOut` | violated (finding 1) |
| `phase_retry` | `MCPhaseRetry.cfg` | `TypeOK`, `NeverRedispatched`, `CyclesNeedContinue`, `CancelStopsRetries`, `ResumesOnFreshScene`, `OneContinuePerPause`, `AnsweredPauseEnds`, `CancelEndsTask` | holds, about 250,000 states |
| `phase_retry_reset_continue` | `MCPhaseRetryResetContinue.cfg` | `ContinueReachesAcquisition` | violated (finding 2) |
| `trajectory_executor` | `MCTrajectoryExecutor.cfg` | `TypeOK`, `PlansAtRest`, `SuccessIsSettled`, `StopEndsMotion`, `ShutdownEndsMotion` | holds, 412,679 states |
| `settled_samples` | `MCTrajectoryExecutorFresh.cfg` | `SettledSamplesAreFresh` | violated (finding 3) |
| `manipulation_server` | `MCManipulationServer.cfg` | `TypeOK`, `EmptyIsEmpty`, `ReportIsHonest`, `LatchFallsEmpty`, `StopsWhenTold` | holds, 401,068 states |
| `latched_means_locked` | `MCManipulationServerLatched.cfg` | `LatchedMeansLocked` | violated (finding 4) |
| `place_release` | `MCPlaceRelease.cfg` | `TypeOK`, `StagesAreEarned`, `ReleaseIsChecked`, `AcceptedPoseIsKept`, `SegmentsFitScene` | holds, 153,572 states |
| `saved_plans` | `MCSavedPlans.cfg` | `TypeOK`, `WorkDoneOnce`, `OneShot`, `StepsFitWorld` | holds, 556,588 states |
| `motion_search` | `MCMotionSearch.cfg` | `TypeOK`, `AcceptedPathHolds`, `OthersKeepTime`, `SearchEnds` | holds, 704,685 states |
| `detection_scene` | `MCDetectionScene.cfg` | `TypeOK`, `SceneIsSnapshot`, `ScenePostdatesRequest`, `TaskBoxUndisturbed` | holds, 341,064 states |

### 3.1 What they show

- **`reset_coordinator`**: never two inside the gate, whatever the order of the atomic
  accesses (`Exclusive`); the atomics implement `OperationGate` (`ImplementsGate`); a latch
  falls only in the step of a reset that owns the gate alone (`LatchFallsInsideReset`); a
  requested reset gets the gate or gives up (`ResetIsDecided`), even if its wake-up is lost.
- **`phase_retry`**: a physical request goes out at most once per phase and task; rounds of
  attempts beyond the first need a Continue each; Continues answer the pause they name, once,
  are not lost, and the attempts after them run on a scene acquired for them; a cancel or a
  latch ends the task from anywhere, and at most one attempt begins after it.
- **`trajectory_executor`**: no plan is made and no trajectory sent while another one may
  still move the arms; `execute` succeeds only for a completed goal and an unbroken run of
  settled samples, at least one of them received since; a stop, wherever it meets the worker,
  ends the motion; the destructor's stop ends any motion whose admission the worker saw.
- **`manipulation_server`**: an idle server that says EMPTY, or would after a restart, has no
  box on its arms; a result that says no object is held is true; the latch falls only over an
  empty robot; a task that is told to stop leaves the gate.

- **`place_release`**: the box is let go only after a check of the arms as they are now on the
  scene of now (`ReleaseIsChecked`): no correction, failed motion or Continue slips between; a
  pose once reached stays the goal of corrections, scene and retreat (`AcceptedPoseIsKept`);
  stages are left in order and with their motion done (`StagesAreEarned`); return motions fit
  the arms and the last scene (`SegmentsFitScene`).
- **`saved_plans`**: the store implements `OneShotPlans` (`OneShot`); what is dispatched starts
  where the arms are, with the grip and on the scene it was planned for (`StepsFitWorld`); an
  execution does its milestones once and in order, however often it was replanned, and
  reports success only with all of them (`WorkDoneOnce`).
- **`motion_search`**: the path returned is one path, though its pieces were captured from
  attempts of which some failed; its carry and placement were checked with the box attached,
  its grasp with the box in the world, and it is accepted only with the box in the world where
  MoveIt and the retained objects agree, whatever restores were refused before
  (`AcceptedPathHolds`); the fast path and the return of one endpoint leave the others their
  share of the time, but for the steps already running (`OthersKeepTime`); a search ends even
  when the clock stands still (`SearchEnds`).
- **`detection_scene`**: whenever a task plans, planners see the accepted snapshot with the
  task's own box where the task has it (`SceneIsSnapshot`), with no box or required table from
  before the request (`ScenePostdatesRequest`); acquisitions leave a held or placed box alone
  (`TaskBoxUndisturbed`).

### 3.2 Bounds

| Instance | Bounds | Why they are enough |
|---|---|---|
| `MCResetCoordinator` | 2 operation threads, 2 reset goals | one operation may be caught in its rechecks while another holds the gate; the second reset follows a failed one. The proofs cover every number. |
| `MCPhaseRetry` | `Attempts` = 2, `Phases` = 2 (the second physical), `MaxTasks` = 2, `MaxPauses` = 2 answered | a retry and a last attempt; a phase after a phase; a request of the first task that reaches the second; an answer of the first pause that reaches the second. A third pause may be entered, not answered. |
| `MCTrajectoryExecutor` | `Settle` = 2, `MaxTasks` = 2, `MaxGoals` = 2 | a stop of one task that reaches the next; samples of one trajectory that the next one meets; one sample looked at twice settles two. The source's default is 3 samples. |
| `MCManipulationServer` | `MaxStarts` = 2, `MaxResets` = 2, `MaxCrashes` = 1 | pick, then place, confirm or pick anew; a reset that fails, then its retry; one restart anywhere. |
| `MCPlaceRelease` | `MaxRevision` = 2 | attempts are unbounded; one Continue before and one after the place is reached, in every split over place, release and return. |
| `MCSavedPlans` | `MaxSerial` = 2, `MaxMove` = 1, `MaxRevision` = 2, `HasPrepare` = TRUE | a second plan stored beside or over the first; a box or table that moved after planning; a scene and one after it in one execution. |
| `MCMotionSearch` | 2 grasps in 2 tiers, 1 carry and 2 place endpoints, 1 route of 1 segment, 2 return stages, 2 retreats; clock to 5, steps of 0 or 1 tick; the timeouts in the cfg | two of whatever competes for time: a second grasp, a second tier, a last and a not-last endpoint, a retry; a box left at the hands by one grasp and met by the next, or by the next route of the same. Every deadline falls in the middle of some search. |
| `MCDetectionScene` | 2 boxes (symmetric; no liveness), 2 tables, `Poses` = 2, `MaxContinues` = 1 | the task's box and another; a table required and one that is not; a pose and the one after it; scenes before and after a Continue whose acquisition may fail any number of times. |
| `MCManipulationServerLatched` | `MaxStarts` = 2, `MaxResets` = 1, `MaxCrashes` = 0 | the shortest counterexample needs one operation and one reset. |

`CHECK_DEADLOCK FALSE` is given where the bounds let the system stop (`PhaseRetry`,
`TrajectoryExecutor`, `ManipulationServer`, `PlaceRelease`, whose task ends).

### 3.3 Fairness

Fairness is stated only for what the code's threads, timeouts and timers guarantee.

- `ResetCoordinator`: weak fairness of a reset's own thread (`WaitStep`, `FinishStep`).
  None for operations (a paused task waits for its operator), for the reset motion, for a
  request, or for a cancel. The wait ends by its timeout, so `WaitExpires` is inside.
- `PhaseRetry`: weak fairness of the worker. Attempts end because planners, executor and
  service calls have a deadline. No fairness for Continue, cancel, or new tasks:
  `AnsweredPauseEnds` and `CancelEndsTask` start from an answer or a cancel that came.
- `TrajectoryExecutor`: the worker's polls (20 ms), the stopping thread, and the controller
  as far as it answers goals and acts on cancels and stop events. None for the end of a
  motion: only a stop ends it.
- `MotionSearch`: weak fairness of `Step`, the planning thread, which never waits for anybody.
  None for `Cancel`, and none for the clock: steps may take no time.
- `PlaceRelease`, `SavedPlans`, `DetectionScene`: none, safety only.
- `ManipulationServer`: the steps of the workers between phases, the return of a service
  call (answer or two seconds), a canceled phase, and the reset's own steps. None for a phase
  that is not canceled, for the service, or for the reset's motion unless it is canceled.

## 4. Findings

Each is a property some text of the repository states, with a run in which TLC violates
it. `PROJECT.json` quotes the lines.

1. **An operation is admitted over the latch** (`reset_coordinator.cpp:15`). The recheck
   reads the latch, then `reset_pending_`. A whole reset that is requested and fails between
   the two leaves the latch up and `reset_pending_` down, and the operation goes on. Reading
   them in the other order closes the window.
2. **A continued reset cannot make progress** (`server:1050`). The stop that the reset's own
   goal callback asked for is taken back only after the phase `reset_scene`. If that phase
   pauses and is continued, `waitUntilStopped` refuses every attempt.
3. **One sample counts twice** (`trajectory_executor.cpp:293`). Generation and sample are
   two reads and two writes; success may rest on fewer fresh samples than
   `execution_settle_samples`.
4. **The latched server says EMPTY or HOLDING** (`server:1565`). A `setState` that looked at
   the latch before a reset raised it stores its value after the reset stored
   RECOVERY_REQUIRED and gave up.

Findings 1 and 4 are races of a few instructions. What still holds in spite of them is what
the passing runs check: `Exclusive` is not touched by 1, and `EmptyIsEmpty` not by 4.

## 5. Proofs

Every theorem is for all values of the constants: any number of threads, attempts, pauses,
boxes, plans, restarts; the bounds of section 3.2 do not matter here. Each proof module has
the same plan: an inductive invariant `IInv`, a conjunction of named parts; one lemma per
action or group of actions (or, where the parts are many, per part) that says what a step
keeps; `Invariance`, which is `Spec => []IInv`; and the properties as its consequences.
TLC checked each `IInv` (and `RouteInv`, with and without a preparation) as an invariant of the
runs' instances before it was proved.

### 5.1 Assumptions

All are named `ASSUME`s of the modules, and TLC evaluates them in every run. They say that
bounds are natural numbers (where the code needs one attempt, phase or sample: not zero),
and three things more:

- `ClientsAssumption` (`ResetCoordinator`): operations and resets are different threads, and
  `NoClient` is neither.
- `SceneAssumption` (`DetectionScene`): `NoBox` is not a box, and no box has the name of a
  table. The code refuses a table profile whose collision id is, or starts like, that of a
  managed box (`table_profiles.hpp:108`, `pick_place_config.cpp:295`).
- `MotionSearchAssumption` (`MotionSearch`): there is a longest step. The code bounds each call
  that plans by its own timeout; `OthersKeepTime` counts the overrun in such steps.

### 5.2 Theorems

`Invariance` (`Spec => []IInv`) and `TypeCorrect` (`Spec => []TypeOK`) are there for every
module below. The others:

| Module | Theorem | States |
|---|---|---|
| `ResetCoordinator_proofs` | `ExclusiveAlways` | `[]Exclusive` |
| | `LatchFallsAlone` | `LatchFallsInsideReset` |
| | `RefinesGate` | `ImplementsGate`, the refinement of `OperationGate` |
| `ManipulationServer_proofs` | `EmptyIsEmptyAlways` | `[]EmptyIsEmpty` |
| | `ReportIsHonestAlways` | `[]ReportIsHonest` |
| | `LatchFallsEmptyAlways` | `LatchFallsEmpty` |
| `PhaseRetry_proofs` | `NeverRedispatchedAlways` | `[]NeverRedispatched` |
| | `CyclesNeedContinueAlways` | `[]CyclesNeedContinue` |
| | `CancelStopsRetriesAlways` | `[]CancelStopsRetries` |
| | `ResumesOnFreshSceneAlways` | `[]ResumesOnFreshScene` |
| | `OneContinueEach` | `OneContinuePerPause` |
| `TrajectoryExecutor_proofs` | `PlansAtRestAlways` | `[]PlansAtRest` |
| | `SuccessIsSettledAlways` | `[]SuccessIsSettled` |
| `PlaceRelease_proofs` | `StagesEarned` | `[]StagesAreEarned` |
| | `ReleaseChecked` | `ReleaseIsChecked` |
| | `AcceptedPoseKept` | `AcceptedPoseIsKept` |
| | `SegmentsFit` | `SegmentsFitScene` |
| `SavedPlans_proofs` | `StepsFit` | `StepsFitWorld` |
| | `WorkDoneOnceAlways` | `[]WorkDoneOnce` |
| | `OneShotAlways` | `OneShot`, the refinement of `OneShotPlans` |
| `DetectionScene_proofs` | `SceneIsSnapshotAlways` | `[]SceneIsSnapshot` |
| | `ScenePostdatesRequestAlways` | `[]ScenePostdatesRequest` |
| | `TaskBoxUndisturbedAlways` | `TaskBoxUndisturbed` |
| `MotionSearch_proofs` | `AcceptedPathHoldsAlways` | `[]AcceptedPathHolds` |
| | `OthersKeepTimeAlways` | `OthersKeepTime` |

### 5.3 The inductive invariants, and why they are needed

**`ResetCoordinator`.** `Exclusive` is not inductive. Whether a reset may clear `busy_` in
`finishReset` depends on `reset_owns_operation_`, one flag for all resets, so `Exclusive`
holds only because the flag is its own: `reset_pending_` is up exactly while one reset goal
is between its request and its end (`PendingIsServed`), the flag exactly while that goal has
`busy_` (`OwnsAgrees`), and what `waitForResetAccess` answered agrees with where the goal
stands (`AcquiredAgrees`). `BusyHasOwner` and `OneInside` are `Exclusive`, thread by thread.
`OpStepEffect` and `ResetStepEffect` summarise what a step may do to the gate: nothing, enter
an open gate, or leave it from inside; invariant and refinement follow from the summaries.
For the refinement, `GateOwnerOf` shows that `CHOOSE` picks the only client inside.

**`ManipulationServer`.** `EmptyIsEmpty` speaks of an idle server; between two `setState` steps
the record and the box disagree all the time. `BoxPossible` is a box on the arms or an attach
that is still queued in the service. `BoxIsKnown` says that such a box is recorded in state
and file, or that the running task is about to record it (`Recording`), or that the server
lost it in a restart and says so (`Lost`). `NoBoxLeft` says that nothing claims EMPTY while a
box is possible, `setState` calls on their way included. What makes both inductive is the
service: a call that is still waited for is the last one in its queue (`WaitingIsLast`), so an
answered detachment leaves no attach behind it (`DetachAnswered`). `GateHolder`, `LatchCovers`,
`JobsByPoint`, `KindByPoint`, `SuccessIsEmpty` tie gate, latch and calls to the program points.

**`PhaseRetry`.** The controller keeps no record of what it sent. No request is out when an
attempt begins (`DispatchedAtOutcome`), what was sent belongs to phases that are over or to
this one, which then knows it (`EffectsByPhase`), a new cycle has its Continue or ends at once
(`CyclesByPoint`), a pause that can still be answered was not (`AnswerableIsNew`,
`AnswerableAtPause`), and the stamp of an accepted Continue is waiting or is the scene
(`StampOrScene`).

**`TrajectoryExecutor`.** `OneInFlight`: only the last goal can move, and only while the worker
waits for it or the shutdown came. `SuccessIsSettled` needs `OldLooks`: of the settled samples
at most one is older than the end of the motion, because a second look needs a second count
(`LooksDue`) and so a sample stored since.

**`PlaceRelease`.** What each check hands on is known where it is used: the measured arms are the
arms (`MeasuredIsNow`), an accepted check is of them and of the scene of now (`CheckedIsNow`), a
correction aims at the accepted pose (`CorrectionKeepsPose`, `BoxAtPose`), the running plan is the
stage's own and of the scene of now (`PlanIsTheStages`, `ValidatedFits`).

**`SavedPlans`.** A plan that replanning has partly replaced still fits because of its shape:
each step is for the grip the one before it leaves (`Chained`, in `RunningPlanFits`). The lemmas
`MotionPart` ... `CompleteStepsFit` show this of every plan that can be stored, `RemainderFits` of
every rebuilt one. `AttachAhead`, `ReleasedReturns` and `PickIsSeen` say what is left of the plan,
and for which pick. The proof found an error of the model: the two conditions of `RemainingPick`
overlapped and `CASE` left the choice open; the source (`server:2012`) asks in order, and so does
the model now. For the refinement, ids are bounded by the serial (`IdsBounded`), so a dropped
number never comes back.

For `WorkDoneOnce` a second invariant stands on top of the first, `RouteInv` (theorem `RouteKept`).
It follows the log without induction over plans: every plan of an action, stored or rebuilt, is the
rest of one route of at most ten stages (`Finishes`), so the distance of the index from the plan's
end says at which stage the execution is, what the arms hold (`StageTellsWorld`) and which
milestones are done (`StageTellsLog`). `RemainderFinishes` says that a remainder is entered at a
stage with the same milestones behind it, `AdvanceRoute` that a finished step leads to the next
stage. A carry change is never replanned (`CarryNeverReplanned`); the remainder `HeldSteps` gives
would put the box down.

**`DetectionScene`.** A captured snapshot is what MoveIt shows, but for the task's own box,
whenever no Continue waits for its scene (`SnapshotShown`), and it was seen since the request
that counts (`SnapshotFresh`, `AutoSeen`). Where the box is follows from the phase
(`DispositionByPhase`, `StateByPhase`, `AttachedByPhase`, `PlacedShown`), and what Pick and Place
derived from the snapshot follows it unless they are marked behind (`TargetFollows`,
`PlacementFollows`). Which phase can follow which is read off the stage lists (`PickChain`,
`PlaceChain`, `StagesChain`); then one lemma says what each scene operation of
`PlanningSceneManager` does (`...Effect`), and one per action what it keeps (`...Keeps`).

**`MotionSearch`.** `AcceptedPathHolds` speaks of the end; on the way `built` holds pieces of
several attempts. Each point knows which of them are its own: the grasp is the candidate's
(`GraspHolds`), and was checked with the box attached only while it still is, so that no route
can begin; a placement continues the carry accepted for it (`CarryHolds`, `ReturnHolds`,
`PlaceHolds`); a route is planned with the box attached, and once it is put back MoveIt and the
retained objects agree, wherever that is (`RouteBox`). For `OthersKeepTime` the shares are
bounded first (`FastAttemptFacts`, `PlaceContinuationFacts`: a fifth, a half, of any remaining
time), then how late each point may be: a route one step after its limit while it plans, two
once the scene is put back (`RouteInTime`), a return one (`ReturnInTime`). `CartesianMotionInTime`,
`CallsInTime`, `EndpointPlansInTime` say it of the calls that plan. The proof found an error of
the model: `NextRetreat` let time pass although its time was up, so with more retreats than the
runs have a return overran by a step for each. The code asks before every stage
(`server:3027`), and so does the model now.

### 5.4 What is only model-checked, and why

- Liveness (`ResetIsDecided`, `AnsweredPauseEnds`, `CancelEndsTask`, `StopEndsMotion`,
  `ShutdownEndsMotion`, `StopsWhenTold`, `SearchEnds`): fairness and `ENABLED` are outside what
  TLAPS proves.
- The four properties of section 4, which the code violates.

## 6. What is left

Every invariant and action property of the passing runs, and both refinements, are proved; the
liveness properties stay with TLC (5.4). What no property covers yet are the hazards of
`PROJECT.json` that carry a note: they lie in parts that are not modelled (section 7), the
plan_only exception and the profile reload first.

## 7. What is not modelled, and why

- Profile reload across server and localizer, the box identity a recovery persists, two writers
  of one temporary file, posture commands against a reset, exceptions of plan_only requests:
  each is a hazard in `PROJECT.json` with the reason why no module carries it.
- Perception readiness: a clear and a wait under one mutex, seen here as one more call of a
  phase that may fail.
- Kinematics, collision checks, Cartesian and closed-chain interpolation, spline and joint
  arithmetic, reset verification: numerical geometry over reals, which neither tool handles.
  In the models they are attempts that succeed or fail.
- Image preprocessing, dummy detectors, trace logging, scripts, launch files, parameters,
  messages, patches: no state other parts depend on.
- YAML parsing and validation of profiles, error texts, log output.
- MoveIt, the controllers, the simulator's service and the operator are external: modelled
  by what the code lets them do.
- Weak memory: the modelled parts use mutexes and sequentially consistent atomics, except
  for the feedback generation, which is released after the sample is stored and acquired
  before it is read: the order the model gives the two.
