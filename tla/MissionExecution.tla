-------------------------- MODULE MissionExecution --------------------------
(***************************************************************************)
(* One execution of a mission plan by MissionExecutionOrchestrator, with   *)
(* its ReadyTaskQueue and TaskScheduler, and the repairs that a rejected   *)
(* review starts (retryTaskAfterReview).                                   *)
(*                                                                         *)
(* executeMissionPlan() is a loop: pop a batch of ready tasks, run one     *)
(* coroutine per task, await them all (Promise.all), look again.  A task's *)
(* coroutine awaits the worker, the verification, the retry delay, the     *)
(* task repository and the message bus; cancelExecution(), repairs and the *)
(* other coroutines run in between.  Each stretch of code between two      *)
(* awaits is one action.                                                   *)
(***************************************************************************)
EXTENDS Naturals, Sequences, FiniteSets

CONSTANTS
  Tasks,                   \* plan.tasks
  Position,                \* the place of a task in plan.tasks
  Deps,                    \* task.dependencies
  Reviewed,                \* tasks with a QA task of another worker to review them
  MaxParallelWorkers,      \* MissionExecutionPolicy
  MaxTaskRetries,
  MaxReviewRepairAttempts,
  MaxRejections,           \* bound: rejections of one task's review
  Disturbances             \* which of AllDisturbances may happen

\* cancelExecution() is called; a review is rejected; a git command or the
\* message store fails with an exception.
AllDisturbances == {"cancel", "reject", "throw"}

ASSUME MissionAssumption ==
  /\ IsFiniteSet(Tasks)
  /\ Position \in [Tasks -> Nat]
  /\ \A s, t \in Tasks : Position[s] = Position[t] => s = t
  /\ Deps \in [Tasks -> SUBSET Tasks]
  /\ Reviewed \subseteq Tasks
  /\ MaxParallelWorkers \in Nat \ {0}
  /\ MaxTaskRetries \in Nat
  /\ MaxReviewRepairAttempts \in Nat /\ MaxRejections \in Nat
  /\ Disturbances \subseteq AllDisturbances

\* Where the coroutine of a task waits.
Phase == {"none", "starting", "executing", "verifying", "sleeping", "completing",
          "notifying", "failing", "done", "threw"}

\* In Phase "starting" .. "sleeping" the task is in state.runningTaskIds.
Working == {"starting", "executing", "verifying", "sleeping"}

VARIABLES
  mission,          \* where executeMissionPlan() is
  active,           \* the mission is in activeExecutions
  missionStatus,    \* state.status
  success,          \* MissionExecutionResult.success, once returned
  queue,            \* ReadyTaskQueue.queue
  status,           \* task.status
  pc, attempt,      \* the coroutine of each task, its local `attempt`
  batch,            \* the tasks the barrier waits for
  pendingTaskIds, runningTaskIds, completedTaskIds, failedTaskIds,
  completedSet,     \* the local of that name
  inReview,         \* tasks the review workflow has a record of
  rejections,       \* reviewRepairAttempts
  repair            \* what each retryTaskAfterReview() call of a task awaits

taskVars == <<status, pc, attempt, runningTaskIds>>
listVars == <<pendingTaskIds, completedTaskIds, failedTaskIds, completedSet>>
reviewVars == <<inReview, rejections, repair>>
missionVars == <<mission, active, missionStatus, success>>
vars == <<missionVars, taskVars, listVars, reviewVars, queue, batch>>

-----------------------------------------------------------------------------
(* ReadyTaskQueue.                                                         *)

\* The tasks of ts in the order of plan.tasks: a set of one sequence.
InPlanOrder(ts) ==
  {s \in [1..Cardinality(ts) -> ts] :
     \A i, j \in DOMAIN s : i < j => Position[s[i]] < Position[s[j]]}

Queued == {queue[i] : i \in 1..Len(queue)}

\* Variant: one completed dependency is enough.
AnyDependencyDone(t) == Deps[t] \cap completedSet # {}

\* dependencies.every((depId) => completedTaskIds.has(depId))
DependenciesDone(t) == Deps[t] \subseteq completedSet

Unlockable ==
  {t \in Tasks : status[t] \in {"BLOCKED", "PENDING"} /\ DependenciesDone(t)}

\* initializeFromPlan()
InitializeQueue ==
  \E s \in InPlanOrder({t \in Tasks : Deps[t] = {}}) :
    /\ queue' = s
    /\ status' = [t \in Tasks |-> IF Deps[t] = {} THEN "READY" ELSE "BLOCKED"]

\* unlockReadyTasks(); a task that is queued already is not queued again.
UnlockReadyTasks ==
  \E s \in InPlanOrder(Unlockable \ Queued) :
    /\ queue' = queue \o s
    /\ status' = [t \in Tasks |-> IF t \in Unlockable THEN "READY" ELSE status[t]]

-----------------------------------------------------------------------------
(* The loop of executeMissionPlan().                                       *)

Init ==
  /\ mission = "idle" /\ active = FALSE /\ missionStatus = "IDLE" /\ success = FALSE
  /\ queue = <<>> /\ batch = {}
  /\ status = [t \in Tasks |-> "PENDING"]
  /\ pc = [t \in Tasks |-> "none"]
  /\ attempt = [t \in Tasks |-> 0]
  /\ pendingTaskIds = Tasks
  /\ runningTaskIds = {} /\ completedTaskIds = {} /\ failedTaskIds = {}
  /\ completedSet = {}
  /\ inReview = {}
  /\ rejections = [t \in Tasks |-> 0]
  /\ repair = [t \in Tasks |-> [n \in 1..MaxRejections |-> "none"]]

\* Up to the await that records the plan's tasks.
ExecuteMissionPlan ==
  /\ mission = "idle"
  /\ mission' = "preparing"
  /\ active' = TRUE
  /\ missionStatus' = "EXECUTING"
  /\ UNCHANGED <<success, taskVars, listVars, reviewVars, queue, batch>>

PrepareQueue ==
  /\ mission = "preparing"
  /\ mission' = "looping"
  /\ InitializeQueue
  /\ UNCHANGED <<active, missionStatus, success, pc, attempt, runningTaskIds,
                 listVars, reviewVars, batch>>

\* Promise.all of the current batch has resolved: the loop looks again.
AtLoopTop == mission = "looping" /\ \A t \in batch : pc[t] = "done"

\* No task is ready and none is running.
NothingToDo == queue = <<>> /\ runningTaskIds = {}

\* Variant: without the break for a plan that cannot go on.
LoopContinuesForever == completedSet # Tasks /\ active

LoopContinues == completedSet # Tasks /\ active /\ ~NothingToDo

\* How many tasks are popped.
BatchSize ==
  IF Len(queue) < MaxParallelWorkers - Cardinality(runningTaskIds)
  THEN Len(queue) ELSE MaxParallelWorkers - Cardinality(runningTaskIds)

\* A batch is popped and its coroutines run to their first await.  (The poll
\* for a batch that is empty while tasks run cannot happen: the barrier has
\* waited for all of them: the theorem PollIsDead.)
RunBatch ==
  /\ AtLoopTop /\ LoopContinues
  /\ batch' = {queue[i] : i \in 1..BatchSize}
  /\ queue' = SubSeq(queue, BatchSize + 1, Len(queue))
  /\ pendingTaskIds' = pendingTaskIds \ batch'
  /\ runningTaskIds' = runningTaskIds \cup batch'
  /\ pc' = [t \in Tasks |-> IF t \in batch' THEN "starting" ELSE pc[t]]
  /\ UNCHANGED <<missionVars, status, attempt, completedTaskIds, failedTaskIds,
                 completedSet, reviewVars>>

\* Variant: success means that nothing failed.
EndMissionByFailures ==
  /\ AtLoopTop /\ ~LoopContinues
  /\ mission' = "returned"
  /\ active' = FALSE
  /\ success' = (failedTaskIds = {})
  /\ missionStatus' = IF failedTaskIds = {} THEN "COMPLETED" ELSE "FAILED"
  /\ UNCHANGED <<taskVars, listVars, reviewVars, queue, batch>>

\* The loop is left: the result is decided by the list of completed tasks.
\* state.status is overwritten, a CANCELLED one too.
EndMission ==
  /\ AtLoopTop /\ ~LoopContinues
  /\ mission' = "returned"
  /\ active' = FALSE
  /\ success' = (completedTaskIds = Tasks)
  /\ missionStatus' = IF completedTaskIds = Tasks THEN "COMPLETED" ELSE "FAILED"
  /\ UNCHANGED <<taskVars, listVars, reviewVars, queue, batch>>

\* A coroutine threw: Promise.all rejects at once and the mission returns
\* its error, while the other coroutines of the batch run on.
MissionThrows ==
  /\ mission = "looping"
  /\ \E t \in batch : pc[t] = "threw"
  /\ mission' = "threw"
  /\ active' = FALSE
  /\ missionStatus' = "FAILED"
  /\ UNCHANGED <<success, taskVars, listVars, reviewVars, queue, batch>>

\* cancelExecution(): noticed at the next turn of the loop.
CancelExecution ==
  /\ "cancel" \in Disturbances
  /\ active
  /\ active' = FALSE
  /\ missionStatus' = "CANCELLED"
  /\ UNCHANGED <<mission, success, taskVars, listVars, reviewVars, queue, batch>>

-----------------------------------------------------------------------------
(* The coroutine of a task.                                                *)

AttemptsLeft(t) == attempt[t] <= MaxTaskRetries

\* One more attempt: a worktree is made, the task goes to its worker.
Attempt(t) ==
  /\ attempt' = [attempt EXCEPT ![t] = @ + 1]
  /\ \/ /\ pc' = [pc EXCEPT ![t] = "executing"]
        /\ status' = [status EXCEPT ![t] = "RUNNING"]
     \/ /\ "throw" \in Disturbances       \* createTaskWorktree() failed
        /\ pc' = [pc EXCEPT ![t] = "threw"]
        /\ UNCHANGED status
  /\ UNCHANGED runningTaskIds

\* Variant: the failed task stays in runningTaskIds.
GiveUpStillRunning(t) ==
  /\ status' = [status EXCEPT ![t] = "FAILED"]
  /\ pc' = [pc EXCEPT ![t] = "failing"]
  /\ UNCHANGED <<runningTaskIds, attempt>>

\* No attempt is left.
GiveUp(t) ==
  /\ runningTaskIds' = runningTaskIds \ {t}
  /\ status' = [status EXCEPT ![t] = "FAILED"]
  /\ pc' = [pc EXCEPT ![t] = "failing"]
  /\ UNCHANGED attempt

\* The retry delay, if there is an attempt left.
SleepOrGiveUp(t) ==
  IF AttemptsLeft(t)
  THEN pc' = [pc EXCEPT ![t] = "sleeping"] /\ UNCHANGED <<status, attempt, runningTaskIds>>
  ELSE GiveUp(t)

TaskStep(t, from) ==
  /\ pc[t] = from
  /\ UNCHANGED <<missionVars, listVars, reviewVars, queue, batch>>

\* The status RUNNING was recorded, or the retry delay is over.
BeginAttempt(t) ==
  (TaskStep(t, "starting") \/ TaskStep(t, "sleeping")) /\ Attempt(t)

\* The worker reported COMPLETED: the result is verified.
TaskExecuted(t) ==
  /\ TaskStep(t, "executing")
  /\ pc' = [pc EXCEPT ![t] = "verifying"]
  /\ UNCHANGED <<status, attempt, runningTaskIds>>

TaskExecutionFails(t) == TaskStep(t, "executing") /\ SleepOrGiveUp(t)

VerificationFails(t) == TaskStep(t, "verifying") /\ SleepOrGiveUp(t)

\* Verified, but git could not merge the task's branch: tried again at once.
MergeFails(t) ==
  /\ TaskStep(t, "verifying")
  /\ IF AttemptsLeft(t) THEN Attempt(t) ELSE GiveUp(t)

\* Verified and merged.
TaskPasses(t) ==
  /\ TaskStep(t, "verifying")
  /\ runningTaskIds' = runningTaskIds \ {t}
  /\ status' = [status EXCEPT ![t] = "COMPLETED"]
  /\ pc' = [pc EXCEPT ![t] = "completing"]
  /\ UNCHANGED attempt

\* The COMPLETED status was recorded; the review and the messages to the
\* workers of dependent tasks go out, awaiting the message store.
RecordCompletion(t) ==
  /\ pc[t] = "completing"
  /\ completedTaskIds' = completedTaskIds \cup {t}
  /\ completedSet' = completedSet \cup {t}
  /\ inReview' = inReview \cup ({t} \cap Reviewed)
  /\ pc' = [pc EXCEPT ![t] = "notifying"]
  /\ UNCHANGED <<missionVars, status, attempt, runningTaskIds, pendingTaskIds,
                 failedTaskIds, rejections, repair, queue, batch>>

\* The message store failed: the dependent tasks are never unlocked by t.
NotificationThrows(t) ==
  /\ "throw" \in Disturbances
  /\ TaskStep(t, "notifying")
  /\ pc' = [pc EXCEPT ![t] = "threw"]
  /\ UNCHANGED <<status, attempt, runningTaskIds>>

UnlockDependents(t) ==
  /\ pc[t] = "notifying"
  /\ UnlockReadyTasks
  /\ pc' = [pc EXCEPT ![t] = "done"]
  /\ UNCHANGED <<missionVars, attempt, runningTaskIds, listVars, reviewVars, batch>>

\* The FAILED status was recorded.
RecordFailure(t) ==
  /\ pc[t] = "failing"
  /\ failedTaskIds' = failedTaskIds \cup {t}
  /\ pc' = [pc EXCEPT ![t] = "done"]
  /\ UNCHANGED <<missionVars, status, attempt, runningTaskIds, pendingTaskIds,
                 completedTaskIds, completedSet, reviewVars, queue, batch>>

-----------------------------------------------------------------------------
(* Repairs: retryTaskAfterReview(), called by CollaborationEngine for each *)
(* rejected review of this mission, whatever the mission does by then.     *)

RejectReview(t) ==
  /\ "reject" \in Disturbances
  /\ t \in inReview
  /\ rejections[t] < MaxRejections
  /\ rejections' = [rejections EXCEPT ![t] = @ + 1]
  /\ IF rejections[t] + 1 > MaxReviewRepairAttempts
     THEN /\ status' = [status EXCEPT ![t] = "FAILED"]
          /\ failedTaskIds' = failedTaskIds \cup {t}
          /\ UNCHANGED repair
     ELSE /\ status' = [status EXCEPT ![t] = "RUNNING"]
          /\ repair' = [repair EXCEPT ![t][rejections[t] + 1] = "executing"]
          /\ UNCHANGED failedTaskIds
  /\ UNCHANGED <<missionVars, pc, attempt, runningTaskIds, pendingTaskIds,
                 completedTaskIds, completedSet, inReview, queue, batch>>

\* Executed and verified, one way or the other.
RepairEnds(t, n, passed) ==
  /\ repair[t][n] = "executing"
  /\ status' = [status EXCEPT ![t] = IF passed THEN "COMPLETED" ELSE "FAILED"]
  /\ repair' = [repair EXCEPT ![t][n] = IF passed THEN "completing" ELSE "failing"]
  /\ UNCHANGED <<missionVars, pc, attempt, runningTaskIds, listVars, inReview,
                 rejections, queue, batch>>

\* The new status was recorded.
RecordRepair(t, n) ==
  /\ \/ /\ repair[t][n] = "completing"
        /\ completedTaskIds' = completedTaskIds \cup {t}
        /\ failedTaskIds' = failedTaskIds \ {t}
     \/ /\ repair[t][n] = "failing"
        /\ failedTaskIds' = failedTaskIds \cup {t}
        /\ UNCHANGED completedTaskIds
  /\ repair' = [repair EXCEPT ![t][n] = "done"]
  /\ UNCHANGED <<missionVars, taskVars, pendingTaskIds, completedSet, inReview,
                 rejections, queue, batch>>

-----------------------------------------------------------------------------
Loop == ExecuteMissionPlan \/ PrepareQueue \/ RunBatch \/ EndMission \/ MissionThrows

Coroutine(t) ==
  \/ BeginAttempt(t)
  \/ TaskExecuted(t) \/ TaskExecutionFails(t)
  \/ VerificationFails(t) \/ MergeFails(t) \/ TaskPasses(t)
  \/ RecordCompletion(t) \/ NotificationThrows(t) \/ UnlockDependents(t)
  \/ RecordFailure(t)

Repairing(t) ==
  \/ RejectReview(t)
  \/ \E n \in 1..MaxRejections :
       RecordRepair(t, n) \/ \E passed \in BOOLEAN : RepairEnds(t, n, passed)

Next ==
  \/ Loop \/ CancelExecution
  \/ \E t \in Tasks : Coroutine(t) \/ Repairing(t)

Spec == Init /\ [][Next]_vars

\* The event loop resumes what can be resumed; a worker's execution and the
\* steps of a verification have timeouts of their own.
FairSpec == Spec /\ WF_vars(Loop) /\ \A t \in Tasks : WF_vars(Coroutine(t))
-----------------------------------------------------------------------------
(* Properties.                                                             *)

TypeOK ==
  /\ mission \in {"idle", "preparing", "looping", "returned", "threw"}
  /\ active \in BOOLEAN /\ success \in BOOLEAN
  /\ missionStatus \in {"IDLE", "EXECUTING", "COMPLETED", "FAILED", "CANCELLED"}
  /\ queue \in Seq(Tasks)
  /\ status \in [Tasks -> {"PENDING", "READY", "BLOCKED", "RUNNING", "COMPLETED", "FAILED"}]
  /\ pc \in [Tasks -> Phase]
  /\ attempt \in [Tasks -> 0..MaxTaskRetries + 1]
  /\ batch \subseteq Tasks /\ pendingTaskIds \subseteq Tasks
  /\ runningTaskIds \subseteq Tasks /\ completedTaskIds \subseteq Tasks
  /\ failedTaskIds \subseteq Tasks /\ completedSet \subseteq Tasks
  /\ inReview \subseteq Tasks
  /\ rejections \in [Tasks -> 0..MaxRejections]
  /\ repair \in [Tasks -> [1..MaxRejections ->
                   {"none", "executing", "completing", "failing", "done"}]]

\* A task goes to its worker only after every dependency was executed,
\* verified and merged (ReadyTaskQueue), whatever fails or is repaired.
DependenciesFirst ==
  \A t \in Tasks : pc[t] # "none" =>
    \A d \in Deps[t] : d \in completedSet /\ pc[d] \in {"notifying", "done", "threw"}

\* The lists of the mission's state partition the tasks, but for those whose
\* outcome is being recorded (lines 113-114, 199, 209, 248), as long as no
\* review is rejected.
Recording == {t \in Tasks : pc[t] \in {"completing", "failing"}}
ListsPartitionTasks == (\A t \in Tasks : rejections[t] = 0) =>
  /\ pendingTaskIds \cup runningTaskIds \cup completedTaskIds \cup failedTaskIds
       = Tasks \ Recording
  /\ pendingTaskIds \cap (runningTaskIds \cup completedTaskIds \cup failedTaskIds) = {}
  /\ runningTaskIds \cap (completedTaskIds \cup failedTaskIds) = {}
  /\ completedTaskIds \cap failedTaskIds = {}

\* At most maxParallelWorkers coroutines are under way, also after an
\* exception or a cancellation.
UnderWay == {t \in Tasks : pc[t] \notin {"none", "done", "threw"}}
ParallelismBounded == Cardinality(UnderWay) <= MaxParallelWorkers

\* The barrier makes the poll at lines 106-109 dead code.
NothingRunsAtLoopTop == AtLoopTop => runningTaskIds = {}

\* Without exceptions a mission does not return while a task of it runs.
ReturnsAfterItsTasks == mission = "returned" => UnderWay = {}

\* Success is reported when every task has passed verification, and only then
\* (line 267), as long as no review was rejected after that.
SuccessIsReal == mission = "returned" /\ (\A t \in Tasks : rejections[t] = 0) =>
  (success <=> \A t \in Tasks : status[t] = "COMPLETED")

\* A mission that is not cancelled is not given up while a task could still
\* run: what was never started waits for a task that did not complete.
NothingRunnableLeft ==
  [][EndMission /\ active =>
       \A t \in Tasks : pc[t] = "none" => ~ Deps[t] \subseteq completedSet]_vars

\* Every execution ends.
MissionEnds == mission # "idle" ~> mission \in {"returned", "threw"}

\* The promise it implements.  A coroutine that threw gave its task up, and an
\* execution that threw starts nothing any more, like a cancelled one.
Graph == INSTANCE TaskGraphExecution WITH
  Admissible <- {ts \in SUBSET Tasks : Cardinality(ts) <= MaxParallelWorkers},
  waiting <- {t \in Tasks : pc[t] = "none"},
  underWay <- {t \in Tasks : pc[t] \in Working \cup {"completing", "failing"}},
  done <- completedSet,
  failed <- {t \in Tasks : pc[t] \in {"done", "threw"}} \ completedSet,
  cancelled <- mission \in {"preparing", "looping", "threw"} /\ ~active,
  over <- mission = "returned"
GraphExecution == Graph!Spec
=============================================================================
