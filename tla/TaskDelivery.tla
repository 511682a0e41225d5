---------------------------- MODULE TaskDelivery ----------------------------
(***************************************************************************)
(* How the work of a mission's tasks reaches the project's main branch:    *)
(* the git worktree of each attempt (GitWorktreeManager), the lane of each *)
(* worker (WorkerRuntime), the reasoning of a task and its questions to    *)
(* teammates (WorkerExecutionEngine), the files it writes                  *)
(* (WorkspaceExecutionService), verification, commit and merge.            *)
(*                                                                         *)
(* Which task may start when is MissionExecution's matter; here a task may *)
(* start with a batch of tasks whose dependencies are completed.  How a    *)
(* reasoning request runs is ReasoningFlight's matter; here it takes the   *)
(* worker's execution slot, ends, and gives it back.  The plan's workspace *)
(* is a git repository (createProjectWorkspace() makes it one).            *)
(***************************************************************************)
EXTENDS Naturals, Sequences

CONSTANTS
  Tasks, Workers,
  WorkerOf,          \* task.assignedWorkerId
  Deps,              \* what a task depends on, directly and through others
  Suspends,          \* tasks whose verification runs npm scripts
  MaxTaskRetries,    \* MissionExecutionPolicy
  MaxQuestions,      \* at most 3 in the code
  None               \* no task, no worker

\* No other task of t's worker can be under way together with t.
Alone(t) ==
  \A s \in Tasks \ {t} : WorkerOf[s] = WorkerOf[t] => s \in Deps[t] \/ t \in Deps[s]

ASSUME DeliveryAssumption ==
  /\ WorkerOf \in [Tasks -> Workers]
  /\ Deps \in [Tasks -> SUBSET Tasks]
  /\ \A t \in Tasks : t \notin Deps[t] /\ \A d \in Deps[t] : Deps[d] \subseteq Deps[t]
  /\ \A t \in Suspends : t \in Tasks /\ Alone(t)
  /\ MaxTaskRetries \in Nat /\ MaxQuestions \in Nat
  /\ None \notin Tasks \cup Workers

VARIABLES
  pc,           \* what the coroutine of each task waits for
  attempt,      \* its local of that name
  lane,         \* the prompts chained on each WorkerRuntime's tail
  slot,         \* whose request is worker.activeExecution
  questions,    \* questions of a response that are not asked yet
  recipient,    \* who is asked
  answers,      \* the task has answers for its worker
  dir,          \* the directory worker-<id>: "absent", a worktree, or "plain"
  files,        \* the changes in it, those of its base included
  main,         \* the changes merged into the project's main branch
  stray,        \* tasks whose plain directory was committed on main
  displaced,    \* changes whose worktree was deleted before they were reported (history)
  verified      \* changes that passed verification (history)

execVars == <<lane, slot, questions, recipient, answers>>
gitVars == <<dir, files, main, stray, displaced, verified>>
vars == <<pc, attempt, execVars, gitVars>>

\* What attempt n of a task writes.
Changes == Tasks \X (1..MaxTaskRetries + 1)
Change(t) == <<t, attempt[t]>>

Settled == {"completed", "failed", "threw"}

\* In these phases the task continues before any other event is handled, a
\* process that ends, a timer that fires or a row that is written: what it
\* awaits is settled already.
Continuing(t) == pc[t] = "removing" \/ (pc[t] = "verifying" /\ t \notin Suspends)
EventLoopIdle == \A t \in Tasks : ~ Continuing(t)

AtWork(t) == pc[t] \notin {"waiting"} \cup Settled

Init ==
  /\ pc = [t \in Tasks |-> "waiting"]
  /\ attempt = [t \in Tasks |-> 0]
  /\ lane = [w \in Workers |-> <<>>]
  /\ slot = [w \in Workers |-> None]
  /\ questions = [t \in Tasks |-> 0]
  /\ recipient = [t \in Tasks |-> None]
  /\ answers = [t \in Tasks |-> FALSE]
  /\ dir = [w \in Workers |-> "absent"]
  /\ files = [w \in Workers |-> {}]
  /\ main = {}
  /\ stray = {}
  /\ displaced = {}
  /\ verified = {}

-----------------------------------------------------------------------------
(* GitWorktreeManager.                                                     *)

\* Variant: a directory that exists is used as it is.
ReuseWorktree(w) ==
  /\ dir' = [dir EXCEPT ![w] = "worktree"]
  /\ files' = [files EXCEPT ![w] = @ \cup main]

\* Variant: every worktree starts at the project's baseline.
CreateAtBaseline(w) ==
  /\ dir' = [dir EXCEPT ![w] = "worktree"]
  /\ files' = [files EXCEPT ![w] = {}]

\* createWorktree(): whatever is in the worker's directory is deleted, and so
\* is the worker's branch; a new branch starts at main.
CreateWorktree(w) ==
  /\ dir' = [dir EXCEPT ![w] = "worktree"]
  /\ files' = [files EXCEPT ![w] = main]

\* git failed after the directory and the branch were deleted.
CreationFails(w) ==
  /\ dir' = [dir EXCEPT ![w] = "absent"]
  /\ files' = [files EXCEPT ![w] = {}]

\* removeWorktree(): git does not remove a directory that is no worktree, and
\* its failure is ignored.
RemoveWorktree(w) ==
  IF dir[w] = "plain" THEN UNCHANGED <<dir, files>> ELSE CreationFails(w)

-----------------------------------------------------------------------------
(* The attempts of a task (executeMissionPlan).                            *)

AttemptsLeft(t) == attempt[t] <= MaxTaskRetries

\* The directory is taken from a task that has applied its plan and waits for
\* the row of its report.
Displace(w) ==
  displaced' = displaced \cup {Change(s) : s \in {s \in Tasks : WorkerOf[s] = w /\ pc[s] = "reporting"}}

\* A worktree is made and the prompt is enqueued in the worker's lane.
Attempt(t) ==
  /\ attempt' = [attempt EXCEPT ![t] = @ + 1]
  /\ Displace(WorkerOf[t])
  /\ \/ /\ CreateWorktree(WorkerOf[t])
        /\ lane' = [lane EXCEPT ![WorkerOf[t]] = Append(@, t)]
        /\ pc' = [pc EXCEPT ![t] = "queued"]
     \/ /\ CreationFails(WorkerOf[t])
        /\ pc' = [pc EXCEPT ![t] = "threw"]
        /\ UNCHANGED lane
  /\ UNCHANGED <<slot, questions, recipient, answers, main>>

\* The tasks of a batch start at once, when the batch before has settled.
Start(t) ==
  /\ pc[t] = "waiting" /\ EventLoopIdle
  /\ \A s \in Tasks : AtWork(s) => pc[s] \in {"queued", "reasoning"}
  /\ \A d \in Deps[t] : pc[d] = "completed"
  /\ Attempt(t) /\ UNCHANGED <<stray, verified>>

\* The retry delay is over; the worktree of a failed verification is removed
\* only now, which the next createWorktree() covers.
Wake(t) ==
  /\ pc[t] = "sleeping" /\ EventLoopIdle
  /\ Attempt(t) /\ UNCHANGED <<stray, verified>>

\* The execution failed.
RemoveAfterFailure(t) ==
  /\ pc[t] = "removing"
  /\ RemoveWorktree(WorkerOf[t])
  /\ pc' = [pc EXCEPT ![t] = IF AttemptsLeft(t) THEN "sleeping" ELSE "failed"]
  /\ UNCHANGED <<attempt, execVars, main, stray, displaced, verified>>

-----------------------------------------------------------------------------
(* One execution: WorkerRuntime.enqueue() and executeTask().               *)

\* Variant: a failed prompt breaks the chain of its lane.
LeaveLaneOnSuccess(t) ==
  lane' = IF pc'[t] = "verifying" THEN [lane EXCEPT ![WorkerOf[t]] = Tail(@)] ELSE lane

\* The promise of the prompt settles, the next one of the lane may begin.
LeaveLane(t) == lane' = [lane EXCEPT ![WorkerOf[t]] = Tail(@)]

\* The result of executeTask(), after which its locals are gone.
ExecutionEnds(t, outcome) ==
  /\ pc' = [pc EXCEPT ![t] = outcome]
  /\ LeaveLane(t)
  /\ questions' = [questions EXCEPT ![t] = 0]
  /\ recipient' = [recipient EXCEPT ![t] = None]
  /\ answers' = [answers EXCEPT ![t] = FALSE]
  /\ UNCHANGED <<attempt, main, stray, displaced, verified>>

\* It reports FAILED.
ExecutionFails(t) == ExecutionEnds(t, "removing")

\* Files are written, into a directory that is made if it is gone: all of
\* them, or some of them before a failure, or RESPONSE.md only, for a
\* response without code, which is reported as a failure too.
Write(t) ==
  LET w == WorkerOf[t] IN
  /\ dir' = [dir EXCEPT ![w] = IF @ = "absent" THEN "plain" ELSE @]
  /\ files' = [files EXCEPT ![w] = @ \cup {Change(t)}]

\* Once all are written the summary of the report is put into the shared
\* memory, a row that is awaited while the prompt keeps its lane.
ApplyPlan(t) ==
  \/ /\ Write(t)
     /\ pc' = [pc EXCEPT ![t] = "reporting"]
     /\ UNCHANGED <<attempt, lane, questions, recipient, answers, main, stray, displaced, verified>>
  \/ Write(t) /\ ExecutionFails(t)

\* The row is written, and executeTask() reports COMPLETED.
Reported(t) ==
  /\ pc[t] = "reporting" /\ EventLoopIdle
  /\ ExecutionEnds(t, "verifying") /\ UNCHANGED <<slot, dir, files>>

\* A row of the shared memory could not be read or written: the recent memory
\* of the prompt, a question, an answer, the summary of the report.
MemoryFails(t) ==
  /\ EventLoopIdle
  /\ \/ pc[t] = "queued" /\ Head(lane[WorkerOf[t]]) = t
     \/ pc[t] \in {"sending", "reporting"}
     \/ pc[t] = "asking" /\ answers[t]
  /\ ExecutionFails(t) /\ UNCHANGED <<slot, dir, files>>

\* The prompt at the head of its lane has read the recent memory: refused if
\* the worker's slot is taken, failed if its directory is gone, else a process
\* runs in that directory.
BeginExecution(t) ==
  LET w == WorkerOf[t] IN
  /\ pc[t] = "queued" /\ Head(lane[w]) = t /\ EventLoopIdle
  /\ IF slot[w] = None /\ dir[w] # "absent"
     THEN /\ slot' = [slot EXCEPT ![w] = t]
          /\ pc' = [pc EXCEPT ![t] = "reasoning"]
          /\ UNCHANGED <<attempt, lane, questions, recipient, answers, gitVars>>
     ELSE ExecutionFails(t) /\ UNCHANGED <<slot, dir, files>>

\* The provider failed or timed out, in the first or the second request.
ReasoningFails(t) ==
  /\ pc[t] \in {"reasoning", "continuing"} /\ EventLoopIdle
  /\ slot' = [slot EXCEPT ![WorkerOf[t]] = None]
  /\ ExecutionFails(t) /\ UNCHANGED <<dir, files>>

\* The provider answered, without questions or after their answers.
ReasoningReturns(t) ==
  /\ pc[t] \in {"reasoning", "continuing"} /\ EventLoopIdle
  /\ slot' = [slot EXCEPT ![WorkerOf[t]] = None]
  /\ ApplyPlan(t)

\* The first response asks n questions.
ReasoningAsks(t) ==
  /\ pc[t] = "reasoning" /\ EventLoopIdle
  /\ slot' = [slot EXCEPT ![WorkerOf[t]] = None]
  /\ \E n \in 1..MaxQuestions : questions' = [questions EXCEPT ![t] = n]
  /\ pc' = [pc EXCEPT ![t] = "asking"]
  /\ UNCHANGED <<attempt, lane, recipient, answers, gitVars>>

\* findBySkill(): an idle teammate before a busy one; there may be none with
\* the skill, then the question is dropped.
ChooseTeammate(t) ==
  /\ pc[t] = "asking" /\ questions[t] # 0
  /\ questions' = [questions EXCEPT ![t] = @ - 1]
  /\ \/ \E r \in Workers \ {WorkerOf[t]} :
          /\ slot[r] = None \/ \A q \in Workers \ {WorkerOf[t]} : slot[q] # None
          /\ recipient' = [recipient EXCEPT ![t] = r]
          /\ pc' = [pc EXCEPT ![t] = "sending"]
     \/ UNCHANGED <<recipient, pc>>
  /\ UNCHANGED <<attempt, lane, slot, answers, gitVars>>

\* The question is recorded, and put to the teammate outside of its lane; a
\* refusal counts as an answer ("No answer available").
AskTeammate(t) ==
  LET r == recipient[t] IN
  /\ pc[t] = "sending" /\ EventLoopIdle
  /\ IF slot[r] = None
     THEN /\ slot' = [slot EXCEPT ![r] = t]
          /\ pc' = [pc EXCEPT ![t] = "answering"]
          /\ UNCHANGED <<recipient, answers>>
     ELSE /\ pc' = [pc EXCEPT ![t] = "asking"]
          /\ recipient' = [recipient EXCEPT ![t] = None]
          /\ answers' = [answers EXCEPT ![t] = TRUE]
          /\ UNCHANGED slot
  /\ UNCHANGED <<attempt, lane, questions, gitVars>>

FreeTeammateSlot(t) == slot' = [slot EXCEPT ![recipient[t]] = None]

\* The teammate answered, or failed to.
TeammateAnswers(t) ==
  /\ pc[t] = "answering" /\ EventLoopIdle
  /\ FreeTeammateSlot(t)
  /\ pc' = [pc EXCEPT ![t] = "asking"]
  /\ recipient' = [recipient EXCEPT ![t] = None]
  /\ answers' = [answers EXCEPT ![t] = TRUE]
  /\ UNCHANGED <<attempt, lane, questions, gitVars>>

\* All questions are through: without an answer the first response is used,
\* else the worker is asked again, if nobody took its slot meanwhile.
ContinueAfterQuestions(t) ==
  LET w == WorkerOf[t] IN
  /\ pc[t] = "asking" /\ questions[t] = 0
  /\ CASE ~ answers[t] -> EventLoopIdle /\ ApplyPlan(t) /\ UNCHANGED slot
       [] answers[t] /\ (slot[w] # None \/ dir[w] = "absent") ->
            ExecutionFails(t) /\ UNCHANGED <<slot, dir, files>>
       [] OTHER ->
            /\ slot' = [slot EXCEPT ![w] = t]
            /\ pc' = [pc EXCEPT ![t] = "continuing"]
            /\ UNCHANGED <<attempt, lane, questions, recipient, answers, gitVars>>

-----------------------------------------------------------------------------
(* Verification, commit and merge.                                         *)

VerificationEvent(t) == pc[t] = "verifying" /\ (t \in Suspends => EventLoopIdle)

\* The delay comes before the removal of the worktree.
VerificationFails(t) ==
  /\ VerificationEvent(t)
  /\ IF AttemptsLeft(t)
     THEN pc' = [pc EXCEPT ![t] = "sleeping"] /\ UNCHANGED <<dir, files>>
     ELSE pc' = [pc EXCEPT ![t] = "failed"] /\ RemoveWorktree(WorkerOf[t])
  /\ UNCHANGED <<attempt, execVars, main, stray, displaced, verified>>

\* commitAndMerge(): all that is in the worktree is committed and merged.
TaskDelivered(t) ==
  /\ VerificationEvent(t) /\ dir[WorkerOf[t]] = "worktree"
  /\ verified' = verified \cup {Change(t)}
  /\ main' = main \cup files[WorkerOf[t]]
  /\ pc' = [pc EXCEPT ![t] = "completed"]
  /\ UNCHANGED <<attempt, execVars, dir, files, stray, displaced>>

\* git refused the merge, or the directory is gone; in a plain directory "git add" and "git commit" ran
\* in the project's own tree before the merge of the deleted branch failed.
MergeRefused(t) ==
  /\ VerificationEvent(t)
  /\ verified' = verified \cup {Change(t)}
  /\ stray' = IF dir[WorkerOf[t]] = "plain" THEN stray \cup {t} ELSE stray

\* Variant: the result of the merge is not looked at.
MergeFailureIgnored(t) ==
  /\ MergeRefused(t)
  /\ pc' = [pc EXCEPT ![t] = "completed"]
  /\ UNCHANGED <<attempt, execVars, dir, files, main, displaced>>

\* The task is tried again at once.
MergeFails(t) ==
  /\ MergeRefused(t)
  /\ IF AttemptsLeft(t)
     THEN Attempt(t)
     ELSE /\ RemoveWorktree(WorkerOf[t])
          /\ pc' = [pc EXCEPT ![t] = "failed"]
          /\ UNCHANGED <<attempt, execVars, main, displaced>>

-----------------------------------------------------------------------------
Execution(t) ==
  \/ BeginExecution(t)
  \/ ReasoningFails(t) \/ ReasoningReturns(t) \/ ReasoningAsks(t)
  \/ ChooseTeammate(t) \/ AskTeammate(t) \/ TeammateAnswers(t)
  \/ ContinueAfterQuestions(t)
  \/ Reported(t) \/ MemoryFails(t)

Step(t) ==
  \/ Start(t) \/ Wake(t) \/ RemoveAfterFailure(t)
  \/ Execution(t)
  \/ VerificationFails(t) \/ TaskDelivered(t) \/ MergeFails(t)

Next == \E t \in Tasks : Step(t)

Spec == Init /\ [][Next]_vars

\* Processes end or are killed by their timeouts, timers fire, and what is
\* awaited without suspension goes on.
FairSpec == Spec /\ \A t \in Tasks : WF_vars(Step(t))
-----------------------------------------------------------------------------
(* Properties.                                                             *)

TypeOK ==
  /\ pc \in [Tasks -> {"waiting", "queued", "reasoning", "asking", "sending", "answering",
                       "continuing", "reporting", "verifying", "removing", "sleeping"} \cup Settled]
  /\ attempt \in [Tasks -> 0..MaxTaskRetries + 1]
  /\ lane \in [Workers -> Seq(Tasks)]
  /\ slot \in [Workers -> Tasks \cup {None}]
  /\ questions \in [Tasks -> 0..MaxQuestions]
  /\ recipient \in [Tasks -> Workers \cup {None}]
  /\ answers \in [Tasks -> BOOLEAN]
  /\ dir \in [Workers -> {"absent", "worktree", "plain"}]
  /\ files \in [Workers -> SUBSET Changes]
  /\ main \subseteq Changes /\ stray \subseteq Tasks
  /\ displaced \subseteq Changes /\ verified \subseteq Changes

\* The worktree of t, which shares its worker, was replaced while t waited for
\* the row of its report: there was nothing to merge, which git calls a success.
Lost(t) == ~ Alone(t) /\ Change(t) \in displaced

\* What a task reported as completed is on the main branch, also when two
\* tasks of one worker delete each other's worktrees, unless one did so while
\* the other one's report was under way.
CompletedWorkIsMerged == \A t \in Tasks :
  pc[t] = "completed" => Change(t) \in main \/ Lost(t)

\* What the code says of it (ADR-0009): "success can only ever be reported
\* when it's real".
SuccessIsOnMain == \A t \in Tasks : pc[t] = "completed" => Change(t) \in main

\* Only verified work of a task reaches the main branch: no leftovers of a
\* failed attempt, no part of a plan that could not be written.
MergedWorkIsVerified == \A t \in Tasks, n \in 1..MaxTaskRetries + 1 :
  Alone(t) /\ <<t, n>> \in main => <<t, n>> \in verified

\* A task works in a worktree of its own, on top of all that it depends on
\* and that was merged, in every attempt.
BuildsOnDependencies == \A t \in Tasks :
  Alone(t) /\ AtWork(t) /\ pc[t] # "sleeping" =>
    /\ dir[WorkerOf[t]] = "worktree"
    /\ \A d \in Deps[t] : Change(d) \in files[WorkerOf[t]] \/ Lost(d)

\* A task that failed leaves neither a worktree nor a commit behind.
FailureLeavesNothing == \A t \in Tasks :
  Alone(t) /\ pc[t] = "failed" => dir[WorkerOf[t]] = "absent" /\ t \notin stray

\* A worker's slot is held for a request that is under way: by its own task,
\* or by the question of a teammate's task.
SlotsAreUsed == \A w \in Workers, t \in Tasks : slot[w] = t =>
  \/ WorkerOf[t] = w /\ pc[t] \in {"reasoning", "continuing"}
  \/ recipient[t] = w /\ pc[t] = "answering"

\* Every task that is started is completed or failed in the end.
TasksSettle == \A t \in Tasks : AtWork(t) ~> pc[t] \in Settled
=============================================================================
