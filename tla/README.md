# SE-OS in TLA+

This directory specifies the concurrent core of SE-OS, the local-first "AI
software company" in `src/src/`: TLA+ modules translated from the TypeScript
sources, TLC configurations that check them on small instances, and theorems
that TLAPS proves for every instance. `PROJECT.json` lists the components, the
runs, the source lines behind each definition, the hazards and the findings.

The program is one Node.js process. Nothing runs in parallel, but every `await`,
timer, process event and operator command is a point where something else may
run, and most components keep a map by worker, task or mission id that several
of these interleaved activities share. That is what the models are about: an
action is a stretch of code between two suspension points, and the interleaving
of actions is the event loop's freedom.

## 1. The system

### Parts, their state and their operations

| Part | Source (`src/src/v2` unless noted) | State | Operations |
| --- | --- | --- | --- |
| Worker supervision | `application/runtime/local_process_supervisor.ts`, `application/worker/worker_lifecycle_policy.ts`, `worker_store.ts`, `domain/employees/worker.ts`, `infrastructure/pty/pty_engine.ts` | Worker objects by id, child processes by id, crash times, quarantine set | spawn, stop, kill, restart, pause, resume, exit and error events, crash backoff, clear quarantine |
| Reasoning | `application/reasoning/reasoning_coordinator.ts`, `application/plugins/cli_runtime_plugin.ts`, `claude/claude_code_runtime_plugin.ts`, `cli_process_executor.ts` | open requests, each worker's execution slot, the CLI process tracked per worker | request, cancel a worker's request, settle on close, error or timeout |
| Mission execution | `application/missions/mission_execution_orchestrator.ts`, `ready_task_queue.ts`, `task_scheduler.ts` | mission states and plans, ready queue, task lists, repair counters | execute a plan, cancel it, repair a task after a rejected review |
| Task worktrees and lanes | `infrastructure/workspace/git_worktree_manager.ts`, `application/workspace/workspace_engine.ts`, `application/worker/worker_runtime.ts`, `application/missions/worker_dispatcher.ts` | worktree records, directories and branches by worker, one promise chain per worker | create, commit and merge, remove a worktree; enqueue an execution |
| Worker execution | `application/worker/worker_execution_engine.ts`, `workspace_execution_service.ts`, `execution_response_parser.ts`, `worker_message_protocol.ts` | a worker's execution: prompt, answer, question rounds, files written | execute a task, answer a teammate's question, write files |
| Verification and merge | `application/verification/*` | step results, merge queue | verify, merge, enqueue |
| Collaboration | `application/collaboration/*`, `company-bus` | reviews, task owners, in- and outboxes, edited files | send, delegate, request, approve and reject a review, detect conflicts |
| Missions | `application/missions/mission_engine.ts`, `mission_decomposer.ts`, `mission_planner.ts`, `task_graph.ts`, `task_assignment_engine.ts`, `application/organization` | missions, plans, task graph, worker load | create, decompose, plan, assign, complete, cancel |
| Project lifecycle | `application/project/*`, `ui/tui/tui_app.tsx` (chat) | active projects, project history in memory and in `project_history.json`, status rows | run, continue, save, load |
| Runtime plugins | `application/plugins/*` | plugin registry, health | register, initialise, select, unregister |
| Goal planning and policy | `application/planning`, `policy` | plans, two caches by the key of a title, decisions in shared memory, the profile | plan a mission, analyse, set the profile |
| Context, tokens, providers | `context-compiler`, `policy/token_budget_manager.ts`, `providers`, `scheduler` | context cache, token budgets, lists | compile, select |
| Storage | `infrastructure/storage/*`; v1: `src/src/infrastructure/storage/*` | event store, shared memory, workforce tables; v1's schema, migrations, rows | append, read, upsert; connect, migrate, transactions |
| Process guard, kernel | `infrastructure/resilience/process_guardian.ts`, `cli/bin.ts`, `kernel/kernel.ts` | installed, shutting down, three database handles, booted | boot, install handlers, shut down once |
| External programs | `application/plugins/cli_process_executor.ts`, `cli_runtime_plugin.ts`, `verification/steps/npm_script_runner.ts`; v1: `src/src/infrastructure/runtime/*` | a child's state, timers, the process table of a plugin | run, time out, cancel, kill a group |
| CLI and TUI | `cli`, `ui`, `telemetry` | none of their own | issue the commands above, show state |
| First generation (v1) | `main.ts`, `core/application/services/*`, `infrastructure/*` (under `src/src`) | a task's subtasks, the workspace, git, SQLite tables, read caches and an index of the workspace | parse arguments, plan, execute subtasks with retries, verify, commit, roll back, index |
| Dashboard, scripts, sample plugins | `src/dashboard`, `src/scripts`, `src/plugins` | none | display |

### How they interact

* A **mission** calls the dispatcher for each task of a batch; the dispatcher
  appends the execution to the *lane* (promise chain) of the task's worker; the
  lane calls the worker execution engine, which calls the reasoning coordinator,
  which calls a plugin, which runs a CLI process. The result travels back by
  promises. Mission, lane and coordinator are keyed by three different things:
  mission id, worker id, and the Worker *object*.
* The **supervisor** and the **lifecycle policy** talk by events: the exit handler
  of a child reports a failure, the policy sleeps and calls `restartWorker()`,
  which replaces the Worker object that a request in flight may still hold.
* A **rejected review** calls back into mission execution
  (`kernel.ts:118`), which executes the task again next to whatever else runs.
* **Kernel.shutdown()** pauses nothing: it stops every worker while requests,
  backoffs and missions are suspended, and those resume afterwards.

### What is hard, and what makes each part correct

| Part | Hard behaviour | Correct when |
| --- | --- | --- |
| Supervision | an exit event of an old process after a restart; a backoff that outlives the decision behind it; two crashes close together; signals to a stopped process | a removed worker stays removed; the breaker opens in time and then nothing restarts the worker by itself; every crash is answered |
| Reasoning | two requests that overlap in plugin selection; a killed process that closes after its successor began; a worker replaced under a request | one request per worker at a time; a slot belongs to a live request; every accepted request settles; history says what the caller was told |
| Mission execution | tasks of a batch finishing in any order; exceptions in one coroutine; a cancellation while suspended; repairs of completed tasks | dependencies first; every runnable task runs; the limit holds; the reported result is real; every mission ends |
| Task worktrees | two tasks of one worker in one batch share directory and branch | only verified work is merged, and a task's work is not lost to its sibling |
| Worker execution | questions between workers, failing half way through the files | a failed task leaves no trace, an answered question reaches its asker |
| Missions | a cancelled mission that goes on completing tasks | a final status is final |
| Project lifecycle | continuations that overlap; a failure after the answer; a restart between or during writes | a conversation keeps its turns and their order; what memory knows, the file knows; nothing is marked as running that is not |
| v1 pipeline | a subtask that fails after others were committed | what is committed is what was verified and reported |
| Process guard | a signal, a fatal error and the terminal's 'q' in one another's shutdowns, writes that open a closed database again | every worker is told, exit code 0 means a drain, every shutdown ends |
| External programs | a forked process that keeps the pipes, a timeout against a close, an abort in the turn of the start | one outcome, true of the program; nothing outlives its answer; every call is answered |
| Goal planning | calls that interleave over caches keyed by normalised titles; refused writes | a plan covers its goal and rests on decisions that are stored; its dependencies can be executed |
| Missions, graph, assignment | a staff that changes between two dealings; dependencies on oneself or on nobody | fair over the staff of the moment; refused exactly when it cannot be executed |
| Collaboration | records that fail or are written in another order | what anybody was told is on record |
| Plugins | replaced or unloaded while requests are selected and run | no process without an owner |
| v1 storage and knowledge | two first runs, a death at any statement; files that change between a look and a read | no row without its parents, no version without its tables; the index says what the files hold |

## 2. The plan

What the system is for comes first: tasks that end, on workers that are
supervised, with work that is verified before it is merged, and a process that
closes what it opened. The modules, in the order in which they were written:

1. `WorkerSupervision`, `ReasoningFlight`, `MissionExecution` (with the abstract
   `TaskGraphExecution`), `TaskDelivery`, `SubtaskPipeline`, `ProjectLifecycle`, each
   with its proofs.
2. `KernelLifecycle`: boot, shutdown, guardian, terminal and exit code; proofs.
3. `ChildRun`, the abstract life of an external program, implemented by `ProcessHandle`
   (v1) and by `CliExecution` (v2); proofs.
4. `GoalRules` and `GoalPlanning`: how a goal becomes a plan; proofs.
5. `MissionPlans`, `MissionDesk`, `TaskGraph`, `Collaboration`, `RuntimePlugins`: missions
   beside their execution, the staff, the messages, the plugins; proofs about the last
   four, and about the plans that `MissionPlans` makes of an estimate.
6. `SqliteStore` and `ProjectKnowledge` on top of it: v1's database, index and caches;
   proofs.
7. `TaskPlanner` and `TaskSession` around `SubtaskPipeline`: a run of v1's program from
   its arguments to its exit code.
8. `ProjectFiles` on top of `ProjectLifecycle`: what of the merged work arrives in the
   user's folder.

What is left, by weight:

* `TaskDelivery` shown to implement what `MissionExecution` assumes of a task (its
  executions end and succeed or fail), and its reasoning steps those of
  `ReasoningFlight`.
* The sessions of providers (`worker_execution_engine.ts:363-377`): the identifier is
  kept before the first call succeeds, so a retry resumes what may not exist.
* The appends of the event log and their versions; the fallback to memory.
* Health checks and automatic switching of plugins, once something calls them.
* Two missions at once over one staff; a second execution of one mission.

A module is used by proofs and runs alike: constants with named assumptions, one
action per operation or callback, no recursive operators. The theorems are in eight
modules: what serves a component is proved beside it, so the proofs, like the MC
modules, extend several components at once, and their operators have names of their own.
`Induction` has what several of them need: induction over data, and recursive functions
and folds.

## 3. What is modelled

### WorkerSupervision

One worker id over several *generations* of Worker object and child process.
`store` is `WorkerStore`, `children` the supervisor's process map, `process` what the
operating system knows of each process (external), `crashes`, `quarantined` and the
sleeping backoffs (`timers`) are `WorkerLifecyclePolicy`'s. Actions are the CLI's
commands (`StartWorker`, `StopWorker`, `OperatorRestart`, `PauseWorker`,
`ResumeWorker`), the policy's (`ClearQuarantine`), `Shutdown` and its completion,
a process's failure or end, the delivery of its exit event, the crash handling
and the end of a backoff sleep. `killed` is `ChildProcess.killed` as Node sets it:
true after any signal that was sent, SIGSTOP included.

### ReasoningFlight

Requests go through `idle`, `selecting` (the await of the plugin selection),
`executing` (the await of the plugin), `done`, `threw`, or `unlogged` when the line
between `beginExecution()` and the `try` could not be written. A Worker object is a pair
of id and generation; `captured` is the object a request holds, `current` the one
the store holds, and they differ after a restart. `slot` is each object's
`activeExecution`; `tracked` the plugin's process table, keyed by worker id.
The operator's commands, the crash policy's restart included, interleave freely.

### MissionExecution and TaskGraphExecution

`mission` is the position of `executeMissionPlan()`, `pc[t]` the await at which the
coroutine of task `t` is suspended, `batch` what the `Promise.all` barrier waits
for; `status`, the four id lists, `completedSet` and `queue` are the code's. The
queue is a FIFO sequence and simultaneous unlocks are appended in plan order
(`InPlanOrder`, a set of exactly one sequence). `attempt` counts as the code does.
`Disturbances` says what else may happen: `cancel` (cancelExecution()), `throw`
(createTaskWorktree() or the message store fails), `reject` (a review is rejected
and `retryTaskAfterReview()` runs, several repairs of one task at once included).
Worker, verification, git and message contents are abstracted to their outcome.

`TaskGraphExecution` is the promise: sets of startable tasks start, tasks complete
or fail, somebody may cancel, and the execution closes only when nothing is under
way and nothing can be started (or it was cancelled). The mapping (`Graph` in
`MissionExecution`) takes a task for done when it is in `completedSet` and for under
way from the start of its coroutine until its outcome is in the lists.

### TaskDelivery

How a task's work reaches the main branch. Each attempt makes a worktree in the
directory `worker-<id>`, which names the worker and not the task, so two tasks of one
worker share it: `dir`, `files` and the branch are the worker's. `lane` is the promise
chain of `WorkerRuntime`, `slot` the worker's execution slot, `pc[t]` the await of the
attempt: queued in the lane, reasoning, asking a teammate, sending or awaiting the
answer, writing the row of its report, verifying, sleeping before a retry. The rows of
the shared memory are written asynchronously, so other tasks move meanwhile, and
fail (`MemoryFails`); between the report and the merge nothing is suspended but npm scripts
(`EventLoopIdle`). A reply is applied as an
execution plan, as prose, or partly (a write fails in the middle). `main` is the set
of changes merged; a change is a task and an attempt, so that a leftover of a
failed attempt can be told from the work that was verified. `stray` remembers tasks
whose directory had become a plain directory when `git commit` ran in it.
`displaced` has the changes whose directory was deleted for another task while the row
of their report was under way: the merge of the new, empty branch succeeds.
`verified`, `stray` and `displaced` are history, read by properties only. `Alone(t)` says that no
other task of t's worker can be under way with t: the isolation properties are
claimed for those tasks, because the code does not have them for the others.

### SubtaskPipeline

`TaskExecutionService.executeTask()` of the first generation, one process wait per
step: building the context, the provider, verification, `git add`, `git commit`,
`git reset --hard`, `git clean -fd`. A file holds nothing, its original contents,
the work of an attempt `<<sub-task, attempt>>`, or what the user wrote (`UserEdits`,
at any time). `index` and `head` are git's. A response is a sequence of code blocks,
each with a file, a language that matches or not, and code or prose:
`AssociatedFile`, `Confidence` (in hundredths; the comparison is the one the
floating-point sum gives), `Valid` and `Patchable` decide as the parser, validator and
patch generator do, and only together they keep a response to its target. Git
commands fail at every point; the repository may be absent or without a commit.

### ProjectLifecycle

A goal runs a project (`RunProject`) or continues one (`ContinueProject`, a chat
turn). `prior[g]` is the state the call read when it began, `pc[g]` the await it is at:
`opening` (the first database write), `working` (the strategy, hours), `closing` (the
last write), `failing` (the catch block's). `active` and `projectHistory` are the maps
in memory, `stateFile` is `project_history.json`, `db` the status column. A state is its
status, its turns (goals in the order of `conversationHistory`) and whether it knows
its workspace. Database writes are dropped nondeterministically, a write of the file
that fails is ignored (`PersistHistory`: the file stays as it was, or does not parse),
the workspace may fail to be copied (`SyncFails`), and the process may end at any await
(`Restart`), or while the file is written, which then does not parse (`TornRestart`).
`answered`, `overlapped`, `unsynced`, `unwritten`, `behind` (the file's last write failed)
and `forgotten` (projects of which a restart then knew less) are history, read by
properties only.

### ProjectFiles

Extends `ProjectLifecycle` by the files of each project: the `target` folder (the
user's), the `staging` workspace into which verified work is merged, and the
artifacts in the `reports` of its tasks, verified or not, of which the last one of a
file counts. A delivery (`Delivered`) writes the artifacts of all turns into the
target and then copies the staging workspace over it; `begun` and `found` are the
reports a call read and made, `filed` those in the file of the history. The user writes at any time (`UserWrites`), copying may
fail (`SyncFailsDelivered`), and a restart forgets what was not stored.

### KernelLifecycle

The process. `main` is the await of `bin.ts`'s `main()` and of `Kernel.boot()`; `db`,
`closer` and `isClosed` are the handles of the three stores, which a late write opens
again; `pc` says at which close each of the two callers of `shutdown()` is, the
guardian and the terminal; `process` and `killed` are the children in the supervisor's map and
their `ChildProcess.killed`, `former` the children that restarts replaced and that still
run, `doubled` the ids that boot spawned twice, `backoff` those for whom a restart of the
policy sleeps, `employed` the worker store. `NextToClose` is the sequence of
closes, which skips handles that are null. Boot fails at every await; signals, fatal errors, 'q',
Ctrl+C, provider calls and crashes come at every moment; restarts, pauses and resumes
strike a worker whatever its child does, and a child that has `.killed` set when it is
replaced or the company stops is told nothing. An exit
of Node itself (`IdleExit`) needs an event loop with nothing in it.

### ChildRun, ProcessHandle, CliExecution, ChildProcesses

`ChildRun` is the promise: one outcome, kept; a success only of a program that ended
with code 0; a failure only of one that is over; who gives up may leave a dying
program behind. `ProcessHandle` is one `ExecutionHandle` with the provider or service
that waits for it: `tick` is the start that was put into `nextTick`, `pending` the
continuations of `kill()` that are about to complete the handle, `answer` what the
promise was first resolved with. `Options` has every kind of call: who calls, an
executable that is found, missing or blank, with and without timeout and abort
signal. `CliExecution` is `runCliProcess()`, its plugin (`detected`, `initialized`, `table`) and
`runNpmScript()`: a `leader`, possibly a process it `forked`, which holds the pipes, and a kill
that reaches the group of a CLI but not that of npm. `interrupted` is history.
Both are mapped to `ChildRun`; `ChildProcesses` puts them together, they share no state.

### GoalRules and GoalPlanning

`GoalRules` are the tables and formulas by which a text becomes a plan: affected
modules, their dependencies, risks with their weights, complexity, cost, strategy
and tasks, in exact fractions rounded as `Math.round()` does. `GoalPlanning` is
`planMission()`: `phase` is the await of a call, `goalCache` and `archCache` the two
entries of the prompt cache, `adrs` the rows of decisions in shared memory, `plans` the
plans by the millisecond in which they were made. Both entries are found by the key of
a title (`KeyOf`: lower case, '-' for white space), which several titles may have. A row
has an id made of the millisecond and a number, and the call that wrote it last
(`Upsert`): calls of one millisecond write over each other. A write may be
refused, reasoning may answer or fail, the profile changes at any time.

### MissionPlans, MissionDesk, TaskGraph

`MissionPlans` has the blueprints of the four sizes and the estimate that chooses
among them. `MissionDesk` is `MissionEngine`, `TaskAssignmentEngine`, `Department-
Orchestrator` and `WorkerStore`: `missions` and `plan` by identifier (the millisecond),
`staff` in order of registration, `busy`, and the decompositions that are awaited
(`pending`). `AssignPlanTasks` deals a plan's tasks batch by batch, and a batch
(`AssignBatch`) in plan order, over whoever is on the staff and idle. `TaskGraph` is the graph with its counters of edges (`inDegree`), its cycle
detection, batches and ready tasks, over lists of dependencies that may repeat a
task, name the task itself or one that does not exist. `GraphRunsInBatches` has three
parts: who is stuck is refused (`RefusedWhenStuck`), batches follow the lists
(`BatchesFollowDependencies`), and ready tasks overtake nothing (`NothingOvertakes`).

### Collaboration

Delegation, review requests, approvals and rejections, and messages. Each changes
`owner`, `reviewer` or `review` at once, then waits in `sending` for its record, and is
delivered to `inbox` and `outbox` only then. Records fail, are written in any order,
and two messages of one kind and millisecond have one identifier.

### RuntimePlugins

`registry`, `capabilityMap`, and the plugins' own `up`, `available` and `table` (the
child per worker). `change` is the await of a load or an unload; in between requests
are selected (`current`), start processes, end and are interrupted, and operators
enable, disable and assign plugins. Three objects may share an id. Loads and unloads
do not overlap one another, as `registerProviderPlugins()` awaits each. `exposed` is
history.

### SqliteStore and ProjectKnowledge

`SqliteStore`: several sessions open one file. `tables` and `versions` are its schema,
`disk` the committed rows, `work` what the holder of the write lock (`writer`) sees,
`position` the statement at which a session's migration stands. SQLite is external:
one statement or one transaction is atomic, one session writes at a time. Sessions
die anywhere, and setting the journal mode, before the busy timeout is set, may be
refused to one while another has the file open. Rows keep the columns that refer to
other rows and those that a later write could lose.

`ProjectKnowledge` extends it with one session that indexes and builds contexts:
`file` has content and mtime, `vfs` and `ast` are the entries of the cache, `job` is the
call that runs and where it waits, `touched` (history) who changed meanwhile. The mtime
of a change is any, also one the file had before; the files whose present mtime stood
for another version (`repeated`, by the history `times`) are those of which the caches
and the index promise nothing. `wired`
tells the two programs apart: `demo.ts` has the index, `main.ts` does not. `KnowledgeSpec`
puts it beside the sessions of `SqliteStore`, which go on at any time (`Beside`), its own
only between its calls; the behaviours of `MCProjectStore` are some of these.

### TaskPlanner and TaskSession

`TaskPlanner` translates the scan of the workspace and the planner's regular
expressions: a file is its directory, its name, whether `.test` follows, and its
extension; a prompt is what the expressions find in it. `TaskSession` is `main()`
around `SubtaskPipeline`: arguments, workspace, database, plan, sub-tasks, last
commit, exit code, and signals, which close the database beside `main()`. The
constants of `SubtaskPipeline` are given here what the planner makes of the prompts.

### MC modules

Components that share no state are checked side by side: a behaviour chooses its
`subject` at the start and is about that component only (`MCMissionDesk`,
`MCProjectStore`, `MCChildProcesses`, `MCProjectLifecycle`). A conjunction of invariants
then says of each component what its own run would say.

## 4. Runs

| Run | Asks | Bounds |
| --- | --- | --- |
| Supervision | the breaker opens in time; sleeping restarts are bounded; every crash is handled | one worker, 3 spawns, crash limit 1, all commands |
| SupervisionQuarantine | finding: a sleeping backoff restarts a quarantined worker | the same, stop and restart only |
| Flight | a slot is held by its own live request, or by one that could not write its first log line; one request per Worker object and an honest history unless interrupted; every request settles | 3 requests to one worker, limit 2, 1 respawn, all commands |
| Mission | the id lists partition the tasks; a reported success is real; every execution ends; `TaskGraphExecution` is implemented | 5 tasks (a diamond and one more on its top), 2 at a time, 1 retry, 2 rejections, 1 repair, all disturbances |
| Delivery | completed work is merged, unless lost in the one window; merged work is verified and builds on its dependencies; every task settles | 4 tasks of 2 workers (two that share a lane, two that follow each other), 1 retry, 1 question |
| DeliveryLost | finding: a task is completed whose work is not on main | the same |
| Subtasks | committed work is verified; checkpoints survive; failures are rolled back; the session ends with an honest exit code | 8 argument lists, 3 plans of up to 2 sub-tasks, 1 retry, 8 kinds of responses, 4 files, 3 kinds of repository |
| Projects | turns are kept; the file follows memory; stale runs are marked; what was merged is delivered; a plan covers its goal; its decisions are stored; it can be executed and its estimates trusted | 2 projects, 3 goals, 2 restarts, with writes that fail of the file or of the database; for the files 1 project, 2 turns, 2 tasks each, 1 restart; 2 calls of the planner, 3 titles of 2 keys, 2 texts, 2 milliseconds, and each of the 1,024 sets of modules |
| Kernel | nobody is abandoned; 0 means drained; every shutdown ends | 2 workers, one of them `Eventful` (may crash, be spawned twice, or be chosen in the workers' tab), all screens, 4 kinds of tabs |
| Children | what runs can be reached; every call implements `ChildRun`; every call is answered | every kind of call of the handle; 2 calls of one worker's plugin and an npm script |
| Desk | batches respect the graph; tasks are dealt out fairly; what was told is on record; processes are owned | 3 workers, 4 sizes of plans; graphs of 3 tasks with lists of up to 2; 2 workers and 1 task; 3 plugins of one id, 2 calls |
| Storage | rows have parents and versions their tables; connecting fails only in a race; the index says what the files hold; the caches are current | 2 sessions; 2 projects, 1 task, 1 execution; 2 files, 3 contents, mtimes 3 (with the index 2) that may be repeated, 2 releases |

Why the bounds are enough. Supervision: one worker id suffices because nothing
relates two ids (the maps are keyed by id and the policy counts per id); three
spawns give an old process, its successor and the successor's replacement, and a
limit of one trips the breaker with a backoff asleep. Flight: the slot of a worker
is disturbed by the late close of one request and observed by the next, the third
shows the overlap and meets the limit. Mission: a diamond has a task with two
dependents and one with two dependencies, the fifth task competes for the limit,
and one retry has the boundary between retrying and giving up; two rejections meet
the limit of one repair. Delivery: two
tasks of one worker in one batch delete each other's worktree, a second worker
has tasks that are alone and a teammate to ask. Subtasks: the second sub-task
fails behind the checkpoint of the first, on the same file or another, the
responses cover both sides of each decision of parser, validator and patch
generator, and the prompts each branch of the planner. Projects: two continuations
overlap behind a run, a restart falls
between any two of their steps, and (if no write fails) a second one follows it; of the files, an old
artifact meets newer work of the same or of an overlapping turn; the planner's caches
are shared by two calls at most in what they can show (a title with the same or
another text, another title of the same key or of another), and all inputs of the rules are enumerated. Kernel: with two
workers one may be told and the other not, and nothing but the end of the company
concerns both, so one of them has the crashes and the operator; the callers of `shutdown()` are two in the
code. Children: the second call of a worker meets the table entry of the first.
Desk:
three workers make one idle, one busy and one dismissed; a cycle, a self-loop, a
diamond's half and a missing task need three nodes; a plugin that is replaced by one
that is replaced needs three objects. Storage: a race needs two sessions; a stale entry needs
a change between a look and a read and another after it, with a new mtime or with one
that is repeated; with the index, a context reads only a row that is there already; a row is taken over
between two projects and outlived by a release.

Every property of a passing run is also checked against a mutant of the code that
must break it (`PROJECT.json`, `mutants`; the variants stand before the definitions
they replace), so none holds because its case is out of reach.

Deadlock checking is off in all runs but Storage, as the systems may stop (all bounded
spawns used, all requests settled, the mission returned, the process gone); in
Storage a session can always be started or the user change a file.

### Fairness

* Supervision: delivery of exit events and elapse of timers are weakly fair
  (`EventLoop`). Node delivers every child's exit and fires every timer as long as
  the process lives.
* Flight: each request's own progress is weakly fair (`Advance`). A selection is a
  chain of resolved promises, and `runCliProcess()` settles by its timeout if the
  process neither closes nor fails.
* Mission and Delivery: the loop and each task's coroutine are weakly fair.
  Executions end by the request's timeout (`policy.timeoutMs`), verification steps
  run npm scripts with a timeout, the rest is a timer or a local call.
* Subtasks: `main()` is weakly fair, that is, every process it waits for ends.
  The v1 provider and verification commands have no timeout, so this is an
  assumption about them; `SessionIsHonest` shows that nothing else can keep the program.
* Kernel: closes that began, rejected promises, provider calls (which have a
  timeout), sleeps of the policy, processes that were told to end, and the exit of an idle
  process are weakly fair. A child that was paused or resumed, or spawned over, is never
  told, so 'q' is claimed to end the program only without one (`KeptByAChild`).
* Children: of a handle, its start, its timer, the events of its child and its own
  continuations, a child that was signalled and the mock's script, which ends by
  itself; of the second version's calls only the timeout and the
  error event. A program, or one it forked, may run for ever.
* No fairness is assumed of the user, of commands, cancellations, rejections,
  crashes, signals or restarts. Projects, Desk and Storage claim safety only.

## 5. Proofs

TLAPS proves the following for every value of the constants under the named
assumptions (`SupervisionAssumption`, `FlightAssumption`, `MissionAssumption`,
`DeliveryAssumption`, `PipelineAssumption`, `SessionAssumption`, `LifecycleAssumption`,
`WorkersAssumption`, `StoreAssumption`, `CliAssumption`, `CallsAssumption`,
`PluginsAssumption`, `GoalsAssumption`, `GraphAssumption`, `StaffAssumption`,
`KnowledgeAssumption`), which say that limits are natural numbers, sets
that are counted finite, and ids distinct. `DeliveryAssumption` adds that `Deps` is
transitive and irreflexive, and that only tasks alone with their worker suspend in
verification: npm scripts are skipped in a fresh worktree, which has no
`node_modules`. `MissionAssumption` excludes a limit of zero, with which the loop spins;
no caller in the sources passes one. `CliAssumption` keeps the calls of the adapter and the
npm scripts apart, `CallsAssumption` takes the calls of v1 from the kinds in `Options`,
`PluginsAssumption` types plugins, ids and requests, none of which is `None`, and
`GoalsAssumption` says that a goal is a title and what the rules recognize, with finitely
many titles of decisions. `GraphAssumption` makes the tasks of a graph finitely many of the ids
that a list may name, `StaffAssumption` a goal one of the texts that are classified.
`Collaboration` needs none.

* `WorkerSupervisionProofs`: `TypeCorrect`, `BreakerOpens`, `RestartsAreBounded`,
  `RemovedWorkersStayRemoved`. The restarts need `PendingInv`: whoever sleeps in a
  backoff is gone, and those whose crash still counts are within the limit that
  the breaker enforces.
* `ReasoningFlightProofs`: `TypeCorrect`, `SlotsAreHeldByFlights`,
  `TrackedProcessesRun`, `ConcurrencyBounded`, `SingleFlightHolds`, `HistoryIsHonest`.
  `FlightInv` ties slot, phase and process of a request together: a slot names an
  executing request that captured that very object, a tracked process is the
  running process of an executing request of that worker; only a request that could not
  announce itself in the worker's log keeps a slot without running. `GateInv` adds that the
  executing request of an object that was not interrupted holds its slot; this
  is the gate the next request meets in `beginExecution()`. About the programs behind
  the requests: `ProgramsAreReachable`, `EveryCallIsARun`, `TheHandleIsARun`. `CliInv` says
  that at most one call of a worker that was not interrupted is pending
  (`OneCallEach`), so nobody else's end can delete its entry, and that only a program
  that was spawned has forked (`ForksAreChildren`), which is why the kill at the end of a
  call leaves nothing behind. The refinements go action by action: a lemma says how
  program and outcome may move (`CallProgress`, `HandleProgress`), each action is shown to move them so.
* `MissionExecutionProofs`: `TypeCorrect`, `DependenciesComeFirst`,
  `ParallelismIsBounded`, `PollIsDead`, `MissionReturnsLast`, `NothingRunnableIsLeft`,
  `ListsArePartitions`, `SuccessIsHonest` and the refinement `ImplementsGraphExecution`.
  `MissionInv` has four parts. `QueueInv`: the queue has no duplicates, what is queued
  has not started and has its dependencies done, and what neither started nor is
  queued is BLOCKED. `ProgressInv`: `completedSet` is the coroutines past their
  completion, and whatever started has its dependencies in it. `BatchInv`: whoever is
  suspended belongs to the current batch, which respects the limit. `EndInv`: a
  runnable task that is not queued still has a sibling about to unlock it; this is
  what makes it impossible to leave the loop with something runnable. `ListInv` says
  which list of ids has a task, told from where its coroutine is. About what serves
  the missions: `NoProcessIsOrphaned`, `WhatIsToldIsOnRecord`, `TasksRunInBatches`,
  `AssignmentsAreFair`. Of the
  plugins, `PluginsInv` says that a process that is not `exposed` is the table's entry of
  its worker, the worker's latest call, in execution with a registered plugin, and the only
  living one of that worker (`Owned`); and that a plugin that is being closed or unloaded is down and
  has no such process, while one that is validated or initialized has not lost its
  registration to another (`ChangeInv`): this is what the await in the middle of a
  change rests on. `TeamInv` is the property itself with the types, of messages under way
  too. `TasksRunInBatches` rests on `EdgesCounted`: `inDegree` counts, with
  repetitions, the entries of a task's list that the graph has, so that a counter that
  batches have brought to zero stands for a list that is done. From there the rounds of
  `getExecutionBatches()` are followed one by one (`RoundsAreRight`): each takes exactly
  the tasks whose dependencies were taken before, and what is left when a round takes
  nothing is a set of tasks each of which waits for another of the set, which is what
  the graph is refused for. `AssignmentsAreFair` is an action property and its invariant
  (`DeskInv`) only types; the work is in what one dealing does. `FairFor` says of one task what
  the property says of each, `TaskIsDealt` that dealing out the next task is fair to it and
  leaves those before it as they were, and `BatchIsDealt` and `PlanIsDealt` carry this
  through a batch and through the batches, over any staff.
* `TaskDeliveryProofs`: `TypeCorrect`, `SlotsAreGivenBack`, `CompletedIsMerged`,
  `MergedIsVerified`, `WorkBuildsOnDependencies`, `FailuresLeaveNothing`. `LaneInv`: a
  lane holds each task once, and only its head is past the queue. `AttemptInv`
  counts the attempts. `DepsInv`: a task that started has its dependencies
  completed, for good. `MergeInv`: what was applied is in the worktree that will be
  committed or is `Lost`, and while one task of a worker is verified no other one's plan
  is applied. `AloneInv`: the
  unverified work of a task that is alone is in its own worktree only, so nobody
  else can merge it.
* `SubtaskPipelineProofs`: `TypeCorrect`, `TargetsOnly`, `CheckpointsHold`,
  `FailuresAreRolledBack`, `CommitsAreVerified`, `ResultsAreHonest`. `HomeInv`: work sits in
  the file it is for, in the workspace, the index and the last commit.
  `CheckpointInv`: what a committed sub-task delivered survives in all three, or the
  user or a later sub-task wrote over it. `RollbackInv`: between attempts the index
  and the last commit hold nothing of the running sub-task. `VerifiedInv`: between
  sub-tasks and during a commit the workspace holds verified work (or the user's)
  only, so that `git add -A` takes nothing else. `ProgressInv` relates the result to the
  statuses. `SessionRunsThePipeline` shows that `main()` around the pipeline implements
  it, which carries its theorems over (`SessionsCommitVerifiedWork`), and
  `ExitZeroIsEarned` that, without a signal, exit code 0 is that of a plan that succeeded.
* `ProjectLifecycleProofs`: `TypeCorrect`, `TurnsAreOrdered`, `ConversationsAreKept`,
  `FileIsCurrent`, `RunsAreMarked`. `Shape` relates the calls to the maps: a run's
  project is active until it is answered and in no history. `OrderInv`: what a call
  read when it began is older than its own goal, so appending keeps the order
  whatever else was appended meanwhile. `KeptInv`: a project without overlapping
  calls or failed copies has one call, which began with the conversation as it
  is; its file has all turns, or all but the first, unless its last write failed: then a
  restart marks what it cost. `FilesFollowTheCalls` shows that the
  lifecycle with its files implements the one without. `MergedWorkIsDelivered` rests on
  `FlightInv` (a running call is its project's last, or calls overlapped) and
  `DeliveryInv`: a folder that lacks merged work belongs to a project whose copy
  failed, or one of its calls, the last unless they overlapped, has yet to deliver or
  was lost. About planning: `PlansCoverTheirGoals`, `DecisionsCanBeRead`,
  `PlansCanBeTrusted`. `PlannerInv`: what is cached under a key was found for a goal of
  that key, what a call holds was found for its own goal or taken from there
  (`CachesInv`, `CallInv`), and decisions that are cached or held have their rows, their own
  call's where it is alone in its millisecond (`Recorded`); while they are
  being written, those up to the count do (`Designed`). No step takes a row away, or gives it
  to a call that does not share its millisecond (`KeepsRecords`). Feasibility is stated in layers
  (what can start first, what can start then, the review at the end), and `PlanInLayers`
  shows it for every non-empty set of modules, where the run enumerates 1,024. The ranges of
  the estimates are bounds of sums: of weights that are natural numbers and bounded, over
  sets of modules or risks (`SumsAreBounded`).
* `KernelAndStoreProofs`, of the process: `WorkersAreTold` (nobody is left running who was
  not told to end, except children that were paused, resumed or spawned over), `ZeroIsHonest` (exit code 0 means that everything was drained),
  `CallersWaitForACloseUnderWay`. `BootInv`: before the tail of `boot()` there is nothing to
  shut down. `StaffInv`: who can be told to end is on the staff, a shutdown lets
  the staff go, and a replaced child that no signal was sent to is only one that was
  spawned over. `ClosingInv`: a caller waits for a handle that is being closed, and such a
  handle answers to who began it. `FatalInv`: a fatal error is contained, or has ended
  the program.
* `KernelAndStoreProofs`, of the store: `StoreStaysWhole`, `MigrationsCanBeRepeated`, `TelemetryStays`.
  `SchemaInv`: the tables that are there are those of the versions that are recorded
  and of the migration under way, so repeating it from anywhere is harmless.
  `RowsInv`: every committed row has its parents (`Sound`), and the session with the
  write lock sees no less than what is committed (`Extends`). Of `KnowledgeSpec`:
  `NothingStaleIsHandedOut`, `CommittedIndexIsCurrent`, `IndexingKeepsTheStoreWhole`.
  `KnowledgeInv`: an entry of the cache has an mtime its file had, and one of the present
  mtime has its content, unless that is repeated (`CacheInv`); a stat that was taken is
  one the file had, too (`StatInv`); and while a call indexes, the write lock's view has the current row of each
  file that is behind, none of its own project that is not in the list, and of other
  projects only what was there (`IndexInv`). Beside other sessions this holds because
  they cannot write while the indexing one holds the lock. Every step, of the repository
  or of the index, extends the telemetry that is committed (`Extends`), so that it stays
  under both specifications.

`Induction` has no theorem of its own, but most of what the graph, the desk and the
planner do is a loop over data. The theorems on induction of the library take an operator as
parameter, which the provers cannot instantiate; that a well-founded relation has minimal
elements (`WFMin`) speaks of sets only, and gives induction as the lack of a least
counterexample, up to a number (`UpTo`) or over the subsets of a finite set
(`EverySubset`). A recursive function, or a fold, is a `CHOOSE` among the functions that
obey its equation: `RecursionByRank` shows that one exists, wherever the equation looks
at arguments of lower rank only, and `FoldsExist` and `SumsExist` follow. So
`RoundsAreChosen` and the lemmas behind it may unfold the definitions as TLC does.

Only model-checked:

* Liveness (`CrashIsHandled`, `RequestsSettle`, `MissionEnds`, `TasksSettle`, `SessionIsHonest`,
  `ShutdownEnds`, `EveryCallIsAnswered`), since liveness under fairness and ENABLED are
  outside what the installed provers do. Every invariant and action property of a
  passing run is proved.
* The findings, which are counterexamples.

## 6. Findings

Two runs must end in a violation; `PROJECT.json` quotes the statements they contradict.
`SupervisionQuarantine`: a backoff that was asleep when the breaker tripped
restarts the quarantined worker. `DeliveryLost`: the retry of a task replaces the
worktree it shares with another one, whose report is being written
(`worker_execution_engine.ts:267`); the other one's merge finds nothing to do, and it is
completed without its work.

Seen while modelling, and present in the models unless said otherwise. Where a
property would fail for one of these, it names the exception instead
(`SlotHeldByItsFlight`, `SingleFlightUnlessInterrupted`, `HonestUnlessInterrupted`,
`CompletedWorkIsMerged`, `TurnsAreKept`, `FileFollowsMemory`, `StaleRunsAreMarked`,
`NobodyIsAbandoned`, `ShutdownEnds`, `PlanCoversItsGoal`, `DecisionsArePersisted`,
`CachesAreCurrent`, `IndexIsCurrent`, `OnlyARaceIsRefused`, `ProcessesAreOwned`).

Workers and requests:

* `worker restart` does not clear the quarantine; a late failure marks the current
  Worker QUARANTINED and a later spawn or resume overwrites it
  (`worker_lifecycle_policy.ts:69`); stopping or restarting a worker that was paused or
  resumed before sends no signal, as `ChildProcess.killed` is true after SIGSTOP and
  SIGCONT (`local_process_supervisor.ts:99`): its child outlives the program, or keeps
  it from ending after 'q', and so does the first child of an id that `company.json` has
  twice (`kernel.ts:177`). `NobodyIsAbandoned` and `ShutdownEnds` except these children.
* `worker start` with an id in use replaces the live Worker; the old process's late
  failure then restarts the new one.
* An interrupt frees the slot before the killed process is closed
  (`reasoning_coordinator.ts:60`); its late close frees the next request's slot, a third
  request runs beside it, and the outcome goes into the wrong history.
* `beginExecution()` throws outside the `try` (`reasoning_coordinator.ts:103`), so that
  request's entry is never removed; nor is it when the line after it cannot be written to
  the worker's log (`:119`), and then the worker stays busy until somebody interrupts it.
* A provider's session is registered before its first call succeeds
  (`worker_execution_engine.ts:79-80`), so a retry resumes what may not exist (not modelled).

Missions and tasks:

* A cancelled mission reads FAILED or COMPLETED in the end
  (`mission_execution_orchestrator.ts:275`), and `completeTask()` turns a CANCELLED mission
  COMPLETED. `startMission()` starts missions that have ended, and all assigned tasks
  whatever their dependencies; assigning again resets COMPLETED tasks to ASSIGNED.
* A question to a teammate takes the teammate's slot outside of its lane, although
  `worker_runtime.ts` says that the lane cannot be crossed; the teammate's own task is
  refused as busy and loses an attempt.
* A task whose repair failed still counts as completed. The CLI's `review reject`
  names a fixed mission id and so never starts a repair; the models take the public
  `CollaborationEngine.rejectReview()` with the mission's id. A repair writes into
  the project tree itself, which is never committed.
* A worktree directory names the worker, not the mission; in one that is gone, `git
  add` and `git commit` run in the project's own repository before the merge fails
  (`stray`); the worktree of a failed verification stays during the retry delay.
* ENTERPRISE blueprints 12 to 14 are in batch 7, though their dependencies allow
  4 and 5 (`default_mission_planning_strategy.ts:129-155`). `selectWorkerForTask()` says
  "least-recently-active" and takes the first member (`department_orchestrator.ts:53-65`).
  Messages of one millisecond share an id, and one record.
* The expected number of workers is always 3, so the policies SINGLE and DEPARTMENT
  are unreachable; the reuse of decisions compares ids the program does not write.
* Goals whose titles have one key ('Add Cache' and 'add-cache') get each other's
  plan, whatever their texts say; plans of one millisecond write over each other's decisions
  (`sqlite_shared_memory.ts:83`), so a decision that a caller was told of may be another
  one's. `PlanCoversItsGoal` and `DecisionsArePersisted` name both.

Projects:

* One interrupted in its first run is in no history, so it cannot be continued as
  `kernel.ts:66` says; a write of the history that fails is ignored
  (`project_lifecycle_orchestrator.ts:269`), so a restart behind it loses turns or whole
  projects, until a later write makes up for it; `runProject()` saves the file before the turn and the workspace
  are in it (`project_lifecycle_orchestrator.ts:62`), so after a restart its output goes to
  `./.se_workspaces`. Two runs in one millisecond share an id.
* Copying the workspace back copies every file, not the "generated/modified" ones of
  its comment, so what the user changed meanwhile is written over
  (`workspace_engine.ts:92-114`). Artifacts of failed tasks go to the user's folder, as a
  comment says they should.

Version 1:

* The "targeted" rollback of a sub-task is `git reset --hard` and `git clean -fd` on the
  whole workspace (`git_manager.ts:101`, against `README.md:175`); `git clean` runs although
  `git reset` failed, so in a repository without a commit every untracked file goes.
* A sub-task whose checkpoint failed counts as a success and loses its work in a
  later rollback (`task_execution_service.ts:387`); `git add -A` commits the user's own
  edits, and logs below the workspace; a context that cannot be built returns
  ERROR with empty lists behind committed sub-tasks.
* The expressions for files take the first alternative, so `App.tsx` is read as
  `App.ts`, `package.json` as `package.js`, `style.css` as `style.cs` and `index.html` as `index.h`
  (`task_planner.ts:135`, `main.ts:278`); a name that was not scanned becomes a file below
  the root; two spellings of a file are two targets; an inferred target may be
  `src/setup.py` (`:46`, `:184`). Protected files that the prompt names are skipped, against
  the comment at `:9-10`.
* A `package.json` that does not parse, or a project of no known type, leaves no commands
  of its own (`workspace_manager.ts:94`), so the configured npm scripts are run, which it
  does not have: there no sub-task can succeed (`task_execution_service.ts:340`). SIGINT closes the database and exits
  with 0 in the middle of a task (`main.ts:128`).
* `main.ts` never hands the index to the task service. Reading a file refreshes its
  time in the cache, so an older tree counts as current (`context_builder.ts:29-47`), and a
  file that stopped parsing keeps its old one (`:54`). Versions are told apart by
  mtime alone (`vfs.ts:48`): of two writes in one tick, or a file that was moved away, missed
  and moved back, the older version or an empty one is handed out (`CachesAreCurrent` and
  `IndexIsCurrent` except these, by `repeated`). `project_files` is keyed by path
  alone (`project_knowledge_service.ts:204`).
* Two first runs at once: the second insert into `schema_migrations` fails and the
  program exits with 1 (`sqlite_db.ts:187`); the handle stays set after a connect that
  failed (`sqlite_db.ts:23`). Transactions that nest on the shared connection fail
  (`sqlite_repository.ts:72`).

Process and plugins:

* A signal that overlaps 'q' may end the program with 1 (`kernel.ts:226`,
  `process_guardian.ts:32`).
* Disabling a plugin leaves its process beyond the reach of an interrupt; a plugin
  that was selected before a shutdown still starts processes behind it. Overlapping
  loads would orphan processes; no caller overlaps them. Only major versions are
  compared.
* `worker_aware_runtime_selection_strategy.ts:13-15` promises a fallback that lines 41-47
  do not take. The detector's comment says that `--version` confirms a CLI; one that is
  found in the path counts whatever it answers.

## 7. Not modelled

* Display and formatting (CLI output, terminal UI, telemetry, web dashboard): no state of
  their own that the program reads.
* The wording of prompts and responses; parsers and the slicing of symbols for a
  context: text in, text out. What they decide is modelled where control depends
  on it (`Valid`, `Patchable`, the planner's expressions).
* SQLite itself, git and the file system: external; calls to them succeed, fail or
  throw where the code distinguishes it. The event log's appends and versions, and
  shared memory's fallback.
* Sessions of providers; health checks, the sandbox and the older `PluginRegistry`: nothing
  calls them.
* `MergeEngine` and `MergeQueue`: only CLI commands reach them; they merge nothing, and
  `dequeue()` has no caller. Token budgets: `consumeTokens()` has no caller.
* Repairs of rejected reviews write into the project's staging folder: `MissionExecution`
  has their control, `TaskDelivery` and `ProjectFiles` have not what they write.
* Heartbeats, token counts, history texts: written, never read by the control that
  is modelled.
* Two missions at once, two executions of one mission: one execution is modelled.
* v1's configuration, logging and tmux session, scripts and the sample plugin.

`PROJECT.json` gives the state of each component and its reason.
