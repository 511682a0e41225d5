------------------------- MODULE WorkerSupervision -------------------------
(***************************************************************************)
(* The operating-system processes behind the workers, and the policy that  *)
(* restarts them: Worker (processState), WorkerStore, LocalProcess-        *)
(* Supervisor, WorkerLifecyclePolicy and the worker commands of the CLI.   *)
(*                                                                         *)
(* Every spawnWorker() makes a new Worker object and a new child process;  *)
(* both are named by one INCARNATION <<worker, generation>>.  Handlers     *)
(* capture the incarnation they were installed for, the maps of the store  *)
(* and of the supervisor are keyed by worker: a late event of an old       *)
(* incarnation acts on whatever incarnation is current by then.            *)
(*                                                                         *)
(* Time is abstracted: a backoff sleep ends at any later moment, and a     *)
(* crash leaves the sliding window at any moment after its own backoff     *)
(* (the longest backoff is 30 s, the window five minutes).                 *)
(***************************************************************************)
EXTENDS Naturals, FiniteSets

CONSTANTS
  Workers,              \* worker identities
  Generations,          \* bound: how often one worker can be spawned (a set 1..N)
  MaxCrashesInWindow,   \* more crashes than this in the window: quarantine
  Commands,             \* the operator commands that may be issued
  None                  \* no incarnation

Inc == Workers \X Generations
Owner(i) == i[1]
Generation(i) == i[2]

AllCommands == {"start", "stop", "kill", "restart", "pause", "resume", "clear"}

\* What the code's WorkerProcessState can be once spawnWorker() has returned.
\* BUSY, which comes and goes with a reasoning request (ReasoningFlight) and
\* which nothing here reads, is taken as IDLE.
WorkerProcessState == {"STARTING", "IDLE", "PAUSED", "CRASHED", "STOPPED", "QUARANTINED"}

\* An OS process: not yet spawned; running; stopped by SIGSTOP; told to die
\* by a signal; exited with a non-zero code, or otherwise (code 0 or a
\* signal), with the 'exit' event still to come; exited and reported.
ProcessStatus == {"unborn", "running", "suspended", "terminating", "failed", "ended", "gone"}

ASSUME SupervisionAssumption ==
  /\ IsFiniteSet(Workers)
  /\ Generations \subseteq Nat /\ IsFiniteSet(Generations)
  /\ MaxCrashesInWindow \in Nat
  /\ Commands \subseteq AllCommands
  /\ None \notin Inc

VARIABLES
  store,        \* WorkerStore.workers: the current Worker object of an id
  children,     \* LocalProcessSupervisor.childProcesses
  process,      \* status of the OS process of each incarnation
  killed,       \* ChildProcess.killed: some signal has been sent successfully
  processState, \* Worker.processState of each Worker object
  crashes,      \* crashTimestamps: incarnations whose crash is in the window
  timers,       \* incarnations whose crash has a restart sleeping in backoff
  quarantined,  \* WorkerLifecyclePolicy.quarantined
  kernel        \* Kernel: booted, shutdown() awaiting the stores' close, or down

vars == <<store, children, process, killed, processState,
          crashes, timers, quarantined, kernel>>
policyVars == <<crashes, timers, quarantined>>

CrashesOf(w) == {i \in crashes : Owner(i) = w}
TimersOf(w) == {i \in timers : Owner(i) = w}
Unborn(w) == {i \in Inc : Owner(i) = w /\ process[i] = "unborn"}
NextIncarnation(i) ==
  /\ process[i] = "unborn"
  /\ \A j \in Unborn(Owner(i)) : Generation(i) <= Generation(j)

-----------------------------------------------------------------------------
(* The supervisor's own operations.                                        *)

\* ChildProcess.kill(): succeeds, and sets .killed, as long as the process
\* has not been reaped.  SIGTERM and SIGKILL end a running process; a
\* suspended one has .killed set already and is not signalled again.
CanSignal(i) == i # None /\ ~killed[i] /\ process[i] \in {"running", "terminating", "failed", "ended"}
AfterTerm(i) ==
  IF CanSignal(i) /\ process[i] = "running"
  THEN [process EXCEPT ![i] = "terminating"]
  ELSE process
KilledAfterSignal(i) == IF CanSignal(i) THEN [killed EXCEPT ![i] = TRUE] ELSE killed

\* spawnWorker(): register a fresh Worker object over any existing one, start
\* its process, enter both maps.  `before` is the process map it starts from.
Spawned(i, before) ==
  /\ store' = [store EXCEPT ![Owner(i)] = i]
  /\ children' = [children EXCEPT ![Owner(i)] = i]
  /\ process' = [before EXCEPT ![i] = "running"]
  /\ processState' = [processState EXCEPT ![i] = "IDLE"]

\* restartWorker(): nothing for an unknown id; otherwise stopWorker() and
\* spawnWorker() under the same id.
RestartWorker(w) ==
  \/ /\ store[w] = None
     /\ UNCHANGED <<store, children, process, killed, processState>>
  \/ /\ store[w] # None
     /\ \E i \in Unborn(w) :
          /\ NextIncarnation(i)
          /\ Spawned(i, AfterTerm(children[w]))
     /\ killed' = KilledAfterSignal(children[w])

-----------------------------------------------------------------------------
(* Operator commands (se_os_cli, WorkersTab).                              *)

\* worker-start: spawnWorker() does not look whether the id is in use.
StartWorker(w) ==
  /\ kernel # "down" /\ "start" \in Commands
  /\ \E i \in Unborn(w) : NextIncarnation(i) /\ Spawned(i, process)
  /\ UNCHANGED <<killed, policyVars, kernel>>

\* worker-restart: the policy is not told; quarantine and timers stay.
OperatorRestart(w) ==
  /\ kernel # "down" /\ "restart" \in Commands
  /\ store[w] # None
  /\ RestartWorker(w)
  /\ UNCHANGED <<policyVars, kernel>>

\* worker-stop and worker-kill: close the pty, signal the process unless
\* .killed is set, forget the child and remove the worker.
StopWorker(w) ==
  /\ kernel # "down" /\ Commands \cap {"stop", "kill"} # {}
  /\ store[w] # None
  /\ process' = AfterTerm(children[w])
  /\ killed' = KilledAfterSignal(children[w])
  /\ children' = [children EXCEPT ![w] = None]
  /\ store' = [store EXCEPT ![w] = None]
  /\ UNCHANGED <<processState, policyVars, kernel>>

\* worker-pause: refused when .killed is set, which any earlier signal does.
\* A process that has already exited is still marked PAUSED.
PauseWorker(w) ==
  /\ kernel # "down" /\ "pause" \in Commands
  /\ store[w] # None /\ children[w] # None
  /\ ~killed[children[w]]
  /\ process' = IF process[children[w]] = "running"
                THEN [process EXCEPT ![children[w]] = "suspended"] ELSE process
  /\ killed' = KilledAfterSignal(children[w])
  /\ processState' = [processState EXCEPT ![store[w]] = "PAUSED"]
  /\ UNCHANGED <<store, children, policyVars, kernel>>

\* worker-resume: SIGCONT and IDLE, whatever the state was.
ResumeWorker(w) ==
  /\ kernel # "down" /\ "resume" \in Commands
  /\ store[w] # None /\ children[w] # None
  /\ process' = IF process[children[w]] = "suspended"
                THEN [process EXCEPT ![children[w]] = "running"] ELSE process
  /\ killed' = IF process[children[w]] = "gone" THEN killed ELSE [killed EXCEPT ![children[w]] = TRUE]
  /\ processState' = [processState EXCEPT ![store[w]] = "IDLE"]
  /\ UNCHANGED <<store, children, policyVars, kernel>>

\* clearQuarantine(): offered by the policy; no command of the CLI calls it.
ClearQuarantine(w) ==
  /\ kernel # "down" /\ "clear" \in Commands
  /\ quarantined' = quarantined \ {w}
  /\ crashes' = crashes \ CrashesOf(w)
  /\ UNCHANGED <<store, children, process, killed, processState, timers, kernel>>

\* Kernel.shutdown(): one synchronous loop stops every worker of the store.
\* isBooted stays set, and commands are served, until the stores are closed.
Shutdown ==
  /\ kernel # "down"
  /\ kernel' = "closing"
  /\ process' = [i \in Inc |-> IF children[Owner(i)] = i THEN AfterTerm(i)[i] ELSE process[i]]
  /\ killed' = [i \in Inc |-> killed[i] \/ (children[Owner(i)] = i /\ CanSignal(i))]
  /\ children' = [w \in Workers |-> None]
  /\ store' = [w \in Workers |-> None]
  /\ UNCHANGED <<processState, policyVars>>

\* shutdown() after its awaits; the program exits, no command comes any more.
ShutdownCompletes ==
  /\ kernel = "closing"
  /\ kernel' = "down"
  /\ UNCHANGED <<store, children, process, killed, processState, policyVars>>

-----------------------------------------------------------------------------
(* The operating system, the 'exit' handler and the lifecycle policy.      *)

\* A process exits by itself with a non-zero code (also after a signal was
\* sent, before the signal is acted on).
ProcessFails(i) ==
  /\ process[i] \in {"running", "terminating"}
  /\ process' = [process EXCEPT ![i] = "failed"]
  /\ UNCHANGED <<store, children, killed, processState, policyVars, kernel>>

\* A process exits with code 0 or is killed by a signal.
ProcessEnds(i) ==
  /\ process[i] \in {"running", "terminating"}
  /\ process' = [process EXCEPT ![i] = "ended"]
  /\ UNCHANGED <<store, children, killed, processState, policyVars, kernel>>

\* Node's 'exit' event of a process that did not fail.
ExitEvent(i) ==
  /\ process[i] = "ended"
  /\ process' = [process EXCEPT ![i] = "gone"]
  /\ processState' = [processState EXCEPT ![i] = "STOPPED"]
  /\ UNCHANGED <<store, children, killed, policyVars, kernel>>

\* Variant: the limit is off by one.
TripsBreakerLate(recent) == Cardinality(recent) > MaxCrashesInWindow + 1

\* Does this failure, the last of recent, open the circuit?
TripsBreaker(recent) == Cardinality(recent) > MaxCrashesInWindow

\* Variant: a crash of a quarantined worker still schedules a restart.
OnWorkerFailedAlwaysRestarts(i, marked) ==
  LET recent == CrashesOf(Owner(i)) \cup {i}
  IN /\ crashes' = crashes \cup {i}
     /\ timers' = timers \cup {i}
     /\ quarantined' = IF TripsBreaker(recent) THEN quarantined \cup {Owner(i)} ELSE quarantined
     /\ processState' = marked

\* onWorkerFailed() up to its first await, run by the emit in the handler.
OnWorkerFailed(i, marked) ==
  LET w == Owner(i)
      recent == CrashesOf(w) \cup {i}
  IN \/ /\ w \in quarantined
        /\ processState' = marked
        /\ UNCHANGED policyVars
     \/ /\ w \notin quarantined
        /\ TripsBreaker(recent)
        /\ crashes' = crashes \cup {i}
        /\ quarantined' = quarantined \cup {w}
        /\ processState' = IF store[w] = None THEN marked
                           ELSE [marked EXCEPT ![store[w]] = "QUARANTINED"]
        /\ UNCHANGED timers
     \/ /\ w \notin quarantined
        /\ ~TripsBreaker(recent)
        /\ crashes' = crashes \cup {i}
        /\ timers' = timers \cup {i}
        /\ processState' = marked
        /\ UNCHANGED quarantined

\* Node's 'exit' event with a non-zero code: the handler's own Worker object
\* is marked CRASHED and WorkerFailed is emitted for the id.
FailureEvent(i) ==
  /\ process[i] = "failed"
  /\ process' = [process EXCEPT ![i] = "gone"]
  /\ OnWorkerFailed(i, [processState EXCEPT ![i] = "CRASHED"])
  /\ UNCHANGED <<store, children, killed, kernel>>

\* Variant: only a worker that still reads CRASHED is restarted.
BackoffElapsesIfCrashed(i) ==
  /\ i \in timers
  /\ timers' = timers \ {i}
  /\ IF store[Owner(i)] # None /\ processState[store[Owner(i)]] = "CRASHED"
     THEN RestartWorker(Owner(i))
     ELSE UNCHANGED <<store, children, process, killed, processState>>
  /\ UNCHANGED <<crashes, quarantined, kernel>>

\* onWorkerFailed() after its sleep: skip a removed worker, else restart it.
BackoffElapses(i) ==
  /\ i \in timers
  /\ timers' = timers \ {i}
  /\ RestartWorker(Owner(i))
  /\ UNCHANGED <<crashes, quarantined, kernel>>

\* A crash gets older than windowMs.
WindowSlides(i) ==
  /\ i \in crashes \ timers
  /\ crashes' = crashes \ {i}
  /\ UNCHANGED <<store, children, process, killed, processState, timers, quarantined, kernel>>

-----------------------------------------------------------------------------
FirstIncarnation(i) == \A g \in Generations : Generation(i) <= g

\* After Kernel.boot(): every worker of the workforce has been spawned once.
Init ==
  /\ store \in [Workers -> {i \in Inc : FirstIncarnation(i)}]
  /\ \A w \in Workers : Owner(store[w]) = w
  /\ children = store
  /\ process = [i \in Inc |-> IF FirstIncarnation(i) THEN "running" ELSE "unborn"]
  /\ killed = [i \in Inc |-> FALSE]
  /\ processState = [i \in Inc |-> IF FirstIncarnation(i) THEN "IDLE" ELSE "STARTING"]
  /\ crashes = {}
  /\ timers = {}
  /\ quarantined = {}
  /\ kernel = "booted"

Operator(w) ==
  \/ StartWorker(w) \/ OperatorRestart(w) \/ StopWorker(w)
  \/ PauseWorker(w) \/ ResumeWorker(w) \/ ClearQuarantine(w)

Environment(i) == ProcessFails(i) \/ ProcessEnds(i) \/ WindowSlides(i)
EventLoop(i) == ExitEvent(i) \/ FailureEvent(i) \/ BackoffElapses(i)

Next ==
  \/ \E w \in Workers : Operator(w)
  \/ \E i \in Inc : Environment(i) \/ EventLoop(i)
  \/ Shutdown \/ ShutdownCompletes

Spec == Init /\ [][Next]_vars

\* Node delivers every 'exit' event and every timer; nobody has to act else.
FairSpec == Spec /\ \A i \in Inc : WF_vars(EventLoop(i))
-----------------------------------------------------------------------------
(* Properties.                                                             *)

\* Every variable has its type; the two maps keyed by worker id name the same
\* incarnation of that worker (WorkerStore and the supervisor's child map).
TypeOK ==
  /\ store \in [Workers -> Inc \cup {None}]
  /\ \A w \in Workers : store[w] = None \/ Owner(store[w]) = w
  /\ children = store
  /\ process \in [Inc -> ProcessStatus]
  /\ killed \in [Inc -> BOOLEAN]
  /\ processState \in [Inc -> WorkerProcessState]
  /\ crashes \subseteq Inc /\ timers \subseteq Inc
  /\ quarantined \subseteq Workers
  /\ kernel \in {"booted", "closing", "down"}

\* The circuit breaker of WorkerLifecyclePolicy: a worker that is not
\* quarantined never has more crashes in the window than allowed, so a worker
\* that keeps crashing is quarantined by the crash that exceeds the limit.
BreakerOpensInTime ==
  \A w \in Workers \ quarantined : Cardinality(CrashesOf(w)) <= MaxCrashesInWindow

\* However crashes, operator restarts and starts interleave with sleeping
\* backoffs, a worker never has more automatic restarts in flight than the
\* crashes allowed in one window; only crashes that clearQuarantine() has
\* forgiven while their backoff was asleep do not count.
PendingRestartsBounded ==
  \A w \in Workers : Cardinality(TimersOf(w) \cap CrashesOf(w)) <= MaxCrashesInWindow

\* A worker that was removed, by worker-stop or by Kernel.shutdown(), comes
\* back only by an operator's worker-start: a backoff that was sleeping when it
\* was stopped, or an exit event that was still to come, spawns nothing.
RemovedStaysRemoved ==
  [][\A w \in Workers : store[w] = None /\ store'[w] # None => StartWorker(w)]_vars

\* Self-healing: when the current process of a worker has failed, the worker
\* is eventually replaced or removed, or it is quarantined (or the bound on
\* its generations is used up).
CrashIsHandled ==
  \A i \in Inc :
    (process[i] = "failed" /\ store[Owner(i)] = i)
      ~> (store[Owner(i)] # i \/ Owner(i) \in quarantined \/ Unborn(Owner(i)) = {})

\* worker_lifecycle_policy.ts:56: "a quarantined worker only comes back via an
\* explicit, human-issued restart ..., never automatically".
QuarantineStopsRestarts ==
  [][\A i \in Inc : BackoffElapses(i) /\ Owner(i) \in quarantined => UNCHANGED store]_vars
=============================================================================
