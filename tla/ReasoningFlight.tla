--------------------------- MODULE ReasoningFlight ---------------------------
(***************************************************************************)
(* Reasoning requests in flight: ReasoningCoordinator, the execution slot  *)
(* of Worker, and the CLI processes of a runtime plugin (CliRuntimePlugin, *)
(* ClaudeCodeRuntimePlugin, runCliProcess).                                *)
(*                                                                         *)
(* requestReasoning() captures the Worker OBJECT that is current when it   *)
(* is called and holds on to it over two awaits (plugin selection and      *)
(* plugin execution); the plugin's process table and the terminal log are  *)
(* keyed by worker ID.  The operator interrupts, restarts, stops and       *)
(* starts workers at any time in between.                                  *)
(*                                                                         *)
(* One plugin serves all workers.  Each synchronous stretch of code        *)
(* between two awaits is one action; continuations that run in one drain   *)
(* of the microtask queue (a plugin's and its caller's) are one action.    *)
(***************************************************************************)
EXTENDS Naturals, FiniteSets

CONSTANTS
  Workers,               \* registered worker ids
  Virtual,               \* an id that is no registered worker ('emp-planner')
  Requests,              \* reasoning requests, each made at most once
  WorkerOf,              \* request |-> workerId
  MaxConcurrentRequests, \* ReasoningPolicy.maxConcurrentRequests
  MaxSpawns,             \* bound: Worker objects made for one id after the first
  Commands,              \* the operator commands that may be issued
  None

AllCommands == {"interrupt", "cancel", "restart", "stop", "start"}
Ids == Workers \cup {Virtual}

\* A Worker object: restartWorker() and worker-start make a new one.
Object == Workers \X (0..MaxSpawns)

ASSUME FlightAssumption ==
  /\ Virtual \notin Workers
  /\ IsFiniteSet(Requests)
  /\ WorkerOf \in [Requests -> Ids]
  /\ MaxConcurrentRequests \in Nat /\ MaxSpawns \in Nat
  /\ Commands \subseteq AllCommands
  /\ None \notin Requests /\ None \notin Object

Phase == {"idle", "selecting", "executing", "done", "threw", "unlogged"}
Outcome == {"COMPLETED", "FAILED", "INTERRUPTED"}

VARIABLES
  current,        \* WorkerStore: the Worker object of an id
  spawned,        \* the generation of the last Worker object of an id
  slot,           \* Worker.activeExecution of each object: its request
  history,        \* the outcomes written to a worker's history for a request
  pc,             \* where requestReasoning() is for each request
  captured,       \* its local `worker`
  result,         \* what it returned
  activeRequests, \* ReasoningCoordinator.activeRequests
  tracked,        \* plugin.activeChildProcesses, by worker id: whose process
  process,        \* the CLI process of each request
  logged          \* WorkerTerminalLog: the log file of an id exists

vars == <<current, spawned, slot, history, pc, captured, result,
          activeRequests, tracked, process, logged>>
storeVars == <<current, spawned>>

\* workerStore.get(id).
CurrentOf(id) == IF id \in Workers THEN current[id] ELSE None

\* terminalLog.append() creates the file if it is not there.
Write(ids) == logged' = logged \cup ids

-----------------------------------------------------------------------------
(* The execution slot of a Worker object.                                  *)

\* completeExecution(o, outcome): ends WHATEVER o is executing, if anything.
CompleteExecution(o, outcome) ==
  IF o = None \/ slot[o] = None
  THEN UNCHANGED <<slot, history>>
  ELSE /\ slot' = [slot EXCEPT ![o] = None]
       /\ history' = [history EXCEPT ![slot[o]] = @ \cup {outcome}]

\* Variant: the outcome is dropped when the object is no longer current.
CompleteIfCurrent(r, outcome) ==
  IF captured[r] # CurrentOf(WorkerOf[r])
  THEN UNCHANGED <<slot, history>> ELSE CompleteExecution(captured[r], outcome)

\* A request completes the object it captured, current or not.
Complete(r, outcome) == CompleteExecution(captured[r], outcome)

-----------------------------------------------------------------------------
(* requestReasoning().                                                     *)

\* The coordinator's own limit, over all workers.
AtLimit == Cardinality(activeRequests) >= MaxConcurrentRequests

IsBusy(o) == o # None /\ slot[o] # None

\* Refused at once: the concurrency limit, or the worker is busy.
RefuseRequest(r) ==
  /\ pc[r] = "idle"
  /\ AtLimit \/ IsBusy(CurrentOf(WorkerOf[r]))
  /\ pc' = [pc EXCEPT ![r] = "done"]
  /\ result' = [result EXCEPT ![r] = "FAILED"]
  /\ UNCHANGED <<storeVars, slot, history, captured, activeRequests, tracked, process, logged>>

\* The local `worker` of requestReasoning().
WorkerFor(r) == CurrentOf(WorkerOf[r])

\* Accepted, up to the first await: the plugin selection.
AcceptRequest(r) ==
  /\ pc[r] = "idle"
  /\ ~AtLimit /\ ~IsBusy(CurrentOf(WorkerOf[r]))
  /\ activeRequests' = activeRequests \cup {r}
  /\ captured' = [captured EXCEPT ![r] = WorkerFor(r)]
  /\ pc' = [pc EXCEPT ![r] = "selecting"]
  /\ UNCHANGED <<storeVars, slot, history, result, tracked, process, logged>>

\* The selection strategy found no plugin.
NoPlugin(r) ==
  /\ pc[r] = "selecting"
  /\ activeRequests' = activeRequests \ {r}
  /\ pc' = [pc EXCEPT ![r] = "done"]
  /\ result' = [result EXCEPT ![r] = "FAILED"]
  /\ UNCHANGED <<storeVars, slot, history, captured, tracked, process, logged>>

\* activeChildProcesses.delete(workerId).
Untrack(id) == tracked' = [tracked EXCEPT ![id] = None]

\* The exit line; if it cannot be written, the request is settled as a failure.
LogExit(r, outcome) ==
  Write({WorkerOf[r]}) \/ (outcome = "FAILED" /\ UNCHANGED logged)

\* Variant: beginExecution() without its check.
MayBeginAlways(r) == pc[r] = "selecting"

\* The plugin is there and the captured object's slot is free.
MayBegin(r) == pc[r] = "selecting" /\ ~IsBusy(captured[r])

\* beginExecution(): the captured object is busy with r.
TakeSlot(r) ==
  slot' = IF captured[r] = None THEN slot ELSE [slot EXCEPT ![captured[r]] = r]

\* A plugin was selected and the slot of the captured object is taken: the
\* CLI process is spawned synchronously and entered under the worker's id.
BeginExecution(r) ==
  /\ MayBegin(r)
  /\ TakeSlot(r)
  /\ pc' = [pc EXCEPT ![r] = "executing"]
  /\ process' = [process EXCEPT ![r] = "running"]
  /\ tracked' = [tracked EXCEPT ![WorkerOf[r]] = r]
  /\ Write({WorkerOf[r]})
  /\ UNCHANGED <<storeVars, history, captured, result, activeRequests>>

\* The same with a plugin that runs no process: an in-process one, a CLI that
\* is not installed, or one that cannot be spawned (then the plugin drops the
\* entry of the worker id).  It settles in the same turn.
BeginWithoutProcess(r, outcome) ==
  /\ MayBegin(r)
  /\ history' = IF captured[r] = None THEN history
                ELSE [history EXCEPT ![r] = @ \cup {outcome}]
  /\ pc' = [pc EXCEPT ![r] = "done"]
  /\ result' = [result EXCEPT ![r] = outcome]
  /\ activeRequests' = activeRequests \ {r}
  /\ UNCHANGED tracked \/ (outcome = "FAILED" /\ Untrack(WorkerOf[r]))
  /\ Write({WorkerOf[r]})
  /\ UNCHANGED <<storeVars, slot, captured, process>>

\* The line that announces the execution cannot be written, between
\* beginExecution() and the try: the exception leaves the slot taken and the
\* entry in activeRequests (the log file may be there all the same).
AnnounceThrows(r) ==
  /\ MayBegin(r)
  /\ TakeSlot(r)
  /\ pc' = [pc EXCEPT ![r] = "unlogged"]
  /\ Write({}) \/ Write({WorkerOf[r]})
  /\ UNCHANGED <<storeVars, history, captured, result, activeRequests, tracked, process>>

\* Another request began on the object during the selection: beginExecution()
\* throws out of requestReasoning(), which leaves its entry in activeRequests.
BeginThrows(r) ==
  /\ pc[r] = "selecting" /\ IsBusy(captured[r])
  /\ pc' = [pc EXCEPT ![r] = "threw"]
  /\ UNCHANGED <<storeVars, slot, history, captured, result, activeRequests,
                 tracked, process, logged>>

\* Variant: a killed process (exit code null) settles nothing.
SettleUnlessKilled(r, outcome) ==
  /\ pc[r] = "executing" /\ process[r] = "running"
  /\ process' = [process EXCEPT ![r] = "gone"]
  /\ Untrack(WorkerOf[r])
  /\ activeRequests' = activeRequests \ {r}
  /\ Complete(r, outcome)
  /\ pc' = [pc EXCEPT ![r] = "done"]
  /\ result' = [result EXCEPT ![r] = outcome]
  /\ LogExit(r, outcome)
  /\ UNCHANGED <<storeVars, captured>>

\* The process closed, failed to start, or its timeout killed it: the plugin
\* drops the entry of the worker id, whoever's it is, and the coordinator
\* settles the request and completes the captured object.
Settle(r, outcome) ==
  /\ pc[r] = "executing"
  /\ process' = [process EXCEPT ![r] = "gone"]
  /\ Untrack(WorkerOf[r])
  /\ activeRequests' = activeRequests \ {r}
  /\ Complete(r, outcome)
  /\ pc' = [pc EXCEPT ![r] = "done"]
  /\ result' = [result EXCEPT ![r] = outcome]
  /\ LogExit(r, outcome)
  /\ UNCHANGED <<storeVars, captured>>

\* The process writes output, which is appended to the log of the worker id
\* (a failure of that append ends the whole program: KernelLifecycle).
OutputChunk(r) ==
  /\ process[r] = "running"
  /\ Write({WorkerOf[r]})
  /\ UNCHANGED <<storeVars, slot, history, pc, captured, result, activeRequests,
                 tracked, process>>

-----------------------------------------------------------------------------
(* The operator.                                                           *)

\* cancelForWorker(): kill the process tracked for the id, then free the slot
\* of the current object; the killed process has not closed yet.  The line
\* in the log comes last.
CancelForWorker(w) ==
  /\ "interrupt" \in Commands
  /\ IsBusy(current[w])
  /\ process' = IF tracked[w] = None THEN process ELSE [process EXCEPT ![tracked[w]] = "killed"]
  /\ tracked' = [tracked EXCEPT ![w] = None]
  /\ activeRequests' = activeRequests \ {slot[current[w]]}
  /\ CompleteExecution(current[w], "INTERRUPTED")
  /\ Write({}) \/ Write({w})
  /\ UNCHANGED <<storeVars, pc, captured, result>>

\* cancelReasoning(): only forgets the request; nothing in src/ calls it.
CancelReasoning(r) ==
  /\ "cancel" \in Commands
  /\ r \in activeRequests
  /\ activeRequests' = activeRequests \ {r}
  /\ UNCHANGED <<storeVars, slot, history, pc, captured, result, tracked, process, logged>>

\* WorkerStore.register(): a fresh object under the id.
NewObject(w) ==
  /\ spawned[w] < MaxSpawns
  /\ spawned' = [spawned EXCEPT ![w] = @ + 1]
  /\ current' = [current EXCEPT ![w] = <<w, spawned[w] + 1>>]
  /\ UNCHANGED <<slot, history, pc, captured, result, activeRequests, tracked, process, logged>>

\* restartWorker(), by the operator or the crash policy: a new Worker object
\* without an activeExecution; the CLI process of the old one runs on.
RestartWorker(w) == "restart" \in Commands /\ current[w] # None /\ NewObject(w)

\* worker-start: a new Worker object whether or not the id is in use.
StartWorker(w) == "start" \in Commands /\ NewObject(w)

\* stopWorker() of a worker that is removed for good: its log goes with it.
StopWorker(w) ==
  /\ "stop" \in Commands
  /\ current[w] # None
  /\ current' = [current EXCEPT ![w] = None]
  /\ logged' = logged \ {w}
  /\ UNCHANGED <<spawned, slot, history, pc, captured, result, activeRequests, tracked, process>>

-----------------------------------------------------------------------------
Init ==
  /\ current = [w \in Workers |-> <<w, 0>>]
  /\ spawned = [w \in Workers |-> 0]
  /\ slot = [o \in Object |-> None]
  /\ history = [r \in Requests |-> {}]
  /\ pc = [r \in Requests |-> "idle"]
  /\ captured = [r \in Requests |-> None]
  /\ result = [r \in Requests |-> None]
  /\ activeRequests = {}
  /\ tracked = [id \in Ids |-> None]
  /\ process = [r \in Requests |-> "none"]
  /\ logged = {}

Begin(r) ==
  \/ BeginExecution(r)
  \/ BeginThrows(r) \/ AnnounceThrows(r)
  \/ \E outcome \in {"COMPLETED", "FAILED"} : BeginWithoutProcess(r, outcome)
Advance(r) ==
  \/ NoPlugin(r) \/ Begin(r)
  \/ \E outcome \in {"COMPLETED", "FAILED"} : Settle(r, outcome)
Operator(w) ==
  \/ CancelForWorker(w) \/ RestartWorker(w) \/ StartWorker(w) \/ StopWorker(w)

Next ==
  \/ \E r \in Requests :
       RefuseRequest(r) \/ AcceptRequest(r) \/ Advance(r) \/ OutputChunk(r) \/ CancelReasoning(r)
  \/ \E w \in Workers : Operator(w)

Spec == Init /\ [][Next]_vars

\* A selection ends, and the timeout of runCliProcess() settles a process
\* that does not close by itself.
FairSpec == Spec /\ \A r \in Requests : WF_vars(Advance(r))
-----------------------------------------------------------------------------
(* Properties.                                                             *)

TypeOK ==
  /\ current \in [Workers -> Object \cup {None}]
  /\ spawned \in [Workers -> 0..MaxSpawns]
  /\ slot \in [Object -> Requests \cup {None}]
  /\ history \in [Requests -> SUBSET Outcome]
  /\ pc \in [Requests -> Phase]
  /\ captured \in [Requests -> Object \cup {None}]
  /\ result \in [Requests -> Outcome \cup {None}]
  /\ activeRequests \subseteq Requests
  /\ tracked \in [Ids -> Requests \cup {None}]
  /\ process \in [Requests -> {"none", "running", "killed", "gone"}]
  /\ logged \subseteq Ids

\* A busy worker is busy with a request that is really executing on it: no
\* interleaving of interrupts, restarts and late closes leaves a Worker
\* holding the slot of a request that is over (Worker.activeExecution).  Only
\* a request that could not write its first log line keeps it ("unlogged").
SlotHeldByItsFlight ==
  \A o \in Object : \A r \in Requests :
    slot[o] = r => pc[r] \in {"executing", "unlogged"} /\ captured[r] = o

\* The plugin's table never names a process that is over or was killed
\* before: cancel() never signals the process group of a settled request.
TrackedIsRunning ==
  \A id \in Ids : \A r \in Requests :
    tracked[id] = r => pc[r] = "executing" /\ process[r] = "running" /\ WorkerOf[r] = id

\* ReasoningPolicy.maxConcurrentRequests bounds the requests the coordinator
\* has open, and a request that has returned is not among them.
ConcurrencyIsBounded ==
  /\ Cardinality(activeRequests) <= MaxConcurrentRequests
  /\ \A r \in activeRequests : pc[r] \in {"selecting", "executing", "threw", "unlogged"}

\* Somebody interrupted a request that held this Worker object.
Interrupted(o) == \E r \in Requests : captured[r] = o /\ "INTERRUPTED" \in history[r]

\* Worker.beginExecution() as the gate of requestReasoning(): of two requests
\* that select a plugin at the same time for one Worker object, one executes.
\* Only an interrupt breaks this: it frees the slot before the killed process
\* has closed, and the late close frees it again (lines 60 and 164).
SingleFlightUnlessInterrupted ==
  \A r, s \in Requests :
    process[r] = "running" /\ process[s] = "running" /\ captured[r] = captured[s]
      => r = s \/ captured[r] = None \/ Interrupted(captured[r])

\* The worker's history says of a request what its caller was told (lines
\* 164-178), also when the worker was restarted or removed meanwhile; only
\* after an interrupt it may say anything.
HonestUnlessInterrupted ==
  \A r \in Requests :
    pc[r] = "done" => history[r] \subseteq {result[r]} \/ Interrupted(captured[r])

\* Every accepted request comes to an end.
RequestsSettle ==
  \A r \in Requests : pc[r] = "selecting" ~> pc[r] \in {"done", "threw", "unlogged"}
=============================================================================
