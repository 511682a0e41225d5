-------------------------- MODULE KernelLifecycle --------------------------
(***************************************************************************)
(* The life of the SE-OS process: main() of bin.ts, Kernel.boot() and      *)
(* Kernel.shutdown(), the ProcessGuardian, the three SQLite handles, the   *)
(* terminal UI through which the operator quits, and what is left of the   *)
(* workers' processes when this one is gone.                               *)
(*                                                                         *)
(* One action is one turn of the event loop.  shutdown() is a coroutine    *)
(* with one await per handle it closes, and two callers can be in it at    *)
(* once, the guardian and the 'q' of the terminal.  When the policy heals  *)
(* and when it gives up is the subject of WorkerSupervision; here a crash  *)
(* may set off a sleeping restart, which may strike a process that has     *)
(* come back meanwhile, or a company that is being shut down.              *)
(***************************************************************************)
EXTENDS Naturals, FiniteSets

CONSTANTS
  Workers,   \* the workers company.json, or the default, can name
  Eventful   \* bound: those who crash, are spawned twice, or have the cursor of the tab

ASSUME WorkersAssumption == IsFiniteSet(Workers) /\ Eventful \subseteq Workers

Stores == {"events", "memory", "workforce"}
Rank == [events |-> 1, memory |-> 2, workforce |-> 3]
Callers == {"guardian", "terminal"}

Connecting == {"events", "memory", "workforce", "projects", "plugins"}
Stages == Connecting \cup {"providers", "launch", "interface", "returned", "threw"}

Screens == {"STARTUP", "RUNTIME_SELECTION", "MAIN_MENU", "NEW_PROJECT_PROMPT",
            "PROJECT_SELECTOR", "PROJECT_EXECUTION"}
\* "VIEW" stands for WORKSPACE, TERMINALS, VERIFICATION and LOGS.
Tabs == {"DASHBOARD", "WORKERS", "CHAT", "VIEW"}

VARIABLES
  main,        \* where main() of bin.ts is: what it awaits, or how it ended
  isBooted,    \* Kernel.isBooted
  heartbeat,   \* the supervisor's timer is set: the event loop does not end
  db,          \* handle of a store: null, open, or close() under way
  closer,      \* of a closing handle: the caller whose close() came first
  isClosed,    \* SqliteEventStore.isClosed
  pc,          \* of a caller of shutdown(): the store it closes, or its end
  shuttingDown,\* ProcessGuardian: no, or what it shuts down for
  process,     \* the child in the supervisor's map: none, running, suspended, told, gone
  killed,      \* ChildProcess.killed of it: a signal has been sent, SIGCONT included
  former,      \* the children the map no longer has, and that still run
  doubled,     \* workers that boot() spawned more than once (history)
  backoff,     \* workers for whom a restart of WorkerLifecyclePolicy sleeps
  employed,    \* WorkerStore: the workers whose process is in the supervisor's map
  calls,       \* a provider's CLI, a process group of its own, is running
  screen, tab, \* TuiApp: currentScreen ("off": not rendered, or unmounted), activeTab
  exit,        \* the process: alive, or its exit code, zero or one
  fatal        \* runFatal() has been entered (history)

staff == <<process, killed, employed, former, doubled, backoff>>
kernelVars == <<isBooted, heartbeat, db, closer, isClosed, pc, staff>>
vars == <<main, isBooted, heartbeat, db, closer, isClosed, pc, shuttingDown,
          process, killed, employed, former, doubled, backoff,
          calls, screen, tab, exit, fatal>>

Alive == exit = "alive"

\* A child that was replaced: it runs, is stopped, or was told to end.
Replaced == [state: {"running", "suspended", "told"}, killed: BOOLEAN]

Init ==
  /\ main = "events"
  /\ isBooted = FALSE /\ heartbeat = FALSE
  /\ db = [s \in Stores |-> "null"]
  /\ closer = [s \in Stores |-> "guardian"]
  /\ isClosed = FALSE
  /\ pc = [c \in Callers |-> "idle"]
  /\ shuttingDown = "no"
  /\ process = [w \in Workers |-> "none"]
  /\ killed = [w \in Workers |-> FALSE]
  /\ employed = {}
  /\ former = [w \in Workers |-> {}]
  /\ doubled = {} /\ backoff = {}
  /\ calls = FALSE
  /\ screen = "off" /\ tab = "DASHBOARD"
  /\ exit = "alive"
  /\ fatal = FALSE

-----------------------------------------------------------------------------
(* Booting.                                                                *)

\* connect() of the three stores, one after the other.
Connects(s, next) ==
  /\ Alive /\ main = s /\ main' = next
  /\ db' = [db EXCEPT ![s] = "open"]
  /\ UNCHANGED <<isBooted, heartbeat, closer, isClosed, pc, shuttingDown, staff,
                 calls, screen, tab, exit, fatal>>
ConnectEvents == Connects("events", "memory")
ConnectMemory == Connects("memory", "workforce")
ConnectWorkforce == Connects("workforce", "projects")

\* The rows of stale projects are read and written, the mock plugin is loaded.
BootAwaits ==
  /\ Alive
  /\ \/ main = "projects" /\ main' = "plugins"
     \/ main = "providers" /\ main' = "launch"
  /\ UNCHANGED <<kernelVars, shuttingDown, calls, screen, tab, exit, fatal>>

\* The tail of boot() runs without an await: supervision is started, the
\* container filled, the workers of the configuration (or the default ones,
\* or both when the configuration fails half way) are spawned.  Of an id that is
\* spawned twice, the map keeps the second child; the first one runs on.
BootCompletes ==
  /\ Alive /\ main = "plugins"
  /\ main' = "providers"
  /\ \E hired \in SUBSET Workers :
       /\ employed' = hired
       /\ process' = [w \in Workers |-> IF w \in hired THEN "running" ELSE "none"]
       /\ doubled' \in SUBSET (hired \cap Eventful)
       /\ former' = [w \in Workers |->
            IF w \in doubled' THEN {[state |-> "running", killed |-> FALSE]} ELSE {}]
  /\ isBooted' = TRUE /\ heartbeat' = TRUE
  /\ UNCHANGED <<db, closer, isClosed, pc, shuttingDown, killed, backoff, calls,
                 screen, tab, exit, fatal>>

\* tuiLaunch(): without a terminal it returns at once, and the company runs on.
Launch ==
  /\ Alive /\ main = "launch"
  /\ \/ main' = "interface" /\ screen' = "STARTUP"
     \/ main' = "returned" /\ UNCHANGED screen
  /\ UNCHANGED <<kernelVars, shuttingDown, calls, tab, exit, fatal>>

\* A store, a plugin or the import of the interface throws: the catch
\* block of main() exits without a shutdown.
LaunchFails ==
  /\ Alive /\ main \in Connecting \cup {"launch"}
  /\ main' = "threw" /\ exit' = "one"
  /\ UNCHANGED <<kernelVars, shuttingDown, calls, screen, tab, fatal>>

-----------------------------------------------------------------------------
(* Shutting down.                                                          *)

\* The first store from rank i on that has a handle; with none left, shutdown()
\* returns.  close() returns at once when there is no handle.
NextToClose(d, i) ==
  IF \E s \in Stores : Rank[s] >= i /\ d[s] # "null"
  THEN CHOOSE s \in Stores :
         /\ Rank[s] >= i /\ d[s] # "null"
         /\ \A r \in Stores : Rank[r] >= i /\ d[r] # "null" => Rank[s] <= Rank[r]
  ELSE "returned"

\* Caller c reaches the close() of store s, or the end of shutdown().
Reach(c, s, d) ==
  /\ db' = IF s \in Stores THEN [d EXCEPT ![s] = "closing"] ELSE d
  /\ closer' = IF s \in Stores /\ d[s] = "open" THEN [closer EXCEPT ![s] = c] ELSE closer
  /\ isBooted' = (isBooted /\ s # "returned")

\* stopWorker() for every worker of the store.  A child that has .killed set,
\* because it was paused once, is not told to end.
Told(w) == w \in employed /\ process[w] = "running" /\ ~killed[w]
StopWorkers ==
  /\ process' = [w \in Workers |-> IF Told(w) THEN "told" ELSE process[w]]
  /\ killed' = [w \in Workers |-> killed[w] \/ Told(w)]
  /\ employed' = {}
  /\ heartbeat' = FALSE
  /\ UNCHANGED <<former, doubled, backoff>>

\* Variant: isBooted is cleared first, against a second call, so that the
\* second caller returns, and exits, while the first still closes.
BeginShutdownOnce(c) ==
  IF ~isBooted
  THEN /\ pc' = [pc EXCEPT ![c] = "returned"]
       /\ UNCHANGED <<isBooted, heartbeat, db, closer, isClosed, staff>>
  ELSE LET s == NextToClose(db, 1)
       IN /\ StopWorkers
          /\ isClosed' = TRUE /\ isBooted' = FALSE
          /\ db' = [db EXCEPT ![s] = "closing"] /\ closer' = [closer EXCEPT ![s] = c]
          /\ pc' = [pc EXCEPT ![c] = s]

\* Kernel.shutdown() up to its first await, or to its end.
BeginShutdown(c) ==
  IF ~isBooted
  THEN /\ pc' = [pc EXCEPT ![c] = "returned"]
       /\ UNCHANGED <<isBooted, heartbeat, db, closer, isClosed, staff>>
  ELSE LET s == NextToClose(db, 1)
       IN /\ StopWorkers
          /\ isClosed' = TRUE
          /\ Reach(c, s, db)
          /\ pc' = [pc EXCEPT ![c] = s]

\* The guardian's continuation runs in the same turn as the end of its await.
ExitCode(kind) ==
  CASE pc'["guardian"] = "returned" -> IF kind = "signal" THEN "zero" ELSE "one"
    [] pc'["guardian"] = "threw" -> "one"
    [] OTHER -> "alive"

\* runShutdown(); a second signal is ignored.
Signal ==
  /\ Alive /\ shuttingDown = "no"
  /\ shuttingDown' = "signal"
  /\ BeginShutdown("guardian")
  /\ exit' = ExitCode("signal")
  /\ UNCHANGED <<main, calls, screen, tab, fatal>>

\* Variant: the process exits without a drain.
RunFatalAtOnce ==
  /\ fatal' = TRUE /\ exit' = "one"
  /\ UNCHANGED <<main, kernelVars, shuttingDown, calls, screen, tab>>

\* runFatal(): during a shutdown it does not wait for the end of it.
RunFatal ==
  /\ fatal' = TRUE
  /\ IF shuttingDown # "no"
     THEN exit' = "one" /\ UNCHANGED <<kernelVars, shuttingDown>>
     ELSE /\ shuttingDown' = "fatal"
          /\ BeginShutdown("guardian")
          /\ exit' = ExitCode("fatal")
  /\ UNCHANGED <<main, calls, screen, tab>>

\* A child, also one that was replaced, writes to stderr: PtyEngine emits
\* 'error', which nobody listens to, and the emitter throws.
WorkerWritesToStderr(w) ==
  /\ Alive
  /\ \/ process[w] \in {"running", "told"}
     \/ \E p \in former[w] : p.state # "suspended"
  /\ RunFatal

\* Any other exception that escapes, or rejection that nobody handles.
ErrorEscapes ==
  /\ Alive /\ RunFatal

\* onExit() of the terminal is not awaited: shutdown() that rejects is one.
TerminalRejects ==
  /\ Alive /\ pc["terminal"] = "threw" /\ ~fatal
  /\ RunFatal

\* Variant: a close() that waited for another one is never answered.
CloseDoneOnce(s) ==
  /\ Alive /\ db[s] = "closing"
  /\ LET first == closer[s]
         d == [db EXCEPT ![s] = "null"]
         next == NextToClose(d, Rank[s] + 1)
     IN pc' = [pc EXCEPT ![first] = next] /\ Reach(first, next, d)
  /\ exit' = ExitCode(shuttingDown)
  /\ UNCHANGED <<main, heartbeat, isClosed, shuttingDown, staff,
                 calls, screen, tab, fatal>>

\* A handle is closed.  A second close() that waited for it fails: the event
\* store swallows that, the other two let shutdown() reject.  `this.db = null`.
CloseDone(s) ==
  /\ Alive /\ db[s] = "closing"
  /\ LET first == closer[s]
         d == [db EXCEPT ![s] = "null"]
         next == NextToClose(d, Rank[s] + 1)
         goOn == {first} \cup (IF s = "events" THEN {c \in Callers : pc[c] = s} ELSE {})
     IN /\ pc' = [c \in Callers |->
                    IF c \in goOn THEN next ELSE IF pc[c] = s THEN "threw" ELSE pc[c]]
        /\ Reach(first, next, d)
  /\ exit' = ExitCode(shuttingDown)
  /\ UNCHANGED <<main, heartbeat, isClosed, shuttingDown, staff,
                 calls, screen, tab, fatal>>

\* Work that is still under way writes to shared memory or to the workforce
\* tables: connect() opens a handle that was closed.  The event store refuses.
LateWrite(s) ==
  /\ Alive /\ s # "events" /\ main \notin Connecting
  /\ db[s] = "null"
  /\ db' = [db EXCEPT ![s] = "open"]
  /\ UNCHANGED <<main, isBooted, heartbeat, closer, isClosed, pc, shuttingDown, staff,
                 calls, screen, tab, exit, fatal>>

-----------------------------------------------------------------------------
(* Workers, provider calls, and the end of an idle process.                *)

staffOnly == <<main, isBooted, heartbeat, db, closer, isClosed, pc, shuttingDown,
               calls, screen, tab, exit, fatal>>

\* A crash, an exit with a code, sets off a restart of the policy that sleeps.
MayCrash(w) == backoff' \in {backoff, backoff \cup ({w} \cap Eventful)}

WorkerEnds(w) ==
  /\ Alive /\ process[w] \in {"running", "told"}
  /\ process' = [process EXCEPT ![w] = "gone"]
  /\ MayCrash(w)
  /\ UNCHANGED <<staffOnly, killed, employed, former, doubled>>

\* The end of a child that was replaced counts as one of the worker's.
FormerEnds(w, p) ==
  /\ Alive /\ p \in former[w] /\ p.state # "suspended"
  /\ former' = [former EXCEPT ![w] = @ \ {p}]
  /\ MayCrash(w)
  /\ UNCHANGED <<staffOnly, process, killed, employed, doubled>>

\* What restartWorker() leaves of the child it replaces: stopWorker() tells it to
\* end, unless .killed is set.
LeftBehind(w) ==
  IF process[w] \in {"running", "suspended"}
  THEN {[state |-> IF killed[w] THEN process[w] ELSE "told", killed |-> TRUE]}
  ELSE {}

\* restartWorker(), by 'r' of the workers' tab or by the policy whose sleep is
\* over, whatever has become of the worker's child by then.
OnWorkersTab(w) == screen = "PROJECT_EXECUTION" /\ tab = "WORKERS" /\ w \in Eventful
WorkerRestarts(w) ==
  /\ Alive /\ w \in employed
  /\ \/ OnWorkersTab(w) /\ backoff' = backoff
     \/ w \in backoff /\ backoff' \in {backoff, backoff \ {w}}
  /\ former' = [former EXCEPT ![w] = @ \cup LeftBehind(w)]
  /\ process' = [process EXCEPT ![w] = "running"]
  /\ killed' = [killed EXCEPT ![w] = FALSE]
  /\ UNCHANGED <<staffOnly, employed, doubled>>

\* The policy wakes up and the worker is gone from the store.
BackoffLapses(w) ==
  /\ Alive /\ w \in backoff \ employed
  /\ backoff' = backoff \ {w}
  /\ UNCHANGED <<staffOnly, process, killed, employed, former, doubled>>

\* A provider's CLI runs, detached; a timeout bounds it.  shutdown() leaves it.
CallBegins ==
  /\ Alive /\ isBooted /\ ~calls /\ calls' = TRUE
  /\ UNCHANGED <<main, kernelVars, shuttingDown, screen, tab, exit, fatal>>
CallEnds ==
  /\ Alive /\ calls /\ calls' = FALSE
  /\ UNCHANGED <<main, kernelVars, shuttingDown, screen, tab, exit, fatal>>

\* node exits when neither a timer, a child, a close nor the terminal is left.
IdleExit ==
  /\ Alive /\ main = "returned" /\ screen = "off"
  /\ ~heartbeat /\ ~calls /\ backoff = {}
  /\ \A s \in Stores : db[s] # "closing"
  /\ \A w \in Workers : process[w] \in {"none", "gone"} /\ former[w] = {}
  /\ pc["terminal"] # "threw"
  /\ exit' = "zero"
  /\ UNCHANGED <<main, kernelVars, shuttingDown, calls, screen, tab, fatal>>

-----------------------------------------------------------------------------
(* The terminal.                                                           *)

\* onContinue, onSelectRuntime, onSelectOption, onBack, onSelect, onStartProject;
\* 'SETTINGS' and the workspace viewer lead nowhere, nothing leads back from
\* the screen of a project.
Navigation ==
  [STARTUP |-> {"RUNTIME_SELECTION"},
   RUNTIME_SELECTION |-> {"MAIN_MENU"},
   MAIN_MENU |-> {"NEW_PROJECT_PROMPT", "PROJECT_SELECTOR", "PROJECT_EXECUTION"},
   NEW_PROJECT_PROMPT |-> {"PROJECT_EXECUTION"},
   PROJECT_SELECTOR |-> {"MAIN_MENU", "PROJECT_EXECUTION"},
   PROJECT_EXECUTION |-> {}]

Navigate ==
  /\ Alive /\ screen \in Screens
  /\ screen' \in Navigation[screen]
  /\ UNCHANGED <<main, kernelVars, shuttingDown, calls, tab, exit, fatal>>

\* Digits and the tab key change the tab, not while one types in the chat;
\* escape goes to the dashboard from everywhere.
SelectTab ==
  /\ Alive /\ screen = "PROJECT_EXECUTION"
  /\ tab' \in (IF tab = "CHAT" THEN {"DASHBOARD"} ELSE Tabs)
  /\ UNCHANGED <<main, kernelVars, shuttingDown, calls, screen, exit, fatal>>

\* 'q', or EXIT in the menu: the shutdown is begun, the interface unmounted,
\* waitUntilExit() resolves.
Quit ==
  /\ Alive /\ screen \in Screens \ {"NEW_PROJECT_PROMPT"} /\ tab # "CHAT"
  /\ screen' = "off" /\ tab' = "DASHBOARD" /\ main' = "returned"
  /\ BeginShutdown("terminal")
  /\ exit' = exit
  /\ UNCHANGED <<shuttingDown, calls, fatal>>

\* Ctrl+C, a key in raw mode: ink unmounts the interface, onExit() is not called.
Interrupt ==
  /\ Alive /\ screen \in Screens
  /\ screen' = "off" /\ tab' = "DASHBOARD" /\ main' = "returned"
  /\ UNCHANGED <<kernelVars, shuttingDown, calls, exit, fatal>>

\* 'p' and 'u' of the workers' tab.  Resuming is not refused to a child that runs.
Pause(w) ==
  /\ Alive /\ OnWorkersTab(w) /\ w \in employed /\ ~killed[w] /\ process[w] = "running"
  /\ process' = [process EXCEPT ![w] = "suspended"]
  /\ killed' = [killed EXCEPT ![w] = TRUE]
  /\ UNCHANGED <<staffOnly, employed, former, doubled, backoff>>
Resume(w) ==
  /\ Alive /\ OnWorkersTab(w) /\ w \in employed /\ process[w] \in {"running", "suspended"}
  /\ process' = [process EXCEPT ![w] = "running"]
  /\ killed' = [killed EXCEPT ![w] = TRUE]
  /\ UNCHANGED <<staffOnly, employed, former, doubled, backoff>>

-----------------------------------------------------------------------------
Boot == ConnectEvents \/ ConnectMemory \/ ConnectWorkforce \/ BootAwaits \/ BootCompletes \/ Launch

Next ==
  \/ Boot \/ LaunchFails
  \/ Signal \/ ErrorEscapes \/ TerminalRejects
  \/ \E s \in Stores : CloseDone(s) \/ LateWrite(s)
  \/ CallBegins \/ CallEnds \/ IdleExit
  \/ Navigate \/ SelectTab \/ Quit \/ Interrupt
  \/ \E w \in Workers :
       \/ WorkerWritesToStderr(w) \/ WorkerEnds(w) \/ \E p \in former[w] : FormerEnds(w, p)
       \/ WorkerRestarts(w) \/ BackoffLapses(w) \/ Pause(w) \/ Resume(w)

\* A pending close, a rejected promise, a provider call with its timeout, a sleep
\* and a process that was told to end all come to their end; an idle process exits.
Fairness ==
  /\ \A s \in Stores : WF_vars(CloseDone(s))
  /\ WF_vars(TerminalRejects) /\ WF_vars(CallEnds) /\ WF_vars(IdleExit)
  /\ \A w \in Workers :
       /\ WF_vars(process[w] = "told" /\ WorkerEnds(w))
       /\ WF_vars(\E p \in former[w] : p.state = "told" /\ FormerEnds(w, p))
       /\ WF_vars(BackoffLapses(w))

Spec == Init /\ [][Next]_vars
FairSpec == Spec /\ Fairness

-----------------------------------------------------------------------------
(* Properties.                                                             *)

TypeOK ==
  /\ main \in Stages
  /\ isBooted \in BOOLEAN /\ heartbeat \in BOOLEAN
  /\ db \in [Stores -> {"null", "open", "closing"}]
  /\ closer \in [Stores -> Callers]
  /\ isClosed \in BOOLEAN
  /\ pc \in [Callers -> Stores \cup {"idle", "returned", "threw"}]
  /\ shuttingDown \in {"no", "signal", "fatal"}
  /\ process \in [Workers -> {"none", "running", "suspended", "told", "gone"}]
  /\ killed \in [Workers -> BOOLEAN]
  /\ employed \in SUBSET Workers
  /\ former \in [Workers -> SUBSET Replaced]
  /\ doubled \in SUBSET Workers /\ backoff \in SUBSET Workers
  /\ calls \in BOOLEAN
  /\ screen \in Screens \cup {"off"} /\ tab \in Tabs
  /\ exit \in {"alive", "zero", "one"}
  /\ fatal \in BOOLEAN

\* A child that runs, or is stopped, and that no signal has been sent to.
Untouched(p) == p.state \in {"running", "suspended"} /\ ~p.killed
Abandoned(w) ==
  \/ process[w] \in {"running", "suspended"} /\ ~killed[w]
  \/ w \notin doubled /\ \E p \in former[w] : Untouched(p)

\* When the program is gone without having been cut short by its own failed
\* launch, every worker's child was told to end, those that restarts replaced
\* included, in every overlap of a signal, a fatal error, 'q' and the restarts of
\* operator and policy.  Not told are children that were sent a signal before, to
\* pause or resume them, and the first child of an id spawned twice.
NobodyIsAbandoned ==
  ~Alive /\ main # "threw" => \A w \in Workers : ~Abandoned(w)

\* Exit code 0 means a complete drain: no fatal error was raised, also not while
\* 'q' or a signal drained; after a boot, the kernel is down, no close of the
\* guardian is pending, and the event log is closed and stays so.
ZeroMeansDrained ==
  exit = "zero" =>
    /\ ~fatal
    /\ ~isBooted
    /\ \A s \in Stores : db[s] = "closing" => closer[s] = "terminal"
    /\ main \notin Connecting => isClosed /\ db["events"] = "null"

\* A child that was signalled before, or spawned over, and that no shutdown tells
\* to end keeps the event loop alive.
KeptByAChild ==
  \E w \in Workers :
    \/ process[w] \in {"running", "suspended"} /\ killed[w]
    \/ \E p \in former[w] : p.state # "told"

\* What the guardian begins it ends: no overlap of the two shutdowns leaves it
\* waiting for a handle.  And 'q' ends the program, unless such a child is left.
ShutdownEnds ==
  /\ shuttingDown # "no" ~> ~Alive
  /\ pc["terminal"] # "idle" ~> (~Alive \/ KeptByAChild)

=============================================================================
