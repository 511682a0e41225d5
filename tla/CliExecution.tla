---------------------------- MODULE CliExecution ----------------------------
(***************************************************************************)
(* External programs in the second version: runCliProcess(), the plugin    *)
(* object that owns the calls (CliRuntimePlugin and ClaudeCodeRuntime-     *)
(* Plugin: initialize, execute, cancel, shutdown), and runNpmScript() of   *)
(* the verification steps, which has the same settling but no process      *)
(* group and no table.                                                     *)
(*                                                                         *)
(* A child is a leader and, possibly, a process it forked, which holds the *)
(* leader's pipes: 'close' comes when both are gone.  The CLI's child is a *)
(* group of its own and a kill reaches both; npm's script is not.          *)
(***************************************************************************)
EXTENDS FiniteSets

CONSTANTS
  CliWorkers,           \* who calls
  CliCalls, NpmCalls,   \* calls of execute(), and of runNpmScript()
  NoCall

CallIds == CliCalls \cup NpmCalls

\* A call is of the CLI or of npm.
ASSUME CliAssumption == NoCall \notin CliCalls /\ CliCalls \cap NpmCalls = {}

VARIABLES
  detected,    \* detectionResult.available
  initialized, \* isInitialized
  worker,      \* of a call of execute(): its workerId
  leader,      \* of a call: idle, noSpawn, running, signalled, exited0/N, closed0/N
  forked,      \* a process the leader forked is running
  settled,     \* runCliProcess()'s promise: none, success, failure, timeout
  table,       \* activeChildProcesses
  interrupted  \* workers with a cancelled call, until all of theirs have settled (history)

cliVars == <<detected, initialized, worker, leader, forked, settled, table, interrupted>>

CliInit ==
  /\ detected = FALSE /\ initialized = FALSE
  /\ worker \in [CliCalls -> CliWorkers]
  /\ leader = [c \in CallIds |-> "idle"]
  /\ forked = [c \in CallIds |-> FALSE]
  /\ settled = [c \in CallIds |-> "none"]
  /\ table = [w \in CliWorkers |-> NoCall]
  /\ interrupted = {}

Pending(c) == leader[c] # "idle" /\ settled[c] = "none"

\* initialize() looks the executable up; done again when the plugin is loaded again.
Initialize ==
  /\ detected' \in BOOLEAN /\ initialized' = TRUE
  /\ \A c \in CliCalls : ~Pending(c)
  /\ UNCHANGED <<worker, leader, forked, settled, table, interrupted>>

\* The continuation of `await runCliProcess()`: whichever way the call settles
\* and whatever the entry of its worker is by then, the entry is deleted.
Settles(c, how) ==
  /\ settled' = [settled EXCEPT ![c] = how]
  /\ IF c \in CliCalls
     THEN /\ table' = [table EXCEPT ![worker[c]] = NoCall]
          /\ interrupted' = {w \in interrupted :
               \E d \in CliCalls \ {c} : worker[d] = w /\ Pending(d)}
     ELSE UNCHANGED <<table, interrupted>>

\* The coordinator keeps a worker to one call, up to interrupts: a call that was
\* cancelled is out of the table, not yet settled, and another may begin.
MayExecute(w) ==
  /\ table[w] = NoCall
  /\ w \notin interrupted => \A d \in CliCalls : worker[d] = w => ~Pending(d)

\* execute(): an honest failure without the CLI; the spawner throws; or a child
\* is there, or its 'error' is to come, and it is entered in the table.
Execute(c) ==
  /\ c \in CliCalls /\ leader[c] = "idle" /\ settled[c] = "none"
  /\ MayExecute(worker[c])
  /\ \/ /\ UNCHANGED <<leader, interrupted>>
        /\ settled' = [settled EXCEPT ![c] = "failure"]
        /\ table' = IF detected THEN [table EXCEPT ![worker[c]] = NoCall] ELSE table
     \/ /\ detected
        /\ leader' \in {[leader EXCEPT ![c] = "running"], [leader EXCEPT ![c] = "noSpawn"]}
        /\ table' = [table EXCEPT ![worker[c]] = c]
        /\ UNCHANGED <<settled, interrupted>>
  /\ UNCHANGED <<detected, initialized, worker, forked>>

\* runNpmScript(), after checkNpmScriptRunnable().
RunNpmScript(c) ==
  /\ c \in NpmCalls /\ leader[c] = "idle" /\ settled[c] = "none"
  /\ \/ settled' = [settled EXCEPT ![c] = "failure"] /\ UNCHANGED leader
     \/ /\ leader' \in {[leader EXCEPT ![c] = "running"], [leader EXCEPT ![c] = "noSpawn"]}
        /\ UNCHANGED settled
  /\ UNCHANGED <<detected, initialized, worker, forked, table, interrupted>>

-----------------------------------------------------------------------------
(* The processes.                                                          *)

Fork(c) ==
  /\ leader[c] = "running" /\ ~forked[c]
  /\ forked' = [forked EXCEPT ![c] = TRUE]
  /\ UNCHANGED <<detected, initialized, worker, leader, settled, table, interrupted>>

LeaderExits(c) ==
  /\ \/ leader[c] = "running" /\ leader' \in {[leader EXCEPT ![c] = "exited0"],
                                              [leader EXCEPT ![c] = "exitedN"]}
     \/ leader[c] = "signalled" /\ leader' = [leader EXCEPT ![c] = "exitedN"]
  /\ UNCHANGED <<detected, initialized, worker, forked, settled, table, interrupted>>

ForkedEnds(c) ==
  /\ forked[c] /\ forked' = [forked EXCEPT ![c] = FALSE]
  /\ UNCHANGED <<detected, initialized, worker, leader, settled, table, interrupted>>

\* killProcessGroup(): the whole group, also when its leader is gone already.
\* child.kill() of runNpmScript(): the leader.
KilledLeader(S) ==
  [c \in CallIds |-> IF c \in S /\ leader[c] = "running" THEN "signalled" ELSE leader[c]]
\* Variant: of the CLI's group, too, only the leader.
LeaderOnly(S) == forked

KilledForked(S) == [c \in CallIds |-> forked[c] /\ ~(c \in S /\ c \in CliCalls)]

-----------------------------------------------------------------------------
(* The events of runCliProcess(): the first one settles the call.          *)

CliErrorEvent(c) ==
  /\ leader[c] = "noSpawn"
  /\ leader' = [leader EXCEPT ![c] = "closedN"]
  /\ IF settled[c] = "none"
     THEN Settles(c, "failure")
     ELSE UNCHANGED <<settled, table, interrupted>>
  /\ UNCHANGED <<detected, initialized, worker, forked>>

\* Variant: 'close' settles a call that has settled.
CloseSettles(c) ==
  /\ leader[c] \in {"exited0", "exitedN"} /\ ~forked[c]
  /\ leader' = [leader EXCEPT ![c] = "closedN"]
  /\ Settles(c, "failure")
  /\ UNCHANGED <<detected, initialized, worker, forked>>

CliCloseEvent(c) ==
  /\ leader[c] \in {"exited0", "exitedN"} /\ ~forked[c]
  /\ leader' = [leader EXCEPT ![c] = IF leader[c] = "exited0" THEN "closed0" ELSE "closedN"]
  /\ IF settled[c] = "none"
     THEN Settles(c, IF leader[c] = "exited0" THEN "success" ELSE "failure")
     ELSE UNCHANGED <<settled, table, interrupted>>
  /\ UNCHANGED <<detected, initialized, worker, forked>>

\* Variant: the program is killed and its 'close' awaited.
TimeoutKills(c) ==
  /\ Pending(c) /\ leader[c] = "running"
  /\ leader' = KilledLeader({c}) /\ forked' = KilledForked({c})
  /\ UNCHANGED <<detected, initialized, worker, settled, table, interrupted>>

CliTimeout(c) ==
  /\ Pending(c) /\ leader[c] # "noSpawn"
  /\ leader' = KilledLeader({c}) /\ forked' = KilledForked({c})
  /\ Settles(c, "timeout")
  /\ UNCHANGED <<detected, initialized, worker>>

-----------------------------------------------------------------------------
(* The plugin's cancel(workerId) and shutdown().                           *)

Cancel(w) ==
  /\ table[w] # NoCall
  /\ leader' = KilledLeader({table[w]}) /\ forked' = KilledForked({table[w]})
  /\ table' = [table EXCEPT ![w] = NoCall]
  /\ interrupted' = interrupted \cup {w}
  /\ UNCHANGED <<detected, initialized, worker, settled>>

Shutdown ==
  /\ initialized /\ initialized' = FALSE
  /\ LET known == {table[w] : w \in CliWorkers} \ {NoCall}
     IN /\ leader' = KilledLeader(known) /\ forked' = KilledForked(known)
        /\ interrupted' = interrupted \cup {worker[c] : c \in known}
  /\ table' = [w \in CliWorkers |-> NoCall]
  /\ UNCHANGED <<detected, worker, settled>>

CliNext ==
  \/ Initialize \/ Shutdown
  \/ \E w \in CliWorkers : Cancel(w)
  \/ \E c \in CallIds :
       \/ Execute(c) \/ RunNpmScript(c) \/ Fork(c) \/ LeaderExits(c) \/ ForkedEnds(c)
       \/ CliErrorEvent(c) \/ CliCloseEvent(c) \/ CliTimeout(c)

CliSpec == CliInit /\ [][CliNext]_cliVars

\* Only the timers and the event loop are fair: a program may run for ever, and
\* so may one that it forked.
CliFairness == \A c \in CallIds : WF_cliVars(CliTimeout(c)) /\ WF_cliVars(CliErrorEvent(c))
CliFairSpec == CliSpec /\ CliFairness

-----------------------------------------------------------------------------
(* Properties.                                                             *)

\* cancel() and shutdown() reach every program that runs for a worker: it is in
\* the table until its call settles.  (Except for a worker that was interrupted:
\* the end of the old call deletes the entry of the new one.)
RunningIsInTable ==
  \A c \in CliCalls :
    Pending(c) /\ leader[c] = "running" /\ worker[c] \notin interrupted => table[worker[c]] = c

\* No program of a provider outlives its answer: when the call has settled,
\* leader and group are over or killed, by whichever way it settled.
NothingRunsOn ==
  \A c \in CliCalls : settled[c] # "none" => leader[c] # "running" /\ ~forked[c]

RunningIsReachable == RunningIsInTable /\ NothingRunsOn

\* Every call is answered, also when a forked process keeps the pipes open.
CallsSettle == \A c \in CallIds : Pending(c) ~> settled[c] # "none"

\* Each call implements ChildRun.
CallRun(c) == INSTANCE ChildRun WITH
  process <- CASE leader[c] = "idle" -> "unborn"
               [] leader[c] \in {"running", "signalled"} -> leader[c]
               [] leader[c] \in {"exited0", "closed0"} -> "succeeded"
               [] leader[c] \in {"noSpawn", "exitedN", "closedN"} -> "failed",
  outcome <- IF settled[c] = "timeout" THEN "givenUp" ELSE settled[c]
CliCallsAreRuns ==
  /\ \A c \in CallIds : CallRun(c)!Init
  /\ [][\A c \in CallIds : [CallRun(c)!Next]_(CallRun(c)!vars)]_cliVars
=============================================================================
