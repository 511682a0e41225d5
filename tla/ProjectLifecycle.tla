-------------------------- MODULE ProjectLifecycle --------------------------
(***************************************************************************)
(* ProjectLifecycleOrchestrator: a goal starts a project (runProject) or   *)
(* continues one (continueProject, a chat turn).  A project is kept in     *)
(* memory (activeProjects, projectHistory), in project_history.json, and   *)
(* its status in the workforce database.  The awaits of a call are its     *)
(* database writes and the strategy's execution, hours of work in which    *)
(* the user gives other goals and the process may be restarted.            *)
(***************************************************************************)
EXTENDS Naturals, Sequences

CONSTANTS
  Projects,        \* proj-<ms>: each id is used once
  NoProject,       \* the project of a goal not given yet
  MaxGoals,        \* bound: goals given
  MaxRestarts      \* bound: restarts of the process

ASSUME LifecycleAssumption ==
  MaxGoals \in Nat /\ MaxRestarts \in Nat /\ NoProject \notin Projects

Goals == 1..MaxGoals

VARIABLES
  given,           \* the goals given so far are 1..given
  project, kind,   \* of a goal: its project; "run" or "continue"
  prior,           \* initialState or priorState: what the call read when it began
  pc,              \* what the call of a goal waits for
  outcome,         \* what the strategy returned
  active,          \* activeProjects
  projectHistory,
  stateFile,       \* project_history.json
  db,              \* status in workforce_projects_v2
  restarts,
  answered,        \* the turns a project has had (history)
  overlapped,      \* projects continued while a call of theirs ran (history)
  unsynced,        \* projects with a workspace that could not be copied (history)
  unwritten,       \* projects with a last status that was not stored (history)
  behind,          \* the last write of the file failed (history)
  forgotten        \* projects of which a restart then knew an older state (history)

memory == <<active, projectHistory>>
goalVars == <<given, project, kind>>
disk == <<stateFile, behind>>
history == <<answered, overlapped, unsynced, unwritten, forgotten>>
vars == <<goalVars, prior, pc, outcome, memory, disk, db, restarts, history>>

\* A project's state: its status, its conversation, and whether it knows its
\* workspace.  "none" is a project that is not in the map.
State(status, turns, workspace) == [status |-> status, turns |-> turns, workspace |-> workspace]
Unknown == State("none", <<>>, FALSE)
InitialState == State("PLANNING", <<>>, TRUE)

Known(p) == projectHistory[p] # Unknown
\* What loadHistory() makes of a file that does not parse.
Unreadable == [p \in Projects |-> Unknown]
Running == {"opening", "working", "closing", "failing"}
InFlight(p) == \E g \in Goals : pc[g] \in Running /\ project[g] = p

Init ==
  /\ given = 0
  /\ project = [g \in Goals |-> NoProject] /\ kind = [g \in Goals |-> "none"]
  /\ prior = [g \in Goals |-> Unknown]
  /\ pc = [g \in Goals |-> "none"]
  /\ outcome = [g \in Goals |-> "none"]
  /\ active = {}
  /\ projectHistory = Unreadable
  /\ stateFile = projectHistory /\ behind = FALSE
  /\ db = [p \in Projects |-> "none"]
  /\ restarts = 0
  /\ answered = [p \in Projects |-> <<>>]
  /\ overlapped = {} /\ unsynced = {} /\ unwritten = {} /\ forgotten = {}

-----------------------------------------------------------------------------
(* A goal is given: what happens before the first await.                   *)

Begin(p, how, state) ==
  LET g == given + 1 IN
  /\ given < MaxGoals
  /\ given' = g
  /\ project' = [project EXCEPT ![g] = p]
  /\ kind' = [kind EXCEPT ![g] = how]
  /\ prior' = [prior EXCEPT ![g] = state]
  /\ pc' = [pc EXCEPT ![g] = "opening"]
  /\ UNCHANGED <<outcome, projectHistory, disk, db, restarts, answered, unsynced, unwritten, forgotten>>

\* runProject(): the project wizard, the CLI, or a first chat message.
RunProject(p) ==
  /\ \A g \in Goals : project[g] # p
  /\ Begin(p, "run", InitialState)
  /\ active' = active \cup {p}
  /\ UNCHANGED overlapped

\* handleChatGoal() refuses a project that is PLANNING, which an active one is
\* until its run is over; continueProject().  The chat tab forgets that it waits
\* for an answer when the user looks at another tab.
ContinueProject(p) ==
  /\ p \notin active /\ Known(p)
  /\ Begin(p, "continue", projectHistory[p])
  /\ overlapped' = IF InFlight(p) THEN overlapped \cup {p} ELSE overlapped
  /\ UNCHANGED active

-----------------------------------------------------------------------------
(* The awaits of a call.                                                   *)

\* persistProject(): a write that fails is ignored.
Store(p, status) == db' = [db EXCEPT ![p] = status]

\* persistProject(PLANNING or EXECUTING)
Opened(g) ==
  /\ pc[g] = "opening"
  /\ pc' = [pc EXCEPT ![g] = "working"]
  /\ \/ Store(project[g], IF kind[g] = "run" THEN "PLANNING" ELSE "EXECUTING")
     \/ UNCHANGED db
  /\ UNCHANGED <<goalVars, prior, outcome, memory, disk, restarts, history>>

\* Variant: the new turn replaces the conversation.
OnlyTurn(g) == <<g>>

\* The conversation the call began with, and its own turn.
MergedTurns(g) == Append(prior[g].turns, g)

\* Variant: continueProject() does not write the file.
SavedRunOnly(g, merged) ==
  IF kind[g] = "run"
  THEN [projectHistory EXCEPT ![project[g]] = State(merged.status, <<>>, FALSE)]
  ELSE stateFile

\* persistHistory(): a write that fails is ignored.  The file is then as it was, or
\* it was truncated and does not parse.
PersistHistory(file) ==
  \/ stateFile' = file /\ behind' = FALSE
  \/ stateFile' \in {stateFile, Unreadable} /\ behind' = TRUE

\* What an answer writes: runProject() does so before it adds the workspace and the
\* first turn to the strategy's state.
Saved(g, merged) ==
  [projectHistory EXCEPT ![project[g]] =
     IF kind[g] = "run" THEN State(merged.status, <<>>, FALSE) ELSE merged]

StillRunning(g) == IF kind[g] = "run" THEN active \ {project[g]} ELSE active

\* The strategy returns; up to the await of the last persistProject().
Answer(g, status) ==
  LET p == project[g]
      merged == State(status, MergedTurns(g), prior[g].workspace) IN
  /\ pc[g] = "working"
  /\ pc' = [pc EXCEPT ![g] = "closing"]
  /\ outcome' = [outcome EXCEPT ![g] = status]
  /\ active' = StillRunning(g)
  /\ projectHistory' = [projectHistory EXCEPT ![p] = merged]
  /\ PersistHistory(Saved(g, merged))
  /\ answered' = [answered EXCEPT ![p] = Append(@, g)]
  /\ UNCHANGED <<goalVars, prior, db, restarts, overlapped, unsynced, unwritten, forgotten>>

\* A last status is stored, or not.
StoreLast(g, status) ==
  \/ Store(project[g], status) /\ UNCHANGED unwritten
  \/ unwritten' = unwritten \cup {project[g]} /\ UNCHANGED db

\* persistProject(COMPLETED or FAILED), the report, syncProjectWorkspace().
Close(g) ==
  /\ pc[g] = "closing"
  /\ pc' = [pc EXCEPT ![g] = "done"]
  /\ StoreLast(g, outcome[g])
  /\ UNCHANGED <<goalVars, prior, outcome, memory, disk, restarts, answered, overlapped, unsynced, forgotten>>

\* The workspace cannot be copied to the target: the catch block puts back the
\* state the call began with, as FAILED.
SyncFails(g) ==
  LET p == project[g]
      failed == State("FAILED", prior[g].turns, prior[g].workspace) IN
  /\ pc[g] = "closing" /\ prior[g].workspace
  /\ pc' = [pc EXCEPT ![g] = "failing"]
  /\ StoreLast(g, outcome[g])
  /\ projectHistory' = [projectHistory EXCEPT ![p] = failed]
  /\ PersistHistory(projectHistory')
  /\ unsynced' = unsynced \cup {p}
  /\ UNCHANGED <<goalVars, prior, outcome, active, restarts, answered, overlapped, forgotten>>

\* persistProject(FAILED)
CloseFailed(g) ==
  /\ pc[g] = "failing"
  /\ pc' = [pc EXCEPT ![g] = "done"]
  /\ StoreLast(g, "FAILED")
  /\ UNCHANGED <<goalVars, prior, outcome, memory, disk, restarts, answered, overlapped, unsynced, forgotten>>

-----------------------------------------------------------------------------
(* The process ends, with or without a crash, and boots again.             *)

\* Variant: a continuation is not taken for interrupted.
PlanningIsStale == {"PLANNING"}

\* Kernel.boot()
Stale == {"PLANNING", "EXECUTING"}

Restart(file) ==
  /\ restarts < MaxRestarts
  /\ restarts' = restarts + 1
  /\ stateFile' = file /\ behind' = FALSE
  /\ projectHistory' = file
  /\ forgotten' = forgotten \cup {p \in Projects : behind /\ file[p] # projectHistory[p]}
  /\ active' = {}
  /\ pc' = [g \in Goals |-> IF pc[g] \in Running THEN "lost" ELSE pc[g]]
  /\ db' = [p \in Projects |-> IF db[p] \in Stale THEN "INTERRUPTED" ELSE db[p]]
  /\ UNCHANGED <<goalVars, prior, outcome, answered, overlapped, unsynced, unwritten>>

\* The process ends while it writes the file; what is left does not parse.
TornRestart ==
  /\ \E g \in Goals : pc[g] \in {"working", "closing"}
  /\ Restart(Unreadable)

-----------------------------------------------------------------------------
Call(g) ==
  \/ Opened(g) \/ Close(g) \/ SyncFails(g) \/ CloseFailed(g)
  \/ \E status \in {"COMPLETED", "FAILED"} : Answer(g, status)

Next ==
  \/ \E p \in Projects : RunProject(p) \/ ContinueProject(p)
  \/ \E g \in Goals : Call(g)
  \/ Restart(stateFile) \/ TornRestart

Spec == Init /\ [][Next]_vars
-----------------------------------------------------------------------------
(* Properties.                                                             *)

States == [status : {"none", "PLANNING", "COMPLETED", "FAILED"},
           turns : Seq(Goals), workspace : BOOLEAN]

TypeOK ==
  /\ given \in 0..MaxGoals
  /\ project \in [Goals -> Projects \cup {NoProject}]
  /\ kind \in [Goals -> {"none", "run", "continue"}]
  /\ prior \in [Goals -> States]
  /\ pc \in [Goals -> Running \cup {"none", "done", "lost"}]
  /\ outcome \in [Goals -> {"none", "COMPLETED", "FAILED"}]
  /\ active \subseteq {p \in Projects : ~ Known(p)}
  /\ projectHistory \in [Projects -> States]
  /\ stateFile \in [Projects -> States]
  /\ db \in [Projects -> {"none", "PLANNING", "EXECUTING", "COMPLETED", "FAILED", "INTERRUPTED"}]
  /\ restarts \in 0..MaxRestarts
  /\ answered \in [Projects -> Seq(Goals)]
  /\ overlapped \subseteq Projects /\ unsynced \subseteq Projects /\ unwritten \subseteq Projects
  /\ behind \in BOOLEAN /\ forgotten \subseteq Projects

\* The conversation of a project is in the order in which its turns were given,
\* oldest first, whatever ran at the same time or was lost.
OldestFirst == \A p \in Projects :
  \A i, j \in DOMAIN projectHistory[p].turns :
    i < j => projectHistory[p].turns[i] < projectHistory[p].turns[j]

\* A conversation is complete, but for the first turn after a restart, unless
\* two of its calls ran at once, a workspace could not be copied, or the process
\* was restarted behind a write of the file that failed and was ignored.
TurnsAreKept == \A p \in Projects \ (overlapped \cup unsynced \cup forgotten) : Known(p) =>
  \/ projectHistory[p].turns = answered[p]
  \/ restarts > 0 /\ projectHistory[p].turns = Tail(answered[p])

\* A restart costs a project at most the turn of its run: the file knows what
\* memory knows, unless its last write failed.  The next write that succeeds makes
\* up for all that failed before it.
FileFollowsMemory == ~behind => \A p \in Projects :
  \/ stateFile[p] = projectHistory[p]
  \/ /\ stateFile[p] = State(projectHistory[p].status, <<>>, FALSE)
     /\ Len(projectHistory[p].turns) = 1

\* A project the database says is being worked on is, unless its last status
\* could not be stored.
StaleRunsAreMarked == \A p \in Projects :
  db[p] \in {"PLANNING", "EXECUTING"} => InFlight(p) \/ p \in unwritten

=============================================================================
