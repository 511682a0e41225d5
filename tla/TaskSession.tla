----------------------------- MODULE TaskSession -----------------------------
(***************************************************************************)
(* One run of the first version's program, main.ts: the arguments, the     *)
(* workspace, the database, the plan for the prompt, the sub-tasks, the    *)
(* last commit, and the exit code; with signals at every moment.           *)
(*                                                                         *)
(* The sub-tasks are SubtaskPipeline.  What main() shows, in the terminal  *)
(* and in the panes of tmux, is left out.                                  *)
(***************************************************************************)
EXTENDS SubtaskPipeline, TaskPlanner

CONSTANTS
  Arguments,     \* argument lists: flags and words
  Meaning,       \* what a prompt, a sequence of words, is about
  Directories,   \* what a path names: a chain of directories up to the root
  Cwd,           \* the path that is meant when none is given
  Listing,       \* the files of the workspace as readdir() lists them
  Edited,        \* the files the user edits
  Configured     \* config.verificationCommands

ASSUME SessionAssumption ==
  /\ Edited \subseteq Files
  /\ \A k \in DOMAIN Listing : Listing[k] \in Existing

VARIABLES
  args,       \* process.argv
  stage,      \* what main() waits for
  db,         \* SqliteDb.db: null, open, or close() under way
  closer,     \* who called that close()
  signalled,  \* a signal has reached the handler
  exit        \* alive, or the exit code; killed: by a signal nobody handles

sessionVars == <<args, stage, db, closer, signalled, exit>>
allVars == <<vars, sessionVars>>

Alive == exit = "alive"

-----------------------------------------------------------------------------
(* The arguments and the workspace.                                        *)

\* An option without a value is skipped; the first other word begins the prompt.
ParseArguments(list) ==
  LET value(k) == IF k < Len(list) THEN list[k + 1] ELSE ""
      step(s, k) ==
        CASE s.skip -> [s EXCEPT !.skip = FALSE]
          [] ~s.skip /\ (s.ended \/ list[k] = "run") -> s
          [] ~s.skip /\ ~s.ended /\ list[k] = "--workspace" /\ value(k) # "" ->
               [s EXCEPT !.workspace = value(k), !.skip = TRUE]
          [] ~s.skip /\ ~s.ended /\ list[k] = "--task" /\ value(k) # "" ->
               [s EXCEPT !.prompt = <<value(k)>>, !.skip = TRUE]
          [] ~s.skip /\ ~s.ended /\ s.prompt = <<>>
               /\ list[k] \notin {"run", "--workspace", "--task", "--other"} ->
               [s EXCEPT !.prompt = SelectSeq(SubSeq(list, k, Len(list)), LAMBDA w : w # ""),
                         !.ended = TRUE]
          [] OTHER -> s
  IN FoldLeft(step, [prompt |-> <<>>, workspace |-> Cwd, skip |-> FALSE, ended |-> FALSE],
              [k \in DOMAIN list |-> k])

Parsed == [list \in Arguments |-> ParseArguments(list)]
Prompt == Parsed[args].prompt
Workspace == Directories[Parsed[args].workspace]

\* resolveWorkspace(): the nearest directory above with a marker.
RootMarkers == {"package.json", "Cargo.toml", "go.mod", "pyproject.toml", "setup.py",
                "pom.xml", "build.gradle", "build.gradle.kts", ".git"}
LocateProjectRoot(chain) ==
  LET marked == {k \in DOMAIN chain : chain[k].holds \cap RootMarkers # {}}
  IN IF marked = {} THEN chain[1] ELSE chain[CHOOSE k \in marked : \A l \in marked : k <= l]

\* detectMetadata(): the commands that verify a project of its type.  None are known
\* of a project of no known type, or whose package.json has no scripts or does not
\* parse.
VerificationCommands(dir) ==
  CASE "package.json" \in dir.holds ->
         IF ~dir.parses THEN <<>>
         ELSE (CASE "build" \in dir.scripts -> <<"npm run build">>
                 [] "build" \notin dir.scripts /\ "tsconfig.json" \in dir.holds -> <<"npx tsc">>
                 [] OTHER -> <<>>)
              \o (IF "test" \in dir.scripts THEN <<"npm test">> ELSE <<>>)
    [] "package.json" \notin dir.holds
         /\ dir.holds \cap {"Cargo.toml", "go.mod", "pyproject.toml", "setup.py",
                            "requirements.txt", "pom.xml", "build.gradle",
                            "build.gradle.kts"} # {} -> <<"build", "test">>
    [] OTHER -> <<>>

\* Then the configured ones are run, or the defaults.
CommandsToRun(dir) ==
  CASE VerificationCommands(dir) # <<>> -> VerificationCommands(dir)
    [] VerificationCommands(dir) = <<>> /\ Configured # <<>> -> Configured
    [] OTHER -> <<"npm run build", "npm test">>

\* The scripts npm finds from the root upwards, in the nearest package.json: one
\* that does not parse has none.
NpmScripts(chain, root) ==
  LET above == {k \in DOMAIN chain : /\ \E l \in 1..k : chain[l] = root
                                   /\ "package.json" \in chain[k].holds}
      nearest == chain[CHOOSE k \in above : \A l \in above : k <= l]
  IN IF above # {} /\ nearest.parses THEN nearest.scripts ELSE {}

\* Whether verification may pass: a script of npm that is not there fails.
MayPass ==
  [list \in Arguments |->
     LET chain == Directories[Parsed[list].workspace].chain
         root == LocateProjectRoot(chain)
         commands == Range(CommandsToRun(root))
         scripts == NpmScripts(chain, root)
     IN /\ "npm run build" \in commands => "build" \in scripts
        /\ "npm test" \in commands => "test" \in scripts]

PlanOf ==
  [list \in Arguments |->
     LET prompt == Meaning[Parsed[list].prompt]
     IN PlanTask(prompt, WorkspaceFiles(Listing, prompt))]

-----------------------------------------------------------------------------
(* The stages of main().                                                   *)

SessionInit ==
  /\ args \in Arguments
  /\ Init /\ plan = PlanOf[args]
  /\ stage = "started" /\ db = "null" /\ closer = "nobody"
  /\ signalled = FALSE /\ exit = "alive"

Goes(from, to) == Alive /\ stage = from /\ stage' = to

\* Up to the first await: usage and exit code 0 without a prompt, 1 when the
\* workspace is not there.
Start ==
  /\ Alive /\ stage = "started"
  /\ \/ Prompt = <<>> /\ exit' = "zero" /\ UNCHANGED stage
     \/ Prompt # <<>> /\ ~Workspace.exists /\ exit' = "one" /\ UNCHANGED stage
     \/ Prompt # <<>> /\ Workspace.exists /\ stage' = "migrating" /\ UNCHANGED exit
  /\ UNCHANGED <<vars, args, db, closer, signalled>>

\* bootstrap(): the database is opened and migrated, or the program ends.
Initialize ==
  /\ Goes("migrating", "checking") /\ db' = "open"
  /\ UNCHANGED <<vars, args, closer, signalled, exit>>
InitializeFails ==
  /\ Alive /\ stage = "migrating" /\ exit' = "one"
  /\ UNCHANGED <<vars, args, stage, db, closer, signalled>>

\* Whatever the health check finds, the signal handlers are set and the task begins.
HealthCheck ==
  /\ Goes("checking", "executing")
  /\ UNCHANGED <<vars, args, db, closer, signalled, exit>>

\* executeTask() goes on to its return, and so does the last commit.  Manifests are
\* protected from sub-tasks, so the scripts are those of the workspace as found.
LastCommit == pc \in {"adding", "committing"} /\ ~InPlan
ExecuteTask ==
  /\ Alive /\ stage = (IF LastCommit THEN "committing" ELSE "executing")
  /\ Service
  /\ pc = "verifying" /\ pc' = "adding" => MayPass[args]
  /\ UNCHANGED sessionVars

\* The task succeeded and modified files: their diff, git's status, a commit.
\* Otherwise git's status only.
TaskReturns ==
  /\ pc = "returned" \/ LastCommit
  /\ Goes("executing", IF LastCommit THEN "diffing" ELSE "reading")
  /\ UNCHANGED <<vars, args, db, closer, signalled, exit>>
DiffGenerated ==
  /\ Goes("diffing", "reading")
  /\ UNCHANGED <<vars, args, db, closer, signalled, exit>>

\* SqliteDb.close(): behind one that is under way, which ends the program first.
BeginClose(caller) ==
  IF db = "open" THEN db' = "closing" /\ closer' = caller ELSE UNCHANGED <<db, closer>>
StatusRead ==
  /\ \/ LastCommit /\ Goes("reading", "committing") /\ UNCHANGED <<db, closer>>
     \/ ~LastCommit /\ Goes("reading", "closing") /\ BeginClose("main")
  /\ UNCHANGED <<vars, args, signalled, exit>>
CommitReturns ==
  /\ pc = "returned" /\ Goes("committing", "closing") /\ BeginClose("main")
  /\ UNCHANGED <<vars, args, signalled, exit>>

\* process.exit() follows in the same turn.
Closed ==
  /\ Alive /\ db = "closing" /\ db' = "null"
  /\ exit' = IF closer = "handler" \/ result = "SUCCESS" THEN "zero" ELSE "one"
  /\ UNCHANGED <<vars, args, stage, closer, signalled>>
CloseFails ==
  /\ Alive /\ db = "closing" /\ exit' = "one"
  /\ UNCHANGED <<vars, args, stage, db, closer, signalled>>

\* SIGINT or SIGTERM: gracefulShutdown() closes the database, whatever the task
\* is at, or node ends the process when no handler is set yet.
Signal ==
  /\ Alive /\ ~signalled
  /\ \/ /\ stage \in {"started", "migrating", "checking"}
        /\ exit' = "killed" /\ UNCHANGED <<db, closer, signalled>>
     \/ /\ stage \notin {"started", "migrating", "checking"}
        /\ signalled' = TRUE /\ BeginClose("handler") /\ UNCHANGED exit
  /\ UNCHANGED <<vars, args, stage>>

Main ==
  \/ Start \/ Initialize \/ InitializeFails \/ HealthCheck
  \/ ExecuteTask \/ TaskReturns \/ DiffGenerated \/ StatusRead \/ CommitReturns
  \/ Closed \/ CloseFails

\* What the user does before the scan is part of the workspace as it is found.
SessionNext ==
  \/ Main \/ Signal
  \/ \E f \in Edited : Alive /\ stage # "started" /\ UserEdits(f) /\ UNCHANGED sessionVars

\* Every process main() waits for ends.
SessionSpec == SessionInit /\ [][SessionNext]_allVars /\ WF_allVars(Main)

-----------------------------------------------------------------------------
(* Properties.                                                             *)

\* Each file the prompt names, as it is spelled, was a sub-task and succeeded,
\* and no test was written before the sources it was named with.
PromptIsCovered ==
  LET mentions == Range(Meaning[Prompt].mentions)
  IN /\ \A m \in mentions : PlannedExt(m.ext) = m.ext /\ ~IsProtected(m) =>
          \E k \in SubTasks : EndsWith(plan[k], m) /\ status[k] = "SUCCESS"
     /\ \A j, k \in SubTasks :
          mentions # {} /\ j < k /\ plan[j].test =>
            \/ plan[k].test \/ plan[k].ext \in {"md", "txt"}
            \/ plan[k].dir \in {"tests", "test", "__tests__"}

\* Exit code 0 of a task that nobody interrupted: its sub-tasks all succeeded and
\* are what the prompt asked for.  Exit code 1 with the database closed: they
\* did not.
ExitIsHonest ==
  /\ ResultIsHonest
  /\ exit = "zero" /\ ~signalled /\ Prompt # <<>> => result = "SUCCESS" /\ PromptIsCovered
  /\ exit = "one" /\ db = "null" /\ stage = "closing" => result # "SUCCESS"

\* The program ends, with an honest exit code (main.ts: process.exit at the
\* end of main(), gracefulShutdown()).
SessionIsHonest == <>(~Alive /\ ExitIsHonest)
=============================================================================
