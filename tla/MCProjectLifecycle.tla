------------------------- MODULE MCProjectLifecycle -------------------------
(***************************************************************************)
(* The projects, and how their goals are planned.  A behaviour is about    *)
(* the calls of two projects, about the calls and the files of one, or     *)
(* about the plans.                                                        *)
(***************************************************************************)
EXTENDS ProjectFiles, MCGoalPlanning, TLC

CONSTANTS shop, blog

VARIABLE subject

TwoProjects == {shop, blog}
Alike == Permutations(TwoProjects)

NoGoal == CHOOSE g \in MCGoalChoices : TRUE

MCInit ==
  /\ Init /\ FilesInit /\ PlanningInit
  /\ subject = "plans" \/ goal = NoGoal
  /\ \/ subject \in {"calls", "plans"} /\ target = [p \in Projects |-> NoFiles]
     \/ subject \in Projects /\ \A p \in Projects \ {subject} : target[p] = NoFiles

MCNext ==
  /\ UNCHANGED subject
  /\ \/ subject = "calls" /\ Next /\ UNCHANGED <<fileVars, planningVars>>
     \/ subject \in Projects /\ FilesNext /\ UNCHANGED planningVars
     \/ subject = "plans" /\ PlanningNext /\ UNCHANGED <<vars, fileVars>>

MCSpec == MCInit /\ [][MCNext]_<<vars, fileVars, planningVars, subject>>

\* In one behaviour writes of the file fail or last ones of the database: neither
\* touches what the other is about.  With failures the program is restarted once, not
\* twice, and a third call overlaps with none.
\* The files are those of one project: its first turn, a second one, which may overlap
\* with it, and a restart between any of their steps.
MCBounded ==
  /\ unwritten = {} \/ (~behind /\ forgotten = {} /\ given <= 2)
  /\ unwritten # {} \/ behind \/ forgotten # {} =>
       restarts <= 1 /\ (given <= 2 \/ overlapped = {})
  /\ subject = "plans" => MCGoalsBounded
  /\ subject \in Projects =>
       /\ given <= 2 /\ restarts <= 1 /\ unwritten = {}
       /\ \A g \in Goals : project[g] \in {subject, NoProject}
       /\ \A p \in Projects \ {subject} : target[p] = NoFiles
=============================================================================
