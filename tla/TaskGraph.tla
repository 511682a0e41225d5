----------------------------- MODULE TaskGraph -----------------------------
(***************************************************************************)
(* The graph of a mission's tasks (task_graph.ts): it counts, for each     *)
(* task, the edges into it, and takes tasks in the order in which the      *)
(* counts come down to 0.                                                  *)
(***************************************************************************)
EXTENDS Naturals, Sequences, FiniteSets, SequencesExt

CONSTANTS
  TaskIds,
  NodeIds,      \* what may stand in a list of dependencies
  MaxDeps   \* bound: the length of such a list

ASSUME GraphAssumption == IsFiniteSet(TaskIds) /\ TaskIds \subseteq NodeIds /\ MaxDeps \in Nat

VARIABLES
  tasks,    \* the tasks there are: by identifier, the list of dependencies and the status
  out,      \* by identifier: the tasks that depend on it
  inDegree  \* by task: how many edges into it
graph == [tasks |-> tasks, out |-> out, inDegree |-> inDegree]
graphVars == <<tasks, out, inDegree>>

GraphInit == tasks = <<>> /\ out = [i \in NodeIds |-> {}] /\ inDegree = <<>>

\* Variant: an edge that is there already counts again.
EdgeAgain(g, t, d) ==
  [g EXCEPT !.out[d] = @ \cup {t}, !.inDegree[t] = @ + 1]

\* addDependency(): d need not be a task.
AddDependency(g, t, d) ==
  IF t \in g.out[d] THEN g
  ELSE [g EXCEPT !.out[d] = @ \cup {t}, !.inDegree[t] = @ + 1]

WithKey(f, k, v) == [x \in DOMAIN f \cup {k} |-> IF x = k THEN v ELSE f[x]]

AddTask(t, deps) ==
  /\ t \notin DOMAIN tasks
  /\ tasks' = WithKey(tasks, t, [deps |-> deps, status |-> "BACKLOG"])
  /\ LET alone == [out |-> out, inDegree |-> WithKey(inDegree, t, 0)]
         linked == FoldLeft(LAMBDA g, d : AddDependency(g, t, d), alone, deps)
     IN out' = linked.out /\ inDegree' = linked.inDegree

\* Round n of the algorithm of Kahn: the counts that are left, and the tasks taken.
Rounds(g) ==
  LET round[n \in 1..Cardinality(TaskIds) + 1] ==
        IF n = 1
        THEN [left |-> g.inDegree, taken |-> {t \in DOMAIN g.inDegree : g.inDegree[t] = 0}]
        ELSE LET before == round[n - 1]
                 left == [t \in DOMAIN before.left |->
                            before.left[t] - Cardinality({d \in before.taken : t \in g.out[d]})]
             IN [left |-> left,
                 taken |-> {t \in DOMAIN left : left[t] = 0 /\ before.left[t] > 0}]
  IN round

Taken(g) == UNION {Rounds(g)[n].taken : n \in DOMAIN Rounds(g)}

DetectCycle(g) == Cardinality(Taken(g)) # Cardinality(DOMAIN g.tasks)

\* getExecutionBatches(), when detectCycle() does not make it throw: the rounds
\* before the first that takes nothing.
ExecutionBatches(g) ==
  LET rounds == Rounds(g)
  IN [n \in {n \in DOMAIN rounds : \A m \in 1..n : rounds[m].taken # {}} |-> rounds[n].taken]

\* getReadyTasks(): a task that depends on one that is not there is never ready.
IsReady(t) ==
  /\ tasks[t].status \in {"BACKLOG", "READY"}
  /\ \A i \in DOMAIN tasks[t].deps :
       LET d == tasks[t].deps[i] IN d \in DOMAIN tasks /\ tasks[d].status = "COMPLETED"

GetReadyTasks ==
  /\ tasks' = [t \in DOMAIN tasks |->
                 IF IsReady(t) THEN [tasks[t] EXCEPT !.status = "READY"] ELSE tasks[t]]
  /\ UNCHANGED <<out, inDegree>>

\* Who asked for the ready tasks completes one.
TaskCompleted(t) ==
  /\ tasks[t].status = "READY"
  /\ tasks' = [tasks EXCEPT ![t].status = "COMPLETED"]
  /\ UNCHANGED <<out, inDegree>>

GraphNext ==
  \/ \E t \in TaskIds, deps \in BoundedSeq(NodeIds, MaxDeps) : AddTask(t, deps)
  \/ GetReadyTasks
  \/ \E t \in DOMAIN tasks : TaskCompleted(t)

GraphSpec == GraphInit /\ [][GraphNext]_graphVars

-----------------------------------------------------------------------------
(* Properties.                                                             *)

\* What a task depends on, read from its list and not from the counts.
DependsOn(t) == {tasks[t].deps[i] : i \in DOMAIN tasks[t].deps}

\* Execution is refused exactly when some tasks wait for each other or for one
\* that is not there.
RefusedWhenStuck ==
  DetectCycle(graph) <=>
    \E stuck \in (SUBSET DOMAIN tasks) \ {{}} :
      \A t \in stuck : DependsOn(t) \cap (stuck \cup (NodeIds \ DOMAIN tasks)) # {}

\* Otherwise each task stands in the first batch after those of all its
\* dependencies.
BatchesFollowDependencies ==
  ~DetectCycle(graph) =>
    LET batches == ExecutionBatches(graph)
        BatchOf(t) == {n \in DOMAIN batches : t \in batches[n]}
    IN \A t \in DOMAIN tasks :
         \E n \in DOMAIN batches :
           /\ BatchOf(t) = {n}
           /\ \A d \in DependsOn(t) : \E m \in BatchOf(d) : m < n
           /\ n > 1 => \E d \in DependsOn(t) : BatchOf(d) = {n - 1}

\* A task is ready, and complete, only when all it depends on is complete.
NothingOvertakes ==
  \A t \in DOMAIN tasks : tasks[t].status \in {"READY", "COMPLETED"} =>
    \A d \in DependsOn(t) : d \in DOMAIN tasks /\ tasks[d].status = "COMPLETED"

\* Whatever the order in which the tasks were added, with tasks listed twice, of
\* themselves, or not there: the batches are those of the lists, and work on
\* ready tasks never overtakes them.
GraphRunsInBatches == RefusedWhenStuck /\ BatchesFollowDependencies /\ NothingOvertakes
=============================================================================
