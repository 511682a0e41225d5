------------------------ MODULE MCMissionExecution ------------------------
(* Instances of MissionExecution for TLC.                                  *)
EXTENDS MissionExecution, TLC

CONSTANTS design, api, ui, test, docs

\* A diamond (two tasks on one, one on both), and one more task on its top:
\* three tasks become ready at once.
FiveTasks == {design, api, ui, test, docs}
PlanOrder == <<design, docs, api, ui, test>>
PlanPosition == [t \in Tasks |-> CHOOSE i \in 1..5 : PlanOrder[i] = t]
PlanDeps == [t \in Tasks |->
  CASE t \in {api, ui, docs} -> {design}
    [] t = test -> {api, ui} \cap Tasks
    [] OTHER -> {}]

\* The QA task's worker, who wrote ui and docs too, reviews the others.
ReviewedTasks == {design, api}
=============================================================================
