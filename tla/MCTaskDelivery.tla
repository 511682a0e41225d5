--------------------------- MODULE MCTaskDelivery ---------------------------
(* Instances of TaskDelivery for TLC.                                      *)
EXTENDS TaskDelivery

CONSTANTS api, ui, test, docs, bob, alice

\* Bob is his department's only member: two tasks of one batch are his.
FourTasks == {api, ui, test, docs}
TwoWorkers == {bob, alice}
Team == [t \in Tasks |-> IF t \in {test, docs} THEN alice ELSE bob]
Plan == [t \in Tasks |->
  CASE t = test -> {api} [] t = docs -> {api, test} [] OTHER -> {}]

\* Alice's tests are run as npm scripts.
SlowTasks == {test}
=============================================================================
