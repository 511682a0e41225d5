------------------------- MODULE TaskGraphExecution -------------------------
(***************************************************************************)
(* What the execution of a mission plan promises, whatever queue, barrier, *)
(* retry or message it uses to keep it: a task is started after all of its *)
(* dependencies are done and at most once, the tasks under way at a time   *)
(* are an admissible set, and the execution is not given up while a task   *)
(* could still be started, unless somebody cancels it.                     *)
(***************************************************************************)
CONSTANTS
  Tasks, Deps,
  Admissible   \* the sets of tasks that may be under way at a time

VARIABLES waiting, underWay, done, failed, cancelled, over

vars == <<waiting, underWay, done, failed, cancelled, over>>

Startable == {t \in waiting : Deps[t] \subseteq done}

Init ==
  /\ waiting = Tasks
  /\ underWay = {} /\ done = {} /\ failed = {}
  /\ cancelled = FALSE /\ over = FALSE

Start(ts) ==
  /\ ~over /\ ~cancelled
  /\ ts # {} /\ ts \subseteq Startable
  /\ underWay \cup ts \in Admissible
  /\ waiting' = waiting \ ts
  /\ underWay' = underWay \cup ts
  /\ UNCHANGED <<done, failed, cancelled, over>>

Complete(t) ==
  /\ t \in underWay
  /\ underWay' = underWay \ {t}
  /\ done' = done \cup {t}
  /\ UNCHANGED <<waiting, failed, cancelled, over>>

Fail(t) ==
  /\ t \in underWay
  /\ underWay' = underWay \ {t}
  /\ failed' = failed \cup {t}
  /\ UNCHANGED <<waiting, done, cancelled, over>>

Cancel ==
  /\ ~over
  /\ cancelled' = TRUE
  /\ UNCHANGED <<waiting, underWay, done, failed, over>>

Close ==
  /\ ~over
  /\ underWay = {}
  /\ cancelled \/ Startable = {}
  /\ over' = TRUE
  /\ cancelled' = FALSE               \* a cancellation is over with the execution
  /\ UNCHANGED <<waiting, underWay, done, failed>>

Next ==
  \/ \E ts \in SUBSET Tasks : Start(ts)
  \/ \E t \in Tasks : Complete(t) \/ Fail(t)
  \/ Cancel \/ Close

Spec == Init /\ [][Next]_vars
=============================================================================
