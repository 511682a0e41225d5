------------------------------ MODULE ChildRun ------------------------------
(***************************************************************************)
(* What the program relies on when it runs one external program and waits  *)
(* for it: the abstract specification behind the ExecutionHandle of the    *)
(* first version (ProcessHandle) and runCliProcess() of the second         *)
(* (CliExecution).  The call gets one outcome and keeps it; it is a        *)
(* success only of a program that ended by itself, with code 0; it is a    *)
(* failure only of a program that is over; a call that was given up, by a  *)
(* timeout or a cancellation, may leave a dying program behind.            *)
(***************************************************************************)
VARIABLES
  process,   \* unborn, running, signalled, succeeded (code 0), failed
  outcome    \* none, success, failure, givenUp

vars == <<process, outcome>>

Over == {"succeeded", "failed"}

Init == process = "unborn" /\ outcome = "none"

Spawn == process = "unborn" /\ process' \in {"running", "failed"}
SendSignal == process = "running" /\ process' = "signalled"
End ==
  \/ process = "running" /\ process' \in Over
  \/ process = "signalled" /\ process' = "failed"

Settle ==
  /\ outcome = "none"
  /\ \/ outcome' = "success" /\ process' = "succeeded"
     \/ outcome' = "failure" /\ process' \in {"unborn", "failed"}
     \/ outcome' = "givenUp"

Next ==
  \/ (Spawn \/ SendSignal \/ End) /\ UNCHANGED outcome
  \/ Settle /\ (UNCHANGED process \/ SendSignal)

Spec == Init /\ [][Next]_vars
=============================================================================
