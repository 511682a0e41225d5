--------------------------- MODULE ChildProcesses ---------------------------
(***************************************************************************)
(* Both ways in which the program runs another one, the handle of the      *)
(* first version and the calls of the second, share no state; both keep    *)
(* the promise of ChildRun.                                                *)
(***************************************************************************)
EXTENDS ProcessHandle, CliExecution

\* Each execution of a handle, and each call of runCliProcess() and
\* runNpmScript(), implements ChildRun.
CallsAreRuns == HandleIsARun /\ CliCallsAreRuns

\* Whoever waits for an external program is answered: bounded executions of the
\* first version (ProcessHandle), every call of the second (CliExecution).
EveryCallIsAnswered == CallsEnd /\ CallsSettle
=============================================================================
