------------------------- MODULE MCChildProcesses -------------------------
(***************************************************************************)
(* Both ways in which the program runs another one, checked against        *)
(* ChildRun.  They do not interact, so a behaviour is about one of them:   *)
(* an execution of the first version, of every kind of call, or the calls  *)
(* of the second.                                                          *)
(***************************************************************************)
EXTENDS ChildProcesses

VARIABLE subject

MCCalls == Options
MCVars == <<subject, handleVars, cliVars>>

\* A handle that is of no concern: start() threw on a blank executable.
NoHandle ==
  /\ opts = [caller |-> "service", executable |-> "blank", timeout |-> FALSE, signal |-> "none"]
  /\ tick = "threw" /\ state = "STARTING" /\ child = "unborn" /\ killed = FALSE
  /\ timer = FALSE /\ pending = {} /\ aborted = "no" /\ answer = "none" /\ code0 = FALSE
  /\ active = FALSE /\ prompted = "no" /\ returned = "no"

MCInit ==
  /\ CliInit
  /\ \/ subject = "handle" /\ HandleInit
     \/ subject = "cli" /\ NoHandle

MCNext ==
  /\ UNCHANGED subject
  /\ \/ subject = "handle" /\ HandleNext /\ UNCHANGED cliVars
     \/ subject = "cli" /\ CliNext /\ UNCHANGED handleVars

MCSpec == MCInit /\ [][MCNext]_MCVars /\ HandleFairness /\ CliFairness
=============================================================================
