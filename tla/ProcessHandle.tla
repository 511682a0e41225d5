--------------------------- MODULE ProcessHandle ---------------------------
(***************************************************************************)
(* One execution of the first version's ProcessRuntime: ExecutionHandle    *)
(* (start, kill, cancel, timeout, the events of the child) and the         *)
(* provider that waits for it, ClaudeProvider or MockProvider.             *)
(*                                                                         *)
(* One action is a callback of the event loop, or one of the two things    *)
(* that run before the next callback: start(), which execute() put into    *)
(* nextTick, and a continuation of kill(), which then completes the        *)
(* handle.  An abort can come in the very turn of execute().               *)
(***************************************************************************)
CONSTANTS Calls    \* the kinds of call, see Options

\* Who calls, with what: a provider (neither timeout nor signal), or a service
\* that may give both.  The executable: found, not found, or blank.
Options ==
  {o \in [caller : {"claude", "mock", "service"}, executable : {"found", "missing", "blank"},
          timeout : BOOLEAN, signal : {"none", "live", "aborted"}] :
     /\ o.caller # "service" => ~o.timeout /\ o.signal = "none"
     /\ o.caller = "mock" => o.executable = "found"}

ASSUME CallsAssumption == Calls \subseteq Options

ExecutionState == {"CREATED", "STARTING", "RUNNING", "STOPPING",
                   "FINISHED", "FAILED", "CANCELLED", "TIMEOUT"}
Final == {"FINISHED", "FAILED", "CANCELLED", "TIMEOUT"}

VARIABLES
  opts,      \* the call
  tick,      \* start(): scheduled in nextTick, done, or it threw
  state,     \* ExecutionHandle.state
  child,     \* the process: unborn, running, signalled, exited0, exitedN,
             \* closed0, closedN (0: the exit code; N: another, or a signal)
  killed,    \* ChildProcess.killed
  timer,     \* timeoutTimer is set
  pending,   \* kill().then(complete): final states about to be entered
  aborted,   \* the signal has fired (early: before start() ran)
  answer,    \* what resultPromise was first resolved with
  code0,     \* its exit code is 0
  active,    \* the provider's activeHandle
  prompted,  \* MockProvider: 50 ms have passed; written or not
  returned   \* stream() of the provider: no, success, failure

handleVars == <<opts, tick, state, child, killed, timer, pending, aborted, answer, code0,
          active, prompted, returned>>
handle == <<state, timer, answer, code0>>
provider == <<active, prompted, returned>>

HandleInit ==
  /\ opts \in Calls
  /\ tick = "scheduled"
  /\ state = IF opts.signal = "aborted" THEN "CANCELLED" ELSE "CREATED"
  /\ child = "unborn" /\ killed = FALSE
  /\ timer = FALSE /\ pending = {} /\ aborted = "no"
  /\ answer = "none" /\ code0 = FALSE
  /\ active = (opts.caller # "service")
  /\ prompted = "no" /\ returned = "no"

\* The provider's await is over.
ReturnsNow ==
  /\ opts.caller # "service" /\ returned = "no" /\ answer # "none"
  /\ opts.caller = "mock" => prompted # "no"

\* nextTick callbacks and promise continuations run before the next event.
Quiet == tick # "scheduled" /\ pending = {} /\ ~ReturnsNow

\* resolvePromise(): only the first call has an effect.
Resolve(s, zero) ==
  IF answer = "none"
  THEN answer' = s /\ code0' = zero
  ELSE UNCHANGED <<answer, code0>>

\* complete()
CompleteHandle(s, zero) == timer' = FALSE /\ state' = s /\ Resolve(s, zero)

-----------------------------------------------------------------------------
Start ==
  /\ tick = "scheduled"
  /\ CASE state = "CANCELLED" ->
            /\ tick' = "done" /\ CompleteHandle("CANCELLED", FALSE)
            /\ UNCHANGED child
       [] state # "CANCELLED" /\ opts.executable = "blank" ->
            /\ tick' = "threw" /\ state' = "STARTING"
            /\ UNCHANGED <<timer, answer, code0, child>>
       [] state # "CANCELLED" /\ opts.executable # "blank" ->
            /\ tick' = "done" /\ state' = "RUNNING" /\ timer' = opts.timeout
            /\ child' = IF opts.executable = "found" THEN "running" ELSE "noSpawn"
            /\ UNCHANGED <<answer, code0>>
  /\ UNCHANGED <<opts, killed, pending, aborted, provider>>

\* The child's 'error' event: it could not be spawned.
ErrorEvent ==
  /\ Quiet /\ child = "noSpawn"
  /\ child' = "exitedN"
  /\ CompleteHandle("FAILED", FALSE)
  /\ UNCHANGED <<opts, tick, killed, pending, aborted, provider>>

\* The process ends: of itself, the mock's once it was given the prompt, or
\* because of a signal.
ChildExits ==
  /\ \/ /\ child = "running"
        /\ opts.caller = "mock" => prompted = "written"
        /\ child' \in {"exited0", "exitedN"}
     \/ child = "signalled" /\ child' = "exitedN"
  /\ UNCHANGED <<opts, tick, handle, killed, pending, aborted, provider>>

\* The 'close' event.
CloseEvent ==
  /\ Quiet /\ child \in {"exited0", "exitedN"}
  /\ child' = IF child = "exited0" THEN "closed0" ELSE "closedN"
  /\ IF state \in Final
     THEN timer' = FALSE /\ UNCHANGED <<state, answer, code0>>
     ELSE CompleteHandle(IF child = "exited0" THEN "FINISHED" ELSE "FAILED", child = "exited0")
  /\ UNCHANGED <<opts, tick, killed, pending, aborted, provider>>

\* kill(): nothing without a child; otherwise STOPPING, and one signal.
Kill ==
  IF child = "unborn"
  THEN UNCHANGED <<child, killed>>
  ELSE /\ killed' = (killed \/ child # "noSpawn")
       /\ child' = IF child = "running" /\ ~killed THEN "signalled" ELSE child

\* cancel() and handleTimeout(): STOPPING, kill(), and its continuation.
Stop(final) ==
  /\ state' = "STOPPING"
  /\ Kill
  /\ pending' = pending \cup {final}

Abort ==
  /\ opts.signal = "live" /\ aborted = "no" /\ pending = {}
  /\ aborted' = IF tick = "scheduled" THEN "early" ELSE "yes"
  /\ IF state \in {"FINISHED", "FAILED", "TIMEOUT"}
     THEN UNCHANGED <<state, child, killed, pending>>
     ELSE Stop("CANCELLED")
  /\ UNCHANGED <<opts, tick, timer, answer, code0, provider>>

Timeout ==
  /\ Quiet /\ timer
  /\ timer' = FALSE
  /\ IF state \in {"FINISHED", "FAILED", "CANCELLED"}
     THEN UNCHANGED <<state, child, killed, pending>>
     ELSE Stop("TIMEOUT")
  /\ UNCHANGED <<opts, tick, aborted, answer, code0, provider>>

Continue(final) ==
  /\ final \in pending
  /\ pending' = pending \ {final}
  /\ CompleteHandle(final, FALSE)
  /\ UNCHANGED <<opts, tick, child, killed, aborted, provider>>

-----------------------------------------------------------------------------
(* The provider.                                                           *)

\* MockProvider.stream(): 50 ms after execute() the prompt is written; write()
\* throws unless the handle is RUNNING, and that is ignored.
WritePrompt ==
  /\ Quiet /\ opts.caller = "mock" /\ prompted = "no"
  /\ prompted' = IF state = "RUNNING" THEN "written" ELSE "refused"
  /\ UNCHANGED <<opts, tick, handle, child, killed, pending, aborted, active, returned>>

\* IProvider.cancel()
ProviderCancels ==
  /\ Quiet /\ active
  /\ active' = FALSE
  /\ state' = IF child = "unborn" THEN state ELSE "STOPPING"
  /\ Kill
  /\ UNCHANGED <<opts, tick, timer, pending, aborted, answer, code0, prompted, returned>>

\* `await handle.wait()` goes on; success is exit code 0.
ProviderReturns ==
  /\ ReturnsNow
  /\ returned' = IF code0 THEN "success" ELSE "failure"
  /\ active' = FALSE
  /\ UNCHANGED <<opts, tick, handle, child, killed, pending, aborted, prompted>>

HandleNext ==
  \/ Start \/ ErrorEvent \/ ChildExits \/ CloseEvent
  \/ Abort \/ Timeout \/ \E f \in Final : Continue(f)
  \/ WritePrompt \/ ProviderCancels \/ ProviderReturns

\* Callbacks run, timers fire, a signal ends a process, the mock ends once it
\* was given the prompt.  Nothing makes another program end of itself.
HandleFairness ==
  /\ WF_handleVars(Start) /\ WF_handleVars(ErrorEvent) /\ WF_handleVars(CloseEvent)
  /\ WF_handleVars((child = "signalled" \/ opts.caller = "mock") /\ ChildExits)
  /\ WF_handleVars(Timeout) /\ WF_handleVars(\E f \in Final : Continue(f))
  /\ WF_handleVars(WritePrompt) /\ WF_handleVars(ProviderReturns)

HandleSpec == HandleInit /\ [][HandleNext]_handleVars
HandleFairSpec == HandleSpec /\ HandleFairness

-----------------------------------------------------------------------------
(* Properties.                                                             *)

HandleTypeOK ==
  /\ opts \in Options
  /\ tick \in {"scheduled", "done", "threw"}
  /\ state \in ExecutionState
  /\ child \in {"unborn", "noSpawn", "running", "signalled", "exited0", "exitedN",
               "closed0", "closedN"}
  /\ killed \in BOOLEAN /\ timer \in BOOLEAN
  /\ pending \in SUBSET {"CANCELLED", "TIMEOUT"}
  /\ aborted \in {"no", "early", "yes"}
  /\ answer \in Final \cup {"none"} /\ code0 \in BOOLEAN
  /\ active \in BOOLEAN
  /\ prompted \in {"no", "written", "refused"}
  /\ returned \in {"no", "success", "failure"}

\* The caller is always answered: a call with a timeout, one whose process was
\* told to end or could not be spawned, and every call of the mock.  (A blank
\* executable makes start() throw, and nobody settles the promise.)
Bounded == opts.timeout \/ killed \/ child = "noSpawn" \/ opts.caller = "mock"
CallsEnd ==
  /\ (tick = "done" /\ Bounded) ~> (answer # "none")
  /\ (opts.caller # "service" /\ answer # "none") ~> (returned # "no")

\* The handle implements ChildRun.
HandleRun == INSTANCE ChildRun WITH
  process <- CASE child \in {"unborn", "running", "signalled"} -> child
               [] child \in {"exited0", "closed0"} -> "succeeded"
               [] child \in {"noSpawn", "exitedN", "closedN"} -> "failed",
  outcome <- CASE answer = "none" -> "none"
               [] answer = "FINISHED" -> "success"
               [] answer = "FAILED" -> "failure"
               [] answer \in {"CANCELLED", "TIMEOUT"} -> "givenUp"
HandleIsARun == HandleRun!Spec
=============================================================================
