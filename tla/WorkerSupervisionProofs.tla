---------------------- MODULE WorkerSupervisionProofs ----------------------
(***************************************************************************)
(* Theorems about WorkerSupervision, for every set of workers, every bound *)
(* on the generations and every crash limit.                               *)
(***************************************************************************)
EXTENDS WorkerSupervision, FiniteSetTheorems, TLAPS

LEMMA IncFacts ==
  /\ IsFiniteSet(Inc)
  /\ \A i \in Inc : Owner(i) \in Workers /\ Generation(i) \in Generations
  /\ "running" \in ProcessStatus /\ "terminating" \in ProcessStatus
PROOF
  <1>1. IsFiniteSet(Inc)
    BY SupervisionAssumption, FS_Product DEF Inc
  <1> QED
    BY <1>1 DEF Inc, Owner, Generation, ProcessStatus

-----------------------------------------------------------------------------
(* Type correctness.                                                       *)

LEMMA SignalTypes ==
  ASSUME TypeOK, NEW w \in Workers
  PROVE  /\ AfterTerm(children[w]) \in [Inc -> ProcessStatus]
         /\ KilledAfterSignal(children[w]) \in [Inc -> BOOLEAN]
PROOF
  BY SupervisionAssumption DEF TypeOK, AfterTerm, KilledAfterSignal, CanSignal, ProcessStatus

LEMMA SpawnTypes ==
  ASSUME TypeOK, NEW i \in Inc, NEW before \in [Inc -> ProcessStatus], Spawned(i, before)
  PROVE  /\ store' \in [Workers -> Inc \cup {None}]
         /\ \A w \in Workers : store'[w] = None \/ Owner(store'[w]) = w
         /\ children' = store'
         /\ process' \in [Inc -> ProcessStatus]
         /\ processState' \in [Inc -> WorkerProcessState]
PROOF
  BY IncFacts DEF TypeOK, Spawned, WorkerProcessState

LEMMA RestartTypes ==
  ASSUME TypeOK, NEW w \in Workers, RestartWorker(w)
  PROVE  /\ store' \in [Workers -> Inc \cup {None}]
         /\ \A v \in Workers : store'[v] = None \/ Owner(store'[v]) = v
         /\ children' = store'
         /\ process' \in [Inc -> ProcessStatus]
         /\ killed' \in [Inc -> BOOLEAN]
         /\ processState' \in [Inc -> WorkerProcessState]
PROOF
  <1>1. CASE store[w] = None
    BY <1>1 DEF RestartWorker, TypeOK
  <1>2. CASE store[w] # None
    <2>1. PICK i \in Unborn(w) : Spawned(i, AfterTerm(children[w]))
      BY <1>2 DEF RestartWorker
    <2>2. i \in Inc
      BY DEF Unborn
    <2>3. killed' = KilledAfterSignal(children[w])
      BY <1>2 DEF RestartWorker
    <2> QED
      BY <2>1, <2>2, <2>3, SignalTypes, SpawnTypes
  <1> QED
    BY <1>1, <1>2

\* The type invariant of the supervision model, with the agreement of the
\* store and the child map, holds in every reachable state.
THEOREM TypeCorrect == Spec => []TypeOK
PROOF
  <1>1. Init => TypeOK
    <2> SUFFICES ASSUME Init PROVE TypeOK
      OBVIOUS
    <2>1. store \in [Workers -> Inc \cup {None}]
      BY DEF Init
    <2> QED
      BY <2>1 DEF Init, TypeOK, ProcessStatus, WorkerProcessState
  <1>2. TypeOK /\ [Next]_vars => TypeOK'
    <2> SUFFICES ASSUME TypeOK, [Next]_vars PROVE TypeOK'
      OBVIOUS
    <2>1. ASSUME NEW w \in Workers, StartWorker(w) PROVE TypeOK'
      <3>1. PICK i \in Unborn(w) : Spawned(i, process)
        BY <2>1 DEF StartWorker
      <3>2. i \in Inc /\ process \in [Inc -> ProcessStatus]
        BY DEF Unborn, TypeOK
      <3> QED
        BY <2>1, <3>1, <3>2, SpawnTypes DEF StartWorker, TypeOK, policyVars
    <2>2. ASSUME NEW w \in Workers, OperatorRestart(w) PROVE TypeOK'
      BY <2>2, RestartTypes DEF OperatorRestart, TypeOK, policyVars
    <2>3. ASSUME NEW w \in Workers, StopWorker(w) PROVE TypeOK'
      BY <2>3, SignalTypes DEF StopWorker, TypeOK, policyVars
    <2>4. ASSUME NEW w \in Workers, PauseWorker(w) PROVE TypeOK'
      BY <2>4, SignalTypes DEF PauseWorker, TypeOK, policyVars, ProcessStatus, WorkerProcessState
    <2>5. ASSUME NEW w \in Workers, ResumeWorker(w) PROVE TypeOK'
      BY <2>5 DEF ResumeWorker, TypeOK, policyVars, ProcessStatus, WorkerProcessState
    <2>6. ASSUME NEW w \in Workers, ClearQuarantine(w) PROVE TypeOK'
      BY <2>6 DEF ClearQuarantine, TypeOK
    <2>9. ASSUME NEW i \in Inc, ProcessFails(i) PROVE TypeOK'
      BY <2>9 DEF ProcessFails, TypeOK, policyVars, ProcessStatus
    <2>10. ASSUME NEW i \in Inc, ProcessEnds(i) PROVE TypeOK'
      BY <2>10 DEF ProcessEnds, TypeOK, policyVars, ProcessStatus
    <2>11. ASSUME NEW i \in Inc, WindowSlides(i) PROVE TypeOK'
      BY <2>11 DEF WindowSlides, TypeOK
    <2>12. ASSUME NEW i \in Inc, ExitEvent(i) PROVE TypeOK'
      BY <2>12 DEF ExitEvent, TypeOK, policyVars, ProcessStatus, WorkerProcessState
    <2>13. ASSUME NEW i \in Inc, FailureEvent(i) PROVE TypeOK'
      BY <2>13, IncFacts DEF FailureEvent, OnWorkerFailed, TypeOK, policyVars, ProcessStatus,
         WorkerProcessState
    <2>14. ASSUME NEW i \in Inc, BackoffElapses(i) PROVE TypeOK'
      BY <2>14, IncFacts, RestartTypes DEF BackoffElapses, TypeOK
    <2>15. CASE Shutdown
      BY <2>15, IncFacts DEF Shutdown, TypeOK, policyVars, AfterTerm, ProcessStatus
    <2>17. CASE ShutdownCompletes
      BY <2>17 DEF ShutdownCompletes, TypeOK, policyVars
    <2>16. CASE UNCHANGED vars
      BY <2>16 DEF vars, TypeOK
    <2> QED
      BY <2>1, <2>2, <2>3, <2>4, <2>5, <2>6, <2>9, <2>10, <2>11, <2>12,
         <2>13, <2>14, <2>15, <2>16, <2>17 DEF Next, Operator, Environment, EventLoop
  <1> QED
    BY <1>1, <1>2, PTL DEF Spec

-----------------------------------------------------------------------------
(* The circuit breaker.                                                    *)

LEMMA CrashSets ==
  ASSUME TypeOK, NEW w \in Workers
  PROVE  /\ IsFiniteSet(CrashesOf(w)) /\ Cardinality(CrashesOf(w)) \in Nat
         /\ IsFiniteSet(TimersOf(w)) /\ Cardinality(TimersOf(w)) \in Nat
         /\ \A i \in Inc : IsFiniteSet(CrashesOf(w) \cup {i})
                           /\ Cardinality(CrashesOf(w) \cup {i}) \in Nat
PROOF
  <1>1. IsFiniteSet(CrashesOf(w)) /\ IsFiniteSet(TimersOf(w))
    BY IncFacts, FS_Subset DEF TypeOK, CrashesOf, TimersOf
  <1>2. \A i \in Inc : IsFiniteSet(CrashesOf(w) \cup {i})
    BY <1>1, FS_AddElement
  <1> QED
    BY <1>1, <1>2, FS_CardinalityType

\* A step that touches neither the crash sets nor quarantine keeps the breaker.
LEMMA BreakerFrame ==
  ASSUME BreakerOpensInTime, UNCHANGED <<crashes, quarantined>>
  PROVE  BreakerOpensInTime'
PROOF
  BY DEF BreakerOpensInTime, CrashesOf

LEMMA BreakerStep ==
  ASSUME TypeOK, BreakerOpensInTime, [Next]_vars
  PROVE  BreakerOpensInTime'
PROOF
  <1>1. ASSUME NEW w \in Workers, ClearQuarantine(w) PROVE BreakerOpensInTime'
    <2> SUFFICES ASSUME NEW v \in Workers, v \notin quarantined'
                 PROVE  Cardinality(CrashesOf(v))' <= MaxCrashesInWindow
      BY DEF BreakerOpensInTime
    <2>1. CASE v = w
      <3>1. CrashesOf(v)' = {}
        BY <1>1, <2>1 DEF ClearQuarantine, CrashesOf
      <3> QED
        BY <3>1, FS_EmptySet, SupervisionAssumption
    <2>2. CASE v # w
      <3>1. CrashesOf(v)' = CrashesOf(v) /\ v \notin quarantined
        BY <1>1, <2>2 DEF ClearQuarantine, CrashesOf
      <3> QED
        BY <3>1 DEF BreakerOpensInTime
    <2> QED
      BY <2>1, <2>2
  <1>2. ASSUME NEW i \in Inc, WindowSlides(i) PROVE BreakerOpensInTime'
    <2> SUFFICES ASSUME NEW v \in Workers, v \notin quarantined
                 PROVE  Cardinality(CrashesOf(v))' <= MaxCrashesInWindow
      BY <1>2 DEF BreakerOpensInTime, WindowSlides
    <2>1. CrashesOf(v)' \subseteq CrashesOf(v)
      BY <1>2 DEF WindowSlides, CrashesOf
    <2>2. Cardinality(CrashesOf(v)') <= Cardinality(CrashesOf(v)) /\ Cardinality(CrashesOf(v)') \in Nat
      BY <2>1, CrashSets, FS_Subset, FS_CardinalityType
    <2> QED
      BY <2>2, CrashSets, SupervisionAssumption DEF BreakerOpensInTime
  <1>3. ASSUME NEW i \in Inc, FailureEvent(i) PROVE BreakerOpensInTime'
    <2> DEFINE w == Owner(i)
    <2>1. w \in Workers
      BY IncFacts
    <2> SUFFICES ASSUME NEW v \in Workers, v \notin quarantined'
                 PROVE  Cardinality(CrashesOf(v))' <= MaxCrashesInWindow
      BY DEF BreakerOpensInTime
    <2>2. CASE v # w \/ w \in quarantined
      <3>1. CrashesOf(v)' = CrashesOf(v) /\ v \notin quarantined
        BY <1>3, <2>2 DEF FailureEvent, OnWorkerFailed, CrashesOf, policyVars
      <3> QED
        BY <3>1 DEF BreakerOpensInTime
    <2>3. CASE v = w /\ w \notin quarantined
      <3>1. ~TripsBreaker(CrashesOf(w) \cup {i}) /\ crashes' = crashes \cup {i}
        BY <1>3, <2>3 DEF FailureEvent, OnWorkerFailed
      <3>2. CrashesOf(v)' = CrashesOf(w) \cup {i}
        BY <2>3, <3>1 DEF CrashesOf
      <3> QED
        BY <2>1, <3>1, <3>2, CrashSets, SupervisionAssumption DEF TripsBreaker
    <2> QED
      BY <2>2, <2>3
  <1>4. CASE UNCHANGED <<crashes, quarantined>>
    BY <1>4, BreakerFrame
  <1> QED
    BY <1>1, <1>2, <1>3, <1>4 DEF Next, Operator, Environment, EventLoop, StartWorker,
       OperatorRestart, StopWorker, PauseWorker, ResumeWorker,
       ProcessFails, ProcessEnds, ExitEvent, BackoffElapses, Shutdown,
       ShutdownCompletes, policyVars, vars

\* A worker outside quarantine never has more crashes in the window than
\* WorkerLifecyclePolicy allows, also when quarantine is cleared by hand.
THEOREM BreakerOpens == Spec => []BreakerOpensInTime
PROOF
  <1>1. Init => BreakerOpensInTime
    <2> SUFFICES ASSUME Init, NEW w \in Workers
                 PROVE  Cardinality(CrashesOf(w)) <= MaxCrashesInWindow
      BY DEF BreakerOpensInTime
    <2>1. CrashesOf(w) = {}
      BY DEF Init, CrashesOf
    <2> QED
      BY <2>1, FS_EmptySet, SupervisionAssumption
  <1>2. TypeOK /\ BreakerOpensInTime /\ [Next]_vars => BreakerOpensInTime'
    BY BreakerStep
  <1> QED
    BY <1>1, <1>2, TypeCorrect, PTL DEF Spec

-----------------------------------------------------------------------------
(* Restarts in flight.  The crashes that count and have a restart asleep   *)
(* are crashes of the window: a new one is scheduled only while the window *)
(* stays within the limit, and no other step adds one, because a crash is  *)
(* reported once.                                                          *)

TimersAreOver == \A i \in timers : process[i] = "gone"
PendingInv == TimersAreOver /\ PendingRestartsBounded

Pending(w) == TimersOf(w) \cap CrashesOf(w)

\* What a spawn or a signal does to processes leaves reported ones alone.
LEMMA GoneStaysGone ==
  ASSUME TypeOK, [Next]_vars, NEW i \in Inc, process[i] = "gone"
  PROVE  process'[i] = "gone"
PROOF
  <1>2. ASSUME NEW c \in Inc \cup {None}
        PROVE  AfterTerm(c) \in [Inc -> ProcessStatus] /\ AfterTerm(c)[i] = "gone"
    BY DEF AfterTerm, TypeOK, ProcessStatus
  <1>3. \A w \in Workers : children[w] \in Inc \cup {None}
    BY DEF TypeOK
  <1>4. ASSUME NEW w \in Workers, RestartWorker(w) PROVE process'[i] = "gone"
    <2>1. CASE store[w] = None
      BY <1>4, <2>1 DEF RestartWorker
    <2>2. CASE store[w] # None
      <3>1. PICK j \in Unborn(w) : NextIncarnation(j) /\ Spawned(j, AfterTerm(children[w]))
        BY <1>4, <2>2 DEF RestartWorker
      <3>2. i # j
        BY <3>1 DEF NextIncarnation
      <3> QED
        BY <1>2, <1>3, <3>1, <3>2 DEF Spawned
    <2> QED
      BY <2>1, <2>2
  <1>5. ASSUME NEW w \in Workers, StartWorker(w) PROVE process'[i] = "gone"
    <2>1. PICK j \in Unborn(w) : NextIncarnation(j) /\ Spawned(j, process)
      BY <1>5 DEF StartWorker
    <2>2. i # j
      BY <2>1 DEF NextIncarnation
    <2> QED
      BY <2>1, <2>2 DEF Spawned, TypeOK
  <1>6. ASSUME NEW w \in Workers, StopWorker(w) \/ PauseWorker(w) \/ ResumeWorker(w)
        PROVE  process'[i] = "gone"
    BY <1>2, <1>3, <1>6 DEF StopWorker, PauseWorker, ResumeWorker, TypeOK
  <1>7. CASE Shutdown
    BY <1>2, <1>7 DEF Shutdown
  <1>8. ASSUME NEW j \in Inc, ProcessFails(j) \/ ProcessEnds(j) \/ ExitEvent(j) \/ FailureEvent(j)
        PROVE  process'[i] = "gone"
    BY <1>8 DEF ProcessFails, ProcessEnds, ExitEvent, FailureEvent, TypeOK
  <1>9. CASE UNCHANGED process
    BY <1>9
  <1> QED
    BY <1>4, <1>5, <1>6, <1>7, <1>8, <1>9, IncFacts DEF Next, Operator, Environment, EventLoop,
       OperatorRestart, ClearQuarantine, BackoffElapses, WindowSlides, ShutdownCompletes, vars

\* Fewer pending crashes are within the limit too.
LEMMA PendingShrinks ==
  ASSUME TypeOK, PendingRestartsBounded, \A w \in Workers : Pending(w)' \subseteq Pending(w)
  PROVE  PendingRestartsBounded'
PROOF
  <1>1. ASSUME NEW w \in Workers PROVE Cardinality(Pending(w)') <= MaxCrashesInWindow
    <2>1. Pending(w) \subseteq CrashesOf(w)
      BY DEF Pending
    <2>2. IsFiniteSet(Pending(w)) /\ Cardinality(Pending(w)) \in Nat
      BY <2>1, CrashSets, FS_Subset, FS_CardinalityType
    <2>3. Cardinality(Pending(w)') <= Cardinality(Pending(w)) /\ Cardinality(Pending(w)') \in Nat
      BY <2>2, FS_Subset, FS_CardinalityType
    <2> QED
      BY <2>2, <2>3, SupervisionAssumption DEF PendingRestartsBounded, Pending
  <1> QED
    BY <1>1 DEF PendingRestartsBounded, Pending

LEMMA PendingStep ==
  ASSUME TypeOK, PendingInv, [Next]_vars
  PROVE  PendingInv'
PROOF
  <1>1. ASSUME NEW i \in Inc, FailureEvent(i) PROVE PendingInv'
    <2> DEFINE w == Owner(i)
    <2>1. w \in Workers
      BY IncFacts
    <2>2. i \notin timers
      BY <1>1 DEF FailureEvent, PendingInv, TimersAreOver
    <2>3. TimersAreOver'
      BY <1>1, <2>2 DEF FailureEvent, OnWorkerFailed, PendingInv, TimersAreOver, TypeOK, policyVars
    <2>4. CASE UNCHANGED timers
      <3>1. crashes' \subseteq crashes \cup {i}
        BY <1>1 DEF FailureEvent, OnWorkerFailed, policyVars
      <3>2. \A v \in Workers : Pending(v)' \subseteq Pending(v)
        BY <2>2, <2>4, <3>1 DEF Pending, TimersOf, CrashesOf
      <3> QED
        BY <2>3, <3>2, PendingShrinks DEF PendingInv
    <2>5. CASE timers' # timers
      <3>1. /\ ~TripsBreaker(CrashesOf(w) \cup {i})
            /\ crashes' = crashes \cup {i}
            /\ timers' = timers \cup {i}
        BY <1>1, <2>5 DEF FailureEvent, OnWorkerFailed, policyVars
      <3>2. ASSUME NEW v \in Workers PROVE Cardinality(Pending(v)') <= MaxCrashesInWindow
        <4>1. CASE v # w
          <5>1. Pending(v)' = Pending(v)
            BY <3>1, <4>1 DEF Pending, TimersOf, CrashesOf
          <5> QED
            BY <5>1 DEF PendingInv, PendingRestartsBounded, Pending
        <4>2. CASE v = w
          <5>1. Pending(v)' \subseteq CrashesOf(w) \cup {i}
            BY <3>1, <4>2 DEF Pending, CrashesOf
          <5>2. /\ Cardinality(Pending(v)') <= Cardinality(CrashesOf(w) \cup {i})
                /\ Cardinality(Pending(v)') \in Nat
            BY <2>1, <5>1, CrashSets, FS_Subset, FS_CardinalityType
          <5> QED
            BY <2>1, <3>1, <5>2, CrashSets, SupervisionAssumption DEF TripsBreaker
        <4> QED
          BY <4>1, <4>2
      <3> QED
        BY <2>3, <3>2 DEF PendingInv, PendingRestartsBounded, Pending
    <2> QED
      BY <2>4, <2>5
  <1>2. CASE timers' \subseteq timers /\ crashes' \subseteq crashes
    <2>1. TimersAreOver'
      BY <1>2, GoneStaysGone DEF PendingInv, TimersAreOver, TypeOK
    <2>2. \A v \in Workers : Pending(v)' \subseteq Pending(v)
      BY <1>2 DEF Pending, TimersOf, CrashesOf
    <2> QED
      BY <2>1, <2>2, PendingShrinks DEF PendingInv
  <1> QED
    BY <1>1, <1>2 DEF Next, Operator, Environment, EventLoop, StartWorker, OperatorRestart,
       StopWorker, PauseWorker, ResumeWorker, ClearQuarantine, BackoffElapses, WindowSlides,
       ProcessFails, ProcessEnds, ExitEvent, Shutdown, ShutdownCompletes, policyVars, vars

\* However crashes, restarts, starts and clearings interleave, a worker never
\* has more automatic restarts asleep, for crashes that still count, than the
\* policy allows crashes in one window.
THEOREM RestartsAreBounded == Spec => []PendingRestartsBounded
PROOF
  <1>1. Init => PendingInv
    <2> SUFFICES ASSUME Init PROVE PendingInv
      OBVIOUS
    <2>1. timers = {}
      BY DEF Init
    <2>2. \A w \in Workers : Cardinality(TimersOf(w) \cap CrashesOf(w)) = 0
      BY <2>1, FS_EmptySet DEF TimersOf
    <2> QED
      BY <2>1, <2>2, SupervisionAssumption DEF PendingInv, TimersAreOver, PendingRestartsBounded
  <1>2. TypeOK /\ PendingInv /\ [Next]_vars => PendingInv'
    BY PendingStep
  <1>3. PendingInv => PendingRestartsBounded
    BY DEF PendingInv
  <1> QED
    BY <1>1, <1>2, <1>3, TypeCorrect, PTL DEF Spec

-----------------------------------------------------------------------------
\* No backoff timer, exit event or restart brings a removed worker back.
THEOREM RemovedWorkersStayRemoved == Spec => RemovedStaysRemoved
PROOF
  <1>1. ASSUME TypeOK, [Next]_vars, NEW w \in Workers, store[w] = None, store'[w] # None
        PROVE  StartWorker(w)
    <2>1. ASSUME NEW v \in Workers, RestartWorker(v) PROVE FALSE
      <3>1. CASE v = w
        BY <1>1, <2>1, <3>1 DEF RestartWorker
      <3>2. CASE v # w /\ store[v] = None
        BY <1>1, <2>1, <3>2 DEF RestartWorker
      <3>3. CASE v # w /\ store[v] # None
        <4>1. PICK i \in Unborn(v) : Spawned(i, AfterTerm(children[v]))
          BY <2>1, <3>3 DEF RestartWorker
        <4> QED
          BY <1>1, <3>3, <4>1 DEF Spawned, Unborn, TypeOK
      <3> QED
        BY <3>1, <3>2, <3>3
    <2>2. ASSUME NEW v \in Workers, StartWorker(v) PROVE v = w
      <3>1. PICK i \in Unborn(v) : Spawned(i, process)
        BY <2>2 DEF StartWorker
      <3> QED
        BY <1>1, <3>1 DEF Spawned, Unborn, TypeOK
    <2>3. \A i \in Inc : ~BackoffElapses(i)
      BY <2>1, IncFacts DEF BackoffElapses
    <2>4. \A v \in Workers : ~OperatorRestart(v)
      BY <2>1 DEF OperatorRestart
    <2>5. ASSUME NEW v \in Workers, StopWorker(v) PROVE FALSE
      BY <1>1, <2>5 DEF StopWorker, TypeOK
    <2>6. ~Shutdown
      BY <1>1 DEF Shutdown
    <2> QED
      BY <1>1, <2>2, <2>3, <2>4, <2>5, <2>6 DEF Next, Operator, Environment, EventLoop,
         PauseWorker, ResumeWorker, ClearQuarantine,
         ProcessFails, ProcessEnds, WindowSlides, ExitEvent, FailureEvent, ShutdownCompletes,
         vars
  <1>2. TypeOK /\ [Next]_vars
          => [\A w \in Workers : store[w] = None /\ store'[w] # None => StartWorker(w)]_vars
    BY <1>1
  <1> QED
    BY <1>2, TypeCorrect, PTL DEF Spec, RemovedStaysRemoved

=============================================================================
