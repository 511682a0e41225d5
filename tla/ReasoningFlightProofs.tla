------------------------ MODULE ReasoningFlightProofs ------------------------
(***************************************************************************)
(* Theorems about ReasoningFlight, for every set of workers and requests,  *)
(* every assignment, limit and number of spawned Worker objects; and about *)
(* the external programs behind the requests, in both versions:            *)
(* CliExecution, for every set of calls, and ProcessHandle.                *)
(***************************************************************************)
EXTENDS ReasoningFlight, ChildProcesses, FiniteSetTheorems, TLAPS

LEMMA IdFacts ==
  /\ \A r \in Requests : WorkerOf[r] \in Ids
  /\ \A w \in Workers : w \in Ids
  /\ \A w \in Workers, n \in 0..MaxSpawns : <<w, n>> \in Object
  /\ {"COMPLETED", "FAILED"} \subseteq Outcome /\ "INTERRUPTED" \in Outcome
PROOF
  BY FlightAssumption DEF Ids, Object, Outcome

LEMMA CompletionTypes ==
  ASSUME TypeOK, NEW o \in Object \cup {None}, NEW outcome \in Outcome,
         CompleteExecution(o, outcome)
  PROVE  /\ slot' \in [Object -> Requests \cup {None}]
         /\ history' \in [Requests -> SUBSET Outcome]
PROOF
  BY FlightAssumption DEF TypeOK, CompleteExecution

LEMMA NewObjectTypes ==
  ASSUME TypeOK, NEW w \in Workers, NewObject(w)
  PROVE  TypeOK'
PROOF
  <1>1. spawned[w] + 1 \in 0..MaxSpawns
    BY FlightAssumption DEF TypeOK, NewObject
  <1>2. current' \in [Workers -> Object \cup {None}] /\ spawned' \in [Workers -> 0..MaxSpawns]
    BY <1>1, IdFacts DEF TypeOK, NewObject
  <1> QED
    BY <1>2 DEF TypeOK, NewObject

\* Every variable of the coordinator, the plugin and the workers keeps its type.
THEOREM TypeCorrect == Spec => []TypeOK
PROOF
  <1>1. Init => TypeOK
    BY FlightAssumption, IdFacts DEF Init, TypeOK, Phase
  <1>2. TypeOK /\ [Next]_vars => TypeOK'
    <2> SUFFICES ASSUME TypeOK, [Next]_vars PROVE TypeOK'
      OBVIOUS
    <2>1. ASSUME NEW r \in Requests, RefuseRequest(r) PROVE TypeOK'
      BY <2>1, IdFacts DEF RefuseRequest, TypeOK, storeVars, Phase
    <2>2. ASSUME NEW r \in Requests, AcceptRequest(r) PROVE TypeOK'
      BY <2>2, IdFacts DEF AcceptRequest, WorkerFor, CurrentOf, TypeOK, storeVars, Phase
    <2>3. ASSUME NEW r \in Requests, NoPlugin(r) PROVE TypeOK'
      BY <2>3, IdFacts DEF NoPlugin, TypeOK, storeVars, Phase
    <2>4. ASSUME NEW r \in Requests, BeginExecution(r) PROVE TypeOK'
      BY <2>4, IdFacts DEF BeginExecution, TakeSlot, Write, TypeOK, storeVars, Phase
    <2>5. ASSUME NEW r \in Requests, BeginThrows(r) PROVE TypeOK'
      BY <2>5 DEF BeginThrows, TypeOK, storeVars, Phase
    <2>14. ASSUME NEW r \in Requests, AnnounceThrows(r) PROVE TypeOK'
      BY <2>14, IdFacts DEF AnnounceThrows, TakeSlot, Write, TypeOK, storeVars, Phase
    <2>6. ASSUME NEW r \in Requests, NEW outcome \in {"COMPLETED", "FAILED"},
                 BeginWithoutProcess(r, outcome) PROVE TypeOK'
      BY <2>6, IdFacts DEF BeginWithoutProcess, Untrack, Write, TypeOK, storeVars, Phase
    <2>7. ASSUME NEW r \in Requests, NEW outcome \in {"COMPLETED", "FAILED"},
                 Settle(r, outcome) PROVE TypeOK'
      <3>1. captured[r] \in Object \cup {None} /\ outcome \in Outcome
        BY IdFacts DEF TypeOK
      <3>2. /\ slot' \in [Object -> Requests \cup {None}]
            /\ history' \in [Requests -> SUBSET Outcome]
        BY <2>7, <3>1, CompletionTypes DEF Settle, Complete
      <3> QED
        BY <2>7, <3>1, <3>2, IdFacts DEF Settle, Untrack, LogExit, Write, TypeOK, storeVars, Phase
    <2>8. ASSUME NEW r \in Requests, OutputChunk(r) PROVE TypeOK'
      BY <2>8, IdFacts DEF OutputChunk, Write, TypeOK, storeVars
    <2>9. ASSUME NEW r \in Requests, CancelReasoning(r) PROVE TypeOK'
      BY <2>9 DEF CancelReasoning, TypeOK, storeVars
    <2>10. ASSUME NEW w \in Workers, CancelForWorker(w) PROVE TypeOK'
      <3>1. /\ slot' \in [Object -> Requests \cup {None}]
            /\ history' \in [Requests -> SUBSET Outcome]
        BY <2>10, IdFacts, CompletionTypes DEF CancelForWorker, TypeOK
      <3>2. process' \in [Requests -> {"none", "running", "killed", "gone"}]
        BY <2>10, IdFacts DEF CancelForWorker, TypeOK
      <3> QED
        BY <2>10, <3>1, <3>2, IdFacts DEF CancelForWorker, Write, TypeOK, storeVars
    <2>11. ASSUME NEW w \in Workers, RestartWorker(w) \/ StartWorker(w) PROVE TypeOK'
      BY <2>11, NewObjectTypes DEF RestartWorker, StartWorker
    <2>12. ASSUME NEW w \in Workers, StopWorker(w) PROVE TypeOK'
      BY <2>12, IdFacts DEF StopWorker, TypeOK
    <2>13. CASE UNCHANGED vars
      BY <2>13 DEF vars, TypeOK
    <2> QED
      BY <2>1, <2>2, <2>3, <2>4, <2>5, <2>6, <2>7, <2>8, <2>9, <2>10, <2>11, <2>12, <2>13,
         <2>14 DEF Next, Advance, Begin, Operator
  <1> QED
    BY <1>1, <1>2, PTL DEF Spec

-----------------------------------------------------------------------------
(* The slot of a Worker object and the process table of the plugin.        *)

FlightInv == SlotHeldByItsFlight /\ TrackedIsRunning

LEMMA FlightInit == Init => FlightInv
PROOF
  BY FlightAssumption DEF Init, FlightInv, SlotHeldByItsFlight, TrackedIsRunning

LEMMA FlightStep == TypeOK /\ FlightInv /\ [Next]_vars => FlightInv'
PROOF
  <1> SUFFICES ASSUME TypeOK, FlightInv, [Next]_vars PROVE FlightInv'
    OBVIOUS
  <1> USE DEF FlightInv
  <1>1. ASSUME NEW r \in Requests, RefuseRequest(r) \/ AcceptRequest(r) PROVE FlightInv'
    BY <1>1 DEF RefuseRequest, AcceptRequest, TypeOK, storeVars, SlotHeldByItsFlight,
       TrackedIsRunning
  <1>2. ASSUME NEW r \in Requests, NoPlugin(r) \/ BeginThrows(r) PROVE FlightInv'
    BY <1>2 DEF NoPlugin, BeginThrows, TypeOK, storeVars, SlotHeldByItsFlight, TrackedIsRunning
  <1>3. ASSUME NEW r \in Requests, BeginExecution(r) PROVE FlightInv'
    <2>1. SlotHeldByItsFlight'
      BY <1>3, FlightAssumption DEF BeginExecution, TakeSlot, MayBegin, TypeOK, storeVars,
         SlotHeldByItsFlight
    <2>2. TrackedIsRunning'
      BY <1>3, FlightAssumption DEF BeginExecution, MayBegin, TypeOK, storeVars, TrackedIsRunning
    <2> QED
      BY <2>1, <2>2
  <1>10. ASSUME NEW r \in Requests, AnnounceThrows(r) PROVE FlightInv'
    <2>1. SlotHeldByItsFlight'
      BY <1>10, FlightAssumption DEF AnnounceThrows, TakeSlot, MayBegin, TypeOK, storeVars,
         SlotHeldByItsFlight
    <2>2. TrackedIsRunning'
      BY <1>10, FlightAssumption DEF AnnounceThrows, MayBegin, TypeOK, storeVars, TrackedIsRunning
    <2> QED
      BY <2>1, <2>2
  <1>4. ASSUME NEW r \in Requests, NEW outcome \in {"COMPLETED", "FAILED"},
               BeginWithoutProcess(r, outcome) PROVE FlightInv'
    BY <1>4, FlightAssumption DEF BeginWithoutProcess, MayBegin, Untrack, TypeOK, storeVars,
       SlotHeldByItsFlight, TrackedIsRunning
  <1>5. ASSUME NEW r \in Requests, NEW outcome \in {"COMPLETED", "FAILED"},
               Settle(r, outcome) PROVE FlightInv'
    <2>1. \A o \in Object : slot'[o] = slot[o] \/ slot'[o] = None
      BY <1>5 DEF Settle, Complete, CompleteExecution, TypeOK
    <2>2. \A o \in Object : slot[o] = r => slot'[o] = None
      BY <1>5, FlightAssumption DEF Settle, Complete, CompleteExecution, TypeOK,
         SlotHeldByItsFlight
    <2>3. SlotHeldByItsFlight'
      BY <1>5, <2>1, <2>2, FlightAssumption DEF Settle, TypeOK, SlotHeldByItsFlight
    <2>4. TrackedIsRunning'
      BY <1>5, FlightAssumption DEF Settle, Untrack, TypeOK, TrackedIsRunning
    <2> QED
      BY <2>3, <2>4
  <1>6. ASSUME NEW r \in Requests, OutputChunk(r) \/ CancelReasoning(r) PROVE FlightInv'
    BY <1>6 DEF OutputChunk, CancelReasoning, storeVars, SlotHeldByItsFlight, TrackedIsRunning
  <1>7. ASSUME NEW w \in Workers, CancelForWorker(w) PROVE FlightInv'
    <2>1. \A o \in Object : slot'[o] = slot[o] \/ slot'[o] = None
      BY <1>7 DEF CancelForWorker, CompleteExecution, TypeOK
    <2>2. SlotHeldByItsFlight'
      BY <1>7, <2>1, FlightAssumption DEF CancelForWorker, TypeOK, SlotHeldByItsFlight
    <2>3. ASSUME NEW id \in Ids, NEW r \in Requests, tracked'[id] = r
          PROVE  (pc[r] = "executing" /\ process[r] = "running" /\ WorkerOf[r] = id)'
      <3>1. id # w /\ tracked[id] = r
        BY <1>7, <2>3, IdFacts, FlightAssumption DEF CancelForWorker, TypeOK
      <3>2. pc[r] = "executing" /\ process[r] = "running" /\ WorkerOf[r] = id
        BY <3>1 DEF TrackedIsRunning
      <3>3. tracked[w] # r
        BY <3>1, <3>2, IdFacts DEF TrackedIsRunning
      <3> QED
        BY <1>7, <3>2, <3>3 DEF CancelForWorker, TypeOK
    <2> QED
      BY <2>2, <2>3 DEF TrackedIsRunning
  <1>8. ASSUME NEW w \in Workers, RestartWorker(w) \/ StartWorker(w) \/ StopWorker(w)
        PROVE  FlightInv'
    BY <1>8 DEF RestartWorker, StartWorker, NewObject, StopWorker, SlotHeldByItsFlight,
       TrackedIsRunning
  <1>9. CASE UNCHANGED vars
    BY <1>9 DEF vars, SlotHeldByItsFlight, TrackedIsRunning
  <1> QED
    BY <1>1, <1>2, <1>3, <1>4, <1>5, <1>6, <1>7, <1>8, <1>9, <1>10 DEF Next, Advance, Begin, Operator

\* No interleaving of requests, closes, interrupts, restarts and removals
\* leaves a Worker object holding the slot of a request that is over.
THEOREM SlotsAreHeldByFlights == Spec => []SlotHeldByItsFlight
PROOF
  <1>1. FlightInv => SlotHeldByItsFlight
    BY DEF FlightInv
  <1> QED
    BY <1>1, FlightInit, FlightStep, TypeCorrect, PTL DEF Spec

\* cancel() never signals the process of a request that is over: what the
\* plugin tracks for a worker id is always a running process.
THEOREM TrackedProcessesRun == Spec => []TrackedIsRunning
PROOF
  <1>1. FlightInv => TrackedIsRunning
    BY DEF FlightInv
  <1> QED
    BY <1>1, FlightInit, FlightStep, TypeCorrect, PTL DEF Spec

-----------------------------------------------------------------------------
(* The coordinator's limit.                                                *)

\* The open requests never exceed ReasoningPolicy.maxConcurrentRequests, and
\* a request that has returned is not open.
THEOREM ConcurrencyBounded == Spec => []ConcurrencyIsBounded
PROOF
  <1>1. Init => ConcurrencyIsBounded
    <2> SUFFICES ASSUME Init PROVE ConcurrencyIsBounded
      OBVIOUS
    <2>1. activeRequests = {}
      BY DEF Init
    <2> QED
      BY <2>1, FS_EmptySet, FlightAssumption DEF ConcurrencyIsBounded
  <1>2. TypeOK /\ ConcurrencyIsBounded /\ [Next]_vars => ConcurrencyIsBounded'
    <2> SUFFICES ASSUME TypeOK, ConcurrencyIsBounded, [Next]_vars PROVE ConcurrencyIsBounded'
      OBVIOUS
    <2>1. IsFiniteSet(activeRequests) /\ Cardinality(activeRequests) \in Nat
      BY FlightAssumption, FS_Subset, FS_CardinalityType DEF TypeOK
    <2>2. ASSUME activeRequests' \subseteq activeRequests
          PROVE  Cardinality(activeRequests') <= MaxConcurrentRequests
      BY <2>1, <2>2, FS_Subset, FS_CardinalityType, FlightAssumption DEF ConcurrencyIsBounded
    <2>3. ASSUME NEW r \in Requests, AcceptRequest(r) PROVE ConcurrencyIsBounded'
      <3>1. r \notin activeRequests
        BY <2>3 DEF AcceptRequest, ConcurrencyIsBounded
      <3>2. Cardinality(activeRequests \cup {r}) = Cardinality(activeRequests) + 1
        BY <2>1, <3>1, FS_AddElement
      <3>3. Cardinality(activeRequests') <= MaxConcurrentRequests
        BY <2>1, <2>3, <3>2, FlightAssumption DEF AcceptRequest, AtLimit
      <3> QED
        BY <2>3, <3>3 DEF AcceptRequest, ConcurrencyIsBounded, TypeOK
    <2>4. ASSUME NEW r \in Requests, RefuseRequest(r) \/ BeginThrows(r) PROVE ConcurrencyIsBounded'
      BY <2>2, <2>4 DEF RefuseRequest, BeginThrows, ConcurrencyIsBounded, TypeOK
    <2>5. ASSUME NEW r \in Requests, NoPlugin(r) PROVE ConcurrencyIsBounded'
      BY <2>2, <2>5 DEF NoPlugin, ConcurrencyIsBounded, TypeOK
    <2>6. ASSUME NEW r \in Requests, BeginExecution(r) \/ AnnounceThrows(r)
          PROVE  ConcurrencyIsBounded'
      BY <2>2, <2>6 DEF BeginExecution, AnnounceThrows, ConcurrencyIsBounded, TypeOK
    <2>7. ASSUME NEW r \in Requests, NEW outcome \in {"COMPLETED", "FAILED"},
                 BeginWithoutProcess(r, outcome) \/ Settle(r, outcome)
          PROVE  ConcurrencyIsBounded'
      BY <2>2, <2>7 DEF BeginWithoutProcess, Settle, ConcurrencyIsBounded, TypeOK
    <2>8. CASE activeRequests' \subseteq activeRequests /\ pc' = pc
      BY <2>2, <2>8 DEF ConcurrencyIsBounded
    <2> QED
      BY <2>3, <2>4, <2>5, <2>6, <2>7, <2>8 DEF Next, Advance, Begin, Operator, OutputChunk,
         CancelReasoning, CancelForWorker, RestartWorker, StartWorker, NewObject, StopWorker, vars
  <1> QED
    BY <1>1, <1>2, TypeCorrect, PTL DEF Spec

-----------------------------------------------------------------------------
(* Single flight and an honest history, but for interrupts.  An executing  *)
(* request owns the slot of the object it captured and has nothing written *)
(* about it yet, unless that object was interrupted.                       *)

GateInv ==
  /\ \A r \in Requests : process[r] = "running" => pc[r] = "executing"
  /\ \A r \in Requests :
       pc[r] \in {"idle", "selecting"} \/ (pc[r] = "executing" /\ captured[r] = None)
         => history[r] = {}
  /\ \A r \in Requests :
       pc[r] = "executing" /\ captured[r] # None
         => Interrupted(captured[r]) \/ (slot[captured[r]] = r /\ history[r] = {})
  /\ HonestUnlessInterrupted

\* An object that was interrupted remains so: histories only grow, and a
\* request captures its object before anything is written about it.
LEMMA InterruptedStays ==
  ASSUME TypeOK, GateInv, [Next]_vars, NEW o, Interrupted(o)
  PROVE  Interrupted(o)'
PROOF
  <1>1. PICK q \in Requests : captured[q] = o /\ "INTERRUPTED" \in history[q]
    BY DEF Interrupted
  <1>2. pc[q] \notin {"idle", "selecting"}
    BY <1>1 DEF GateInv
  <1>3. captured'[q] = captured[q]
    BY <1>2 DEF Next, Advance, Begin, Operator, RefuseRequest, AcceptRequest, NoPlugin,
       BeginExecution, BeginThrows, AnnounceThrows, BeginWithoutProcess, Settle, OutputChunk, CancelReasoning,
       CancelForWorker, RestartWorker, StartWorker, NewObject, StopWorker, vars, TypeOK
  <1>4. history[q] \subseteq history'[q]
    <2>1. ASSUME NEW c, NEW outcome, CompleteExecution(c, outcome)
          PROVE  history[q] \subseteq history'[q]
      BY <2>1 DEF CompleteExecution, TypeOK
    <2>2. ASSUME NEW r \in Requests, NEW outcome \in {"COMPLETED", "FAILED"},
                 BeginWithoutProcess(r, outcome) \/ Settle(r, outcome)
          PROVE  history[q] \subseteq history'[q]
      BY <2>1, <2>2 DEF BeginWithoutProcess, Settle, Complete, TypeOK
    <2>3. ASSUME NEW w \in Workers, CancelForWorker(w) PROVE history[q] \subseteq history'[q]
      BY <2>1, <2>3 DEF CancelForWorker
    <2> QED
      BY <2>2, <2>3 DEF Next, Advance, Begin, Operator, RefuseRequest, AcceptRequest, NoPlugin,
         BeginExecution, BeginThrows, AnnounceThrows, OutputChunk, CancelReasoning, RestartWorker,
         StartWorker, NewObject, StopWorker, vars
  <1> QED
    BY <1>1, <1>3, <1>4 DEF Interrupted

LEMMA GateStep ==
  ASSUME TypeOK, FlightInv, GateInv, [Next]_vars
  PROVE  GateInv'
PROOF
  <1> DEFINE Stays == \A o : Interrupted(o) => Interrupted(o)'
  <1>0. Stays
    BY InterruptedStays
  <1> HIDE DEF Stays
  <1>1. ASSUME NEW r \in Requests, RefuseRequest(r) PROVE GateInv'
    BY <1>0, <1>1 DEF Stays, GateInv, HonestUnlessInterrupted, RefuseRequest, TypeOK
  <1>2. ASSUME NEW r \in Requests, AcceptRequest(r) PROVE GateInv'
    BY <1>0, <1>2 DEF Stays, GateInv, HonestUnlessInterrupted, AcceptRequest, TypeOK
  <1>3. ASSUME NEW r \in Requests, NoPlugin(r) \/ BeginThrows(r) PROVE GateInv'
    BY <1>0, <1>3 DEF Stays, GateInv, HonestUnlessInterrupted, NoPlugin, BeginThrows, TypeOK
  <1>4. ASSUME NEW r \in Requests, BeginExecution(r) PROVE GateInv'
    <2>1. ASSUME NEW s \in Requests, s # r, captured[r] # None,
                 slot[captured[s]] = s
          PROVE  captured[s] # captured[r]
      BY <1>4, <2>1, FlightAssumption DEF BeginExecution, MayBegin, IsBusy
    <2>2. \A s \in Requests \ {r} :
            pc[s] = "executing" /\ captured[s] # None
              => Interrupted(captured[s]) \/ (slot[captured[s]] = s /\ history[s] = {})
      BY DEF GateInv
    <2>3. \A s \in Requests \ {r} :
            (pc[s] = "executing" /\ captured[s] # None
              => Interrupted(captured[s]) \/ (slot[captured[s]] = s /\ history[s] = {}))'
      BY <1>0, <1>4, <2>1, <2>2 DEF Stays, BeginExecution, TakeSlot, MayBegin, TypeOK
    <2>4. (pc[r] = "executing" /\ captured[r] # None
              => slot[captured[r]] = r /\ history[r] = {})'
      BY <1>4 DEF BeginExecution, TakeSlot, MayBegin, TypeOK, GateInv
    <2>5. HonestUnlessInterrupted'
      BY <1>0, <1>4 DEF Stays, GateInv, HonestUnlessInterrupted, BeginExecution, TypeOK
    <2> QED
      BY <1>4, <2>3, <2>4, <2>5 DEF GateInv, BeginExecution, MayBegin, TypeOK
  <1>11. ASSUME NEW r \in Requests, AnnounceThrows(r) PROVE GateInv'
    <2>1. ASSUME NEW s \in Requests, s # r, captured[r] # None,
                 slot[captured[s]] = s
          PROVE  captured[s] # captured[r]
      BY <1>11, <2>1, FlightAssumption DEF AnnounceThrows, MayBegin, IsBusy
    <2>2. \A s \in Requests \ {r} :
            pc[s] = "executing" /\ captured[s] # None
              => Interrupted(captured[s]) \/ (slot[captured[s]] = s /\ history[s] = {})
      BY DEF GateInv
    <2>3. \A s \in Requests \ {r} :
            (pc[s] = "executing" /\ captured[s] # None
              => Interrupted(captured[s]) \/ (slot[captured[s]] = s /\ history[s] = {}))'
      BY <1>0, <1>11, <2>1, <2>2 DEF Stays, AnnounceThrows, TakeSlot, MayBegin, TypeOK
    <2>5. HonestUnlessInterrupted'
      BY <1>0, <1>11 DEF Stays, GateInv, HonestUnlessInterrupted, AnnounceThrows, TypeOK
    <2> QED
      BY <1>11, <2>3, <2>5 DEF GateInv, AnnounceThrows, MayBegin, TypeOK
  <1>5. ASSUME NEW r \in Requests, NEW outcome \in {"COMPLETED", "FAILED"},
               BeginWithoutProcess(r, outcome) PROVE GateInv'
    BY <1>0, <1>5 DEF Stays, GateInv, HonestUnlessInterrupted, BeginWithoutProcess, MayBegin, TypeOK
  <1>6. ASSUME NEW r \in Requests, NEW outcome \in {"COMPLETED", "FAILED"},
               Settle(r, outcome) PROVE GateInv'
    <2> DEFINE o == captured[r]
    <2>1. CASE o = None \/ slot[o] = None
      <3>1. UNCHANGED <<slot, history>>
        BY <1>6, <2>1 DEF Settle, Complete, CompleteExecution
      <3>2. o # None => Interrupted(o)
        BY <1>6, <2>1, FlightAssumption DEF Settle, GateInv
      <3>3. o = None => history[r] = {}
        BY <1>6 DEF Settle, GateInv
      <3> QED
        BY <1>0, <1>6, <3>1, <3>2, <3>3 DEF Stays, GateInv, HonestUnlessInterrupted, Settle, TypeOK
    <2>2. CASE o # None /\ slot[o] = r /\ ~Interrupted(o)
      <3>1. /\ slot' = [slot EXCEPT ![o] = None]
            /\ history' = [history EXCEPT ![r] = @ \cup {outcome}]
        BY <1>6, <2>2, FlightAssumption DEF Settle, Complete, CompleteExecution
      <3>2. history[r] = {}
        BY <1>6, <2>2 DEF Settle, GateInv
      <3>3. \A s \in Requests \ {r} : slot[captured[s]] = s => captured[s] # o
        BY <2>2
      <3> QED
        BY <1>0, <1>6, <3>1, <3>2, <3>3 DEF Stays, GateInv, HonestUnlessInterrupted, Settle, TypeOK
    <2>3. CASE o # None /\ slot[o] # None /\ Interrupted(o)
      <3>1. /\ slot[o] \in Requests /\ pc[slot[o]] \in {"executing", "unlogged"}
            /\ captured[slot[o]] = o
        BY <2>3 DEF FlightInv, SlotHeldByItsFlight, TypeOK
      <3>2. /\ slot' = [slot EXCEPT ![o] = None]
            /\ history' = [history EXCEPT ![slot[o]] = @ \cup {outcome}]
        BY <1>6, <2>3 DEF Settle, Complete, CompleteExecution
      <3>3. captured' = captured
        BY <1>6 DEF Settle
      <3>5. Interrupted(o)'
        BY <1>0, <2>3, <3>3 DEF Stays
      <3>4. ASSUME NEW s \in Requests, captured[s] # o
            PROVE  history'[s] = history[s] /\ (captured[s] # None => slot'[captured[s]] = slot[captured[s]])
        BY <3>1, <3>2, <3>4 DEF TypeOK
      <3> QED
        BY <1>0, <1>6, <2>3, <3>1, <3>2, <3>3, <3>4, <3>5
           DEF Stays, GateInv, HonestUnlessInterrupted, Settle, TypeOK
    <2>4. o # None => Interrupted(o) \/ slot[o] = r
      BY <1>6 DEF Settle, GateInv
    <2> QED
      BY <2>1, <2>2, <2>3, <2>4, FlightAssumption
  <1>7. ASSUME NEW r \in Requests, OutputChunk(r) \/ CancelReasoning(r) PROVE GateInv'
    BY <1>0, <1>7 DEF Stays, GateInv, HonestUnlessInterrupted, OutputChunk, CancelReasoning
  <1>8. ASSUME NEW w \in Workers, CancelForWorker(w) PROVE GateInv'
    <2> DEFINE o == current[w]
               s == slot[o]
    <2>1. /\ o \in Object /\ s \in Requests /\ captured[s] = o
          /\ pc[s] \in {"executing", "unlogged"}
      BY <1>8 DEF CancelForWorker, IsBusy, FlightInv, SlotHeldByItsFlight, TypeOK
    <2>2. /\ slot' = [slot EXCEPT ![o] = None]
          /\ history' = [history EXCEPT ![s] = @ \cup {"INTERRUPTED"}]
      BY <1>8, <2>1, FlightAssumption DEF CancelForWorker, CompleteExecution
    <2>3. Interrupted(o)'
      <3>1. captured' = captured /\ current' = current
        BY <1>8 DEF CancelForWorker, storeVars
      <3>2. "INTERRUPTED" \in history'[s]
        BY <2>1, <2>2 DEF TypeOK
      <3> QED
        BY <2>1, <3>1, <3>2 DEF Interrupted
    <2>4. ASSUME NEW r \in Requests, captured[r] # o
          PROVE  history'[r] = history[r] /\ (captured[r] # None => slot'[captured[r]] = slot[captured[r]])
      BY <2>1, <2>2, <2>4 DEF TypeOK
    <2>5. ASSUME NEW r \in Requests, r # s PROVE history'[r] = history[r]
      BY <2>1, <2>2, <2>5 DEF TypeOK
    <2>6. \A r \in Requests : process'[r] = "running" => process[r] = "running"
      BY <1>8 DEF CancelForWorker, TypeOK
    <2>7. pc' = pc /\ captured' = captured /\ result' = result /\ current' = current
      BY <1>8 DEF CancelForWorker, storeVars
    <2> QED
      BY <1>0, <2>1, <2>3, <2>4, <2>5, <2>6, <2>7, FlightAssumption
         DEF Stays, GateInv, HonestUnlessInterrupted
  <1>9. ASSUME NEW w \in Workers, RestartWorker(w) \/ StartWorker(w) \/ StopWorker(w)
        PROVE  GateInv'
    BY <1>0, <1>9 DEF Stays, GateInv, HonestUnlessInterrupted, RestartWorker, StartWorker,
       NewObject, StopWorker
  <1>10. CASE UNCHANGED vars
    BY <1>0, <1>10 DEF Stays, GateInv, HonestUnlessInterrupted, vars
  <1> QED
    BY <1>1, <1>2, <1>3, <1>4, <1>5, <1>6, <1>7, <1>8, <1>9, <1>10, <1>11
       DEF Next, Advance, Begin, Operator

LEMMA GateIsInvariant == Spec => []GateInv
PROOF
  <1>1. Init => GateInv
    BY DEF Init, GateInv, HonestUnlessInterrupted
  <1> QED
    BY <1>1, GateStep, FlightInit, FlightStep, TypeCorrect, PTL DEF Spec

\* Whatever is restarted, stopped or started, one Worker object has two CLI
\* processes only after somebody interrupted it.
THEOREM SingleFlightHolds == Spec => []SingleFlightUnlessInterrupted
PROOF
  <1>1. GateInv => SingleFlightUnlessInterrupted
    BY DEF GateInv, SingleFlightUnlessInterrupted
  <1> QED
    BY <1>1, GateIsInvariant, PTL

\* The history of a worker agrees with what the callers were told, unless
\* the Worker object that served the request was interrupted.
THEOREM HistoryIsHonest == Spec => []HonestUnlessInterrupted
PROOF
  <1>1. GateInv => HonestUnlessInterrupted
    BY DEF GateInv
  <1> QED
    BY <1>1, GateIsInvariant, PTL

-----------------------------------------------------------------------------
(* The programs behind the requests: CliExecution, for every set of calls, *)
(* shared among the workers in any way.                                    *)

Leaders == {"idle", "noSpawn", "running", "signalled", "exited0", "exitedN", "closed0", "closedN"}

CallsTyped ==
  /\ worker \in [CliCalls -> CliWorkers]
  /\ leader \in [CallIds -> Leaders]
  /\ forked \in [CallIds -> BOOLEAN]
  /\ settled \in [CallIds -> {"none", "success", "failure", "timeout"}]
  /\ table \in [CliWorkers -> CliCalls \cup {NoCall}]
  /\ interrupted \subseteq CliWorkers

\* A worker that was not interrupted has one call at a time, so that no end of an
\* old call deletes the entry of a new one.
OneCallEach ==
  \A c, d \in CliCalls :
    Pending(c) /\ Pending(d) /\ worker[c] = worker[d] /\ worker[c] \notin interrupted
      => c = d

\* What was not spawned has forked nothing.
ForksAreChildren == \A c \in CallIds : leader[c] \in {"idle", "noSpawn"} => ~forked[c]

CliInv ==
  /\ CallsTyped /\ OneCallEach /\ ForksAreChildren
  /\ RunningIsInTable /\ NothingRunsOn

LEMMA CallFacts ==
  CallIds = CliCalls \cup NpmCalls
PROOF
  BY DEF CallIds

\* The signals of a kill.
LEMMA KillFacts ==
  ASSUME CallsTyped, NEW S
  PROVE  /\ KilledLeader(S) \in [CallIds -> Leaders]
         /\ KilledForked(S) \in [CallIds -> BOOLEAN]
         /\ \A c \in CallIds :
              /\ KilledLeader(S)[c] =
                   IF c \in S /\ leader[c] = "running" THEN "signalled" ELSE leader[c]
              /\ KilledForked(S)[c] <=> forked[c] /\ ~(c \in S /\ c \in CliCalls)
PROOF
  BY DEF CallsTyped, Leaders, KilledLeader, KilledForked

\* The end of a call that is pending: its own entry goes, or one of a worker that
\* is still interrupted.
LEMMA SettlesStep ==
  ASSUME CallsTyped, OneCallEach, RunningIsInTable,
         NEW c \in CallIds, Pending(c),
         NEW how \in {"success", "failure", "timeout"}, Settles(c, how),
         UNCHANGED worker, leader' \in [CallIds -> Leaders],
         \A d \in CallIds : /\ leader'[d] = "running" => leader[d] = "running"
                            /\ leader'[d] = "idle" <=> leader[d] = "idle"
  PROVE  /\ settled' \in [CallIds -> {"none", "success", "failure", "timeout"}]
         /\ settled'[c] = how /\ \A d \in CallIds \ {c} : settled'[d] = settled[d]
         /\ table' \in [CliWorkers -> CliCalls \cup {NoCall}] /\ interrupted' \subseteq CliWorkers
         /\ OneCallEach' /\ RunningIsInTable'
PROOF
  <1>1. /\ settled' \in [CallIds -> {"none", "success", "failure", "timeout"}]
        /\ settled'[c] = how /\ \A d \in CallIds \ {c} : settled'[d] = settled[d]
    BY DEF Settles, CallsTyped
  <1>2. \A d \in CallIds : Pending(d)' => Pending(d) /\ d # c
    BY <1>1 DEF Pending
  <1>3. CliCalls \subseteq CallIds
    BY CallFacts
  <1>4. CASE c \notin CliCalls
    <2>1. UNCHANGED <<table, interrupted>>
      BY <1>4 DEF Settles
    <2> QED
      BY <1>1, <1>2, <1>3, <2>1 DEF CallsTyped, OneCallEach, RunningIsInTable
  <1>5. CASE c \in CliCalls
    <2> DEFINE w == worker[c]
    <2>1. /\ table' = [table EXCEPT ![w] = NoCall] /\ w \in CliWorkers
          /\ interrupted' = {v \in interrupted :
               \E d \in CliCalls \ {c} : worker[d] = v /\ Pending(d)}
      BY <1>5 DEF Settles, CallsTyped
    <2>2. /\ table' \in [CliWorkers -> CliCalls \cup {NoCall}] /\ interrupted' \subseteq interrupted
          /\ \A v \in CliWorkers \ {w} : table'[v] = table[v]
      BY <2>1 DEF CallsTyped
    \* A worker with a call that is still pending is interrupted as before.
    <2>3. ASSUME NEW d \in CliCalls, Pending(d)', worker[d] \notin interrupted'
          PROVE  worker[d] \notin interrupted /\ worker[d] # w /\ Pending(d)
      <3>1. Pending(d) /\ d # c
        BY <1>2, <1>3, <2>3
      <3>2. worker[d] \notin interrupted
        BY <2>1, <2>3, <3>1
      <3> QED
        BY <1>5, <3>1, <3>2 DEF OneCallEach
    <2>4. OneCallEach'
      <3>1. \A d \in CliCalls : Pending(d)' => Pending(d)
        BY <1>2, <1>3
      <3> QED
        BY <2>3, <3>1 DEF OneCallEach
    <2>5. RunningIsInTable'
      <3>1. ASSUME NEW d \in CliCalls, Pending(d)', leader'[d] = "running",
                   worker[d] \notin interrupted'
            PROVE  table'[worker[d]] = d
        <4>1. leader[d] = "running"
          BY <1>3, <3>1
        <4>2. table[worker[d]] = d /\ worker[d] \in CliWorkers \ {w}
          BY <2>3, <3>1, <4>1 DEF RunningIsInTable, CallsTyped
        <4> QED
          BY <2>2, <4>2
      <3> QED
        BY <3>1 DEF RunningIsInTable
    <2> QED
      BY <1>1, <2>2, <2>4, <2>5 DEF CallsTyped
  <1> QED
    BY <1>4, <1>5

LEMMA CliStart == CliInit => CliInv
PROOF
  <1> SUFFICES ASSUME CliInit PROVE CliInv
    OBVIOUS
  <1>1. CallsTyped
    BY DEF CliInit, CallsTyped, Leaders
  <1>2. \A c \in CallIds : leader[c] = "idle" /\ ~forked[c] /\ settled[c] = "none"
    BY DEF CliInit
  <1> QED
    BY <1>1, <1>2, CallFacts DEF CliInv, OneCallEach, ForksAreChildren, RunningIsInTable,
       NothingRunsOn, Pending

\* The start of a call of the CLI.
LEMMA ExecuteStep ==
  ASSUME CliInv, NEW c \in CallIds, Execute(c)
  PROVE  CliInv'
PROOF
  <1> DEFINE w == worker[c]
  <1>1. /\ CallsTyped /\ OneCallEach /\ ForksAreChildren
        /\ RunningIsInTable /\ NothingRunsOn
    BY DEF CliInv
  <1>2. /\ c \in CliCalls /\ w \in CliWorkers /\ leader[c] = "idle" /\ settled[c] = "none"
        /\ table[w] = NoCall /\ (w \notin interrupted => \A d \in CliCalls : worker[d] = w => ~Pending(d))
        /\ UNCHANGED <<worker, forked, interrupted>>
    BY <1>1 DEF Execute, MayExecute, CallsTyped
  <1>3. CliCalls \subseteq CallIds
    BY CallFacts
  <1>4. CASE /\ leader' = leader /\ settled' = [settled EXCEPT ![c] = "failure"]
             /\ table' \in {table, [table EXCEPT ![w] = NoCall]}
    <2>1. table' = table
      BY <1>1, <1>2, <1>4 DEF CallsTyped
    <2>2. CallsTyped'
      BY <1>1, <1>2, <1>4, <2>1 DEF CallsTyped
    <2>3. \A d \in CallIds : Pending(d)' <=> Pending(d)
      BY <1>1, <1>2, <1>4 DEF Pending, CallsTyped
    <2>4. OneCallEach' /\ ForksAreChildren' /\ RunningIsInTable'
      BY <1>1, <1>2, <1>3, <1>4, <2>1, <2>3 DEF OneCallEach, ForksAreChildren, RunningIsInTable
    <2>5. NothingRunsOn'
      BY <1>1, <1>2, <1>3, <1>4 DEF NothingRunsOn, ForksAreChildren, CallsTyped
    <2> QED
      BY <2>2, <2>4, <2>5 DEF CliInv
  <1>5. CASE /\ leader' \in {[leader EXCEPT ![c] = "running"], [leader EXCEPT ![c] = "noSpawn"]}
             /\ table' = [table EXCEPT ![w] = c] /\ settled' = settled
    <2>1. /\ leader' \in [CallIds -> Leaders] /\ leader'[c] \in {"running", "noSpawn"}
          /\ \A d \in CallIds \ {c} : leader'[d] = leader[d]
      BY <1>1, <1>5 DEF CallsTyped, Leaders
    <2>2. /\ table' \in [CliWorkers -> CliCalls \cup {NoCall}] /\ table'[w] = c
          /\ \A v \in CliWorkers \ {w} : table'[v] = table[v]
      BY <1>1, <1>2, <1>5 DEF CallsTyped
    <2>3. CallsTyped'
      BY <1>1, <1>2, <1>5, <2>1, <2>2 DEF CallsTyped
    <2>4. \A d \in CallIds \ {c} : Pending(d)' <=> Pending(d)
      BY <1>5, <2>1 DEF Pending
    <2>5. OneCallEach'
      BY <1>1, <1>2, <1>3, <2>4 DEF OneCallEach
    <2>6. RunningIsInTable'
      <3>1. ASSUME NEW d \in CliCalls, Pending(d)', leader'[d] = "running",
                   worker[d] \notin interrupted
            PROVE  table'[worker[d]] = d
        <4>1. CASE d = c
          BY <2>2, <4>1
        <4>2. CASE d # c
          <5>1. Pending(d) /\ leader[d] = "running" /\ worker[d] # w /\ worker[d] \in CliWorkers
            BY <1>1, <1>2, <1>3, <2>1, <2>4, <3>1, <4>2 DEF CallsTyped
          <5> QED
            BY <1>1, <2>2, <3>1, <5>1 DEF RunningIsInTable
        <4> QED
          BY <4>1, <4>2
      <3> QED
        BY <1>2, <3>1 DEF RunningIsInTable
    <2>7. ForksAreChildren' /\ NothingRunsOn'
      BY <1>1, <1>2, <1>3, <1>5, <2>1 DEF ForksAreChildren, NothingRunsOn
    <2> QED
      BY <2>3, <2>5, <2>6, <2>7 DEF CliInv
  <1> QED
    BY <1>2, <1>4, <1>5 DEF Execute

\* The start of npm's script: no call of the CLI is concerned.
LEMMA NpmStep ==
  ASSUME CliInv, NEW c \in CallIds, RunNpmScript(c)
  PROVE  CliInv'
PROOF
  <1>1. /\ CallsTyped /\ OneCallEach /\ ForksAreChildren
        /\ RunningIsInTable /\ NothingRunsOn
    BY DEF CliInv
  <1>2. /\ c \notin CliCalls /\ leader[c] = "idle" /\ CliCalls \subseteq CallIds
        /\ UNCHANGED <<worker, forked, table, interrupted>>
    BY CallFacts, CliAssumption DEF RunNpmScript
  <1>3. /\ leader' \in [CallIds -> Leaders]
        /\ settled' \in [CallIds -> {"none", "success", "failure", "timeout"}]
        /\ \A d \in CallIds \ {c} : leader'[d] = leader[d] /\ settled'[d] = settled[d]
    BY <1>1 DEF RunNpmScript, CallsTyped, Leaders
  <1>4. \A d \in CliCalls : leader'[d] = leader[d] /\ settled'[d] = settled[d]
    BY <1>2, <1>3
  <1>5. CallsTyped'
    BY <1>1, <1>2, <1>3 DEF CallsTyped
  <1>6. \A d \in CliCalls : Pending(d)' <=> Pending(d)
    BY <1>4 DEF Pending
  <1> QED
    BY <1>1, <1>2, <1>3, <1>4, <1>5, <1>6
       DEF CliInv, OneCallEach, ForksAreChildren, RunningIsInTable, NothingRunsOn

\* Steps of the processes: no call starts or settles, no program begins.
LEMMA ProcessStep ==
  ASSUME CliInv, leader' \in [CallIds -> Leaders], forked' \in [CallIds -> BOOLEAN],
         UNCHANGED <<worker, settled>>,
         table' \in [CliWorkers -> CliCalls \cup {NoCall}],
         interrupted \subseteq interrupted', interrupted' \subseteq CliWorkers,
         \A c \in CallIds :
           /\ leader'[c] = "running" => leader[c] = "running"
           /\ leader'[c] = "idle" <=> leader[c] = "idle"
           /\ leader'[c] = "noSpawn" => leader[c] = "noSpawn"
           /\ forked'[c] => forked[c] \/ (leader[c] = "running" /\ leader'[c] = "running"),
         \A c \in CliCalls : table[worker[c]] = c =>
           \/ leader'[c] # "running" \/ worker[c] \in interrupted' \/ table'[worker[c]] = c
  PROVE  CliInv'
PROOF
  <1>1. /\ CallsTyped /\ OneCallEach /\ ForksAreChildren
        /\ RunningIsInTable /\ NothingRunsOn
        /\ CliCalls \subseteq CallIds
    BY CallFacts DEF CliInv
  <1>2. CallsTyped'
    BY <1>1 DEF CallsTyped
  <1>3. \A d \in CallIds : Pending(d)' <=> Pending(d)
    BY DEF Pending
  <1>4. OneCallEach'
    BY <1>1, <1>3 DEF OneCallEach
  <1>5. RunningIsInTable'
    BY <1>1, <1>3 DEF RunningIsInTable
  <1>6. ForksAreChildren' /\ NothingRunsOn'
    BY <1>1 DEF ForksAreChildren, NothingRunsOn
  <1> QED
    BY <1>2, <1>4, <1>5, <1>6 DEF CliInv

\* The steps in which a call settles.
LEMMA EventStep ==
  ASSUME CliInv, NEW c \in CallIds,
         CliErrorEvent(c) \/ CliCloseEvent(c) \/ CliTimeout(c)
  PROVE  CliInv'
PROOF
  <1>1. /\ CallsTyped /\ OneCallEach /\ ForksAreChildren
        /\ RunningIsInTable /\ NothingRunsOn
        /\ CliCalls \subseteq CallIds /\ UNCHANGED worker
    BY CallFacts DEF CliInv, CliErrorEvent, CliCloseEvent, CliTimeout
  <1>2. /\ leader' \in [CallIds -> Leaders] /\ forked' \in [CallIds -> BOOLEAN]
        /\ leader[c] # "idle"
        /\ \A d \in CallIds :
             /\ leader'[d] = "running" => leader[d] = "running"
             /\ leader'[d] = "idle" <=> leader[d] = "idle"
             /\ leader'[d] = "noSpawn" => leader[d] = "noSpawn"
             /\ forked'[d] => forked[d]
    <2>1. CASE CliErrorEvent(c)
      BY <1>1, <2>1 DEF CliErrorEvent, CallsTyped, Leaders
    <2>2. CASE CliCloseEvent(c)
      BY <1>1, <2>2 DEF CliCloseEvent, CallsTyped, Leaders
    <2>3. CASE CliTimeout(c)
      BY <1>1, <2>3, KillFacts DEF CliTimeout, Pending
    <2> QED
      BY <2>1, <2>2, <2>3
  <1>3. CASE UNCHANGED <<settled, table, interrupted>>
    BY <1>1, <1>2, <1>3, ProcessStep DEF CallsTyped
  <1>4. CASE \E how \in {"success", "failure", "timeout"} : Pending(c) /\ Settles(c, how)
    <2>1. PICK how \in {"success", "failure", "timeout"} : Pending(c) /\ Settles(c, how)
      BY <1>4
    <2>2. /\ settled' \in [CallIds -> {"none", "success", "failure", "timeout"}]
          /\ settled'[c] = how /\ \A d \in CallIds \ {c} : settled'[d] = settled[d]
          /\ table' \in [CliWorkers -> CliCalls \cup {NoCall}] /\ interrupted' \subseteq CliWorkers
          /\ OneCallEach' /\ RunningIsInTable'
      BY <1>1, <1>2, <2>1, SettlesStep
    <2>3. CallsTyped' /\ ForksAreChildren'
      BY <1>1, <1>2, <2>2 DEF CallsTyped, ForksAreChildren
    <2>4. c \in CliCalls => leader'[c] # "running" /\ ~forked'[c]
      <3>1. CASE CliErrorEvent(c)
        BY <1>1, <3>1 DEF CliErrorEvent, CallsTyped, ForksAreChildren
      <3>2. CASE CliCloseEvent(c)
        BY <1>1, <3>2 DEF CliCloseEvent, CallsTyped
      <3>3. CASE CliTimeout(c)
        BY <1>1, <3>3, KillFacts DEF CliTimeout
      <3> QED
        BY <3>1, <3>2, <3>3
    <2>5. NothingRunsOn'
      BY <1>1, <1>2, <2>2, <2>4 DEF NothingRunsOn
    <2> QED
      BY <2>2, <2>3, <2>5 DEF CliInv
  <1> QED
    BY <1>2, <1>3, <1>4 DEF CliErrorEvent, CliCloseEvent, CliTimeout, Pending

\* An interrupt, and the shutdown of the plugin.
LEMMA InterruptStep ==
  ASSUME CliInv, Shutdown \/ \E w \in CliWorkers : Cancel(w)
  PROVE  CliInv'
PROOF
  <1>1. /\ CallsTyped /\ CliCalls \subseteq CallIds /\ NoCall \notin CliCalls
    BY CallFacts, CliAssumption DEF CliInv
  <1>2. ASSUME NEW w \in CliWorkers, Cancel(w) PROVE CliInv'
    <2> DEFINE c == table[w]
    <2>1. /\ c \in CliCalls /\ leader' = KilledLeader({c}) /\ forked' = KilledForked({c})
          /\ table' = [table EXCEPT ![w] = NoCall] /\ interrupted' = interrupted \cup {w}
          /\ UNCHANGED <<worker, settled>>
      BY <1>1, <1>2 DEF Cancel, CallsTyped
    <2> HIDE DEF c
    <2>2. /\ table' \in [CliWorkers -> CliCalls \cup {NoCall}]
          /\ \A v \in CliWorkers \ {w} : table'[v] = table[v]
          /\ interrupted \subseteq interrupted' /\ interrupted' \subseteq CliWorkers /\ w \in interrupted'
      BY <1>1, <1>2, <2>1 DEF CallsTyped
    <2>3. \A d \in CliCalls : worker[d] \in CliWorkers
      BY <1>1 DEF CallsTyped
    <2> QED
      BY <1>1, <2>1, <2>2, <2>3, KillFacts, ProcessStep
  <1>3. ASSUME Shutdown PROVE CliInv'
    <2> DEFINE known == {table[w] : w \in CliWorkers} \ {NoCall}
    <2>1. /\ leader' = KilledLeader(known) /\ forked' = KilledForked(known)
          /\ table' = [w \in CliWorkers |-> NoCall]
          /\ interrupted' = interrupted \cup {worker[c] : c \in known}
          /\ UNCHANGED <<worker, settled>>
      BY <1>3 DEF Shutdown
    <2>2. known \subseteq CliCalls
      BY <1>1 DEF CallsTyped
    <2>3. /\ table' \in [CliWorkers -> CliCalls \cup {NoCall}]
          /\ interrupted \subseteq interrupted' /\ interrupted' \subseteq CliWorkers
      BY <1>1, <2>1, <2>2 DEF CallsTyped
    <2>4. \A c \in CliCalls : table[worker[c]] = c => worker[c] \in interrupted'
      BY <1>1, <2>1 DEF CallsTyped
    <2> HIDE DEF known
    <2> QED
      BY <1>1, <2>1, <2>3, <2>4, KillFacts, ProcessStep
  <1> QED
    BY <1>2, <1>3

LEMMA CliStep == CliInv /\ [CliNext]_cliVars => CliInv'
PROOF
  <1> SUFFICES ASSUME CliInv, [CliNext]_cliVars PROVE CliInv'
    OBVIOUS
  <1>1. CallsTyped
    BY DEF CliInv
  <1>2. CASE UNCHANGED cliVars \/ Initialize
    <2>1. UNCHANGED <<worker, leader, forked, settled, table, interrupted>>
      BY <1>2 DEF cliVars, Initialize
    <2> QED
      BY <1>1, <2>1, ProcessStep DEF CallsTyped
  <1>3. ASSUME NEW c \in CallIds, Fork(c) \/ LeaderExits(c) \/ ForkedEnds(c)
        PROVE  CliInv'
    <2>1. /\ UNCHANGED <<worker, settled, table, interrupted>>
          /\ leader' \in [CallIds -> Leaders] /\ forked' \in [CallIds -> BOOLEAN]
      BY <1>1, <1>3 DEF Fork, LeaderExits, ForkedEnds, CallsTyped, Leaders
    <2>2. \A d \in CallIds :
            /\ leader'[d] = "running" => leader[d] = "running"
            /\ leader'[d] = "idle" <=> leader[d] = "idle"
            /\ leader'[d] = "noSpawn" => leader[d] = "noSpawn"
            /\ forked'[d] => forked[d] \/ (leader[d] = "running" /\ leader'[d] = "running")
      BY <1>1, <1>3 DEF Fork, LeaderExits, ForkedEnds, CallsTyped
    <2> QED
      BY <1>1, <2>1, <2>2, ProcessStep DEF CallsTyped
  <1> QED
    BY <1>2, <1>3, ExecuteStep, NpmStep, EventStep, InterruptStep DEF CliNext

LEMMA CliInvariant == CliSpec => []CliInv
PROOF
  <1>1. CliInit => CliInv
    BY CliStart
  <1>2. CliInv /\ [CliNext]_cliVars => CliInv'
    BY CliStep
  <1> QED
    BY <1>1, <1>2, PTL DEF CliSpec

\* For any calls of any workers, whatever is cancelled, timed out or forked: the
\* plugin's table names every program that runs for a worker that was not
\* interrupted, and nothing of a provider runs once its call is answered
\* (claude_code_runtime_plugin.ts, cli_runtime_plugin.ts, cli_process_executor.ts).
THEOREM ProgramsAreReachable == CliSpec => []RunningIsReachable
PROOF
  <1>1. CliInv => RunningIsReachable
    BY DEF CliInv, RunningIsReachable
  <1> QED
    BY <1>1, CliInvariant, PTL

\* What ChildRun sees of a call.
SeenProcess(l) ==
  CASE l = "idle" -> "unborn"
    [] l \in {"running", "signalled"} -> l
    [] l \in {"exited0", "closed0"} -> "succeeded"
    [] l \in {"noSpawn", "exitedN", "closedN"} -> "failed"
SeenOutcome(s) == IF s = "timeout" THEN "givenUp" ELSE s

LEMMA SeenFacts ==
  /\ SeenProcess("idle") = "unborn" /\ SeenProcess("noSpawn") = "failed"
  /\ SeenProcess("running") = "running" /\ SeenProcess("signalled") = "signalled"
  /\ SeenProcess("exited0") = "succeeded" /\ SeenProcess("closed0") = "succeeded"
  /\ SeenProcess("exitedN") = "failed" /\ SeenProcess("closedN") = "failed"
  /\ SeenOutcome("none") = "none" /\ SeenOutcome("timeout") = "givenUp"
  /\ SeenOutcome("success") = "success" /\ SeenOutcome("failure") = "failure"
PROOF
  BY DEF SeenProcess, SeenOutcome

\* A step of a call that ChildRun allows: the program goes on, the call settles,
\* or a timeout signals the program and settles the call.
CallProgress(l, s, l2, s2) ==
  LET p == SeenProcess(l)
      p2 == SeenProcess(l2)
      o == SeenOutcome(s)
      o2 == SeenOutcome(s2) IN
  \/ p2 = p /\ o2 = o
  \/ /\ o2 = o
     /\ \/ p = "unborn" /\ p2 \in {"running", "failed"}
        \/ p = "running" /\ p2 \in {"signalled", "succeeded", "failed"}
        \/ p = "signalled" /\ p2 = "failed"
  \/ /\ o = "none"
     /\ p2 = p \/ (p = "running" /\ p2 = "signalled")
     /\ \/ o2 = "success" /\ p2 = "succeeded"
        \/ o2 = "failure" /\ p2 \in {"unborn", "failed"}
        \/ o2 = "givenUp"

LEMMA ProgressIsARun ==
  ASSUME NEW c, CallProgress(leader[c], settled[c], leader'[c], settled'[c])
  PROVE  [CallRun(c)!Next]_(CallRun(c)!vars)
PROOF
  BY DEF CallProgress, SeenProcess, SeenOutcome, CallRun!Next, CallRun!vars, CallRun!Spawn,
     CallRun!SendSignal, CallRun!End, CallRun!Settle, CallRun!Over

\* Steps of the processes, as in ProcessStep.
LEMMA EndIsProgress ==
  ASSUME NEW c, settled'[c] = settled[c],
         \/ leader'[c] = leader[c]
         \/ leader[c] = "running" /\ leader'[c] \in {"signalled", "exited0", "exitedN"}
         \/ leader[c] = "signalled" /\ leader'[c] = "exitedN"
  PROVE  CallProgress(leader[c], settled[c], leader'[c], settled'[c])
PROOF
  BY SeenFacts DEF CallProgress

LEMMA CallsProgress ==
  ASSUME CliInv, [CliNext]_cliVars, NEW c \in CallIds
  PROVE  CallProgress(leader[c], settled[c], leader'[c], settled'[c])
PROOF
  <1>1. CallsTyped
    BY DEF CliInv
  <1>2. CASE UNCHANGED cliVars \/ Initialize
    BY <1>2, EndIsProgress DEF cliVars, Initialize
  <1>3. ASSUME Shutdown \/ \E w \in CliWorkers : Cancel(w)
        PROVE  CallProgress(leader[c], settled[c], leader'[c], settled'[c])
    <2>1. settled' = settled /\ \E S : leader' = KilledLeader(S)
      BY <1>3 DEF Shutdown, Cancel
    <2> QED
      BY <1>1, <2>1, KillFacts, EndIsProgress
  <1>4. ASSUME NEW d \in CallIds, Execute(d) \/ RunNpmScript(d)
        PROVE  CallProgress(leader[c], settled[c], leader'[c], settled'[c])
    <2>1. /\ leader[d] = "idle" /\ settled[d] = "none"
          /\ \/ leader' = leader /\ settled' = [settled EXCEPT ![d] = "failure"]
             \/ /\ leader' \in {[leader EXCEPT ![d] = "running"], [leader EXCEPT ![d] = "noSpawn"]}
                /\ settled' = settled
      BY <1>4 DEF Execute, RunNpmScript
    <2>2. CASE c # d
      <3>1. leader'[c] = leader[c] /\ settled'[c] = settled[c]
        BY <1>1, <2>1, <2>2 DEF CallsTyped
      <3> QED
        BY <3>1, EndIsProgress
    <2>3. CASE c = d
      <3>1. \/ leader'[c] = "idle" /\ settled'[c] = "failure"
            \/ leader'[c] \in {"running", "noSpawn"} /\ settled'[c] = "none"
        BY <1>1, <2>1, <2>3 DEF CallsTyped
      <3> QED
        BY <2>1, <2>3, <3>1, SeenFacts DEF CallProgress
    <2> QED
      BY <2>2, <2>3
  <1>5. ASSUME NEW d \in CallIds, Fork(d) \/ LeaderExits(d) \/ ForkedEnds(d)
        PROVE  CallProgress(leader[c], settled[c], leader'[c], settled'[c])
    <2>1. settled' = settled
      BY <1>5 DEF Fork, LeaderExits, ForkedEnds
    <2>2. \/ leader'[c] = leader[c]
          \/ leader[c] = "running" /\ leader'[c] \in {"exited0", "exitedN"}
          \/ leader[c] = "signalled" /\ leader'[c] = "exitedN"
      BY <1>1, <1>5 DEF Fork, LeaderExits, ForkedEnds, CallsTyped
    <2> QED
      BY <2>1, <2>2, EndIsProgress
  <1>6. ASSUME NEW d \in CallIds, CliErrorEvent(d) \/ CliCloseEvent(d) \/ CliTimeout(d)
        PROVE  CallProgress(leader[c], settled[c], leader'[c], settled'[c])
    <2>1. \A how : Settles(d, how) =>
                  settled'[d] = how /\ (c # d => settled'[c] = settled[c])
      BY <1>1 DEF Settles, CallsTyped
    <2>2. CASE c # d
      <3>1. leader'[c] = leader[c]
        BY <1>1, <1>6, <2>2, KillFacts DEF CliErrorEvent, CliCloseEvent, CliTimeout, CallsTyped
      <3>2. settled'[c] = settled[c]
        BY <1>6, <2>1, <2>2 DEF CliErrorEvent, CliCloseEvent, CliTimeout
      <3> QED
        BY <3>1, <3>2, EndIsProgress
    <2>3. CASE c = d /\ CliErrorEvent(d)
      <3>1. /\ leader[c] = "noSpawn" /\ leader'[c] = "closedN"
            /\ settled'[c] = IF settled[c] = "none" THEN "failure" ELSE settled[c]
        BY <1>1, <2>1, <2>3 DEF CliErrorEvent, CallsTyped
      <3> QED
        BY <3>1, SeenFacts DEF CallProgress
    <2>4. CASE c = d /\ CliCloseEvent(d)
      <3>1. \/ /\ leader[c] = "exited0" /\ leader'[c] = "closed0"
               /\ settled'[c] = IF settled[c] = "none" THEN "success" ELSE settled[c]
            \/ /\ leader[c] = "exitedN" /\ leader'[c] = "closedN"
               /\ settled'[c] = IF settled[c] = "none" THEN "failure" ELSE settled[c]
        BY <1>1, <2>1, <2>4 DEF CliCloseEvent, CallsTyped
      <3> QED
        BY <3>1, SeenFacts DEF CallProgress
    <2>5. CASE c = d /\ CliTimeout(d)
      <3>1. /\ settled[c] = "none" /\ settled'[c] = "timeout"
            /\ leader'[c] = IF leader[c] = "running" THEN "signalled" ELSE leader[c]
        BY <1>1, <2>1, <2>5, KillFacts DEF CliTimeout, Pending
      <3> QED
        BY <3>1, SeenFacts DEF CallProgress
    <2> QED
      BY <1>6, <2>2, <2>3, <2>4, <2>5
  <1> QED
    BY <1>2, <1>3, <1>4, <1>5, <1>6 DEF CliNext

\* For any calls and workers, each call implements ChildRun: it gets one outcome
\* and keeps it, a success only of a program that ended with code 0, a failure
\* only of one that is over (cli_process_executor.ts, npm_script_runner.ts).
THEOREM TheCliIsARun == CliSpec => CliCallsAreRuns
PROOF
  <1>1. CliInit => \A c \in CallIds : CallRun(c)!Init
    BY DEF CliInit, CallRun!Init
  <1>2. CliInv /\ [CliNext]_cliVars =>
          [\A c \in CallIds : [CallRun(c)!Next]_(CallRun(c)!vars)]_cliVars
    BY CallsProgress, ProgressIsARun
  <1> QED
    BY <1>1, <1>2, CliInvariant, PTL DEF CliSpec, CliCallsAreRuns

-----------------------------------------------------------------------------
(* The same of an execution of the first version: ProcessHandle.           *)

\* Nothing is spawned before start() runs.
HandleInv == HandleTypeOK /\ (tick = "scheduled" => child = "unborn")

\* A signal, if there is a program to receive it.
LEMMA HandleKill ==
  ASSUME HandleTypeOK, Kill
  PROVE  /\ killed' \in BOOLEAN
         /\ child' = child \/ (child = "running" /\ child' = "signalled")
PROOF
  BY DEF HandleTypeOK, Kill

LEMMA HandleCompletes ==
  ASSUME HandleTypeOK, NEW s \in Final, NEW zero \in BOOLEAN, CompleteHandle(s, zero)
  PROVE  /\ timer' \in BOOLEAN /\ state' \in ExecutionState
         /\ answer' \in Final \cup {"none"} /\ code0' \in BOOLEAN
PROOF
  BY DEF HandleTypeOK, CompleteHandle, Resolve, Final, ExecutionState

LEMMA HandleTypes ==
  ASSUME HandleInv, [HandleNext]_handleVars
  PROVE  HandleInv'
PROOF
  <1>1. HandleTypeOK /\ (tick = "scheduled" => child = "unborn")
    BY DEF HandleInv
  <1>2. CASE UNCHANGED handleVars
    BY <1>1, <1>2 DEF HandleInv, handleVars, HandleTypeOK
  <1>3. CASE Start
    <2>1. CASE state = "CANCELLED"
      <3>1. /\ tick' = "done" /\ CompleteHandle("CANCELLED", FALSE)
            /\ UNCHANGED <<child, opts, killed, pending, aborted, active, prompted, returned>>
        BY <1>3, <2>1 DEF Start, provider
      <3>2. /\ timer' \in BOOLEAN /\ state' \in ExecutionState
            /\ answer' \in Final \cup {"none"} /\ code0' \in BOOLEAN
        <4>1. "CANCELLED" \in Final /\ FALSE \in BOOLEAN
          BY DEF Final
        <4> QED
          BY <1>1, <3>1, <4>1, HandleCompletes
      <3>3. tick' \in {"scheduled", "done", "threw"} /\ tick' # "scheduled"
        BY <3>1
      <3>4. HandleTypeOK'
        BY <1>1, <3>1, <3>2, <3>3 DEF HandleTypeOK
      <3> QED
        BY <3>3, <3>4 DEF HandleInv
    <2>2. CASE state # "CANCELLED"
      <3>1. /\ UNCHANGED <<answer, code0, opts, killed, pending, aborted, active, prompted, returned>>
            /\ tick' \in {"done", "threw"} /\ state' \in {"STARTING", "RUNNING"}
            /\ timer' \in {timer, opts.timeout} /\ child' \in {child, "running", "noSpawn"}
        BY <1>3, <2>2 DEF Start, provider
      <3>2. opts.timeout \in BOOLEAN
        BY <1>1 DEF HandleTypeOK, Options
      <3> QED
        BY <1>1, <3>1, <3>2 DEF HandleInv, HandleTypeOK, ExecutionState
    <2> QED
      BY <2>1, <2>2
  <1>4. CASE ErrorEvent \/ CloseEvent
    <2>1. /\ UNCHANGED <<opts, tick, killed, pending, aborted, active, prompted, returned>>
          /\ child # "unborn" /\ child' \in {"exitedN", "closed0", "closedN"}
      BY <1>4 DEF ErrorEvent, CloseEvent, provider
    <2>2. \/ timer' = FALSE /\ UNCHANGED <<state, answer, code0>>
          \/ CompleteHandle("FAILED", FALSE)
          \/ CompleteHandle(IF child = "exited0" THEN "FINISHED" ELSE "FAILED", child = "exited0")
      BY <1>4 DEF ErrorEvent, CloseEvent
    <2>3. /\ timer' \in BOOLEAN /\ state' \in ExecutionState
          /\ answer' \in Final \cup {"none"} /\ code0' \in BOOLEAN
      <3>1. /\ (IF child = "exited0" THEN "FINISHED" ELSE "FAILED") \in Final
            /\ "FAILED" \in Final /\ (child = "exited0") \in BOOLEAN
        BY DEF Final
      <3>2. CASE timer' = FALSE /\ UNCHANGED <<state, answer, code0>>
        BY <1>1, <3>2 DEF HandleTypeOK
      <3> QED
        BY <1>1, <2>2, <3>1, <3>2, HandleCompletes
    <2> QED
      BY <1>1, <2>1, <2>3 DEF HandleInv, HandleTypeOK
  <1>5. CASE ChildExits
    <2>1. child # "unborn" /\ child' \in {"exited0", "exitedN"}
      BY <1>5 DEF ChildExits
    <2> QED
      BY <1>1, <1>5, <2>1
         DEF ChildExits, handle, provider, HandleInv, HandleTypeOK
  <1>6. CASE Abort
    <2>1. /\ killed' \in BOOLEAN
          /\ child' = child \/ (child = "running" /\ child' = "signalled")
          /\ state' \in {state, "STOPPING"} /\ pending' \in {pending, pending \cup {"CANCELLED"}}
      BY <1>1, <1>6, HandleKill DEF Abort, Stop, HandleTypeOK
    <2>2. /\ UNCHANGED <<opts, tick, timer, answer, code0, active, prompted, returned>>
          /\ aborted' \in {"early", "yes"}
      BY <1>6 DEF Abort, provider
    <2>3. pending' \in SUBSET {"CANCELLED", "TIMEOUT"} /\ state' \in ExecutionState
      BY <1>1, <2>1 DEF HandleTypeOK, ExecutionState
    <2>4. tick' = "scheduled" => child' = "unborn"
      BY <1>1, <2>1, <2>2
    <2>5. child' \in {"unborn", "noSpawn", "running", "signalled", "exited0", "exitedN",
                     "closed0", "closedN"}
      BY <1>1, <2>1 DEF HandleTypeOK
    <2>6. HandleTypeOK'
      BY <1>1, <2>1, <2>2, <2>3, <2>5 DEF HandleTypeOK
    <2> QED
      BY <2>4, <2>6 DEF HandleInv
  <1>7. CASE Timeout
    <2>1. /\ killed' \in BOOLEAN
          /\ child' = child \/ (child = "running" /\ child' = "signalled")
          /\ state' \in {state, "STOPPING"} /\ pending' \in {pending, pending \cup {"TIMEOUT"}}
      BY <1>1, <1>7, HandleKill DEF Timeout, Stop, HandleTypeOK
    <2>2. /\ UNCHANGED <<opts, tick, aborted, answer, code0, active, prompted, returned>>
          /\ timer' \in BOOLEAN
      BY <1>7 DEF Timeout, provider
    <2>3. pending' \in SUBSET {"CANCELLED", "TIMEOUT"} /\ state' \in ExecutionState
      BY <1>1, <2>1 DEF HandleTypeOK, ExecutionState
    <2>4. tick' = "scheduled" => child' = "unborn"
      BY <1>1, <2>1, <2>2
    <2>5. child' \in {"unborn", "noSpawn", "running", "signalled", "exited0", "exitedN",
                     "closed0", "closedN"}
      BY <1>1, <2>1 DEF HandleTypeOK
    <2>6. HandleTypeOK'
      BY <1>1, <2>1, <2>2, <2>3, <2>5 DEF HandleTypeOK
    <2> QED
      BY <2>4, <2>6 DEF HandleInv
  <1>8. ASSUME NEW f \in Final, Continue(f) PROVE HandleInv'
    <2>1. /\ f \in pending /\ pending' = pending \ {f} /\ CompleteHandle(f, FALSE)
          /\ UNCHANGED <<opts, tick, child, killed, aborted, active, prompted, returned>>
      BY <1>8 DEF Continue, provider
    <2>2. /\ timer' \in BOOLEAN /\ state' \in ExecutionState
          /\ answer' \in Final \cup {"none"} /\ code0' \in BOOLEAN
      BY <1>1, <1>8, <2>1, HandleCompletes
    <2>3. pending' \in SUBSET {"CANCELLED", "TIMEOUT"}
      BY <1>1, <2>1 DEF HandleTypeOK
    <2>4. HandleTypeOK'
      BY <1>1, <2>1, <2>2, <2>3 DEF HandleTypeOK
    <2>5. tick' = "scheduled" => child' = "unborn"
      BY <1>1, <2>1
    <2> QED
      BY <2>4, <2>5 DEF HandleInv
  <1>9. CASE WritePrompt \/ ProviderReturns
    <2>1. /\ UNCHANGED <<opts, tick, state, child, killed, timer, pending, aborted, answer, code0>>
          /\ prompted' \in {prompted, "written", "refused"}
          /\ active' \in {active, FALSE} /\ returned' \in {returned, "success", "failure"}
      BY <1>9 DEF WritePrompt, ProviderReturns, handle
    <2>2. /\ prompted' \in {"no", "written", "refused"} /\ active' \in BOOLEAN
          /\ returned' \in {"no", "success", "failure"}
      BY <1>1, <2>1 DEF HandleTypeOK
    <2>3. HandleTypeOK'
      BY <1>1, <2>1, <2>2 DEF HandleTypeOK
    <2> QED
      BY <1>1, <2>1, <2>3 DEF HandleInv
  <1>10. CASE ProviderCancels
    <2>1. /\ killed' \in BOOLEAN
          /\ child' = child \/ (child = "running" /\ child' = "signalled")
          /\ state' \in {state, "STOPPING"}
      BY <1>1, <1>10, HandleKill DEF ProviderCancels
    <2>2. /\ UNCHANGED <<opts, tick, timer, pending, aborted, answer, code0, prompted, returned>>
          /\ active' \in BOOLEAN
      BY <1>10 DEF ProviderCancels
    <2>3. /\ child' \in {"unborn", "noSpawn", "running", "signalled", "exited0", "exitedN",
                        "closed0", "closedN"}
          /\ state' \in ExecutionState
      BY <1>1, <2>1 DEF HandleTypeOK, ExecutionState
    <2>4. HandleTypeOK'
      BY <1>1, <2>1, <2>2, <2>3 DEF HandleTypeOK
    <2> QED
      BY <1>1, <2>1, <2>2, <2>4 DEF HandleInv
  <1> QED
    BY <1>2, <1>3, <1>4, <1>5, <1>6, <1>7, <1>8, <1>9, <1>10 DEF HandleNext

\* What ChildRun sees of a handle.
SeenChild(c) ==
  CASE c \in {"unborn", "running", "signalled"} -> c
    [] c \in {"exited0", "closed0"} -> "succeeded"
    [] c \in {"noSpawn", "exitedN", "closedN"} -> "failed"
SeenResult(r) ==
  CASE r = "none" -> "none"
    [] r = "FINISHED" -> "success"
    [] r = "FAILED" -> "failure"
    [] r \in {"CANCELLED", "TIMEOUT"} -> "givenUp"
HandleProgress(c, r, c2, r2) ==
  LET p == SeenChild(c)
      p2 == SeenChild(c2)
      o == SeenResult(r)
      o2 == SeenResult(r2) IN
  \/ p2 = p /\ o2 = o
  \/ /\ o2 = o
     /\ \/ p = "unborn" /\ p2 \in {"running", "failed"}
        \/ p = "running" /\ p2 \in {"signalled", "succeeded", "failed"}
        \/ p = "signalled" /\ p2 = "failed"
  \/ /\ o = "none" /\ p2 = p
     /\ \/ o2 = "success" /\ p2 = "succeeded"
        \/ o2 = "failure" /\ p2 = "failed"
        \/ o2 = "givenUp"

LEMMA SeenOfHandle ==
  /\ SeenChild("unborn") = "unborn" /\ SeenChild("noSpawn") = "failed"
  /\ SeenChild("running") = "running" /\ SeenChild("signalled") = "signalled"
  /\ SeenChild("exited0") = "succeeded" /\ SeenChild("closed0") = "succeeded"
  /\ SeenChild("exitedN") = "failed" /\ SeenChild("closedN") = "failed"
  /\ SeenResult("none") = "none" /\ SeenResult("FINISHED") = "success"
  /\ SeenResult("FAILED") = "failure"
  /\ SeenResult("CANCELLED") = "givenUp" /\ SeenResult("TIMEOUT") = "givenUp"
PROOF
  BY DEF SeenChild, SeenResult

\* The result of a program that ended, or of one that was given up, is the first.
LEMMA FirstResultCounts ==
  ASSUME NEW s, NEW zero, Resolve(s, zero), SeenChild(child') = SeenChild(child),
         \/ s = "FINISHED" /\ SeenChild(child) = "succeeded"
         \/ s = "FAILED" /\ SeenChild(child) = "failed"
         \/ s \in {"CANCELLED", "TIMEOUT"}
  PROVE  HandleProgress(child, answer, child', answer')
PROOF
  <1>1. \/ answer' = answer
        \/ answer = "none" /\ answer' = s
    BY DEF Resolve
  <1> QED
    BY <1>1, SeenOfHandle DEF HandleProgress

LEMMA HandleProgresses ==
  ASSUME HandleInv, [HandleNext]_handleVars
  PROVE  HandleProgress(child, answer, child', answer')
PROOF
  <1>1. HandleTypeOK /\ (tick = "scheduled" => child = "unborn")
    BY DEF HandleInv
  <1>2. ASSUME answer' = answer,
               \/ child' = child
               \/ child = "unborn" /\ child' \in {"running", "noSpawn"}
               \/ child = "running" /\ child' \in {"signalled", "exited0", "exitedN"}
               \/ child = "signalled" /\ child' = "exitedN"
               \/ child = "exited0" /\ child' = "closed0"
               \/ child = "exitedN" /\ child' = "closedN"
        PROVE  HandleProgress(child, answer, child', answer')
    BY <1>2, SeenOfHandle DEF HandleProgress
  <1>3. CASE Start
    <2>1. CASE state = "CANCELLED"
      <3>1. Resolve("CANCELLED", FALSE) /\ child' = child
        BY <1>3, <2>1 DEF Start, CompleteHandle
      <3> QED
        BY <3>1, FirstResultCounts
    <2>2. CASE state # "CANCELLED"
      <3>1. answer' = answer /\ (child' = child \/ (child = "unborn" /\ child' \in {"running", "noSpawn"}))
        BY <1>1, <1>3, <2>2 DEF Start
      <3> QED
        BY <1>2, <3>1
    <2> QED
      BY <2>1, <2>2
  <1>4. CASE ErrorEvent
    <2>1. Resolve("FAILED", FALSE) /\ child = "noSpawn" /\ child' = "exitedN"
      BY <1>4 DEF ErrorEvent, CompleteHandle
    <2> QED
      BY <2>1, FirstResultCounts, SeenOfHandle
  <1>5. CASE CloseEvent
    <2>1. \/ child = "exited0" /\ child' = "closed0"
          \/ child = "exitedN" /\ child' = "closedN"
      BY <1>5 DEF CloseEvent
    <2>2. \/ answer' = answer
          \/ child = "exited0" /\ Resolve("FINISHED", child = "exited0")
          \/ child = "exitedN" /\ Resolve("FAILED", child = "exited0")
      BY <1>5, <2>1 DEF CloseEvent, CompleteHandle
    <2> QED
      BY <1>2, <2>1, <2>2, FirstResultCounts, SeenOfHandle
  <1>6. CASE ChildExits \/ WritePrompt \/ ProviderReturns
             \/ UNCHANGED handleVars
    BY <1>2, <1>6 DEF ChildExits, WritePrompt, ProviderReturns, handle,
       handleVars
  <1>7. CASE Abort \/ Timeout \/ ProviderCancels
    <2>1. answer' = answer /\ (child' = child \/ Kill)
      BY <1>7 DEF Abort, Timeout, ProviderCancels, Stop, provider
    <2> QED
      BY <1>1, <1>2, <2>1, HandleKill
  <1>8. ASSUME NEW f \in Final, Continue(f)
        PROVE  HandleProgress(child, answer, child', answer')
    <2>1. f \in {"CANCELLED", "TIMEOUT"} /\ Resolve(f, FALSE) /\ child' = child
      BY <1>1, <1>8 DEF Continue, CompleteHandle, HandleTypeOK
    <2> QED
      BY <2>1, FirstResultCounts
  <1> QED
    BY <1>3, <1>4, <1>5, <1>6, <1>7, <1>8 DEF HandleNext

\* Any call of the first version, with or without a timeout or a signal, of a
\* program that is found, missing or blank, implements ChildRun, too
\* (process_runtime.ts, the providers).
THEOREM TheHandleIsARun == HandleSpec => HandleIsARun
PROOF
  <1>1. HandleInit => HandleInv /\ HandleRun!Init
    BY CallsAssumption DEF HandleInit, HandleInv, HandleTypeOK, ExecutionState, Options,
       HandleRun!Init
  <1>2. HandleInv /\ [HandleNext]_handleVars => HandleInv'
    BY HandleTypes
  <1>3. HandleProgress(child, answer, child', answer') => [HandleRun!Next]_HandleRun!vars
    BY DEF HandleProgress, SeenChild, SeenResult, HandleRun!Next, HandleRun!vars,
       HandleRun!Spawn, HandleRun!SendSignal, HandleRun!End, HandleRun!Settle, HandleRun!Over
  <1>4. HandleInv /\ [HandleNext]_handleVars => [HandleRun!Next]_HandleRun!vars
    BY <1>3, HandleProgresses
  <1> QED
    BY <1>1, <1>2, <1>4, PTL DEF HandleSpec, HandleIsARun, HandleRun!Spec

\* Whoever runs another program, in either version, runs it as ChildRun says: one
\* outcome, for good, and an honest one (process_runtime.ts, cli_process_executor.ts,
\* npm_script_runner.ts).
THEOREM EveryCallIsARun == HandleSpec /\ CliSpec => CallsAreRuns
PROOF
  BY TheHandleIsARun, TheCliIsARun, PTL DEF CallsAreRuns
=============================================================================
