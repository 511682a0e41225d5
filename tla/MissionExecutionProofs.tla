----------------------- MODULE MissionExecutionProofs -----------------------
(***************************************************************************)
(* Theorems about MissionExecution, for every plan (any tasks, any         *)
(* dependencies, cyclic ones too), every limit and any disturbances; and   *)
(* about what serves the missions: the plugins that reason for the workers *)
(* (RuntimePlugins), the workers' messages (Collaboration), the graph of a *)
(* mission's tasks (TaskGraph) and who gets them (MissionDesk).            *)
(***************************************************************************)
EXTENDS MissionExecution, RuntimePlugins, Collaboration, TaskGraph, MissionDesk, Induction,
        FiniteSetTheorems, SequenceTheorems, TLAPS

-----------------------------------------------------------------------------
(* The ready queue.                                                        *)

\* A sequence of InPlanOrder(ts) lists ts, each task once.
LEMMA InPlanOrderLists ==
  ASSUME NEW ts \in SUBSET Tasks, NEW s \in InPlanOrder(ts)
  PROVE  /\ s \in Seq(Tasks)
         /\ {s[i] : i \in 1..Len(s)} = ts
         /\ \A i, j \in 1..Len(s) : s[i] = s[j] => i = j
PROOF
  <1> DEFINE n == Cardinality(ts)
  <1>1. IsFiniteSet(ts) /\ n \in Nat
    BY MissionAssumption, FS_Subset, FS_CardinalityType
  <1>2. s \in [1..n -> ts] /\ \A i, j \in 1..n : i < j => Position[s[i]] < Position[s[j]]
    BY DEF InPlanOrder
  <1>3. s \in Seq(Tasks) /\ Len(s) = n
    BY <1>1, <1>2
  <1>4. \A i, j \in 1..n : s[i] = s[j] => i = j
    <2> SUFFICES ASSUME NEW i \in 1..n, NEW j \in 1..n, s[i] = s[j], i < j PROVE FALSE
      BY <1>1
    <2> QED
      BY <1>2, MissionAssumption
  <1>5. IsFiniteSet(1..n) /\ Cardinality(1..n) = n
    BY <1>1, FS_Interval
  <1>6. s \in Injection(1..n, ts)
    BY <1>2, <1>4 DEF Injection, IsInjective
  <1>7. s \in Surjection(1..n, ts)
    BY <1>1, <1>5, <1>6, FS_Injection
  <1>8. {s[i] : i \in 1..n} = ts
    BY <1>2, <1>7 DEF Surjection
  <1> QED
    BY <1>3, <1>4, <1>8

QueueDistinct ==
  \A i, j \in 1..Len(queue) : queue[i] = queue[j] => i = j

\* Pushing tasks that are not queued keeps the queue free of duplicates.
LEMMA PushTasks ==
  ASSUME queue \in Seq(Tasks), QueueDistinct, NEW ts \in SUBSET Tasks,
         ts \cap Queued = {}, NEW s \in InPlanOrder(ts), queue' = queue \o s
  PROVE  /\ queue' \in Seq(Tasks)
         /\ QueueDistinct'
         /\ Queued' = Queued \cup ts
PROOF
  <1>1. /\ s \in Seq(Tasks) /\ {s[i] : i \in 1..Len(s)} = ts
        /\ \A i, j \in 1..Len(s) : s[i] = s[j] => i = j
    BY InPlanOrderLists
  <1>2. /\ queue' \in Seq(Tasks) /\ Len(queue') = Len(queue) + Len(s)
        /\ \A i \in 1..Len(queue) + Len(s) :
             queue'[i] = IF i <= Len(queue) THEN queue[i] ELSE s[i - Len(queue)]
    BY <1>1, ConcatProperties
  <1>3. Len(queue) \in Nat /\ Len(s) \in Nat
    BY <1>1
  <1>4. Queued = {queue[i] : i \in 1..Len(queue)} /\ Queued' = {queue'[i] : i \in 1..Len(queue')}
    BY <1>2 DEF Queued
  <1>5. QueueDistinct'
    <2> SUFFICES ASSUME NEW i \in 1..Len(queue'), NEW j \in 1..Len(queue'),
                        queue'[i] = queue'[j], i < j
                 PROVE  FALSE
      BY <1>2, <1>3 DEF QueueDistinct
    <2>1. CASE j <= Len(queue)
      BY <2>1, <1>2, <1>3 DEF QueueDistinct
    <2>2. CASE i <= Len(queue) /\ j > Len(queue)
      <3>1. queue'[i] \in Queued /\ j - Len(queue) \in 1..Len(s)
        BY <2>2, <1>2, <1>3, <1>4
      <3>2. queue'[j] \in ts
        BY <2>2, <3>1, <1>1, <1>2, <1>3
      <3> QED
        BY <3>1, <3>2
    <2>3. CASE i > Len(queue)
      <3>1. i - Len(queue) \in 1..Len(s) /\ j - Len(queue) \in 1..Len(s)
        BY <2>3, <1>2, <1>3
      <3>2. s[i - Len(queue)] = s[j - Len(queue)]
        BY <2>3, <1>2, <1>3
      <3>3. i - Len(queue) = j - Len(queue)
        BY <3>1, <3>2, <1>1
      <3> QED
        BY <3>3, <1>3
    <2> QED
      BY <2>1, <2>2, <2>3, <1>2, <1>3
  <1>6. Queued' = Queued \cup ts
    <2>1. Queued \subseteq Queued'
      BY <1>2, <1>3, <1>4
    <2>2. ASSUME NEW t \in ts PROVE t \in Queued'
      <3>1. PICK i \in 1..Len(s) : s[i] = t
        BY <1>1
      <3>2. i + Len(queue) \in 1..Len(queue') /\ queue'[i + Len(queue)] = t
        BY <3>1, <1>2, <1>3
      <3> QED
        BY <3>2, <1>4
    <2>3. ASSUME NEW i \in 1..Len(queue') PROVE queue'[i] \in Queued \cup ts
      <3>1. CASE i <= Len(queue)
        BY <3>1, <1>2, <1>3, <1>4
      <3>2. CASE i > Len(queue)
        <4>1. i - Len(queue) \in 1..Len(s)
          BY <3>2, <1>2, <1>3
        <4>2. queue'[i] = s[i - Len(queue)]
          BY <3>2, <1>2, <1>3
        <4> QED
          BY <4>1, <4>2, <1>1
      <3> QED
        BY <3>1, <3>2, <1>2, <1>3
    <2>4. Queued' \subseteq Queued \cup ts
      BY <2>3, <1>4
    <2> QED
      BY <2>1, <2>2, <2>4
  <1> QED
    BY <1>2, <1>5, <1>6

\* Popping n tasks: the batch and the rest of the queue.
LEMMA PopTasks ==
  ASSUME queue \in Seq(Tasks), QueueDistinct, NEW n \in 0..Len(queue),
         queue' = SubSeq(queue, n + 1, Len(queue))
  PROVE  /\ queue' \in Seq(Tasks)
         /\ QueueDistinct'
         /\ Queued = {queue[i] : i \in 1..n} \cup Queued'
         /\ {queue[i] : i \in 1..n} \cap Queued' = {}
PROOF
  <1>1. Len(queue) \in Nat /\ \A i \in n + 1..Len(queue) : queue[i] \in Tasks
    OBVIOUS
  <1>2. /\ queue' \in Seq(Tasks)
        /\ Len(queue') = Len(queue) - n
        /\ \A i \in 1..Len(queue) - n : queue'[i] = queue[n + i]
    <2>1. /\ SubSeq(queue, n + 1, Len(queue)) \in Seq(Tasks)
          /\ Len(SubSeq(queue, n + 1, Len(queue)))
               = IF n + 1 <= Len(queue) THEN Len(queue) - (n + 1) + 1 ELSE 0
          /\ \A i \in 1..Len(queue) - (n + 1) + 1 :
               SubSeq(queue, n + 1, Len(queue))[i] = queue[n + 1 + i - 1]
      BY <1>1, SubSeqProperties
    <2> QED
      BY <2>1, <1>1
  <1>3. QueueDistinct'
    <2>1. ASSUME NEW i \in 1..Len(queue'), NEW j \in 1..Len(queue'), queue'[i] = queue'[j] PROVE i = j
      <3>1. n + i \in 1..Len(queue) /\ n + j \in 1..Len(queue) /\ queue[n + i] = queue[n + j]
        BY <1>1, <1>2, <2>1
      <3>2. n + i = n + j
        BY <3>1 DEF QueueDistinct
      <3> QED
        BY <3>2
    <2> QED
      BY <2>1 DEF QueueDistinct
  <1>4. Queued = {queue[i] : i \in 1..Len(queue)} /\ Queued' = {queue'[i] : i \in 1..Len(queue')}
    BY <1>2 DEF Queued
  <1>5. Queued' = {queue[i] : i \in n + 1..Len(queue)}
    <2>1. ASSUME NEW i \in n + 1..Len(queue) PROVE queue[i] \in Queued'
      <3>1. i - n \in 1..Len(queue') /\ queue'[i - n] = queue[i]
        BY <1>1, <1>2
      <3> QED
        BY <3>1, <1>4
    <2>2. ASSUME NEW i \in 1..Len(queue') PROVE queue'[i] \in {queue[j] : j \in n + 1..Len(queue)}
      <3>1. n + i \in n + 1..Len(queue) /\ queue'[i] = queue[n + i]
        BY <1>1, <1>2
      <3> QED
        BY <3>1
    <2> QED
      BY <2>1, <2>2, <1>4
  <1>6. Queued = {queue[i] : i \in 1..n} \cup Queued'
    <2>1. 1..Len(queue) = (1..n) \cup (n + 1..Len(queue))
      BY <1>1
    <2> QED
      BY <2>1, <1>4, <1>5
  <1>7. {queue[i] : i \in 1..n} \cap Queued' = {}
    BY <1>1, <1>5 DEF QueueDistinct
  <1> QED
    BY <1>2, <1>3, <1>6, <1>7

-----------------------------------------------------------------------------
(* Types.                                                                  *)

LEMMA BatchSizeFits ==
  ASSUME TypeOK
  PROVE  IsFiniteSet(runningTaskIds)
         /\ (AtLoopTop /\ runningTaskIds = {} =>
              BatchSize \in 0..Len(queue) /\ BatchSize <= MaxParallelWorkers
              /\ (queue # <<>> => BatchSize # 0))
PROOF
  <1>1. IsFiniteSet(runningTaskIds)
    BY MissionAssumption, FS_Subset DEF TypeOK
  <1>2. Cardinality({}) = 0
    BY FS_EmptySet
  <1>3. Len(queue) \in Nat /\ (queue # <<>> => Len(queue) # 0)
    BY EmptySeq DEF TypeOK
  <1>4. ASSUME runningTaskIds = {}
        PROVE  BatchSize = IF Len(queue) < MaxParallelWorkers
                           THEN Len(queue) ELSE MaxParallelWorkers
    <2>1. MaxParallelWorkers - Cardinality(runningTaskIds) = MaxParallelWorkers
      BY <1>2, <1>4, MissionAssumption
    <2> QED
      BY <2>1 DEF BatchSize
  <1> QED
    BY <1>1, <1>3, <1>4, MissionAssumption

\* What a mission's loop, coroutines and repairs never do: the invariant from
\* which the other theorems follow.
QueueInv ==
  /\ QueueDistinct
  /\ mission \in {"idle", "preparing"} =>
       queue = <<>> /\ batch = {} /\ completedSet = {} /\ runningTaskIds = {}
       /\ \A t \in Tasks : pc[t] = "none"
  /\ \A t \in Tasks : t \in Queued => pc[t] = "none" /\ Deps[t] \subseteq completedSet
  /\ \A t \in Tasks : status[t] \in {"PENDING", "BLOCKED"} => pc[t] = "none" /\ t \notin Queued
  /\ mission \notin {"idle", "preparing"} => \A t \in Tasks :
       pc[t] = "none" => t \in Queued \/ status[t] = "BLOCKED"

ProgressInv ==
  /\ \A t \in completedSet : pc[t] \in {"notifying", "done", "threw"}
  /\ \A t \in Tasks : pc[t] = "notifying" => t \in completedSet
  /\ \A t \in Tasks : pc[t] # "none" => Deps[t] \subseteq completedSet
  /\ \A t \in Tasks : pc[t] \in {"none", "starting", "sleeping"} => attempt[t] <= MaxTaskRetries
  /\ inReview \subseteq completedSet
  /\ \A t \in Tasks, n \in 1..MaxRejections : repair[t][n] # "none" => t \in inReview

BatchInv ==
  /\ \A t \in Tasks : pc[t] \notin {"none", "done"} => t \in batch
  /\ \A t \in batch : pc[t] # "none"
  /\ IsFiniteSet(batch) /\ Cardinality(batch) <= MaxParallelWorkers
  /\ \A t \in Tasks : pc[t] \in Working => t \in runningTaskIds
  /\ \A t \in runningTaskIds : pc[t] \in Working \cup {"threw"}

EndInv ==
  /\ active => mission \in {"preparing", "looping"}
  /\ mission = "returned" => \A t \in Tasks : pc[t] \in {"none", "done"}
  /\ mission \notin {"idle", "preparing"} => \A t \in Tasks :
       pc[t] = "none" /\ Deps[t] \subseteq completedSet /\ t \notin Queued
         => \E d \in Tasks : pc[d] \in {"notifying", "threw"}

MissionInv == TypeOK /\ QueueInv /\ ProgressInv /\ BatchInv /\ EndInv

\* At the top of the loop the batch is over and nothing runs.
LEMMA LoopTopIsQuiet ==
  ASSUME MissionInv, AtLoopTop
  PROVE  /\ \A t \in Tasks : pc[t] \in {"none", "done"}
         /\ runningTaskIds = {}
PROOF
  <1>1. \A t \in Tasks : pc[t] \in {"none", "done"}
    BY DEF MissionInv, BatchInv, AtLoopTop
  <1>2. \A t \in runningTaskIds : t \in Tasks /\ pc[t] \notin {"none", "done"}
    BY DEF MissionInv, BatchInv, TypeOK, Working
  <1> QED
    BY <1>1, <1>2

LEMMA InitInv == Init => MissionInv
PROOF
  <1> SUFFICES ASSUME Init PROVE MissionInv
    OBVIOUS
  <1>1. TypeOK
    <2>1. repair \in [Tasks -> [1..MaxRejections ->
                        {"none", "executing", "completing", "failing", "done"}]]
      BY DEF Init
    <2>2. attempt \in [Tasks -> 0..MaxTaskRetries + 1] /\ rejections \in [Tasks -> 0..MaxRejections]
      BY MissionAssumption DEF Init
    <2>3. status \in [Tasks -> {"PENDING", "READY", "BLOCKED", "RUNNING", "COMPLETED", "FAILED"}]
      BY DEF Init
    <2>4. pc \in [Tasks -> Phase] /\ queue \in Seq(Tasks)
      BY DEF Init, Phase
    <2> QED
      BY <2>1, <2>2, <2>3, <2>4 DEF Init, TypeOK
  <1>2. Len(queue) = 0 /\ Queued = {}
    BY DEF Init, Queued
  <1>3. QueueInv
    BY <1>2 DEF Init, QueueInv, QueueDistinct
  <1>4. EndInv
    BY DEF Init, EndInv
  <1>6. ProgressInv
    <2>1. \A t \in Tasks, n \in 1..MaxRejections : repair[t][n] = "none"
      BY DEF Init
    <2> QED
      BY <2>1, MissionAssumption DEF Init, ProgressInv
  <1>5. BatchInv
    BY FS_EmptySet, MissionAssumption DEF Init, BatchInv, Working
  <1> QED
    BY <1>1, <1>3, <1>4, <1>5, <1>6 DEF MissionInv

LEMMA PrepareQueueKeepsInv ==
  ASSUME MissionInv, PrepareQueue
  PROVE  MissionInv'
PROOF
  <1> USE DEF MissionInv
  <1> DEFINE roots == {t \in Tasks : Deps[t] = {}}
  <1>1. PICK s \in InPlanOrder(roots) :
          /\ queue' = s
          /\ status' = [t \in Tasks |-> IF Deps[t] = {} THEN "READY" ELSE "BLOCKED"]
    BY DEF PrepareQueue, InitializeQueue
  <1>2. /\ s \in Seq(Tasks) /\ {s[i] : i \in 1..Len(s)} = roots
        /\ \A i, j \in 1..Len(s) : s[i] = s[j] => i = j
    BY InPlanOrderLists
  <1>3. queue' \in Seq(Tasks) /\ QueueDistinct' /\ Queued' = roots
    BY <1>1, <1>2 DEF QueueDistinct, Queued
  <1>4. \A t \in Tasks : pc'[t] = "none" /\ completedSet' = {}
    BY DEF PrepareQueue, QueueInv, listVars
  <1>5. TypeOK'
    BY <1>1, <1>3 DEF TypeOK, PrepareQueue, listVars, reviewVars
  <1>6. QueueInv'
    BY <1>1, <1>3, <1>4 DEF QueueInv, PrepareQueue
  <1>7. ProgressInv'
    BY <1>4 DEF ProgressInv, PrepareQueue, listVars, reviewVars
  <1>8. BatchInv'
    BY DEF BatchInv, PrepareQueue
  <1>9. EndInv'
    BY <1>3, <1>4, MissionAssumption DEF EndInv, PrepareQueue
  <1> QED
    BY <1>5, <1>6, <1>7, <1>8, <1>9

LEMMA RunBatchKeepsInv ==
  ASSUME MissionInv, RunBatch
  PROVE  MissionInv'
PROOF
  <1> USE DEF MissionInv
  <1> DEFINE n == BatchSize
  <1>1. (\A t \in Tasks : pc[t] \in {"none", "done"}) /\ runningTaskIds = {}
    BY LoopTopIsQuiet DEF RunBatch
  <1>2. n \in 0..Len(queue) /\ n <= MaxParallelWorkers
    BY <1>1, BatchSizeFits DEF RunBatch
  <1>3. batch' = {queue[i] : i \in 1..n} /\ queue' = SubSeq(queue, n + 1, Len(queue))
    BY DEF RunBatch
  <1>4. /\ queue' \in Seq(Tasks) /\ QueueDistinct'
        /\ Queued = batch' \cup Queued' /\ batch' \cap Queued' = {}
    <2>1. queue \in Seq(Tasks) /\ QueueDistinct
      BY DEF TypeOK, QueueInv
    <2> QED
      BY <1>2, <1>3, <2>1, PopTasks
  <1>5. \A t \in batch' : t \in Tasks /\ pc[t] = "none" /\ Deps[t] \subseteq completedSet
    <2>1. Queued \subseteq Tasks
      BY DEF Queued, TypeOK
    <2> QED
      BY <1>4, <2>1 DEF QueueInv
  <1>6. pc' = [t \in Tasks |-> IF t \in batch' THEN "starting" ELSE pc[t]]
    BY DEF RunBatch
  <1>7. TypeOK'
    <2>1. pc' \in [Tasks -> Phase]
      BY <1>6 DEF TypeOK, Phase
    <2> QED
      BY <1>4, <1>5, <2>1 DEF TypeOK, RunBatch, missionVars, reviewVars
  <1>8. QueueInv'
    BY <1>4, <1>5, <1>6 DEF QueueInv, RunBatch, missionVars, AtLoopTop
  <1>9. ProgressInv'
    <2>1. UNCHANGED <<completedSet, attempt, reviewVars>>
      BY DEF RunBatch
    <2>2. \A t \in Tasks : \/ pc'[t] = pc[t]
                           \/ /\ pc[t] = "none" /\ pc'[t] = "starting"
                              /\ Deps[t] \subseteq completedSet
      BY <1>5, <1>6
    <2>3. completedSet \subseteq Tasks
      BY DEF TypeOK
    <2> QED
      BY <2>1, <2>2, <2>3 DEF ProgressInv, reviewVars
  <1>10. BatchInv'
    <2>1. IsFiniteSet(batch') /\ Cardinality(batch') <= MaxParallelWorkers
      <3>1. n \in Nat /\ IsFiniteSet(1..n) /\ Cardinality(1..n) = n
        BY <1>2, FS_Interval
      <3>2. [i \in 1..n |-> queue[i]] \in Surjection(1..n, batch')
        BY <1>3 DEF Surjection
      <3>3. IsFiniteSet(batch') /\ Cardinality(batch') <= n
        BY <3>1, <3>2, FS_Surjection
      <3>4. Cardinality(batch') \in Nat
        BY <3>3, FS_CardinalityType
      <3> QED
        BY <1>2, <3>1, <3>3, <3>4, MissionAssumption
    <2>2. runningTaskIds' = batch'
      BY <1>1 DEF RunBatch
    <2> QED
      BY <1>1, <1>5, <1>6, <2>1, <2>2 DEF BatchInv, Working
  <1>11. EndInv'
    BY <1>1, <1>4, <1>5, <1>6 DEF EndInv, RunBatch, missionVars, AtLoopTop
  <1> QED
    BY <1>7, <1>8, <1>9, <1>10, <1>11

LEMMA UnlockDependentsKeepsInv ==
  ASSUME MissionInv, NEW u \in Tasks, UnlockDependents(u)
  PROVE  MissionInv'
PROOF
  <1> USE DEF MissionInv
  <1> DEFINE fresh == Unlockable \ Queued
  <1>1. PICK s \in InPlanOrder(fresh) :
          /\ queue' = queue \o s
          /\ status' = [t \in Tasks |-> IF t \in Unlockable THEN "READY" ELSE status[t]]
    BY DEF UnlockDependents, UnlockReadyTasks
  <1>2. Unlockable \subseteq Tasks /\ Unlockable \cap Queued = {} /\ fresh = Unlockable
    BY DEF Unlockable, QueueInv
  <1>3. queue' \in Seq(Tasks) /\ QueueDistinct' /\ Queued' = Queued \cup Unlockable
    <2>1. queue \in Seq(Tasks) /\ QueueDistinct
      BY DEF TypeOK, QueueInv
    <2>2. fresh \in SUBSET Tasks /\ fresh \cap Queued = {}
      BY <1>2
    <2>3. queue' \in Seq(Tasks) /\ QueueDistinct' /\ Queued' = Queued \cup fresh
      BY <1>1, <2>1, <2>2, PushTasks
    <2> QED
      BY <1>2, <2>3
  <1>4. \A t \in Unlockable : pc[t] = "none" /\ Deps[t] \subseteq completedSet
    BY DEF Unlockable, DependenciesDone, QueueInv
  <1>5. pc' = [pc EXCEPT ![u] = "done"] /\ pc[u] = "notifying"
    BY DEF UnlockDependents
  <1>6. TypeOK'
    <2>1. status' \in [Tasks -> {"PENDING", "READY", "BLOCKED", "RUNNING", "COMPLETED", "FAILED"}]
      BY <1>1 DEF TypeOK
    <2> QED
      BY <1>3, <1>5, <2>1 DEF TypeOK, Phase, UnlockDependents, missionVars, listVars, reviewVars
  <1>7. mission \notin {"idle", "preparing"} /\ mission' = mission
    BY <1>5 DEF QueueInv, UnlockDependents, missionVars
  <1>8. QueueInv'
    BY <1>1, <1>3, <1>4, <1>5, <1>7 DEF QueueInv, UnlockDependents, listVars, TypeOK
  <1>9. ProgressInv'
    BY <1>5 DEF ProgressInv, UnlockDependents, listVars, reviewVars, TypeOK
  <1>10. BatchInv'
    BY <1>5 DEF BatchInv, UnlockDependents, Working, TypeOK
  <1>11. EndInv'
    <2>1. \A t \in Tasks : pc'[t] = "none" /\ Deps[t] \subseteq completedSet' => t \in Queued'
      <3> SUFFICES ASSUME NEW t \in Tasks, pc'[t] = "none", Deps[t] \subseteq completedSet'
                   PROVE  t \in Queued'
        OBVIOUS
      <3>1. pc[t] = "none" /\ Deps[t] \subseteq completedSet
        BY <1>5 DEF UnlockDependents, listVars, TypeOK
      <3>2. t \in Queued \/ t \in Unlockable
        BY <1>7, <3>1 DEF QueueInv, Unlockable, DependenciesDone
      <3> QED
        BY <1>3, <3>2
    <2> QED
      BY <1>5, <1>7, <2>1 DEF EndInv, UnlockDependents, missionVars, TypeOK
  <1> QED
    BY <1>6, <1>8, <1>9, <1>10, <1>11

\* The steps of a coroutine before its outcome is recorded: nothing but the
\* phase, status and attempt of t and its place in runningTaskIds changes.
LEMMA AttemptsKeepInv ==
  ASSUME MissionInv, NEW t \in Tasks, NEW phase \in Phase \ {"none", "notifying", "done"},
         pc[t] \in Working,
         pc' = [pc EXCEPT ![t] = phase],
         \E s \in {"RUNNING", "COMPLETED", "FAILED"} :
           status' = [status EXCEPT ![t] = s] \/ status' = status,
         \E n \in 0..MaxTaskRetries + 1 : attempt' = [attempt EXCEPT ![t] = n],
         phase # "starting", phase = "sleeping" => attempt'[t] <= MaxTaskRetries,
         IF phase \in Working THEN runningTaskIds' = runningTaskIds
         ELSE runningTaskIds' = runningTaskIds \ {t}
              \/ (phase = "threw" /\ runningTaskIds' = runningTaskIds),
         UNCHANGED <<missionVars, listVars, reviewVars, queue, batch>>
  PROVE  MissionInv'
PROOF
  <1> USE DEF MissionInv
  <1>1. TypeOK'
    <2>1. pc' \in [Tasks -> Phase]
      BY DEF TypeOK
    <2>2. status' \in [Tasks -> {"PENDING", "READY", "BLOCKED", "RUNNING",
                                "COMPLETED", "FAILED"}]
      BY DEF TypeOK
    <2>3. attempt' \in [Tasks -> 0..MaxTaskRetries + 1]
      BY DEF TypeOK
    <2>4. runningTaskIds' \subseteq Tasks
      BY DEF TypeOK
    <2> QED
      BY <2>1, <2>2, <2>3, <2>4 DEF TypeOK, missionVars, listVars, reviewVars
  <1>2. Queued' = Queued /\ QueueDistinct'
    BY DEF Queued, QueueDistinct, QueueInv
  <1>3. \A u \in Tasks : /\ pc'[u] = IF u = t THEN phase ELSE pc[u]
                         /\ u # t => status'[u] = status[u] /\ attempt'[u] = attempt[u]
    BY DEF TypeOK
  <1>4. status[t] \notin {"PENDING", "BLOCKED"} /\ status'[t] \notin {"PENDING", "BLOCKED"}
    BY DEF QueueInv, Working, TypeOK
  <1>5. mission \notin {"idle", "preparing"}
    BY DEF QueueInv, Working
  <1>6. QueueInv'
    BY <1>2, <1>3, <1>4, <1>5 DEF QueueInv, missionVars, listVars, Working
  <1>7. ProgressInv'
    BY <1>3 DEF ProgressInv, listVars, reviewVars, Working, TypeOK
  <1>8. BatchInv'
    BY <1>3 DEF BatchInv, Working, Phase, TypeOK
  <1>9. EndInv'
    BY <1>2, <1>3 DEF EndInv, missionVars, listVars, Working, TypeOK
  <1> QED
    BY <1>1, <1>6, <1>7, <1>8, <1>9

LEMMA OutcomeKeepsInv ==
  ASSUME MissionInv, NEW t \in Tasks,
         RecordCompletion(t) \/ NotificationThrows(t) \/ RecordFailure(t)
  PROVE  MissionInv'
PROOF
  <1> USE DEF MissionInv
  <1> DEFINE from == pc[t]
  <1>1. from \in {"completing", "notifying", "failing"}
    BY DEF RecordCompletion, NotificationThrows, TaskStep, RecordFailure
  <1>2. PICK phase \in {"notifying", "threw", "done"} :
          /\ pc' = [pc EXCEPT ![t] = phase]
          /\ phase = "notifying" => completedSet' = completedSet \cup {t}
          /\ phase # "notifying" => completedSet' = completedSet
          /\ from = "failing" => phase = "done"
          /\ phase = "done" => from = "failing"
    BY DEF RecordCompletion, NotificationThrows, TaskStep, RecordFailure, listVars
  <1>3. UNCHANGED <<missionVars, status, attempt, runningTaskIds, rejections, repair, queue, batch>>
    BY DEF RecordCompletion, NotificationThrows, TaskStep, RecordFailure, reviewVars
  <1>4. /\ pendingTaskIds' = pendingTaskIds
        /\ completedTaskIds' \subseteq completedTaskIds \cup {t}
        /\ failedTaskIds' \subseteq failedTaskIds \cup {t}
        /\ inReview' = inReview
           \/ (inReview' = inReview \cup ({t} \cap Reviewed) /\ completedSet' = completedSet \cup {t})
    BY DEF RecordCompletion, NotificationThrows, TaskStep, RecordFailure, listVars, reviewVars
  <1>5. Queued' = Queued /\ QueueDistinct'
    BY <1>3 DEF Queued, QueueDistinct, QueueInv
  <1>6. \A u \in Tasks : pc'[u] = IF u = t THEN phase ELSE pc[u]
    BY <1>2 DEF TypeOK
  <1>7. TypeOK'
    BY <1>2, <1>3, <1>4 DEF TypeOK, missionVars, Phase
  <1>8. QueueInv'
    BY <1>1, <1>2, <1>3, <1>5, <1>6 DEF QueueInv, missionVars
  <1>9. ProgressInv'
    BY <1>1, <1>2, <1>3, <1>4, <1>6 DEF ProgressInv, TypeOK
  <1>10. BatchInv'
    BY <1>1, <1>2, <1>3, <1>6 DEF BatchInv, Working, TypeOK
  <1>11. EndInv'
    BY <1>1, <1>2, <1>3, <1>5, <1>6 DEF EndInv, missionVars
  <1> QED
    BY <1>7, <1>8, <1>9, <1>10, <1>11

\* A repair touches only tasks that are in review, hence completed.
LEMMA RepairsKeepInv ==
  ASSUME MissionInv, NEW t \in Tasks, Repairing(t)
  PROVE  MissionInv'
PROOF
  <1> USE DEF MissionInv
  <1> DEFINE Effect ==
        /\ UNCHANGED <<missionVars, pc, attempt, runningTaskIds, pendingTaskIds,
                       completedSet, inReview, queue, batch>>
        /\ t \in inReview
        /\ failedTaskIds' \in {failedTaskIds, failedTaskIds \cup {t}, failedTaskIds \ {t}}
        /\ completedTaskIds' \in {completedTaskIds, completedTaskIds \cup {t}}
        /\ \/ status' = status
           \/ \E s \in {"RUNNING", "COMPLETED", "FAILED"} : status' = [status EXCEPT ![t] = s]
        /\ rejections' \in [Tasks -> 0..MaxRejections]
        /\ \/ repair' = repair
           \/ \E n \in 1..MaxRejections, p \in {"executing", "completing", "failing", "done"} :
                repair' = [repair EXCEPT ![t][n] = p]
  <1>1. Effect
    <2>1. CASE RejectReview(t)
      <3>1. rejections[t] + 1 \in 1..MaxRejections
        BY <2>1, MissionAssumption DEF RejectReview, TypeOK
      <3>2. rejections' \in [Tasks -> 0..MaxRejections]
        BY <2>1, <3>1, MissionAssumption DEF RejectReview, TypeOK
      <3>3. \/ repair' = repair
            \/ \E n \in 1..MaxRejections, p \in {"executing", "completing", "failing", "done"} :
                 repair' = [repair EXCEPT ![t][n] = p]
        BY <2>1, <3>1 DEF RejectReview
      <3> QED
        BY <2>1, <3>2, <3>3 DEF RejectReview
    <2>2. ASSUME NEW n \in 1..MaxRejections, RecordRepair(t, n) PROVE Effect
      <3>1. repair[t][n] # "none"
        BY <2>2 DEF RecordRepair
      <3> QED
        BY <2>2, <3>1 DEF RecordRepair, ProgressInv, taskVars, TypeOK
    <2>3. ASSUME NEW n \in 1..MaxRejections, NEW passed \in BOOLEAN, RepairEnds(t, n, passed)
          PROVE Effect
      <3>1. repair[t][n] # "none"
        BY <2>3 DEF RepairEnds
      <3> QED
        BY <2>3, <3>1 DEF RepairEnds, ProgressInv, listVars, TypeOK
    <2> QED
      BY <2>1, <2>2, <2>3 DEF Repairing
  <1>2. Queued' = Queued /\ QueueDistinct'
    BY <1>1 DEF Queued, QueueDistinct, QueueInv
  <1>3. t \in completedSet /\ pc[t] # "none"
    BY <1>1 DEF ProgressInv
  <1>4. \A u \in Tasks : u # t => status'[u] = status[u]
    BY <1>1 DEF TypeOK
  <1>5. status'[t] \notin {"PENDING", "BLOCKED"}
    BY <1>1, <1>3 DEF TypeOK, QueueInv
  <1>6. TypeOK'
    <2>1. status' \in [Tasks -> {"PENDING", "READY", "BLOCKED", "RUNNING", "COMPLETED", "FAILED"}]
      BY <1>1 DEF TypeOK
    <2>2. repair' \in [Tasks -> [1..MaxRejections ->
                         {"none", "executing", "completing", "failing", "done"}]]
      <3>1. CASE repair' = repair
        BY <3>1 DEF TypeOK
      <3>2. ASSUME NEW n \in 1..MaxRejections,
                   NEW p \in {"executing", "completing", "failing", "done"},
                   repair' = [repair EXCEPT ![t] = [repair[t] EXCEPT ![n] = p]]
            PROVE  repair' \in [Tasks -> [1..MaxRejections ->
                                {"none", "executing", "completing", "failing", "done"}]]
        BY <3>2 DEF TypeOK
      <3> QED
        BY <3>1, <3>2, <1>1
    <2> QED
      BY <1>1, <2>1, <2>2 DEF TypeOK, missionVars
  <1>7. QueueInv'
    BY <1>1, <1>2, <1>3, <1>4, <1>5 DEF QueueInv, missionVars
  <1>8. ProgressInv'
    <2>1. ASSUME NEW u \in Tasks, NEW m \in 1..MaxRejections, repair'[u][m] # "none"
          PROVE  u \in inReview'
      <3>1. CASE u = t
        BY <3>1, <1>1
      <3>2. CASE u # t
        <4>1. repair'[u] = repair[u]
          BY <3>2, <1>1 DEF TypeOK
        <4> QED
          BY <4>1, <2>1, <1>1 DEF ProgressInv
      <3> QED
        BY <3>1, <3>2
    <2> QED
      BY <1>1, <2>1 DEF ProgressInv
  <1>9. BatchInv' /\ EndInv'
    BY <1>1, <1>2 DEF BatchInv, EndInv, missionVars
  <1> QED
    BY <1>6, <1>7, <1>8, <1>9

\* A step of a coroutine up to the recording of its outcome.
LEMMA WorkingStepsKeepInv ==
  ASSUME MissionInv, NEW t \in Tasks,
         \/ BeginAttempt(t) \/ TaskExecuted(t) \/ TaskExecutionFails(t)
         \/ VerificationFails(t) \/ MergeFails(t) \/ TaskPasses(t)
  PROVE  MissionInv'
PROOF
  <1>1. TypeOK /\ ProgressInv
    BY DEF MissionInv
  <1>2. pc[t] \in Working /\ UNCHANGED <<missionVars, listVars, reviewVars, queue, batch>>
    BY DEF BeginAttempt, TaskExecuted, TaskExecutionFails, VerificationFails, MergeFails,
           TaskPasses, TaskStep, Working
  <1>3. attempt[t] \in 0..MaxTaskRetries + 1 /\ attempt = [attempt EXCEPT ![t] = attempt[t]]
    BY <1>1 DEF TypeOK
  <1>4. ASSUME Attempt(t), AttemptsLeft(t) PROVE MissionInv'
    <2>1. PICK phase \in {"executing", "threw"} : pc' = [pc EXCEPT ![t] = phase]
      BY <1>4 DEF Attempt
    <2>2. phase \in Phase \ {"none", "notifying", "done"} /\ phase \notin {"starting", "sleeping"}
      BY DEF Phase
    <2>3. \E s \in {"RUNNING", "COMPLETED", "FAILED"} :
            status' = [status EXCEPT ![t] = s] \/ status' = status
      BY <1>4 DEF Attempt
    <2>4. IF phase \in Working THEN runningTaskIds' = runningTaskIds
          ELSE runningTaskIds' = runningTaskIds \ {t}
               \/ (phase = "threw" /\ runningTaskIds' = runningTaskIds)
      BY <1>4 DEF Attempt, Working
    <2>5. \E n \in 0..MaxTaskRetries + 1 : attempt' = [attempt EXCEPT ![t] = n]
      <3>1. attempt[t] + 1 \in 0..MaxTaskRetries + 1
        BY <1>3, <1>4, MissionAssumption DEF AttemptsLeft
      <3>2. attempt' = [attempt EXCEPT ![t] = attempt[t] + 1]
        BY <1>4 DEF Attempt
      <3> QED
        BY <3>1, <3>2
    <2> QED
      BY <1>2, <2>1, <2>2, <2>3, <2>4, <2>5, AttemptsKeepInv
  <1>5. ASSUME NEW phase \in {"failing", "completing"},
               NEW s \in {"RUNNING", "COMPLETED", "FAILED"},
               status' = [status EXCEPT ![t] = s], pc' = [pc EXCEPT ![t] = phase],
               runningTaskIds' = runningTaskIds \ {t}, attempt' = attempt
        PROVE  MissionInv'
    <2>1. /\ phase \in Phase \ {"none", "notifying", "done"}
          /\ phase \notin Working /\ phase # "starting" /\ phase # "sleeping"
      BY DEF Phase, Working
    <2>2. \E n \in 0..MaxTaskRetries + 1 : attempt' = [attempt EXCEPT ![t] = n]
      BY <1>3, <1>5
    <2>3. \E r \in {"RUNNING", "COMPLETED", "FAILED"} :
            status' = [status EXCEPT ![t] = r] \/ status' = status
      BY <1>5
    <2>4. IF phase \in Working THEN runningTaskIds' = runningTaskIds
          ELSE runningTaskIds' = runningTaskIds \ {t}
               \/ (phase = "threw" /\ runningTaskIds' = runningTaskIds)
      BY <1>5, <2>1
    <2>5. phase = "sleeping" => attempt'[t] <= MaxTaskRetries
      BY <2>1
    <2> QED
      BY <1>2, <1>5, <2>1, <2>2, <2>3, <2>4, <2>5, AttemptsKeepInv
  <1>12. GiveUp(t) => MissionInv'
    BY <1>5 DEF GiveUp
  <1>6. ASSUME NEW phase \in {"sleeping", "verifying"}, phase = "sleeping" => AttemptsLeft(t),
               pc' = [pc EXCEPT ![t] = phase], UNCHANGED <<status, attempt, runningTaskIds>>
        PROVE  MissionInv'
    <2>1. /\ phase \in Phase \ {"none", "notifying", "done"} /\ phase \in Working
          /\ phase # "starting"
      BY DEF Phase, Working
    <2>2. /\ \E n \in 0..MaxTaskRetries + 1 : attempt' = [attempt EXCEPT ![t] = n]
          /\ status' = status
          /\ phase = "sleeping" => attempt'[t] <= MaxTaskRetries
      BY <1>3, <1>6 DEF AttemptsLeft
    <2> QED
      BY <1>2, <1>6, <2>1, <2>2, AttemptsKeepInv
  <1>7. CASE BeginAttempt(t)
    <2>1. Attempt(t) /\ pc[t] \in {"starting", "sleeping"}
      BY <1>7 DEF BeginAttempt, TaskStep
    <2>2. AttemptsLeft(t)
      BY <2>1, <1>1 DEF ProgressInv, AttemptsLeft
    <2> QED
      BY <2>1, <2>2, <1>4
  <1>8. CASE TaskExecuted(t)
    BY <1>6, <1>8 DEF TaskExecuted
  <1>9. CASE TaskExecutionFails(t) \/ VerificationFails(t)
    <2>1. SleepOrGiveUp(t)
      BY <1>9 DEF TaskExecutionFails, VerificationFails
    <2> QED
      BY <1>6, <1>12, <2>1 DEF SleepOrGiveUp
  <1>10. CASE MergeFails(t)
    BY <1>4, <1>10, <1>12 DEF MergeFails
  <1>11. CASE TaskPasses(t)
    BY <1>5, <1>11 DEF TaskPasses
  <1> QED
    BY <1>7, <1>8, <1>9, <1>10, <1>11

\* The other steps of the loop and the cancellation change no task.
LEMMA LoopStepsKeepInv ==
  ASSUME MissionInv, ExecuteMissionPlan \/ EndMission \/ MissionThrows \/ CancelExecution
  PROVE  MissionInv'
PROOF
  <1> USE DEF MissionInv
  <1>1. UNCHANGED <<taskVars, listVars, reviewVars, queue, batch>>
    BY DEF ExecuteMissionPlan, EndMission, MissionThrows, CancelExecution
  <1>2. Queued' = Queued /\ QueueDistinct'
    BY <1>1 DEF Queued, QueueDistinct, QueueInv
  <1>3. TypeOK'
    BY <1>1 DEF TypeOK, taskVars, listVars, reviewVars, ExecuteMissionPlan, EndMission,
                MissionThrows, CancelExecution
  <1>4. (mission \in {"idle", "preparing"}) = (mission' \in {"idle", "preparing"})
    BY DEF ExecuteMissionPlan, EndMission, MissionThrows, CancelExecution, AtLoopTop
  <1>5. QueueInv' /\ ProgressInv' /\ BatchInv'
    BY <1>1, <1>2, <1>4 DEF QueueInv, ProgressInv, BatchInv, taskVars, listVars, reviewVars
  <1>6. EndInv'
    <2>1. CASE EndMission
      <3>1. \A t \in Tasks : pc[t] \in {"none", "done"}
        BY <2>1, LoopTopIsQuiet DEF EndMission
      <3> QED
        BY <1>1, <1>2, <1>4, <2>1, <3>1 DEF EndInv, EndMission, AtLoopTop, taskVars, listVars
    <2>2. CASE ExecuteMissionPlan \/ MissionThrows \/ CancelExecution
      BY <1>1, <1>2, <1>4, <2>2 DEF EndInv, ExecuteMissionPlan, MissionThrows, CancelExecution,
                                   taskVars, listVars
    <2> QED
      BY <2>1, <2>2
  <1> QED
    BY <1>3, <1>5, <1>6

LEMMA StutteringKeepsInv ==
  ASSUME MissionInv, UNCHANGED vars
  PROVE  MissionInv'
PROOF
  <1> USE DEF MissionInv, vars, missionVars, taskVars, listVars, reviewVars
  <1>1. Queued' = Queued /\ QueueDistinct'
    BY DEF Queued, QueueDistinct, QueueInv
  <1>2. TypeOK'
    BY DEF TypeOK
  <1>3. QueueInv' /\ ProgressInv'
    BY <1>1 DEF QueueInv, ProgressInv
  <1>4. BatchInv' /\ EndInv'
    BY <1>1 DEF BatchInv, EndInv
  <1> QED
    BY <1>2, <1>3, <1>4

LEMMA NextKeepsInv ==
  ASSUME MissionInv, [Next]_vars
  PROVE  MissionInv'
PROOF
  <1>1. CASE Loop
    BY <1>1, PrepareQueueKeepsInv, RunBatchKeepsInv, LoopStepsKeepInv DEF Loop
  <1>2. CASE CancelExecution
    BY <1>2, LoopStepsKeepInv
  <1>3. ASSUME NEW t \in Tasks, Coroutine(t) PROVE MissionInv'
    BY <1>3, WorkingStepsKeepInv, OutcomeKeepsInv, UnlockDependentsKeepsInv DEF Coroutine
  <1>4. ASSUME NEW t \in Tasks, Repairing(t) PROVE MissionInv'
    BY <1>4, RepairsKeepInv
  <1> QED
    BY <1>1, <1>2, <1>3, <1>4, StutteringKeepsInv DEF Next

THEOREM Invariant == Spec => []MissionInv
PROOF
  <1>1. MissionInv /\ [Next]_vars => MissionInv'
    BY NextKeepsInv
  <1> QED
    BY InitInv, <1>1, PTL DEF Spec

-----------------------------------------------------------------------------
(* The properties.                                                         *)

\* Every variable of a mission's execution keeps its type.
THEOREM TypeCorrect == Spec => []TypeOK
PROOF
  <1>1. MissionInv => TypeOK
    BY DEF MissionInv
  <1> QED
    BY Invariant, <1>1, PTL

\* A task goes to a worker only after all of its dependencies were verified
\* and merged: for any graph, and whatever is cancelled, rejected or thrown.
THEOREM DependenciesComeFirst == Spec => []DependenciesFirst
PROOF
  <1>1. MissionInv => DependenciesFirst
    BY DEF MissionInv, ProgressInv, DependenciesFirst
  <1> QED
    BY Invariant, <1>1, PTL

\* No more than maxParallelWorkers coroutines are under way.
THEOREM ParallelismIsBounded == Spec => []ParallelismBounded
PROOF
  <1>1. MissionInv => ParallelismBounded
    <2> SUFFICES ASSUME MissionInv PROVE ParallelismBounded
      OBVIOUS
    <2>1. UnderWay \in SUBSET batch
      BY DEF UnderWay, MissionInv, BatchInv
    <2>2. IsFiniteSet(batch) /\ Cardinality(batch) <= MaxParallelWorkers
      BY DEF MissionInv, BatchInv
    <2>3. IsFiniteSet(UnderWay) /\ Cardinality(UnderWay) <= Cardinality(batch)
      BY <2>1, <2>2, FS_Subset
    <2>4. Cardinality(UnderWay) \in Nat /\ Cardinality(batch) \in Nat
      BY <2>2, <2>3, FS_CardinalityType
    <2> QED
      BY <2>2, <2>3, <2>4, MissionAssumption DEF ParallelismBounded
  <1> QED
    BY Invariant, <1>1, PTL

\* The poll for running tasks at the top of the loop never happens.
THEOREM PollIsDead == Spec => []NothingRunsAtLoopTop
PROOF
  <1>1. MissionInv => NothingRunsAtLoopTop
    BY LoopTopIsQuiet DEF NothingRunsAtLoopTop
  <1> QED
    BY Invariant, <1>1, PTL

\* A mission that returns without an exception leaves no task behind that
\* still runs.
THEOREM MissionReturnsLast == Spec => []ReturnsAfterItsTasks
PROOF
  <1>1. MissionInv => ReturnsAfterItsTasks
    BY DEF MissionInv, EndInv, ReturnsAfterItsTasks, UnderWay
  <1> QED
    BY Invariant, <1>1, PTL

\* What a mission that ends by itself leaves unstarted has a dependency that
\* did not complete.
LEMMA NothingIsRunnable ==
  ASSUME MissionInv, AtLoopTop, NothingToDo, NEW t \in Tasks, pc[t] = "none"
  PROVE  ~ Deps[t] \subseteq completedSet
PROOF
  <1>1. \A d \in Tasks : pc[d] \in {"none", "done"}
    BY LoopTopIsQuiet
  <1>2. Queued = {}
    BY DEF NothingToDo, Queued
  <1> QED
    BY <1>1, <1>2 DEF MissionInv, EndInv, AtLoopTop

\* A mission is never given up while a task of it could run.
THEOREM NothingRunnableIsLeft == Spec => NothingRunnableLeft
PROOF
  <1>1. ASSUME MissionInv, EndMission, active, NEW t \in Tasks, pc[t] = "none"
        PROVE  ~ Deps[t] \subseteq completedSet
    <2>1. AtLoopTop /\ (completedSet = Tasks \/ NothingToDo)
      BY <1>1 DEF EndMission, LoopContinues
    <2>2. completedSet # Tasks
      BY <1>1 DEF MissionInv, ProgressInv
    <2> QED
      BY <1>1, <2>1, <2>2, NothingIsRunnable
  <1>2. MissionInv /\ [Next]_vars =>
          [EndMission /\ active =>
             \A t \in Tasks : pc[t] = "none" => ~ Deps[t] \subseteq completedSet]_vars
    BY <1>1
  <1> QED
    BY Invariant, <1>2, PTL DEF Spec, NothingRunnableLeft

-----------------------------------------------------------------------------
(* The lists of the mission's state, and what the result says of them.     *)

NoRejections == \A t \in Tasks : rejections[t] = 0

\* What each list holds, told from where the coroutines are.
ListInv ==
  /\ pendingTaskIds = {t \in Tasks : pc[t] = "none"}
  /\ runningTaskIds = {t \in Tasks : pc[t] \in Working}
                         \cup {t \in Tasks : pc[t] = "threw" /\ t \notin completedSet}
  /\ \A t \in Tasks, n \in 1..MaxRejections : repair[t][n] # "none" => ~NoRejections
  /\ NoRejections =>
       /\ completedTaskIds = completedSet
       /\ failedTaskIds = {t \in Tasks : pc[t] = "done"} \ completedSet
       /\ \A t \in Tasks :
            status[t] = "COMPLETED" <=> pc[t] = "completing" \/ t \in completedSet
       /\ mission = "returned" => (success <=> completedSet = Tasks)

LEMMA InitLists == Init => ListInv
PROOF
  BY DEF Init, ListInv, Working

\* Where t goes next, and whether that ends its run.
LEMMA CoroutinesKeepLists ==
  ASSUME MissionInv, ListInv, NEW t \in Tasks, Coroutine(t)
  PROVE  ListInv'
PROOF
  <1> USE DEF MissionInv
  <1>1. /\ UNCHANGED <<missionVars, rejections, repair, pendingTaskIds>>
        /\ pc[t] # "none" /\ mission # "returned"
    BY DEF Coroutine, BeginAttempt, TaskExecuted, TaskExecutionFails, VerificationFails, MergeFails,
           TaskPasses, TaskStep, RecordCompletion, NotificationThrows, UnlockDependents,
           RecordFailure, missionVars, listVars, reviewVars, EndInv
  <1>2. NoRejections' = NoRejections
    BY <1>1 DEF NoRejections
  <1>3. CASE \/ BeginAttempt(t) \/ TaskExecuted(t) \/ TaskExecutionFails(t)
             \/ VerificationFails(t) \/ MergeFails(t) \/ TaskPasses(t)
    <2>1. UNCHANGED <<completedSet, completedTaskIds, failedTaskIds>> /\ pc[t] \in Working
      BY <1>3 DEF BeginAttempt, TaskExecuted, TaskExecutionFails, VerificationFails, MergeFails,
                  TaskPasses, TaskStep, listVars, Working
    <2>2. PICK phase \in Working \cup {"completing", "failing", "threw"} :
            /\ pc' = [pc EXCEPT ![t] = phase]
            /\ runningTaskIds' = IF phase \in {"completing", "failing"}
                                 THEN runningTaskIds \ {t} ELSE runningTaskIds
            /\ \/ phase # "completing" /\ \E st \in {"RUNNING", "FAILED"} :
                    status' = [status EXCEPT ![t] = st]
               \/ phase # "completing" /\ status' = status
               \/ phase = "completing" /\ status' = [status EXCEPT ![t] = "COMPLETED"]
      BY <1>3 DEF BeginAttempt, TaskExecuted, TaskExecutionFails, VerificationFails, MergeFails,
                  TaskPasses, TaskStep, SleepOrGiveUp, GiveUp, Attempt, Working
    <2>3. \A u \in Tasks : pc'[u] = IF u = t THEN phase ELSE pc[u]
      BY <2>2 DEF TypeOK
    <2>4. t \notin completedSet /\ t \in runningTaskIds
      BY <2>1 DEF ProgressInv, BatchInv, Working
    <2>5. pendingTaskIds' = {u \in Tasks : pc'[u] = "none"}
      BY <1>1, <2>3 DEF ListInv, Working
    <2>6. runningTaskIds' = {u \in Tasks : pc'[u] \in Working}
                              \cup {u \in Tasks : pc'[u] = "threw" /\ u \notin completedSet'}
      BY <2>1, <2>2, <2>3, <2>4 DEF ListInv, Working
    <2>7. {u \in Tasks : pc'[u] = "done"} = {u \in Tasks : pc[u] = "done"}
      BY <2>1, <2>3 DEF Working
    <2>8. NoRejections => \A u \in Tasks :
            status'[u] = "COMPLETED" <=> pc'[u] = "completing" \/ u \in completedSet'
      <3>1. NoRejections => status[t] # "COMPLETED"
        BY <2>1, <2>4 DEF ListInv, Working
      <3>2. \A u \in Tasks \ {t} : status'[u] = status[u]
        BY <2>2 DEF TypeOK
      <3>3. NoRejections => (status'[t] = "COMPLETED" <=> phase = "completing")
        BY <2>2, <3>1 DEF TypeOK
      <3> QED
        BY <2>1, <2>3, <2>4, <3>2, <3>3 DEF ListInv
    <2> QED
      BY <1>1, <1>2, <2>1, <2>5, <2>6, <2>7, <2>8 DEF ListInv, missionVars
  <1>4. CASE RecordCompletion(t)
    <2>1. \A u \in Tasks : pc'[u] = IF u = t THEN "notifying" ELSE pc[u]
      BY <1>4 DEF RecordCompletion, TypeOK
    <2> QED
      BY <1>1, <1>2, <1>4, <2>1 DEF RecordCompletion, ListInv, Working, missionVars
  <1>5. CASE NotificationThrows(t)
    <2>1. /\ \A u \in Tasks : pc'[u] = IF u = t THEN "threw" ELSE pc[u]
          /\ t \in completedSet /\ pc[t] = "notifying"
      BY <1>5 DEF NotificationThrows, TaskStep, TypeOK, ProgressInv
    <2> QED
      BY <1>1, <1>2, <1>5, <2>1
         DEF NotificationThrows, TaskStep, ListInv, Working, missionVars, listVars
  <1>6. CASE UnlockDependents(t)
    <2>1. /\ \A u \in Tasks : pc'[u] = IF u = t THEN "done" ELSE pc[u]
          /\ t \in completedSet /\ pc[t] = "notifying"
      BY <1>6 DEF UnlockDependents, TypeOK, ProgressInv
    <2>2. \A u \in Tasks : status'[u] = "COMPLETED" <=> status[u] = "COMPLETED"
      BY <1>6 DEF UnlockDependents, UnlockReadyTasks, Unlockable
    <2> QED
      BY <1>1, <1>2, <1>6, <2>1, <2>2 DEF UnlockDependents, ListInv, Working, missionVars, listVars
  <1>7. CASE RecordFailure(t)
    <2>1. /\ \A u \in Tasks : pc'[u] = IF u = t THEN "done" ELSE pc[u]
          /\ t \notin completedSet /\ pc[t] = "failing"
      BY <1>7 DEF RecordFailure, TypeOK, ProgressInv
    <2> QED
      BY <1>1, <1>2, <1>7, <2>1 DEF RecordFailure, ListInv, Working, missionVars
  <1> QED
    BY <1>3, <1>4, <1>5, <1>6, <1>7 DEF Coroutine

LEMMA RepairsKeepLists ==
  ASSUME MissionInv, ListInv, NEW t \in Tasks, Repairing(t)
  PROVE  ListInv'
PROOF
  <1> USE DEF MissionInv
  <1>1. UNCHANGED <<pc, pendingTaskIds, runningTaskIds, completedSet>>
    BY DEF Repairing, RejectReview, RepairEnds, RecordRepair, taskVars, listVars
  <1>2. ~NoRejections'
    <2>1. CASE RejectReview(t)
      <3>1. rejections'[t] = rejections[t] + 1 /\ rejections[t] \in Nat
        BY <2>1 DEF RejectReview, TypeOK
      <3> QED
        BY <3>1 DEF NoRejections
    <2>2. ASSUME NEW n \in 1..MaxRejections,
                 RecordRepair(t, n) \/ \E passed \in BOOLEAN : RepairEnds(t, n, passed)
          PROVE  ~NoRejections'
      BY <2>2 DEF RecordRepair, RepairEnds, ListInv, NoRejections
    <2> QED
      BY <2>1, <2>2 DEF Repairing
  <1> QED
    BY <1>1, <1>2 DEF ListInv

LEMMA NextKeepsLists ==
  ASSUME MissionInv, ListInv, [Next]_vars
  PROVE  ListInv'
PROOF
  <1> USE DEF MissionInv
  <1>1. CASE ExecuteMissionPlan \/ MissionThrows \/ CancelExecution
    BY <1>1 DEF ExecuteMissionPlan, MissionThrows, CancelExecution, ListInv, NoRejections,
                taskVars, listVars, reviewVars, EndInv
  <1>2. CASE PrepareQueue
    <2>1. \A t \in Tasks : status'[t] # "COMPLETED"
      BY <1>2 DEF PrepareQueue, InitializeQueue
    <2> QED
      BY <1>2, <2>1 DEF PrepareQueue, ListInv, NoRejections, QueueInv, listVars, reviewVars
  <1>3. CASE RunBatch
    <2>1. /\ \A t \in Tasks : pc'[t] = IF t \in batch' THEN "starting" ELSE pc[t]
          /\ UNCHANGED <<missionVars, status, completedTaskIds, failedTaskIds, completedSet, reviewVars>>
          /\ pendingTaskIds' = pendingTaskIds \ batch' /\ runningTaskIds' = runningTaskIds \cup batch'
      BY <1>3 DEF RunBatch
    <2>2. \A t \in Tasks : pc[t] \in {"none", "done"}
      BY <1>3, LoopTopIsQuiet DEF RunBatch
    <2>3. batch' \subseteq Tasks /\ \A t \in batch' : pc[t] = "none"
      <3>1. /\ runningTaskIds = {} /\ queue # <<>>
        BY <1>3, LoopTopIsQuiet DEF RunBatch, LoopContinues, NothingToDo
      <3>2. BatchSize \in 0..Len(queue) /\ batch' = {queue[i] : i \in 1..BatchSize}
        BY <1>3, <3>1, BatchSizeFits DEF RunBatch
      <3>3. 1..BatchSize \subseteq 1..Len(queue)
        BY <3>2 DEF TypeOK
      <3>4. batch' \subseteq Queued /\ Queued \subseteq Tasks
        BY <3>2, <3>3 DEF Queued, TypeOK
      <3> QED
        BY <3>4 DEF QueueInv
    <2> QED
      BY <2>1, <2>2, <2>3 DEF ListInv, NoRejections, Working, missionVars, reviewVars
  <1>4. CASE EndMission
    <2>1. NoRejections => (success' <=> completedSet = Tasks)
      BY <1>4 DEF EndMission, ListInv
    <2> QED
      BY <1>4, <2>1 DEF EndMission, ListInv, NoRejections, taskVars, listVars, reviewVars
  <1>5. ASSUME NEW t \in Tasks, Coroutine(t) \/ Repairing(t) PROVE ListInv'
    BY <1>5, CoroutinesKeepLists, RepairsKeepLists
  <1>6. CASE UNCHANGED vars
    BY <1>6 DEF vars, missionVars, taskVars, listVars, reviewVars, ListInv, NoRejections
  <1> QED
    BY <1>1, <1>2, <1>3, <1>4, <1>5, <1>6 DEF Next, Loop

LEMMA ListInvariant == Spec => [](MissionInv /\ ListInv)
PROOF
  <1>1. MissionInv /\ ListInv /\ [Next]_vars => ListInv'
    BY NextKeepsLists
  <1> QED
    BY Invariant, InitLists, <1>1, PTL DEF Spec

\* As long as no review is rejected, the lists of the mission's state
\* partition the tasks, but for those whose outcome is being recorded: also
\* after exceptions, and for coroutines that outlive their mission.
THEOREM ListsArePartitions == Spec => []ListsPartitionTasks
PROOF
  <1>1. MissionInv /\ ListInv => ListsPartitionTasks
    <2> SUFFICES ASSUME MissionInv, ListInv, NoRejections
                 PROVE  ListsPartitionTasks
      BY DEF ListsPartitionTasks, NoRejections
    <2>1. \A t \in Tasks : pc[t] \in Phase
      BY DEF MissionInv, TypeOK
    <2>2. \A t \in completedSet : t \in Tasks /\ pc[t] \in {"notifying", "done", "threw"}
      BY DEF MissionInv, ProgressInv, TypeOK
    <2>3. \A t \in Tasks : pc[t] = "notifying" => t \in completedSet
      BY DEF MissionInv, ProgressInv
    <2> QED
      BY <2>1, <2>2, <2>3 DEF ListsPartitionTasks, ListInv, Recording, Working, Phase
  <1> QED
    BY ListInvariant, <1>1, PTL

\* A mission whose reviews were not rejected reports success when every task
\* has passed verification, and only then.
THEOREM SuccessIsHonest == Spec => []SuccessIsReal
PROOF
  <1>1. MissionInv /\ ListInv => SuccessIsReal
    <2> SUFFICES ASSUME MissionInv, ListInv, NoRejections, mission = "returned"
                 PROVE  success <=> \A t \in Tasks : status[t] = "COMPLETED"
      BY DEF SuccessIsReal, NoRejections
    <2>1. \A t \in Tasks : pc[t] \in {"none", "done"}
      BY DEF MissionInv, EndInv
    <2>2. \A t \in Tasks : status[t] = "COMPLETED" <=> t \in completedSet
      BY <2>1 DEF ListInv
    <2>3. completedSet \subseteq Tasks
      BY DEF MissionInv, TypeOK
    <2> QED
      BY <2>2, <2>3 DEF ListInv
  <1> QED
    BY ListInvariant, <1>1, PTL

-----------------------------------------------------------------------------
(* The refinement.                                                         *)

\* The four lists of the abstract execution.
Waiting == {t \in Tasks : pc[t] = "none"}
UnderWayOrRecording == {t \in Tasks : pc[t] \in Working \cup {"completing", "failing"}}
GivenUp == {t \in Tasks : pc[t] \in {"done", "threw"}} \ completedSet
Cancelled == mission \in {"preparing", "looping", "threw"} /\ ~active

\* A step that moves t from one phase to another of the same list changes
\* none of them.
LEMMA SameList ==
  ASSUME MissionInv, NEW t \in Tasks, NEW phase \in Phase, pc' = [pc EXCEPT ![t] = phase],
         UNCHANGED completedSet,
         \/ /\ pc[t] \in Working \cup {"completing", "failing"}
            /\ phase \in Working \cup {"completing", "failing"}
         \/ pc[t] = "notifying" /\ phase \in {"done", "threw"}
  PROVE  UNCHANGED <<Waiting, UnderWayOrRecording, GivenUp>>
PROOF
  <1>1. \A u \in Tasks : pc'[u] = IF u = t THEN phase ELSE pc[u]
    BY DEF MissionInv, TypeOK
  <1>2. pc[t] = "notifying" => t \in completedSet
    BY DEF MissionInv, ProgressInv
  <1> QED
    BY <1>1, <1>2 DEF Waiting, UnderWayOrRecording, GivenUp, Working

\* createTaskWorktree() failed: the task is given up.
GivesUpByThrowing(t) ==
  /\ pc[t] \in Working
  /\ pc' = [pc EXCEPT ![t] = "threw"]

LEMMA WorkingSteps ==
  ASSUME MissionInv, NEW t \in Tasks,
         \/ BeginAttempt(t) \/ TaskExecuted(t) \/ TaskExecutionFails(t)
         \/ VerificationFails(t) \/ MergeFails(t) \/ TaskPasses(t)
         \/ NotificationThrows(t) \/ UnlockDependents(t)
  PROVE  /\ UNCHANGED <<completedSet, mission, active>>
         /\ \/ GivesUpByThrowing(t)
            \/ UNCHANGED <<Waiting, UnderWayOrRecording, GivenUp>>
PROOF
  <1>1. UNCHANGED <<completedSet, mission, active>>
    BY DEF BeginAttempt, TaskExecuted, TaskExecutionFails, VerificationFails, MergeFails,
           TaskPasses, UnlockDependents, NotificationThrows, TaskStep, missionVars, listVars
  <1>2. CASE UnlockDependents(t) \/ NotificationThrows(t)
    <2>1. /\ pc' = [pc EXCEPT ![t] = "done"] \/ pc' = [pc EXCEPT ![t] = "threw"]
          /\ pc[t] = "notifying" /\ {"done", "threw"} \subseteq Phase
      BY <1>2 DEF UnlockDependents, NotificationThrows, TaskStep, Phase
    <2>2. CASE pc' = [pc EXCEPT ![t] = "done"]
      BY <1>1, <2>1, <2>2, SameList
    <2>3. CASE pc' = [pc EXCEPT ![t] = "threw"]
      BY <1>1, <2>1, <2>3, SameList
    <2> QED
      BY <2>1, <2>2, <2>3
  <1>3. CASE \/ BeginAttempt(t) \/ TaskExecuted(t) \/ TaskExecutionFails(t)
             \/ VerificationFails(t) \/ MergeFails(t) \/ TaskPasses(t)
    <2>1. pc[t] \in Working
      BY <1>3 DEF BeginAttempt, TaskExecuted, TaskExecutionFails, VerificationFails,
                  MergeFails, TaskPasses, TaskStep, Working
    <2>2. \/ pc' = [pc EXCEPT ![t] = "threw"]
          \/ \E phase \in Working \cup {"completing", "failing"} :
               pc' = [pc EXCEPT ![t] = phase]
      BY <1>3 DEF BeginAttempt, TaskExecuted, TaskExecutionFails, VerificationFails,
                  MergeFails, TaskPasses, SleepOrGiveUp, GiveUp, Attempt, Working
    <2>3. Working \cup {"completing", "failing"} \subseteq Phase
      BY DEF Working, Phase
    <2> QED
      BY <1>1, <2>1, <2>2, <2>3, SameList DEF GivesUpByThrowing
  <1> QED
    BY <1>2, <1>3

\* An execution of a mission is an execution of its task graph, whatever is
\* cancelled, rejected or thrown: dependencies first, every task at most once,
\* within the limit, and not given up before nothing more can run.
THEOREM ImplementsGraphExecution == Spec => GraphExecution
PROOF
  <1>1. Init => Graph!Init
    BY DEF Init, Graph!Init, Working
  <1>2. ASSUME MissionInv, [Next]_vars
        PROVE  [Graph!Next]_(Graph!vars)
    <2> USE DEF Graph!vars
    <2> DEFINE Stutters == UNCHANGED <<Waiting, UnderWayOrRecording, GivenUp, completedSet,
                                       Cancelled, mission = "returned">>
    <2>1. ASSUME Stutters PROVE UNCHANGED Graph!vars
      BY <2>1 DEF Waiting, UnderWayOrRecording, GivenUp, Cancelled
    <2>2. CASE RunBatch
      <3>1. PICK ts \in SUBSET Tasks : ts = batch'
        BY <1>2, NextKeepsInv DEF MissionInv, TypeOK
      <3>2. Graph!Start(ts)
        <4>1. (\A t \in Tasks : pc[t] \in {"none", "done"}) /\ runningTaskIds = {} /\ queue # <<>>
          BY <1>2, <2>2, LoopTopIsQuiet DEF RunBatch, LoopContinues, NothingToDo
        <4>2. MissionInv'
          BY <1>2, NextKeepsInv
        <4>3. BatchSize \in 0..Len(queue) /\ BatchSize # 0 /\ batch' = {queue[i] : i \in 1..BatchSize}
          BY <1>2, <2>2, <4>1, BatchSizeFits DEF RunBatch, MissionInv
        <4>4. batch' # {} /\ batch' \subseteq Queued
          <5>1. 1 \in 1..BatchSize /\ 1..BatchSize \subseteq 1..Len(queue)
            BY <4>3, <1>2 DEF MissionInv, TypeOK
          <5> QED
            BY <4>3, <5>1 DEF Queued
        <4>5. \A t \in batch' : t \in Tasks /\ pc[t] = "none" /\ Deps[t] \subseteq completedSet
          <5>1. Queued \subseteq Tasks
            BY <1>2 DEF Queued, MissionInv, TypeOK
          <5> QED
            BY <1>2, <4>4, <5>1 DEF MissionInv, QueueInv
        <4>6. \A t \in Tasks : pc'[t] = IF t \in batch' THEN "starting" ELSE pc[t]
          BY <2>2 DEF RunBatch
        <4>7. UnderWayOrRecording = {} /\ UnderWayOrRecording' = batch'
          BY <4>1, <4>5, <4>6 DEF UnderWayOrRecording, Working
        <4>8. Cardinality(batch') <= MaxParallelWorkers
          BY <4>2 DEF MissionInv, BatchInv
        <4>9. Waiting' = Waiting \ batch' /\ GivenUp' = GivenUp /\ batch' \subseteq Waiting
          BY <2>2, <4>5, <4>6 DEF Waiting, GivenUp, RunBatch
        <4>10. active /\ mission = "looping" /\ UNCHANGED <<mission, active, completedSet>>
          BY <2>2 DEF RunBatch, AtLoopTop, LoopContinues, missionVars
        <4>11. /\ ts # {} /\ ts \subseteq {t \in Waiting : Deps[t] \subseteq completedSet}
               /\ UnderWayOrRecording \cup ts = ts /\ Cardinality(ts) <= MaxParallelWorkers
               /\ Waiting' = Waiting \ ts /\ UnderWayOrRecording' = UnderWayOrRecording \cup ts
          BY <3>1, <4>4, <4>5, <4>7, <4>8, <4>9
        <4>12. UnderWayOrRecording \cup ts \in
                 {us \in SUBSET Tasks : Cardinality(us) <= MaxParallelWorkers}
          BY <4>11
        <4> QED
          BY <4>9, <4>10, <4>11, <4>12
             DEF Graph!Start, Graph!Startable, Waiting, UnderWayOrRecording, GivenUp
      <3> QED
        BY <3>2 DEF Graph!Next
    <2>3. CASE EndMission
      <3>1. \A t \in Tasks : pc[t] \in {"none", "done"}
        BY <1>2, <2>3, LoopTopIsQuiet DEF EndMission
      <3>2. active => \A t \in Tasks : pc[t] = "none" => ~ Deps[t] \subseteq completedSet
        <4>1. CASE completedSet = Tasks
          BY <1>2, <4>1 DEF MissionInv, ProgressInv
        <4>2. CASE active /\ NothingToDo
          BY <1>2, <2>3, <4>2, NothingIsRunnable DEF EndMission
        <4> QED
          BY <2>3, <4>1, <4>2 DEF EndMission, LoopContinues
      <3>3. UNCHANGED <<pc, completedSet>> /\ mission = "looping" /\ mission' = "returned"
        BY <2>3 DEF EndMission, AtLoopTop, taskVars, listVars
      <3>4. Graph!Close
        BY <3>1, <3>2, <3>3 DEF Graph!Close, Graph!Startable, Working
      <3> QED
        BY <3>4 DEF Graph!Next
    <2>4. CASE CancelExecution
      <3>1. mission \in {"preparing", "looping"} /\ active /\ ~active'
        BY <1>2, <2>4 DEF CancelExecution, MissionInv, EndInv
      <3>2. Graph!Cancel
        BY <2>4, <3>1 DEF Graph!Cancel, CancelExecution, taskVars, listVars
      <3> QED
        BY <3>2 DEF Graph!Next
    <2>5. CASE ExecuteMissionPlan \/ PrepareQueue
      <3>1. Stutters
        BY <2>5 DEF ExecuteMissionPlan, PrepareQueue, taskVars, listVars, Waiting,
                    UnderWayOrRecording, GivenUp, Cancelled
      <3> QED
        BY <2>1, <3>1
    <2>6. CASE MissionThrows
      <3>1. mission = "looping" /\ mission' = "threw" /\ ~active' /\ UNCHANGED <<pc, completedSet>>
        BY <2>6 DEF MissionThrows, taskVars, listVars
      <3>2. Graph!Cancel
        BY <3>1 DEF Graph!Cancel
      <3> QED
        BY <3>2 DEF Graph!Next
    <2>7. ASSUME NEW t \in Tasks, Coroutine(t) PROVE [Graph!Next]_(Graph!vars)
      <3>1. CASE RecordCompletion(t)
        <4>1. \A u \in Tasks : pc'[u] = IF u = t THEN "notifying" ELSE pc[u]
          BY <1>2, <3>1 DEF RecordCompletion, MissionInv, TypeOK
        <4>2. /\ t \in UnderWayOrRecording /\ UnderWayOrRecording' = UnderWayOrRecording \ {t}
              /\ completedSet' = completedSet \cup {t} /\ Waiting' = Waiting
              /\ GivenUp' = GivenUp /\ UNCHANGED <<mission, active>>
          BY <1>2, <3>1, <4>1 DEF RecordCompletion, missionVars, Working, Waiting,
                                  UnderWayOrRecording, GivenUp
        <4>3. Graph!Complete(t)
          BY <4>2 DEF Graph!Complete, Waiting, UnderWayOrRecording, GivenUp
        <4> QED
          BY <4>3 DEF Graph!Next
      <3>2. CASE RecordFailure(t)
        <4>1. \A u \in Tasks : pc'[u] = IF u = t THEN "done" ELSE pc[u]
          BY <1>2, <3>2 DEF RecordFailure, MissionInv, TypeOK
        <4>2. t \notin completedSet
          BY <1>2, <3>2 DEF RecordFailure, MissionInv, ProgressInv
        <4>3. /\ t \in UnderWayOrRecording /\ UnderWayOrRecording' = UnderWayOrRecording \ {t}
              /\ GivenUp' = GivenUp \cup {t} /\ Waiting' = Waiting
              /\ UNCHANGED <<completedSet, mission, active>>
          BY <3>2, <4>1, <4>2 DEF RecordFailure, missionVars, Working, Waiting,
                                  UnderWayOrRecording, GivenUp
        <4>4. Graph!Fail(t)
          BY <4>3 DEF Graph!Fail, Waiting, UnderWayOrRecording, GivenUp
        <4> QED
          BY <4>4 DEF Graph!Next
      <3>3. ASSUME GivesUpByThrowing(t), UNCHANGED <<completedSet, mission, active>>
            PROVE  Graph!Fail(t)
        <4>1. \A u \in Tasks : pc'[u] = IF u = t THEN "threw" ELSE pc[u]
          BY <1>2, <3>3 DEF GivesUpByThrowing, MissionInv, TypeOK
        <4>2. t \notin completedSet
          BY <1>2, <3>3 DEF GivesUpByThrowing, MissionInv, ProgressInv, Working
        <4>3. /\ t \in UnderWayOrRecording /\ UnderWayOrRecording' = UnderWayOrRecording \ {t}
              /\ GivenUp' = GivenUp \cup {t} /\ Waiting' = Waiting
              /\ UNCHANGED <<completedSet, mission, active>>
          BY <3>3, <4>1, <4>2 DEF GivesUpByThrowing, Working, Waiting, UnderWayOrRecording, GivenUp
        <4> QED
          BY <4>3 DEF Graph!Fail, Waiting, UnderWayOrRecording, GivenUp
      <3>4. CASE \/ BeginAttempt(t) \/ TaskExecuted(t) \/ TaskExecutionFails(t)
                 \/ VerificationFails(t) \/ MergeFails(t) \/ TaskPasses(t)
                 \/ NotificationThrows(t) \/ UnlockDependents(t)
        <4>1. CASE GivesUpByThrowing(t)
          BY <1>2, <3>3, <3>4, <4>1, WorkingSteps DEF Graph!Next
        <4>2. CASE UNCHANGED <<Waiting, UnderWayOrRecording, GivenUp>>
          BY <1>2, <2>1, <3>4, <4>2, WorkingSteps DEF Cancelled
        <4> QED
          BY <1>2, <3>4, <4>1, <4>2, WorkingSteps
      <3> QED
        BY <2>7, <3>1, <3>2, <3>4 DEF Coroutine
    <2>8. ASSUME NEW t \in Tasks, Repairing(t) PROVE [Graph!Next]_(Graph!vars)
      <3>1. Stutters
        BY <2>8 DEF Repairing, RejectReview, RepairEnds, RecordRepair, missionVars, taskVars,
                    listVars, Waiting, UnderWayOrRecording, GivenUp, Cancelled
      <3> QED
        BY <2>1, <3>1
    <2>9. CASE UNCHANGED vars
      BY <2>1, <2>9 DEF vars, missionVars, taskVars, listVars, Waiting, UnderWayOrRecording,
                        GivenUp, Cancelled
    <2> QED
      BY <1>2, <2>2, <2>3, <2>4, <2>5, <2>6, <2>7, <2>8, <2>9 DEF Next, Loop
  <1> QED
    BY <1>1, <1>2, Invariant, PTL DEF Spec, GraphExecution, Graph!Spec

-----------------------------------------------------------------------------
(* The plugins that reason for the workers (RuntimePlugins).               *)

ProcessRecords == [state : {"none", "running", "killed", "gone"}, plugin : Plugins \cup {None}]

LoadTyped ==
  /\ registry \in [Ids -> Records \cup {None}]
  /\ capabilityMap \in [Capabilities -> SUBSET Ids]
  /\ up \in [Plugins -> BOOLEAN] /\ available \in [Plugins -> BOOLEAN]
  /\ assigned \in [Callers -> Ids \cup {None}]

RequestsTyped ==
  /\ table \in [Plugins -> [Callers -> 0..MaxCalls]]
  /\ calls \in [Callers -> 0..MaxCalls]
  /\ current \in [Callers -> {Idle} \cup [at : {"selected", "executing"}, plugin : Plugins]]
  /\ process \in [Processes -> ProcessRecords]
  /\ \A w \in Callers : current[w].at = "selected" => calls[w] < MaxCalls

\* A plugin is registered under its own id.
Enrolled == \A i \in Ids : registry[i] # None => IdOf(registry[i].plugin) = i

\* Processes that nothing excuses.
Unexposed == {c \in Processes : process[c].state = "running" /\ c \notin exposed}

\* While a plugin is on its way out it is down and has no such process; while
\* one is on its way in, no other is registered for its id.
ChangeInv ==
  \/ change = NoChange
  \/ /\ change \in [at : {"closing", "validating", "initializing", "unloading"},
                    plugin : Plugins, id : Ids]
     /\ change.id = IdOf(change.plugin)
     /\ change.at \in {"closing", "unloading"} =>
          /\ registry[change.id] # None
          /\ ~up[registry[change.id].plugin]
          /\ \A c \in Unexposed : process[c].plugin # registry[change.id].plugin
     /\ change.at \in {"validating", "initializing"} /\ registry[change.id] # None =>
          registry[change.id].plugin = change.plugin

\* Such a process belongs to the plugin that is registered, which has it in its
\* table; it is that of the worker's last call, under way, and the only one the
\* worker has.
Owned(c) ==
  /\ process[c].plugin \in Plugins
  /\ IsRegistered(process[c].plugin)
  /\ table[process[c].plugin][c[1]] = c[2]
  /\ calls[c[1]] = c[2]
  /\ current[c[1]].at = "executing" /\ current[c[1]].plugin = process[c].plugin
  /\ \A n \in 1..MaxCalls : n # c[2] => process[<<c[1], n>>].state \notin {"running", "killed"}

OwnedInv == \A c \in Unexposed : Owned(c)

PluginsInv == LoadTyped /\ RequestsTyped /\ Enrolled /\ ChangeInv /\ OwnedInv

LEMMA PluginsStart ==
  ASSUME PluginsInit PROVE PluginsInv
<1> USE DEF PluginsInit
<1>1. LoadTyped
  BY DEF LoadTyped
<1>2. Unexposed = {}
  BY DEF Unexposed
<1>3. process \in [Processes -> ProcessRecords]
  <2>1. [state |-> "none", plugin |-> None] \in ProcessRecords
    BY DEF ProcessRecords
  <2> QED  BY <2>1
<1>4. RequestsTyped
  <2>1. MaxCalls \in Nat
    BY PluginsAssumption
  <2> QED  BY <1>3, <2>1 DEF RequestsTyped, Idle
<1> QED  BY <1>1, <1>2, <1>4 DEF PluginsInv, Enrolled, ChangeInv, OwnedInv

\* register() and unregister().
LEMMA Registering ==
  ASSUME LoadTyped, Enrolled, NEW p \in Plugins, RegisterPlugin(p)
  PROVE  /\ registry' \in [Ids -> Records \cup {None}]
         /\ capabilityMap' \in [Capabilities -> SUBSET Ids]
         /\ Enrolled'
         /\ registry'[IdOf(p)] # None /\ registry'[IdOf(p)].plugin = p
         /\ \A i \in Ids : i # IdOf(p) => registry'[i] = registry[i]
<1>1. IdOf(p) \in Ids
  BY PluginsAssumption DEF IdOf
<1> DEFINE record == [plugin |-> p, enabled |-> TRUE]
<1>2. record \in Records /\ record.plugin = p
  BY DEF Records
<1>3. record # None
  BY <1>2, PluginsAssumption
<1>4. registry' = [registry EXCEPT ![IdOf(p)] = record]
  BY DEF RegisterPlugin
<1> HIDE DEF record
<1>5. registry' \in [Ids -> Records \cup {None}]
  BY <1>2, <1>4 DEF LoadTyped
<1>6. /\ registry'[IdOf(p)] = record
      /\ \A i \in Ids : i # IdOf(p) => registry'[i] = registry[i]
  BY <1>1, <1>4 DEF LoadTyped
<1>7. Enrolled'
  BY <1>2, <1>6 DEF Enrolled
<1>8. capabilityMap' \in [Capabilities -> SUBSET Ids]
  BY <1>1 DEF RegisterPlugin, LoadTyped
<1> QED  BY <1>2, <1>3, <1>5, <1>6, <1>7, <1>8

LEMMA Unregistering ==
  ASSUME LoadTyped, Enrolled, NEW i \in Ids, Unregister(i)
  PROVE  /\ registry' \in [Ids -> Records \cup {None}]
         /\ capabilityMap' \in [Capabilities -> SUBSET Ids]
         /\ Enrolled'
         /\ registry'[i] = None
         /\ \A j \in Ids : j # i => registry'[j] = registry[j]
<1>1. registry' \in [Ids -> Records \cup {None}]
  BY DEF Unregister, LoadTyped
<1>2. registry'[i] = None /\ \A j \in Ids : j # i => registry'[j] = registry[j]
  BY DEF Unregister, LoadTyped
<1>3. Enrolled'
  BY <1>2 DEF Enrolled
<1>4. capabilityMap' \in [Capabilities -> SUBSET Ids]
  BY DEF Unregister, LoadTyped
<1> QED  BY <1>1, <1>2, <1>3, <1>4

\* Where the requests stay, it is enough that no plugin with such a process
\* loses its registration.
LEMMA RequestsStay ==
  ASSUME LoadTyped, RequestsTyped, OwnedInv,
         UNCHANGED callVars,
         \A i \in Ids : \/ registry[i] = None
                        \/ \A c \in Unexposed : process[c].plugin # registry[i].plugin
                        \/ registry'[i] # None /\ registry'[i].plugin = registry[i].plugin
  PROVE  RequestsTyped' /\ OwnedInv' /\ Unexposed' = Unexposed
<1>1. UNCHANGED <<table, calls, current, process, exposed>>
  BY DEF callVars
<1>2. RequestsTyped'
  BY <1>1 DEF RequestsTyped
<1>3. Unexposed' = Unexposed
  BY <1>1 DEF Unexposed
<1>4. ASSUME NEW c \in Unexposed PROVE Owned(c)'
  <2>1. Owned(c)
    BY DEF OwnedInv
  <2>2. process[c].plugin \in Plugins
    BY <2>1 DEF Owned
  <2>3. IdOf(process[c].plugin) \in Ids
    BY <2>2, PluginsAssumption DEF IdOf
  <2>4. IsRegistered(process[c].plugin)'
    BY <1>1, <2>1, <2>3 DEF Owned, IsRegistered
  <2> QED  BY <1>1, <2>1, <2>4 DEF Owned
<1> QED  BY <1>2, <1>3, <1>4 DEF OwnedInv

\* shutdown() of a registered plugin: none of its processes is left over.
LEMMA ShuttingDown ==
  ASSUME LoadTyped, RequestsTyped, OwnedInv,
         NEW q \in Plugins, Shutdown(q), UNCHANGED <<registry, calls, current, exposed>>
  PROVE  /\ RequestsTyped' /\ OwnedInv'
         /\ up' \in [Plugins -> BOOLEAN] /\ ~up'[q]
         /\ \A c \in Unexposed' : process'[c].plugin # q
<1>1. /\ up' \in [Plugins -> BOOLEAN] /\ ~up'[q]
      /\ table' = [table EXCEPT ![q] = [w \in Callers |-> 0]]
  BY DEF Shutdown, LoadTyped
<1>2. /\ process' \in [Processes -> ProcessRecords]
      /\ \A c \in Processes :
           /\ process'[c] = process[c] \/ (process'[c].state = "killed" /\ process[c].state = "running")
           /\ table[q][c[1]] = c[2] => process'[c].state # "running"
  <2>1. process' = [c \in Processes |->
                      IF table[q][c[1]] = c[2] /\ process[c].state = "running"
                      THEN [process[c] EXCEPT !.state = "killed"] ELSE process[c]]
    BY DEF Shutdown
  <2>2. ASSUME NEW c \in Processes, process[c].state = "running"
        PROVE  /\ [process[c] EXCEPT !.state = "killed"] \in ProcessRecords
               /\ [process[c] EXCEPT !.state = "killed"].state = "killed"
    <3>1. process[c] \in [state : {"none", "running", "killed", "gone"}, plugin : Plugins \cup {None}]
      BY DEF RequestsTyped, ProcessRecords
    <3> QED  BY <3>1 DEF ProcessRecords
  <2>3. \A c \in Processes : process[c] \in ProcessRecords
    BY DEF RequestsTyped
  <2> DEFINE told(c) == [process[c] EXCEPT !.state = "killed"]
  <2>4. \A c \in Processes : process[c].state = "running" =>
          told(c) \in ProcessRecords /\ told(c).state = "killed"
    BY <2>2
  <2>5. process' = [c \in Processes |->
                      IF table[q][c[1]] = c[2] /\ process[c].state = "running" THEN told(c) ELSE process[c]]
    BY <2>1
  <2> HIDE DEF told
  <2>6. ASSUME NEW c \in Processes
        PROVE  /\ process'[c] \in ProcessRecords
               /\ process'[c] = process[c] \/ (process'[c].state = "killed" /\ process[c].state = "running")
               /\ table[q][c[1]] = c[2] => process'[c].state # "running"
    BY <2>3, <2>4, <2>5
  <2> QED  BY <2>5, <2>6
<1>3. RequestsTyped'
  <2>1. table' \in [Plugins -> [Callers -> 0..MaxCalls]]
    <3>1. [w \in Callers |-> 0] \in [Callers -> 0..MaxCalls]
      BY PluginsAssumption
    <3> QED  BY <1>1, <3>1 DEF RequestsTyped
  <2> QED  BY <1>2, <2>1 DEF RequestsTyped
<1>4. Unexposed' \subseteq Unexposed /\ \A c \in Unexposed' : process'[c] = process[c]
  BY <1>2 DEF Unexposed
<1>5. ASSUME NEW c \in Unexposed' PROVE process'[c].plugin # q /\ Owned(c)'
  <2>1. c \in Processes /\ process'[c] = process[c] /\ process'[c].state = "running"
    BY <1>4 DEF Unexposed
  <2>2. Owned(c)
    BY <1>4 DEF OwnedInv
  <2>3. process[c].plugin # q
    BY <1>2, <2>1, <2>2 DEF Owned
  <2>4. table'[process[c].plugin][c[1]] = c[2]
    <3>1. process[c].plugin \in Plugins
      BY <2>2 DEF Owned
    <3> QED  BY <1>1, <2>2, <2>3, <3>1 DEF RequestsTyped, Owned
  <2>5. \A n \in 1..MaxCalls : n # c[2] => process'[<<c[1], n>>].state \notin {"running", "killed"}
    <3> SUFFICES ASSUME NEW n \in 1..MaxCalls, n # c[2]
                 PROVE  process'[<<c[1], n>>].state \notin {"running", "killed"}
      OBVIOUS
    <3>1. <<c[1], n>> \in Processes
      BY <2>1 DEF Processes
    <3>2. process[<<c[1], n>>].state \notin {"running", "killed"}
      BY <2>2 DEF Owned
    <3> QED  BY <1>2, <3>1, <3>2
  <2> QED  BY <2>1, <2>2, <2>3, <2>4, <2>5 DEF Owned, IsRegistered
<1> QED  BY <1>1, <1>3, <1>5 DEF OwnedInv

LEMMA BeginLoadStep ==
  ASSUME PluginsInv, NEW p \in Plugins, BeginLoad(p)
  PROVE  PluginsInv'
<1> USE DEF PluginsInv
<1> DEFINE id == IdOf(p)  closing == registry[id] # None /\ registry[id].plugin # p
<1>1. id \in Ids
  BY PluginsAssumption DEF IdOf
<1>2. UNCHANGED <<registry, capabilityMap, available, assigned, calls, current, exposed>>
  BY DEF BeginLoad
<1>3. Enrolled'
  BY <1>2 DEF Enrolled
<1>4. CASE closing
  <2> DEFINE q == registry[id].plugin
  <2>1. q \in Plugins
    BY <1>1, <1>4 DEF LoadTyped, Records
  <2>2. Shutdown(q) /\ change' = [at |-> "closing", plugin |-> p, id |-> id]
    BY <1>4 DEF BeginLoad
  <2> HIDE DEF closing, id, q
  <2>3. /\ RequestsTyped' /\ OwnedInv'
        /\ up' \in [Plugins -> BOOLEAN] /\ ~up'[q]
        /\ \A c \in Unexposed' : process'[c].plugin # q
    BY <1>2, <2>1, <2>2, ShuttingDown
  <2>4. LoadTyped'
    BY <1>2, <2>3 DEF LoadTyped
  <2>5. ChangeInv'
    <3>1. /\ change'.at = "closing" /\ change'.plugin = p /\ change'.id = id
          /\ change' \in [at : {"closing", "validating", "initializing", "unloading"},
                          plugin : Plugins, id : Ids]
      BY <1>1, <2>2
    <3>2. registry'[change'.id] # None /\ registry'[change'.id].plugin = q
      BY <1>2, <1>4, <3>1 DEF closing, q
    <3> QED  BY <2>3, <3>1, <3>2 DEF ChangeInv, id
  <2> QED  BY <1>3, <2>3, <2>4, <2>5
<1>5. CASE ~closing
  <2>1. Validating(p) /\ UNCHANGED <<up, table, process>>
    BY <1>5 DEF BeginLoad
  <2>2. RequestsTyped' /\ OwnedInv' /\ Unexposed' = Unexposed
    BY <1>2, <2>1, RequestsStay DEF callVars
  <2>3. LoadTyped'
    BY <1>2, <2>1 DEF LoadTyped
  <2>4. ChangeInv'
    <3>1. change' = NoChange \/ change' = [at |-> "validating", plugin |-> p, id |-> id]
      BY <2>1 DEF Validating
    <3> QED  BY <1>1, <1>2, <1>5, <3>1 DEF ChangeInv, NoChange
  <2> QED  BY <1>3, <2>2, <2>3, <2>4
<1> QED  BY <1>4, <1>5

LEMMA ReplaceOtherStep ==
  ASSUME PluginsInv, ReplaceOther
  PROVE  PluginsInv'
<1> USE DEF PluginsInv
<1>1. /\ change.at = "closing" /\ change.plugin \in Plugins /\ change.id \in Ids
      /\ change.id = IdOf(change.plugin)
      /\ \A c \in Unexposed : process[c].plugin # registry[change.id].plugin
  BY DEF ReplaceOther, ChangeInv, NoChange
<1>2. Unregister(change.id) /\ UNCHANGED <<up, available, assigned>>
      /\ UNCHANGED callVars /\ Validating(change.plugin)
  BY DEF ReplaceOther
<1>3. /\ registry' \in [Ids -> Records \cup {None}]
      /\ capabilityMap' \in [Capabilities -> SUBSET Ids]
      /\ Enrolled'
      /\ registry'[change.id] = None
      /\ \A j \in Ids : j # change.id => registry'[j] = registry[j]
  BY <1>1, <1>2, Unregistering
<1>4. RequestsTyped' /\ OwnedInv'
  BY <1>1, <1>2, <1>3, RequestsStay
<1>5. LoadTyped'
  BY <1>2, <1>3 DEF LoadTyped
<1>6. ChangeInv'
  <2>1. \/ change' = NoChange
        \/ change' = [at |-> "validating", plugin |-> change.plugin, id |-> change.id]
    BY <1>1, <1>2 DEF Validating
  <2> QED  BY <1>1, <1>3, <2>1 DEF ChangeInv
<1> QED  BY <1>3, <1>4, <1>5, <1>6

LEMMA ValidatedStep ==
  ASSUME PluginsInv, Validated
  PROVE  PluginsInv'
<1> USE DEF PluginsInv
<1>1. /\ change.at = "validating" /\ change.plugin \in Plugins /\ change.id \in Ids
      /\ change.id = IdOf(change.plugin)
      /\ registry[change.id] # None => registry[change.id].plugin = change.plugin
  BY DEF Validated, ChangeInv, NoChange
<1>2. UNCHANGED <<registry, capabilityMap, assigned>> /\ UNCHANGED callVars
  BY DEF Validated
<1>3. RequestsTyped' /\ OwnedInv'
  BY <1>2, RequestsStay
<1>4. Enrolled'
  BY <1>2 DEF Enrolled
<1>5. up' \in [Plugins -> BOOLEAN] /\ available' \in [Plugins -> BOOLEAN]
  BY DEF Validated, Initialize, LoadTyped
<1>6. LoadTyped'
  BY <1>2, <1>5 DEF LoadTyped
<1>7. ChangeInv'
  <2>1. change' = NoChange \/ change' = [change EXCEPT !.at = "initializing"]
    BY DEF Validated
  <2>2. change' = NoChange
        \/ /\ change' \in [at : {"closing", "validating", "initializing", "unloading"},
                           plugin : Plugins, id : Ids]
           /\ change'.at = "initializing" /\ change'.plugin = change.plugin /\ change'.id = change.id
    BY <1>1, <2>1 DEF ChangeInv, NoChange
  <2> QED  BY <1>1, <1>2, <2>2 DEF ChangeInv
<1> QED  BY <1>3, <1>4, <1>6, <1>7

LEMMA InitializedStep ==
  ASSUME PluginsInv, Initialized
  PROVE  PluginsInv'
<1> USE DEF PluginsInv
<1>1. /\ change.plugin \in Plugins /\ change.id = IdOf(change.plugin)
      /\ registry[change.id] # None => registry[change.id].plugin = change.plugin
  BY DEF Initialized, ChangeInv, NoChange
<1>2. /\ UNCHANGED <<up, available, assigned>> /\ UNCHANGED callVars
      /\ change' = NoChange
  BY DEF Initialized
<1>3. ChangeInv'
  BY <1>2 DEF ChangeInv, NoChange
<1>4. CASE RegisterPlugin(change.plugin)
  <2>1. /\ registry' \in [Ids -> Records \cup {None}]
        /\ capabilityMap' \in [Capabilities -> SUBSET Ids]
        /\ Enrolled'
        /\ registry'[change.id] # None /\ registry'[change.id].plugin = change.plugin
        /\ \A i \in Ids : i # change.id => registry'[i] = registry[i]
    BY <1>1, <1>4, Registering
  <2>2. RequestsTyped' /\ OwnedInv'
    BY <1>1, <1>2, <2>1, RequestsStay
  <2>3. LoadTyped'
    BY <1>2, <2>1 DEF LoadTyped
  <2> QED  BY <1>3, <2>1, <2>2, <2>3
<1>5. CASE UNCHANGED <<registry, capabilityMap>>
  <2>1. RequestsTyped' /\ OwnedInv'
    BY <1>2, <1>5, RequestsStay
  <2>2. LoadTyped' /\ Enrolled'
    BY <1>2, <1>5 DEF LoadTyped, Enrolled
  <2> QED  BY <1>3, <2>1, <2>2
<1> QED  BY <1>4, <1>5 DEF Initialized

LEMMA UnloadStep ==
  ASSUME PluginsInv,
         EndUnload \/ \E i \in Ids : BeginUnload(i)
  PROVE  PluginsInv'
<1> USE DEF PluginsInv
<1>1. CASE EndUnload
  <2>1. /\ change.id \in Ids
        /\ \A c \in Unexposed : process[c].plugin # registry[change.id].plugin
    BY <1>1 DEF EndUnload, ChangeInv, NoChange
  <2>2. /\ Unregister(change.id) /\ change' = NoChange
        /\ UNCHANGED <<up, available, assigned>> /\ UNCHANGED callVars
    BY <1>1 DEF EndUnload
  <2>3. /\ registry' \in [Ids -> Records \cup {None}]
        /\ capabilityMap' \in [Capabilities -> SUBSET Ids]
        /\ Enrolled'
        /\ \A j \in Ids : j # change.id => registry'[j] = registry[j]
    BY <2>1, <2>2, Unregistering
  <2>4. RequestsTyped' /\ OwnedInv'
    BY <2>1, <2>2, <2>3, RequestsStay
  <2>5. LoadTyped' /\ ChangeInv'
    BY <2>2, <2>3 DEF LoadTyped, ChangeInv, NoChange
  <2> QED  BY <2>3, <2>4, <2>5
<1>2. ASSUME NEW i \in Ids, BeginUnload(i) PROVE PluginsInv'
  <2> DEFINE q == registry[i].plugin
  <2>1. q \in Plugins /\ IdOf(q) = i
    BY <1>2 DEF BeginUnload, LoadTyped, Enrolled, Records
  <2>2. /\ Shutdown(q) /\ change' = [at |-> "unloading", plugin |-> q, id |-> i]
        /\ registry[i] # None
        /\ UNCHANGED <<registry, capabilityMap, available, assigned, calls, current, exposed>>
    BY <1>2 DEF BeginUnload
  <2>3. /\ RequestsTyped' /\ OwnedInv'
        /\ up' \in [Plugins -> BOOLEAN] /\ ~up'[q]
        /\ \A c \in Unexposed' : process'[c].plugin # q
    <3> HIDE DEF q
    <3> QED  BY <2>1, <2>2, ShuttingDown
  <2>4. LoadTyped' /\ Enrolled'
    BY <2>2, <2>3 DEF LoadTyped, Enrolled
  <2>5. ChangeInv'
    BY <2>1, <2>2, <2>3 DEF ChangeInv
  <2> QED  BY <2>3, <2>4, <2>5
<1> QED  BY <1>1, <1>2

\* enable(), disable(), and the assignment of a provider.
LEMMA OperatorStep ==
  ASSUME PluginsInv,
         \/ \E i \in Ids, enabled \in BOOLEAN : SetEnabled(i, enabled)
         \/ \E w \in Callers, i \in Ids : Assign(w, i)
  PROVE  PluginsInv'
<1> USE DEF PluginsInv
<1>1. ASSUME NEW i \in Ids, NEW enabled \in BOOLEAN, SetEnabled(i, enabled) PROVE PluginsInv'
  <2>1. UNCHANGED <<capabilityMap, up, available, change, assigned>> /\ UNCHANGED callVars
    BY <1>1 DEF SetEnabled
  <2>2. registry[i] \in Records
    BY <1>1 DEF SetEnabled, LoadTyped
  <2>3. /\ [registry[i] EXCEPT !.enabled = enabled] \in Records
        /\ [registry[i] EXCEPT !.enabled = enabled].plugin = registry[i].plugin
    BY <2>2 DEF Records
  <2>4. registry' = [registry EXCEPT ![i] = [registry[i] EXCEPT !.enabled = enabled]]
    BY <1>1 DEF SetEnabled
  <2>5. /\ registry' \in [Ids -> Records \cup {None}]
        /\ \A j \in Ids : registry[j] # None => registry'[j] # None /\ registry'[j].plugin = registry[j].plugin
        /\ \A j \in Ids : registry[j] = None => registry'[j] = None
    <3>1. [registry[i] EXCEPT !.enabled = enabled] # None
      BY <2>3, PluginsAssumption
    <3>2. registry[i] # None
      BY <1>1 DEF SetEnabled
    <3> DEFINE record == [registry[i] EXCEPT !.enabled = enabled]
    <3>3. record # None /\ record \in Records /\ record.plugin = registry[i].plugin
      BY <2>3, <3>1
    <3>4. registry' = [registry EXCEPT ![i] = record]
      BY <2>4
    <3> HIDE DEF record
    <3> QED  BY <3>2, <3>3, <3>4 DEF LoadTyped
  <2>6. RequestsTyped' /\ OwnedInv' /\ Unexposed' = Unexposed
    BY <2>1, <2>5, RequestsStay
  <2>7. LoadTyped' /\ Enrolled'
    BY <2>1, <2>5 DEF LoadTyped, Enrolled
  <2>8. ChangeInv'
    BY <2>1, <2>5, <2>6 DEF ChangeInv, callVars, NoChange
  <2> QED  BY <2>6, <2>7, <2>8
<1>2. ASSUME NEW w \in Callers, NEW i \in Ids, Assign(w, i) PROVE PluginsInv'
  <2>1. /\ assigned' = [assigned EXCEPT ![w] = i]
        /\ UNCHANGED loadVars /\ UNCHANGED callVars
    BY <1>2 DEF Assign
  <2>2. UNCHANGED <<registry, capabilityMap, up, available, change>>
    BY <2>1 DEF loadVars
  <2>3. RequestsTyped' /\ OwnedInv' /\ Unexposed' = Unexposed
    BY <2>1, <2>2, RequestsStay
  <2>4. LoadTyped' /\ Enrolled'
    BY <2>1, <2>2 DEF LoadTyped, Enrolled
  <2>5. ChangeInv'
    BY <2>1, <2>2, <2>3 DEF ChangeInv, callVars, NoChange
  <2> QED  BY <2>3, <2>4, <2>5
<1> QED  BY <1>1, <1>2

\* A change under way does not mind requests, unless a plugin on its way out
\* were to start a process.
LEMMA ChangeStays ==
  ASSUME PluginsInv, UNCHANGED loadVars, UNCHANGED assigned,
         \A c \in Unexposed' : \/ c \in Unexposed /\ process'[c].plugin = process[c].plugin
                               \/ up[process'[c].plugin]
  PROVE  LoadTyped' /\ Enrolled' /\ ChangeInv'
<1>1. UNCHANGED <<registry, capabilityMap, up, available, change>>
  BY DEF loadVars
<1>2. LoadTyped' /\ Enrolled'
  BY <1>1 DEF PluginsInv, LoadTyped, Enrolled
<1>3. ChangeInv'
  <2>1. CASE change = NoChange
    BY <1>1, <2>1 DEF ChangeInv, NoChange
  <2>2. CASE change # NoChange
    <3>1. ASSUME change.at \in {"closing", "unloading"}, NEW c \in Unexposed'
          PROVE  process'[c].plugin # registry[change.id].plugin
      BY <2>2, <3>1 DEF PluginsInv, ChangeInv
    <3> QED  BY <1>1, <2>2, <3>1 DEF PluginsInv, ChangeInv, NoChange
  <2> QED  BY <2>1, <2>2
<1> QED  BY <1>2, <1>3

\* A selection comes out with a plugin.
LEMMA SelectableIsAPlugin ==
  ASSUME LoadTyped, NEW w \in Callers
  PROVE  Selectable(w) \subseteq Plugins
<1>1. \A i \in Ids : GetPlugin(i) \in Plugins \cup {None}
  BY DEF GetPlugin, LoadTyped, Records
<1>2. assigned[w] \in Ids \cup {None} /\ DefaultPluginId \in Ids
  BY PluginsAssumption DEF LoadTyped
<1>3. GetPluginsByCapability("Reasoning") \subseteq Plugins
  <2>1. capabilityMap["Reasoning"] \subseteq Ids
    BY DEF LoadTyped, Capabilities
  <2> QED  BY <1>1, <2>1 DEF GetPluginsByCapability
<1> QED  BY <1>1, <1>2, <1>3 DEF Selectable

LEMMA SelectStep ==
  ASSUME PluginsInv, NEW w \in Callers, SelectPlugin(w)
  PROVE  PluginsInv'
<1> USE DEF PluginsInv
<1>1. /\ current[w] = Idle /\ calls[w] < MaxCalls
      /\ UNCHANGED loadVars /\ UNCHANGED <<assigned, table, calls, process, exposed>>
  BY DEF SelectPlugin
<1>2. PICK p \in Plugins : current' = [current EXCEPT ![w] = [at |-> "selected", plugin |-> p]]
  BY SelectableIsAPlugin DEF SelectPlugin
<1>3. Unexposed' = Unexposed
  BY <1>1 DEF Unexposed
<1>4. LoadTyped' /\ Enrolled' /\ ChangeInv'
  BY <1>1, <1>3, ChangeStays
<1>5. /\ current' \in [Callers -> {Idle} \cup [at : {"selected", "executing"}, plugin : Plugins]]
      /\ \A v \in Callers : v # w => current'[v] = current[v]
  BY <1>2 DEF RequestsTyped
<1>6. RequestsTyped'
  BY <1>1, <1>5 DEF RequestsTyped
<1>7. ASSUME NEW c \in Unexposed PROVE Owned(c)'
  <2>1. Owned(c) /\ c[1] \in Callers
    BY DEF OwnedInv, Unexposed, Processes
  <2>2. c[1] # w
    BY <1>1, <2>1 DEF Owned, Idle
  <2>3. UNCHANGED registry
    BY <1>1 DEF loadVars
  <2> QED  BY <1>1, <1>5, <2>1, <2>2, <2>3 DEF Owned, IsRegistered
<1> QED  BY <1>3, <1>4, <1>6, <1>7 DEF OwnedInv

\* What one worker's request does leaves those of the others as they are.
LEMMA OthersStay ==
  ASSUME PluginsInv, NEW w \in Callers, UNCHANGED registry,
         \A v \in Callers : v # w =>
            /\ calls'[v] = calls[v] /\ current'[v] = current[v]
            /\ \A p \in Plugins : table'[p][v] = table[p][v]
            /\ \A n \in 1..MaxCalls :
                 process'[<<v, n>>] = process[<<v, n>>] /\ (<<v, n>> \in exposed' <=> <<v, n>> \in exposed),
         NEW c \in Unexposed', c[1] # w
  PROVE  c \in Unexposed /\ process'[c].plugin = process[c].plugin /\ Owned(c)'
<1>1. PICK v \in Callers, n \in 1..MaxCalls : c = <<v, n>>
  BY DEF Unexposed, Processes
<1>2. v # w
  BY <1>1
<1>3. c \in Unexposed /\ process'[c] = process[c]
  BY <1>1, <1>2 DEF Unexposed
<1>4. Owned(c) /\ process[c].plugin \in Plugins
  BY <1>3 DEF PluginsInv, OwnedInv, Owned
<1> QED  BY <1>1, <1>2, <1>3, <1>4 DEF Owned, IsRegistered

LEMMA ExecuteStep ==
  ASSUME PluginsInv, NEW w \in Callers, Execute(w)
  PROVE  PluginsInv'
<1> USE DEF PluginsInv
<1> DEFINE p == current[w].plugin  n == calls[w] + 1  c == <<w, n>>
<1>1. /\ current[w].at = "selected"
      /\ p \in Plugins /\ n \in 1..MaxCalls
      /\ current[w] \in [at : {"selected", "executing"}, plugin : Plugins]
  BY PluginsAssumption DEF Execute, RequestsTyped, Idle
<1>2. c \in Processes
  BY <1>1 DEF Processes
<1>3. /\ calls' = [calls EXCEPT ![w] = n]
      /\ UNCHANGED loadVars /\ UNCHANGED <<assigned, registry, up>>
  BY DEF Execute, loadVars
<1>4. CASE ~available[p]
  <2>1. current' = [current EXCEPT ![w] = Idle] /\ UNCHANGED <<process, table, exposed>>
    BY <1>4 DEF Execute
  <2> HIDE DEF p, n, c
  <2>2. Unexposed' = Unexposed
    BY <2>1 DEF Unexposed
  <2>3. LoadTyped' /\ Enrolled' /\ ChangeInv'
    BY <1>3, <2>1, <2>2, ChangeStays
  <2>4. RequestsTyped'
    <3>1. calls' \in [Callers -> 0..MaxCalls]
      BY <1>1, <1>3 DEF RequestsTyped
    <3>2. /\ current' \in [Callers -> {Idle} \cup [at : {"selected", "executing"}, plugin : Plugins]]
          /\ current'[w].at = "idle"
      BY <2>1 DEF RequestsTyped, Idle
    <3>3. \A v \in Callers : v # w => current'[v] = current[v] /\ calls'[v] = calls[v]
      BY <1>3, <2>1 DEF RequestsTyped
    <3> QED  BY <2>1, <3>1, <3>2, <3>3 DEF RequestsTyped
  <2>5. ASSUME NEW d \in Unexposed' PROVE Owned(d)'
    <3>1. Owned(d) /\ d[1] \in Callers
      BY <2>2 DEF OwnedInv, Unexposed, Processes
    <3>2. d[1] # w
      BY <1>1, <3>1 DEF Owned
    <3>3. calls'[d[1]] = calls[d[1]] /\ current'[d[1]] = current[d[1]]
      BY <1>3, <2>1, <3>1, <3>2 DEF RequestsTyped
    <3> QED  BY <1>3, <2>1, <3>1, <3>3 DEF Owned, IsRegistered
  <2> QED  BY <2>3, <2>4, <2>5 DEF OwnedInv
<1>5. CASE available[p]
  <2>1. /\ process' = [process EXCEPT ![c] = [state |-> "running", plugin |-> p]]
        /\ table' = [table EXCEPT ![p] = [table[p] EXCEPT ![w] = n]]
        /\ current' = [current EXCEPT ![w] = [current[w] EXCEPT !.at = "executing"]]
        /\ exposed' = exposed \cup (IF InUse(p) /\ ~Lingers(w) THEN {} ELSE {c})
    BY <1>5 DEF Execute
  <2>2. [current[w] EXCEPT !.at = "executing"] = [at |-> "executing", plugin |-> p]
    BY <1>1
  <2>3. current' = [current EXCEPT ![w] = [at |-> "executing", plugin |-> p]]
    BY <2>1, <2>2
  <2> HIDE DEF p, n, c
  <2>4. RequestsTyped'
    <3>1. calls' \in [Callers -> 0..MaxCalls]
      BY <1>1, <1>3 DEF RequestsTyped
    <3>2. current' \in [Callers -> {Idle} \cup [at : {"selected", "executing"}, plugin : Plugins]]
      BY <1>1, <2>3 DEF RequestsTyped
    <3>3. process' \in [Processes -> ProcessRecords]
      <4>1. [state |-> "running", plugin |-> p] \in ProcessRecords
        BY <1>1 DEF ProcessRecords
      <4> QED  BY <2>1, <4>1 DEF RequestsTyped
    <3>4. table' \in [Plugins -> [Callers -> 0..MaxCalls]]
      <4>1. [table[p] EXCEPT ![w] = n] \in [Callers -> 0..MaxCalls]
        BY <1>1 DEF RequestsTyped
      <4> QED  BY <2>1, <4>1 DEF RequestsTyped
    <3>5. ASSUME NEW v \in Callers, current'[v].at = "selected" PROVE calls'[v] < MaxCalls
      <4>1. v # w
        BY <2>3, <3>5 DEF RequestsTyped
      <4>2. current'[v] = current[v] /\ calls'[v] = calls[v]
        BY <1>3, <2>3, <4>1 DEF RequestsTyped
      <4> QED  BY <3>5, <4>2 DEF RequestsTyped
    <3> QED  BY <3>1, <3>2, <3>3, <3>4, <3>5 DEF RequestsTyped
  <2>5. ASSUME NEW v \in Callers, v # w
        PROVE  /\ calls'[v] = calls[v] /\ current'[v] = current[v]
               /\ \A q \in Plugins : table'[q][v] = table[q][v]
               /\ \A k \in 1..MaxCalls :
                    process'[<<v, k>>] = process[<<v, k>>] /\ (<<v, k>> \in exposed' <=> <<v, k>> \in exposed)
    <3>1. calls'[v] = calls[v] /\ current'[v] = current[v]
      BY <1>3, <2>3, <2>5 DEF RequestsTyped
    <3>2. \A q \in Plugins : table'[q][v] = table[q][v]
      BY <1>1, <2>1, <2>5 DEF RequestsTyped
    <3>3. ASSUME NEW k \in 1..MaxCalls
          PROVE  process'[<<v, k>>] = process[<<v, k>>] /\ (<<v, k>> \in exposed' <=> <<v, k>> \in exposed)
      <4>1. <<v, k>> \in Processes /\ <<v, k>> # c
        BY <2>5 DEF Processes, c
      <4> QED  BY <2>1, <4>1 DEF RequestsTyped
    <3> QED  BY <3>1, <3>2, <3>3
  <2>6. ASSUME NEW d \in Unexposed', d[1] = w
        PROVE  d = c /\ InUse(p) /\ ~Lingers(w)
    <3>1. d \in Processes
      BY DEF Unexposed
    <3>2. d = c
      <4> SUFFICES ASSUME d # c PROVE FALSE
        OBVIOUS
      <4>1. process'[d] = process[d] /\ d \notin exposed
        BY <2>1, <3>1 DEF Unexposed, RequestsTyped
      <4>2. d \in Unexposed
        BY <3>1, <4>1 DEF Unexposed
      <4>3. Owned(d)
        BY <4>2 DEF OwnedInv
      <4> QED  BY <1>1, <2>6, <4>3 DEF Owned
    <3> QED  BY <2>1, <3>2 DEF Unexposed
  <2>7. ASSUME NEW d \in Unexposed', d[1] = w PROVE Owned(d)' /\ up[process'[d].plugin]
    <3>1. d = c /\ InUse(p) /\ ~Lingers(w)
      BY <2>6, <2>7
    <3>2. process'[c] = [state |-> "running", plugin |-> p]
      BY <1>2, <2>1 DEF RequestsTyped
    <3>3. process'[c].plugin = p
      BY <3>2
    <3>4. /\ table'[p][w] = n /\ calls'[w] = n
          /\ current'[w].at = "executing" /\ current'[w].plugin = p
      BY <1>1, <1>3, <2>1, <2>3 DEF RequestsTyped
    <3>5. ASSUME NEW k \in 1..MaxCalls, k # n
          PROVE  process'[<<w, k>>].state \notin {"running", "killed"}
      <4>1. <<w, k>> \in Processes /\ <<w, k>> # c
        BY <3>5 DEF Processes, c
      <4>2. process'[<<w, k>>] = process[<<w, k>>]
        BY <2>1, <4>1 DEF RequestsTyped
      <4> QED  BY <3>1, <4>2 DEF Lingers
    <3>6. registry'[IdOf(p)] # None /\ registry'[IdOf(p)].plugin = p
      BY <1>3, <3>1 DEF InUse, IsRegistered
    <3>7. c[1] = w /\ c[2] = n
      BY DEF c
    <3>8. process'[d].plugin = p /\ d[1] = w /\ d[2] = n /\ up[p]
      BY <3>1, <3>3, <3>7 DEF InUse
    <3>9. Owned(d)'
      BY <1>1, <3>4, <3>5, <3>6, <3>8 DEF Owned, IsRegistered, IdOf
    <3> QED  BY <3>8, <3>9
  <2>8. ASSUME NEW d \in Unexposed', d[1] # w
        PROVE  d \in Unexposed /\ process'[d].plugin = process[d].plugin /\ Owned(d)'
    BY <1>3, <2>5, <2>8, OthersStay
  <2>9. LoadTyped' /\ Enrolled' /\ ChangeInv'
    BY <1>3, <2>7, <2>8, ChangeStays
  <2> QED  BY <2>4, <2>7, <2>8, <2>9 DEF OwnedInv
<1> QED  BY <1>4, <1>5

LEMMA EndsStep ==
  ASSUME PluginsInv, NEW c \in Processes, Ends(c)
  PROVE  PluginsInv'
<1> USE DEF PluginsInv
<1>1. PICK w \in Callers, n \in 1..MaxCalls : c = <<w, n>>
  BY DEF Processes
<1> DEFINE p == process[c].plugin  gone == [state |-> "gone", plugin |-> None]
           back == IF current[w].at = "executing" THEN Idle ELSE current[w]
<1>2. /\ process[c].state \in {"running", "killed"}
      /\ process' = [process EXCEPT ![c] = gone]
      /\ exposed' = exposed \ {c}
      /\ table' = [table EXCEPT ![p] = [table[p] EXCEPT ![w] = 0]]
      /\ current' = [current EXCEPT ![w] = back]
      /\ UNCHANGED loadVars /\ UNCHANGED <<assigned, calls, registry>>
  BY <1>1 DEF Ends, loadVars
<1>3. gone \in ProcessRecords /\ gone.state = "gone"
  BY DEF ProcessRecords
<1>4. /\ back \in {Idle} \cup [at : {"selected", "executing"}, plugin : Plugins]
      /\ back.at = "selected" => current[w].at = "selected"
  BY DEF RequestsTyped, Idle
<1> HIDE DEF p, gone, back
<1>5. RequestsTyped'
  <2>1. process' \in [Processes -> ProcessRecords]
    BY <1>2, <1>3 DEF RequestsTyped
  <2>2. table' \in [Plugins -> [Callers -> 0..MaxCalls]]
    <3>1. p \in Plugins => [table[p] EXCEPT ![w] = 0] \in [Callers -> 0..MaxCalls]
      BY PluginsAssumption DEF RequestsTyped
    <3> QED  BY <1>2, <3>1 DEF RequestsTyped
  <2>3. current' \in [Callers -> {Idle} \cup [at : {"selected", "executing"}, plugin : Plugins]]
    BY <1>2, <1>4 DEF RequestsTyped
  <2>4. \A v \in Callers : current'[v].at = "selected" => current[v].at = "selected"
    BY <1>2, <1>4 DEF RequestsTyped
  <2> QED  BY <1>2, <2>1, <2>2, <2>3, <2>4 DEF RequestsTyped
<1>6. ASSUME NEW v \in Callers, v # w
      PROVE  /\ calls'[v] = calls[v] /\ current'[v] = current[v]
             /\ \A q \in Plugins : table'[q][v] = table[q][v]
             /\ \A k \in 1..MaxCalls :
                  process'[<<v, k>>] = process[<<v, k>>] /\ (<<v, k>> \in exposed' <=> <<v, k>> \in exposed)
  <2>1. calls'[v] = calls[v] /\ current'[v] = current[v]
    BY <1>2, <1>6 DEF RequestsTyped
  <2>2. \A q \in Plugins : table'[q][v] = table[q][v]
    BY <1>2, <1>6 DEF RequestsTyped
  <2>3. ASSUME NEW k \in 1..MaxCalls
        PROVE  process'[<<v, k>>] = process[<<v, k>>] /\ (<<v, k>> \in exposed' <=> <<v, k>> \in exposed)
    <3>1. <<v, k>> \in Processes /\ <<v, k>> # c
      BY <1>1, <1>6 DEF Processes
    <3> QED  BY <1>2, <3>1 DEF RequestsTyped
  <2> QED  BY <2>1, <2>2, <2>3
<1>7. ASSUME NEW d \in Unexposed' PROVE d[1] # w
  <2> SUFFICES ASSUME d[1] = w PROVE FALSE
    OBVIOUS
  <2>1. d \in Processes /\ d # c
    BY <1>2, <1>3 DEF Unexposed, RequestsTyped
  <2>2. d \in Unexposed
    BY <1>2, <2>1 DEF Unexposed, RequestsTyped
  <2>3. Owned(d)
    BY <2>2 DEF OwnedInv
  <2>4. d[2] # n
    BY <1>1, <2>1 DEF Processes
  <2> QED  BY <1>1, <1>2, <2>3, <2>4 DEF Owned
<1>8. ASSUME NEW d \in Unexposed'
      PROVE  d \in Unexposed /\ process'[d].plugin = process[d].plugin /\ Owned(d)'
  BY <1>2, <1>6, <1>7, OthersStay
<1>9. LoadTyped' /\ Enrolled' /\ ChangeInv'
  BY <1>2, <1>8, ChangeStays
<1> QED  BY <1>5, <1>8, <1>9 DEF OwnedInv

LEMMA CancelStep ==
  ASSUME PluginsInv, NEW w \in Callers, CancelForWorker(w)
  PROVE  PluginsInv'
<1> USE DEF PluginsInv
<1> DEFINE p == GetPlugin(IdOf(current[w].plugin))
           found == p # None /\ table[p][w] # 0
           c == <<w, table[p][w]>>
<1>1. /\ current[w].at = "executing"
      /\ current' = [current EXCEPT ![w] = Idle]
      /\ UNCHANGED loadVars /\ UNCHANGED <<assigned, calls, registry>>
  BY DEF CancelForWorker, loadVars
<1>2. current[w].plugin \in Plugins
  BY <1>1 DEF RequestsTyped, Idle
<1>3. p \in Plugins \cup {None}
  BY <1>2, PluginsAssumption DEF GetPlugin, IdOf, LoadTyped, Records
<1>4. \/ /\ found
         /\ process' = [process EXCEPT ![c] = [process[c] EXCEPT !.state = "killed"]]
         /\ table' = [table EXCEPT ![p] = [table[p] EXCEPT ![w] = 0]]
         /\ exposed' = exposed
      \/ ~found /\ exposed' = exposed \cup {<<w, calls[w]>>} /\ UNCHANGED <<process, table>>
  BY DEF CancelForWorker
\* The last call of the worker is the one the plugin has in its table.
<1>5. ASSUME NEW d \in Unexposed, d[1] = w PROVE d = <<w, calls[w]>> /\ (found => d = c)
  <2>1. Owned(d) /\ d = <<d[1], d[2]>>
    BY DEF OwnedInv, Unexposed, Processes
  <2>2. d = <<w, calls[w]>>
    BY <1>5, <2>1 DEF Owned
  <2>3. ASSUME found PROVE d = c
    <3>1. p = current[w].plugin
      BY <1>5, <2>1, <2>3 DEF Owned, IsRegistered, GetPlugin
    <3> QED  BY <1>5, <2>1, <3>1 DEF Owned
  <2> QED  BY <2>2, <2>3
<1>6. CASE found
  <2>1. p \in Plugins /\ table[p][w] \in 1..MaxCalls
    BY <1>2, <1>3, <1>6, PluginsAssumption DEF RequestsTyped
  <2>2. c \in Processes
    BY <2>1 DEF Processes
  <2> DEFINE told == [process[c] EXCEPT !.state = "killed"]
  <2>3. told \in ProcessRecords /\ told.state = "killed"
    <3>1. process[c] \in [state : {"none", "running", "killed", "gone"}, plugin : Plugins \cup {None}]
      BY <2>2 DEF RequestsTyped, ProcessRecords
    <3> QED  BY <3>1 DEF ProcessRecords
  <2>4. /\ process' = [process EXCEPT ![c] = told]
        /\ table' = [table EXCEPT ![p] = [table[p] EXCEPT ![w] = 0]]
        /\ exposed' = exposed
    BY <1>4, <1>6
  <2> HIDE DEF told, found, p
  <2>5. RequestsTyped'
    <3>1. process' \in [Processes -> ProcessRecords]
      BY <2>3, <2>4 DEF RequestsTyped
    <3>2. table' \in [Plugins -> [Callers -> 0..MaxCalls]]
      <4>1. [table[p] EXCEPT ![w] = 0] \in [Callers -> 0..MaxCalls]
        BY <2>1, PluginsAssumption DEF RequestsTyped
      <4> QED  BY <2>4, <4>1 DEF RequestsTyped
    <3>3. current' \in [Callers -> {Idle} \cup [at : {"selected", "executing"}, plugin : Plugins]]
      BY <1>1 DEF RequestsTyped
    <3>4. \A v \in Callers : current'[v].at = "selected" => current[v].at = "selected"
      BY <1>1 DEF RequestsTyped, Idle
    <3> QED  BY <1>1, <3>1, <3>2, <3>3, <3>4 DEF RequestsTyped
  <2>6. ASSUME NEW v \in Callers, v # w
        PROVE  /\ calls'[v] = calls[v] /\ current'[v] = current[v]
               /\ \A q \in Plugins : table'[q][v] = table[q][v]
               /\ \A k \in 1..MaxCalls :
                    process'[<<v, k>>] = process[<<v, k>>] /\ (<<v, k>> \in exposed' <=> <<v, k>> \in exposed)
    <3>1. calls'[v] = calls[v] /\ current'[v] = current[v]
      BY <1>1, <2>6 DEF RequestsTyped
    <3>2. \A q \in Plugins : table'[q][v] = table[q][v]
      BY <2>4, <2>6 DEF RequestsTyped
    <3>3. ASSUME NEW k \in 1..MaxCalls
          PROVE  process'[<<v, k>>] = process[<<v, k>>] /\ (<<v, k>> \in exposed' <=> <<v, k>> \in exposed)
      <4>1. <<v, k>> \in Processes /\ <<v, k>> # c
        BY <2>6 DEF Processes
      <4> QED  BY <2>4, <4>1 DEF RequestsTyped
    <3> QED  BY <3>1, <3>2, <3>3
  <2>7. ASSUME NEW d \in Unexposed' PROVE d[1] # w
    <3> SUFFICES ASSUME d[1] = w PROVE FALSE
      OBVIOUS
    <3>1. d \in Processes /\ d # c
      BY <2>2, <2>3, <2>4 DEF Unexposed, RequestsTyped
    <3>2. d \in Unexposed
      BY <2>4, <3>1 DEF Unexposed, RequestsTyped
    <3> QED  BY <1>5, <1>6, <3>1, <3>2
  <2> HIDE DEF c
  <2>8. ASSUME NEW d \in Unexposed'
        PROVE  d \in Unexposed /\ process'[d].plugin = process[d].plugin /\ Owned(d)'
    BY <1>1, <2>6, <2>7, OthersStay
  <2>9. LoadTyped' /\ Enrolled' /\ ChangeInv'
    BY <1>1, <2>8, ChangeStays
  <2> QED  BY <2>5, <2>8, <2>9 DEF OwnedInv
<1>7. CASE ~found
  <2>1. exposed' = exposed \cup {<<w, calls[w]>>} /\ UNCHANGED <<process, table>>
    BY <1>4, <1>7
  <2> HIDE DEF found, c, p
  <2>2. RequestsTyped'
    <3>1. current' \in [Callers -> {Idle} \cup [at : {"selected", "executing"}, plugin : Plugins]]
      BY <1>1 DEF RequestsTyped
    <3>2. \A v \in Callers : current'[v].at = "selected" => current[v].at = "selected"
      BY <1>1 DEF RequestsTyped, Idle
    <3> QED  BY <1>1, <2>1, <3>1, <3>2 DEF RequestsTyped
  <2>3. ASSUME NEW d \in Unexposed' PROVE d[1] # w
    <3>1. d \in Unexposed /\ d # <<w, calls[w]>>
      BY <2>1 DEF Unexposed
    <3> QED  BY <1>5, <3>1
  <2>4. ASSUME NEW v \in Callers, v # w
        PROVE  /\ calls'[v] = calls[v] /\ current'[v] = current[v]
               /\ \A q \in Plugins : table'[q][v] = table[q][v]
               /\ \A k \in 1..MaxCalls :
                    process'[<<v, k>>] = process[<<v, k>>] /\ (<<v, k>> \in exposed' <=> <<v, k>> \in exposed)
    BY <1>1, <2>1, <2>4 DEF RequestsTyped
  <2>5. ASSUME NEW d \in Unexposed'
        PROVE  d \in Unexposed /\ process'[d].plugin = process[d].plugin /\ Owned(d)'
    BY <1>1, <2>3, <2>4, OthersStay
  <2>6. LoadTyped' /\ Enrolled' /\ ChangeInv'
    BY <1>1, <2>5, ChangeStays
  <2> QED  BY <2>2, <2>5, <2>6 DEF OwnedInv
<1> QED  BY <1>6, <1>7

LEMMA PluginsStep ==
  ASSUME PluginsInv, [PluginsNext]_pluginVars
  PROVE  PluginsInv'
<1>1. CASE UNCHANGED pluginVars
  <2> QED  BY <1>1 DEF pluginVars, PluginsInv, LoadTyped, RequestsTyped, Enrolled, ChangeInv,
                 OwnedInv, Owned, Unexposed, IsRegistered, NoChange
<1>2. CASE PluginsNext
  BY <1>2, BeginLoadStep, ReplaceOtherStep, ValidatedStep, InitializedStep, UnloadStep, OperatorStep,
     SelectStep, ExecuteStep, CancelStep, EndsStep DEF PluginsNext
<1> QED  BY <1>1, <1>2

\* No process is orphaned: what runs belongs to the plugin that is registered
\* for its id, or is one of those that are excused (ProcessesAreOwned).
THEOREM NoProcessIsOrphaned == PluginsSpec => []ProcessesAreOwned
<1>1. PluginsInit => PluginsInv
  BY PluginsStart
<1>2. PluginsInv /\ [PluginsNext]_pluginVars => PluginsInv'
  BY PluginsStep
<1>3. PluginsInv => ProcessesAreOwned
  BY DEF PluginsInv, OwnedInv, Owned, Unexposed, ProcessesAreOwned
<1> QED  BY <1>1, <1>2, <1>3, PTL DEF PluginsSpec

-----------------------------------------------------------------------------
(* What the workers tell one another (Collaboration).                      *)

Messages == [kind : {"del", "rev", "app", "rej"}, at : Nat, from : Colleagues, to : Colleagues, task : ReviewTasks]

\* A review that was asked for has a developer among the workers.
TeamTyped ==
  /\ clock \in Nat
  /\ review \in [ReviewTasks -> [developer : Colleagues \cup {Nobody},
                           status : {"none", "PENDING", "APPROVED", "REJECTED"}]]
  /\ \A t \in ReviewTasks : review[t].status # "none" => review[t].developer \in Colleagues
  /\ sending \subseteq Messages
  /\ inbox \in [Colleagues -> SUBSET Messages] /\ outbox \in [Colleagues -> SUBSET Messages]

\* The record that replaced a message has its identifier, and so has the one
\* that replaces that one.
OnRecord(m) == \E r \in recorded : Id(r) = Id(m)

TeamInv ==
  /\ TeamTyped
  /\ \A w \in Colleagues : \A m \in inbox[w] \cup outbox[w] : OnRecord(m)
  /\ \A m \in repairs : m.to \in Colleagues => m \in inbox[m.to]

LEMMA TeamStart ==
  ASSUME CollabInit PROVE TeamInv
BY DEF CollabInit, NoReview, TeamInv, TeamTyped

\* Where nothing is delivered, it is enough that what waits is a message.
LEMMA MailStays ==
  ASSUME TeamInv, TeamTyped', UNCHANGED mail
  PROVE  TeamInv'
BY DEF TeamInv, mail, OnRecord, Id

LEMMA SendingStep ==
  ASSUME TeamInv, NEW kind \in {"del", "rev", "app", "rej"}, NEW v \in Colleagues, NEW w \in Colleagues,
         NEW t \in ReviewTasks, SendMessage(Message(kind, v, w, t)), clock' = clock,
         /\ review' \in [ReviewTasks -> [developer : Colleagues \cup {Nobody},
                                   status : {"none", "PENDING", "APPROVED", "REJECTED"}]]
         /\ \A s \in ReviewTasks : review'[s].status # "none" => review'[s].developer \in Colleagues
  PROVE  TeamInv'
<1>1. Message(kind, v, w, t) \in Messages
  BY DEF Message, Messages, TeamInv, TeamTyped
<1>2. sending' \subseteq Messages /\ UNCHANGED mail
  BY <1>1 DEF SendMessage, TeamInv, TeamTyped
<1>3. TeamTyped'
  BY <1>2 DEF TeamInv, TeamTyped, mail
<1> QED  BY <1>2, <1>3, MailStays

LEMMA RecordedStep ==
  ASSUME TeamInv, NEW m \in sending, Recorded(m)
  PROVE  TeamInv'
<1>1. m \in Messages /\ m.from \in Colleagues /\ m.to \in Colleagues
  BY DEF TeamInv, TeamTyped, Messages
<1>2. sending' \subseteq Messages /\ UNCHANGED <<clock, review>>
  BY DEF Recorded, TeamInv, TeamTyped, desk
<1>3. CASE UNCHANGED mail
  BY <1>2, <1>3, MailStays DEF TeamInv, TeamTyped, mail
<1>4. CASE /\ recorded' = {r \in recorded : Id(r) # Id(m)} \cup {m}
           /\ outbox' = [outbox EXCEPT ![m.from] = @ \cup {m}]
           /\ inbox' = [inbox EXCEPT ![m.to] = @ \cup {m}]
           /\ repairs' = IF m.kind = "rej" THEN repairs \cup {m} ELSE repairs
  <2>1. /\ inbox' \in [Colleagues -> SUBSET Messages] /\ outbox' \in [Colleagues -> SUBSET Messages]
        /\ \A w \in Colleagues : /\ inbox[w] \subseteq inbox'[w]
                                 /\ inbox'[w] \cup outbox'[w] \subseteq inbox[w] \cup outbox[w] \cup {m}
        /\ m \in inbox'[m.to]
    BY <1>1, <1>4 DEF TeamInv, TeamTyped
  <2>2. TeamTyped'
    BY <1>2, <2>1 DEF TeamInv, TeamTyped
  <2>3. ASSUME NEW x, OnRecord(x) \/ x = m PROVE OnRecord(x)'
    <3>1. CASE Id(x) = Id(m)
      BY <1>4, <3>1 DEF OnRecord, Id
    <3>2. CASE Id(x) # Id(m)
      BY <1>4, <2>3, <3>2 DEF OnRecord, Id
    <3> QED  BY <3>1, <3>2
  <2>4. \A w \in Colleagues : \A x \in inbox'[w] \cup outbox'[w] : OnRecord(x)'
    BY <2>1, <2>3 DEF TeamInv
  <2>5. \A x \in repairs' : x.to \in Colleagues => x \in inbox'[x.to]
    BY <1>4, <2>1 DEF TeamInv
  <2> QED  BY <2>2, <2>4, <2>5 DEF TeamInv
<1> QED  BY <1>3, <1>4 DEF Recorded

LEMMA TeamStep ==
  ASSUME TeamInv, [CollabNext]_collabVars PROVE TeamInv'
<1> DEFINE Reviews == [developer : Colleagues \cup {Nobody}, status : {"none", "PENDING", "APPROVED", "REJECTED"}]
<1>0. review \in [ReviewTasks -> Reviews] /\ clock \in Nat
  BY DEF TeamInv, TeamTyped
<1>1. CASE ClockTicks
  <2>1. clock' \in Nat /\ UNCHANGED <<review, sending>> /\ UNCHANGED mail
    BY <1>0, <1>1 DEF ClockTicks, desk
  <2>2. TeamTyped'
    BY <2>1 DEF TeamInv, TeamTyped, mail
  <2> QED  BY <2>1, <2>2, MailStays
<1>2. ASSUME NEW t \in ReviewTasks, NEW v \in Colleagues, NEW w \in Colleagues, DelegateTask(t, v, w)
      PROVE  TeamInv'
  BY <1>2, SendingStep DEF DelegateTask, TeamInv, TeamTyped
<1>3. ASSUME NEW t \in ReviewTasks, NEW v \in Colleagues, NEW w \in Colleagues, RequestReview(t, v, w)
      PROVE  TeamInv'
  <2>1. /\ SendMessage(Message("rev", v, w, t)) /\ clock' = clock
        /\ review' = [review EXCEPT ![t] = [developer |-> v, status |-> "PENDING"]]
    BY <1>3 DEF RequestReview
  <2>2. review' \in [ReviewTasks -> Reviews]
    BY <1>0, <2>1
  <2>3. \A s \in ReviewTasks : review'[s].status # "none" => review'[s].developer \in Colleagues
    BY <2>1 DEF TeamInv, TeamTyped
  <2> QED  BY <2>1, <2>2, <2>3, SendingStep
<1>4. ASSUME NEW t \in ReviewTasks, NEW w \in Colleagues, AssignOwner(t, w) PROVE TeamInv'
  <2>1. UNCHANGED <<clock, review, sending>> /\ UNCHANGED mail
    BY <1>4 DEF AssignOwner
  <2>2. TeamTyped'
    BY <2>1 DEF TeamInv, TeamTyped, mail
  <2> QED  BY <2>1, <2>2, MailStays
<1>5. ASSUME NEW kind \in {"app", "rej"}, NEW answer \in {"APPROVED", "REJECTED"},
             NEW t \in ReviewTasks, NEW w \in Colleagues, Respond(kind, answer, t, w)
      PROVE  TeamInv'
  <2>1. /\ SendMessage(Message(kind, w, review[t].developer, t)) /\ clock' = clock
        /\ review[t].status # "none"
        /\ review' = [review EXCEPT ![t] = [review[t] EXCEPT !.status = answer]]
    BY <1>5 DEF Respond
  <2>2. review[t].developer \in Colleagues /\ review[t] \in Reviews
    BY <1>0, <2>1 DEF TeamInv, TeamTyped
  <2>3. /\ [review[t] EXCEPT !.status = answer] \in Reviews
        /\ [review[t] EXCEPT !.status = answer].developer = review[t].developer
    BY <2>2
  <2>4. review' \in [ReviewTasks -> Reviews]
    BY <1>0, <2>1, <2>3
  <2>5. \A s \in ReviewTasks : review'[s].developer = review[s].developer /\ (s # t => review'[s] = review[s])
    BY <1>0, <2>1, <2>3
  <2>6. \A s \in ReviewTasks : review'[s].status # "none" => review'[s].developer \in Colleagues
    BY <2>2, <2>5 DEF TeamInv, TeamTyped
  <2> QED  BY <2>1, <2>2, <2>4, <2>6, SendingStep
<1>6. ASSUME NEW m \in sending, Recorded(m) PROVE TeamInv'
  BY <1>6, RecordedStep
<1>7. CASE UNCHANGED collabVars
  BY <1>7 DEF collabVars, TeamInv, TeamTyped, OnRecord, Id
<1> HIDE DEF Reviews
<1> QED  BY <1>1, <1>2, <1>3, <1>4, <1>5, <1>6, <1>7
          DEF CollabNext, ApproveReviewOf, RejectReviewOf

\* What anybody was told is on record, or a message of its kind and moment is,
\* and who was called to repair a task was told why (DeliveredIsRecorded).
THEOREM WhatIsToldIsOnRecord == CollabSpec => []DeliveredIsRecorded
<1>1. CollabInit => TeamInv
  BY TeamStart
<1>2. TeamInv /\ [CollabNext]_collabVars => TeamInv'
  BY TeamStep
<1>3. TeamInv => DeliveredIsRecorded
  BY DEF TeamInv, OnRecord, DeliveredIsRecorded
<1> QED  BY <1>1, <1>2, <1>3, PTL DEF CollabSpec

-----------------------------------------------------------------------------
(* A task that is added: its edges.                                        *)

\* The edges of t, as far as they lead from ds.
Linked(t, ds) ==
  [out |-> [d \in NodeIds |-> IF d \in ds THEN out[d] \cup {t} ELSE out[d]],
   inDegree |-> WithKey(inDegree, t, Cardinality(ds))]

EdgesTyped(t) ==
  /\ out \in [NodeIds -> SUBSET TaskIds]
  /\ \A d \in NodeIds : t \notin out[d]

LEMMA OneMoreEdge ==
  ASSUME NEW t, EdgesTyped(t), NEW ds \in SUBSET NodeIds, IsFiniteSet(ds), NEW d \in NodeIds
  PROVE  AddDependency(Linked(t, ds), t, d) = Linked(t, ds \cup {d})
<1> DEFINE o == [x \in NodeIds |-> IF x \in ds THEN out[x] \cup {t} ELSE out[x]]
           n == WithKey(inDegree, t, Cardinality(ds))
           Record(a, b) == [out |-> a, inDegree |-> b]
<1>1. Linked(t, ds) = Record(o, n) /\ Record(o, n).out = o /\ Record(o, n).inDegree = n
  BY DEF Linked
<1>2. t \in o[d] <=> d \in ds
  BY DEF EdgesTyped
<1>3. CASE d \in ds
  <2>1. ds \cup {d} = ds
    BY <1>3
  <2> QED  BY <1>1, <1>2, <1>3, <2>1 DEF AddDependency
<1>4. CASE d \notin ds
  <2>1. Cardinality(ds \cup {d}) = Cardinality(ds) + 1
    BY <1>4, FS_AddElement
  <2>2. [o EXCEPT ![d] = o[d] \cup {t}]
          = [x \in NodeIds |-> IF x \in ds \cup {d} THEN out[x] \cup {t} ELSE out[x]]
    BY <1>4
  <2>3. [n EXCEPT ![t] = n[t] + 1] = WithKey(inDegree, t, Cardinality(ds) + 1)
    BY DEF WithKey
  <2>4. AddDependency(Record(o, n), t, d)
          = Record([o EXCEPT ![d] = o[d] \cup {t}], [n EXCEPT ![t] = n[t] + 1])
    <3> HIDE DEF o, n
    <3> QED  BY <1>1, <1>2, <1>4 DEF AddDependency
  <2> QED  BY <1>1, <2>1, <2>2, <2>3, <2>4 DEF Linked
<1> QED  BY <1>3, <1>4

\* Adding the edges from the first of a list to the last adds those from its members.
LEMMA AllEdges ==
  ASSUME NEW t, EdgesTyped(t), NEW deps \in Seq(NodeIds)
  PROVE  FoldLeft(LAMBDA g, d : AddDependency(g, t, d), Linked(t, {}), deps)
           = Linked(t, {deps[i] : i \in DOMAIN deps})
<1> DEFINE I == DOMAIN deps
           alone == Linked(t, {})
           Listed(s) == {deps[i] : i \in s}
           Goes(g) == g = [s \in SUBSET I |->
                             IF s = {} THEN alone
                             ELSE AddDependency(g[s \ {Max(s)}], t, deps[Max(s)])]
           known == [s \in SUBSET I |-> Linked(t, Listed(s))]
<1>1. I = 1..Len(deps) /\ Len(deps) \in Nat /\ IsFiniteSet(I)
  BY FS_Interval
<1>2. \A s \in SUBSET I : s # {} => Max(s) \in s
  BY <1>1, MaxIsGreatest
<1>3. ASSUME NEW s \in SUBSET I, s # {}
      PROVE  AddDependency(Linked(t, Listed(s \ {Max(s)})), t, deps[Max(s)]) = Linked(t, Listed(s))
  <2>1. Max(s) \in s
    BY <1>2, <1>3
  <2> DEFINE d == deps[Max(s)]
             u == s \ {Max(s)}
  <2>2. d \in NodeIds /\ Listed(u) \in SUBSET NodeIds /\ Listed(s) = Listed(u) \cup {d}
    BY <2>1, <1>1
  <2>3. IsFiniteSet(Listed(u))
    <3>1. IsFiniteSet(u)
      BY <1>1, FS_Subset
    <3>2. [i \in u |-> deps[i]] \in Surjection(u, Listed(u))
      BY DEF Surjection
    <3> QED  BY <3>1, <3>2, FS_Surjection
  <2>4. AddDependency(Linked(t, Listed(u)), t, d) = Linked(t, Listed(u) \cup {d})
    <3>1. d \in NodeIds /\ Listed(u) \in SUBSET NodeIds
      BY <2>2
    <3> HIDE DEF d, u, Listed
    <3> QED  BY <2>3, <3>1, OneMoreEdge
  <2> QED  BY <2>2, <2>4
<1>4. Listed({}) = {}
  OBVIOUS
<1>5. Goes(known)
  <2>1. \A s \in SUBSET I : s \ {Max(s)} \in SUBSET I
    OBVIOUS
  <2> HIDE DEF Listed, I
  <2> QED  BY <1>3, <1>4, <2>1
<1>6. FoldLeft(LAMBDA g, d : AddDependency(g, t, d), alone, deps) = (CHOOSE g : Goes(g))[I]
  <2> HIDE DEF alone
  <2> QED  BY Zenon DEF FoldLeft, MapThenFoldSet
<1> DEFINE it == CHOOSE g : Goes(g)
<1>7. Goes(it)
  <2> HIDE DEF Goes
  <2> QED  BY <1>5, Zenon
<1> HIDE DEF it
<1>8. SUBSET I \subseteq {s \in SUBSET I : it[s] = Linked(t, Listed(s))}
  <2> DEFINE good == {s \in SUBSET I : it[s] = Linked(t, Listed(s))}
  <2>1. ASSUME NEW s \in SUBSET I, \A u \in SUBSET s : u # s => u \in good PROVE s \in good
    <3>1. CASE s = {}
      BY <3>1, <1>4, <1>7
    <3>2. CASE s # {}
      <4>1. s \ {Max(s)} \in good
        BY <1>2, <2>1, <3>2
      <4> HIDE DEF Listed
      <4> QED  BY <3>2, <4>1, <1>3, <1>7
    <3> QED  BY <3>1, <3>2
  <2>2. SUBSET I \subseteq good
    <3>1. IsFiniteSet(I)
      BY <1>1
    <3>2. \A s \in SUBSET I : (\A u \in SUBSET s : u # s => u \in good) => s \in good
      BY <2>1
    <3> HIDE DEF good, I
    <3> QED  BY <3>1, <3>2, EverySubset, Zenon
  <2> QED  BY <2>2
<1>9. it[I] = Linked(t, Listed(I))
  BY <1>8
<1> QED  BY <1>6, <1>9 DEF it

-----------------------------------------------------------------------------
(* The rounds.                                                             *)

LastRound == Cardinality(TaskIds) + 1

EdgesCounted ==
  /\ DOMAIN tasks \in SUBSET TaskIds
  /\ \A t \in DOMAIN tasks : tasks[t].deps \in Seq(NodeIds)
  /\ out = [d \in NodeIds |-> {t \in DOMAIN tasks : d \in DependsOn(t)}]
  /\ inDegree = [t \in DOMAIN tasks |-> Cardinality(DependsOn(t))]

FirstRound(g) ==
  [left |-> g.inDegree, taken |-> {t \in DOMAIN g.inDegree : g.inDegree[t] = 0}]

NextRound(g, before) ==
  LET left == [t \in DOMAIN before.left |->
                 before.left[t] - Cardinality({d \in before.taken : t \in g.out[d]})]
  IN [left |-> left, taken |-> {t \in DOMAIN left : left[t] = 0 /\ before.left[t] > 0}]

LEMMA RoundsAreChosen ==
  ASSUME NEW g
  PROVE  Rounds(g) = CHOOSE r : r = [n \in 1..Cardinality(TaskIds) + 1 |->
                                       IF n = 1 THEN FirstRound(g) ELSE NextRound(g, r[n - 1])]
  BY Zenon DEF Rounds, FirstRound, NextRound

LEMMA DependenciesAreFinite ==
  ASSUME EdgesCounted, NEW t \in DOMAIN tasks
  PROVE  /\ DependsOn(t) \in SUBSET NodeIds /\ IsFiniteSet(DependsOn(t))
         /\ \A u \in SUBSET DependsOn(t) : IsFiniteSet(u) /\ Cardinality(u) \in Nat
<1> DEFINE I == DOMAIN tasks[t].deps
<1>1. tasks[t].deps \in Seq(NodeIds) /\ I = 1..Len(tasks[t].deps) /\ Len(tasks[t].deps) \in Nat
  BY DEF EdgesCounted
<1>2. IsFiniteSet(I)
  <2>1. IsFiniteSet(1..Len(tasks[t].deps))
    BY <1>1, FS_Interval
  <2> QED  BY <1>1, <2>1
<1>3. [i \in I |-> tasks[t].deps[i]] \in Surjection(I, DependsOn(t))
  BY DEF Surjection, DependsOn
<1>4. IsFiniteSet(DependsOn(t))
  BY <1>2, <1>3, FS_Surjection
<1>5. DependsOn(t) \in SUBSET NodeIds
  BY <1>1 DEF DependsOn
<1> QED  BY <1>4, <1>5, FS_Subset, FS_CardinalityType

LEMMA RoundsFollow ==
  ASSUME EdgesCounted
  PROVE  /\ LastRound \in Nat /\ DOMAIN Rounds(graph) = 1..LastRound
         /\ Rounds(graph)[1] = FirstRound(graph)
         /\ \A n \in 2..LastRound : Rounds(graph)[n] = NextRound(graph, Rounds(graph)[n - 1])
<1> DEFINE D == DOMAIN tasks
           K == LastRound
           V == [left : [D -> Int], taken : SUBSET D]
           S == 1..K
           rank == [n \in S |-> n - 1]
           first == [n \in S |-> FirstRound(graph)]
           before == [n \in S |-> n - 1]
           F == [n \in S |-> [b \in V |-> NextRound(graph, b)]]
           Goes(r) == r = [n \in S |-> IF n = 1 THEN FirstRound(graph) ELSE NextRound(graph, r[n - 1])]
<1>1. K \in Nat \ {0} /\ K - 1 \in Nat /\ IsFiniteSet(D)
  BY GraphAssumption, FS_CardinalityType, FS_Subset DEF LastRound, EdgesCounted
<1>2. graph.inDegree = inDegree /\ graph.out = out /\ DOMAIN inDegree = D
      /\ \A t \in D : inDegree[t] \in Nat
  BY DependenciesAreFinite DEF EdgesCounted, graph
<1>3. FirstRound(graph) \in V
  BY <1>2 DEF FirstRound, EdgesCounted
<1>4. ASSUME NEW b \in V PROVE NextRound(graph, b) \in V
  <2> DEFINE gone(t) == {d \in b.taken : t \in graph.out[d]}
             left == [t \in D |-> b.left[t] - Cardinality(gone(t))]
  <2>1. \A t \in D : Cardinality(gone(t)) \in Nat
    <3> SUFFICES ASSUME NEW t \in D PROVE Cardinality(gone(t)) \in Nat
      OBVIOUS
    <3>1. gone(t) \in SUBSET D
      OBVIOUS
    <3> QED  BY <1>1, <3>1, FS_Subset, FS_CardinalityType
  <2>2. left \in [D -> Int]
    <3> HIDE DEF gone
    <3> QED  BY <2>1
  <2>3. NextRound(graph, b) = [left |-> left, taken |-> {t \in DOMAIN left : left[t] = 0 /\ b.left[t] > 0}]
    BY DEF NextRound
  <2> HIDE DEF left
  <2> QED  BY <2>2, <2>3
<1>5. \E r : Goes(r)
  <2>1. /\ rank \in [S -> 0..K - 1] /\ first \in [S -> V]
        /\ Descends(S, V, rank, before, F)
    <3> HIDE DEF V
    <3> QED  BY <1>1, <1>3, <1>4 DEF Descends
  <2>2. \E g \in [S -> V] : Solves(g, S, rank, first, before, F)
    <3> DEFINE k == K - 1
    <3>1. k \in Nat /\ rank \in [S -> 0..k]
      BY <1>1, <2>1
    <3>2. first \in [S -> V]
      BY <2>1
    <3> HIDE DEF V, S, F, first, before, rank, k
    <3> QED  BY <2>1, <3>1, <3>2, RecursionByRank, Zenon
  <2>3. PICK g \in [S -> V] : \A s \in S :
           g[s] = IF rank[s] = 0 THEN first[s] ELSE F[s][g[before[s]]]
    BY <2>2 DEF Solves
  <2>4. \A s \in S : g[s] = IF s = 1 THEN FirstRound(graph) ELSE NextRound(graph, g[s - 1])
    <3> SUFFICES ASSUME NEW s \in S
                 PROVE  g[s] = IF s = 1 THEN FirstRound(graph) ELSE NextRound(graph, g[s - 1])
      OBVIOUS
    <3>1. CASE s = 1
      <4>1. rank[s] = 0 /\ first[s] = FirstRound(graph)
        BY <3>1
      <4> HIDE DEF V, F, first, rank
      <4> QED  BY <2>3, <3>1, <4>1
    <3>2. CASE s # 1
      <4>1. s - 1 \in S /\ g[s - 1] \in V /\ rank[s] # 0 /\ before[s] = s - 1
        <5> HIDE DEF V
        <5> QED  BY <1>1, <3>2
      <4>2. F[s][g[s - 1]] = NextRound(graph, g[s - 1])
        <5> HIDE DEF V
        <5> QED  BY <4>1
      <4> HIDE DEF V, F
      <4> QED  BY <2>3, <3>2, <4>1, <4>2
    <3> QED  BY <3>1, <3>2
  <2>5. Goes(g)
    BY <2>4
  <2> QED  BY <2>5
<1>6. Rounds(graph) = CHOOSE r : Goes(r)
  BY RoundsAreChosen DEF LastRound
<1>7. Goes(Rounds(graph))
  <2> HIDE DEF Goes
  <2> QED  BY <1>5, <1>6, Zenon
<1> QED  BY <1>1, <1>7

\* The tasks that the first n rounds take.
TakenBy(n) == UNION {Rounds(graph)[m].taken : m \in 1..n}

LEMMA TakenGrows ==
  ASSUME NEW n \in Nat
  PROVE  /\ TakenBy(0) = {} /\ TakenBy(n + 1) = TakenBy(n) \cup Rounds(graph)[n + 1].taken
         /\ \A m \in Nat : m <= n => TakenBy(m) \subseteq TakenBy(n)
  BY DEF TakenBy

\* After round n, what is counted of a task are its dependencies that are not taken
\* yet, and the round takes the tasks that have none left and had some before.
RoundIsRight(n) ==
  /\ Rounds(graph)[n].left = [t \in DOMAIN tasks |-> Cardinality(DependsOn(t) \ TakenBy(n - 1))]
  /\ Rounds(graph)[n].taken = TakenBy(n) \ TakenBy(n - 1)
  /\ TakenBy(n) = {t \in DOMAIN tasks : DependsOn(t) \subseteq TakenBy(n - 1)}

LEMMA NoneLeft ==
  ASSUME EdgesCounted, NEW t \in DOMAIN tasks, NEW T
  PROVE  /\ Cardinality(DependsOn(t) \ T) \in Nat
         /\ Cardinality(DependsOn(t) \ T) = 0 <=> DependsOn(t) \subseteq T
<1>1. IsFiniteSet(DependsOn(t) \ T) /\ Cardinality(DependsOn(t) \ T) \in Nat
  BY DependenciesAreFinite
<1>2. Cardinality(DependsOn(t) \ T) = 0 <=> DependsOn(t) \ T = {}
  BY <1>1, FS_EmptySet
<1> QED  BY <1>1, <1>2

LEMMA FirstRoundIsRight ==
  ASSUME EdgesCounted PROVE RoundIsRight(1)
<1>1. /\ Rounds(graph)[1] = FirstRound(graph) /\ TakenBy(0) = {}
      /\ TakenBy(1) = TakenBy(0) \cup Rounds(graph)[1].taken
  <2>1. Rounds(graph)[1] = FirstRound(graph)
    BY RoundsFollow
  <2>2. TakenBy(0) = {} /\ TakenBy(0 + 1) = TakenBy(0) \cup Rounds(graph)[0 + 1].taken
    BY TakenGrows
  <2>3. 0 + 1 = 1
    OBVIOUS
  <2> QED  BY <2>1, <2>2, <2>3
<1>2. FirstRound(graph).left = inDegree
      /\ FirstRound(graph).taken = {t \in DOMAIN inDegree : inDegree[t] = 0}
  BY DEF FirstRound, graph
<1>3. \A t \in DOMAIN tasks : /\ inDegree[t] = Cardinality(DependsOn(t) \ {})
                              /\ inDegree[t] = 0 <=> DependsOn(t) \subseteq {}
  <2> SUFFICES ASSUME NEW t \in DOMAIN tasks
               PROVE  /\ inDegree[t] = Cardinality(DependsOn(t) \ {})
                      /\ inDegree[t] = 0 <=> DependsOn(t) \subseteq {}
    OBVIOUS
  <2>1. DependsOn(t) \ {} = DependsOn(t)
    OBVIOUS
  <2> QED  BY <2>1, NoneLeft DEF EdgesCounted
<1>4. DOMAIN inDegree = DOMAIN tasks /\ inDegree = [t \in DOMAIN tasks |-> inDegree[t]]
  BY DEF EdgesCounted
<1>5. Rounds(graph)[1].left = [t \in DOMAIN tasks |-> Cardinality(DependsOn(t) \ {})]
  BY <1>1, <1>2, <1>3, <1>4
<1>6. Rounds(graph)[1].taken = {t \in DOMAIN tasks : DependsOn(t) \subseteq {}}
  BY <1>1, <1>2, <1>3, <1>4
<1>7. TakenBy(1) = Rounds(graph)[1].taken /\ Rounds(graph)[1].taken = TakenBy(1) \ TakenBy(0)
      /\ 1 - 1 = 0
  BY <1>1
<1> QED  BY <1>1, <1>5, <1>6, <1>7 DEF RoundIsRight

LEMMA NextRoundIsRight ==
  ASSUME EdgesCounted, NEW n \in 2..LastRound, RoundIsRight(n - 1),
         n > 2 => RoundIsRight(n - 2)
  PROVE  RoundIsRight(n)
<1> DEFINE D == DOMAIN tasks
           b == Rounds(graph)[n - 1]
           T0 == TakenBy(n - 2)
           T1 == TakenBy(n - 1)
           gone(t) == {d \in b.taken : t \in graph.out[d]}
           left == [t \in D |-> b.left[t] - Cardinality(gone(t))]
<1>0. LastRound \in Nat /\ n \in Nat /\ n - 1 \in Nat /\ n - 2 \in Nat
      /\ (n - 1) - 1 = n - 2 /\ (n - 1) + 1 = n
  BY RoundsFollow
<1>1. /\ b.left = [t \in D |-> Cardinality(DependsOn(t) \ T0)]
      /\ b.taken = T1 \ T0
      /\ T1 = {t \in D : DependsOn(t) \subseteq T0}
  BY <1>0 DEF RoundIsRight
<1>2. /\ Rounds(graph)[n] = NextRound(graph, b)
      /\ TakenBy(n) = T1 \cup Rounds(graph)[n].taken
      /\ T0 \subseteq T1
  BY <1>0, RoundsFollow, TakenGrows
<1>3. NextRound(graph, b) = [left |-> left, taken |-> {t \in DOMAIN left : left[t] = 0 /\ b.left[t] > 0}]
  BY <1>1 DEF NextRound
<1>4. \A t \in D : left[t] = Cardinality(DependsOn(t) \ T1)
  <2> SUFFICES ASSUME NEW t \in D PROVE left[t] = Cardinality(DependsOn(t) \ T1)
    OBVIOUS
  <2> DEFINE A == DependsOn(t) \ T0
  <2>1. gone(t) = A \cap (T1 \ T0)
    <3>1. graph.out = out /\ T1 \subseteq NodeIds
      BY <1>1, GraphAssumption DEF graph, EdgesCounted
    <3>2. \A d \in NodeIds : t \in out[d] <=> d \in DependsOn(t)
      BY DEF EdgesCounted
    <3> HIDE DEF T0, T1
    <3> QED  BY <1>1, <3>1, <3>2
  <2>2. DependsOn(t) \ T1 = A \ (T1 \ T0)
    BY <1>2
  <2>3. IsFiniteSet(A) /\ Cardinality(A) \in Nat
    BY DependenciesAreFinite
  <2>4. Cardinality(A \ (T1 \ T0)) = Cardinality(A) - Cardinality(A \cap (T1 \ T0))
    BY <2>3, FS_Difference
  <2>5. b.left[t] = Cardinality(A)
    BY <1>1
  <2> HIDE DEF A, gone, T0, T1, b
  <2> QED  BY <2>1, <2>2, <2>4, <2>5
<1>5. left = [t \in D |-> Cardinality(DependsOn(t) \ T1)]
  <2> HIDE DEF T1, b, gone
  <2> QED  BY <1>4
<1>6. \A t \in D : /\ left[t] = 0 <=> DependsOn(t) \subseteq T1
                   /\ b.left[t] > 0 <=> ~(DependsOn(t) \subseteq T0)
  <2> SUFFICES ASSUME NEW t \in D
               PROVE  /\ left[t] = 0 <=> DependsOn(t) \subseteq T1
                      /\ b.left[t] > 0 <=> ~(DependsOn(t) \subseteq T0)
    OBVIOUS
  <2>1. left[t] = 0 <=> DependsOn(t) \subseteq T1
    <3> HIDE DEF left, T1
    <3> QED  BY <1>4, NoneLeft
  <2>2. b.left[t] = Cardinality(DependsOn(t) \ T0)
    BY <1>1
  <2>3. b.left[t] > 0 <=> ~(DependsOn(t) \subseteq T0)
    <3> HIDE DEF b, T0
    <3> QED  BY <2>2, NoneLeft
  <2> QED  BY <2>1, <2>3
<1>7. Rounds(graph)[n].taken = {t \in D : DependsOn(t) \subseteq T1 /\ ~(DependsOn(t) \subseteq T0)}
      /\ Rounds(graph)[n].left = left
  <2>1. DOMAIN left = D
    OBVIOUS
  <2> HIDE DEF left, T0, T1, b
  <2> QED  BY <1>2, <1>3, <1>6, <2>1
<1>8. TakenBy(n) = {t \in D : DependsOn(t) \subseteq T1}
  <2> HIDE DEF T0, T1
  <2> QED  BY <1>1, <1>2, <1>7
<1>9. Rounds(graph)[n].taken = TakenBy(n) \ T1
  <2> HIDE DEF T0, T1
  <2> QED  BY <1>1, <1>7, <1>8
<1> QED
  <2> HIDE DEF left
  <2> QED  BY <1>5, <1>7, <1>8, <1>9 DEF RoundIsRight

LEMMA RoundsAreRight ==
  ASSUME EdgesCounted
  PROVE  \A n \in 1..LastRound : RoundIsRight(n)
<1> DEFINE good == {n \in 0..LastRound : n # 0 => RoundIsRight(n)}
<1>1. LastRound \in Nat
  BY RoundsFollow
<1>2. ASSUME NEW n \in 0..LastRound, \A m \in 0..LastRound : m < n => m \in good
      PROVE  n \in good
  <2>1. CASE n = 0
    BY <2>1
  <2>2. CASE n = 1
    BY <2>2, FirstRoundIsRight
  <2>3. CASE n >= 2
    <3>1. /\ n \in 2..LastRound /\ n - 1 \in 0..LastRound /\ n - 2 \in 0..LastRound
          /\ n - 1 < n /\ n - 2 < n /\ n - 1 # 0 /\ (n > 2 => n - 2 # 0)
      BY <1>1, <2>3
    <3>2. RoundIsRight(n - 1) /\ (n > 2 => RoundIsRight(n - 2))
      BY <1>2, <3>1
    <3> QED  BY <3>1, <3>2, NextRoundIsRight
  <2> QED  BY <1>1, <2>1, <2>2, <2>3
<1>3. 0..LastRound \subseteq good
  <2> HIDE DEF good
  <2> QED  BY <1>1, <1>2, UpTo
<1> QED  BY <1>1, <1>3

\* A round that takes nothing is followed by such rounds only, and there are more
\* rounds than tasks: the last round takes nothing.
LEMMA NothingAfterNothing ==
  ASSUME EdgesCounted, NEW n \in 1..LastRound, NEW m \in 1..LastRound, m < n,
         TakenBy(m) = TakenBy(m - 1)
  PROVE  TakenBy(n) = TakenBy(m - 1)
<1> DEFINE good == {k \in 0..LastRound : k >= m => TakenBy(k) = TakenBy(m - 1)}
<1>1. LastRound \in Nat
  BY RoundsFollow
<1>2. ASSUME NEW k \in 0..LastRound, \A j \in 0..LastRound : j < k => j \in good
      PROVE  k \in good
  <2>1. CASE k <= m
    BY <2>1, <1>1
  <2>2. CASE k > m
    <3>1. k - 1 \in good /\ k - 1 >= m /\ k \in 1..LastRound
      BY <1>1, <1>2, <2>2
    <3>2. TakenBy(k - 1) = TakenBy(m - 1)
      BY <3>1
    <3>3. RoundIsRight(k) /\ RoundIsRight(m)
      BY <3>1, RoundsAreRight
    <3>4. TakenBy(k) = TakenBy(m)
      BY <3>2, <3>3 DEF RoundIsRight
    <3> QED  BY <3>4
  <2> QED  BY <1>1, <2>1, <2>2
<1>3. 0..LastRound \subseteq good
  <2> HIDE DEF good
  <2> QED  BY <1>1, <1>2, UpTo
<1> QED  BY <1>1, <1>3

LEMMA TakenTyped ==
  ASSUME EdgesCounted, NEW n \in 0..LastRound
  PROVE  /\ TakenBy(n) \in SUBSET DOMAIN tasks /\ IsFiniteSet(TakenBy(n))
         /\ Cardinality(TakenBy(n)) \in Nat /\ Cardinality(TakenBy(n)) <= Cardinality(TaskIds)
<1>1. TakenBy(n) \in SUBSET DOMAIN tasks
  <2>1. CASE n = 0
    BY <2>1, TakenGrows
  <2>2. CASE n # 0
    <3>1. RoundIsRight(n)
      BY <2>2, RoundsFollow, RoundsAreRight
    <3> QED  BY <3>1 DEF RoundIsRight
  <2> QED  BY <2>1, <2>2
<1>2. TakenBy(n) \in SUBSET TaskIds
  BY <1>1 DEF EdgesCounted
<1> QED  BY <1>1, <1>2, GraphAssumption, FS_Subset, FS_CardinalityType

LEMMA LastRoundTakesNothing ==
  ASSUME EdgesCounted PROVE TakenBy(LastRound) = TakenBy(LastRound - 1)
<1> DEFINE good == {n \in 0..LastRound : \/ n # 0 /\ TakenBy(n) = TakenBy(n - 1)
                                         \/ Cardinality(TakenBy(n)) >= n}
<1>1. LastRound \in Nat \ {0} /\ Cardinality(TaskIds) \in Nat
  BY GraphAssumption, FS_CardinalityType DEF LastRound
<1>2. ASSUME NEW n \in 0..LastRound, \A m \in 0..LastRound : m < n => m \in good
      PROVE  n \in good
  <2>1. CASE n = 0
    BY <2>1, TakenTyped
  <2>2. CASE n # 0 /\ TakenBy(n) # TakenBy(n - 1)
    <3>1. n - 1 \in 0..LastRound /\ n - 1 \in good /\ n \in 1..LastRound
      BY <1>1, <1>2, <2>2
    <3>2. ~(n - 1 # 0 /\ TakenBy(n - 1) = TakenBy((n - 1) - 1))
      <4> SUFFICES ASSUME n - 1 # 0, TakenBy(n - 1) = TakenBy((n - 1) - 1) PROVE FALSE
        OBVIOUS
      <4>1. n - 1 \in 1..LastRound /\ n - 1 < n
        BY <3>1
      <4>2. TakenBy(n) = TakenBy((n - 1) - 1)
        BY <3>1, <4>1, NothingAfterNothing
      <4> QED  BY <4>2, <2>2
    <3>3. Cardinality(TakenBy(n - 1)) >= n - 1
      BY <3>1, <3>2
    <3>4. TakenBy(n - 1) \subseteq TakenBy(n)
      BY <3>1, TakenGrows
    <3>5. /\ IsFiniteSet(TakenBy(n)) /\ Cardinality(TakenBy(n)) \in Nat
          /\ Cardinality(TakenBy(n - 1)) \in Nat
      BY <3>1, TakenTyped
    <3>6. Cardinality(TakenBy(n - 1)) <= Cardinality(TakenBy(n))
          /\ Cardinality(TakenBy(n)) # Cardinality(TakenBy(n - 1))
      BY <2>2, <3>4, <3>5, FS_Subset
    <3> QED  BY <3>3, <3>5, <3>6
  <2> QED  BY <2>1, <2>2
<1>3. 0..LastRound \subseteq good
  <2> HIDE DEF good
  <2> QED  BY <1>1, <1>2, UpTo
<1>4. LastRound \in good /\ LastRound \in 0..LastRound
  BY <1>1, <1>3
<1>5. Cardinality(TakenBy(LastRound)) <= Cardinality(TaskIds)
      /\ Cardinality(TakenBy(LastRound)) \in Nat
  BY <1>4, TakenTyped
<1>6. ~(Cardinality(TakenBy(LastRound)) >= LastRound)
  BY <1>1, <1>5 DEF LastRound
<1> QED  BY <1>4, <1>6

\* What all rounds take: the tasks all of whose dependencies are taken.
LEMMA TakenIsClosed ==
  ASSUME EdgesCounted
  PROVE  /\ Taken(graph) = TakenBy(LastRound)
         /\ Taken(graph) = {t \in DOMAIN tasks : DependsOn(t) \subseteq Taken(graph)}
         /\ DetectCycle(graph) <=> Taken(graph) # DOMAIN tasks
<1>1. LastRound \in Nat \ {0} /\ DOMAIN Rounds(graph) = 1..LastRound
  BY RoundsFollow, GraphAssumption, FS_CardinalityType DEF LastRound
<1>2. Taken(graph) = TakenBy(LastRound)
  BY <1>1 DEF Taken, TakenBy
<1>3. RoundIsRight(LastRound)
  BY <1>1, RoundsAreRight
<1>4. Taken(graph) = {t \in DOMAIN tasks : DependsOn(t) \subseteq Taken(graph)}
  BY <1>2, <1>3, LastRoundTakesNothing DEF RoundIsRight
<1>5. DOMAIN graph.tasks = DOMAIN tasks /\ IsFiniteSet(DOMAIN tasks)
  BY GraphAssumption, FS_Subset DEF graph, EdgesCounted
<1>6. Taken(graph) \in SUBSET DOMAIN tasks
  BY <1>4
<1>7. Cardinality(Taken(graph)) = Cardinality(DOMAIN tasks) <=> Taken(graph) = DOMAIN tasks
  BY <1>5, <1>6, FS_Subset
<1> QED  BY <1>2, <1>4, <1>5, <1>7 DEF DetectCycle

LEMMA RefusalIsRight ==
  ASSUME EdgesCounted PROVE RefusedWhenStuck
<1> DEFINE T == Taken(graph)
           D == DOMAIN tasks
           Stuck(s) == s # {} /\ \A t \in s : DependsOn(t) \cap (s \cup (NodeIds \ D)) # {}
<1>1. T = {t \in D : DependsOn(t) \subseteq T} /\ T = TakenBy(LastRound)
      /\ (DetectCycle(graph) <=> T # D) /\ LastRound \in Nat
  BY TakenIsClosed, RoundsFollow
<1>2. ASSUME T # D PROVE Stuck(D \ T)
  <2>1. ASSUME NEW t \in D \ T PROVE DependsOn(t) \cap ((D \ T) \cup (NodeIds \ D)) # {}
    <3>1. PICK d \in DependsOn(t) : d \notin T
      BY <1>1, <2>1
    <3>2. d \in NodeIds
      BY <2>1, DependenciesAreFinite
    <3> QED  BY <3>1, <3>2
  <2>2. D \ T # {}
    BY <1>1, <1>2
  <2> QED  BY <2>1, <2>2
<1>3. ASSUME NEW s \in SUBSET D, Stuck(s) PROVE T # D
  <2> DEFINE good == {n \in 0..LastRound : TakenBy(n) \cap s = {}}
  <2>1. ASSUME NEW n \in 0..LastRound, \A m \in 0..LastRound : m < n => m \in good
        PROVE  n \in good
    <3>1. CASE n = 0
      BY <3>1, TakenGrows
    <3>2. CASE n # 0
      <4>1. n - 1 \in 0..LastRound /\ n - 1 \in good /\ n \in 1..LastRound
        BY <1>1, <2>1, <3>2
      <4>2. RoundIsRight(n) /\ TakenBy(n - 1) \subseteq D
        BY <4>1, RoundsAreRight, TakenTyped
      <4>3. ASSUME NEW t \in TakenBy(n), t \in s PROVE FALSE
        <5>1. DependsOn(t) \subseteq TakenBy(n - 1)
          BY <4>2 DEF RoundIsRight
        <5>2. PICK d \in DependsOn(t) : d \in s \cup (NodeIds \ D)
          BY <1>3, <4>3
        <5> QED  BY <4>1, <4>2, <5>1, <5>2
      <4> QED  BY <4>1, <4>3
    <3> QED  BY <3>1, <3>2
  <2>2. 0..LastRound \subseteq good
    <3> HIDE DEF good
    <3> QED  BY <1>1, <2>1, UpTo
  <2>3. T \cap s = {}
    BY <1>1, <2>2
  <2> QED  BY <1>3, <2>3
<1>4. RefusedWhenStuck <=> (T # D <=> \E s \in SUBSET D : Stuck(s))
  BY <1>1 DEF RefusedWhenStuck
<1>5. T # D <=> \E s \in SUBSET D : Stuck(s)
  <2> HIDE DEF T, D, Stuck
  <2> QED  BY <1>2, <1>3
<1> HIDE DEF T, D, Stuck
<1> QED  BY <1>4, <1>5

LEMMA BatchesAreRight ==
  ASSUME EdgesCounted PROVE BatchesFollowDependencies
<1> DEFINE D == DOMAIN tasks
           batches == ExecutionBatches(graph)
           BatchOf(t) == {n \in DOMAIN batches : t \in batches[n]}
<1> SUFFICES ASSUME ~DetectCycle(graph), NEW t \in D
             PROVE  \E n \in DOMAIN batches :
                      /\ BatchOf(t) = {n}
                      /\ \A d \in DependsOn(t) : \E m \in BatchOf(d) : m < n
                      /\ n > 1 => \E d \in DependsOn(t) : BatchOf(d) = {n - 1}
  BY DEF BatchesFollowDependencies
<1>0. LastRound \in Nat
  BY RoundsFollow
<1>1. D = TakenBy(LastRound) /\ LastRound \in Nat /\ DOMAIN Rounds(graph) = 1..LastRound
  BY TakenIsClosed, RoundsFollow
<1>2. \A n \in 1..LastRound :
        /\ Rounds(graph)[n].taken = TakenBy(n) \ TakenBy(n - 1)
        /\ TakenBy(n) = {x \in D : DependsOn(x) \subseteq TakenBy(n - 1)}
  BY RoundsAreRight DEF RoundIsRight
<1>3. batches = [n \in {n \in 1..LastRound : \A m \in 1..n : Rounds(graph)[m].taken # {}}
                   |-> Rounds(graph)[n].taken]
  BY <1>1 DEF ExecutionBatches
<1> HIDE DEF batches
<1>4. \A m, n \in 0..LastRound : m <= n => TakenBy(m) \subseteq TakenBy(n)
  BY <1>1, TakenGrows
\* The round that takes a task, and no other, is its batch.
<1>5. ASSUME NEW x \in D, NEW k \in 0..LastRound, x \in TakenBy(k)
      PROVE  \E n \in 1..k : /\ BatchOf(x) = {n} /\ n \in DOMAIN batches
                            /\ x \in TakenBy(n) /\ x \notin TakenBy(n - 1)
  <2> DEFINE within == {n \in 0..LastRound : x \in TakenBy(n)}
  <2>1. PICK n \in within : \A m \in within : n <= m
    <3>1. within \in SUBSET Nat /\ within # {}
      BY <1>1, <1>5
    <3> HIDE DEF within
    <3> QED  BY <3>1, LeastElement
  <2>2. n # 0
    BY <2>1, TakenGrows
  <2>3. n \in 1..k /\ n \in 1..LastRound /\ n - 1 \in 0..LastRound
    BY <1>1, <1>5, <2>1, <2>2
  <2>4. x \in TakenBy(n) /\ x \notin TakenBy(n - 1)
    BY <2>1, <2>3
  <2>5. ASSUME NEW m \in 1..n PROVE Rounds(graph)[m].taken # {}
    <3>1. CASE m = n
      BY <1>2, <2>3, <2>4, <3>1
    <3>2. CASE m < n
      <4> SUFFICES ASSUME Rounds(graph)[m].taken = {} PROVE FALSE
        OBVIOUS
      <4>1. m \in 1..LastRound /\ m - 1 \in 0..LastRound /\ m \in 0..LastRound /\ m - 1 <= m
            /\ m - 1 <= n - 1
        BY <1>0, <2>3, <3>2
      <4>2. TakenBy(m) = TakenBy(m - 1)
        BY <1>2, <1>4, <4>1
      <4>3. TakenBy(n) = TakenBy(m - 1)
        BY <2>3, <3>2, <4>1, <4>2, NothingAfterNothing
      <4>4. TakenBy(m - 1) \subseteq TakenBy(n - 1)
        BY <1>4, <2>3, <4>1
      <4> QED  BY <2>4, <4>3, <4>4
    <3> QED  BY <2>3, <3>1, <3>2
  <2>6. n \in DOMAIN batches /\ x \in batches[n]
    BY <1>2, <1>3, <2>3, <2>4, <2>5
  <2>7. ASSUME NEW m \in BatchOf(x) PROVE m = n
    <3>1. m \in 1..LastRound /\ m - 1 \in 0..LastRound /\ x \in TakenBy(m) /\ x \notin TakenBy(m - 1)
      BY <1>0, <1>2, <1>3, <2>7
    <3>2. n <= m
      BY <2>1, <3>1
    <3>3. ~(n <= m - 1)
      BY <1>4, <2>3, <2>4, <3>1
    <3> QED  BY <2>3, <3>1, <3>2, <3>3
  <2>8. BatchOf(x) = {n}
    BY <2>6, <2>7
  <2> QED  BY <2>3, <2>4, <2>6, <2>8
<1>6. PICK n \in 1..LastRound : /\ BatchOf(t) = {n} /\ n \in DOMAIN batches
                               /\ t \in TakenBy(n) /\ t \notin TakenBy(n - 1)
  <2>1. LastRound \in 0..LastRound /\ t \in TakenBy(LastRound)
    BY <1>1
  <2> QED  BY <1>5, <2>1
<1>7. n - 1 \in 0..LastRound /\ n \in Nat /\ DependsOn(t) \subseteq TakenBy(n - 1)
      /\ TakenBy(n - 1) \subseteq D
  BY <1>1, <1>2, <1>6, TakenTyped
<1>8. ASSUME NEW d \in DependsOn(t) PROVE \E m \in BatchOf(d) : m < n
  <2>1. d \in D /\ d \in TakenBy(n - 1)
    BY <1>7, <1>8
  <2>2. PICK m \in 1..n - 1 : BatchOf(d) = {m}
    BY <1>5, <1>7, <2>1
  <2> QED  BY <1>7, <2>2
<1>9. ASSUME n > 1 PROVE \E d \in DependsOn(t) : BatchOf(d) = {n - 1}
  <2>1. n - 1 \in 1..LastRound /\ (n - 1) - 1 \in 0..LastRound
    BY <1>0, <1>7, <1>9
  <2>2. PICK d \in DependsOn(t) : d \notin TakenBy((n - 1) - 1)
    BY <1>2, <1>6, <2>1
  <2>3. d \in D /\ d \in TakenBy(n - 1)
    BY <1>7, <2>2
  <2>4. PICK m \in 1..n - 1 : BatchOf(d) = {m} /\ d \in TakenBy(m)
    BY <1>5, <1>7, <2>3
  <2>5. ~(m <= (n - 1) - 1)
    <3>1. m \in 0..LastRound
      BY <1>0, <1>7, <2>4
    <3> QED  BY <1>4, <2>1, <2>2, <2>4, <3>1
  <2> QED  BY <1>7, <2>4, <2>5
<1> QED  BY <1>6, <1>8, <1>9

-----------------------------------------------------------------------------
(* The order of a mission's tasks.                                         *)

Entry(deps, state) == [deps |-> deps, status |-> state]

GraphInv ==
  /\ \A t \in DOMAIN tasks : tasks[t] = Entry(tasks[t].deps, tasks[t].status)
  /\ NothingOvertakes

\* What a dependency must be before the task that has it is ready.
Complete(d) == d \in DOMAIN tasks /\ tasks[d].status = "COMPLETED"

\* A step that keeps the dependencies and what is complete, and lets become
\* ready only what is due.
LEMMA NothingOvertakesStays ==
  ASSUME GraphInv,
         \A t \in DOMAIN tasks' :
           /\ tasks'[t] = Entry(tasks'[t].deps, tasks'[t].status)
           /\ tasks'[t].status \in {"READY", "COMPLETED"} =>
                /\ t \in DOMAIN tasks /\ tasks'[t].deps = tasks[t].deps
                /\ \/ tasks[t].status \in {"READY", "COMPLETED"}
                   \/ \A d \in DependsOn(t) : Complete(d),
         \A d \in DOMAIN tasks : d \in DOMAIN tasks' /\ (Complete(d) => tasks'[d].status = "COMPLETED")
  PROVE  GraphInv'
<1>1. ASSUME NEW t \in DOMAIN tasks', tasks'[t].status \in {"READY", "COMPLETED"},
             NEW d \in DependsOn(t)'
      PROVE  d \in DOMAIN tasks' /\ tasks'[d].status = "COMPLETED"
  <2>1. d \in DependsOn(t)
    BY <1>1 DEF DependsOn
  <2>2. Complete(d)
    BY <1>1, <2>1 DEF GraphInv, NothingOvertakes, Complete
  <2> QED  BY <2>2 DEF Complete
<1> QED  BY <1>1 DEF GraphInv, NothingOvertakes

LEMMA GraphStep ==
  ASSUME GraphInv, [GraphNext]_graphVars PROVE GraphInv'
<1>1. \A deps, state : Entry(deps, state).deps = deps /\ Entry(deps, state).status = state
  BY DEF Entry
<1>2. ASSUME NEW t \in TaskIds, NEW deps, AddTask(t, deps) PROVE GraphInv'
  <2>1. tasks' = [x \in DOMAIN tasks \cup {t} |-> IF x = t THEN Entry(deps, "BACKLOG") ELSE tasks[x]]
        /\ t \notin DOMAIN tasks
    BY <1>2 DEF AddTask, WithKey, Entry
  <2> QED  BY <1>1, <2>1, NothingOvertakesStays DEF GraphInv, Complete
<1>3. CASE GetReadyTasks
  <2>1. \A t \in DOMAIN tasks : [tasks[t] EXCEPT !.status = "READY"] = Entry(tasks[t].deps, "READY")
    BY DEF GraphInv, Entry
  <2>2. tasks' = [t \in DOMAIN tasks |-> IF IsReady(t) THEN Entry(tasks[t].deps, "READY") ELSE tasks[t]]
    BY <1>3, <2>1 DEF GetReadyTasks
  <2>3. \A t \in DOMAIN tasks : IsReady(t) =>
          tasks[t].status # "COMPLETED" /\ \A d \in DependsOn(t) : Complete(d)
    BY DEF IsReady, DependsOn, Complete
  <2>4. \A t \in DOMAIN tasks : \/ IsReady(t) /\ tasks'[t] = Entry(tasks[t].deps, "READY")
                                \/ tasks'[t] = tasks[t]
    BY <2>2
  <2> QED  BY <1>1, <2>2, <2>3, <2>4, NothingOvertakesStays DEF GraphInv, Complete
<1>4. ASSUME NEW t \in DOMAIN tasks, TaskCompleted(t) PROVE GraphInv'
  <2>1. tasks' = [tasks EXCEPT ![t] = [tasks[t] EXCEPT !.status = "COMPLETED"]] /\ tasks[t].status = "READY"
    BY <1>4 DEF TaskCompleted
  <2>2. [tasks[t] EXCEPT !.status = "COMPLETED"] = Entry(tasks[t].deps, "COMPLETED")
    BY DEF GraphInv, Entry
  <2>3. /\ DOMAIN tasks' = DOMAIN tasks
        /\ tasks'[t] = Entry(tasks[t].deps, "COMPLETED")
        /\ \A s \in DOMAIN tasks \ {t} : tasks'[s] = tasks[s]
    BY <2>1, <2>2
  <2> QED  BY <1>1, <2>1, <2>3, NothingOvertakesStays DEF GraphInv, Complete
<1>5. CASE UNCHANGED graphVars
  BY <1>5 DEF graphVars, GraphInv, NothingOvertakes, DependsOn
<1> QED  BY <1>2, <1>3, <1>4, <1>5 DEF GraphNext

LEMMA EdgesStay ==
  ASSUME EdgesCounted, out' = out, inDegree' = inDegree,
         DOMAIN tasks' = DOMAIN tasks, \A t \in DOMAIN tasks : tasks'[t].deps = tasks[t].deps
  PROVE  EdgesCounted'
<1>1. \A t \in DOMAIN tasks : DependsOn(t)' = DependsOn(t)
  BY DEF DependsOn
<1> QED  BY <1>1 DEF EdgesCounted

LEMMA AddedEdges ==
  ASSUME EdgesCounted, NEW t \in TaskIds, NEW deps \in Seq(NodeIds), AddTask(t, deps)
  PROVE  EdgesCounted'
<1> DEFINE D == DOMAIN tasks
           ds == {deps[i] : i \in DOMAIN deps}
           linked == FoldLeft(LAMBDA g, d : AddDependency(g, t, d), Linked(t, {}), deps)
<1>1. /\ t \notin D
      /\ tasks' = [x \in D \cup {t} |-> IF x = t THEN Entry(deps, "BACKLOG") ELSE tasks[x]]
  BY DEF AddTask, WithKey, Entry
<1>2. Linked(t, {}) = [out |-> out, inDegree |-> WithKey(inDegree, t, 0)]
  <2>1. [d \in NodeIds |-> IF d \in {} THEN out[d] \cup {t} ELSE out[d]] = out
    BY DEF EdgesCounted
  <2> QED  BY <2>1, FS_EmptySet DEF Linked
<1>3. out' = linked.out /\ inDegree' = linked.inDegree
  BY <1>2, Zenon DEF AddTask
<1>4. EdgesTyped(t)
  BY <1>1 DEF EdgesTyped, EdgesCounted
<1>5. linked = Linked(t, ds)
  BY <1>4, AllEdges
<1> HIDE DEF linked
<1>6. /\ out' = [d \in NodeIds |-> IF d \in ds THEN out[d] \cup {t} ELSE out[d]]
      /\ inDegree' = [x \in D \cup {t} |-> IF x = t THEN Cardinality(ds) ELSE inDegree[x]]
  BY <1>3, <1>5 DEF Linked, WithKey, EdgesCounted
<1>7. Entry(deps, "BACKLOG").deps = deps
  BY DEF Entry
<1>8. DependsOn(t)' = ds /\ \A x \in D : DependsOn(x)' = DependsOn(x)
  BY <1>1, <1>7 DEF DependsOn
<1>9. DOMAIN tasks' = D \cup {t}
  BY <1>1
<1>10. \A x \in D \cup {t} : tasks'[x].deps \in Seq(NodeIds)
  BY <1>1, <1>7 DEF EdgesCounted
<1>11. out' = [d \in NodeIds |-> {x \in D \cup {t} : d \in DependsOn(x)'}]
  <2>1. \A d \in NodeIds : (IF d \in ds THEN out[d] \cup {t} ELSE out[d])
                              = {x \in D \cup {t} : d \in DependsOn(x)'}
    <3> HIDE DEF ds
    <3> QED  BY <1>1, <1>8 DEF EdgesCounted
  <2> HIDE DEF ds
  <2> QED  BY <1>6, <2>1
<1>12. inDegree' = [x \in D \cup {t} |-> Cardinality(DependsOn(x)')]
  <2> HIDE DEF ds
  <2> QED  BY <1>1, <1>6, <1>8 DEF EdgesCounted
<1> QED  BY <1>9, <1>10, <1>11, <1>12 DEF EdgesCounted

LEMMA EdgesStart == ASSUME GraphInit PROVE EdgesCounted
<1>1. DOMAIN tasks = {}
  BY DEF GraphInit
<1>2. inDegree = [t \in DOMAIN tasks |-> Cardinality(DependsOn(t))]
  BY <1>1 DEF GraphInit
<1> QED  BY <1>1, <1>2 DEF GraphInit, EdgesCounted

\* Adding a task counts its edges, and nothing else touches them.
LEMMA EdgesStep ==
  ASSUME GraphInv, EdgesCounted, [GraphNext]_graphVars PROVE EdgesCounted'
<1>1. ASSUME NEW t \in TaskIds, NEW deps \in BoundedSeq(NodeIds, MaxDeps), AddTask(t, deps)
      PROVE  EdgesCounted'
  <2>1. deps \in Seq(NodeIds)
    BY GraphAssumption DEF BoundedSeq, SeqOf
  <2> QED  BY <1>1, <2>1, AddedEdges
<1>2. CASE GetReadyTasks
  <2>1. \A t \in DOMAIN tasks : [tasks[t] EXCEPT !.status = "READY"] = Entry(tasks[t].deps, "READY")
    BY DEF GraphInv, Entry
  <2>2. \A t \in DOMAIN tasks : Entry(tasks[t].deps, "READY").deps = tasks[t].deps
    BY DEF Entry
  <2> QED  BY <1>2, <2>1, <2>2, EdgesStay DEF GetReadyTasks
<1>3. ASSUME NEW t \in DOMAIN tasks, TaskCompleted(t) PROVE EdgesCounted'
  <2>1. [tasks[t] EXCEPT !.status = "COMPLETED"] = Entry(tasks[t].deps, "COMPLETED")
    BY DEF GraphInv, Entry
  <2>2. Entry(tasks[t].deps, "COMPLETED").deps = tasks[t].deps
    BY DEF Entry
  <2>3. /\ DOMAIN tasks' = DOMAIN tasks
        /\ tasks'[t] = [tasks[t] EXCEPT !.status = "COMPLETED"]
        /\ \A s \in DOMAIN tasks \ {t} : tasks'[s] = tasks[s]
        /\ out' = out /\ inDegree' = inDegree
    BY <1>3 DEF TaskCompleted
  <2> QED  BY <2>1, <2>2, <2>3, EdgesStay
<1>4. CASE UNCHANGED graphVars
  BY <1>4, EdgesStay DEF graphVars
<1> QED  BY <1>1, <1>2, <1>3, <1>4 DEF GraphNext

\* The batches are those of the lists of dependencies, a graph is refused exactly
\* when some of its tasks can never start, and work on ready tasks never overtakes
\* the batches (GraphRunsInBatches): for any tasks, in any order, with dependencies
\* listed twice, of themselves or missing.
THEOREM TasksRunInBatches == GraphSpec => []GraphRunsInBatches
<1>1. GraphInit => GraphInv /\ EdgesCounted
  BY EdgesStart DEF GraphInit, GraphInv, NothingOvertakes
<1>2. GraphInv /\ EdgesCounted /\ [GraphNext]_graphVars => GraphInv' /\ EdgesCounted'
  BY GraphStep, EdgesStep
<1>3. GraphInv /\ EdgesCounted => GraphRunsInBatches
  BY RefusalIsRight, BatchesAreRight DEF GraphInv, GraphRunsInBatches
<1> QED  BY <1>1, <1>2, <1>3, PTL DEF GraphSpec

-----------------------------------------------------------------------------
(* Who gets a task.                                                        *)

Tiers == {"SMALL", "MEDIUM", "LARGE", "ENTERPRISE"}

\* The blueprints of a tier are a list of 3, 6, 10 or 15 tasks in at most 8 batches.
LEMMA PlanSizes ==
  ASSUME NEW tier \in Tiers
  PROVE  /\ Len(BlueprintsOf(tier)) \in Nat
         /\ DOMAIN BlueprintsOf(tier) = 1..Len(BlueprintsOf(tier))
         /\ \A t \in DOMAIN BlueprintsOf(tier) : BlueprintsOf(tier)[t].batch \in 1..8
<1>1. CASE tier = "SMALL"
  <2>1. DOMAIN SmallBlueprints = 1..3 /\ Len(SmallBlueprints) = 3
    BY DEF SmallBlueprints
  <2>2. \A t \in 1..3 : SmallBlueprints[t].batch \in 1..8
    BY DEF SmallBlueprints, Blueprint
  <2>3. BlueprintsOf(tier) = SmallBlueprints
    BY <1>1 DEF BlueprintsOf
  <2>4. Len(BlueprintsOf(tier)) = 3 /\ DOMAIN BlueprintsOf(tier) = 1..3
    BY <2>1, <2>3
  <2>5. \A t \in 1..3 : BlueprintsOf(tier)[t].batch \in 1..8
    BY <2>2, <2>3, Zenon
  <2> QED  BY <2>4, <2>5
<1>2. CASE tier # "SMALL"
  <2> DEFINE n == TierTaskCount[tier]
  <2>1. n \in 0..15
    BY <1>2 DEF TierTaskCount, Tiers
  <2>2. Len(Blueprints) = 15
    BY DEF Blueprints
  <2>3. \A t \in 1..15 : Blueprints[t].batch \in 1..8
    BY DEF Blueprints, Blueprint
  <2>4. BlueprintsOf(tier) = SubSeq(Blueprints, 1, n)
    BY <1>2 DEF BlueprintsOf
  <2> HIDE DEF n
  <2>5. SubSeq(Blueprints, 1, n) = [i \in 1..n |-> Blueprints[i]]
    BY <2>1, <2>2
  <2>6. Len(BlueprintsOf(tier)) = n /\ DOMAIN BlueprintsOf(tier) = 1..n
    BY <2>1, <2>4, <2>5
  <2>7. \A t \in 1..n : BlueprintsOf(tier)[t] = Blueprints[t] /\ t \in 1..15
    BY <2>1, <2>4, <2>5
  <2>8. \A t \in 1..n : BlueprintsOf(tier)[t].batch \in 1..8
    BY <2>3, <2>7, Zenon
  <2> QED  BY <2>1, <2>6, <2>8
<1> QED  BY <1>1, <1>2

\* The first of the staff that is among the candidates, an idle one if there is one.
LEMMA PickIsOneOf ==
  ASSUME staff \in Seq(Workers), NEW candidates \in SUBSET OnStaff, candidates # {}
  PROVE  Pick(candidates) \in candidates /\ Pick(candidates) \in Workers
<1> DEFINE preferred == IF candidates \ busy # {} THEN candidates \ busy ELSE candidates
           found == {i \in DOMAIN staff : staff[i] \in preferred}
           First(i) == staff[i] \in preferred /\ \A j \in 1..i - 1 : staff[j] \notin preferred
<1>1. preferred # {} /\ preferred \subseteq candidates
  OBVIOUS
<1>2. OnStaff = {staff[i] : i \in DOMAIN staff} /\ DOMAIN staff = 1..Len(staff) /\ Len(staff) \in Nat
  BY DEF OnStaff, ToSet
<1> HIDE DEF preferred
<1>3. found \in SUBSET Nat /\ found # {}
  BY <1>1, <1>2
<1>4. PICK i \in found : \A j \in found : i <= j
  <2> HIDE DEF found
  <2> QED  BY <1>3, LeastElement
<1>5. i \in DOMAIN staff /\ First(i)
  BY <1>2, <1>4
<1>6. (CHOOSE k \in DOMAIN staff : First(k)) \in DOMAIN staff
      /\ staff[CHOOSE k \in DOMAIN staff : First(k)] \in preferred
  BY <1>5
<1>7. Pick(candidates) = staff[CHOOSE k \in DOMAIN staff : First(k)]
  BY Zenon DEF Pick, preferred
<1>8. Pick(candidates) \in preferred
  BY <1>6, <1>7
<1> QED  BY <1>1, <1>2, <1>8

\* Whoever is taken could take the task, and is one who has none of the batch unless
\* all who could have one; nobody is taken only of an empty department.
LEMMA SelectionIsFair ==
  ASSUME staff \in Seq(Workers), NEW capability, NEW used \in SUBSET Workers
  PROVE  LET w == Select(capability, used)
             eligible == Eligible(capability)
         IN /\ w # NoWorker => /\ w \in eligible /\ w \in Workers
                               /\ (w \in used => eligible \subseteq used)
            /\ w = NoWorker => eligible \subseteq used /\ Members(TargetDepartment(capability)) = {}
<1> DEFINE skilled == Skilled(capability)
           members == Members(TargetDepartment(capability))
           w == Select(capability, used)
<1>1. skilled \in SUBSET OnStaff /\ members \in SUBSET OnStaff
  BY DEF Skilled, Members
<1>2. Eligible(capability) = skilled \cup members
  BY DEF Eligible
<1>3. NoWorker \notin Workers
  BY StaffAssumption
<1>4. w = CASE skilled \ used # {} -> Pick(skilled \ used)
            [] skilled \subseteq used /\ members \ used # {} -> Pick(members \ used)
            [] skilled \subseteq used /\ members \subseteq used /\ members # {} -> Pick(members)
            [] OTHER -> NoWorker
  BY Zenon DEF Select
<1> HIDE DEF skilled, members, w
<1>5. CASE skilled \ used # {}
  <2>1. w = Pick(skilled \ used)
    BY <1>4, <1>5
  <2>2. w \in skilled \ used /\ w \in Workers
    BY <1>1, <1>5, <2>1, PickIsOneOf
  <2> QED  BY <1>2, <1>3, <2>2 DEF w
<1>6. CASE skilled \subseteq used /\ members \ used # {}
  <2>1. w = Pick(members \ used)
    BY <1>4, <1>6
  <2>2. w \in members \ used /\ w \in Workers
    BY <1>1, <1>6, <2>1, PickIsOneOf
  <2> QED  BY <1>2, <1>3, <2>2 DEF w
<1>7. CASE skilled \subseteq used /\ members \subseteq used /\ members # {}
  <2>1. w = Pick(members)
    BY <1>4, <1>7
  <2>2. w \in members /\ w \in Workers
    BY <1>1, <1>7, <2>1, PickIsOneOf
  <2> QED  BY <1>2, <1>3, <1>7, <2>2 DEF w
<1>8. CASE skilled \subseteq used /\ members = {}
  <2>1. w = NoWorker
    BY <1>4, <1>8
  <2> QED  BY <1>2, <1>8, <2>1 DEF w, members
<1> QED  BY <1>5, <1>6, <1>7, <1>8

-----------------------------------------------------------------------------
(* Dealing out the tasks of a plan.                                        *)

Sizes(tier) == IF tier = "none" THEN 0 ELSE Len(BlueprintsOf(tier))
Entries == [status : {"PENDING", "READY", "ASSIGNED", "RUNNING", "FAILED", "COMPLETED"},
            worker : Workers \cup {NoWorker}]
PlansOf(tier) ==
  [tier : {tier}, tasks : [1..Sizes(tier) -> Entries], listed : [Workers -> SUBSET (1..Sizes(tier))]]
Dealings(tier) == [plan : PlansOf(tier), used : SUBSET Workers]

\* A task goes to whoever is selected, or to nobody.
Assigned(tier, p, used, t, w, a) ==
  /\ a \in Dealings(tier)
  /\ w = NoWorker => a.plan.listed = p.listed /\ a.used = used
  /\ w # NoWorker =>
       /\ a.plan.listed = [v \in Workers |-> IF v = w THEN p.listed[v] \cup {t} ELSE p.listed[v]]
       /\ a.used = used \cup {w}

LEMMA TaskIsAssigned ==
  ASSUME staff \in Seq(Workers), NEW tier \in Tiers, NEW p \in PlansOf(tier),
         NEW used \in SUBSET Workers, NEW t \in 1..Sizes(tier)
  PROVE  Assigned(tier, p, used, t, Select(BlueprintsOf(tier)[t].capability, used),
                  AssignTask(p, used, t))
<1> DEFINE a == AssignTask(p, used, t)
           w == Select(BlueprintsOf(tier)[t].capability, used)
           e == [status |-> "ASSIGNED", worker |-> w]
           q == [p EXCEPT !.tasks[t] = e, !.listed[w] = @ \cup {t}]
           Deal(x, y) == [plan |-> x, used |-> y]
<1>1. a = IF w = NoWorker THEN Deal(p, used) ELSE Deal(q, used \cup {w})
  BY DEF AssignTask, PlansOf
<1>2. w = NoWorker \/ w \in Workers
  BY SelectionIsFair
<1> HIDE DEF a, w
<1>3. CASE w = NoWorker
  <2>1. a = Deal(p, used)
    BY <1>1, <1>3
  <2>2. a \in Dealings(tier)
    BY <2>1 DEF Dealings
  <2> QED  BY <1>3, <2>1, <2>2 DEF a, w, Assigned
<1>4. CASE w # NoWorker
  <2>1. w \in Workers /\ e \in Entries
    BY <1>2, <1>4 DEF Entries
  <2> HIDE DEF e
  <2>2. /\ q \in PlansOf(tier)
        /\ q.listed = [v \in Workers |-> IF v = w THEN p.listed[v] \cup {t} ELSE p.listed[v]]
    <3>1. q.tier = tier /\ q.tasks \in [1..Sizes(tier) -> Entries]
      BY <2>1 DEF PlansOf
    <3>2. q.listed = [p.listed EXCEPT ![w] = p.listed[w] \cup {t}]
      BY DEF PlansOf
    <3>3. q = [tier |-> q.tier, tasks |-> q.tasks, listed |-> q.listed]
      <4>1. q = [p EXCEPT !.tasks[t] = e, !.listed[w] = @ \cup {t}]
        OBVIOUS
      <4> HIDE DEF q
      <4> QED  BY <4>1 DEF PlansOf
    <3> HIDE DEF q
    <3>4. q.listed = [v \in Workers |-> IF v = w THEN p.listed[v] \cup {t} ELSE p.listed[v]]
      BY <2>1, <3>2 DEF PlansOf
    <3>5. q.listed \in [Workers -> SUBSET (1..Sizes(tier))]
      BY <3>4 DEF PlansOf
    <3> QED  BY <3>1, <3>3, <3>4, <3>5 DEF PlansOf
  <2>3. a = Deal(q, used \cup {w})
    BY <1>1, <1>4
  <2> HIDE DEF q
  <2>4. a \in Dealings(tier) /\ a.plan = q /\ a.used = used \cup {w}
    BY <2>1, <2>2, <2>3 DEF Dealings
  <2> QED  BY <1>4, <2>2, <2>4 DEF a, w, Assigned
<1> QED  BY <1>3, <1>4

\* One task of DealtFairly, by what the workers are listed for.
Earlier(tier, t) == {u \in 1..t - 1 : BlueprintsOf(tier)[u].batch = BlueprintsOf(tier)[t].batch}
Having(listed, ts) == {w \in Workers : listed[w] \cap ts # {}}
OwnersOf(listed, t) == {w \in Workers : t \in listed[w]}
FairFor(tier, listed, t) ==
  LET eligible == Eligible(BlueprintsOf(tier)[t].capability)
      taken == Having(listed, Earlier(tier, t))
      dealtTo == OwnersOf(listed, t)
  IN /\ dealtTo \subseteq eligible /\ Cardinality(dealtTo) <= 1
     /\ (dealtTo \subseteq taken => eligible \subseteq taken)
     /\ (dealtTo = {} => Members(TargetDepartment(BlueprintsOf(tier)[t].capability)) = {})

LEMMA FairIsFair ==
  ASSUME NEW p, \A t \in DOMAIN p.tasks : FairFor(p.tier, p.listed, t) PROVE DealtFairly(p)
  BY DEF DealtFairly, FairFor, Earlier, Having, OwnersOf

\* The tasks of the first n batches.
FirstBatches(tier, n) == {t \in 1..Sizes(tier) : BlueprintsOf(tier)[t].batch <= n}

\* Nothing but ts has been dealt out, and that fairly.
Dealt(tier, p, ts) ==
  /\ p \in PlansOf(tier) /\ p.listed \in [Workers -> SUBSET ts]
  /\ \A t \in ts : FairFor(tier, p.listed, t)

LEMMA FairStays ==
  ASSUME NEW tier, NEW before, NEW after, NEW t, FairFor(tier, before, t),
         OwnersOf(after, t) = OwnersOf(before, t),
         Having(after, Earlier(tier, t)) = Having(before, Earlier(tier, t))
  PROVE  FairFor(tier, after, t)
  BY DEF FairFor

\* Of batch n, nothing but s has been dealt out, and its workers are remembered.
DealtOf(tier, n, s, a) ==
  Dealt(tier, a.plan, FirstBatches(tier, n - 1) \cup s) /\ a.used = Having(a.plan.listed, s)

\* The next task of a batch, once those before it in the batch have been dealt out.
LEMMA TaskIsDealt ==
  ASSUME staff \in Seq(Workers), NEW tier \in Tiers, NEW n \in 1..8, NEW t \in Batch(tier, n),
         NEW s, s = Earlier(tier, t), NEW dealt, dealt = s \cup {t}, NEW c, DealtOf(tier, n, s, c)
  PROVE  DealtOf(tier, n, dealt, AssignTask(c.plan, c.used, t))
<1> DEFINE ts == FirstBatches(tier, n - 1) \cup s
           p == c.plan
           used == c.used
           a == AssignTask(p, used, t)
           bp == BlueprintsOf(tier)
           w == Select(bp[t].capability, used)
           listed == a.plan.listed
<1>1. /\ t \in 1..Sizes(tier) /\ bp[t].batch = n /\ Sizes(tier) \in Nat
      /\ \A u \in 1..Sizes(tier) : bp[u].batch \in 1..8
  BY PlanSizes DEF Batch, Sizes, Tiers
<1>2. s = {u \in 1..t - 1 : bp[u].batch = n}
  BY <1>1 DEF Earlier
<1>3. t \notin ts /\ t \notin s /\ ts \subseteq 1..Sizes(tier)
  BY <1>1, <1>2 DEF FirstBatches
<1>4. \A u \in ts : t # u /\ t \notin Earlier(tier, u)
  BY <1>1, <1>2 DEF FirstBatches, Earlier
<1>5. /\ used = Having(p.listed, s)
      /\ p \in PlansOf(tier) /\ p.listed \in [Workers -> SUBSET ts]
      /\ \A u \in ts : FairFor(tier, p.listed, u)
  BY DEF DealtOf, Dealt
<1>6. used \in SUBSET Workers
  BY <1>5 DEF Having
<1>0. Assigned(tier, p, used, t, w, a)
  <2>1. t \in 1..Sizes(tier) /\ p \in PlansOf(tier)
    BY <1>1, <1>5
  <2> HIDE DEF used
  <2> QED  BY <1>6, <2>1, TaskIsAssigned
<1>7. /\ a.plan \in PlansOf(tier)
      /\ w = NoWorker => listed = p.listed /\ a.used = used
      /\ w # NoWorker =>
           /\ listed = [v \in Workers |-> IF v = w THEN p.listed[v] \cup {t} ELSE p.listed[v]]
           /\ a.used = used \cup {w}
  <2> HIDE DEF a, w, used
  <2> QED  BY <1>0 DEF Assigned, Dealings
<1>8. /\ w # NoWorker => /\ w \in Eligible(bp[t].capability) /\ w \in Workers
                         /\ (w \in used => Eligible(bp[t].capability) \subseteq used)
      /\ w = NoWorker => /\ Eligible(bp[t].capability) \subseteq used
                         /\ Members(TargetDepartment(bp[t].capability)) = {}
  <2> HIDE DEF used, bp
  <2> QED  BY <1>6, SelectionIsFair
<1> HIDE DEF a, w, used, bp, p
<1>9. listed \in [Workers -> SUBSET (ts \cup {t})] /\ a.plan \in PlansOf(tier)
  <2>1. a.plan \in PlansOf(tier)
    BY <1>7
  <2>2. listed \in [Workers -> SUBSET (ts \cup {t})]
    <3> HIDE DEF ts, listed
    <3> QED  BY <1>5, <1>7
  <2> QED  BY <2>1, <2>2
<1>10. \A v \in Workers : \A u : u # t => (u \in listed[v] <=> u \in p.listed[v])
  <2> HIDE DEF ts, listed
  <2> QED  BY <1>5, <1>7
<1>11. OwnersOf(listed, t) = IF w = NoWorker THEN {} ELSE {w}
  <2>1. \A v \in Workers : t \notin p.listed[v]
    BY <1>3, <1>5
  <2> HIDE DEF ts, listed
  <2> QED  BY <1>5, <1>7, <1>8, <2>1 DEF OwnersOf
<1>12. Having(listed, s) = used
  <2> HIDE DEF ts, listed
  <2> QED  BY <1>3, <1>5, <1>10 DEF Having
<1>13. a.used = Having(listed, s \cup {t})
  <2>1. Having(listed, s \cup {t}) = Having(listed, s) \cup OwnersOf(listed, t)
    BY DEF Having, OwnersOf
  <2> HIDE DEF listed
  <2> QED  BY <1>7, <1>11, <1>12, <2>1
<1>14. FairFor(tier, listed, t)
  <2>1. OwnersOf(listed, t) \subseteq Eligible(bp[t].capability)
    BY <1>8, <1>11
  <2>2. Cardinality(OwnersOf(listed, t)) <= 1
    <3>1. OwnersOf(listed, t) = {} \/ OwnersOf(listed, t) = {w}
      BY <1>11
    <3>2. Cardinality({}) = 0 /\ Cardinality({w}) = 1
      BY FS_EmptySet, FS_Singleton
    <3> HIDE DEF listed
    <3>3. CASE OwnersOf(listed, t) = {}
      BY <3>2, <3>3
    <3>4. CASE OwnersOf(listed, t) = {w}
      BY <3>2, <3>4
    <3> QED  BY <3>1, <3>3, <3>4
  <2>3. OwnersOf(listed, t) \subseteq used => Eligible(bp[t].capability) \subseteq used
    BY <1>8, <1>11
  <2>4. OwnersOf(listed, t) = {} => Members(TargetDepartment(bp[t].capability)) = {}
    BY <1>8, <1>11
  <2> QED  BY <1>12, <2>1, <2>2, <2>3, <2>4 DEF FairFor, bp
<1>15. ASSUME NEW u \in ts PROVE FairFor(tier, listed, u)
  <2>1. OwnersOf(listed, u) = OwnersOf(p.listed, u)
    BY <1>4, <1>10 DEF OwnersOf
  <2>2. Having(listed, Earlier(tier, u)) = Having(p.listed, Earlier(tier, u))
    BY <1>4, <1>10 DEF Having
  <2> HIDE DEF ts, listed
  <2> QED  BY <1>5, <2>1, <2>2, FairStays
<1>16. Dealt(tier, a.plan, ts \cup {t})
  BY <1>9, <1>14, <1>15 DEF Dealt
<1>17. ts \cup {t} = FirstBatches(tier, n - 1) \cup dealt
  OBVIOUS
<1> QED  BY <1>13, <1>16, <1>17 DEF DealtOf, a, used, p

\* A batch: from its first task to its last.
LEMMA BatchIsDealt ==
  ASSUME staff \in Seq(Workers), NEW tier \in Tiers, NEW n \in 1..8, NEW p \in PlansOf(tier)
  PROVE  /\ AssignBatch(p, n) \in PlansOf(tier)
         /\ Dealt(tier, p, FirstBatches(tier, n - 1)) => Dealt(tier, AssignBatch(p, n), FirstBatches(tier, n))
<1> DEFINE B == Batch(tier, n)
           V == Dealings(tier)
           base == [plan |-> p, used |-> {}]
           F == [t \in B |-> [a \in V |-> AssignTask(a.plan, a.used, t)]]
           Goes(g) == g = [s \in SUBSET B |->
                             IF s = {} THEN base
                             ELSE AssignTask(g[s \ {Max(s)}].plan, g[s \ {Max(s)}].used, Max(s))]
           size == Sizes(tier)
           bp == BlueprintsOf(tier)
<1>1. /\ size \in Nat /\ B = {t \in 1..size : bp[t].batch = n} /\ IsFiniteSet(B)
      /\ \A t \in 1..size : bp[t].batch \in 1..8
  <2>1. /\ size \in Nat /\ B = {t \in 1..size : bp[t].batch = n}
        /\ \A t \in 1..size : bp[t].batch \in 1..8
    BY PlanSizes DEF Batch, Sizes, Tiers
  <2>2. IsFiniteSet(1..size)
    BY <2>1, FS_Interval
  <2>3. IsFiniteSet(B)
    BY <2>1, <2>2, FS_Subset
  <2> QED  BY <2>1, <2>3
<1>2. p.tier = tier
  BY DEF PlansOf
<1>3. base \in V
  BY DEF Dealings
<1>4. \A t \in B : \A a \in V : AssignTask(a.plan, a.used, t) \in V
  <2> SUFFICES ASSUME NEW t \in B, NEW a \in V PROVE AssignTask(a.plan, a.used, t) \in V
    OBVIOUS
  <2>1. t \in 1..Sizes(tier) /\ a.plan \in PlansOf(tier) /\ a.used \in SUBSET Workers
    BY <1>1 DEF Dealings
  <2>2. Assigned(tier, a.plan, a.used, t, Select(BlueprintsOf(tier)[t].capability, a.used),
                 AssignTask(a.plan, a.used, t))
    BY <2>1, TaskIsAssigned
  <2> QED  BY <2>2 DEF Assigned
<1>5. F \in [B -> [V -> V]]
  BY <1>4
<1>6. AssignBatch(p, n) = (CHOOSE g : Goes(g))[B].plan
  <2> HIDE DEF base
  <2>1. MapThenFoldSet(LAMBDA t, a : AssignTask(a.plan, a.used, t), base, LAMBDA t : t, Max, Batch(p.tier, n))
          = (CHOOSE g : Goes(g))[B]
    BY <1>2, Zenon DEF MapThenFoldSet
  <2> QED  BY <2>1, Zenon DEF AssignBatch, base
<1>7. PICK h \in [SUBSET B -> V] : FoldsUp(h, base, F, B)
  <2>1. B \in SUBSET (1..size)
    BY <1>1
  <2> HIDE DEF B, V, base, F, size
  <2> QED  BY <1>1, <1>3, <1>5, <2>1, FoldsExist
<1>8. Goes(h)
  <2>1. ASSUME NEW s \in SUBSET B
        PROVE  h[s] = IF s = {} THEN base
                      ELSE AssignTask(h[s \ {Max(s)}].plan, h[s \ {Max(s)}].used, Max(s))
    <3>1. h[s] = IF s = {} THEN base ELSE F[Max(s)][h[s \ {Max(s)}]]
      BY <1>7, Zenon DEF FoldsUp
    <3>2. s # {} => Max(s) \in B
      <4> HIDE DEF bp
      <4> QED  BY <1>1, MaxIsGreatest
    <3>3. h[s \ {Max(s)}] \in V
      <4> HIDE DEF V, B
      <4> QED  BY <1>7
    <3>4. s # {} => F[Max(s)][h[s \ {Max(s)}]]
                      = AssignTask(h[s \ {Max(s)}].plan, h[s \ {Max(s)}].used, Max(s))
      <4> HIDE DEF V, B
      <4> QED  BY <3>2, <3>3
    <3> HIDE DEF F, V, B
    <3> QED  BY <3>1, <3>4
  <2>2. h = [s \in SUBSET B |-> h[s]]
    <3> HIDE DEF B, V, F, base
    <3> QED  BY <1>7
  <2> HIDE DEF B, base
  <2> QED  BY <2>1, <2>2, Zenon
<1> DEFINE it == CHOOSE g : Goes(g)
<1>9. Goes(it)
  <2> HIDE DEF Goes
  <2> QED  BY <1>8, Zenon
<1> HIDE DEF it
\* it is typed, and fair as far as it goes without leaving a task of the batch out.
<1> DEFINE Whole(s) == \A t \in s : \A u \in B : u < t => u \in s
           Right(s) == Whole(s) => DealtOf(tier, n, s, it[s])
           good == {s \in SUBSET B : /\ it[s] \in V
                                     /\ (Dealt(tier, p, FirstBatches(tier, n - 1)) => Right(s))}
<1>10. ASSUME NEW s \in SUBSET B, \A u \in SUBSET s : u # s => u \in good PROVE s \in good
  <2>1. CASE s = {}
    <3>1. it[s] = base
      BY <1>9, <2>1
    <3>2. Having(p.listed, {}) = {}
      BY DEF Having
    <3>3. it[s].plan = p /\ it[s].used = {} /\ FirstBatches(tier, n - 1) \cup s = FirstBatches(tier, n - 1)
      BY <2>1, <3>1
    <3> HIDE DEF base, V
    <3> QED  BY <1>3, <2>1, <3>1, <3>2, <3>3 DEF DealtOf
  <2>2. CASE s # {}
    <3> DEFINE t == Max(s)
               before == s \ {t}
               a == it[before]
    <3>1. t \in s /\ \A x \in s : x <= t
      <4> HIDE DEF bp
      <4> QED  BY <1>1, <2>2, MaxIsGreatest
    <3>2. it[s] = AssignTask(a.plan, a.used, t)
      BY <1>9, <2>2
    <3> HIDE DEF t
    <3>3. before \in good
      BY <1>10, <3>1
    <3>4. it[s] \in V
      BY <1>4, <3>1, <3>2, <3>3
    <3>5. ASSUME Dealt(tier, p, FirstBatches(tier, n - 1)), Whole(s)
          PROVE  DealtOf(tier, n, s, it[s])
      <4>1. Whole(before)
        <5> HIDE DEF it
        <5> QED  BY <1>1, <3>1, <3>5
      <4>2. DealtOf(tier, n, before, a)
        BY <3>3, <3>5, <4>1
      <4>3. before = Earlier(tier, t)
        <5>1. t \in 1..size /\ bp[t].batch = n
          BY <1>1, <3>1
        <5>2. ASSUME NEW u \in before PROVE u \in Earlier(tier, t)
          BY <1>1, <3>1, <5>1 DEF Earlier
        <5>3. ASSUME NEW u \in Earlier(tier, t) PROVE u \in before
          BY <1>1, <3>1, <3>5, <5>1 DEF Earlier
        <5> QED  BY <5>2, <5>3
      <4>4. before \cup {t} = s
        BY <3>1
      <4>5. t \in Batch(tier, n)
        BY <3>1
      <4> HIDE DEF a, before, B
      <4>6. DealtOf(tier, n, s, AssignTask(a.plan, a.used, t))
        <5>1. staff \in Seq(Workers) /\ n \in 1..8 /\ before = Earlier(tier, t) /\ s = before \cup {t}
          BY <4>3, <4>4
        <5> QED  BY <4>2, <4>5, <5>1, TaskIsDealt, Zenon
      <4> QED  BY <3>2, <4>6, Zenon
    <3> QED  BY <3>4, <3>5
  <2> QED  BY <2>1, <2>2
<1>11. B \in good
  <2>1. \A s \in SUBSET B : (\A u \in SUBSET s : u # s => u \in good) => s \in good
    BY <1>10
  <2>2. IsFiniteSet(B)
    BY <1>1
  <2>3. SUBSET B \subseteq good
    <3> HIDE DEF good, B
    <3> QED  BY <2>1, <2>2, EverySubset
  <2> QED  BY <2>3
<1>12. FirstBatches(tier, n - 1) \cup B = FirstBatches(tier, n)
  <2>1. \A t \in 1..size : bp[t].batch <= n <=> (bp[t].batch <= n - 1 \/ bp[t].batch = n)
    <3>1. \A k \in 1..8 : k <= n <=> (k <= n - 1 \/ k = n)
      OBVIOUS
    <3> HIDE DEF B, size, bp
    <3> QED  BY <1>1, <3>1
  <2>2. FirstBatches(tier, n) = {t \in 1..size : bp[t].batch <= n}
        /\ FirstBatches(tier, n - 1) = {t \in 1..size : bp[t].batch <= n - 1}
    BY DEF FirstBatches
  <2> HIDE DEF size, bp
  <2> QED  BY <1>1, <2>1, <2>2
<1>13. AssignBatch(p, n) = it[B].plan
  BY <1>6 DEF it
<1>14. Whole(B) /\ it[B] \in V /\ (Dealt(tier, p, FirstBatches(tier, n - 1)) => Right(B))
  BY <1>11
<1> HIDE DEF B, it, V
<1> QED  BY <1>12, <1>13, <1>14 DEF V, Dealings, DealtOf

\* A plan's tasks are all dealt out, batch by batch, and fairly.
LEMMA PlanIsDealt ==
  ASSUME staff \in Seq(Workers), NEW tier \in Tiers, NEW p \in PlansOf(tier)
  PROVE  AssignPlanTasks(p) \in PlansOf(tier) /\ DealtFairly(AssignPlanTasks(p))
<1> DEFINE S == 0..8
           V == PlansOf(tier)
           fresh == [p EXCEPT !.listed = [w \in Workers |-> {}]]
           rank == [n \in S |-> n]
           first == [n \in S |-> fresh]
           before == [n \in S |-> n - 1]
           F == [n \in S |-> [v \in V |-> AssignBatch(v, n)]]
           Goes(g) == g = [n \in 0..8 |-> IF n = 0 THEN fresh ELSE AssignBatch(g[n - 1], n)]
<1>1. /\ fresh \in V /\ fresh.listed = [w \in Workers |-> {}]
      /\ \A q \in V : q.tier = tier /\ DOMAIN q.tasks = 1..Sizes(tier)
  BY DEF PlansOf
<1>2. \A n \in 1..8 : \A v \in V : AssignBatch(v, n) \in V
  BY BatchIsDealt
<1>3. rank \in [S -> 0..8] /\ first \in [S -> V] /\ 8 \in Nat
  BY <1>1
<1>4. Descends(S, V, rank, before, F)
  <2> SUFFICES ASSUME NEW n \in S, rank[n] # 0
               PROVE  /\ before[n] \in S /\ rank[before[n]] < rank[n]
                      /\ \A v \in V : F[n][v] \in V
    BY DEF Descends
  <2>1. n \in 1..8 /\ before[n] = n - 1 /\ n - 1 \in S /\ rank[n] = n /\ rank[n - 1] = n - 1
    OBVIOUS
  <2>2. \A v \in V : F[n][v] = AssignBatch(v, n)
    OBVIOUS
  <2> HIDE DEF rank, before, F, V
  <2> QED  BY <1>2, <2>1, <2>2
<1>5. PICK h \in [S -> V] : Solves(h, S, rank, first, before, F)
  <2> DEFINE k == 8
  <2>1. k \in Nat /\ rank \in [S -> 0..k]
    BY <1>3
  <2> HIDE DEF S, V, rank, first, before, F, k
  <2> QED  BY <1>3, <1>4, <2>1, RecursionByRank
<1>6. Goes(h)
  <2>1. ASSUME NEW n \in 0..8 PROVE h[n] = IF n = 0 THEN fresh ELSE AssignBatch(h[n - 1], n)
    <3>1. h[n] = IF rank[n] = 0 THEN first[n] ELSE F[n][h[before[n]]]
      BY <1>5, Zenon DEF Solves
    <3>2. rank[n] = n /\ first[n] = fresh /\ before[n] = n - 1
      <4> HIDE DEF fresh
      <4> QED  OBVIOUS
    <3>3. n # 0 => F[n][h[n - 1]] = AssignBatch(h[n - 1], n)
      <4>1. n # 0 => h[n - 1] \in V
        <5> HIDE DEF V
        <5> QED  BY <1>5
      <4> HIDE DEF V
      <4> QED  BY <4>1
    <3> HIDE DEF rank, first, before, F, fresh
    <3> QED  BY <3>1, <3>2, <3>3
  <2>2. h = [n \in 0..8 |-> h[n]]
    <3> HIDE DEF V, rank, first, before, F
    <3> QED  BY <1>5
  <2> HIDE DEF fresh
  <2> QED  BY <2>1, <2>2, Zenon
<1> DEFINE it == CHOOSE g : Goes(g)
<1>7. Goes(it)
  <2> HIDE DEF Goes
  <2> QED  BY <1>6, Zenon
<1>8. AssignPlanTasks(p) = it[8]
  BY Zenon DEF AssignPlanTasks
<1> HIDE DEF it
<1>9. it[0] = fresh /\ \A n \in 1..8 : it[n] = AssignBatch(it[n - 1], n)
  <2> HIDE DEF fresh
  <2> QED  BY <1>7
<1>10. /\ Sizes(tier) \in Nat
       /\ \A t \in 1..Sizes(tier) : BlueprintsOf(tier)[t].batch \in 1..8
  BY PlanSizes DEF Sizes, Tiers
<1>11. Dealt(tier, fresh, FirstBatches(tier, 0))
  <2>1. FirstBatches(tier, 0) = {}
    BY <1>10 DEF FirstBatches
  <2> HIDE DEF fresh
  <2> QED  BY <1>1, <2>1 DEF Dealt
<1> DEFINE good == {n \in 0..8 : Dealt(tier, it[n], FirstBatches(tier, n))}
<1>12. ASSUME NEW n \in 0..8, \A m \in 0..8 : m < n => m \in good PROVE n \in good
  <2>1. CASE n = 0
    BY <1>9, <1>11, <2>1
  <2>2. CASE n # 0
    <3> DEFINE m == n - 1
               q == it[m]
    <3>1. m \in good /\ n \in 1..8 /\ m = n - 1
      BY <1>12, <2>2
    <3>2. it[n] = AssignBatch(q, n) /\ Dealt(tier, q, FirstBatches(tier, m)) /\ q \in PlansOf(tier)
      BY <1>9, <3>1 DEF Dealt
    <3> HIDE DEF q
    <3>3. Dealt(tier, AssignBatch(q, n), FirstBatches(tier, n))
      BY <3>1, <3>2, BatchIsDealt
    <3> QED  BY <3>2, <3>3
  <2> QED  BY <2>1, <2>2
<1>13. 8 \in good
  <2> DEFINE k == 8
  <2>1. k \in Nat /\ \A n \in 0..k : (\A m \in 0..k : m < n => m \in good) => n \in good
    BY <1>12
  <2>2. 0..k \subseteq good
    <3> HIDE DEF good, k
    <3> QED  BY <2>1, UpTo
  <2> QED  BY <2>2
<1>14. FirstBatches(tier, 8) = 1..Sizes(tier)
  <2>1. \A t \in 1..Sizes(tier) : BlueprintsOf(tier)[t].batch <= 8
    BY <1>10
  <2> QED  BY <2>1 DEF FirstBatches
<1> DEFINE r == it[8]
<1>15. r \in V /\ \A t \in 1..Sizes(tier) : FairFor(tier, r.listed, t)
  BY <1>13, <1>14 DEF Dealt
<1>16. r.tier = tier /\ DOMAIN r.tasks = 1..Sizes(tier)
  BY <1>1, <1>15
<1> HIDE DEF r, V
<1>17. DealtFairly(r)
  BY <1>15, <1>16, FairIsFair
<1> QED  BY <1>8, <1>15, <1>17 DEF r, V

-----------------------------------------------------------------------------
(* The desk.                                                               *)

NoTier == "none"
AnyPlan == UNION {PlansOf(tier) : tier \in Tiers \cup {NoTier}}
Orders == [id : MissionIds, tier : Tiers]

\* The staff is a list of workers, and every plan is one of a tier, or none.
DeskInv ==
  /\ now \in MissionIds /\ staff \in Seq(Workers)
  /\ plan \in [MissionIds -> AnyPlan] /\ pending \in Seq(Orders)

LEMMA DeskStart == ASSUME DeskInit PROVE DeskInv
<1>1. now \in MissionIds /\ staff \in Seq(Workers) /\ pending \in Seq(Orders)
  BY StaffAssumption DEF DeskInit, MissionIds
<1>2. NoPlan \in PlansOf("none")
  <2>1. <<>> \in [1..0 -> Entries]
    OBVIOUS
  <2> QED  BY <2>1 DEF NoPlan, PlansOf, Sizes
<1>3. plan \in [MissionIds -> AnyPlan]
  BY <1>2 DEF DeskInit, AnyPlan, NoTier
<1> QED  BY <1>1, <1>3 DEF DeskInv

LEMMA NewPlanTypes == ASSUME NEW tier \in Tiers PROVE NewPlan(tier) \in PlansOf(tier)
<1> DEFINE tasks1 == [t \in DOMAIN BlueprintsOf(tier) |->
                        [status |-> IF t = 1 THEN "READY" ELSE "PENDING", worker |-> NoWorker]]
           listed1 == [w \in Workers |-> {}]
<1>1. DOMAIN BlueprintsOf(tier) = 1..Sizes(tier)
  BY PlanSizes DEF Sizes, Tiers
<1>2. tasks1 \in [1..Sizes(tier) -> Entries]
  BY <1>1 DEF Entries
<1>3. listed1 \in [Workers -> SUBSET (1..Sizes(tier))]
  OBVIOUS
<1>4. NewPlan(tier) = [tier |-> tier, tasks |-> tasks1, listed |-> listed1]
  <2> HIDE DEF tasks1, listed1
  <2>1. NoPlan = [tier |-> "none", tasks |-> <<>>, listed |-> listed1]
    BY DEF NoPlan, listed1
  <2>2. NewPlan(tier) = [NoPlan EXCEPT !.tier = tier, !.tasks = tasks1]
    BY DEF NewPlan, tasks1
  <2> QED  BY <2>1, <2>2
<1> HIDE DEF tasks1, listed1
<1> QED  BY <1>2, <1>3, <1>4 DEF PlansOf

\* A step that deals plan id out anew, or leaves who is listed.
PlanStep(id, q) ==
  /\ plan' = [plan EXCEPT ![id] = q] /\ q \in AnyPlan
  /\ q.listed # plan[id].listed => DealtFairly(q)
DealtAnewIsFair ==
  \A id \in MissionIds : plan'[id].listed # plan[id].listed => DealtFairly(plan'[id])

LEMMA PlanSteps ==
  ASSUME DeskInv, NEW id \in MissionIds, NEW q, PlanStep(id, q)
  PROVE  plan' \in [MissionIds -> AnyPlan] /\ DealtAnewIsFair
<1>1. plan' = [i \in MissionIds |-> IF i = id THEN q ELSE plan[i]]
  BY DEF DeskInv, PlanStep
<1>2. plan' \in [MissionIds -> AnyPlan]
  BY <1>1 DEF DeskInv, PlanStep
<1>3. ASSUME NEW i \in MissionIds, plan'[i].listed # plan[i].listed PROVE DealtFairly(plan'[i])
  <2>1. i = id /\ plan'[i] = q
    BY <1>1, <1>3
  <2> QED  BY <1>3, <2>1 DEF PlanStep
<1> QED  BY <1>2, <1>3 DEF DealtAnewIsFair

\* What becomes of the tasks of a plan.
LEMMA TaskSteps ==
  ASSUME DeskInv, NEW id \in MissionIds, NEW ts,
         plan' = [plan EXCEPT ![id].tasks = ts], ts \in [DOMAIN plan[id].tasks -> Entries]
  PROVE  plan' \in [MissionIds -> AnyPlan] /\ DealtAnewIsFair
<1> DEFINE p == plan[id]
           q == [tier |-> p.tier, tasks |-> ts, listed |-> p.listed]
<1>1. PICK tier \in Tiers \cup {NoTier} : p \in PlansOf(tier)
  BY DEF DeskInv, AnyPlan
<1>2. p = [tier |-> p.tier, tasks |-> p.tasks, listed |-> p.listed]
      /\ p.tier = tier /\ DOMAIN p.tasks = 1..Sizes(tier)
      /\ p.listed \in [Workers -> SUBSET (1..Sizes(tier))]
  BY <1>1 DEF PlansOf
<1>3. plan' = [plan EXCEPT ![id] = q]
  <2>1. [p EXCEPT !.tasks = ts] = q
    <3> HIDE DEF p
    <3> QED  BY <1>2
  <2>2. plan' = [plan EXCEPT ![id] = [p EXCEPT !.tasks = ts]]
    OBVIOUS
  <2> HIDE DEF p, q
  <2> QED  BY <2>1, <2>2
<1>4. q \in PlansOf(tier)
  BY <1>2 DEF PlansOf
<1>5. PlanStep(id, q)
  <2>1. q \in AnyPlan
    BY <1>4 DEF AnyPlan
  <2> QED  BY <1>3, <2>1 DEF PlanStep
<1> QED  BY <1>5, PlanSteps

LEMMA TaskTypes ==
  ASSUME DeskInv, NEW id \in MissionIds
  PROVE  plan[id].tasks \in [DOMAIN plan[id].tasks -> Entries]
<1>1. PICK tier \in Tiers \cup {NoTier} : plan[id] \in PlansOf(tier)
  BY DEF DeskInv, AnyPlan
<1> QED  BY <1>1 DEF PlansOf

LEMMA TaskBecomesTypes ==
  ASSUME DeskInv, NEW id \in MissionIds, NEW t \in DOMAIN plan[id].tasks,
         NEW s \in {"RUNNING", "FAILED", "COMPLETED"}, TaskBecomes(id, t, s)
  PROVE  plan' \in [MissionIds -> AnyPlan] /\ DealtAnewIsFair
<1> DEFINE ts == [plan[id].tasks EXCEPT ![t].status = s]
<1>1. plan' = [plan EXCEPT ![id].tasks = ts]
  BY DEF TaskBecomes
<1>2. ts \in [DOMAIN plan[id].tasks -> Entries]
  BY TaskTypes DEF Entries
<1> HIDE DEF ts
<1> QED  BY <1>1, <1>2, TaskSteps

LEMMA StartTypes ==
  ASSUME DeskInv, NEW id \in MissionIds, StartMission(id)
  PROVE  plan' \in [MissionIds -> AnyPlan] /\ DealtAnewIsFair
<1> DEFINE old == plan[id].tasks
           ts == [t \in DOMAIN old |-> IF old[t].status \in {"ASSIGNED", "READY"}
                                        THEN [old[t] EXCEPT !.status = "RUNNING"] ELSE old[t]]
<1>1. plan' = [plan EXCEPT ![id].tasks = ts]
  BY DEF StartMission
<1>2. ts \in [DOMAIN plan[id].tasks -> Entries]
  BY TaskTypes DEF Entries
<1> HIDE DEF ts
<1> QED  BY <1>1, <1>2, TaskSteps

LEMMA DealtAnew ==
  ASSUME DeskInv, NEW id \in MissionIds, NEW tier \in Tiers, NEW p \in PlansOf(tier),
         plan' = [plan EXCEPT ![id] = AssignPlanTasks(p)]
  PROVE  plan' \in [MissionIds -> AnyPlan] /\ DealtAnewIsFair
<1> DEFINE q == AssignPlanTasks(p)
<1>1. q \in PlansOf(tier) /\ DealtFairly(q)
  BY PlanIsDealt DEF DeskInv
<1> HIDE DEF q
<1>2. PlanStep(id, q)
  <2>1. q \in AnyPlan
    BY <1>1 DEF AnyPlan
  <2>2. plan' = [plan EXCEPT ![id] = q]
    BY DEF q
  <2> QED  BY <1>1, <2>1, <2>2 DEF PlanStep
<1> QED  BY <1>2, PlanSteps

LEMMA DeskStep == ASSUME DeskInv, DeskNext PROVE DeskInv' /\ DealtAnewIsFair
<1>1. CASE UNCHANGED <<plan, pending>> /\ (Tick \/ CreateMission \/ \E w \in Workers : Register(w) \/ Dismiss(w) \/ Changes(w))
  <2>1. now' \in MissionIds
    BY <1>1, StaffAssumption DEF DeskInv, MissionIds, Tick, CreateMission, Register, Dismiss, Changes
  <2>2. staff' \in Seq(Workers)
    <3>1. ASSUME NEW w \in Workers, Dismiss(w) PROVE staff' \in Seq(Workers)
      <4>1. PICK i \in DOMAIN staff : staff' = RemoveAt(staff, i)
        BY <3>1 DEF Dismiss
      <4>2. staff \in Seq(Workers) /\ i \in 1..Len(staff) /\ Len(staff) \in Nat
        BY DEF DeskInv
      <4>3. SubSeq(staff, 1, i - 1) \in Seq(Workers) /\ SubSeq(staff, i + 1, Len(staff)) \in Seq(Workers)
        BY <4>2, SubSeqProperties
      <4> QED  BY <4>1, <4>3 DEF RemoveAt
    <3>2. ASSUME NEW w \in Workers, Register(w) PROVE staff' \in Seq(Workers)
      BY <3>2 DEF Register, DeskInv
    <3>3. CASE UNCHANGED staff
      BY <3>3 DEF DeskInv
    <3> QED  BY <1>1, <3>1, <3>2, <3>3 DEF Tick, CreateMission, Changes
  <2>3. DealtAnewIsFair
    BY <1>1 DEF DealtAnewIsFair
  <2> QED  BY <1>1, <2>1, <2>2, <2>3 DEF DeskInv
<1>2. ASSUME NEW text \in Goals, DecomposeAndPlanMission(text) PROVE DeskInv' /\ DealtAnewIsFair
  <2>1. [id |-> now, tier |-> Tier(text)] \in Orders
    BY DEF DeskInv, Orders, Tier, Tiers
  <2>2. pending' \in Seq(Orders)
    BY <1>2, <2>1 DEF DecomposeAndPlanMission, DeskInv
  <2> QED  BY <1>2, <2>2 DEF DecomposeAndPlanMission, DeskInv, DealtAnewIsFair
<1>3. CASE MissionDecomposed
  <2> DEFINE order == Head(pending)
             p == NewPlan(order.tier)
  <2>1. order \in Orders /\ pending' \in Seq(Orders)
    BY <1>3 DEF MissionDecomposed, DeskInv
  <2>2. order.id \in MissionIds /\ order.tier \in Tiers
    BY <2>1 DEF Orders
  <2>3. plan' = [plan EXCEPT ![order.id] = AssignPlanTasks(p)]
    BY <1>3 DEF MissionDecomposed
  <2> HIDE DEF order
  <2>4. p \in PlansOf(order.tier)
    BY <2>2, NewPlanTypes
  <2> HIDE DEF p
  <2>5. plan' \in [MissionIds -> AnyPlan] /\ DealtAnewIsFair
    BY <2>2, <2>3, <2>4, DealtAnew
  <2> QED  BY <1>3, <2>1, <2>5 DEF MissionDecomposed, DeskInv
<1>4. ASSUME NEW id \in MissionIds, MissionAssign(id) PROVE DeskInv' /\ DealtAnewIsFair
  <2> DEFINE p == plan[id]
  <2>1. PICK tier \in Tiers \cup {NoTier} : p \in PlansOf(tier)
    BY DEF DeskInv, AnyPlan
  <2>2. p.tier # "none" /\ plan' = [plan EXCEPT ![id] = AssignPlanTasks(p)]
    BY <1>4 DEF MissionAssign
  <2>3. tier \in Tiers
    BY <2>1, <2>2 DEF PlansOf, NoTier
  <2> HIDE DEF p
  <2>4. plan' \in [MissionIds -> AnyPlan] /\ DealtAnewIsFair
    BY <2>1, <2>2, <2>3, DealtAnew
  <2> QED  BY <1>4, <2>4 DEF MissionAssign, DeskInv
<1>5. ASSUME NEW id \in MissionIds, StartMission(id) PROVE DeskInv' /\ DealtAnewIsFair
  <2>1. plan' \in [MissionIds -> AnyPlan] /\ DealtAnewIsFair
    BY <1>5, StartTypes
  <2> QED  BY <1>5, <2>1 DEF StartMission, DeskInv
<1>6. ASSUME NEW id \in MissionIds, NEW t \in DOMAIN plan[id].tasks,
             StartTask(id, t) \/ CompleteTask(id, t) \/ FailTask(id, t)
      PROVE  DeskInv' /\ DealtAnewIsFair
  <2>1. PICK s \in {"RUNNING", "FAILED", "COMPLETED"} : TaskBecomes(id, t, s)
    BY <1>6 DEF StartTask, CompleteTask, FailTask
  <2>2. plan' \in [MissionIds -> AnyPlan] /\ DealtAnewIsFair
    BY <2>1, TaskBecomesTypes
  <2>3. UNCHANGED <<now, staff, pending>>
    BY <1>6 DEF StartTask, CompleteTask, FailTask
  <2> QED  BY <2>2, <2>3 DEF DeskInv
<1>7. ASSUME NEW id \in MissionIds,
             PauseMission(id) \/ ResumeMission(id) \/ CancelMission(id) \/ ArchiveMission(id)
      PROVE  DeskInv' /\ DealtAnewIsFair
  <2>1. UNCHANGED <<now, staff, plan, pending>>
    BY <1>7 DEF PauseMission, ResumeMission, CancelMission, ArchiveMission, MissionBecomes
  <2> QED  BY <2>1 DEF DeskInv, DealtAnewIsFair
<1>8. (Tick \/ CreateMission \/ \E w \in Workers : Register(w) \/ Dismiss(w) \/ Changes(w))
        => UNCHANGED <<plan, pending>>
  BY DEF Tick, CreateMission, Register, Dismiss, Changes
<1> QED  BY <1>1, <1>2, <1>3, <1>4, <1>5, <1>6, <1>7, <1>8 DEF DeskNext

\* Whenever a plan's tasks are dealt out, for the first time or again, over a staff of
\* any size that is hired, dismissed, busy and idle in any order: within a batch nobody
\* gets a second task while somebody who could take it has none, only who could take a
\* task gets it, and none is left over that somebody of its department could take
\* (TaskAssignmentEngine.assignPlanTasks).
THEOREM AssignmentsAreFair == DeskSpec => AssignmentIsFair
<1>1. DeskInit => DeskInv
  BY DeskStart
<1>2. DeskInv /\ [DeskNext]_deskVars => DeskInv'
  BY DeskStep DEF DeskInv, deskVars
<1>3. DeskInv /\ [DeskNext]_deskVars
        => [\A id \in MissionIds : plan'[id].listed # plan[id].listed => DealtFairly(plan'[id])]_deskVars
  BY DeskStep DEF DealtAnewIsFair
<1> QED  BY <1>1, <1>2, <1>3, PTL DEF DeskSpec, AssignmentIsFair
=============================================================================
