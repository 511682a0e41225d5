------------------------- MODULE TaskDeliveryProofs -------------------------
(***************************************************************************)
(* Theorems about TaskDelivery, for any tasks, workers and dependencies,   *)
(* any number of retries and questions.                                    *)
(***************************************************************************)
EXTENDS TaskDelivery, SequenceTheorems, TLAPS

Phases == {"waiting", "queued", "reasoning", "asking", "sending", "answering",
           "continuing", "reporting", "verifying", "removing", "sleeping"} \cup Settled

\* The prompt of t is in its worker's lane.
LanePhases == {"queued", "reasoning", "asking", "sending", "answering", "continuing",
               "reporting"}
InLane(t) == pc[t] \in LanePhases

\* A lane holds the prompts of its worker's tasks, each once; only the first
\* has begun.
LaneInv ==
  /\ \A w \in Workers : \A i \in 1..Len(lane[w]) :
       pc[lane[w][i]] \in LanePhases /\ WorkerOf[lane[w][i]] = w
  /\ \A w \in Workers : \A i, j \in 1..Len(lane[w]) : lane[w][i] = lane[w][j] => i = j
  /\ \A t \in Tasks : InLane(t) => \E i \in 1..Len(lane[WorkerOf[t]]) : lane[WorkerOf[t]][i] = t
  /\ \A t \in Tasks : InLane(t) /\ pc[t] # "queued" => lane[WorkerOf[t]][1] = t

LEMMA TailOfLane ==
  ASSUME NEW s \in Seq(Tasks), s # <<>>
  PROVE  /\ Tail(s) \in Seq(Tasks) /\ Len(Tail(s)) = Len(s) - 1
         /\ Len(s) \in Nat \ {0} /\ Head(s) = s[1]
         /\ \A i \in 1..Len(s) - 1 : Tail(s)[i] = s[i + 1]
PROOF
  BY HeadTailProperties, EmptySeq, LenProperties

LEMMA AppendToLane ==
  ASSUME NEW s \in Seq(Tasks), NEW t \in Tasks
  PROVE  /\ Append(s, t) \in Seq(Tasks) /\ Len(Append(s, t)) = Len(s) + 1
         /\ Len(s) \in Nat
         /\ \A i \in 1..Len(s) : Append(s, t)[i] = s[i]
         /\ Append(s, t)[Len(s) + 1] = t
PROOF
  BY AppendProperties, LenProperties

-----------------------------------------------------------------------------
(* What a step does to pc and lane.                                        *)

Enters(t) ==
  /\ ~ InLane(t)
  /\ pc' = [pc EXCEPT ![t] = "queued"]
  /\ lane' = [lane EXCEPT ![WorkerOf[t]] = Append(@, t)]

AtHead(t) == InLane(t) /\ lane[WorkerOf[t]][1] = t /\ lane[WorkerOf[t]] # <<>>

Leaves(t) ==
  /\ AtHead(t)
  /\ \E x \in {"verifying", "removing"} : pc' = [pc EXCEPT ![t] = x]
  /\ lane' = [lane EXCEPT ![WorkerOf[t]] = Tail(@)]

Stays(t) ==
  /\ lane' = lane
  /\ \/ /\ AtHead(t)
        /\ \E x \in {"reasoning", "asking", "sending", "answering", "continuing", "reporting"} :
             pc' = [pc EXCEPT ![t] = x]
     \/ /\ ~ InLane(t)
        /\ \E x \in {"sleeping"} \cup Settled : pc' = [pc EXCEPT ![t] = x]

LEMMA HeadOfLane ==
  ASSUME TypeOK, LaneInv, NEW t \in Tasks, InLane(t),
         pc[t] = "queued" => Head(lane[WorkerOf[t]]) = t
  PROVE  AtHead(t)
PROOF
  <1> DEFINE s == lane[WorkerOf[t]]
  <1>1. s \in Seq(Tasks) /\ s # <<>>
    <2>1. PICK i \in 1..Len(s) : s[i] = t
      BY DEF LaneInv
    <2>2. s \in Seq(Tasks)
      BY DeliveryAssumption DEF TypeOK
    <2> QED
      BY <2>1, <2>2, LenProperties, EmptySeq
  <1>2. s[1] = t
    <2>1. CASE pc[t] = "queued"
      BY <1>1, <2>1, TailOfLane
    <2>2. CASE pc[t] # "queued"
      BY <2>2 DEF LaneInv
    <2> QED
      BY <2>1, <2>2
  <1> QED
    BY <1>1, <1>2 DEF AtHead

LEMMA Shapes ==
  ASSUME TypeOK, LaneInv, NEW t \in Tasks, Step(t)
  PROVE  Enters(t) \/ Leaves(t) \/ Stays(t)
PROOF
  <1>0. pc \in [Tasks -> Phases]
    BY DEF TypeOK, Phases
  <1>a. ASSUME Attempt(t), ~ InLane(t) PROVE Enters(t) \/ Stays(t)
    BY <1>a DEF Attempt, Enters, Stays, Settled
  <1>b. ASSUME ExecutionFails(t), AtHead(t) PROVE Leaves(t)
    BY <1>b DEF ExecutionFails, ExecutionEnds, LeaveLane, Leaves
  <1>c. ASSUME ApplyPlan(t), AtHead(t) PROVE Leaves(t) \/ Stays(t)
    BY <1>c, <1>b DEF ApplyPlan, Stays
  <1>1. CASE Start(t)
    BY <1>1, <1>a DEF Start, InLane, LanePhases
  <1>2. CASE Wake(t)
    BY <1>2, <1>a DEF Wake, InLane, LanePhases
  <1>3. CASE RemoveAfterFailure(t)
    BY <1>3 DEF RemoveAfterFailure, Stays, InLane, LanePhases, Settled, execVars
  <1>4. CASE BeginExecution(t)
    <2>1. AtHead(t)
      BY <1>4, HeadOfLane DEF BeginExecution, InLane, LanePhases
    <2> QED
      BY <1>4, <1>b, <2>1 DEF BeginExecution, Stays
  <1>5. CASE ReasoningFails(t)
    <2>1. AtHead(t)
      BY <1>5, HeadOfLane DEF ReasoningFails, InLane, LanePhases
    <2> QED
      BY <1>5, <1>b, <2>1 DEF ReasoningFails
  <1>6. CASE ReasoningReturns(t)
    <2>1. AtHead(t)
      BY <1>6, HeadOfLane DEF ReasoningReturns, InLane, LanePhases
    <2> QED
      BY <1>6, <1>c, <2>1 DEF ReasoningReturns
  <1>7. CASE ReasoningAsks(t)
    <2>1. AtHead(t)
      BY <1>7, HeadOfLane DEF ReasoningAsks, InLane, LanePhases
    <2> QED
      BY <1>7, <2>1 DEF ReasoningAsks, Stays
  <1>8. CASE ChooseTeammate(t)
    <2>1. AtHead(t)
      BY <1>8, HeadOfLane DEF ChooseTeammate, InLane, LanePhases
    <2>2. pc' = [pc EXCEPT ![t] = "sending"] \/ pc' = [pc EXCEPT ![t] = "asking"]
      BY <1>8, <1>0 DEF ChooseTeammate
    <2> QED
      BY <1>8, <2>1, <2>2 DEF ChooseTeammate, Stays
  <1>9. CASE AskTeammate(t)
    <2>1. AtHead(t)
      BY <1>9, HeadOfLane DEF AskTeammate, InLane, LanePhases
    <2> QED
      BY <1>9, <2>1 DEF AskTeammate, Stays
  <1>10. CASE TeammateAnswers(t)
    <2>1. AtHead(t)
      BY <1>10, HeadOfLane DEF TeammateAnswers, InLane, LanePhases
    <2> QED
      BY <1>10, <2>1 DEF TeammateAnswers, Stays
  <1>11. CASE ContinueAfterQuestions(t)
    <2>1. AtHead(t)
      BY <1>11, HeadOfLane DEF ContinueAfterQuestions, InLane, LanePhases
    <2>2. \/ ApplyPlan(t) \/ ExecutionFails(t)
          \/ pc' = [pc EXCEPT ![t] = "continuing"] /\ lane' = lane
      BY <1>11 DEF ContinueAfterQuestions
    <2> QED
      BY <2>1, <2>2, <1>b, <1>c DEF Stays
  <1>15. CASE Reported(t)
    <2>1. AtHead(t)
      BY <1>15, HeadOfLane DEF Reported, InLane, LanePhases
    <2> QED
      BY <1>15, <2>1 DEF Reported, ExecutionEnds, LeaveLane, Leaves
  <1>16. CASE MemoryFails(t)
    <2>1. AtHead(t)
      BY <1>16, HeadOfLane DEF MemoryFails, InLane, LanePhases
    <2> QED
      BY <1>16, <1>b, <2>1 DEF MemoryFails
  <1>12. CASE VerificationFails(t)
    BY <1>12 DEF VerificationFails, VerificationEvent, Stays, InLane, LanePhases, Settled, execVars
  <1>13. CASE TaskDelivered(t)
    BY <1>13 DEF TaskDelivered, VerificationEvent, Stays, InLane, LanePhases, Settled, execVars
  <1>14. CASE MergeFails(t)
    <2>1. ~ InLane(t)
      BY <1>14 DEF MergeFails, MergeRefused, VerificationEvent, InLane, LanePhases
    <2>2. CASE Attempt(t)
      BY <2>1, <2>2, <1>a
    <2>3. CASE pc' = [pc EXCEPT ![t] = "failed"] /\ lane' = lane
      BY <2>1, <2>3 DEF Stays, Settled
    <2> QED
      BY <1>14, <2>2, <2>3 DEF MergeFails, execVars
  <1> QED
    BY <1>1, <1>2, <1>3, <1>4, <1>5, <1>6, <1>7, <1>8, <1>9, <1>10, <1>11, <1>12,
       <1>13, <1>14, <1>15, <1>16 DEF Step, Execution

LEMMA LaneStep ==
  ASSUME TypeOK, LaneInv, NEW t \in Tasks, Step(t)
  PROVE  LaneInv'
PROOF
  <1> DEFINE w == WorkerOf[t]
  <1>0. /\ pc \in [Tasks -> Phases] /\ lane \in [Workers -> Seq(Tasks)]
        /\ w \in Workers /\ lane[w] \in Seq(Tasks)
        /\ \A v \in Workers : \A i \in 1..Len(lane[v]) : lane[v][i] \in Tasks
    BY DeliveryAssumption, ElementOfSeq DEF TypeOK, Phases
  <1>1. CASE Enters(t)
    <2>1. /\ lane'[w] = Append(lane[w], t)
          /\ \A v \in Workers : v # w => lane'[v] = lane[v]
          /\ Len(lane'[w]) = Len(lane[w]) + 1 /\ Len(lane[w]) \in Nat
          /\ \A i \in 1..Len(lane[w]) : lane'[w][i] = lane[w][i]
          /\ lane'[w][Len(lane[w]) + 1] = t
      BY <1>0, <1>1, AppendToLane DEF Enters
    <2>2. /\ pc'[t] = "queued" /\ \A s \in Tasks \ {t} : pc'[s] = pc[s]
          /\ ~ InLane(t)
      BY <1>0, <1>1 DEF Enters
    <2>3. \A s \in Tasks : s # t => (InLane(s) <=> InLane(s)')
      BY <2>2 DEF InLane, LanePhases
    <2>4. InLane(t)'
      BY <2>2 DEF InLane, LanePhases
    <2>5. \A v \in Workers : \A i \in 1..Len(lane'[v]) :
            pc'[lane'[v][i]] \in LanePhases /\ WorkerOf[lane'[v][i]] = v
      <3> SUFFICES ASSUME NEW v \in Workers, NEW i \in 1..Len(lane'[v])
                   PROVE  pc'[lane'[v][i]] \in LanePhases /\ WorkerOf[lane'[v][i]] = v
        OBVIOUS
      <3>1. CASE v = w /\ i = Len(lane[w]) + 1
        BY <3>1, <2>1, <2>4 DEF InLane
      <3>2. CASE ~ (v = w /\ i = Len(lane[w]) + 1)
        <4>1. i \in 1..Len(lane[v]) /\ lane'[v][i] = lane[v][i]
          BY <3>2, <2>1
        <4> QED
          BY <4>1, <1>0, <2>2, <2>3 DEF LaneInv, InLane
      <3> QED
        BY <3>1, <3>2
    <2>6. \A v \in Workers : \A i, j \in 1..Len(lane'[v]) : lane'[v][i] = lane'[v][j] => i = j
      <3>1. \A i \in 1..Len(lane[w]) : lane[w][i] # t
        BY <2>2, <1>0 DEF LaneInv, InLane
      <3> SUFFICES ASSUME NEW v \in Workers, NEW i \in 1..Len(lane'[v]),
                          NEW j \in 1..Len(lane'[v]), lane'[v][i] = lane'[v][j]
                   PROVE  i = j
        OBVIOUS
      <3>2. CASE v = w
        <4>1. CASE i = Len(lane[w]) + 1 \/ j = Len(lane[w]) + 1
          BY <3>1, <3>2, <4>1, <2>1
        <4>2. CASE i # Len(lane[w]) + 1 /\ j # Len(lane[w]) + 1
          <5>1. i \in 1..Len(lane[w]) /\ j \in 1..Len(lane[w]) /\ lane[w][i] = lane[w][j]
            BY <3>2, <4>2, <2>1
          <5> QED
            BY <1>0, <5>1 DEF LaneInv
        <4> QED
          BY <4>1, <4>2
      <3>3. CASE v # w
        BY <3>3, <2>1 DEF LaneInv
      <3> QED
        BY <3>2, <3>3
    <2>7. \A s \in Tasks : InLane(s)' =>
            \E i \in 1..Len(lane'[WorkerOf[s]]) : lane'[WorkerOf[s]][i] = s
      <3> SUFFICES ASSUME NEW s \in Tasks, InLane(s)'
                   PROVE  \E i \in 1..Len(lane'[WorkerOf[s]]) : lane'[WorkerOf[s]][i] = s
        OBVIOUS
      <3>1. CASE s = t
        BY <3>1, <2>1
      <3>2. CASE s # t
        <4>1. WorkerOf[s] \in Workers
          BY DeliveryAssumption
        <4>2. PICK i \in 1..Len(lane[WorkerOf[s]]) : lane[WorkerOf[s]][i] = s
          BY <3>2, <2>3 DEF LaneInv
        <4>3. CASE WorkerOf[s] = w
          <5>1. i \in 1..Len(lane[w]) /\ lane[w][i] = s
            BY <4>2, <4>3
          <5>2. i \in 1..Len(lane'[w]) /\ lane'[w][i] = s
            BY <2>1, <5>1
          <5> QED
            BY <4>3, <5>2
        <4>4. CASE WorkerOf[s] # w
          <5>1. lane'[WorkerOf[s]] = lane[WorkerOf[s]]
            BY <2>1, <4>1, <4>4
          <5> QED
            BY <4>2, <5>1
        <4> QED
          BY <4>3, <4>4
      <3> QED
        BY <3>1, <3>2
    <2>8. \A s \in Tasks : InLane(s)' /\ pc'[s] # "queued" => lane'[WorkerOf[s]][1] = s
      <3> SUFFICES ASSUME NEW s \in Tasks, InLane(s)', pc'[s] # "queued"
                   PROVE  lane'[WorkerOf[s]][1] = s
        OBVIOUS
      <3>1. s # t /\ InLane(s) /\ pc[s] # "queued" /\ WorkerOf[s] \in Workers
        BY <2>2, <2>3, DeliveryAssumption
      <3>2. PICK i \in 1..Len(lane[WorkerOf[s]]) : lane[WorkerOf[s]][i] = s
        BY <3>1 DEF LaneInv
      <3>3. lane[WorkerOf[s]][1] = s
        BY <3>1 DEF LaneInv
      <3>4. Len(lane[WorkerOf[s]]) \in Nat
        BY <1>0, <3>1, LenProperties
      <3>5. 1 \in 1..Len(lane[WorkerOf[s]])
        BY <3>2, <3>4
      <3>6. CASE WorkerOf[s] = w
        BY <2>1, <3>3, <3>5, <3>6
      <3>7. CASE WorkerOf[s] # w
        BY <2>1, <3>1, <3>3, <3>7
      <3> QED
        BY <3>6, <3>7
    <2> QED
      BY <2>5, <2>6, <2>7, <2>8 DEF LaneInv, InLane
  <1>2. CASE Leaves(t)
    <2>1. /\ lane[w] # <<>> /\ lane[w][1] = t
          /\ lane'[w] = Tail(lane[w])
          /\ \A v \in Workers : v # w => lane'[v] = lane[v]
      BY <1>0, <1>2 DEF Leaves, AtHead
    <2>2. /\ Len(lane'[w]) = Len(lane[w]) - 1 /\ Len(lane[w]) \in Nat \ {0}
          /\ \A i \in 1..Len(lane[w]) - 1 : lane'[w][i] = lane[w][i + 1]
      BY <1>0, <2>1, TailOfLane
    <2>3. ~ InLane(t)' /\ \A s \in Tasks : s # t => pc'[s] = pc[s] /\ (InLane(s) <=> InLane(s)')
      BY <1>0, <1>2 DEF Leaves, InLane, LanePhases
    <2>4. \A v \in Workers : \A i \in 1..Len(lane'[v]) :
            pc'[lane'[v][i]] \in LanePhases /\ WorkerOf[lane'[v][i]] = v
      <3> SUFFICES ASSUME NEW v \in Workers, NEW i \in 1..Len(lane'[v])
                   PROVE  pc'[lane'[v][i]] \in LanePhases /\ WorkerOf[lane'[v][i]] = v
        OBVIOUS
      <3>1. CASE v = w
        <4>1. i + 1 \in 1..Len(lane[w]) /\ lane'[w][i] = lane[w][i + 1] /\ i + 1 # 1
          BY <3>1, <2>2
        <4>2. lane[w][i + 1] # t
          <5>1. 1 \in 1..Len(lane[w])
            BY <2>2
          <5> QED
            BY <1>0, <4>1, <5>1, <2>1 DEF LaneInv
        <4>3. lane[w][i + 1] \in Tasks
          BY <1>0, <4>1
        <4> QED
          BY <3>1, <4>1, <4>2, <4>3, <1>0, <2>3 DEF LaneInv, InLane
      <3>2. CASE v # w
        <4>1. lane[v][i] # t /\ lane'[v] = lane[v] /\ i \in 1..Len(lane[v])
          BY <3>2, <2>1 DEF LaneInv
        <4> QED
          BY <4>1, <1>0, <2>3 DEF LaneInv, InLane
      <3> QED
        BY <3>1, <3>2
    <2>5. \A v \in Workers : \A i, j \in 1..Len(lane'[v]) : lane'[v][i] = lane'[v][j] => i = j
      <3> SUFFICES ASSUME NEW v \in Workers, NEW i \in 1..Len(lane'[v]),
                          NEW j \in 1..Len(lane'[v]), lane'[v][i] = lane'[v][j]
                   PROVE  i = j
        OBVIOUS
      <3>1. CASE v = w
        <4>1. i + 1 \in 1..Len(lane[w]) /\ j + 1 \in 1..Len(lane[w])
          BY <3>1, <2>2
        <4>2. lane[w][i + 1] = lane[w][j + 1]
          BY <3>1, <2>2
        <4>3. i + 1 = j + 1
          BY <1>0, <4>1, <4>2 DEF LaneInv
        <4> QED
          BY <4>3
      <3>2. CASE v # w
        BY <3>2, <2>1 DEF LaneInv
      <3> QED
        BY <3>1, <3>2
    <2>6. \A s \in Tasks : InLane(s)' =>
            /\ \E i \in 1..Len(lane'[WorkerOf[s]]) : lane'[WorkerOf[s]][i] = s
            /\ pc'[s] # "queued" => lane'[WorkerOf[s]][1] = s
      <3> SUFFICES ASSUME NEW s \in Tasks, InLane(s)'
                   PROVE  /\ \E i \in 1..Len(lane'[WorkerOf[s]]) : lane'[WorkerOf[s]][i] = s
                          /\ pc'[s] # "queued" => lane'[WorkerOf[s]][1] = s
        OBVIOUS
      <3>1. s # t /\ InLane(s) /\ pc'[s] = pc[s] /\ WorkerOf[s] \in Workers
        BY <2>3, DeliveryAssumption
      <3>2. PICK i \in 1..Len(lane[WorkerOf[s]]) : lane[WorkerOf[s]][i] = s
        BY <3>1 DEF LaneInv
      <3>3. CASE WorkerOf[s] = w
        <4>1. i # 1 /\ pc[s] = "queued"
          BY <3>1, <3>2, <3>3, <2>1 DEF LaneInv
        <4>2. i - 1 \in 1..Len(lane'[w]) /\ lane'[w][i - 1] = s
          BY <3>2, <3>3, <4>1, <2>2
        <4> QED
          BY <3>1, <3>3, <4>1, <4>2
      <3>4. CASE WorkerOf[s] # w
        BY <3>1, <3>2, <3>4, <2>1 DEF LaneInv
      <3> QED
        BY <3>3, <3>4
    <2> QED
      BY <2>4, <2>5, <2>6 DEF LaneInv, InLane
  <1>3. CASE Stays(t)
    <2>1. /\ lane' = lane
          /\ \A s \in Tasks : InLane(s) <=> InLane(s)'
          /\ \A s \in Tasks \ {t} : pc'[s] = pc[s]
          /\ InLane(t) => lane[w][1] = t
      BY <1>0, <1>3 DEF Stays, AtHead, InLane, LanePhases, Settled
    <2> QED
      BY <1>0, <2>1 DEF LaneInv, InLane
  <1> QED
    BY <1>1, <1>2, <1>3, Shapes

-----------------------------------------------------------------------------
(* Type correctness.                                                       *)

LEMMA ChangeIsOne ==
  ASSUME TypeOK, NEW t \in Tasks, attempt[t] # 0
  PROVE  Change(t) \in Changes
PROOF
  BY DeliveryAssumption DEF TypeOK, Changes, Change

\* A task that was started has made an attempt, one that sleeps may make
\* another.
AttemptInv == \A t \in Tasks :
  /\ pc[t] = "waiting" <=> attempt[t] = 0
  /\ pc[t] = "sleeping" => AttemptsLeft(t)

LEMMA DisplacedTypes ==
  ASSUME TypeOK, AttemptInv, NEW w \in Workers, Displace(w)
  PROVE  displaced \subseteq displaced' /\ displaced' \subseteq Changes
PROOF
  <1>1. \A s \in Tasks : pc[s] = "reporting" => Change(s) \in Changes
    BY ChangeIsOne DEF AttemptInv
  <1> QED
    BY <1>1 DEF Displace, TypeOK

LEMMA InitTypes == Init => TypeOK /\ LaneInv /\ AttemptInv
PROOF
  <1> SUFFICES ASSUME Init PROVE TypeOK /\ LaneInv /\ AttemptInv
    OBVIOUS
  <1>1. TypeOK
    BY DeliveryAssumption, EmptySeq DEF Init, TypeOK, Settled
  <1>2. LaneInv
    BY DeliveryAssumption DEF Init, LaneInv, InLane, LanePhases
  <1>3. AttemptInv
    BY DEF Init, AttemptInv
  <1> QED
    BY <1>1, <1>2, <1>3

LEMMA LaneTypes ==
  ASSUME TypeOK, LaneInv, NEW t \in Tasks, Step(t)
  PROVE  pc' \in [Tasks -> Phases] /\ lane' \in [Workers -> Seq(Tasks)]
PROOF
  <1>1. /\ pc \in [Tasks -> Phases] /\ lane \in [Workers -> Seq(Tasks)]
        /\ WorkerOf[t] \in Workers /\ lane[WorkerOf[t]] \in Seq(Tasks)
    BY DeliveryAssumption DEF TypeOK, Phases
  <1>2. CASE Enters(t)
    BY <1>1, <1>2, AppendToLane DEF Enters, Phases
  <1>3. CASE Leaves(t)
    BY <1>1, <1>3, TailOfLane DEF Leaves, AtHead, Phases
  <1>4. CASE Stays(t)
    BY <1>1, <1>4 DEF Stays, Phases, Settled
  <1> QED
    BY <1>2, <1>3, <1>4, Shapes

\* What the git commands do to the directory of a worker.
LEMMA GitTypes ==
  ASSUME TypeOK, NEW w \in Workers,
         CreateWorktree(w) \/ CreationFails(w) \/ RemoveWorktree(w)
  PROVE  dir' \in [Workers -> {"absent", "worktree", "plain"}]
         /\ files' \in [Workers -> SUBSET Changes]
PROOF
  BY DEF TypeOK, CreateWorktree, CreationFails, RemoveWorktree

\* The rest of the state, in an attempt, in a failed execution, in a write.
RestTypes ==
  /\ attempt \in [Tasks -> 0..MaxTaskRetries + 1]
  /\ slot \in [Workers -> Tasks \cup {None}]
  /\ questions \in [Tasks -> 0..MaxQuestions]
  /\ recipient \in [Tasks -> Workers \cup {None}]
  /\ answers \in [Tasks -> BOOLEAN]
  /\ dir \in [Workers -> {"absent", "worktree", "plain"}]
  /\ files \in [Workers -> SUBSET Changes]
  /\ main \subseteq Changes /\ stray \subseteq Tasks
  /\ displaced \subseteq Changes /\ verified \subseteq Changes

LEMMA RestOfTypes ==
  ASSUME TypeOK, AttemptInv, NEW t \in Tasks, Step(t)
  PROVE  RestTypes'
PROOF
  <1> DEFINE w == WorkerOf[t]
  <1>0. RestTypes /\ w \in Workers /\ MaxTaskRetries \in Nat /\ MaxQuestions \in Nat
    BY DeliveryAssumption DEF TypeOK, RestTypes
  <1>a. ASSUME Attempt(t), AttemptsLeft(t) \/ attempt[t] = 0,
               stray' \subseteq Tasks, verified' \subseteq Changes
        PROVE  RestTypes'
    <2>1. attempt[t] \in 0..MaxTaskRetries
      BY <1>0, <1>a DEF AttemptsLeft, RestTypes
    <2>2. attempt' \in [Tasks -> 0..MaxTaskRetries + 1]
      BY <1>0, <1>a, <2>1 DEF Attempt, RestTypes
    <2>3. /\ dir' \in [Workers -> {"absent", "worktree", "plain"}]
          /\ files' \in [Workers -> SUBSET Changes]
      BY <1>0, <1>a, GitTypes DEF Attempt
    <2>4. displaced' \subseteq Changes
      BY <1>0, <1>a, DisplacedTypes DEF Attempt
    <2> QED
      BY <1>0, <1>a, <2>2, <2>3, <2>4 DEF Attempt, RestTypes
  <1>b. ASSUME ExecutionFails(t), slot' \in [Workers -> Tasks \cup {None}],
               dir' \in [Workers -> {"absent", "worktree", "plain"}],
               files' \in [Workers -> SUBSET Changes]
        PROVE  RestTypes'
    BY <1>0, <1>b DEF ExecutionFails, ExecutionEnds, RestTypes
  <1>c. ASSUME ApplyPlan(t), pc[t] # "waiting", slot' \in [Workers -> Tasks \cup {None}]
        PROVE  RestTypes'
    <2>1. Change(t) \in Changes
      BY <1>c, ChangeIsOne DEF AttemptInv
    <2>2. /\ dir' \in [Workers -> {"absent", "worktree", "plain"}]
          /\ files' \in [Workers -> SUBSET Changes]
      BY <1>0, <1>c, <2>1 DEF ApplyPlan, Write, RestTypes
    <2>3. CASE ExecutionFails(t)
      BY <1>b, <1>c, <2>2, <2>3
    <2>4. CASE ~ ExecutionFails(t)
      BY <1>0, <1>c, <2>2, <2>4 DEF ApplyPlan, RestTypes
    <2> QED
      BY <2>3, <2>4
  <1>d. ASSUME UNCHANGED <<attempt, slot, questions, recipient, answers, main, displaced>>,
               dir' \in [Workers -> {"absent", "worktree", "plain"}],
               files' \in [Workers -> SUBSET Changes],
               stray' \subseteq Tasks, verified' \subseteq Changes
        PROVE  RestTypes'
    BY <1>0, <1>d DEF RestTypes
  <1>e. ASSUME UNCHANGED <<attempt, gitVars>>,
               slot' \in [Workers -> Tasks \cup {None}],
               questions' \in [Tasks -> 0..MaxQuestions],
               recipient' \in [Tasks -> Workers \cup {None}],
               answers' \in [Tasks -> BOOLEAN]
        PROVE  RestTypes'
    BY <1>0, <1>e DEF RestTypes, gitVars
  <1>f. \A v \in Workers, x \in Tasks \cup {None} :
          [slot EXCEPT ![v] = x] \in [Workers -> Tasks \cup {None}]
    BY <1>0 DEF RestTypes
  <1>1. CASE Start(t)
    BY <1>0, <1>1, <1>a DEF Start, RestTypes, AttemptInv
  <1>2. CASE Wake(t)
    BY <1>0, <1>2, <1>a DEF Wake, RestTypes, AttemptInv
  <1>3. CASE RemoveAfterFailure(t)
    BY <1>0, <1>3, <1>d, GitTypes DEF RemoveAfterFailure, execVars, RestTypes
  <1>4. CASE BeginExecution(t)
    <2>1. CASE ExecutionFails(t) /\ UNCHANGED <<slot, dir, files>>
      BY <1>0, <1>b, <2>1 DEF RestTypes
    <2>2. CASE slot' = [slot EXCEPT ![w] = t]
               /\ UNCHANGED <<attempt, lane, questions, recipient, answers, gitVars>>
      BY <1>0, <1>e, <1>f, <2>2 DEF RestTypes
    <2> QED
      BY <1>4, <2>1, <2>2 DEF BeginExecution
  <1>5. CASE ReasoningFails(t)
    BY <1>0, <1>b, <1>f, <1>5 DEF ReasoningFails, RestTypes
  <1>6. CASE ReasoningReturns(t)
    BY <1>0, <1>c, <1>f, <1>6 DEF ReasoningReturns
  <1>7. CASE ReasoningAsks(t)
    <2>1. questions' \in [Tasks -> 0..MaxQuestions]
      BY <1>0, <1>7 DEF ReasoningAsks, RestTypes
    <2> QED
      BY <1>0, <1>e, <1>f, <1>7, <2>1 DEF ReasoningAsks, RestTypes
  <1>8. CASE ChooseTeammate(t)
    <2>1. questions' \in [Tasks -> 0..MaxQuestions]
      BY <1>0, <1>8 DEF ChooseTeammate, RestTypes
    <2>2. recipient' \in [Tasks -> Workers \cup {None}]
      BY <1>0, <1>8 DEF ChooseTeammate, RestTypes
    <2> QED
      BY <1>0, <1>e, <1>8, <2>1, <2>2 DEF ChooseTeammate, RestTypes
  <1>9. CASE AskTeammate(t)
    <2>1. slot' \in [Workers -> Tasks \cup {None}]
      BY <1>0, <1>9 DEF AskTeammate, RestTypes
    <2>2. recipient' \in [Tasks -> Workers \cup {None}] /\ answers' \in [Tasks -> BOOLEAN]
      BY <1>0, <1>9 DEF AskTeammate, RestTypes
    <2> QED
      BY <1>0, <1>e, <1>9, <2>1, <2>2 DEF AskTeammate, RestTypes
  <1>10. CASE TeammateAnswers(t)
    <2>1. slot' \in [Workers -> Tasks \cup {None}]
      BY <1>0, <1>10 DEF TeammateAnswers, FreeTeammateSlot, RestTypes
    <2>2. recipient' \in [Tasks -> Workers \cup {None}] /\ answers' \in [Tasks -> BOOLEAN]
      BY <1>0, <1>10 DEF TeammateAnswers, RestTypes
    <2> QED
      BY <1>0, <1>e, <1>10, <2>1, <2>2 DEF TeammateAnswers, RestTypes
  <1>11. CASE ContinueAfterQuestions(t)
    <2>1. CASE ApplyPlan(t) /\ UNCHANGED slot
      BY <1>0, <1>c, <1>11, <2>1 DEF ContinueAfterQuestions, RestTypes
    <2>2. CASE ExecutionFails(t) /\ UNCHANGED <<slot, dir, files>>
      BY <1>0, <1>b, <2>2 DEF RestTypes
    <2>3. CASE slot' = [slot EXCEPT ![w] = t]
               /\ UNCHANGED <<attempt, lane, questions, recipient, answers, gitVars>>
      BY <1>0, <1>e, <1>f, <2>3 DEF RestTypes
    <2> QED
      BY <1>11, <2>1, <2>2, <2>3 DEF ContinueAfterQuestions
  <1>12. CASE VerificationFails(t)
    <2>1. /\ dir' \in [Workers -> {"absent", "worktree", "plain"}]
          /\ files' \in [Workers -> SUBSET Changes]
      BY <1>0, <1>12, GitTypes DEF VerificationFails, RestTypes
    <2> QED
      BY <1>0, <1>12, <1>d, <2>1 DEF VerificationFails, execVars, RestTypes
  <1>v. pc[t] = "verifying" => Change(t) \in Changes
    BY ChangeIsOne DEF AttemptInv
  <1>13. CASE TaskDelivered(t)
    <2>1. main' \subseteq Changes /\ verified' \subseteq Changes
      BY <1>0, <1>13, <1>v DEF TaskDelivered, VerificationEvent, RestTypes
    <2> QED
      BY <1>0, <1>13, <2>1 DEF TaskDelivered, execVars, RestTypes
  <1>14. CASE MergeFails(t)
    <2>1. stray' \subseteq Tasks /\ verified' \subseteq Changes
      BY <1>0, <1>14, <1>v DEF MergeFails, MergeRefused, VerificationEvent, RestTypes
    <2>2. CASE Attempt(t) /\ AttemptsLeft(t)
      BY <2>1, <2>2, <1>a
    <2>3. CASE RemoveWorktree(w) /\ UNCHANGED <<attempt, execVars, main, displaced>>
      BY <1>0, <1>d, <2>1, <2>3, GitTypes DEF execVars
    <2> QED
      BY <1>14, <2>2, <2>3 DEF MergeFails
  <1>15. CASE Reported(t)
    BY <1>0, <1>15 DEF Reported, ExecutionEnds, RestTypes
  <1>16. CASE MemoryFails(t)
    BY <1>0, <1>b, <1>16 DEF MemoryFails, RestTypes
  <1> QED
    BY <1>1, <1>2, <1>3, <1>4, <1>5, <1>6, <1>7, <1>8, <1>9, <1>10, <1>11, <1>12,
       <1>13, <1>14, <1>15, <1>16 DEF Step, Execution

LEMMA AttemptStep ==
  ASSUME TypeOK, LaneInv, AttemptInv, NEW t \in Tasks, Step(t)
  PROVE  AttemptInv'
PROOF
  <1>0. /\ pc \in [Tasks -> Phases] /\ attempt \in [Tasks -> 0..MaxTaskRetries + 1]
        /\ MaxTaskRetries \in Nat
    BY DeliveryAssumption DEF TypeOK, Phases
  <1>1. ASSUME UNCHANGED attempt, pc[t] # "waiting",
               \E x \in Phases \ {"waiting", "sleeping"} : pc' = [pc EXCEPT ![t] = x]
        PROVE  AttemptInv'
    BY <1>0, <1>1 DEF AttemptInv, AttemptsLeft
  <1>2. ASSUME UNCHANGED attempt, pc[t] # "waiting", AttemptsLeft(t),
               pc' = [pc EXCEPT ![t] = "sleeping"]
        PROVE  AttemptInv'
    BY <1>0, <1>2 DEF AttemptInv, AttemptsLeft
  <1>3. ASSUME Attempt(t) PROVE AttemptInv'
    BY <1>0, <1>3 DEF Attempt, AttemptInv, AttemptsLeft
  <1>4. CASE Start(t) \/ Wake(t)
    BY <1>3, <1>4 DEF Start, Wake
  <1>5. CASE RemoveAfterFailure(t)
    BY <1>1, <1>2, <1>5 DEF RemoveAfterFailure, Phases, Settled
  <1>6. CASE Execution(t)
    <2>1. UNCHANGED attempt
      BY <1>6 DEF Execution, BeginExecution, ReasoningFails, ReasoningReturns, ReasoningAsks,
         ChooseTeammate, AskTeammate, TeammateAnswers, ContinueAfterQuestions, ApplyPlan,
         Reported, MemoryFails, ExecutionFails, ExecutionEnds
    <2>2. InLane(t)
      BY <1>6 DEF Execution, BeginExecution, ReasoningFails, ReasoningReturns, ReasoningAsks,
         ChooseTeammate, AskTeammate, TeammateAnswers, ContinueAfterQuestions, Reported,
         MemoryFails, InLane, LanePhases
    <2>3. CASE Enters(t)
      BY <2>2, <2>3 DEF Enters
    <2>4. CASE Leaves(t)
      BY <1>1, <2>1, <2>2, <2>4 DEF Leaves, InLane, LanePhases, Phases
    <2>5. CASE Stays(t)
      BY <1>1, <2>1, <2>2, <2>5 DEF Stays, InLane, LanePhases, Phases
    <2> QED
      BY <1>6, <2>3, <2>4, <2>5, Shapes DEF Step
  <1>7. CASE VerificationFails(t)
    BY <1>1, <1>2, <1>7 DEF VerificationFails, VerificationEvent, Phases, Settled
  <1>8. CASE TaskDelivered(t)
    BY <1>1, <1>8 DEF TaskDelivered, VerificationEvent, Phases, Settled
  <1>9. CASE MergeFails(t)
    BY <1>1, <1>3, <1>9 DEF MergeFails, MergeRefused, VerificationEvent, Phases, Settled
  <1> QED
    BY <1>4, <1>5, <1>6, <1>7, <1>8, <1>9 DEF Step

CoreInv == TypeOK /\ LaneInv /\ AttemptInv

LEMMA CoreStep ==
  ASSUME CoreInv, NEW t \in Tasks, Step(t)
  PROVE  CoreInv'
PROOF
  <1>1. TypeOK'
    BY LaneTypes, RestOfTypes DEF CoreInv, TypeOK, RestTypes, Phases
  <1> QED
    BY <1>1, LaneStep, AttemptStep DEF CoreInv

LEMMA CoreStutters == CoreInv /\ UNCHANGED vars => CoreInv'
PROOF
  BY DEF CoreInv, TypeOK, LaneInv, InLane, AttemptInv, AttemptsLeft, vars, execVars, gitVars,
     Changes

\* Every variable keeps its type; the attempts of a task and the prompts of
\* a lane are counted right.
THEOREM TypeCorrect == Spec => []TypeOK
PROOF
  <1>1. Init => CoreInv
    BY InitTypes DEF CoreInv
  <1>2. CoreInv /\ [Next]_vars => CoreInv'
    BY CoreStep, CoreStutters DEF Next
  <1>3. CoreInv => TypeOK
    BY DEF CoreInv
  <1> QED
    BY <1>1, <1>2, <1>3, PTL DEF Spec

-----------------------------------------------------------------------------
(* The slots.                                                              *)

LEMMA SlotsStep ==
  ASSUME TypeOK, SlotsAreUsed, NEW t \in Tasks, Step(t)
  PROVE  SlotsAreUsed'
PROOF
  <1> DEFINE w == WorkerOf[t]
  <1>0. /\ slot \in [Workers -> Tasks \cup {None}] /\ recipient \in [Tasks -> Workers \cup {None}]
        /\ pc \in [Tasks -> Phases] /\ w \in Workers /\ None \notin Tasks \cup Workers
    BY DeliveryAssumption DEF TypeOK, Phases
  \* No request of t is under way, before and after.
  <1>1. ASSUME UNCHANGED slot, \A u \in Tasks \ {t} : recipient'[u] = recipient[u],
               NEW x, pc' = [pc EXCEPT ![t] = x],
               pc[t] \notin {"reasoning", "continuing", "answering"}
        PROVE  SlotsAreUsed'
    BY <1>0, <1>1 DEF SlotsAreUsed
  \* The request of t in its own worker's slot begins, or ends.
  <1>2. ASSUME UNCHANGED recipient, slot[w] = None, slot' = [slot EXCEPT ![w] = t],
               \E x \in {"reasoning", "continuing"} : pc' = [pc EXCEPT ![t] = x],
               pc[t] \in {"queued", "asking"}
        PROVE  SlotsAreUsed'
    BY <1>0, <1>2 DEF SlotsAreUsed
  <1>3. ASSUME \A u \in Tasks \ {t} : recipient'[u] = recipient[u],
               slot' = [slot EXCEPT ![w] = None],
               NEW x, pc' = [pc EXCEPT ![t] = x], pc[t] \in {"reasoning", "continuing"}
        PROVE  SlotsAreUsed'
    <2> SUFFICES ASSUME NEW v \in Workers, NEW u \in Tasks, slot'[v] = u
                 PROVE  \/ WorkerOf[u] = v /\ pc'[u] \in {"reasoning", "continuing"}
                        \/ recipient'[u] = v /\ pc'[u] = "answering"
      BY DEF SlotsAreUsed
    <2>1. v # w /\ slot[v] = u
      BY <1>0, <1>3
    <2>2. u # t
      BY <1>3, <2>1 DEF SlotsAreUsed
    <2> QED
      BY <1>0, <1>3, <2>1, <2>2 DEF SlotsAreUsed
  <1>a. ASSUME Attempt(t), pc[t] \notin {"reasoning", "continuing", "answering"}
        PROVE  SlotsAreUsed'
    BY <1>1, <1>a DEF Attempt
  <1>4. CASE Start(t) \/ Wake(t)
    BY <1>4, <1>a DEF Start, Wake
  <1>5. CASE RemoveAfterFailure(t)
    BY <1>1, <1>5 DEF RemoveAfterFailure, execVars
  <1>6. CASE BeginExecution(t)
    BY <1>0, <1>1, <1>2, <1>6 DEF BeginExecution, ExecutionFails, ExecutionEnds
  <1>7. CASE ReasoningFails(t)
    BY <1>0, <1>3, <1>7 DEF ReasoningFails, ExecutionFails, ExecutionEnds
  <1>8. CASE ReasoningReturns(t)
    BY <1>0, <1>3, <1>8 DEF ReasoningReturns, ApplyPlan, ExecutionFails, ExecutionEnds
  <1>9. CASE ReasoningAsks(t)
    BY <1>3, <1>9 DEF ReasoningAsks
  <1>10. CASE ChooseTeammate(t)
    <2>1. pc[t] = "asking" /\ pc'[t] \in {"asking", "sending"} /\ UNCHANGED slot
      BY <1>0, <1>10 DEF ChooseTeammate
    <2>2. \A u \in Tasks \ {t} : pc'[u] = pc[u] /\ recipient'[u] = recipient[u]
      BY <1>0, <1>10 DEF ChooseTeammate
    <2> QED
      BY <1>0, <2>1, <2>2 DEF SlotsAreUsed
  <1>11. CASE AskTeammate(t)
    <2>1. CASE slot' = slot
      <3>1. pc[t] = "sending" /\ \A u \in Tasks \ {t} : pc'[u] = pc[u] /\ recipient'[u] = recipient[u]
        BY <1>0, <1>11 DEF AskTeammate
      <3> QED
        BY <1>0, <2>1, <3>1 DEF SlotsAreUsed
    <2>2. CASE slot' # slot
      BY <1>0, <1>11, <2>2 DEF AskTeammate, SlotsAreUsed
    <2> QED
      BY <2>1, <2>2
  <1>12. CASE TeammateAnswers(t)
    <2> SUFFICES ASSUME NEW v \in Workers, NEW u \in Tasks, slot'[v] = u
                 PROVE  \/ WorkerOf[u] = v /\ pc'[u] \in {"reasoning", "continuing"}
                        \/ recipient'[u] = v /\ pc'[u] = "answering"
      BY DEF SlotsAreUsed
    <2>1. slot[v] = u /\ v # recipient[t]
      BY <1>0, <1>12 DEF TeammateAnswers, FreeTeammateSlot
    <2>2. u # t
      BY <1>12, <2>1 DEF SlotsAreUsed, TeammateAnswers
    <2>3. pc'[u] = pc[u] /\ recipient'[u] = recipient[u]
      BY <1>0, <1>12, <2>2 DEF TeammateAnswers
    <2> QED
      BY <2>1, <2>3 DEF SlotsAreUsed
  <1>13. CASE ContinueAfterQuestions(t)
    <2>1. CASE ApplyPlan(t) /\ UNCHANGED slot
      BY <1>0, <1>1, <1>13, <2>1 DEF ContinueAfterQuestions, ApplyPlan, ExecutionFails, ExecutionEnds
    <2>2. CASE ExecutionFails(t) /\ UNCHANGED slot
      BY <1>0, <1>1, <1>13, <2>2 DEF ContinueAfterQuestions, ExecutionFails, ExecutionEnds
    <2>3. CASE slot[w] = None /\ slot' = [slot EXCEPT ![w] = t]
               /\ pc' = [pc EXCEPT ![t] = "continuing"] /\ UNCHANGED recipient
      BY <1>2, <1>13, <2>3 DEF ContinueAfterQuestions
    <2> QED
      BY <1>13, <2>1, <2>2, <2>3 DEF ContinueAfterQuestions
  <1>14. CASE VerificationFails(t)
    BY <1>1, <1>14 DEF VerificationFails, VerificationEvent, execVars
  <1>15. CASE TaskDelivered(t)
    BY <1>1, <1>15 DEF TaskDelivered, VerificationEvent, execVars
  <1>16. CASE MergeFails(t)
    BY <1>1, <1>a, <1>16 DEF MergeFails, MergeRefused, VerificationEvent, execVars
  <1>17. CASE Reported(t)
    BY <1>0, <1>1, <1>17 DEF Reported, ExecutionEnds
  <1>18. CASE MemoryFails(t)
    BY <1>0, <1>1, <1>18 DEF MemoryFails, ExecutionFails, ExecutionEnds
  <1> QED
    BY <1>4, <1>5, <1>6, <1>7, <1>8, <1>9, <1>10, <1>11, <1>12, <1>13, <1>14, <1>15, <1>16,
       <1>17, <1>18
       DEF Step, Execution

\* A worker's slot is held for a request that is under way.
THEOREM SlotsAreGivenBack == Spec => []SlotsAreUsed
PROOF
  <1>1. Init => CoreInv /\ SlotsAreUsed
    BY InitTypes, DeliveryAssumption DEF CoreInv, Init, SlotsAreUsed
  <1>2. CoreInv /\ SlotsAreUsed /\ [Next]_vars => (CoreInv /\ SlotsAreUsed)'
    <2>1. ASSUME CoreInv, SlotsAreUsed, NEW t \in Tasks, Step(t) PROVE (CoreInv /\ SlotsAreUsed)'
      BY <2>1, CoreStep, SlotsStep DEF CoreInv
    <2>2. CoreInv /\ SlotsAreUsed /\ UNCHANGED vars => (CoreInv /\ SlotsAreUsed)'
      BY CoreStutters DEF SlotsAreUsed, vars, execVars
    <2> QED
      BY <2>1, <2>2 DEF Next
  <1> QED
    BY <1>1, <1>2, PTL DEF Spec

-----------------------------------------------------------------------------
(* Order and exclusion.                                                    *)

\* What was started has its dependencies completed.
DepsInv == \A t \in Tasks : pc[t] # "waiting" => \A d \in Deps[t] : pc[d] = "completed"

LEMMA PcStep ==
  ASSUME CoreInv, NEW t \in Tasks, Step(t)
  PROVE  /\ pc[t] \notin Settled /\ pc'[t] # "waiting"
         /\ \A s \in Tasks \ {t} : pc'[s] = pc[s]
         /\ pc[t] = "waiting" => \A d \in Deps[t] : pc[d] = "completed"
PROOF
  <1>0. pc \in [Tasks -> Phases]
    BY DEF CoreInv, TypeOK, Phases
  <1>1. pc'[t] # "waiting" /\ \A s \in Tasks \ {t} : pc'[s] = pc[s]
    BY <1>0, Shapes DEF CoreInv, Enters, Leaves, Stays, Settled
  <1>2. pc[t] \notin Settled /\ (pc[t] = "waiting" => Start(t))
    BY DEF Step, Execution, Start, Wake, RemoveAfterFailure, BeginExecution, ReasoningFails,
       ReasoningReturns, ReasoningAsks, ChooseTeammate, AskTeammate, TeammateAnswers,
       ContinueAfterQuestions, Reported, MemoryFails, VerificationFails, TaskDelivered,
       MergeFails, MergeRefused, VerificationEvent, Settled
  <1> QED
    BY <1>1, <1>2 DEF Start

LEMMA DepsStep ==
  ASSUME CoreInv, DepsInv, NEW t \in Tasks, Step(t)
  PROVE  DepsInv'
PROOF
  <1> SUFFICES ASSUME NEW s \in Tasks, pc'[s] # "waiting", NEW d \in Deps[s]
               PROVE  pc'[d] = "completed"
    BY DEF DepsInv
  <1>1. d \in Tasks
    BY DeliveryAssumption
  <1>2. pc[d] = "completed"
    BY PcStep DEF DepsInv
  <1> QED
    BY <1>1, <1>2, PcStep DEF Settled

\* While a task that is alone with its worker is under way, and after it
\* failed, no other task of its worker takes a step.
LEMMA Exclusive ==
  ASSUME CoreInv, DepsInv, NEW t \in Tasks, Alone(t), pc[t] \notin {"waiting", "completed"},
         NEW s \in Tasks, s # t, WorkerOf[s] = WorkerOf[t], Step(s)
  PROVE  FALSE
PROOF
  <1>1. s \in Deps[t] \/ t \in Deps[s]
    BY DEF Alone
  <1>2. CASE s \in Deps[t]
    BY <1>2, PcStep DEF DepsInv, Settled
  <1>3. CASE t \in Deps[s]
    BY <1>3, PcStep DEF DepsInv
  <1> QED
    BY <1>1, <1>2, <1>3

-----------------------------------------------------------------------------
(* What a step does to the repository: one of five shapes.                 *)

Unverified(t) == UNCHANGED <<stray, verified>>

NoGit(t) ==
  /\ UNCHANGED <<attempt, gitVars>>
  /\ \/ InLane(t) /\ pc'[t] \in (LanePhases \ {"reporting"}) \cup {"removing"}
     \/ pc[t] = "reporting" /\ EventLoopIdle /\ pc'[t] = "verifying"
     \/ pc[t] = "verifying" /\ pc'[t] = "sleeping"

Tries(t) ==
  /\ pc[t] \in {"waiting", "sleeping", "verifying"}
  /\ EventLoopIdle \/ pc[t] = "verifying"
  /\ attempt' = [attempt EXCEPT ![t] = @ + 1]
  /\ \/ CreateWorktree(WorkerOf[t]) /\ pc'[t] = "queued"
     \/ CreationFails(WorkerOf[t]) /\ pc'[t] = "threw"
  /\ Displace(WorkerOf[t])
  /\ UNCHANGED main
  /\ Unverified(t) \/ MergeRefused(t)

Writes(t) ==
  /\ InLane(t) /\ EventLoopIdle
  /\ Write(t) /\ pc'[t] \in {"reporting", "removing"}
  /\ UNCHANGED <<attempt, main, stray, displaced, verified>>

Removes(t) ==
  /\ pc[t] \in {"removing", "verifying"} /\ pc'[t] \in {"sleeping", "failed"}
  /\ RemoveWorktree(WorkerOf[t])
  /\ UNCHANGED <<attempt, main, displaced>>
  /\ Unverified(t) \/ MergeRefused(t)

LEMMA GitShapes ==
  ASSUME CoreInv, NEW t \in Tasks, Step(t)
  PROVE  NoGit(t) \/ Tries(t) \/ Writes(t) \/ Removes(t) \/ TaskDelivered(t)
PROOF
  <1>0. pc \in [Tasks -> Phases]
    BY DEF CoreInv, TypeOK, Phases
  <1>a. ASSUME ExecutionFails(t), UNCHANGED <<dir, files>>, InLane(t) PROVE NoGit(t)
    BY <1>0, <1>a DEF ExecutionFails, ExecutionEnds, NoGit, gitVars
  <1>b. ASSUME ApplyPlan(t), InLane(t), EventLoopIdle PROVE Writes(t)
    BY <1>0, <1>b DEF ApplyPlan, ExecutionFails, ExecutionEnds, Writes
  <1>1. CASE Start(t) \/ Wake(t)
    BY <1>0, <1>1 DEF Start, Wake, Attempt, Tries, Unverified
  <1>2. CASE RemoveAfterFailure(t)
    BY <1>0, <1>2 DEF RemoveAfterFailure, Removes, Unverified
  <1>3. CASE BeginExecution(t)
    BY <1>0, <1>3, <1>a DEF BeginExecution, NoGit, InLane, LanePhases
  <1>4. CASE ReasoningFails(t)
    BY <1>4, <1>a DEF ReasoningFails, InLane, LanePhases
  <1>5. CASE ReasoningReturns(t)
    BY <1>5, <1>b DEF ReasoningReturns, InLane, LanePhases
  <1>6. CASE ReasoningAsks(t)
    BY <1>0, <1>6 DEF ReasoningAsks, NoGit, InLane, LanePhases
  <1>7. CASE ChooseTeammate(t)
    BY <1>0, <1>7 DEF ChooseTeammate, NoGit, InLane, LanePhases
  <1>8. CASE AskTeammate(t)
    BY <1>0, <1>8 DEF AskTeammate, NoGit, InLane, LanePhases
  <1>9. CASE TeammateAnswers(t)
    BY <1>0, <1>9 DEF TeammateAnswers, NoGit, InLane, LanePhases
  <1>10. CASE ContinueAfterQuestions(t)
    BY <1>0, <1>10, <1>a, <1>b DEF ContinueAfterQuestions, NoGit, InLane, LanePhases
  <1>11. CASE VerificationFails(t)
    BY <1>0, <1>11 DEF VerificationFails, VerificationEvent, NoGit, Removes, Unverified, gitVars
  <1>12. CASE MergeFails(t)
    <2>1. CASE Attempt(t)
      BY <1>0, <1>12, <2>1 DEF MergeFails, MergeRefused, VerificationEvent, Attempt, Tries
    <2>2. CASE RemoveWorktree(WorkerOf[t]) /\ pc' = [pc EXCEPT ![t] = "failed"]
               /\ UNCHANGED <<attempt, execVars, main, displaced>>
      BY <1>0, <1>12, <2>2 DEF MergeFails, MergeRefused, VerificationEvent, Removes
    <2> QED
      BY <1>12, <2>1, <2>2 DEF MergeFails
  <1>13. CASE Reported(t)
    BY <1>0, <1>13 DEF Reported, ExecutionEnds, NoGit, gitVars
  <1>14. CASE MemoryFails(t)
    BY <1>14, <1>a DEF MemoryFails, InLane, LanePhases
  <1> QED
    BY <1>1, <1>2, <1>3, <1>4, <1>5, <1>6, <1>7, <1>8, <1>9, <1>10, <1>11, <1>12, <1>13, <1>14
       DEF Step, Execution

-----------------------------------------------------------------------------
(* Delivered work.                                                         *)

\* The plan of t is applied, and its worktree is still to be merged.
Applied(t) == pc[t] \in {"reporting", "verifying"}

\* What was written is in the worktree that will be committed, or was lost.
WrittenInv == \A t \in Tasks :
  Applied(t) /\ dir[WorkerOf[t]] = "worktree" => Change(t) \in files[WorkerOf[t]] \/ Lost(t)

\* While one task of a worker is verified no other one's plan is applied.
OneVerified == \A s, t \in Tasks :
  s # t /\ WorkerOf[s] = WorkerOf[t] => ~ (pc[s] = "verifying" /\ Applied(t))

GitTyped ==
  /\ pc \in [Tasks -> Phases] /\ attempt \in [Tasks -> 0..MaxTaskRetries + 1]
  /\ dir \in [Workers -> {"absent", "worktree", "plain"}]
  /\ files \in [Workers -> SUBSET Changes] /\ WorkerOf \in [Tasks -> Workers]

LEMMA GitIsTyped == CoreInv => GitTyped
PROOF
  BY DeliveryAssumption DEF CoreInv, TypeOK, GitTyped, Phases

\* While a verification of an unsuspended task, or of a task that is alone,
\* waits, no other task of its worker handles an event.
LEMMA IdleExcludes ==
  ASSUME CoreInv, DepsInv, NEW s \in Tasks, NEW t \in Tasks, s # t, WorkerOf[s] = WorkerOf[t],
         pc[s] = "verifying", EventLoopIdle, Step(t)
  PROVE  FALSE
PROOF
  <1>1. s \in Suspends
    BY DEF EventLoopIdle, Continuing
  <1>2. Alone(s)
    BY <1>1, DeliveryAssumption
  <1> QED
    BY <1>2, Exclusive

\* Only one task of a worker can wait for the row of its report.
LEMMA OneReports ==
  ASSUME CoreInv, NEW s \in Tasks, NEW t \in Tasks, WorkerOf[s] = WorkerOf[t],
         pc[s] = "reporting", pc[t] = "reporting"
  PROVE  s = t
PROOF
  <1>1. lane[WorkerOf[s]][1] = s /\ lane[WorkerOf[t]][1] = t
    BY DEF CoreInv, LaneInv, InLane, LanePhases
  <1> QED
    BY <1>1

\* Nothing that is lost is found again.
LEMMA LostStays ==
  ASSUME CoreInv, NEW t \in Tasks, Step(t)
  PROVE  /\ displaced \subseteq displaced'
         /\ \A s \in Tasks \ {t} : Change(s)' = Change(s) /\ (Lost(s) => Lost(s)')
PROOF
  <1>0. GitTyped /\ WorkerOf[t] \in Workers
    BY GitIsTyped, DeliveryAssumption
  <1>1. displaced \subseteq displaced'
    BY <1>0, GitShapes, DisplacedTypes
       DEF NoGit, Tries, Writes, Removes, TaskDelivered, CoreInv, gitVars
  <1>2. \A s \in Tasks \ {t} : Change(s)' = Change(s)
    BY <1>0, GitShapes DEF NoGit, Tries, Writes, Removes, TaskDelivered, GitTyped, Change
  <1>3. ASSUME NEW s \in Tasks, s # t, Lost(s) PROVE Lost(s)'
    <2>1. ~ Alone(s) /\ Change(s) \in displaced
      BY <1>3 DEF Lost
    <2>2. Change(s)' \in displaced'
      BY <1>1, <1>2, <1>3, <2>1
    <2>3. ~ Alone(s)'
      BY <2>1 DEF Alone
    <2> QED
      BY <2>2, <2>3 DEF Lost
  <1> QED
    BY <1>1, <1>2, <1>3

LEMMA OneVerifiedStep ==
  ASSUME CoreInv, DepsInv, OneVerified, NEW t \in Tasks, Step(t)
  PROVE  OneVerified'
PROOF
  <1> SUFFICES ASSUME NEW a \in Tasks, NEW b \in Tasks, a # b, WorkerOf[a] = WorkerOf[b],
                      pc'[a] = "verifying", Applied(b)'
               PROVE  FALSE
    BY DEF OneVerified
  <1>0. \A s \in Tasks \ {t} : pc'[s] = pc[s]
    BY PcStep
  <1>1. ASSUME Applied(t)'
        PROVE  \/ Writes(t) /\ pc'[t] = "reporting"
               \/ pc[t] = "reporting" /\ pc'[t] = "verifying"
    BY <1>1, GitShapes, GitIsTyped
       DEF Applied, NoGit, Writes, Tries, Removes, TaskDelivered, LanePhases, GitTyped
  <1>2. CASE a = t
    <2>1. pc[t] = "reporting" /\ Applied(b)
      BY <1>0, <1>1, <1>2 DEF Applied
    <2>2. pc[b] # "verifying"
      BY <1>2, <2>1 DEF OneVerified, Applied
    <2> QED
      BY <1>2, <2>1, <2>2, OneReports DEF Applied
  <1>3. CASE b = t
    <2>1. pc[a] = "verifying"
      BY <1>0, <1>3
    <2>2. CASE Writes(t)
      BY <1>3, <2>1, <2>2, IdleExcludes DEF Writes
    <2>3. CASE pc[t] = "reporting"
      BY <1>3, <2>1, <2>3 DEF OneVerified, Applied
    <2> QED
      BY <1>1, <1>3, <2>2, <2>3
  <1>4. CASE a # t /\ b # t
    BY <1>0, <1>4 DEF OneVerified, Applied
  <1> QED
    BY <1>2, <1>3, <1>4

LEMMA WrittenStep ==
  ASSUME CoreInv, DepsInv, OneVerified, WrittenInv, NEW t \in Tasks, Step(t)
  PROVE  WrittenInv'
PROOF
  <1> SUFFICES ASSUME NEW s \in Tasks, Applied(s)', dir'[WorkerOf[s]] = "worktree"
               PROVE  Change(s)' \in files'[WorkerOf[s]] \/ Lost(s)'
    BY DEF WrittenInv
  <1> DEFINE w == WorkerOf[t]
  <1>0. GitTyped /\ w \in Workers /\ WorkerOf[s] \in Workers
    BY GitIsTyped, DeliveryAssumption
  <1>1. CASE s = t
    <2>1. Writes(t) \/ (NoGit(t) /\ pc[t] = "reporting")
      BY <1>0, <1>1, GitShapes
         DEF Applied, NoGit, Tries, Removes, TaskDelivered, LanePhases, GitTyped
    <2>2. CASE Writes(t)
      BY <1>0, <1>1, <2>2 DEF Writes, Write, Change, GitTyped
    <2>3. CASE NoGit(t) /\ pc[t] = "reporting"
      BY <1>1, <2>3 DEF NoGit, gitVars, WrittenInv, Applied, Lost, Change, Alone
    <2> QED
      BY <2>1, <2>2, <2>3
  <1>2. CASE s # t
    <2>1. Applied(s) /\ pc[s] \in {"reporting", "verifying"}
      BY <1>2, PcStep DEF Applied
    <2>2. Change(s)' = Change(s) /\ (Lost(s) => Lost(s)')
      BY <1>2, LostStays
    <2>3. CASE WorkerOf[s] # w
      <3>1. dir'[WorkerOf[s]] = dir[WorkerOf[s]] /\ files'[WorkerOf[s]] = files[WorkerOf[s]]
        BY <1>0, <2>3, GitShapes
           DEF NoGit, Tries, Writes, Removes, TaskDelivered, GitTyped, gitVars, Write,
               CreateWorktree, CreationFails, RemoveWorktree
      <3> QED
        BY <2>1, <2>2, <3>1 DEF WrittenInv
    <2>4. CASE WorkerOf[s] = w
      <3>1. CASE Tries(t)
        <4>1. CASE pc[s] = "verifying"
          <5>1. CASE EventLoopIdle
            BY <1>2, <2>4, <4>1, <5>1, IdleExcludes
          <5>2. CASE pc[t] = "verifying"
            BY <1>2, <2>4, <4>1, <5>2 DEF OneVerified, Applied
          <5> QED
            BY <3>1, <5>1, <5>2 DEF Tries
        <4>2. CASE pc[s] = "reporting"
          <5>1. ~ Alone(s)
            BY <1>2, <2>4, <4>2, Exclusive
          <5>2. Change(s) \in displaced'
            BY <2>4, <3>1, <4>2 DEF Tries, Displace
          <5>3. Change(s)' \in displaced' /\ ~ Alone(s)'
            BY <2>2, <5>1, <5>2 DEF Alone
          <5> QED
            BY <5>3 DEF Lost
        <4> QED
          BY <2>1, <4>1, <4>2
      <3>2. CASE Writes(t)
        <4>1. dir[w] = "worktree" /\ files[w] \subseteq files'[w]
          BY <1>0, <2>4, <3>2 DEF Writes, Write, GitTyped
        <4> QED
          BY <2>1, <2>2, <2>4, <4>1 DEF WrittenInv
      <3>3. CASE Removes(t)
        <4>1. dir'[w] # "worktree"
          BY <1>0, <3>3 DEF Removes, RemoveWorktree, CreationFails, GitTyped
        <4> QED
          BY <2>4, <4>1
      <3>4. CASE NoGit(t) \/ TaskDelivered(t)
        <4>1. UNCHANGED <<dir, files>>
          BY <3>4 DEF NoGit, TaskDelivered, gitVars
        <4> QED
          BY <2>1, <2>2, <4>1 DEF WrittenInv
      <3> QED
        BY <3>1, <3>2, <3>3, <3>4, GitShapes
    <2> QED
      BY <2>3, <2>4
  <1> QED
    BY <1>1, <1>2

LEMMA CompletedStep ==
  ASSUME CoreInv, WrittenInv, CompletedWorkIsMerged, NEW t \in Tasks, Step(t)
  PROVE  CompletedWorkIsMerged'
PROOF
  <1> SUFFICES ASSUME NEW s \in Tasks, pc'[s] = "completed"
               PROVE  Change(s)' \in main' \/ Lost(s)'
    BY DEF CompletedWorkIsMerged
  <1>0. GitTyped
    BY GitIsTyped
  <1>1. CASE s = t
    <2>1. TaskDelivered(t)
      BY <1>0, <1>1, GitShapes DEF NoGit, Tries, Writes, Removes, LanePhases
    <2>2. Change(t) \in files[WorkerOf[t]] \/ Lost(t)
      BY <2>1 DEF TaskDelivered, VerificationEvent, WrittenInv, Applied
    <2> QED
      BY <1>1, <2>1, <2>2 DEF TaskDelivered, Change, Lost, Alone
  <1>2. CASE s # t
    <2>1. pc[s] = "completed"
      BY <1>2, PcStep
    <2>2. main \subseteq main'
      BY GitShapes DEF NoGit, Tries, Writes, Removes, TaskDelivered, gitVars
    <2> QED
      BY <1>2, <2>1, <2>2, LostStays DEF CompletedWorkIsMerged
  <1> QED
    BY <1>1, <1>2

MergeInv == CoreInv /\ DepsInv /\ OneVerified /\ WrittenInv /\ CompletedWorkIsMerged

LEMMA MergeInvHolds == Spec => []MergeInv
PROOF
  <1>1. Init => MergeInv
    <2> SUFFICES ASSUME Init PROVE MergeInv
      OBVIOUS
    <2>1. CoreInv
      BY InitTypes DEF CoreInv
    <2>2. \A t \in Tasks : pc[t] = "waiting"
      BY DEF Init
    <2> QED
      BY <2>1, <2>2 DEF MergeInv, DepsInv, OneVerified, WrittenInv, CompletedWorkIsMerged, Applied
  <1>2. ASSUME MergeInv, NEW t \in Tasks, Step(t) PROVE MergeInv'
    BY <1>2, CoreStep, DepsStep, OneVerifiedStep, WrittenStep, CompletedStep DEF MergeInv
  <1>3. MergeInv /\ UNCHANGED vars => MergeInv'
    BY CoreStutters DEF MergeInv, DepsInv, OneVerified, WrittenInv, CompletedWorkIsMerged,
       Applied, Lost, Alone, Change, vars, gitVars
  <1>4. MergeInv /\ [Next]_vars => MergeInv'
    BY <1>2, <1>3 DEF Next
  <1> QED
    BY <1>1, <1>4, PTL DEF Spec

\* Completed work is on the main branch, whatever tasks share a worker, unless
\* its worktree was replaced while its report was under way.
THEOREM CompletedIsMerged == Spec => []CompletedWorkIsMerged
PROOF
  <1>1. MergeInv => CompletedWorkIsMerged
    BY DEF MergeInv
  <1> QED
    BY <1>1, MergeInvHolds, PTL

-----------------------------------------------------------------------------
(* Tasks that are alone with their worker.                                 *)

\* Unverified changes of such a task are in its own worktree only, while it
\* is at work.
UnverifiedIsPrivate == \A t \in Tasks, n \in 1..MaxTaskRetries + 1, w \in Workers :
  Alone(t) /\ <<t, n>> \in files[w] /\ <<t, n>> \notin verified =>
    w = WorkerOf[t] /\ n = attempt[t] /\ AtWork(t)

\* It never works in a plain directory.
NeverPlain == \A t \in Tasks : Alone(t) =>
  t \notin stray /\ (AtWork(t) => dir[WorkerOf[t]] # "plain")

AloneInv == /\ MergeInv /\ MergedWorkIsVerified /\ UnverifiedIsPrivate
            /\ NeverPlain /\ BuildsOnDependencies /\ FailureLeavesNothing

LEMMA VerifiedGrows ==
  ASSUME CoreInv, NEW t \in Tasks, Step(t)
  PROVE  verified \subseteq verified'
PROOF
  BY GitShapes DEF NoGit, Tries, Writes, Removes, TaskDelivered, Unverified, MergeRefused, gitVars

\* The other workers' directories are left alone.
LEMMA OtherDirectories ==
  ASSUME CoreInv, NEW t \in Tasks, Step(t), NEW w \in Workers, w # WorkerOf[t]
  PROVE  dir'[w] = dir[w] /\ files'[w] = files[w]
PROOF
  BY GitIsTyped, GitShapes
     DEF NoGit, Tries, Writes, Removes, TaskDelivered, GitTyped, gitVars, Write,
         CreateWorktree, CreationFails, RemoveWorktree

\* A task that is alone and at work is not disturbed.
LEMMA Undisturbed ==
  ASSUME AloneInv, NEW t \in Tasks, Step(t), NEW s \in Tasks, s # t, Alone(s),
         pc[s] \notin {"waiting", "completed"}
  PROVE  /\ WorkerOf[s] # WorkerOf[t]
         /\ dir'[WorkerOf[s]] = dir[WorkerOf[s]] /\ files'[WorkerOf[s]] = files[WorkerOf[s]]
PROOF
  <1>1. WorkerOf[s] # WorkerOf[t]
    BY Exclusive DEF AloneInv, MergeInv
  <1>2. WorkerOf[s] \in Workers
    BY DeliveryAssumption
  <1> QED
    BY <1>1, <1>2, OtherDirectories DEF AloneInv, MergeInv

LEMMA SameAttempt ==
  ASSUME CoreInv, NEW t \in Tasks, Step(t), NEW s \in Tasks, s # t
  PROVE  pc'[s] = pc[s] /\ attempt'[s] = attempt[s] /\ AtWork(s)' = AtWork(s)
PROOF
  BY PcStep, GitIsTyped, GitShapes
     DEF NoGit, Tries, Writes, Removes, TaskDelivered, GitTyped, AtWork

LEMMA MergedStep ==
  ASSUME AloneInv, NEW t \in Tasks, Step(t)
  PROVE  MergedWorkIsVerified'
PROOF
  <1> SUFFICES ASSUME NEW u \in Tasks, NEW n \in 1..MaxTaskRetries + 1, Alone(u), <<u, n>> \in main'
               PROVE  <<u, n>> \in verified'
    BY DEF MergedWorkIsVerified, Alone
  <1>0. CoreInv /\ DepsInv /\ WorkerOf[t] \in Workers
    BY DeliveryAssumption DEF AloneInv, MergeInv
  <1>1. CASE <<u, n>> \in main
    BY <1>0, <1>1, VerifiedGrows DEF AloneInv, MergedWorkIsVerified
  <1>2. CASE <<u, n>> \notin main
    <2>1. TaskDelivered(t) /\ <<u, n>> \in files[WorkerOf[t]]
      BY <1>0, <1>2, GitShapes DEF NoGit, Tries, Writes, Removes, TaskDelivered, gitVars
    <2>2. CASE <<u, n>> \in verified
      BY <1>0, <2>2, VerifiedGrows
    <2>3. CASE <<u, n>> \notin verified
      <3>1. WorkerOf[t] = WorkerOf[u] /\ n = attempt[u] /\ AtWork(u)
        BY <1>0, <2>1, <2>3 DEF AloneInv, UnverifiedIsPrivate
      <3>2. u = t
        BY <1>0, <3>1, Exclusive DEF AtWork, Settled
      <3> QED
        BY <2>1, <3>1, <3>2 DEF TaskDelivered, Change
    <2> QED
      BY <2>2, <2>3
  <1> QED
    BY <1>1, <1>2

LEMMA PrivateStep ==
  ASSUME AloneInv, NEW t \in Tasks, Step(t)
  PROVE  UnverifiedIsPrivate'
PROOF
  <1> SUFFICES ASSUME NEW u \in Tasks, NEW n \in 1..MaxTaskRetries + 1, NEW w \in Workers,
                      Alone(u), <<u, n>> \in files'[w], <<u, n>> \notin verified'
               PROVE  w = WorkerOf[u] /\ n = attempt'[u] /\ AtWork(u)'
    BY DEF UnverifiedIsPrivate, Alone
  <1>0. CoreInv /\ GitTyped /\ WorkerOf[t] \in Workers
    BY GitIsTyped, DeliveryAssumption DEF AloneInv, MergeInv
  <1>1. <<u, n>> \notin verified /\ <<u, n>> \notin main
    BY <1>0, VerifiedGrows DEF AloneInv, MergedWorkIsVerified
  <1>2. CASE w # WorkerOf[t]
    <2>1. <<u, n>> \in files[w]
      BY <1>0, <1>2, OtherDirectories
    <2>2. w = WorkerOf[u] /\ n = attempt[u] /\ AtWork(u)
      BY <1>1, <2>1 DEF AloneInv, UnverifiedIsPrivate
    <2> QED
      BY <1>0, <1>2, <2>2, SameAttempt
  <1>3. CASE w = WorkerOf[t]
    <2>1. CASE Tries(t)
      <3>1. files'[w] = main \/ files'[w] = {}
        BY <1>0, <1>3, <2>1 DEF Tries, CreateWorktree, CreationFails, GitTyped
      <3> QED
        BY <1>1, <3>1
    <2>2. CASE Removes(t)
      <3>1. files'[w] = {} \/ (dir[w] = "plain" /\ files'[w] = files[w])
        BY <1>0, <1>3, <2>2 DEF Removes, RemoveWorktree, CreationFails, GitTyped
      <3>2. <<u, n>> \in files[w] /\ dir[w] = "plain"
        BY <3>1
      <3>3. w = WorkerOf[u] /\ AtWork(u)
        BY <1>1, <3>2 DEF AloneInv, UnverifiedIsPrivate
      <3> QED
        BY <3>2, <3>3 DEF AloneInv, NeverPlain
    <2>3. CASE Writes(t)
      <3>1. files'[w] = files[w] \cup {Change(t)} /\ attempt' = attempt
        BY <1>0, <1>3, <2>3 DEF Writes, Write, GitTyped
      <3>2. AtWork(t)'
        BY <2>3 DEF Writes, AtWork, Settled
      <3>3. CASE <<u, n>> \in files[w]
        <4>1. w = WorkerOf[u] /\ n = attempt[u] /\ AtWork(u)
          BY <1>1, <3>3 DEF AloneInv, UnverifiedIsPrivate
        <4> QED
          BY <1>0, <3>1, <3>2, <4>1, SameAttempt
      <3>4. CASE <<u, n>> = Change(t)
        BY <1>3, <3>1, <3>2, <3>4 DEF Change
      <3> QED
        BY <3>1, <3>3, <3>4
    <2>4. CASE NoGit(t) \/ TaskDelivered(t)
      <3>1. files' = files /\ attempt' = attempt
        BY <2>4 DEF NoGit, TaskDelivered, gitVars
      <3>2. w = WorkerOf[u] /\ n = attempt[u] /\ AtWork(u)
        BY <1>1, <3>1 DEF AloneInv, UnverifiedIsPrivate
      <3>3. CASE u # t
        BY <1>0, <3>1, <3>2, <3>3, SameAttempt
      <3>4. CASE u = t
        <4>1. ~ TaskDelivered(t)
          BY <1>1, <3>2, <3>4 DEF TaskDelivered, Change
        <4>2. AtWork(t)'
          BY <2>4, <4>1 DEF NoGit, AtWork, LanePhases, Settled
        <4> QED
          BY <3>1, <3>2, <3>4, <4>2
      <3> QED
        BY <3>3, <3>4
    <2> QED
      BY <1>0, <2>1, <2>2, <2>3, <2>4, GitShapes
  <1> QED
    BY <1>2, <1>3

LEMMA PlainStep ==
  ASSUME AloneInv, NEW t \in Tasks, Step(t)
  PROVE  NeverPlain' /\ FailureLeavesNothing'
PROOF
  <1>0. CoreInv /\ GitTyped /\ WorkerOf[t] \in Workers
    BY GitIsTyped, DeliveryAssumption DEF AloneInv, MergeInv
  <1> SUFFICES ASSUME NEW s \in Tasks, Alone(s)
               PROVE  /\ s \notin stray'
                      /\ AtWork(s)' => dir'[WorkerOf[s]] # "plain"
                      /\ pc'[s] = "failed" => dir'[WorkerOf[s]] = "absent"
    BY DEF NeverPlain, FailureLeavesNothing, Alone
  <1>1. s \notin stray /\ (AtWork(s) => dir[WorkerOf[s]] # "plain")
    BY DEF AloneInv, NeverPlain
  <1>2. CASE s = t
    <2>1. AtWork(t) \/ pc[t] = "waiting"
      BY <1>0, PcStep DEF AtWork
    <2>2. pc[t] = "waiting" => Tries(t) /\ Unverified(t)
      BY <1>0, GitShapes
         DEF NoGit, Tries, Writes, Removes, TaskDelivered, VerificationEvent, MergeRefused,
             InLane, LanePhases
    <2>3. stray' = stray
      BY <1>1, <1>2, <2>1, <2>2, <1>0, GitShapes
         DEF NoGit, Tries, Writes, Removes, TaskDelivered, Unverified, MergeRefused, gitVars
    <2>4. CASE Tries(t)
      BY <1>0, <1>1, <1>2, <2>3, <2>4 DEF Tries, CreateWorktree, CreationFails, GitTyped
    <2>5. CASE Removes(t)
      <3>1. dir[WorkerOf[t]] # "plain"
        BY <1>1, <1>2, <2>1, <2>5 DEF Removes
      <3> QED
        BY <1>0, <1>1, <1>2, <2>3, <2>5, <3>1 DEF Removes, RemoveWorktree, CreationFails, GitTyped
    <2>6. CASE Writes(t)
      <3>1. pc[t] # "sleeping" /\ AtWork(t)
        BY <2>1, <2>6 DEF Writes, InLane, LanePhases
      <3>2. dir[WorkerOf[t]] = "worktree"
        BY <1>2, <3>1 DEF AloneInv, BuildsOnDependencies
      <3> QED
        BY <1>0, <1>1, <1>2, <2>3, <2>6, <3>2 DEF Writes, Write, GitTyped
    <2>7. CASE NoGit(t) \/ TaskDelivered(t)
      <3>1. dir' = dir /\ pc'[t] # "failed" /\ AtWork(t)
        BY <1>0, <2>1, <2>2, <2>7
           DEF NoGit, TaskDelivered, gitVars, LanePhases, InLane, GitTyped, VerificationEvent, AtWork
      <3> QED
        BY <1>1, <1>2, <2>3, <3>1
    <2> QED
      BY <1>0, <2>4, <2>5, <2>6, <2>7, GitShapes
  <1>3. CASE s # t
    <2>1. s \notin stray'
      BY <1>0, <1>1, <1>3, GitShapes
         DEF NoGit, Tries, Writes, Removes, TaskDelivered, Unverified, MergeRefused, gitVars
    <2>2. pc'[s] = pc[s] /\ AtWork(s)' = AtWork(s)
      BY <1>0, <1>3, SameAttempt
    <2>3. CASE AtWork(s) \/ pc[s] = "failed"
      <3>1. pc[s] \notin {"waiting", "completed"}
        BY <2>3 DEF AtWork, Settled
      <3>2. dir'[WorkerOf[s]] = dir[WorkerOf[s]]
        BY <1>3, <3>1, Undisturbed
      <3> QED
        BY <1>1, <2>1, <2>2, <3>2 DEF AloneInv, FailureLeavesNothing
    <2>4. CASE ~ (AtWork(s) \/ pc[s] = "failed")
      BY <2>1, <2>2, <2>4
    <2> QED
      BY <2>3, <2>4
  <1> QED
    BY <1>2, <1>3

LEMMA BuildsStep ==
  ASSUME AloneInv, NEW t \in Tasks, Step(t)
  PROVE  BuildsOnDependencies'
PROOF
  <1>0. CoreInv /\ GitTyped /\ WorkerOf[t] \in Workers
    BY GitIsTyped, DeliveryAssumption DEF AloneInv, MergeInv
  <1> SUFFICES ASSUME NEW s \in Tasks, Alone(s), AtWork(s)', pc'[s] # "sleeping"
               PROVE  /\ dir'[WorkerOf[s]] = "worktree"
                      /\ \A d \in Deps[s] : Change(d)' \in files'[WorkerOf[s]] \/ Lost(d)'
    BY DEF BuildsOnDependencies, Alone
  <1>1. \A d \in Deps[s] : /\ d \in Tasks /\ Change(d)' = Change(d)
                           /\ Change(d) \in main \/ Lost(d)
                           /\ Lost(d) => Lost(d)'
    <2> SUFFICES ASSUME NEW d \in Deps[s]
                 PROVE  /\ d \in Tasks /\ Change(d)' = Change(d)
                        /\ Change(d) \in main \/ Lost(d)
                        /\ Lost(d) => Lost(d)'
      OBVIOUS
    <2>1. d \in Tasks
      BY DeliveryAssumption
    <2>2. pc[s] # "waiting" \/ s = t
      BY <1>0, SameAttempt DEF AtWork
    <2>3. pc[d] = "completed"
      BY <1>0, <2>2, PcStep DEF AloneInv, MergeInv, DepsInv
    <2>4. d # t
      BY <1>0, <2>3, PcStep DEF Settled
    <2> QED
      BY <1>0, <2>1, <2>3, <2>4, LostStays DEF AloneInv, MergeInv, CompletedWorkIsMerged
  <1>2. CASE s = t
    <2>1. CASE Tries(t)
      <3>1. dir'[WorkerOf[t]] = "worktree" /\ files'[WorkerOf[t]] = main
        BY <1>0, <1>2, <2>1 DEF Tries, CreateWorktree, AtWork, Settled, GitTyped
      <3> QED
        BY <1>1, <1>2, <3>1
    <2>2. CASE Writes(t)
      <3>1. AtWork(t) /\ pc[t] # "sleeping"
        BY <2>2 DEF Writes, InLane, LanePhases, AtWork, Settled
      <3>2. /\ dir[WorkerOf[t]] = "worktree"
            /\ \A d \in Deps[t] : Change(d) \in files[WorkerOf[t]] \/ Lost(d)
        BY <1>2, <3>1 DEF AloneInv, BuildsOnDependencies
      <3> QED
        BY <1>0, <1>1, <1>2, <2>2, <3>2 DEF Writes, Write, GitTyped
    <2>3. CASE NoGit(t)
      <3>1. AtWork(t) /\ pc[t] # "sleeping"
        BY <1>2, <2>3 DEF NoGit, InLane, LanePhases, AtWork, Settled
      <3>2. /\ dir[WorkerOf[t]] = "worktree"
            /\ \A d \in Deps[t] : Change(d) \in files[WorkerOf[t]] \/ Lost(d)
        BY <1>2, <3>1 DEF AloneInv, BuildsOnDependencies
      <3> QED
        BY <1>1, <1>2, <2>3, <3>2 DEF NoGit, gitVars
    <2>4. ~ Removes(t) /\ ~ TaskDelivered(t)
      BY <1>0, <1>2 DEF Removes, TaskDelivered, AtWork, Settled, GitTyped
    <2> QED
      BY <1>0, <2>1, <2>2, <2>3, <2>4, GitShapes
  <1>3. CASE s # t
    <2>1. AtWork(s) /\ pc[s] # "sleeping"
      BY <1>0, <1>3, SameAttempt
    <2>2. pc[s] \notin {"waiting", "completed"}
      BY <2>1 DEF AtWork, Settled
    <2>3. dir'[WorkerOf[s]] = dir[WorkerOf[s]] /\ files'[WorkerOf[s]] = files[WorkerOf[s]]
      BY <1>3, <2>2, Undisturbed
    <2> QED
      BY <1>1, <2>1, <2>3 DEF AloneInv, BuildsOnDependencies
  <1> QED
    BY <1>2, <1>3

LEMMA AloneInvHolds == Spec => []AloneInv
PROOF
  <1>1. Init => MergedWorkIsVerified /\ UnverifiedIsPrivate /\ NeverPlain
                /\ BuildsOnDependencies /\ FailureLeavesNothing
    BY DeliveryAssumption
       DEF Init, MergedWorkIsVerified, UnverifiedIsPrivate, NeverPlain,
           BuildsOnDependencies, FailureLeavesNothing, AtWork
  <1>2. ASSUME AloneInv, MergeInv', NEW t \in Tasks, Step(t) PROVE AloneInv'
    BY <1>2, MergedStep, PrivateStep, PlainStep, BuildsStep DEF AloneInv
  <1>3. AloneInv /\ MergeInv' /\ UNCHANGED vars => AloneInv'
    BY DEF AloneInv, MergedWorkIsVerified, UnverifiedIsPrivate, NeverPlain, BuildsOnDependencies,
       FailureLeavesNothing, AtWork, Change, Lost, Alone, vars, gitVars
  <1>4. AloneInv /\ MergeInv' /\ [Next]_vars => AloneInv'
    BY <1>2, <1>3 DEF Next
  <1>5. Init /\ MergeInv => AloneInv
    BY <1>1 DEF AloneInv
  <1> QED
    BY <1>4, <1>5, MergeInvHolds, PTL DEF Spec

\* The main branch holds only verified work of tasks that are alone.
THEOREM MergedIsVerified == Spec => []MergedWorkIsVerified
PROOF
  <1>1. AloneInv => MergedWorkIsVerified
    BY DEF AloneInv
  <1> QED
    BY <1>1, AloneInvHolds, PTL

\* Each attempt of such a task works on top of its dependencies.
THEOREM WorkBuildsOnDependencies == Spec => []BuildsOnDependencies
PROOF
  <1>1. AloneInv => BuildsOnDependencies
    BY DEF AloneInv
  <1> QED
    BY <1>1, AloneInvHolds, PTL

\* When it fails, nothing of it is left behind.
THEOREM FailuresLeaveNothing == Spec => []FailureLeavesNothing
PROOF
  <1>1. AloneInv => FailureLeavesNothing
    BY DEF AloneInv
  <1> QED
    BY <1>1, AloneInvHolds, PTL
=============================================================================
