------------------------ MODULE SubtaskPipelineProofs ------------------------
(***************************************************************************)
(* What holds of the pipeline for every plan, every set of responses and   *)
(* every number of retries.                                                *)
(***************************************************************************)
EXTENDS TaskSession, TLAPS

\* Only main()'s commit is behind the plan's end.
WorkIsInPlan ==
  pc \in {"context", "provider", "verifying", "resetting", "cleaning"} => InPlan

Shape == TypeOK /\ WorkIsInPlan

LEMMA TargetIsAFile ==
  ASSUME Shape, InPlan
  PROVE  Target \in Files /\ current \in SubTasks
<1>1. plan \in Seq(Files)
  BY PipelineAssumption DEF Shape, TypeOK
<1>2. current \in 1..Len(plan)
  BY <1>1 DEF Shape, TypeOK, InPlan
<1> QED  BY <1>1, <1>2 DEF Target, SubTasks

\* A response that is applied writes the target, which is no manifest.
LEMMA OnlyTheTargetIsWritten ==
  ASSUME NEW response \in Responses, Patchable(response)
  PROVE  /\ {AssociatedFile(response[k]) : k \in DOMAIN response} \subseteq {Target}
         /\ Valid(response) =>
              {AssociatedFile(response[k]) : k \in DOMAIN response} \cap Protected = {}
BY DEF Patchable, Valid

-----------------------------------------------------------------------------
(* Types.                                                                  *)

LEMMA ShapeInit == Init => Shape
<1> SUFFICES ASSUME Init PROVE Shape
  OBVIOUS
<1>1. plan \in Seq(Files) /\ plan # <<>>
  BY PipelineAssumption DEF Init
<1>2. Len(plan) \in Nat /\ Len(plan) >= 1
  BY <1>1
<1>3. tree \in [Files -> Contents] /\ head \in [Files -> Contents] /\ index \in [Files -> Contents]
  BY DEF Init, Contents, Base, Absent
<1>4. status \in [SubTasks -> Statuses] /\ hash \in [SubTasks -> BOOLEAN]
      /\ delivered \in [SubTasks -> Contents]
  BY DEF Init, Statuses, Contents, Absent
<1>5. retry \in 0..MaxRetryCount /\ current \in 1..Len(plan) + 1
  BY <1>2, PipelineAssumption DEF Init
<1> QED
  BY <1>2, <1>3, <1>4, <1>5 DEF Init, Shape, TypeOK, WorkIsInPlan, InPlan

\* A failed attempt is followed by another or by the rollback.
LEMMA RetryShape ==
  ASSUME Shape, InPlan, RetryOrFail
  PROVE  /\ retry' \in 0..MaxRetryCount
         /\ status' \in [SubTasks -> Statuses]
         /\ pc' \in {"provider", "resetting"}
<1>1. current \in SubTasks
  BY TargetIsAFile
<1>2. retry \in 0..MaxRetryCount /\ MaxRetryCount \in Nat /\ status \in [SubTasks -> Statuses]
  BY PipelineAssumption DEF Shape, TypeOK
<1>3. CASE RetriesLeft /\ retry' = retry + 1 /\ pc' = "provider" /\ UNCHANGED status
  BY <1>2, <1>3 DEF RetriesLeft
<1>4. CASE ~ RetriesLeft /\ FailSubtask
  BY <1>1, <1>2, <1>4 DEF FailSubtask, Statuses
<1> QED  BY <1>3, <1>4 DEF RetryOrFail

LEMMA WriteShape ==
  ASSUME Shape, InPlan, NEW response \in Responses, Patchable(response), Write(response)
  PROVE  tree' \in [Files -> Contents] /\ modified' \subseteq Files
<1>1. Attempt \in Contents
  BY PipelineAssumption DEF Shape, TypeOK, Attempt, Contents
<1>2. tree' \in [Files -> Contents]
  BY <1>1 DEF Write, Shape, TypeOK
<1>3. modified' \subseteq Files
  BY TargetIsAFile, OnlyTheTargetIsWritten DEF Write, Shape, TypeOK
<1> QED  BY <1>2, <1>3

LEMMA CheckpointShape ==
  ASSUME Shape, NEW made \in BOOLEAN, Checkpointed(made), UNCHANGED plan
  PROVE  /\ hash' \in [SubTasks -> BOOLEAN]
         /\ status' \in [SubTasks -> Statuses]
         /\ current' \in 1..Len(plan) + 1
         /\ retry' \in 0..MaxRetryCount
         /\ result' \in {"none", "SUCCESS", "FAILED", "ERROR"}
         /\ pc' \in {"context", "adding", "returned"}
         /\ pc' = "context" => current' <= Len(plan)
<1>1. CASE ~ InPlan
  BY <1>1 DEF Checkpointed, Shape, TypeOK
<1>2. CASE InPlan
  <2>1. current \in SubTasks /\ Len(plan) \in Nat
    BY <1>2, TargetIsAFile, PipelineAssumption DEF Shape, TypeOK
  <2>2. hash' = [hash EXCEPT ![current] = made] /\ current' = current + 1 /\ Advance
    BY <1>2 DEF Checkpointed
  <2>3. CASE current < Len(plan)
    <3>1. status' = [status EXCEPT ![current] = "SUCCESS", ![current + 1] = "RUNNING"]
          /\ pc' = "context" /\ retry' = 0 /\ result' = result
      BY <2>2, <2>3 DEF Advance
    <3>2. status' \in [SubTasks -> Statuses]
      BY <3>1 DEF Shape, TypeOK, Statuses
    <3> QED
      BY <2>1, <2>2, <2>3, <3>1, <3>2, PipelineAssumption DEF Shape, TypeOK, SubTasks
  <2>4. CASE ~ current < Len(plan)
    <3>1. status' = [status EXCEPT ![current] = "SUCCESS"]
          /\ pc' \in {"adding", "returned"} /\ retry' = retry /\ result' = "SUCCESS"
      BY <2>2, <2>4 DEF Advance
    <3>2. status' \in [SubTasks -> Statuses]
      BY <3>1 DEF Shape, TypeOK, Statuses
    <3> QED
      BY <2>1, <2>2, <2>4, <3>1, <3>2 DEF Shape, TypeOK, SubTasks
  <2> QED  BY <2>3, <2>4
<1> QED  BY <1>1, <1>2

LEMMA ShapeNext == Shape /\ [Next]_vars => Shape'
<1> SUFFICES ASSUME Shape, [Next]_vars PROVE Shape'
  OBVIOUS
<1> USE DEF Shape, WorkIsInPlan, TypeOK, InPlan
<1>1. CASE UNCHANGED vars
  BY <1>1 DEF vars, gitVars, history, SubTasks
<1>2. ASSUME NEW f \in Files, UserEdits(f) PROVE Shape'
  BY <1>2 DEF UserEdits, gitVars, history, SubTasks, Contents, User
<1>3. CASE ContextBuilt \/ ContextFails
  BY <1>3 DEF ContextBuilt, ContextFails, gitVars, history, SubTasks
<1>4. CASE ProviderCrashes
  <2>1. status' \in [SubTasks -> Statuses]
    BY <1>4, TargetIsAFile DEF ProviderCrashes, FailSubtask, Statuses
  <2> QED
    BY <1>4, <2>1 DEF ProviderCrashes, FailSubtask, gitVars, history, SubTasks
<1>5. CASE ProviderFails \/ VerificationFails
  <2>1. retry' \in 0..MaxRetryCount /\ status' \in [SubTasks -> Statuses]
        /\ pc' \in {"provider", "resetting"}
    BY <1>5, RetryShape DEF ProviderFails, VerificationFails
  <2> QED
    BY <1>5, <2>1 DEF ProviderFails, VerificationFails, gitVars, history, SubTasks
<1>6. ASSUME NEW r \in Responses, ProviderAnswers(r) PROVE Shape'
  <2>1. CASE ResponseRejected(r)
    <3>1. retry' \in 0..MaxRetryCount /\ status' \in [SubTasks -> Statuses]
          /\ pc' \in {"provider", "resetting"}
      BY <2>1, RetryShape DEF ResponseRejected
    <3> QED  BY <2>1, <3>1 DEF ResponseRejected, gitVars, history, SubTasks
  <2>2. CASE ResponseApplied(r)
    <3>1. tree' \in [Files -> Contents] /\ modified' \subseteq Files
      BY <2>2, WriteShape DEF ResponseApplied
    <3> QED  BY <2>2, <3>1 DEF ResponseApplied, gitVars, history, SubTasks
  <2>3. CASE UpdateFails(r)
    <3>1. retry' \in 0..MaxRetryCount /\ status' \in [SubTasks -> Statuses]
          /\ pc' \in {"provider", "resetting"}
      BY <2>3, RetryShape DEF UpdateFails
    <3>2. tree' \in [Files -> Contents] /\ modified' \subseteq Files
      BY <2>3, WriteShape DEF UpdateFails
    <3> QED  BY <2>3, <3>1, <3>2 DEF UpdateFails, gitVars, history, SubTasks
  <2> QED  BY <1>6, <2>1, <2>2, <2>3 DEF ProviderAnswers
<1>7. CASE VerificationPasses
  <2>1. Target \in Files /\ current \in SubTasks
    BY <1>7, TargetIsAFile DEF VerificationPasses
  <2>2. delivered' \in [SubTasks -> Contents] /\ verified' \subseteq Contents
    BY <1>7, <2>1 DEF VerificationPasses
  <2> QED  BY <1>7, <2>2 DEF VerificationPasses, gitVars, history, SubTasks
<1>8. CASE Add
  BY <1>8 DEF Add, history, SubTasks
<1>9. CASE AddFails \/ Commit \/ CommitFails
  <2>1. UNCHANGED plan /\ \E made \in BOOLEAN : Checkpointed(made)
    BY <1>9 DEF AddFails, Commit, CommitFails
  <2>2. /\ hash' \in [SubTasks -> BOOLEAN]
        /\ status' \in [SubTasks -> Statuses]
        /\ current' \in 1..Len(plan) + 1
        /\ retry' \in 0..MaxRetryCount
        /\ result' \in {"none", "SUCCESS", "FAILED", "ERROR"}
        /\ pc' \in {"context", "adding", "returned"}
        /\ pc' = "context" => current' <= Len(plan)
    BY <2>1, CheckpointShape
  <2> QED
    BY <1>9, <2>2 DEF AddFails, Commit, CommitFails, gitVars, history, SubTasks
<1>10. CASE Reset
  <2>1. tree' \in [Files -> Contents]
    BY <1>10 DEF Reset
  <2> QED  BY <1>10, <2>1 DEF Reset, SubTasks
<1>11. CASE Clean
  <2>1. tree' \in [Files -> Contents]
    <3>1. Absent \in Contents
      BY DEF Absent, Contents
    <3>2. tree' = tree \/ tree' = [f \in Files |-> IF index[f] = Absent THEN Absent ELSE tree[f]]
      BY <1>11 DEF Clean
    <3> QED  BY <3>1, <3>2
  <2>2. status' \in [SubTasks -> Statuses]
    BY <1>11 DEF Clean, SkipRest, Statuses
  <2> QED  BY <1>11, <2>1, <2>2 DEF Clean, gitVars, SubTasks
<1> QED
  BY <1>1, <1>2, <1>3, <1>4, <1>5, <1>6, <1>7, <1>8, <1>9, <1>10, <1>11 DEF Next, Service

\* Every state of the pipeline has its type: never more than the configured
\* retries, and only main()'s commit behind the end of the plan.
THEOREM TypeCorrect == Spec => []TypeOK
<1>1. Init => Shape
  BY ShapeInit
<1>2. Shape /\ [Next]_vars => Shape'
  BY ShapeNext
<1>3. Shape => TypeOK
  BY DEF Shape
<1> QED  BY <1>1, <1>2, <1>3, PTL DEF Spec

-----------------------------------------------------------------------------
(* What the theorems below need of the steps.                              *)

Rollback == {"resetting", "cleaning"}
Commits == {"adding", "committing"}

\* A checkpoint leaves the sub-task for the next one or for main()'s commit.
LEMMA CheckpointAdvances ==
  ASSUME Shape, NEW made \in BOOLEAN, Checkpointed(made)
  PROVE  \/ /\ InPlan /\ current' = current + 1
            /\ hash' = [hash EXCEPT ![current] = made]
            /\ pc' \in {"context", "adding", "returned"}
         \/ /\ ~ InPlan /\ pc' = "returned"
            /\ UNCHANGED <<current, status, hash, result>>
BY DEF Checkpointed, Advance

\* An attempt that ends keeps git as it is, and the sub-task.
LEMMA RetryStays ==
  ASSUME RetryOrFail
  PROVE  pc' \in {"provider", "resetting"}
BY DEF RetryOrFail, FailSubtask

-----------------------------------------------------------------------------
(* Only targets are written.                                               *)

\* An attempt of a sub-task is in the sub-task's own file, no manifest.
IsAtHome(f, c) == c[1] > 0 => c[1] <= Len(plan) /\ plan[c[1]] = f /\ f \notin Protected

\* Git holds what the workspace held.
HomeInv == \A f \in Files : IsAtHome(f, tree[f]) /\ IsAtHome(f, index[f]) /\ IsAtHome(f, head[f])

LEMMA HomeNext == Shape /\ HomeInv /\ [Next]_vars => HomeInv'
<1> SUFFICES ASSUME Shape, HomeInv, [Next]_vars PROVE HomeInv'
  OBVIOUS
<1>0. Absent[1] = 0 /\ User[1] = 0
  BY DEF Absent, User
<1>1. plan' = plan
  BY DEF Next, Service, vars, UserEdits, ContextBuilt, ContextFails, ProviderCrashes, ProviderFails,
     ProviderAnswers, ResponseRejected, ResponseApplied, UpdateFails, VerificationFails,
     VerificationPasses, Add, AddFails, Commit, CommitFails, Reset, Clean
<1>2. ASSUME NEW f \in Files, UserEdits(f) PROVE HomeInv'
  <2>1. \A g \in Files : tree'[g] \in {tree[g], User}
    BY <1>2 DEF UserEdits, Shape, TypeOK
  <2> QED  BY <1>0, <1>1, <1>2, <2>1 DEF UserEdits, gitVars, HomeInv, IsAtHome
<1>3. ASSUME NEW r \in Responses, ProviderAnswers(r), tree' # tree PROVE HomeInv'
  <2>1. Valid(r) /\ Patchable(r) /\ Write(r) /\ UNCHANGED gitVars /\ pc = "provider"
    BY <1>3 DEF ProviderAnswers, ResponseRejected, ResponseApplied, UpdateFails
  <2>2. InPlan
    BY <2>1 DEF Shape, WorkIsInPlan
  <2>3. \A f \in Files : tree'[f] = tree[f] \/ (f = Target /\ f \notin Protected /\ tree'[f] = Attempt)
    BY <2>1, OnlyTheTargetIsWritten DEF Write
  <2>4. Attempt[1] = current /\ current <= Len(plan)
    BY <2>2 DEF Attempt, InPlan
  <2> QED  BY <1>1, <2>1, <2>3, <2>4 DEF gitVars, HomeInv, IsAtHome, Target
<1>4. CASE Add
  BY <1>1, <1>4 DEF Add, HomeInv, IsAtHome
<1>5. CASE Commit
  BY <1>1, <1>5 DEF Commit, HomeInv, IsAtHome
<1>6. CASE Reset
  <2>1. \A f \in Files : tree'[f] \in {tree[f], head[f]} /\ index'[f] \in {index[f], head[f]}
    BY <1>6 DEF Reset, Shape, TypeOK
  <2> QED  BY <1>1, <1>6, <2>1 DEF Reset, HomeInv, IsAtHome
<1>7. CASE Clean
  <2>1. \A f \in Files : tree'[f] \in {tree[f], Absent}
    BY <1>7 DEF Clean, Shape, TypeOK
  <2> QED  BY <1>0, <1>1, <1>7, <2>1 DEF Clean, gitVars, HomeInv, IsAtHome
<1>8. CASE UNCHANGED <<tree, gitVars>>
  BY <1>1, <1>8 DEF gitVars, HomeInv, IsAtHome
<1>9. ASSUME NEW r \in Responses, ProviderAnswers(r), tree' = tree PROVE UNCHANGED <<tree, gitVars>>
  BY <1>9 DEF ProviderAnswers, ResponseRejected, ResponseApplied, UpdateFails
<1> QED
  BY <1>2, <1>3, <1>4, <1>5, <1>6, <1>7, <1>8, <1>9
  DEF Next, Service, vars, ContextBuilt, ContextFails, ProviderCrashes, ProviderFails,
      VerificationFails, VerificationPasses, AddFails, CommitFails

\* A sub-task writes its target and nothing else, and never a manifest.
THEOREM TargetsOnly == Spec => []OnlyTargetsAreWritten
<1>1. Init => Shape /\ HomeInv
  BY ShapeInit DEF Init, HomeInv, IsAtHome, Base, Absent
<1>2. Shape /\ HomeInv /\ [Next]_vars => (Shape /\ HomeInv)'
  BY ShapeNext, HomeNext
<1>3. HomeInv => OnlyTargetsAreWritten
  BY DEF HomeInv, IsAtHome, OnlyTargetsAreWritten
<1> QED  BY <1>1, <1>2, <1>3, PTL DEF Spec

-----------------------------------------------------------------------------
(* Checkpoints protect the work of their sub-tasks.                        *)

Survives(k, c) == c \in {delivered[k], User} \/ c[1] > k

\* A reset takes back the last commit or what the index does not know, so
\* all three must hold the work; between the verification and the commit it
\* is on its way through them.
CheckpointInv ==
  /\ \A k \in SubTasks : hash[k] =>
       /\ k < current
       /\ Survives(k, tree[plan[k]]) /\ Survives(k, index[plan[k]]) /\ Survives(k, head[plan[k]])
  /\ pc \in Commits /\ InPlan => tree[Target] \in {delivered[current], User}
  /\ pc = "committing" /\ InPlan => index[Target] \in {delivered[current], User}

LEMMA CheckpointKept ==
  ASSUME Shape, CheckpointInv, UNCHANGED <<plan, hash, delivered, current>>,
         \A k \in SubTasks : hash[k] =>
           /\ Survives(k, tree[plan[k]]') /\ Survives(k, index[plan[k]]')
           /\ Survives(k, head[plan[k]]'),
         pc' \notin Commits
  PROVE  CheckpointInv'
BY DEF CheckpointInv, Survives, SubTasks, Commits, InPlan

LEMMA PlanNames ==
  ASSUME Shape
  PROVE  \A k \in SubTasks : plan[k] \in Files /\ k \in Nat
BY PipelineAssumption DEF Shape, TypeOK, SubTasks

LEMMA CheckpointMade ==
  ASSUME Shape, CheckpointInv, NEW made \in BOOLEAN, Checkpointed(made), UNCHANGED <<plan, tree, index, delivered>>,
         pc \in Commits,
         head' = head \/ head' = index,
         made /\ InPlan => pc = "committing" /\ head' = index
  PROVE  CheckpointInv'
<1>1. CASE ~ InPlan
  <2>1. pc' = "returned" /\ UNCHANGED <<current, hash>>
    BY <1>1, CheckpointAdvances
  <2> QED  BY <2>1 DEF CheckpointInv, Survives, SubTasks, Commits, InPlan
<1>2. CASE InPlan
  <2>1. current' = current + 1 /\ hash' = [hash EXCEPT ![current] = made]
        /\ pc' \in {"context", "adding", "returned"}
    BY <1>2, CheckpointAdvances
  <2>2. current \in SubTasks /\ hash \in [SubTasks -> BOOLEAN] /\ Len(plan) \in Nat
    BY <1>2, TargetIsAFile, PipelineAssumption DEF Shape, TypeOK
  <2>3. \A k \in SubTasks : hash'[k] => (k = current /\ made) \/ (k # current /\ hash[k])
    BY <2>1, <2>2
  <2>4. \A k \in SubTasks : hash'[k] =>
           /\ k < current + 1
           /\ Survives(k, tree[plan[k]]) /\ Survives(k, index[plan[k]]) /\ Survives(k, head'[plan[k]])
    <3> SUFFICES ASSUME NEW k \in SubTasks, hash'[k]
                 PROVE  /\ k < current + 1
                        /\ Survives(k, tree[plan[k]]) /\ Survives(k, index[plan[k]]) /\ Survives(k, head'[plan[k]])
      OBVIOUS
    <3>1. CASE k = current /\ made
      BY <1>2, <2>2, <3>1 DEF CheckpointInv, Survives, Target, Commits, SubTasks
    <3>2. CASE k # current /\ hash[k]
      BY <2>2, <3>2 DEF CheckpointInv, SubTasks
    <3> QED  BY <2>3, <3>1, <3>2
  <2>5. pc' = "adding" => ~ InPlan'
    BY <1>2, <2>1, <2>2 DEF Checkpointed, Advance, InPlan, SubTasks
  <2> QED  BY <2>1, <2>4, <2>5 DEF CheckpointInv, Survives, SubTasks, Commits
<1> QED  BY <1>1, <1>2

LEMMA CheckpointNext == Shape /\ CheckpointInv /\ [Next]_vars => CheckpointInv'
<1> SUFFICES ASSUME Shape, CheckpointInv, [Next]_vars PROVE CheckpointInv'
  OBVIOUS
<1>0. \A k \in SubTasks : plan[k] \in Files /\ k \in Nat
  BY PlanNames
<1>1. CASE UNCHANGED vars
  BY <1>1 DEF vars, gitVars, history, CheckpointInv, Survives, SubTasks, InPlan, Target
<1>2. ASSUME NEW f \in Files, UserEdits(f) PROVE CheckpointInv'
  <2>1. \A g \in Files : tree'[g] \in {tree[g], User}
    BY <1>2 DEF UserEdits, Shape, TypeOK
  <2>2. InPlan => Target \in Files
    BY TargetIsAFile
  <2> QED
    BY <1>0, <1>2, <2>1, <2>2
    DEF UserEdits, gitVars, history, CheckpointInv, Survives, SubTasks, InPlan, Target
<1>3. CASE ContextBuilt \/ ContextFails \/ ProviderCrashes
  BY <1>3, CheckpointKept DEF ContextBuilt, ContextFails, ProviderCrashes, FailSubtask, gitVars, history,
     CheckpointInv, Survives, Commits
<1>4. CASE ProviderFails \/ VerificationFails
  BY <1>4, CheckpointKept, RetryStays DEF ProviderFails, VerificationFails, gitVars, history, CheckpointInv,
     Survives, Commits
<1>5. ASSUME NEW r \in Responses, ProviderAnswers(r) PROVE CheckpointInv'
  <2>1. /\ pc = "provider" /\ UNCHANGED <<plan, hash, delivered, current, gitVars>>
        /\ tree' = tree \/ (Patchable(r) /\ Write(r))
    BY <1>5 DEF ProviderAnswers, ResponseRejected, ResponseApplied, UpdateFails, history
  <2>2. pc' \in {"provider", "resetting", "verifying"}
    BY <1>5, RetryStays DEF ProviderAnswers, ResponseRejected, ResponseApplied, UpdateFails
  <2>3. \A f \in Files : tree'[f] = tree[f] \/ tree'[f] = Attempt
    BY <2>1 DEF Write
  <2>4. Attempt[1] = current /\ \A k \in SubTasks : hash[k] => current > k
    BY <1>0 DEF Attempt, CheckpointInv, Shape, TypeOK
  <2>5. \A k \in SubTasks : hash[k] => Survives(k, tree'[plan[k]])
    BY <1>0, <2>3, <2>4 DEF CheckpointInv, Survives
  <2> QED
    BY <2>1, <2>2, <2>5, CheckpointKept DEF gitVars, CheckpointInv, Survives, Commits
<1>6. CASE VerificationPasses
  <2>1. Target \in Files /\ current \in SubTasks
    BY <1>6, TargetIsAFile DEF VerificationPasses, Shape, WorkIsInPlan
  <2>2. delivered' = [delivered EXCEPT ![current] = tree[Target]] /\ delivered \in [SubTasks -> Contents]
    BY <1>6 DEF VerificationPasses, Shape, TypeOK
  <2>3. delivered'[current] = tree[Target] /\ \A k \in SubTasks : k # current => delivered'[k] = delivered[k]
    BY <2>1, <2>2
  <2>4. ~ hash[current]
    BY <2>1 DEF CheckpointInv, SubTasks
  <2> QED
    BY <1>6, <2>1, <2>3, <2>4
    DEF VerificationPasses, gitVars, CheckpointInv, Survives, SubTasks, InPlan, Target, Commits
<1>7. CASE Add
  BY <1>7 DEF Add, history, CheckpointInv, Survives, SubTasks, InPlan, Target, Commits
<1>8. CASE AddFails \/ Commit \/ CommitFails
  BY <1>8, CheckpointMade DEF AddFails, Commit, CommitFails, gitVars, history, Commits
<1>9. CASE Reset
  <2>1. \A f \in Files : tree'[f] \in {tree[f], head[f]} /\ index'[f] \in {index[f], head[f]}
    BY <1>9 DEF Reset, Shape, TypeOK
  <2>2. \A k \in SubTasks : hash[k] => Survives(k, tree'[plan[k]]) /\ Survives(k, index'[plan[k]])
    BY <1>0, <2>1 DEF CheckpointInv
  <2> QED  BY <1>9, <2>2, CheckpointKept DEF Reset, CheckpointInv, Survives, Commits
<1>10. CASE Clean
  <2>1. \A f \in Files : tree'[f] = tree[f] \/ (tree'[f] = Absent /\ index[f] = Absent)
    <3>1. tree' = tree \/ tree' = [f \in Files |-> IF index[f] = Absent THEN Absent ELSE tree[f]]
      BY <1>10 DEF Clean
    <3> QED  BY <3>1
  <2>2. Absent # User /\ Absent[1] = 0
    BY DEF Absent, User
  <2>3. \A k \in SubTasks : hash[k] => Survives(k, tree'[plan[k]])
    BY <1>0, <2>1 DEF CheckpointInv
  <2> QED  BY <1>10, <2>3, CheckpointKept DEF Clean, gitVars, CheckpointInv, Survives, Commits
<1> QED
  BY <1>1, <1>2, <1>3, <1>4, <1>5, <1>6, <1>7, <1>8, <1>9, <1>10 DEF Next, Service

\* A checkpoint protects the work of a sub-task from the rollbacks of later
\* ones, through any edits of the user and failures of git.
THEOREM CheckpointsHold == Spec => []CheckpointsSurvive
<1>1. Init => Shape /\ CheckpointInv
  BY ShapeInit DEF Init, CheckpointInv, Commits
<1>2. Shape /\ CheckpointInv /\ [Next]_vars => (Shape /\ CheckpointInv)'
  BY ShapeNext, CheckpointNext
<1>3. CheckpointInv => CheckpointsSurvive
  BY DEF CheckpointInv, Survives, CheckpointsSurvive
<1> QED  BY <1>1, <1>2, <1>3, PTL DEF Spec

-----------------------------------------------------------------------------
(* Nothing of a failed sub-task is left.                                   *)

\* Git learns of a sub-task's work only on its way into a commit, so that a
\* reset takes back, and clean deletes, what the failed one wrote.
RollbackInv ==
  /\ \A f \in Files : head[f][1] < current /\ tree[f][1] <= current /\ index[f][1] <= current
  /\ pc # "committing" => \A f \in Files : index[f][1] < current
  /\ pc = "context" => \A f \in Files : tree[f][1] < current
  /\ pc \notin {"cleaning", "returned"} => ~ rolledBack
  /\ pc = "cleaning" /\ rolledBack => \A f \in Files : tree[f][1] = current => index[f] = Absent
  /\ result = "FAILED" => pc = "returned"
  /\ FailureIsRolledBack

LEMMA Numbers ==
  ASSUME Shape, HomeInv
  PROVE  /\ \A f \in Files : /\ tree[f][1] \in Nat /\ index[f][1] \in Nat /\ head[f][1] \in Nat
                             /\ tree[f][1] <= Len(plan) /\ index[f][1] <= Len(plan)
         /\ current \in Nat /\ current > 0 /\ Len(plan) \in Nat
<1>1. \A f \in Files : tree[f][1] \in Nat /\ index[f][1] \in Nat /\ head[f][1] \in Nat
  BY DEF Shape, TypeOK, Contents
<1>2. Len(plan) \in Nat /\ current \in Nat /\ current > 0
  BY PipelineAssumption DEF Shape, TypeOK
<1> QED  BY <1>1, <1>2 DEF HomeInv, IsAtHome

LEMMA RollbackNext == Shape /\ HomeInv /\ RollbackInv /\ [Next]_vars => RollbackInv'
<1> SUFFICES ASSUME Shape, HomeInv, RollbackInv, [Next]_vars PROVE RollbackInv'
  OBVIOUS
<1>a. /\ \A f \in Files : /\ tree[f][1] \in Nat /\ index[f][1] \in Nat /\ head[f][1] \in Nat
                          /\ tree[f][1] <= Len(plan) /\ index[f][1] <= Len(plan)
      /\ current \in Nat /\ current > 0 /\ Len(plan) \in Nat
  BY Numbers
<1>b. Absent[1] = 0 /\ User[1] = 0
  BY DEF Absent, User
<1>1. CASE UNCHANGED vars
  BY <1>1 DEF vars, gitVars, history, RollbackInv, FailureIsRolledBack
<1>2. ASSUME NEW f \in Files, UserEdits(f) PROVE RollbackInv'
  <2>1. \A g \in Files : tree'[g] \in {tree[g], User}
    BY <1>2 DEF UserEdits, Shape, TypeOK
  <2> QED
    BY <1>2, <1>a, <1>b, <2>1 DEF UserEdits, gitVars, history, RollbackInv, FailureIsRolledBack
<1>3. CASE ContextBuilt \/ ContextFails \/ ProviderCrashes
  BY <1>3 DEF ContextBuilt, ContextFails, ProviderCrashes, FailSubtask, gitVars, history,
     RollbackInv, FailureIsRolledBack
<1>4. CASE ProviderFails \/ VerificationFails
  BY <1>4, RetryStays DEF ProviderFails, VerificationFails, gitVars, history,
     RollbackInv, FailureIsRolledBack
<1>5. ASSUME NEW r \in Responses, ProviderAnswers(r) PROVE RollbackInv'
  <2>1. /\ pc = "provider" /\ UNCHANGED <<current, result, gitVars, rolledBack>>
        /\ tree' = tree \/ Write(r)
    BY <1>5 DEF ProviderAnswers, ResponseRejected, ResponseApplied, UpdateFails, history
  <2>2. pc' \in {"provider", "resetting", "verifying"}
    BY <1>5, RetryStays DEF ProviderAnswers, ResponseRejected, ResponseApplied, UpdateFails
  <2>3. \A f \in Files : tree'[f] = tree[f] \/ tree'[f][1] = current
    BY <2>1 DEF Write, Attempt
  <2> QED
    BY <1>a, <2>1, <2>2, <2>3 DEF gitVars, RollbackInv, FailureIsRolledBack
<1>6. CASE VerificationPasses
  BY <1>6 DEF VerificationPasses, gitVars, RollbackInv, FailureIsRolledBack
<1>7. CASE Add
  BY <1>7, <1>a DEF Add, history, RollbackInv, FailureIsRolledBack
<1>8. CASE AddFails \/ Commit \/ CommitFails
  <2>1. /\ pc \in Commits /\ UNCHANGED <<tree, index, rolledBack>>
        /\ head' = head \/ head' = index
        /\ \E made \in BOOLEAN : Checkpointed(made)
    BY <1>8 DEF AddFails, Commit, CommitFails, gitVars, history, Commits
  <2>2. result # "FAILED" /\ ~ rolledBack
    BY <2>1 DEF RollbackInv, Commits
  <2>3. result' # "FAILED"
    BY <2>1, <2>2 DEF Checkpointed, Advance
  <2>4. CASE InPlan
    <3>1. current' = current + 1 /\ pc' \in {"context", "adding", "returned"}
      BY <2>1, <2>4, CheckpointAdvances
    <3> QED  BY <1>a, <2>1, <2>2, <2>3, <3>1 DEF RollbackInv, FailureIsRolledBack
  <2>5. CASE ~ InPlan
    <3>1. current' = current /\ pc' = "returned"
      BY <2>1, <2>5, CheckpointAdvances
    <3>2. \A f \in Files : tree[f][1] < current /\ index[f][1] < current
      BY <1>a, <2>5 DEF InPlan
    <3> QED  BY <1>a, <2>1, <2>2, <2>3, <3>1, <3>2 DEF RollbackInv, FailureIsRolledBack
  <2> QED  BY <2>4, <2>5
<1>9. CASE Reset
  <2>1. /\ pc = "resetting" /\ pc' = "cleaning" /\ UNCHANGED <<current, result, head>>
    BY <1>9 DEF Reset
  <2>2. CASE /\ tree' = [f \in Files |-> IF index[f] = Absent /\ head[f] = Absent THEN tree[f] ELSE head[f]]
             /\ index' = head /\ rolledBack'
    <3>1. \A f \in Files : \/ tree'[f] = tree[f] /\ head[f] = Absent
                           \/ tree'[f] = head[f]
      BY <2>2
    <3> QED  BY <1>a, <2>1, <2>2, <3>1 DEF RollbackInv, FailureIsRolledBack
  <2>3. CASE UNCHANGED <<tree, index, rolledBack>>
    BY <2>1, <2>3 DEF RollbackInv, FailureIsRolledBack
  <2> QED  BY <1>9, <2>2, <2>3 DEF Reset
<1>10. CASE Clean
  <2>1. pc' = "returned" /\ UNCHANGED <<current, index, head>> /\ pc = "cleaning"
    BY <1>10 DEF Clean, gitVars
  <2>2. CASE /\ tree' = [f \in Files |-> IF index[f] = Absent THEN Absent ELSE tree[f]]
             /\ rolledBack' = rolledBack
    <3>1. \A f \in Files : \/ tree'[f] = Absent
                           \/ tree'[f] = tree[f] /\ index[f] # Absent
      BY <2>2
    <3> QED  BY <1>a, <1>b, <2>1, <2>2, <3>1 DEF RollbackInv, FailureIsRolledBack
  <2>3. CASE ~ rolledBack' /\ tree' = tree
    BY <2>1, <2>3 DEF RollbackInv, FailureIsRolledBack
  <2> QED  BY <1>10, <2>2, <2>3 DEF Clean
<1> QED
  BY <1>1, <1>2, <1>3, <1>4, <1>5, <1>6, <1>7, <1>8, <1>9, <1>10 DEF Next, Service

\* A rollback whose commands succeed leaves nothing of the failed sub-task,
\* whichever attempt and stage failed.
THEOREM FailuresAreRolledBack == Spec => []FailureIsRolledBack
<1>1. Init => Shape /\ HomeInv /\ RollbackInv
  <2> SUFFICES ASSUME Init PROVE Shape /\ HomeInv /\ RollbackInv
    OBVIOUS
  <2>1. \A f \in Files : tree[f][1] = 0 /\ head[f][1] = 0 /\ index[f][1] = 0
    BY DEF Init, Base, Absent
  <2> QED
    BY <2>1, ShapeInit DEF Init, HomeInv, IsAtHome, RollbackInv, FailureIsRolledBack
<1>2. Shape /\ HomeInv /\ RollbackInv /\ [Next]_vars => (Shape /\ HomeInv /\ RollbackInv)'
  BY ShapeNext, HomeNext, RollbackNext
<1>3. RollbackInv => FailureIsRolledBack
  BY DEF RollbackInv
<1> QED  BY <1>1, <1>2, <1>3, PTL DEF Spec

-----------------------------------------------------------------------------
(* What is committed was verified.                                         *)

VerifiedIfWork(c) == c[1] > 0 => c \in verified

\* Whenever git may look at the workspace, it holds verified work only.
VerifiedInv ==
  /\ \A f \in Files : VerifiedIfWork(head[f]) /\ VerifiedIfWork(index[f])
  /\ pc \in Commits \cup {"context"} => \A f \in Files : VerifiedIfWork(tree[f])

LEMMA VerifiedNext == VerifiedInv /\ Shape /\ [Next]_vars => VerifiedInv'
<1> SUFFICES ASSUME VerifiedInv, Shape, [Next]_vars PROVE VerifiedInv'
  OBVIOUS
<1>1. CASE UNCHANGED vars
  BY <1>1 DEF vars, gitVars, history, VerifiedInv, VerifiedIfWork
<1>2. ASSUME NEW f \in Files, UserEdits(f) PROVE VerifiedInv'
  <2>1. \A g \in Files : tree'[g] \in {tree[g], User}
    BY <1>2 DEF UserEdits, Shape, TypeOK
  <2>2. User[1] = 0
    BY DEF User
  <2> QED  BY <1>2, <2>1, <2>2 DEF UserEdits, gitVars, history, VerifiedInv, VerifiedIfWork
<1>3. CASE ContextBuilt \/ ContextFails \/ ProviderCrashes
  BY <1>3 DEF ContextBuilt, ContextFails, ProviderCrashes, FailSubtask, gitVars, history,
     VerifiedInv, VerifiedIfWork, Commits
<1>4. CASE ProviderFails \/ VerificationFails
  BY <1>4, RetryStays DEF ProviderFails, VerificationFails, gitVars, history,
     VerifiedInv, VerifiedIfWork, Commits
<1>5. ASSUME NEW r \in Responses, ProviderAnswers(r) PROVE VerifiedInv'
  <2>1. UNCHANGED <<gitVars, verified>> /\ pc' \in {"provider", "resetting", "verifying"}
    BY <1>5, RetryStays DEF ProviderAnswers, ResponseRejected, ResponseApplied, UpdateFails, history
  <2> QED  BY <2>1 DEF gitVars, VerifiedInv, VerifiedIfWork, Commits
<1>6. CASE VerificationPasses
  BY <1>6 DEF VerificationPasses, gitVars, VerifiedInv, VerifiedIfWork
<1>7. CASE Add
  BY <1>7 DEF Add, history, VerifiedInv, VerifiedIfWork, Commits
<1>8. CASE AddFails \/ Commit \/ CommitFails
  BY <1>8 DEF AddFails, Commit, CommitFails, gitVars, history, VerifiedInv, VerifiedIfWork, Commits
<1>9. CASE Reset
  <2>1. index' \in {index, head} /\ head' = head /\ verified' = verified /\ pc' = "cleaning"
    BY <1>9 DEF Reset
  <2> QED  BY <2>1 DEF VerifiedInv, VerifiedIfWork, Commits
<1>10. CASE Clean
  BY <1>10 DEF Clean, gitVars, VerifiedInv, VerifiedIfWork, Commits
<1> QED
  BY <1>1, <1>2, <1>3, <1>4, <1>5, <1>6, <1>7, <1>8, <1>9, <1>10 DEF Next, Service

\* Git's history holds nothing of a sub-task that did not pass verification.
THEOREM CommitsAreVerified == Spec => []CommittedIsVerified
<1>1. Init => Shape /\ VerifiedInv
  <2> SUFFICES ASSUME Init PROVE Shape /\ VerifiedInv
    OBVIOUS
  <2>1. \A f \in Files : tree[f][1] = 0 /\ head[f][1] = 0 /\ index[f][1] = 0
    BY DEF Init, Base, Absent
  <2> QED  BY <2>1, ShapeInit DEF VerifiedInv, VerifiedIfWork
<1>2. Shape /\ VerifiedInv /\ [Next]_vars => (Shape /\ VerifiedInv)'
  BY ShapeNext, VerifiedNext
<1>3. VerifiedInv => CommittedIsVerified
  BY DEF VerifiedInv, VerifiedIfWork, CommittedIsVerified
<1> QED  BY <1>1, <1>2, <1>3, PTL DEF Spec

-----------------------------------------------------------------------------
(* The result is honest.                                                   *)

Skipped(k) == \A l \in SubTasks :
  status[l] = CASE l < k -> "SUCCESS" [] l = k -> "FAILED" [] l > k -> "SKIPPED"

\* The loop leaves a sub-task behind only as a success.
ProgressInv ==
  /\ \A l \in SubTasks : l < current => status[l] = "SUCCESS"
  /\ pc \in Rollback => status[current] = "FAILED"
  /\ result = "SUCCESS" => ~ InPlan
  /\ result = "FAILED" => pc = "returned" /\ InPlan /\ Skipped(current)

LEMMA RetryKeepsResults ==
  ASSUME Shape, ProgressInv, RetryOrFail, InPlan, pc # "returned", UNCHANGED <<plan, current, result>>
  PROVE  ProgressInv'
<1>1. current \in SubTasks /\ Len(plan) \in Nat /\ status \in [SubTasks -> Statuses]
  BY TargetIsAFile, PipelineAssumption DEF Shape, TypeOK
<1>2. CASE RetriesLeft /\ retry' = retry + 1 /\ pc' = "provider" /\ UNCHANGED status
  BY <1>2 DEF ProgressInv, Rollback, SubTasks, InPlan
<1>3. CASE FailSubtask
  <2>1. status' = [status EXCEPT ![current] = "FAILED"]
    BY <1>3 DEF FailSubtask
  <2>2. status'[current] = "FAILED" /\ \A l \in SubTasks : l # current => status'[l] = status[l]
    BY <1>1, <2>1
  <2>3. \A l \in SubTasks : l < current => status'[l] = "SUCCESS"
    BY <1>1, <2>2 DEF ProgressInv, SubTasks
  <2> QED  BY <2>2, <2>3 DEF ProgressInv, SubTasks, InPlan
<1> QED  BY <1>2, <1>3 DEF RetryOrFail

LEMMA ProgressNext == Shape /\ ProgressInv /\ [Next]_vars => ProgressInv'
<1> SUFFICES ASSUME Shape, ProgressInv, [Next]_vars PROVE ProgressInv'
  OBVIOUS
<1>0. Len(plan) \in Nat /\ current \in Nat /\ status \in [SubTasks -> Statuses]
  BY PipelineAssumption DEF Shape, TypeOK
<1>1. CASE UNCHANGED <<plan, pc, current, status, result>>
  BY <1>1 DEF ProgressInv, SubTasks, InPlan, Skipped
<1>2. CASE ContextBuilt \/ ContextFails
  BY <1>2 DEF ContextBuilt, ContextFails, ProgressInv, SubTasks, InPlan, Skipped, Rollback
<1>3. CASE ProviderCrashes
  <2>1. current \in SubTasks
    BY <1>3, TargetIsAFile DEF ProviderCrashes, Shape, WorkIsInPlan
  <2>2. status' = [status EXCEPT ![current] = "FAILED"] /\ UNCHANGED <<plan, current, result>>
    BY <1>3 DEF ProviderCrashes, FailSubtask
  <2>3. status'[current] = "FAILED" /\ \A l \in SubTasks : l # current => status'[l] = status[l]
    BY <1>0, <2>1, <2>2
  <2>4. result # "FAILED"
    BY <1>3 DEF ProviderCrashes, ProgressInv
  <2>5. \A l \in SubTasks : l < current => status'[l] = "SUCCESS"
    BY <1>0, <2>3 DEF ProgressInv, SubTasks
  <2> QED  BY <2>2, <2>3, <2>4, <2>5 DEF ProgressInv, SubTasks, InPlan
<1>4. CASE ProviderFails \/ VerificationFails
  BY <1>4, RetryKeepsResults DEF ProviderFails, VerificationFails, Shape, WorkIsInPlan
<1>5. ASSUME NEW r \in Responses, ProviderAnswers(r) PROVE ProgressInv'
  <2>1. CASE ResponseApplied(r)
    BY <2>1 DEF ResponseApplied, ProgressInv, SubTasks, InPlan, Rollback
  <2>2. CASE ResponseRejected(r) \/ UpdateFails(r)
    BY <2>2, RetryKeepsResults DEF ResponseRejected, UpdateFails, Shape, WorkIsInPlan
  <2> QED  BY <1>5, <2>1, <2>2 DEF ProviderAnswers
<1>6. CASE VerificationPasses \/ Add
  BY <1>6 DEF VerificationPasses, Add, ProgressInv, SubTasks, InPlan, Rollback
<1>7. CASE AddFails \/ Commit \/ CommitFails
  <2>1. UNCHANGED plan /\ pc \in Commits /\ \E made \in BOOLEAN : Checkpointed(made)
    BY <1>7 DEF AddFails, Commit, CommitFails, Commits
  <2>2. result # "FAILED"
    BY <2>1 DEF ProgressInv, Commits
  <2>3. CASE ~ InPlan
    <3>1. pc' = "returned" /\ UNCHANGED <<current, status, result>>
      BY <2>1, <2>3, CheckpointAdvances
    <3> QED  BY <2>1, <2>2, <3>1 DEF ProgressInv, SubTasks, InPlan, Rollback
  <2>4. CASE InPlan
    <3>1. current' = current + 1 /\ Advance
      BY <2>1, <2>4 DEF Checkpointed
    <3>2. current \in SubTasks
      BY <2>4, TargetIsAFile
    <3>3. \A l \in SubTasks : l < current + 1 => status'[l] = "SUCCESS"
      <4>1. CASE current < Len(plan)
        <5>1. status' = [status EXCEPT ![current] = "SUCCESS", ![current + 1] = "RUNNING"]
          BY <3>1, <4>1 DEF Advance
        <5> QED  BY <1>0, <3>2, <5>1 DEF ProgressInv, SubTasks
      <4>2. CASE ~ current < Len(plan)
        <5>1. status' = [status EXCEPT ![current] = "SUCCESS"]
          BY <3>1, <4>2 DEF Advance
        <5> QED  BY <1>0, <3>2, <5>1 DEF ProgressInv, SubTasks
      <4> QED  BY <4>1, <4>2
    <3>4. pc' \notin Rollback /\ result' # "FAILED"
      BY <2>2, <3>1 DEF Advance, Rollback
    <3>5. result' = "SUCCESS" => current' > Len(plan)
      BY <1>0, <2>4, <3>1 DEF Advance, ProgressInv, InPlan
    <3> QED  BY <1>0, <2>1, <3>1, <3>3, <3>4, <3>5 DEF ProgressInv, SubTasks, InPlan
  <2> QED  BY <2>3, <2>4
<1>8. CASE Reset
  BY <1>8 DEF Reset, ProgressInv, SubTasks, InPlan, Rollback
<1>9. CASE Clean
  <2>1. status' = SkipRest /\ UNCHANGED <<plan, current>> /\ pc' = "returned" /\ result' = "FAILED"
        /\ pc = "cleaning"
    BY <1>9 DEF Clean
  <2>2. current \in SubTasks
    BY <2>1, TargetIsAFile DEF Shape, WorkIsInPlan
  <2>3. \A l \in SubTasks :
          status'[l] = CASE l < current -> "SUCCESS" [] l = current -> "FAILED" [] l > current -> "SKIPPED"
    BY <1>0, <2>1, <2>2 DEF SkipRest, ProgressInv, SubTasks, Rollback
  <2>4. \A l \in SubTasks : l < current => status'[l] = "SUCCESS"
    BY <1>0, <2>3 DEF SubTasks
  <2> QED  BY <2>1, <2>2, <2>3, <2>4, <1>0 DEF ProgressInv, SubTasks, Skipped, Rollback, InPlan
<1>10. ASSUME NEW f \in Files, UserEdits(f) PROVE UNCHANGED <<plan, pc, current, status, result>>
  BY <1>10 DEF UserEdits
<1> QED
  BY <1>1, <1>2, <1>3, <1>4, <1>5, <1>6, <1>7, <1>8, <1>9, <1>10 DEF Next, Service, vars

\* The result tells how the plan went: the sub-tasks before the failed one
\* succeeded, those behind it were skipped; success means all of them.
THEOREM ResultsAreHonest == Spec => []ResultIsHonest
<1>1. Init => Shape /\ ProgressInv
  <2> SUFFICES ASSUME Init PROVE Shape /\ ProgressInv
    OBVIOUS
  <2>1. current = 1 /\ \A l \in SubTasks : ~ l < current
    BY DEF Init, SubTasks
  <2> QED  BY <2>1, ShapeInit DEF Init, ProgressInv, Rollback
<1>2. Shape /\ ProgressInv /\ [Next]_vars => (Shape /\ ProgressInv)'
  BY ShapeNext, ProgressNext
<1>3. Shape /\ ProgressInv => ResultIsHonest
  <2> SUFFICES ASSUME Shape, ProgressInv PROVE ResultIsHonest
    OBVIOUS
  <2>0. Len(plan) \in Nat /\ current \in Nat
    BY PipelineAssumption DEF Shape, TypeOK
  <2>1. ASSUME result = "SUCCESS" PROVE \A k \in SubTasks : status[k] = "SUCCESS"
    BY <2>0, <2>1 DEF ProgressInv, InPlan, SubTasks
  <2>2. ASSUME result = "FAILED"
        PROVE \E k \in SubTasks : \A l \in SubTasks :
                status[l] = CASE l < k -> "SUCCESS" [] l = k -> "FAILED" [] l > k -> "SKIPPED"
    <3>1. current \in SubTasks
      BY <2>2, TargetIsAFile DEF ProgressInv
    <3> QED  BY <2>2, <3>1 DEF ProgressInv, Skipped
  <2> QED  BY <2>1, <2>2 DEF ResultIsHonest
<1> QED  BY <1>1, <1>2, <1>3, PTL DEF Spec
-----------------------------------------------------------------------------
(* The session.                                                            *)

\* A run of main(), with its signals, its exit codes and the user's edits, is a
\* run of the pipeline: what is proved of executeTask() and the last commit holds
\* behind any arguments, and wherever the program ends (main.ts).
THEOREM SessionRunsThePipeline == SessionSpec => Spec
<1>1. SessionInit => Init
  BY DEF SessionInit
<1>2. [SessionNext]_allVars => [Next]_vars
  <2> SUFFICES ASSUME SessionNext PROVE Next \/ UNCHANGED vars
    BY DEF allVars
  <2>1. CASE ExecuteTask
    BY <2>1 DEF ExecuteTask, Next
  <2>2. CASE \/ Start \/ Initialize \/ InitializeFails \/ HealthCheck \/ TaskReturns
             \/ DiffGenerated \/ StatusRead \/ CommitReturns \/ Closed \/ CloseFails \/ Signal
    BY <2>2 DEF Start, Initialize, InitializeFails, HealthCheck, TaskReturns, DiffGenerated,
       StatusRead, CommitReturns, Closed, CloseFails, Signal
  <2>3. CASE \E f \in Edited : UserEdits(f)
    BY <2>3, SessionAssumption DEF Next
  <2> QED  BY <2>1, <2>2, <2>3 DEF SessionNext, Main
<1> QED  BY <1>1, <1>2, PTL DEF SessionSpec, Spec

\* So a session commits what is verified (or the user's), whoever ends it when.
THEOREM SessionsCommitVerifiedWork == SessionSpec => []CommittedIsVerified
BY SessionRunsThePipeline, CommitsAreVerified, PTL

\* Exit code 0 without a signal is the code of a task whose every sub-task
\* succeeded, or of a call without a task.
ZeroIsEarned ==
  exit = "zero" /\ ~signalled /\ Prompt # <<>> =>
    result = "SUCCESS" /\ \A k \in SubTasks : status[k] = "SUCCESS"

\* Only the handler of signals makes a close of its own.
ExitInv ==
  /\ closer = "handler" => signalled
  /\ exit = "zero" /\ ~signalled /\ Prompt # <<>> => result = "SUCCESS"

\* The exit code tells the truth, for any prompt, plan and responses, however the
\* closes of main() and of the signal handler overlap (main.ts).
THEOREM ExitZeroIsEarned == SessionSpec => []ZeroIsEarned
<1>1. SessionInit => ExitInv
  BY DEF SessionInit, ExitInv
<1>2. ExitInv /\ [SessionNext]_allVars => ExitInv'
  <2> SUFFICES ASSUME ExitInv, [SessionNext]_allVars PROVE ExitInv'
    OBVIOUS
  <2>1. CASE ExecuteTask \/ \E f \in Edited : Alive /\ UserEdits(f) /\ UNCHANGED sessionVars
    BY <2>1 DEF ExitInv, ExecuteTask, Alive, sessionVars, Prompt
  <2>2. CASE Start
    BY <2>2 DEF ExitInv, Start, vars, Prompt
  <2>3. CASE \/ Initialize \/ InitializeFails \/ HealthCheck \/ TaskReturns \/ DiffGenerated
             \/ CloseFails
    BY <2>3 DEF ExitInv, Initialize, InitializeFails, HealthCheck, TaskReturns, DiffGenerated,
       CloseFails, Goes, Alive, vars, Prompt
  <2>4. CASE StatusRead \/ CommitReturns
    BY <2>4 DEF ExitInv, StatusRead, CommitReturns, BeginClose, Goes, Alive, vars, Prompt
  <2>5. CASE Closed
    BY <2>5 DEF ExitInv, Closed, vars, Prompt
  <2>6. CASE Signal
    BY <2>6 DEF ExitInv, Signal, BeginClose, Alive, vars, Prompt
  <2>7. CASE UNCHANGED allVars
    BY <2>7 DEF ExitInv, allVars, sessionVars, vars, Prompt
  <2> QED  BY <2>1, <2>2, <2>3, <2>4, <2>5, <2>6, <2>7 DEF SessionNext, Main
<1>3. ExitInv /\ ResultIsHonest => ZeroIsEarned
  BY DEF ExitInv, ResultIsHonest, ZeroIsEarned
<1> QED  BY <1>1, <1>2, <1>3, SessionRunsThePipeline, ResultsAreHonest, PTL DEF SessionSpec
=============================================================================
