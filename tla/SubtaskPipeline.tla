--------------------------- MODULE SubtaskPipeline ---------------------------
(***************************************************************************)
(* The first-generation pipeline: TaskExecutionService.executeTask() works *)
(* through the sub-tasks of a plan one after the other.  For each it       *)
(* builds a context, asks the provider, parses and validates the response, *)
(* writes the target file, verifies, and checkpoints with git; it retries  *)
(* with the errors, and rolls back and stops when a sub-task fails.        *)
(*                                                                         *)
(* Every await is a process the service waits for.  Meanwhile the user may *)
(* edit the workspace: it is the user's own checkout.                      *)
(***************************************************************************)
EXTENDS Integers, Sequences, FiniteSets

CONSTANTS
  Files,           \* the files of the workspace
  Existing,        \* those that exist before the task
  Protected,       \* manifest files the validator knows
  Plans,           \* the target files of the sub-tasks, in order
  Responses,       \* the code blocks of a response, in order
  MaxRetryCount,   \* config.maxRetryCount
  Aimed, Unnamed   \* the file of a block whose header is the target, or missing

ASSUME PipelineAssumption ==
  /\ Existing \subseteq Files /\ Protected \subseteq Files
  /\ Plans \subseteq Seq(Files) /\ \A p \in Plans : p # <<>>
  /\ Responses \subseteq
       Seq([file : Files \cup {Aimed, Unnamed}, code : BOOLEAN,
            language : {"matching", "other", "none"}])
  /\ MaxRetryCount \in Nat
  /\ Unnamed \notin Files /\ Aimed \notin Files /\ Unnamed # Aimed

VARIABLES
  plan,          \* the target file of each sub-task
  pc,            \* what executeTask() waits for
  current,       \* stIndex + 1; behind the plan's end: main()'s own commit
  retry,         \* stRetryCount
  status,        \* the status of each sub-task
  hash,          \* the sub-task has a gitCommitHash
  result,        \* the status returned
  tree,          \* what each file holds
  index, head,   \* git's index and last commit
  repo,          \* "none", "unborn" (no commit yet) or "born"
  modified,      \* allModifiedFiles
  edited,        \* files the user changed (history)
  verified,      \* what the workspace held when a verification passed (history)
  delivered,     \* what the target held when its sub-task was verified (history)
  rolledBack     \* both commands of the rollback succeeded (history)

gitVars == <<index, head, repo>>
history == <<verified, delivered, rolledBack>>
vars == <<plan, pc, current, retry, status, hash, result, tree, gitVars, modified,
          edited, history>>

\* What a file may hold: what the attempt a of sub-task k wrote is <<k, a>>.
Absent == <<0, 0>>
Base == <<0, 1>>
User == <<0, 2>>
Contents == Nat \X Nat

SubTasks == 1..Len(plan)
Target == plan[current]
Attempt == <<current, retry + 1>>
InPlan == current <= Len(plan)

Init ==
  /\ plan \in Plans
  /\ pc = "context" /\ current = 1 /\ retry = 0
  /\ status = [k \in SubTasks |-> IF k = 1 THEN "RUNNING" ELSE "PENDING"]
  /\ hash = [k \in SubTasks |-> FALSE]
  /\ result = "none"
  /\ tree = [f \in Files |-> IF f \in Existing THEN Base ELSE Absent]
  /\ repo \in {"none", "unborn", "born"}
  /\ head = [f \in Files |-> IF repo = "born" THEN tree[f] ELSE Absent]
  /\ index = head
  /\ modified = {}
  /\ edited = {}
  /\ verified = {}
  /\ delivered = [k \in SubTasks |-> Absent]
  /\ rolledBack = FALSE

\* The user saves a change of a file (each file once).
UserEdits(f) ==
  /\ f \in Files \ edited
  /\ tree' = [tree EXCEPT ![f] = User]
  /\ edited' = edited \cup {f}
  /\ UNCHANGED <<plan, pc, current, retry, status, hash, result, gitVars, modified, history>>

-----------------------------------------------------------------------------
(* The loop over the sub-tasks and their attempts.                         *)

RetriesLeft == retry < MaxRetryCount

FailSubtask ==
  /\ status' = [status EXCEPT ![current] = "FAILED"]
  /\ pc' = "resetting"
  /\ UNCHANGED retry

RetryOrFail ==
  \/ RetriesLeft /\ retry' = retry + 1 /\ pc' = "provider" /\ UNCHANGED status
  \/ ~ RetriesLeft /\ FailSubtask

ContextBuilt ==
  /\ pc = "context"
  /\ pc' = "provider"
  /\ UNCHANGED <<plan, current, retry, status, hash, result, tree, gitVars, modified, edited, history>>

\* The context cannot be built: executeTask() returns an error result at once.
ContextFails ==
  /\ pc = "context"
  /\ pc' = "returned"
  /\ result' = "ERROR"
  /\ UNCHANGED <<plan, current, retry, status, hash, tree, gitVars, modified, edited, history>>

\* Variant: the exception leaves without a rollback.
CrashWithoutRollback ==
  /\ pc = "provider"
  /\ status' = [k \in SubTasks |-> CASE k = current -> "FAILED"
                                     [] k > current -> "SKIPPED"
                                     [] OTHER -> status[k]]
  /\ pc' = "returned" /\ result' = "FAILED" /\ rolledBack' = TRUE
  /\ UNCHANGED <<plan, current, retry, hash, tree, gitVars, modified, edited, verified, delivered>>

\* provider.stream() throws: there is no retry.
ProviderCrashes ==
  /\ pc = "provider"
  /\ FailSubtask
  /\ UNCHANGED <<plan, current, hash, result, tree, gitVars, modified, edited, history>>

ProviderFails ==
  /\ pc = "provider"
  /\ RetryOrFail
  /\ UNCHANGED <<plan, current, hash, result, tree, gitVars, modified, edited, history>>

-----------------------------------------------------------------------------
(* A response: ResponseParser, ResponseValidator, PatchGenerator,          *)
(* WorkspaceUpdater.                                                       *)

\* parse(): the header names a file; without one the target is meant, unless
\* the target is a manifest.
AssociatedFile(block) ==
  CASE block.file = Aimed -> Target
    [] block.file = Unnamed /\ Target \notin Protected -> Target
    [] OTHER -> block.file

\* validate(): in percent; only warnings count, an error rejects anyway.
Confidence(response) ==
  100 - 10 * Cardinality({k \in DOMAIN response : response[k].language = "other"})
      - 15 * Cardinality({k \in DOMAIN response : response[k].language = "none"})

\* validate(): a response has blocks, and all of them are code for a file
\* that is no manifest.
Valid(response) ==
  /\ response # <<>>
  /\ \A k \in DOMAIN response :
       /\ response[k].code
       /\ AssociatedFile(response[k]) \notin Protected \cup {Unnamed}
  /\ Confidence(response) >= 60

\* generatePatches(): refuses a block for any other file.
Patchable(response) ==
  \A k \in DOMAIN response : AssociatedFile(response[k]) = Target

\* update(): the files of all blocks are written.
Write(response) ==
  LET written == {AssociatedFile(response[k]) : k \in DOMAIN response} IN
  /\ tree' = [f \in Files |-> IF f \in written THEN Attempt ELSE tree[f]]
  /\ modified' = modified \cup written

\* The response is refused before anything is written.
ResponseRejected(response) ==
  /\ pc = "provider"
  /\ ~ (Valid(response) /\ Patchable(response))
  /\ RetryOrFail
  /\ UNCHANGED <<plan, current, hash, result, tree, gitVars, modified, edited, history>>

\* The files are written, or hold that content already.
ResponseApplied(response) ==
  /\ pc = "provider"
  /\ Valid(response) /\ Patchable(response)
  /\ \/ Write(response)
     \/ tree[Target] # Absent /\ UNCHANGED <<tree, modified>>
  /\ pc' = "verifying"
  /\ UNCHANGED <<plan, current, retry, status, hash, result, gitVars, edited, history>>

\* Writing fails, with a first block written or without.
UpdateFails(response) ==
  /\ pc = "provider"
  /\ Valid(response) /\ Patchable(response)
  /\ Write(response) \/ UNCHANGED <<tree, modified>>
  /\ RetryOrFail
  /\ UNCHANGED <<plan, current, hash, result, gitVars, edited, history>>

ProviderAnswers(response) ==
  \/ ResponseRejected(response) \/ ResponseApplied(response) \/ UpdateFails(response)

-----------------------------------------------------------------------------
(* VerificationRunner.                                                     *)

\* Variant: after the last attempt the work is kept.
KeepUnverified ==
  /\ pc = "verifying"
  /\ IF RetriesLeft THEN retry' = retry + 1 /\ pc' = "provider" /\ UNCHANGED status
     ELSE pc' = "adding" /\ UNCHANGED <<retry, status>>
  /\ UNCHANGED <<plan, current, hash, result, tree, gitVars, modified, edited, history>>

\* A command failed; those behind it are not run.
VerificationFails ==
  /\ pc = "verifying"
  /\ RetryOrFail
  /\ UNCHANGED <<plan, current, hash, result, tree, gitVars, modified, edited, history>>

VerificationPasses ==
  /\ pc = "verifying"
  /\ verified' = verified \cup {tree[f] : f \in Files}
  /\ delivered' = [delivered EXCEPT ![current] = tree[Target]]
  /\ pc' = "adding"
  /\ UNCHANGED <<plan, current, retry, status, hash, result, tree, gitVars, modified, edited, rolledBack>>

-----------------------------------------------------------------------------
(* GitManager: the checkpoint of a sub-task, the commit of main(), and the *)
(* rollback.  A git process may fail at any time.                          *)

\* The sub-task succeeded; the next one begins, or the task is done and
\* main() commits what was modified.
Advance ==
  IF current < Len(plan)
  THEN /\ status' = [status EXCEPT ![current] = "SUCCESS", ![current + 1] = "RUNNING"]
       /\ pc' = "context" /\ retry' = 0
       /\ UNCHANGED result
  ELSE /\ status' = [status EXCEPT ![current] = "SUCCESS"]
       /\ pc' = IF modified # {} THEN "adding" ELSE "returned"
       /\ result' = "SUCCESS"
       /\ UNCHANGED retry

\* The commit is made or not, which a sub-task's success does not depend on.
Checkpointed(made) ==
  \/ /\ InPlan
     /\ hash' = [hash EXCEPT ![current] = made]
     /\ current' = current + 1
     /\ Advance
  \/ /\ ~ InPlan
     /\ pc' = "returned"
     /\ UNCHANGED <<current, retry, status, hash, result>>

\* git add -A
Add ==
  /\ pc = "adding" /\ repo # "none"
  /\ index' = tree
  /\ pc' = "committing"
  /\ UNCHANGED <<plan, current, retry, status, hash, result, tree, head, repo, modified, edited, history>>

AddFails ==
  /\ pc = "adding"
  /\ Checkpointed(FALSE)
  /\ UNCHANGED <<plan, tree, gitVars, modified, edited, history>>

\* git commit --allow-empty
Commit ==
  /\ pc = "committing"
  /\ head' = index /\ repo' = "born"
  /\ Checkpointed(TRUE)
  /\ UNCHANGED <<plan, tree, index, modified, edited, history>>

\* Variant: the exit code of git commit is not looked at.
CommitFailureIgnored ==
  /\ pc = "committing"
  /\ Checkpointed(TRUE)
  /\ UNCHANGED <<plan, tree, gitVars, modified, edited, history>>

CommitFails ==
  /\ pc = "committing"
  /\ Checkpointed(FALSE)
  /\ UNCHANGED <<plan, tree, gitVars, modified, edited, history>>

\* git reset --hard HEAD; git clean follows whatever came of it.
Reset ==
  /\ pc = "resetting"
  /\ pc' = "cleaning"
  /\ \/ /\ repo = "born"
        /\ tree' = [f \in Files |-> IF index[f] = Absent /\ head[f] = Absent THEN tree[f] ELSE head[f]]
        /\ index' = head
        /\ rolledBack' = TRUE
     \/ UNCHANGED <<tree, index, rolledBack>>
  /\ UNCHANGED <<plan, current, retry, status, hash, result, head, repo, modified, edited, verified, delivered>>

SkipRest == [k \in SubTasks |-> IF k > current THEN "SKIPPED" ELSE status[k]]

\* git clean -fd, then the rest of the plan is skipped.
Clean ==
  /\ pc = "cleaning"
  /\ \/ /\ repo # "none"
        /\ tree' = [f \in Files |-> IF index[f] = Absent THEN Absent ELSE tree[f]]
        /\ UNCHANGED rolledBack
     \/ rolledBack' = FALSE /\ UNCHANGED tree
  /\ status' = SkipRest
  /\ pc' = "returned" /\ result' = "FAILED"
  /\ UNCHANGED <<plan, current, retry, hash, gitVars, modified, edited, verified, delivered>>

-----------------------------------------------------------------------------
Service ==
  \/ ContextBuilt \/ ContextFails
  \/ ProviderCrashes \/ ProviderFails \/ \E r \in Responses : ProviderAnswers(r)
  \/ VerificationFails \/ VerificationPasses
  \/ Add \/ AddFails \/ Commit \/ CommitFails
  \/ Reset \/ Clean

Next == Service \/ \E f \in Files : UserEdits(f)

Spec == Init /\ [][Next]_vars

-----------------------------------------------------------------------------
(* Properties.                                                             *)

Statuses == {"PENDING", "RUNNING", "SUCCESS", "FAILED", "SKIPPED"}

TypeOK ==
  /\ plan \in Plans
  /\ pc \in {"context", "provider", "verifying", "adding", "committing",
             "resetting", "cleaning", "returned"}
  /\ current \in 1..Len(plan) + 1
  /\ retry \in 0..MaxRetryCount
  /\ status \in [SubTasks -> Statuses]
  /\ hash \in [SubTasks -> BOOLEAN]
  /\ result \in {"none", "SUCCESS", "FAILED", "ERROR"}
  /\ tree \in [Files -> Contents] /\ index \in [Files -> Contents] /\ head \in [Files -> Contents]
  /\ repo \in {"none", "unborn", "born"}
  /\ modified \subseteq Files /\ edited \subseteq Files
  /\ verified \subseteq Contents /\ delivered \in [SubTasks -> Contents]
  /\ rolledBack \in BOOLEAN

\* git's history holds what the user wrote and what passed verification, and
\* nothing of an attempt that failed.
CommittedIsVerified == \A f \in Files : head[f][1] > 0 => head[f] \in verified

\* A sub-task writes its target and nothing else, and never a manifest, even
\* if the plan names one.
OnlyTargetsAreWritten == \A f \in Files :
  tree[f][1] > 0 => tree[f][1] <= Len(plan) /\ plan[tree[f][1]] = f /\ f \notin Protected

\* A checkpoint protects the work of a sub-task from the rollback of a later
\* one: it is what the target holds until a later sub-task or the user
\* changes it.
CheckpointsSurvive == \A k \in SubTasks : hash[k] =>
  tree[plan[k]] \in {delivered[k], User} \/ tree[plan[k]][1] > k

\* After a rollback nothing of the failed sub-task is left in the workspace,
\* whichever of its attempts or stages failed.
FailureIsRolledBack == result = "FAILED" /\ rolledBack =>
  \A f \in Files : tree[f][1] # current

\* The result tells how the plan went: all sub-tasks succeeded, or those
\* before the failed one did and those behind it were skipped.
ResultIsHonest ==
  /\ result = "SUCCESS" => \A k \in SubTasks : status[k] = "SUCCESS"
  /\ result = "FAILED" =>
       \E k \in SubTasks : \A l \in SubTasks :
         status[l] = CASE l < k -> "SUCCESS" [] l = k -> "FAILED" [] l > k -> "SKIPPED"

=============================================================================
