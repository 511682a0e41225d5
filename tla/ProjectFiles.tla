----------------------------- MODULE ProjectFiles -----------------------------
(***************************************************************************)
(* The files of a project, on top of ProjectLifecycle: the target folder,  *)
(* which is the user's, the staging workspace, into which verified work is *)
(* merged, and the artifacts in the reports of its tasks, verified or not. *)
(* Every call ends by writing the artifacts of all turns, and then the     *)
(* staging workspace, over the target folder.                              *)
(***************************************************************************)
EXTENDS ProjectLifecycle, FiniteSets

CONSTANTS
  Files,       \* of a project
  Tasks,       \* of one execution; task ids are never used twice
  Nothing,     \* a file that is not there
  Users        \* what the user wrote

VARIABLES
  target, staging,   \* the files of each project
  reports,           \* the last artifact of each file in projectHistory's reports
  filed,             \* the same in the file of the history
  begun,             \* those a call read when it began
  found              \* those of a call's execution; from its answer on, of its result

fileVars == <<target, staging, reports, filed, begun, found>>

Work(g, t, verified) == [goal |-> g, task |-> t, verified |-> verified]
NoFiles == [f \in Files |-> Nothing]
\* What is there after a copy of one set of files over another.
CopyTree(from, onto) == [f \in Files |-> IF from[f] # Nothing THEN from[f] ELSE onto[f]]

FilesInit ==
  /\ target \in [Projects -> [Files -> {Nothing, Users}]]
  /\ staging = [p \in Projects |-> NoFiles]
  /\ reports = [p \in Projects |-> NoFiles] /\ filed = reports
  /\ begun = [g \in Goals |-> NoFiles] /\ found = begun

\* The user writes into the target folder.
UserWrites(p, f) ==
  /\ target' = [target EXCEPT ![p][f] = Users]
  /\ UNCHANGED <<vars, staging, reports, filed, begun, found>>

\* createProjectWorkspace() copies the target folder.
RunStaged(p) ==
  /\ RunProject(p)
  /\ staging' = [staging EXCEPT ![p] = target[p]]
  /\ UNCHANGED <<target, reports, filed, begun, found>>

\* The copy of the first turn goes on.
ContinueStaged(p) ==
  /\ ContinueProject(p)
  /\ begun' = [begun EXCEPT ![given'] = reports[p]]
  /\ UNCHANGED <<target, staging, reports, filed, found>>

\* The last attempt of a task ends: its files are in the report, and merged if they
\* were verified and the merge succeeds.
TaskMerges(g, t, f) ==
  /\ pc[g] = "working" /\ prior[g].workspace
  /\ staging' = [staging EXCEPT ![project[g]][f] = Work(g, t, TRUE)]
  /\ found' = [found EXCEPT ![g][f] = Work(g, t, TRUE)]
  /\ UNCHANGED <<vars, target, reports, filed, begun>>

TaskFails(g, t, f) ==
  /\ pc[g] = "working" /\ prior[g].workspace
  /\ found' = [found EXCEPT ![g][f] = Work(g, t, FALSE)]
  /\ UNCHANGED <<vars, target, staging, reports, filed, begun>>

\* persistHistory() writes the reports with the rest, or fails with it.
File ==
  filed' = CASE ~behind' -> reports'
             [] behind' /\ stateFile' = Unreadable -> [p \in Projects |-> NoFiles]
             [] OTHER -> filed

\* A strategy that failed in an exception has no reports.
AnswerReported(g, status) ==
  /\ Answer(g, status)
  /\ \E got \in {found[g]} \cup (IF status = "FAILED" THEN {NoFiles} ELSE {}) :
       found' = [found EXCEPT ![g] = CopyTree(got, begun[g])]
  /\ reports' = [reports EXCEPT ![project[g]] = found'[g]]
  /\ File
  /\ UNCHANGED <<target, staging, begun>>

\* materializeProjectOutput(): a file that cannot be written is left out.
Written(g) == {[f \in Files |-> IF f \in some THEN found[g][f] ELSE Nothing] : some \in SUBSET Files}

\* Variant: the artifacts are written last.
SyncedThenWritten(p, written) == CopyTree(written, CopyTree(staging[p], target[p]))

\* The artifacts, and then the staging workspace over them.
Delivered(p, written) == CopyTree(staging[p], CopyTree(written, target[p]))

\* The call's own variables are gone.
Forget(g) ==
  /\ begun' = [begun EXCEPT ![g] = NoFiles]
  /\ found' = [found EXCEPT ![g] = NoFiles]

CloseDelivered(g) ==
  /\ Close(g)
  /\ IF prior[g].workspace
       THEN \E written \in Written(g) :
              target' = [target EXCEPT ![project[g]] = Delivered(project[g], written)]
       ELSE UNCHANGED target   \* it goes to ./.se_workspaces
  /\ Forget(g)
  /\ UNCHANGED <<staging, reports, filed>>

\* copyTree() throws behind some of the files.
SyncFailsDelivered(g) ==
  /\ SyncFails(g)
  /\ \E written \in Written(g), some \in SUBSET Files :
       target' = [target EXCEPT ![project[g]] =
         [f \in Files |-> IF f \in some THEN Delivered(project[g], written)[f]
                                        ELSE CopyTree(written, @)[f]]]
  /\ reports' = [reports EXCEPT ![project[g]] = begun[g]]
  /\ File
  /\ Forget(g)
  /\ UNCHANGED staging

\* The file of the history has the reports; the folders stay as they are.
RestartStaged ==
  /\ \/ Restart(stateFile) /\ reports' = filed
     \/ TornRestart /\ reports' = [p \in Projects |-> NoFiles]
  /\ filed' = reports'
  /\ begun' = [g \in Goals |-> NoFiles] /\ found' = begun'
  /\ UNCHANGED <<target, staging>>

FilesNext ==
  \/ \E p \in Projects : RunStaged(p) \/ ContinueStaged(p) \/ \E f \in Files : UserWrites(p, f)
  \/ \E g \in Goals :
       \/ (Opened(g) \/ CloseFailed(g)) /\ UNCHANGED fileVars
       \/ CloseDelivered(g) \/ SyncFailsDelivered(g)
       \/ \E status \in {"COMPLETED", "FAILED"} : AnswerReported(g, status)
       \/ \E t \in Tasks, f \in Files : TaskMerges(g, t, f) \/ TaskFails(g, t, f)
  \/ RestartStaged

FilesSpec == Init /\ FilesInit /\ [][FilesNext]_<<vars, fileVars>>

-----------------------------------------------------------------------------
(* Properties.                                                             *)

\* The last call of p that knew the workspace delivered it: of calls one after
\* the other the last one, of overlapping calls all.
Settled(p) ==
  LET calls == {g \in Goals : project[g] = p /\ prior[g].workspace} IN
  /\ calls # {} /\ p \notin unsynced
  /\ \/ \A g \in calls : pc[g] = "done"
     \/ /\ p \notin overlapped
        /\ \E g \in calls : pc[g] = "done" /\ \A h \in calls : h <= g

\* What was verified and merged is what the user gets: behind its last call, the
\* target folder of a project has every file of the staging workspace as it was
\* merged last, or as the user wrote it since.  Artifacts of earlier turns, of
\* earlier tasks, and those that were never verified, which are written over the
\* same files on every delivery, do not take its place, whichever calls
\* overlapped, were lost in a restart, or failed on the way.
DeliveredIsMerged ==
  \A p \in Projects : Settled(p) =>
    \A f \in Files : staging[p][f] # Nothing => target[p][f] \in {staging[p][f], Users}
=============================================================================
