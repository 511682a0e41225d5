----------------------- MODULE ProjectLifecycleProofs -----------------------
(***************************************************************************)
(* What holds of the project lifecycle for any number of projects, goals   *)
(* and restarts; and of the planning of goals (GoalPlanning), for any      *)
(* calls, titles, texts and decisions already made.                        *)
(***************************************************************************)
EXTENDS ProjectFiles, GoalPlanning, Induction, SequenceTheorems, FiniteSetTheorems, TLAPS

\* A goal that was given has a project; a run began with a new state and its
\* project is active until it is answered.
CallShape == \A g \in Goals :
  /\ pc[g] # "none" => project[g] \in Projects
  /\ g <= given <=> project[g] # NoProject
  /\ pc[g] # "none" => g <= given
  /\ kind[g] = "run" => prior[g] = InitialState
  /\ kind[g] # "run" /\ pc[g] \in Running => project[g] \notin active
  /\ pc[g] \in {"closing", "failing"} => project[g] \notin active
  /\ pc[g] \in {"closing", "failing"} => outcome[g] \in {"COMPLETED", "FAILED"}
  /\ prior[g].turns \in Seq(Goals)

\* What memory or the file knows was given as a goal.
NamesAreGiven == \A p \in Projects :
  p \in active \/ Known(p) \/ stateFile[p] # Unknown => \E g \in Goals : project[g] = p

Shape == TypeOK /\ CallShape /\ NamesAreGiven

LEMMA StateFields ==
  ASSUME NEW status, NEW turns, NEW workspace
  PROVE  /\ State(status, turns, workspace).status = status
         /\ State(status, turns, workspace).turns = turns
         /\ State(status, turns, workspace).workspace = workspace
BY DEF State

LEMMA StateIsState ==
  ASSUME NEW status \in {"none", "PLANNING", "COMPLETED", "FAILED"},
         NEW turns \in Seq(Goals), NEW workspace \in BOOLEAN
  PROVE  State(status, turns, workspace) \in States
BY DEF State, States

LEMMA UnknownIsState == Unknown \in States /\ Unknown.turns = <<>> /\ <<>> \in Seq(Goals)
<1>1. <<>> \in Seq(Goals)
  BY EmptySeq
<1> QED  BY <1>1 DEF Unknown, State, States

LEMMA InitialIsState == InitialState \in States /\ InitialState.turns = <<>> /\ InitialState.workspace
<1>1. <<>> \in Seq(Goals)
  BY EmptySeq
<1> QED  BY <1>1 DEF InitialState, State, States

LEMMA ShapeInit == Init => Shape
<1> SUFFICES ASSUME Init PROVE Shape
  OBVIOUS
<1> USE UnknownIsState
<1>1. \A g \in Goals : g > 0 /\ g \in Nat
  BY LifecycleAssumption DEF Goals
<1>2. projectHistory \in [Projects -> States] /\ stateFile \in [Projects -> States] /\ prior \in [Goals -> States]
  BY DEF Init, Unreadable
<1>4. TypeOK
  <2>1. answered \in [Projects -> Seq(Goals)] /\ behind \in BOOLEAN
    BY DEF Init
  <2>2. /\ given \in 0..MaxGoals /\ restarts \in 0..MaxRestarts /\ active \subseteq {p \in Projects : ~ Known(p)}
        /\ overlapped \subseteq Projects /\ unsynced \subseteq Projects
        /\ unwritten \subseteq Projects /\ forgotten \subseteq Projects
    BY LifecycleAssumption DEF Init
  <2>3. /\ project \in [Goals -> Projects \cup {NoProject}] /\ kind \in [Goals -> {"none", "run", "continue"}]
        /\ pc \in [Goals -> Running \cup {"none", "done", "lost"}]
        /\ outcome \in [Goals -> {"none", "COMPLETED", "FAILED"}]
        /\ db \in [Projects -> {"none", "PLANNING", "EXECUTING", "COMPLETED", "FAILED", "INTERRUPTED"}]
    BY DEF Init
  <2> QED  BY <1>2, <2>1, <2>2, <2>3 DEF TypeOK
<1>3. CallShape
  <2>1. ASSUME NEW g \in Goals
        PROVE  /\ project[g] = NoProject /\ kind[g] = "none" /\ pc[g] = "none"
               /\ prior[g].turns = <<>> /\ ~ g <= given
    BY <1>1 DEF Init
  <2> QED  BY <2>1 DEF CallShape, Running
<1>5. NamesAreGiven
  BY DEF Init, Unreadable, NamesAreGiven, Known
<1> QED  BY <1>3, <1>4, <1>5 DEF Shape

\* The conversation a call returns.
LEMMA MergedIsState ==
  ASSUME Shape, NEW g \in Goals, NEW status \in {"COMPLETED", "FAILED"}
  PROVE  /\ MergedTurns(g) \in Seq(Goals)
         /\ State(status, MergedTurns(g), prior[g].workspace) \in States
         /\ State(status, MergedTurns(g), prior[g].workspace) # Unknown
<1>1. prior[g] \in States /\ prior[g].turns \in Seq(Goals) /\ prior[g].workspace \in BOOLEAN
  BY DEF Shape, TypeOK, States
<1>2. MergedTurns(g) \in Seq(Goals)
  BY <1>1, AppendProperties DEF MergedTurns
<1>3. State(status, MergedTurns(g), prior[g].workspace) \in States
  BY <1>1, <1>2, StateIsState
<1>4. State(status, MergedTurns(g), prior[g].workspace).status = status /\ Unknown.status = "none"
  BY DEF Unknown, State
<1> QED  BY <1>2, <1>3, <1>4

LEMMA SavedIsHistory ==
  ASSUME Shape, NEW g \in Goals, NEW status \in {"COMPLETED", "FAILED"}
  PROVE  Saved(g, State(status, MergedTurns(g), prior[g].workspace)) \in [Projects -> States]
<1> DEFINE merged == State(status, MergedTurns(g), prior[g].workspace)
<1>1. merged \in States /\ merged.status = status
  BY MergedIsState, StateFields
<1>2. State(merged.status, <<>>, FALSE) \in States
  BY <1>1, StateIsState, UnknownIsState
<1> QED  BY <1>1, <1>2 DEF Saved, Shape, TypeOK

LEMMA BeginShape ==
  ASSUME Shape, NEW p \in Projects, NEW how \in {"run", "continue"}, NEW state \in States,
         how = "run" => state = InitialState, Begin(p, how, state),
         active' \subseteq active \cup {p}, p \in active' => ~ Known(p),
         p \in active' => how = "run" /\ \A h \in Goals : project[h] # p,
         overlapped' \subseteq Projects
  PROVE  Shape'
<1> DEFINE g == given + 1
<1>1. /\ g \in Goals /\ g \in 0..MaxGoals /\ given \in Nat
      /\ \A h \in Goals : h \in Nat /\ (h <= g <=> h <= given \/ h = g)
  BY LifecycleAssumption DEF Begin, Shape, TypeOK, Goals
<1>2. /\ given' = g
      /\ project' = [project EXCEPT ![g] = p] /\ kind' = [kind EXCEPT ![g] = how]
      /\ prior' = [prior EXCEPT ![g] = state] /\ pc' = [pc EXCEPT ![g] = "opening"]
      /\ UNCHANGED <<outcome, projectHistory, disk, db, restarts, answered, unsynced, unwritten, forgotten>>
  BY DEF Begin
<1>3. TypeOK'
  <2>1. project' \in [Goals -> Projects \cup {NoProject}] /\ kind' \in [Goals -> {"none", "run", "continue"}]
        /\ prior' \in [Goals -> States] /\ pc' \in [Goals -> Running \cup {"none", "done", "lost"}]
    BY <1>1, <1>2 DEF Shape, TypeOK, Running
  <2>2. active' \subseteq {q \in Projects : ~ Known(q)'}
    BY <1>2 DEF Known, Shape, TypeOK
  <2> QED  BY <1>1, <1>2, <2>1, <2>2 DEF disk, Shape, TypeOK
<1>4. CallShape'
  <2>1. state.turns \in Seq(Goals)
    BY DEF States
  <2>2. project'[g] = p /\ kind'[g] = how /\ prior'[g] = state /\ pc'[g] = "opening"
    BY <1>1, <1>2 DEF Shape, TypeOK
  <2>3. \A h \in Goals : h # g => project'[h] = project[h] /\ kind'[h] = kind[h] /\ prior'[h] = prior[h] /\ pc'[h] = pc[h]
    BY <1>1, <1>2 DEF Shape, TypeOK
  <2>4. p # NoProject
    BY LifecycleAssumption
  <2>5. \A h \in Goals :
          /\ kind'[h] # "run" /\ pc'[h] \in Running => project'[h] \notin active'
          /\ pc'[h] \in {"closing", "failing"} => project'[h] \notin active'
    BY <2>2, <2>3 DEF Shape, CallShape
  <2> QED  BY <1>1, <1>2, <2>1, <2>2, <2>3, <2>4, <2>5 DEF Shape, CallShape
<1>5. NamesAreGiven'
  <2>1. project'[g] = p /\ \A h \in Goals : h # g => project'[h] = project[h]
    BY <1>1, <1>2 DEF Shape, TypeOK
  <2>2. \A h \in Goals : h <= given => h # g
    BY <1>1
  <2>3. \A h \in Goals, q \in Projects : project[h] = q => project'[h] = q
    BY <2>1, <2>2, LifecycleAssumption DEF Shape, CallShape
  <2>4. \E h \in Goals : project'[h] = p
    BY <1>1, <2>1
  <2> QED  BY <1>1, <1>2, <2>3, <2>4 DEF disk, Shape, NamesAreGiven, Known
<1> QED  BY <1>3, <1>4, <1>5 DEF Shape

\* A step of a call changes where it waits, and which project it does not.
LEMMA StepShape ==
  ASSUME Shape, NEW g \in Goals, UNCHANGED <<goalVars, prior>>, pc[g] \in Running,
         NEW at \in Running \cup {"done"}, pc' = [pc EXCEPT ![g] = at],
         outcome' \in [Goals -> {"none", "COMPLETED", "FAILED"}],
         \A h \in Goals \ {g} : outcome'[h] = outcome[h],
         at \in {"closing", "failing"} => outcome'[g] \in {"COMPLETED", "FAILED"},
         active' \subseteq active, at \in {"closing", "failing"} => project[g] \notin active'
  PROVE  CallShape' /\ project[g] \in Projects /\ pc' \in [Goals -> Running \cup {"none", "done", "lost"}]
<1>1. pc'[g] = at /\ \A h \in Goals : h # g => pc'[h] = pc[h]
  BY DEF Shape, TypeOK
<1>2. pc[g] # "none"
  BY DEF Running
<1>3. pc' \in [Goals -> Running \cup {"none", "done", "lost"}]
  BY DEF Shape, TypeOK
<1> QED  BY <1>1, <1>2, <1>3 DEF goalVars, Shape, CallShape

LEMMA StoreShape ==
  ASSUME Shape, NEW p \in Projects, NEW status \in {"PLANNING", "EXECUTING", "COMPLETED", "FAILED"}, Store(p, status)
  PROVE  db' \in [Projects -> {"none", "PLANNING", "EXECUTING", "COMPLETED", "FAILED", "INTERRUPTED"}]
BY DEF Store, Shape, TypeOK

LEMMA StoreLastShape ==
  ASSUME Shape, NEW g \in Goals, project[g] \in Projects,
         NEW status \in {"COMPLETED", "FAILED"}, StoreLast(g, status)
  PROVE  /\ db' \in [Projects -> {"none", "PLANNING", "EXECUTING", "COMPLETED", "FAILED", "INTERRUPTED"}]
         /\ unwritten' \subseteq Projects
BY StoreShape DEF StoreLast, Shape, TypeOK

LEMMA ShapeNext == Shape /\ [Next]_vars => Shape'
<1> SUFFICES ASSUME Shape, [Next]_vars PROVE Shape'
  OBVIOUS
<1>1. CASE UNCHANGED vars
  BY <1>1 DEF vars, disk, goalVars, memory, history, Shape, TypeOK, CallShape, NamesAreGiven, Known, Running
<1>2. ASSUME NEW p \in Projects, RunProject(p) PROVE Shape'
  <2>1. InitialState \in States
    BY InitialIsState
  <2>2. ~ Known(p)
    BY <1>2 DEF RunProject, Shape, NamesAreGiven
  <2> QED  BY <1>2, <2>1, <2>2, BeginShape DEF RunProject, Shape, TypeOK
<1>3. ASSUME NEW p \in Projects, ContinueProject(p) PROVE Shape'
  <2>1. projectHistory[p] \in States
    BY DEF Shape, TypeOK
  <2> QED  BY <1>3, <2>1, BeginShape DEF ContinueProject, Shape, TypeOK
<1>4. ASSUME NEW g \in Goals, Opened(g) PROVE Shape'
  <2>1. CallShape' /\ project[g] \in Projects /\ pc' \in [Goals -> Running \cup {"none", "done", "lost"}]
    BY <1>4, StepShape DEF Opened, memory, Shape, TypeOK, Running
  <2>2. db' \in [Projects -> {"none", "PLANNING", "EXECUTING", "COMPLETED", "FAILED", "INTERRUPTED"}]
    BY <1>4, <2>1, StoreShape DEF Opened, Shape, TypeOK
  <2> QED  BY <1>4, <2>1, <2>2 DEF Opened, disk, goalVars, memory, history, Shape, TypeOK, NamesAreGiven, Known
<1>5. ASSUME NEW g \in Goals, NEW status \in {"COMPLETED", "FAILED"}, Answer(g, status) PROVE Shape'
  <2> DEFINE merged == State(status, MergedTurns(g), prior[g].workspace)
  <2>1. outcome' \in [Goals -> {"none", "COMPLETED", "FAILED"}] /\ outcome'[g] = status
        /\ \A h \in Goals \ {g} : outcome'[h] = outcome[h]
    BY <1>5 DEF Answer, Shape, TypeOK
  <2>a. active' = StillRunning(g) /\ pc[g] = "working"
    BY <1>5 DEF Answer
  <2>b. active' \subseteq active \ {project[g]}
    BY <2>a DEF StillRunning, Shape, CallShape, Running
  <2>2. CallShape' /\ project[g] \in Projects /\ pc' \in [Goals -> Running \cup {"none", "done", "lost"}]
    BY <1>5, <2>1, <2>b, StepShape DEF Answer, Running
  <2>3. merged \in States /\ merged # Unknown
    BY MergedIsState
  <2>4. projectHistory' = [projectHistory EXCEPT ![project[g]] = merged] /\ PersistHistory(Saved(g, merged))
    BY <1>5 DEF Answer
  <2>5. projectHistory' \in [Projects -> States] /\ stateFile' \in [Projects -> States]
    BY <2>2, <2>3, <2>4, SavedIsHistory, UnknownIsState DEF PersistHistory, Unreadable, Shape, TypeOK
  <2>6. active' \subseteq {q \in Projects : ~ Known(q)'}
    <3>1. \A q \in Projects : q # project[g] => projectHistory'[q] = projectHistory[q]
      BY <2>4 DEF Shape, TypeOK
    <3> QED  BY <2>b, <3>1 DEF Shape, TypeOK, Known
  <2>7. answered' \in [Projects -> Seq(Goals)]
    <3>1. answered[project[g]] \in Seq(Goals)
      BY <2>2 DEF Shape, TypeOK
    <3>2. Append(answered[project[g]], g) \in Seq(Goals)
      BY <3>1, AppendProperties
    <3> QED  BY <1>5, <3>2 DEF Answer, Shape, TypeOK
  <2>8. NamesAreGiven'
    <3>1. \A q \in Projects : \/ stateFile'[q] \in {projectHistory[q], stateFile[q], Unknown}
                              \/ q = project[g]
      BY <2>4 DEF PersistHistory, Unreadable, Saved, Shape, TypeOK
    <3>2. \A q \in Projects : projectHistory'[q] = projectHistory[q] \/ q = project[g]
      BY <2>4 DEF Shape, TypeOK
    <3> QED  BY <1>5, <2>b, <3>1, <3>2 DEF Answer, goalVars, Shape, NamesAreGiven, Known
  <2>9. TypeOK'
    BY <1>5, <2>1, <2>2, <2>4, <2>5, <2>6, <2>7 DEF Answer, PersistHistory, goalVars, Shape, TypeOK
  <2> QED  BY <2>2, <2>8, <2>9 DEF Shape
<1>6. ASSUME NEW g \in Goals, Close(g) \/ CloseFailed(g) PROVE Shape'
  <2>1. CallShape' /\ project[g] \in Projects /\ pc' \in [Goals -> Running \cup {"none", "done", "lost"}]
    BY <1>6, StepShape DEF Close, CloseFailed, memory, Shape, TypeOK, Running
  <2>2. outcome[g] \in {"COMPLETED", "FAILED"}
    BY <1>6 DEF Close, CloseFailed, Shape, CallShape
  <2>3. /\ db' \in [Projects -> {"none", "PLANNING", "EXECUTING", "COMPLETED", "FAILED", "INTERRUPTED"}]
        /\ unwritten' \subseteq Projects
    BY <1>6, <2>1, <2>2, StoreLastShape DEF Close, CloseFailed
  <2> QED
    BY <1>6, <2>1, <2>3 DEF Close, CloseFailed, disk, goalVars, memory, Shape, TypeOK, NamesAreGiven, Known
<1>7. ASSUME NEW g \in Goals, SyncFails(g) PROVE Shape'
  <2> DEFINE failed == State("FAILED", prior[g].turns, prior[g].workspace)
  <2>1. CallShape' /\ project[g] \in Projects /\ pc' \in [Goals -> Running \cup {"none", "done", "lost"}]
    BY <1>7, StepShape DEF SyncFails, Shape, TypeOK, CallShape, Running
  <2>2. outcome[g] \in {"COMPLETED", "FAILED"}
    BY <1>7 DEF SyncFails, Shape, CallShape
  <2>3. /\ db' \in [Projects -> {"none", "PLANNING", "EXECUTING", "COMPLETED", "FAILED", "INTERRUPTED"}]
        /\ unwritten' \subseteq Projects
    BY <1>7, <2>1, <2>2, StoreLastShape DEF SyncFails
  <2>4. failed \in States /\ failed # Unknown
    BY DEF State, Unknown, States, Shape, TypeOK
  <2>5. projectHistory' = [projectHistory EXCEPT ![project[g]] = failed] /\ PersistHistory(projectHistory')
    BY <1>7 DEF SyncFails
  <2>6. projectHistory' \in [Projects -> States] /\ stateFile' \in [Projects -> States]
    BY <2>4, <2>5, UnknownIsState DEF PersistHistory, Unreadable, Shape, TypeOK
  <2>7. \A q \in Projects : q # project[g] => projectHistory'[q] = projectHistory[q]
    BY <2>5 DEF Shape, TypeOK
  <2>8. active' \subseteq {q \in Projects : ~ Known(q)'}
    <3>1. active' = active /\ pc[g] = "closing"
      BY <1>7 DEF SyncFails
    <3>2. project[g] \notin active
      BY <3>1 DEF Shape, CallShape
    <3>3. ASSUME NEW q \in active PROVE q \in Projects /\ ~ Known(q)'
      BY <2>7, <3>2 DEF Shape, TypeOK, Known
    <3> QED  BY <3>1, <3>3
  <2>9. NamesAreGiven'
    BY <1>7, <2>5, <2>7 DEF SyncFails, PersistHistory, Unreadable, goalVars, Shape, NamesAreGiven, Known
  <2>10. TypeOK'
    BY <1>7, <2>1, <2>3, <2>5, <2>6, <2>8 DEF SyncFails, PersistHistory, goalVars, Shape, TypeOK
  <2> QED  BY <2>1, <2>9, <2>10 DEF Shape
<1>8. ASSUME NEW file \in [Projects -> States], Restart(file),
             \A p \in Projects : file[p] # Unknown => stateFile[p] # Unknown
      PROVE Shape'
  <2>1. pc' = [g \in Goals |-> IF pc[g] \in Running THEN "lost" ELSE pc[g]]
    BY <1>8 DEF Restart
  <2>2. pc' \in [Goals -> Running \cup {"none", "done", "lost"}] /\ \A g \in Goals : pc'[g] \notin Running
    BY <2>1 DEF Shape, TypeOK, Running
  <2>3. CallShape'
    BY <1>8, <2>1, <2>2 DEF Restart, goalVars, Shape, CallShape, Running
  <2>4. db' \in [Projects -> {"none", "PLANNING", "EXECUTING", "COMPLETED", "FAILED", "INTERRUPTED"}]
    BY <1>8 DEF Restart, Shape, TypeOK
  <2>5. restarts' \in 0..MaxRestarts
    BY <1>8, LifecycleAssumption DEF Restart, Shape, TypeOK
  <2>6. TypeOK'
    BY <1>8, <2>2, <2>4, <2>5 DEF Restart, goalVars, history, Shape, TypeOK
  <2>7. NamesAreGiven'
    BY <1>8 DEF Restart, goalVars, Shape, NamesAreGiven, Known
  <2> QED  BY <2>3, <2>6, <2>7 DEF Shape
<1>9. CASE Restart(stateFile)
  BY <1>8, <1>9 DEF Shape, TypeOK
<1>10. CASE TornRestart
  <2>1. Unreadable \in [Projects -> States] /\ \A p \in Projects : Unreadable[p] = Unknown
    BY UnknownIsState DEF Unreadable
  <2> QED  BY <1>8, <1>10, <2>1 DEF TornRestart
<1> QED  BY <1>1, <1>2, <1>3, <1>4, <1>5, <1>6, <1>7, <1>9, <1>10 DEF Next, Call

\* Every state has its type; a project is active or in the history, not both.
THEOREM TypeCorrect == Spec => []TypeOK
<1>1. Init => Shape
  BY ShapeInit
<1>2. Shape /\ [Next]_vars => Shape'
  BY ShapeNext
<1>3. Shape => TypeOK
  BY DEF Shape
<1> QED  BY <1>1, <1>2, <1>3, PTL DEF Spec

-----------------------------------------------------------------------------
(* The file follows memory.                                                *)

FileInv == Shape /\ FileFollowsMemory

LEMMA FileAnswered ==
  ASSUME FileInv, NEW g \in Goals, NEW status \in {"COMPLETED", "FAILED"}, Answer(g, status)
  PROVE  FileFollowsMemory'
<1> DEFINE merged == State(status, MergedTurns(g), prior[g].workspace)
           p == project[g]
<1> SUFFICES ASSUME ~behind' PROVE FileFollowsMemory'
  BY DEF FileFollowsMemory
<1>1. projectHistory' = [projectHistory EXCEPT ![p] = merged] /\ stateFile' = Saved(g, merged)
  BY DEF Answer, PersistHistory
<1>2. p \in Projects /\ prior[g].turns \in Seq(Goals)
  BY DEF Answer, FileInv, Shape, CallShape
<1>3. ASSUME NEW q \in Projects, q # p PROVE stateFile'[q] = projectHistory'[q]
  BY <1>1, <1>3 DEF Saved, FileInv, Shape, TypeOK
<1>4. projectHistory'[p] = merged
  BY <1>1, <1>2 DEF FileInv, Shape, TypeOK
<1>5. CASE kind[g] = "run"
  <2>1. prior[g].turns = <<>>
    BY <1>5, InitialIsState DEF FileInv, Shape, CallShape
  <2>2. Len(merged.turns) = 1
    BY <2>1, StateFields DEF MergedTurns
  <2>3. stateFile'[p] = State(merged.status, <<>>, FALSE)
    BY <1>1, <1>2, <1>5 DEF Saved, FileInv, Shape, TypeOK
  <2> QED  BY <1>3, <1>4, <2>2, <2>3 DEF FileFollowsMemory
<1>6. CASE kind[g] # "run"
  <2>1. stateFile'[p] = merged
    BY <1>1, <1>2, <1>6 DEF Saved, FileInv, Shape, TypeOK
  <2> QED  BY <1>3, <1>4, <2>1 DEF FileFollowsMemory
<1> QED  BY <1>5, <1>6

LEMMA FileNext == FileInv /\ [Next]_vars => FileFollowsMemory'
<1> SUFFICES ASSUME FileInv, [Next]_vars PROVE FileFollowsMemory'
  OBVIOUS
<1> USE DEF FileInv
<1>1. CASE UNCHANGED vars
  BY <1>1 DEF vars, disk, memory, FileFollowsMemory
<1>2. ASSUME NEW p \in Projects, RunProject(p) \/ ContinueProject(p) PROVE FileFollowsMemory'
  BY <1>2 DEF RunProject, ContinueProject, Begin, disk, FileFollowsMemory
<1>3. ASSUME NEW g \in Goals, Opened(g) \/ Close(g) \/ CloseFailed(g) PROVE FileFollowsMemory'
  BY <1>3 DEF Opened, Close, CloseFailed, disk, memory, FileFollowsMemory
<1>4. ASSUME NEW g \in Goals, NEW status \in {"COMPLETED", "FAILED"}, Answer(g, status) PROVE FileFollowsMemory'
  BY <1>4, FileAnswered
<1>5. ASSUME NEW g \in Goals, SyncFails(g) PROVE FileFollowsMemory'
  BY <1>5 DEF SyncFails, PersistHistory, FileFollowsMemory
<1>6. CASE Restart(stateFile) \/ TornRestart
  BY <1>6 DEF Restart, TornRestart, FileFollowsMemory
<1> QED  BY <1>1, <1>2, <1>3, <1>4, <1>5, <1>6 DEF Next, Call

\* Whatever is written or lost, project_history.json has what memory has, or
\* the one turn of a run is missing, unless its last write failed.
THEOREM FileIsCurrent == Spec => []FileFollowsMemory
<1>1. Init => FileInv
  BY ShapeInit DEF Init, FileInv, FileFollowsMemory
<1>2. FileInv /\ [Next]_vars => FileInv'
  BY ShapeNext, FileNext DEF FileInv
<1>3. FileInv => FileFollowsMemory
  BY DEF FileInv
<1> QED  BY <1>1, <1>2, <1>3, PTL DEF Spec

-----------------------------------------------------------------------------
(* A project that is marked as worked on is, unless a write failed.        *)

MarkInv == Shape /\ StaleRunsAreMarked

LEMMA MarkKept ==
  ASSUME MarkInv, project' = project, NEW g \in Goals, NEW at \in Running,
         pc' = [pc EXCEPT ![g] = at], pc[g] \in Running,
         \A p \in Projects : db'[p] = db[p] \/ p = project[g],
         unwritten \subseteq unwritten'
  PROVE  StaleRunsAreMarked'
<1>1. \A h \in Goals : pc[h] \in Running => pc'[h] \in Running
  BY DEF MarkInv, Shape, TypeOK
<1>2. \A p \in Projects : InFlight(p) => InFlight(p)'
  BY <1>1 DEF InFlight
<1>3. InFlight(project[g])'
  BY <1>1 DEF InFlight
<1> QED  BY <1>2, <1>3 DEF MarkInv, StaleRunsAreMarked

\* The last write of a call.
LEMMA MarkClosed ==
  ASSUME MarkInv, project' = project, NEW g \in Goals, pc' = [pc EXCEPT ![g] = "done"],
         NEW status \in {"COMPLETED", "FAILED"}, StoreLast(g, status)
  PROVE  StaleRunsAreMarked'
<1>1. ASSUME NEW p \in Projects, p # project[g], InFlight(p) PROVE InFlight(p)'
  <2>1. PICK h \in Goals : pc[h] \in Running /\ project[h] = p
    BY <1>1 DEF InFlight
  <2>2. h # g
    BY <1>1, <2>1
  <2>3. pc'[h] = pc[h]
    BY <2>2 DEF MarkInv, Shape, TypeOK
  <2> QED  BY <2>1, <2>3 DEF InFlight
<1>2. CASE Store(project[g], status) /\ UNCHANGED unwritten
  <2>1. \A p \in Projects : db'[p] = IF p = project[g] THEN status ELSE db[p]
    BY <1>2 DEF Store, MarkInv, Shape, TypeOK
  <2> QED  BY <1>1, <1>2, <2>1 DEF MarkInv, StaleRunsAreMarked
<1>3. CASE unwritten' = unwritten \cup {project[g]} /\ UNCHANGED db
  BY <1>1, <1>3 DEF MarkInv, StaleRunsAreMarked
<1> QED  BY <1>2, <1>3 DEF StoreLast

LEMMA MarkNext == MarkInv /\ [Next]_vars => StaleRunsAreMarked'
<1> SUFFICES ASSUME MarkInv, [Next]_vars PROVE StaleRunsAreMarked'
  OBVIOUS
<1>1. CASE UNCHANGED vars
  BY <1>1 DEF vars, goalVars, history, MarkInv, StaleRunsAreMarked, InFlight
<1>2. ASSUME NEW p \in Projects, RunProject(p) \/ ContinueProject(p) PROVE StaleRunsAreMarked'
  <2> DEFINE n == given + 1
  <2>1. project' = [project EXCEPT ![n] = p] /\ pc' = [pc EXCEPT ![n] = "opening"] /\ UNCHANGED <<db, unwritten>>
    BY <1>2 DEF RunProject, ContinueProject, Begin
  <2>2. \A h \in Goals : h <= given => h # n
    BY DEF MarkInv, Shape, TypeOK, Goals
  <2>3. \A h \in Goals : pc[h] \in Running => pc'[h] = pc[h] /\ project'[h] = project[h]
    BY <2>1, <2>2 DEF MarkInv, Shape, TypeOK, CallShape, Running
  <2>4. \A q \in Projects : InFlight(q) => InFlight(q)'
    BY <2>3 DEF InFlight
  <2> QED  BY <2>1, <2>4 DEF MarkInv, StaleRunsAreMarked
<1>3. ASSUME NEW g \in Goals, Opened(g) PROVE StaleRunsAreMarked'
  <2>1. \A p \in Projects : db'[p] = db[p] \/ p = project[g]
    BY <1>3 DEF Opened, Store, MarkInv, Shape, TypeOK
  <2> QED  BY <1>3, <2>1, MarkKept DEF Opened, goalVars, history, Running
<1>4. ASSUME NEW g \in Goals, NEW status \in {"COMPLETED", "FAILED"}, Answer(g, status) PROVE StaleRunsAreMarked'
  BY <1>4, MarkKept DEF Answer, goalVars, Running
<1>5. ASSUME NEW g \in Goals, Close(g) \/ CloseFailed(g) PROVE StaleRunsAreMarked'
  <2>1. outcome[g] \in {"COMPLETED", "FAILED"}
    BY <1>5 DEF Close, CloseFailed, MarkInv, Shape, CallShape
  <2> QED  BY <1>5, <2>1, MarkClosed DEF Close, CloseFailed, goalVars
<1>6. ASSUME NEW g \in Goals, SyncFails(g) PROVE StaleRunsAreMarked'
  <2>1. \A p \in Projects : db'[p] = db[p] \/ p = project[g]
    BY <1>6 DEF SyncFails, StoreLast, Store, MarkInv, Shape, TypeOK
  <2>2. unwritten \subseteq unwritten'
    BY <1>6 DEF SyncFails, StoreLast
  <2> QED  BY <1>6, <2>1, <2>2, MarkKept DEF SyncFails, goalVars, Running
<1>7. CASE Restart(stateFile) \/ TornRestart
  <2>1. db' = [p \in Projects |-> IF db[p] \in Stale THEN "INTERRUPTED" ELSE db[p]]
    BY <1>7 DEF Restart, TornRestart
  <2> QED  BY <2>1 DEF StaleRunsAreMarked, Stale
<1> QED  BY <1>1, <1>2, <1>3, <1>4, <1>5, <1>6, <1>7 DEF Next, Call

\* After any restart, a project the database calls PLANNING or EXECUTING has a
\* call in flight or a last status that was not stored.
THEOREM RunsAreMarked == Spec => []StaleRunsAreMarked
<1>1. Init => MarkInv
  BY ShapeInit DEF Init, MarkInv, StaleRunsAreMarked
<1>2. MarkInv /\ [Next]_vars => MarkInv'
  BY ShapeNext, MarkNext DEF MarkInv
<1>3. MarkInv => StaleRunsAreMarked
  BY DEF MarkInv
<1> QED  BY <1>1, <1>2, <1>3, PTL DEF Spec

-----------------------------------------------------------------------------
(* A conversation is in the order of its goals.                            *)

\* Turns in their order, all given before goal n.
Ordered(turns, n) == \A i \in DOMAIN turns :
  /\ turns[i] < n
  /\ \A j \in DOMAIN turns : i < j => turns[i] < turns[j]

OrderInv ==
  /\ Shape
  /\ \A p \in Projects : Ordered(projectHistory[p].turns, given + 1) /\ Ordered(stateFile[p].turns, given + 1)
  /\ \A g \in Goals : Ordered(prior[g].turns, g)

LEMMA OrderedEmpty == \A n : Ordered(<<>>, n)
<1>1. DOMAIN <<>> = {}
  OBVIOUS
<1> QED  BY <1>1 DEF Ordered

LEMMA OrderedLater ==
  ASSUME NEW turns \in Seq(Goals), NEW m \in Nat, NEW n \in Nat, m <= n, Ordered(turns, m)
  PROVE  Ordered(turns, n)
<1>1. \A i \in DOMAIN turns : turns[i] \in Goals
  BY ElementOfSeq
<1> QED  BY <1>1 DEF Ordered, Goals

LEMMA OrderedAppend ==
  ASSUME NEW turns \in Seq(Goals), NEW g \in Goals, Ordered(turns, g)
  PROVE  Ordered(Append(turns, g), g + 1)
<1> DEFINE s == Append(turns, g)
<1>1. /\ s \in Seq(Goals) /\ Len(s) = Len(turns) + 1 /\ s[Len(turns) + 1] = g
      /\ \A i \in 1..Len(turns) : s[i] = turns[i]
  BY AppendProperties
<1>2. DOMAIN turns = 1..Len(turns) /\ DOMAIN s = 1..Len(s) /\ Len(turns) \in Nat
  BY <1>1, LenProperties
<1>3. \A i \in DOMAIN s : i \in DOMAIN turns \/ i = Len(turns) + 1
  BY <1>1, <1>2
<1>4. \A i \in DOMAIN turns : turns[i] \in Nat /\ turns[i] < g
  <2>1. \A i \in DOMAIN turns : turns[i] \in Goals
    BY <1>2, ElementOfSeq
  <2> QED  BY <2>1 DEF Ordered, Goals
<1>5. g \in Nat
  BY DEF Goals
<1>6. ASSUME NEW i \in DOMAIN s PROVE s[i] < g + 1
  BY <1>1, <1>2, <1>3, <1>4, <1>5
<1>7. ASSUME NEW i \in DOMAIN s, NEW j \in DOMAIN s, i < j PROVE s[i] < s[j]
  <2>1. i \in DOMAIN turns
    BY <1>1, <1>2, <1>7
  <2>2. CASE j \in DOMAIN turns
    BY <1>1, <1>2, <1>7, <2>1, <2>2 DEF Ordered
  <2>3. CASE j = Len(turns) + 1
    BY <1>1, <1>2, <1>4, <2>1, <2>3
  <2> QED  BY <1>3, <2>2, <2>3
<1> QED  BY <1>6, <1>7 DEF Ordered

LEMMA OrderBegin ==
  ASSUME OrderInv, NEW p \in Projects, NEW how, NEW state, Begin(p, how, state),
         Ordered(state.turns, given + 1)
  PROVE  /\ \A q \in Projects : /\ Ordered(projectHistory[q].turns, given + 1)'
                                /\ Ordered(stateFile[q].turns, given + 1)'
         /\ \A g \in Goals : Ordered(prior[g].turns, g)'
<1>1. /\ given' = given + 1 /\ prior' = [prior EXCEPT ![given + 1] = state]
      /\ projectHistory' = projectHistory /\ stateFile' = stateFile
  BY DEF Begin, disk
<1>2. given \in Nat /\ given' + 1 \in Nat /\ given + 1 \in Nat /\ given + 1 <= given' + 1
  BY <1>1, LifecycleAssumption DEF OrderInv, Shape, TypeOK
<1>3. \A q \in Projects : projectHistory[q].turns \in Seq(Goals) /\ stateFile[q].turns \in Seq(Goals)
  BY DEF OrderInv, Shape, TypeOK, States
<1>4. \A q \in Projects : Ordered(projectHistory[q].turns, given' + 1) /\ Ordered(stateFile[q].turns, given' + 1)
  BY <1>2, <1>3, OrderedLater DEF OrderInv
<1>5. \A g \in Goals : prior'[g] = IF g = given + 1 THEN state ELSE prior[g]
  BY <1>1 DEF OrderInv, Shape, TypeOK
<1>6. \A g \in Goals : Ordered(prior'[g].turns, g)
  BY <1>5 DEF OrderInv
<1> QED  BY <1>1, <1>4, <1>6

LEMMA OrderNext == OrderInv /\ [Next]_vars => OrderInv'
<1> SUFFICES ASSUME OrderInv, [Next]_vars PROVE OrderInv'
  OBVIOUS
<1>0. Shape'
  BY ShapeNext DEF OrderInv
<1>e. Unknown.turns = <<>> /\ InitialState.turns = <<>>
  BY UnknownIsState, InitialIsState
<1>1. CASE UNCHANGED <<given, prior, projectHistory, stateFile>>
  BY <1>0, <1>1 DEF OrderInv
<1>2. ASSUME NEW p \in Projects, RunProject(p) \/ ContinueProject(p) PROVE OrderInv'
  <2>1. CASE RunProject(p)
    BY <1>0, <1>e, <2>1, OrderedEmpty, OrderBegin DEF RunProject, OrderInv
  <2>2. CASE ContinueProject(p)
    BY <1>0, <2>2, OrderBegin DEF ContinueProject, OrderInv
  <2> QED  BY <1>2, <2>1, <2>2
<1>3. ASSUME NEW g \in Goals, pc[g] # "none",
             NEW merged, Ordered(merged.turns, given + 1), UNCHANGED <<given, prior>>,
             projectHistory' = [projectHistory EXCEPT ![project[g]] = merged],
             \A p \in Projects : \/ stateFile'[p] \in {stateFile[p], projectHistory[p], projectHistory'[p]}
                                 \/ stateFile'[p].turns = <<>>
      PROVE  OrderInv'
  <2>1. \A p \in Projects : projectHistory'[p] = IF p = project[g] THEN merged ELSE projectHistory[p]
    BY <1>3 DEF OrderInv, Shape, TypeOK
  <2>2. \A p \in Projects : Ordered(projectHistory'[p].turns, given + 1)
    BY <1>3, <2>1 DEF OrderInv
  <2>3. \A p \in Projects : Ordered(stateFile'[p].turns, given + 1)
    BY <1>3, <2>2, OrderedEmpty DEF OrderInv
  <2> QED  BY <1>0, <1>3, <2>2, <2>3 DEF OrderInv
<1>4. ASSUME NEW g \in Goals PROVE pc[g] # "none" => g \in Nat /\ given \in Nat /\ g <= given
  BY LifecycleAssumption DEF OrderInv, Shape, CallShape, TypeOK, Goals
<1>5. ASSUME NEW g \in Goals, NEW status \in {"COMPLETED", "FAILED"}, Answer(g, status) PROVE OrderInv'
  <2> DEFINE merged == State(status, MergedTurns(g), prior[g].workspace)
  <2>1. prior[g].turns \in Seq(Goals) /\ Ordered(prior[g].turns, g)
    BY DEF OrderInv, Shape, CallShape
  <2>2. Ordered(MergedTurns(g), g + 1) /\ MergedTurns(g) \in Seq(Goals)
    BY <2>1, OrderedAppend, AppendProperties DEF MergedTurns
  <2>3. pc[g] # "none"
    BY <1>5 DEF Answer
  <2>4. Ordered(merged.turns, given + 1)
    BY <1>4, <2>2, <2>3, OrderedLater, StateFields
  <2>5. PersistHistory(Saved(g, merged)) /\ projectHistory' = [projectHistory EXCEPT ![project[g]] = merged]
    BY <1>5 DEF Answer
  <2>8. UNCHANGED <<given, prior>>
    BY <1>5 DEF Answer, goalVars
  <2>6. State(merged.status, <<>>, FALSE).turns = <<>>
    BY DEF State
  <2>7. \A p \in Projects : \/ stateFile'[p] \in {stateFile[p], projectHistory[p], projectHistory'[p]}
                            \/ stateFile'[p].turns = <<>>
    BY <1>e, <2>5, <2>6 DEF PersistHistory, Unreadable, Saved, OrderInv, Shape, TypeOK
  <2> QED  BY <1>3, <2>3, <2>4, <2>5, <2>7, <2>8
<1>6. ASSUME NEW g \in Goals, SyncFails(g) PROVE OrderInv'
  <2> DEFINE failed == State("FAILED", prior[g].turns, prior[g].workspace)
  <2>1. prior[g].turns \in Seq(Goals) /\ Ordered(prior[g].turns, g)
    BY DEF OrderInv, Shape, CallShape
  <2>2. pc[g] # "none"
    BY <1>6 DEF SyncFails
  <2>3. Ordered(failed.turns, given + 1)
    BY <1>4, <2>1, <2>2, OrderedLater, StateFields
  <2>4. projectHistory' = [projectHistory EXCEPT ![project[g]] = failed] /\ PersistHistory(projectHistory')
        /\ UNCHANGED <<given, prior>>
    BY <1>6 DEF SyncFails, goalVars
  <2>5. \A p \in Projects : \/ stateFile'[p] \in {stateFile[p], projectHistory[p], projectHistory'[p]}
                            \/ stateFile'[p].turns = <<>>
    BY <1>e, <2>4 DEF PersistHistory, Unreadable
  <2> QED  BY <1>3, <2>2, <2>3, <2>4, <2>5
<1>7. CASE Restart(stateFile)
  BY <1>0, <1>7 DEF Restart, goalVars, OrderInv
<1>8. CASE TornRestart
  <2>1. \A p \in Projects : stateFile'[p].turns = <<>> /\ projectHistory'[p].turns = <<>>
    BY <1>8, <1>e DEF TornRestart, Restart, Unreadable
  <2> QED  BY <1>0, <1>8, <2>1, OrderedEmpty DEF TornRestart, Restart, goalVars, OrderInv
<1> QED
  BY <1>1, <1>2, <1>5, <1>6, <1>7, <1>8
  DEF Next, Call, Opened, Close, CloseFailed, vars, goalVars, memory, disk

\* Overlapping calls, failures and restarts may lose turns: they never put a
\* later one before an earlier one.
THEOREM TurnsAreOrdered == Spec => []OldestFirst
<1>1. Init => OrderInv
  <2> SUFFICES ASSUME Init PROVE OrderInv
    OBVIOUS
  <2>1. \A p \in Projects : projectHistory[p].turns = <<>> /\ stateFile[p].turns = <<>>
    BY UnknownIsState DEF Init, Unreadable
  <2>2. \A g \in Goals : prior[g].turns = <<>>
    BY UnknownIsState DEF Init
  <2> QED  BY <2>1, <2>2, ShapeInit, OrderedEmpty DEF OrderInv
<1>2. OrderInv /\ [Next]_vars => OrderInv'
  BY OrderNext
<1>3. OrderInv => OldestFirst
  BY DEF OrderInv, Ordered, OldestFirst
<1> QED  BY <1>1, <1>2, <1>3, PTL DEF Spec

-----------------------------------------------------------------------------
(* A conversation is complete.                                             *)

\* The turns of a project, or all but its first.
Complete(turns, p) ==
  \/ turns = answered[p]
  \/ answered[p] # <<>> /\ turns = Tail(answered[p])

\* A first turn is missing only after a restart.
Kept(turns, p) == Complete(turns, p) /\ (turns = answered[p] \/ restarts > 0)

Unanswered == {"opening", "working"}

\* Of the projects TurnsAreKept is about: one call at a time, which began with
\* the conversation as it is.
KeptInv ==
  /\ Shape
  /\ \A p \in Projects : answered[p] # <<>> => \E g \in Goals : project[g] = p
  /\ \A p \in Projects \ (overlapped \cup unsynced \cup forgotten) :
       /\ Known(p) => Kept(projectHistory[p].turns, p)
       /\ ~behind /\ stateFile[p] # Unknown => Complete(stateFile[p].turns, p)
       /\ \A g, h \in Goals :
            project[g] = p /\ project[h] = p /\ pc[g] \in Running /\ pc[h] \in Running => g = h
       /\ \A g \in Goals : project[g] = p /\ pc[g] \in Unanswered =>
            /\ Kept(prior[g].turns, p)
            /\ kind[g] = "run" => answered[p] = <<>>

\* KeptInv of one project.
KeptAt(p) ==
  /\ Known(p) => Kept(projectHistory[p].turns, p)
  /\ ~behind /\ stateFile[p] # Unknown => Complete(stateFile[p].turns, p)
  /\ \A g, h \in Goals :
       project[g] = p /\ project[h] = p /\ pc[g] \in Running /\ pc[h] \in Running => g = h
  /\ \A g \in Goals : project[g] = p /\ pc[g] \in Unanswered =>
       /\ Kept(prior[g].turns, p)
       /\ kind[g] = "run" => answered[p] = <<>>

LEMMA KeptOf ==
  ASSUME KeptInv, NEW p \in Projects, p \notin overlapped \cup unsynced \cup forgotten
  PROVE  KeptAt(p)
BY DEF KeptInv, KeptAt

\* An answer adds its turn at the end.
LEMMA KeptAppend ==
  ASSUME KeptInv, NEW p \in Projects, NEW turns, NEW g \in Goals, Kept(turns, p),
         answered' = [answered EXCEPT ![p] = Append(@, g)], restarts' = restarts
  PROVE  Kept(Append(turns, g), p)'
<1>1. answered[p] \in Seq(Goals)
  BY DEF KeptInv, Shape, TypeOK
<1>2. answered'[p] = Append(answered[p], g)
  BY DEF KeptInv, Shape, TypeOK
<1>3. answered'[p] # <<>>
  BY <1>1, <1>2, AppendProperties
<1>4. CASE turns = answered[p]
  BY <1>2, <1>4 DEF Kept, Complete
<1>5. CASE answered[p] # <<>> /\ turns = Tail(answered[p]) /\ restarts > 0
  <2>1. Tail(answered'[p]) = Append(Tail(answered[p]), g)
    BY <1>1, <1>2, <1>5, HeadTailAppend
  <2> QED  BY <1>3, <1>5, <2>1 DEF Kept, Complete
<1> QED  BY <1>4, <1>5 DEF Kept, Complete

\* A goal that is given.
LEMMA KeptBegin ==
  ASSUME KeptInv, NEW p \in Projects, NEW how \in {"run", "continue"}, NEW state, Begin(p, how, state),
         p \notin overlapped' => ~ InFlight(p), overlapped \subseteq overlapped',
         p \notin overlapped' \cup unsynced \cup forgotten => Kept(state.turns, p) /\ (how = "run" => answered[p] = <<>>)
  PROVE  /\ \A q \in Projects : answered'[q] # <<>> => \E g \in Goals : project'[g] = q
         /\ \A q \in Projects \ (overlapped' \cup unsynced' \cup forgotten') : KeptAt(q)'
<1> DEFINE n == given + 1
<1>1. n \in Goals /\ given \in Nat /\ \A g \in Goals : g <= given => g # n
  BY LifecycleAssumption DEF Begin, KeptInv, Shape, TypeOK, Goals
<1>2. /\ project' = [project EXCEPT ![n] = p] /\ kind' = [kind EXCEPT ![n] = how]
      /\ prior' = [prior EXCEPT ![n] = state] /\ pc' = [pc EXCEPT ![n] = "opening"]
      /\ UNCHANGED <<projectHistory, disk, answered, restarts, unsynced, forgotten>>
  BY DEF Begin
<1>3. project'[n] = p /\ kind'[n] = how /\ prior'[n] = state /\ pc'[n] = "opening"
  BY <1>1, <1>2 DEF KeptInv, Shape, TypeOK
<1>4. \A g \in Goals : g # n => project'[g] = project[g] /\ kind'[g] = kind[g] /\ prior'[g] = prior[g] /\ pc'[g] = pc[g]
  BY <1>2 DEF KeptInv, Shape, TypeOK
<1>5. \A q \in Projects, g \in Goals : project[g] = q => g # n
  BY <1>1, LifecycleAssumption DEF KeptInv, Shape, CallShape
<1>6. ASSUME NEW q \in Projects, answered'[q] # <<>> PROVE \E g \in Goals : project'[g] = q
  BY <1>2, <1>4, <1>5, <1>6 DEF KeptInv
<1>7. ASSUME NEW q \in Projects, q \notin overlapped' \cup unsynced' \cup forgotten' PROVE KeptAt(q)'
  <2>1. KeptAt(q)
    BY <1>2, <1>7, KeptOf
  <2>3. Known(q)' => Kept(projectHistory[q].turns, q)'
    BY <1>2, <2>1 DEF KeptAt, Known, Kept, Complete
  <2>4. ~behind' /\ stateFile'[q] # Unknown => Complete(stateFile[q].turns, q)'
    BY <1>2, <2>1 DEF disk, KeptAt, Complete
  <2>5. ASSUME NEW g \in Goals, NEW h \in Goals, project'[g] = q, project'[h] = q,
               pc'[g] \in Running, pc'[h] \in Running
        PROVE  g = h
    <3>1. CASE q # p
      BY <1>3, <1>4, <2>1, <2>5, <3>1 DEF KeptAt
    <3>2. CASE q = p
      <4>1. ~ InFlight(p)
        BY <1>7, <3>2
      <4>2. \A k \in Goals : k # n => ~ (project'[k] = p /\ pc'[k] \in Running)
        BY <1>4, <4>1 DEF InFlight
      <4> QED  BY <2>5, <3>2, <4>2
    <3> QED  BY <3>1, <3>2
  <2>6. ASSUME NEW g \in Goals, project'[g] = q, pc'[g] \in Unanswered
        PROVE  Kept(prior[g].turns, q)' /\ (kind'[g] = "run" => answered'[q] = <<>>)
    <3>1. CASE g = n
      <4>1. q = p /\ p \notin overlapped' \cup unsynced \cup forgotten
        BY <1>2, <1>3, <1>7, <2>6, <3>1
      <4> QED  BY <1>2, <1>3, <3>1, <4>1 DEF Kept, Complete
    <3>2. CASE g # n
      <4>1. Kept(prior[g].turns, q) /\ (kind[g] = "run" => answered[q] = <<>>)
        BY <1>4, <2>1, <2>6, <3>2 DEF KeptAt
      <4> QED  BY <1>2, <1>4, <3>2, <4>1 DEF Kept, Complete
    <3> QED  BY <3>1, <3>2
  <2> QED  BY <2>3, <2>4, <2>5, <2>6 DEF KeptAt
<1> QED  BY <1>6, <1>7

\* What the file has of a project is what it had, or what memory had.
SameFile(q) ==
  \/ stateFile'[q] = stateFile[q] /\ behind' = behind
  \/ stateFile'[q] = projectHistory[q]

\* A step of a call leaves a conversation alone.
LEMMA KeptStill ==
  ASSUME UNCHANGED <<project, kind, prior, restarts>>, NEW q \in Projects, KeptAt(q),
         \A h \in Goals : /\ pc'[h] \in Running => pc[h] \in Running
                          /\ pc'[h] \in Unanswered => pc[h] \in Unanswered,
         projectHistory'[q] = projectHistory[q], answered'[q] = answered[q],
         behind' \/ SameFile(q)
  PROVE  KeptAt(q)'
<1>1. Known(q)' => Kept(projectHistory[q].turns, q)'
  BY DEF KeptAt, Known, Kept, Complete
<1>2. ~behind' /\ stateFile'[q] # Unknown => Complete(stateFile[q].turns, q)'
  BY DEF SameFile, KeptAt, Known, Kept, Complete
<1>3. \A g, h \in Goals :
        project'[g] = q /\ project'[h] = q /\ pc'[g] \in Running /\ pc'[h] \in Running => g = h
  BY DEF KeptAt
<1>4. ASSUME NEW g \in Goals, project'[g] = q, pc'[g] \in Unanswered
      PROVE  Kept(prior[g].turns, q)' /\ (kind'[g] = "run" => answered'[q] = <<>>)
  BY <1>4 DEF KeptAt, Kept, Complete
<1> QED  BY <1>1, <1>2, <1>3, <1>4 DEF KeptAt

\* The conversation that is answered.
LEMMA KeptAnswered ==
  ASSUME KeptInv, NEW g \in Goals, NEW status \in {"COMPLETED", "FAILED"}, Answer(g, status),
         NEW p \in Projects, p = project[g], KeptAt(p)
  PROVE  KeptAt(p)'
<1> DEFINE merged == State(status, MergedTurns(g), prior[g].workspace)
<1>1. /\ projectHistory' = [projectHistory EXCEPT ![p] = merged] /\ PersistHistory(Saved(g, merged))
      /\ answered' = [answered EXCEPT ![p] = Append(@, g)]
      /\ pc[g] = "working" /\ pc' = [pc EXCEPT ![g] = "closing"]
  BY DEF Answer
<1>2. UNCHANGED <<project, kind, prior, restarts>>
  BY DEF Answer, goalVars
<1>3. Kept(prior[g].turns, p) /\ (kind[g] = "run" => answered[p] = <<>>)
  BY <1>1 DEF KeptAt, Unanswered
<1>4. Kept(Append(prior[g].turns, g), p)'
  BY <1>1, <1>2, <1>3, KeptAppend
<1>5. answered[p] \in Seq(Goals) /\ answered'[p] = Append(answered[p], g) /\ answered'[p] # <<>>
  <2>1. answered[p] \in Seq(Goals) /\ answered'[p] = Append(answered[p], g)
    BY <1>1 DEF KeptInv, Shape, TypeOK
  <2> QED  BY <2>1, AppendProperties
<1>6. projectHistory'[p] = merged /\ merged.turns = Append(prior[g].turns, g)
  <2>1. projectHistory'[p] = merged
    BY <1>1 DEF KeptInv, Shape, TypeOK
  <2>2. merged.turns = MergedTurns(g)
    BY DEF State
  <2> QED  BY <2>1, <2>2 DEF MergedTurns
<1>7. Kept(projectHistory[p].turns, p)'
  BY <1>2, <1>4, <1>6 DEF Kept, Complete
<1>8. ~behind' => Complete(stateFile[p].turns, p)'
  <2> SUFFICES ASSUME ~behind' PROVE Complete(stateFile[p].turns, p)'
    OBVIOUS
  <2>0. stateFile' = Saved(g, merged)
    BY <1>1 DEF PersistHistory
  <2>1. CASE kind[g] = "run"
    <3>1. stateFile'[p] = State(merged.status, <<>>, FALSE)
      BY <2>0, <2>1 DEF Saved, KeptInv, Shape, TypeOK
    <3>2. stateFile'[p].turns = <<>>
      BY <3>1 DEF State
    <3>3. Tail(answered'[p]) = <<>>
      BY <1>3, <1>5, <2>1, HeadTailAppend
    <3> QED  BY <1>2, <1>5, <3>2, <3>3 DEF Complete
  <2>2. CASE kind[g] # "run"
    <3>1. stateFile'[p] = projectHistory'[p]
      BY <1>6, <2>0, <2>2 DEF Saved, KeptInv, Shape, TypeOK
    <3> QED  BY <1>2, <1>7, <3>1 DEF Kept, Complete
  <2> QED  BY <2>1, <2>2
<1>9. pc'[g] = "closing" /\ \A h \in Goals : h # g => pc'[h] = pc[h]
  BY <1>1 DEF KeptInv, Shape, TypeOK
<1>10. \A h, k \in Goals :
         project'[h] = p /\ project'[k] = p /\ pc'[h] \in Running /\ pc'[k] \in Running => h = k
  BY <1>1, <1>2, <1>9 DEF KeptAt, Running
<1>11. \A h \in Goals : ~ (project'[h] = p /\ pc'[h] \in Unanswered)
  BY <1>1, <1>2, <1>9 DEF KeptAt, Running, Unanswered
<1> QED  BY <1>2, <1>7, <1>8, <1>10, <1>11 DEF KeptAt

LEMMA KeptRestart ==
  ASSUME KeptInv, NEW file, Restart(file), NEW q \in Projects, KeptAt(q),
         file[q] = Unknown \/ file[q] = stateFile[q], q \notin forgotten'
  PROVE  KeptAt(q)'
<1>1. /\ projectHistory' = file /\ stateFile' = file /\ restarts' > 0
      /\ UNCHANGED <<project, answered>>
  BY LifecycleAssumption DEF Restart, goalVars, KeptInv, Shape, TypeOK
<1>2. pc' = [g \in Goals |-> IF pc[g] \in Running THEN "lost" ELSE pc[g]]
  BY DEF Restart
<1>3. \A g \in Goals : pc'[g] \notin Running /\ pc'[g] \notin Unanswered
  BY <1>2 DEF Running, Unanswered
<1>4. behind => file[q] = projectHistory[q]
  BY DEF Restart
<1>5. file[q] # Unknown => Complete(stateFile[q].turns, q)' /\ Kept(projectHistory[q].turns, q)'
  BY <1>1, <1>4 DEF KeptAt, Known, Kept, Complete
<1> QED  BY <1>1, <1>3, <1>5 DEF KeptAt, Known

LEMMA KeptNext == KeptInv /\ [Next]_vars => KeptInv'
<1> SUFFICES ASSUME KeptInv, [Next]_vars PROVE KeptInv'
  OBVIOUS
<1>0. Shape'
  BY ShapeNext DEF KeptInv
<1>a. SUFFICES /\ \A q \in Projects : answered'[q] # <<>> => \E g \in Goals : project'[g] = q
               /\ \A q \in Projects \ (overlapped' \cup unsynced' \cup forgotten') : KeptAt(q)'
  BY <1>0 DEF KeptInv, KeptAt
<1> DEFINE Given == \A q \in Projects : answered'[q] # <<>> => \E g \in Goals : project'[g] = q
           Good == \A q \in Projects \ (overlapped' \cup unsynced' \cup forgotten') : KeptAt(q)'
<1>b. UNCHANGED <<project, answered>> => Given
  BY DEF KeptInv
<1>1. ASSUME NEW p \in Projects, RunProject(p) PROVE Given /\ Good
  <2>1. ~ InFlight(p) /\ answered[p] = <<>>
    BY <1>1 DEF RunProject, InFlight, KeptInv
  <2>2. Kept(InitialState.turns, p)
    BY <2>1, InitialIsState DEF Kept, Complete
  <2> QED  BY <1>1, <2>1, <2>2, KeptBegin DEF RunProject
<1>2. ASSUME NEW p \in Projects, ContinueProject(p) PROVE Given /\ Good
  <2>1. p \notin overlapped' => ~ InFlight(p)
    BY <1>2 DEF ContinueProject
  <2>2. overlapped \subseteq overlapped'
    BY <1>2 DEF ContinueProject
  <2>3. p \notin overlapped' \cup unsynced \cup forgotten => Kept(projectHistory[p].turns, p)
    BY <1>2, <2>2, KeptOf DEF ContinueProject, KeptAt
  <2> QED  BY <1>2, <2>1, <2>2, <2>3, KeptBegin DEF ContinueProject
<1>3. ASSUME UNCHANGED <<project, kind, prior, restarts, overlapped, forgotten>>, unsynced \subseteq unsynced',
             \A h \in Goals : /\ pc'[h] \in Running => pc[h] \in Running
                              /\ pc'[h] \in Unanswered => pc[h] \in Unanswered,
             NEW q \in Projects, q \notin overlapped' \cup unsynced' \cup forgotten',
             projectHistory'[q] = projectHistory[q], answered'[q] = answered[q],
             behind' \/ SameFile(q)
      PROVE  KeptAt(q)'
  BY <1>3, KeptOf, KeptStill
<1>4. CASE UNCHANGED vars
  BY <1>3, <1>4, <1>b DEF vars, goalVars, memory, history, disk, SameFile
<1>5. ASSUME NEW g \in Goals, Opened(g) \/ Close(g) \/ CloseFailed(g) PROVE Given /\ Good
  <2>1. \A h \in Goals : h # g => pc'[h] = pc[h]
    BY <1>5 DEF Opened, Close, CloseFailed, KeptInv, Shape, TypeOK
  <2>2. \/ pc[g] = "opening" /\ pc'[g] = "working"
        \/ pc[g] \in {"closing", "failing"} /\ pc'[g] = "done"
    BY <1>5 DEF Opened, Close, CloseFailed, KeptInv, Shape, TypeOK
  <2>3. \A h \in Goals : /\ pc'[h] \in Running => pc[h] \in Running
                         /\ pc'[h] \in Unanswered => pc[h] \in Unanswered
    BY <2>1, <2>2 DEF Running, Unanswered
  <2> QED  BY <1>3, <1>5, <1>b, <2>3 DEF Opened, Close, CloseFailed, goalVars, memory, history, disk, SameFile
<1>6. ASSUME NEW g \in Goals, NEW status \in {"COMPLETED", "FAILED"}, Answer(g, status) PROVE Given /\ Good
  <2> DEFINE p == project[g]
             merged == State(status, MergedTurns(g), prior[g].workspace)
  <2>1. p \in Projects
    BY <1>6 DEF Answer, KeptInv, Shape, CallShape
  <2>2. /\ projectHistory' = [projectHistory EXCEPT ![p] = merged] /\ PersistHistory(Saved(g, merged))
        /\ answered' = [answered EXCEPT ![p] = Append(@, g)]
        /\ pc[g] = "working" /\ pc' = [pc EXCEPT ![g] = "closing"]
    BY <1>6 DEF Answer
  <2>3. UNCHANGED <<project, kind, prior, restarts, overlapped, unsynced, forgotten>>
    BY <1>6 DEF Answer, goalVars
  <2>4. \A q \in Projects : q # p => /\ projectHistory'[q] = projectHistory[q]
                                     /\ behind' \/ SameFile(q)
                                     /\ answered'[q] = answered[q]
    BY <2>2 DEF PersistHistory, SameFile, Saved, KeptInv, Shape, TypeOK
  <2>5. \A h \in Goals : /\ pc'[h] \in Running => pc[h] \in Running
                         /\ pc'[h] \in Unanswered => pc[h] \in Unanswered
    BY <2>2 DEF Running, Unanswered, KeptInv, Shape, TypeOK
  <2>6. Given
    BY <2>3, <2>4 DEF KeptInv
  <2>7. ASSUME NEW q \in Projects, q \notin overlapped' \cup unsynced' \cup forgotten' PROVE KeptAt(q)'
    <3>1. CASE q # p
      BY <1>3, <2>3, <2>4, <2>5, <2>7, <3>1
    <3>2. CASE q = p
      <4>1. KeptAt(p)
        BY <2>1, <2>3, <2>7, <3>2, KeptOf
      <4> QED  BY <1>6, <2>1, <3>2, <4>1, KeptAnswered
    <3> QED  BY <3>1, <3>2
  <2> QED  BY <2>6, <2>7
<1>7. ASSUME NEW g \in Goals, SyncFails(g) PROVE Given /\ Good
  <2> DEFINE p == project[g]
  <2>1. /\ PersistHistory(projectHistory') /\ pc[g] = "closing" /\ pc' = [pc EXCEPT ![g] = "failing"]
        /\ projectHistory' = [projectHistory EXCEPT ![p] = State("FAILED", prior[g].turns, prior[g].workspace)]
        /\ unsynced' = unsynced \cup {p}
    BY <1>7 DEF SyncFails
  <2>2. UNCHANGED <<project, kind, prior, restarts, overlapped, answered, forgotten>>
    BY <1>7 DEF SyncFails, goalVars
  <2>3. \A q \in Projects : q # p => projectHistory'[q] = projectHistory[q] /\ (behind' \/ SameFile(q))
    BY <2>1 DEF PersistHistory, SameFile, KeptInv, Shape, TypeOK
  <2>4. \A h \in Goals : /\ pc'[h] \in Running => pc[h] \in Running
                         /\ pc'[h] \in Unanswered => pc[h] \in Unanswered
    BY <2>1 DEF Running, Unanswered, KeptInv, Shape, TypeOK
  <2>5. ASSUME NEW q \in Projects, q \notin overlapped' \cup unsynced' \cup forgotten' PROVE KeptAt(q)'
    BY <1>3, <2>1, <2>2, <2>3, <2>4, <2>5
  <2> QED  BY <1>b, <2>2, <2>5
<1>8. CASE Restart(stateFile) \/ TornRestart
  <2>1. PICK file : Restart(file) /\ \A q \in Projects : file[q] = Unknown \/ file[q] = stateFile[q]
    BY <1>8 DEF TornRestart, Unreadable
  <2>2. UNCHANGED <<project, answered, overlapped, unsynced>> /\ forgotten \subseteq forgotten'
    BY <2>1 DEF Restart, goalVars
  <2>3. ASSUME NEW q \in Projects, q \notin overlapped' \cup unsynced' \cup forgotten' PROVE KeptAt(q)'
    BY <2>1, <2>2, <2>3, KeptOf, KeptRestart
  <2> QED  BY <1>b, <2>2, <2>3
<1> QED  BY <1>1, <1>2, <1>4, <1>5, <1>6, <1>7, <1>8 DEF Next, Call

\* No turn of a conversation is lost but the first, by a restart, unless two
\* calls overlap, a workspace cannot be copied, or a write of the file fails before
\* a restart.
THEOREM ConversationsAreKept == Spec => []TurnsAreKept
<1>1. Init => KeptInv
  BY ShapeInit, UnknownIsState DEF Init, Unreadable, KeptInv, Known, Running, Unanswered
<1>2. KeptInv /\ [Next]_vars => KeptInv'
  BY KeptNext
<1>3. KeptInv => TurnsAreKept
  BY DEF KeptInv, Kept, Complete, TurnsAreKept
<1> QED  BY <1>1, <1>2, <1>3, PTL DEF Spec

-----------------------------------------------------------------------------
(* The files.                                                              *)

\* With its files the lifecycle does what it does without them.
LEMMA FilesStep == FilesNext => [Next]_vars
BY DEF FilesNext, RunStaged, ContinueStaged, UserWrites, TaskMerges, TaskFails, AnswerReported,
   CloseDelivered, SyncFailsDelivered, RestartStaged, Next, Call

\* A call that runs is the last of its project, unless calls overlapped; one that
\* is failing has left its workspace uncopied.
FlightInv == \A g \in Goals :
  /\ pc[g] \in Running => \A h \in Goals :
       project[h] = project[g] => project[g] \in overlapped \/ h <= g
  /\ pc[g] = "failing" => project[g] \in unsynced

LEMMA FlightBegin ==
  ASSUME Shape, FlightInv, NEW p \in Projects, RunProject(p) \/ ContinueProject(p)
  PROVE  FlightInv'
<1> DEFINE n == given + 1
<1>1. /\ n \in Goals /\ project' = [project EXCEPT ![n] = p]
      /\ pc' = [pc EXCEPT ![n] = "opening"] /\ unsynced' = unsynced
  BY LifecycleAssumption DEF RunProject, ContinueProject, Begin, Goals, Shape, TypeOK
<1>2. /\ project'[n] = p /\ pc'[n] = "opening"
      /\ \A h \in Goals \ {n} : project'[h] = project[h] /\ pc'[h] = pc[h]
  BY <1>1 DEF Shape, TypeOK
<1>3. overlapped \subseteq overlapped'
  BY DEF RunProject, ContinueProject
<1>4. ASSUME NEW h \in Goals \ {n}, project[h] = p
      PROVE  h <= n /\ (pc[h] \in Running => p \in overlapped')
  <2>1. h <= n
    BY <1>1, <1>4, LifecycleAssumption DEF Shape, CallShape, TypeOK, Goals
  <2>2. ASSUME pc[h] \in Running PROVE p \in overlapped'
    BY <1>4, <2>2 DEF RunProject, ContinueProject, InFlight
  <2> QED  BY <2>1, <2>2
<1>5. n <= n
  BY <1>1 DEF Goals
<1>6. ASSUME NEW g \in Goals, pc'[g] \in Running, NEW h \in Goals, project'[h] = project'[g]
      PROVE  project'[g] \in overlapped' \/ h <= g
  <2>1. CASE g = n
    BY <1>2, <1>4, <1>5, <1>6, <2>1
  <2>2. CASE g # n /\ h = n
    BY <1>2, <1>4, <1>6, <2>2
  <2>3. CASE g # n /\ h # n
    BY <1>2, <1>3, <1>6, <2>3 DEF FlightInv
  <2> QED  BY <2>1, <2>2, <2>3
<1>7. ASSUME NEW g \in Goals, pc'[g] = "failing" PROVE project'[g] \in unsynced'
  BY <1>1, <1>2, <1>7 DEF FlightInv
<1> QED  BY <1>6, <1>7 DEF FlightInv

LEMMA FlightNext == Shape /\ FlightInv /\ [Next]_vars => FlightInv'
<1> SUFFICES ASSUME Shape, FlightInv, [Next]_vars PROVE FlightInv'
  OBVIOUS
<1>1. ASSUME project' = project, overlapped' = overlapped, unsynced \subseteq unsynced',
             \A g \in Goals : pc'[g] \in Running => pc[g] \in Running,
             \A g \in Goals : pc'[g] = "failing" => pc[g] = "failing" \/ project[g] \in unsynced'
      PROVE  FlightInv'
  BY <1>1 DEF FlightInv
<1>2. ASSUME NEW p \in Projects, RunProject(p) \/ ContinueProject(p) PROVE FlightInv'
  BY <1>2, FlightBegin
<1>3. ASSUME NEW g \in Goals, NEW status, Opened(g) \/ Answer(g, status) \/ Close(g) \/ CloseFailed(g)
      PROVE  FlightInv'
  <2>1. /\ pc[g] \in Running /\ project' = project /\ overlapped' = overlapped /\ unsynced' = unsynced
        /\ \E to \in {"working", "closing", "done"} : pc' = [pc EXCEPT ![g] = to]
    BY <1>3 DEF Opened, Answer, Close, CloseFailed, goalVars, history, Running
  <2> QED  BY <1>1, <2>1 DEF Shape, TypeOK
<1>4. ASSUME NEW g \in Goals, SyncFails(g) PROVE FlightInv'
  <2>1. /\ pc[g] \in Running /\ project' = project /\ overlapped' = overlapped
        /\ unsynced' = unsynced \cup {project[g]} /\ pc' = [pc EXCEPT ![g] = "failing"]
    BY <1>4 DEF SyncFails, goalVars, Running
  <2> QED  BY <1>1, <2>1 DEF Shape, TypeOK
<1>5. CASE Restart(stateFile) \/ TornRestart
  <2>1. /\ project' = project /\ overlapped' = overlapped /\ unsynced' = unsynced
        /\ pc' = [g \in Goals |-> IF pc[g] \in Running THEN "lost" ELSE pc[g]]
    BY <1>5 DEF Restart, TornRestart, goalVars, history
  <2> QED  BY <1>1, <2>1 DEF Running
<1>6. CASE UNCHANGED vars
  BY <1>1, <1>6 DEF vars, goalVars, history
<1> QED  BY <1>2, <1>3, <1>4, <1>5, <1>6 DEF Next, Call

\* The target folder of p has what was merged, or what the user wrote over it.
IsFresh(p) == \A f \in Files : staging[p][f] # Nothing => target[p][f] \in {staging[p][f], Users}

\* Calls of p that know the workspace; one of them, the last unless they overlap,
\* still has to deliver, or was lost.
Knowing(p) == {g \in Goals : project[g] = p /\ prior[g].workspace}
IsOwed(p) == \E g \in Knowing(p) :
  pc[g] # "done" /\ (p \in overlapped \/ \A h \in Knowing(p) : h <= g)

\* Between its deliveries the target falls behind only as long as one is owed.
Due(p) == p \in unsynced \/ IsFresh(p) \/ IsOwed(p)
Folders ==
  /\ staging = [p \in Projects |-> staging[p]]
  /\ target = [p \in Projects |-> [f \in Files |-> target[p][f]]]
DeliveryInv == Shape /\ FlightInv /\ Folders /\ \A p \in Projects : Due(p)

LEMMA FoldersNext == Folders /\ [FilesNext]_<<vars, fileVars>> => Folders'
<1> SUFFICES ASSUME Folders, [FilesNext]_<<vars, fileVars>> PROVE Folders'
  OBVIOUS
<1>1. CASE UNCHANGED <<staging, target>>
  BY <1>1 DEF Folders
<1>2. ASSUME NEW p \in Projects, RunStaged(p) PROVE Folders'
  BY <1>2 DEF RunStaged, Folders
<1>3. ASSUME NEW p \in Projects, NEW f \in Files, UserWrites(p, f) PROVE Folders'
  <2>1. staging' = staging /\ target' = [target EXCEPT ![p][f] = Users]
    BY <1>3 DEF UserWrites
  <2> QED  BY <2>1 DEF Folders
<1>4. ASSUME NEW g \in Goals, NEW t \in Tasks, NEW f \in Files, TaskMerges(g, t, f) PROVE Folders'
  <2>1. staging' = [staging EXCEPT ![project[g]][f] = Work(g, t, TRUE)] /\ target' = target
    BY <1>4 DEF TaskMerges
  <2>2. staging' = [p \in Projects |-> staging'[p]]
    BY <2>1 DEF Folders
  <2>3. target' = [p \in Projects |-> [e \in Files |-> target'[p][e]]]
    BY <2>1 DEF Folders
  <2> QED  BY <2>2, <2>3 DEF Folders
<1>5. ASSUME NEW g \in Goals, CloseDelivered(g) PROVE Folders'
  <2>1. staging' = staging
    BY <1>5 DEF CloseDelivered
  <2>2. CASE prior[g].workspace
    <3>1. PICK delivery \in Written(g) :
            target' = [target EXCEPT ![project[g]] = Delivered(project[g], delivery)]
      BY <1>5, <2>2 DEF CloseDelivered
    <3>2. Delivered(project[g], delivery) = [f \in Files |-> Delivered(project[g], delivery)[f]]
      BY DEF Delivered, CopyTree
    <3>3. target' = [p \in Projects |-> [f \in Files |-> target'[p][f]]]
      BY <3>1, <3>2 DEF Folders
    <3> QED  BY <2>1, <3>3 DEF Folders
  <2>3. CASE ~ prior[g].workspace
    BY <1>1, <1>5, <2>1, <2>3 DEF CloseDelivered
  <2> QED  BY <2>2, <2>3
<1>6. ASSUME NEW g \in Goals, SyncFailsDelivered(g) PROVE Folders'
  <2>1. PICK delivery \in Written(g), some \in SUBSET Files :
          target' = [target EXCEPT ![project[g]] =
            [f \in Files |-> IF f \in some THEN Delivered(project[g], delivery)[f]
                                           ELSE CopyTree(delivery, @)[f]]]
    BY <1>6 DEF SyncFailsDelivered
  <2>2. staging' = staging
    BY <1>6 DEF SyncFailsDelivered
  <2> QED  BY <2>1, <2>2 DEF Folders
<1> QED
  BY <1>1, <1>2, <1>3, <1>4, <1>5, <1>6
  DEF FilesNext, ContinueStaged, TaskFails, AnswerReported, RestartStaged, fileVars

\* A step that takes nothing back.
LEMMA DueStill ==
  ASSUME NEW p \in Projects, Due(p), UNCHANGED <<project, prior>>,
         p \in unsynced => p \in unsynced', p \in overlapped => p \in overlapped',
         \A h \in Goals : pc'[h] = "done" => h \notin Knowing(p) \/ pc[h] = "done",
         IsFresh(p) => IsFresh(p)'
  PROVE  Due(p)'
<1>1. IsOwed(p) => IsOwed(p)'
  BY DEF IsOwed, Knowing
<1> QED  BY <1>1 DEF Due

\* A new call, the last of its project, owes it a delivery.
LEMMA DueBegin ==
  ASSUME DeliveryInv, NEW p \in Projects, RunStaged(p) \/ ContinueStaged(p), NEW q \in Projects
  PROVE  Due(q)'
<1> DEFINE n == given + 1
<1>1. /\ n \in Goals /\ project' = [project EXCEPT ![n] = p]
      /\ pc' = [pc EXCEPT ![n] = "opening"] /\ unsynced' = unsynced
      /\ \E state : prior' = [prior EXCEPT ![n] = state]
  <2>1. PICK how, state : Begin(p, how, state)
    BY DEF RunStaged, ContinueStaged, RunProject, ContinueProject
  <2>2. n \in Goals
    BY <2>1, LifecycleAssumption DEF Begin, Goals, DeliveryInv, Shape, TypeOK
  <2> QED  BY <2>1, <2>2 DEF Begin
<1>2. /\ project'[n] = p /\ pc'[n] = "opening"
      /\ \A h \in Goals \ {n} : project'[h] = project[h] /\ pc'[h] = pc[h] /\ prior'[h] = prior[h]
  BY <1>1 DEF DeliveryInv, Shape, TypeOK
<1>3. overlapped \subseteq overlapped'
  BY DEF RunStaged, ContinueStaged, RunProject, ContinueProject
<1>4. \A h \in Goals : project[h] \in Projects => h <= n /\ h # n
  BY <1>1, LifecycleAssumption DEF DeliveryInv, Shape, CallShape, TypeOK, Goals
<1>5. n <= n
  BY <1>1 DEF Goals
<1>6. n \notin Knowing(q)
  BY <1>4 DEF Knowing
<1>7. CASE n \in Knowing(q)'
  <2>1. \A h \in Knowing(q)' : h <= n
    BY <1>2, <1>4, <1>5, <1>7 DEF Knowing
  <2>2. IsOwed(q)'
    BY <1>1, <1>2, <1>7, <2>1 DEF IsOwed, Knowing
  <2> QED  BY <2>2 DEF Due
<1>8. CASE n \notin Knowing(q)'
  <2>1. Knowing(q)' = Knowing(q)
    BY <1>2, <1>6, <1>8 DEF Knowing
  <2>2. IsOwed(q) => IsOwed(q)'
    <3>1. ASSUME NEW g \in Knowing(q), pc[g] # "done",
                 q \in overlapped \/ \A h \in Knowing(q) : h <= g
          PROVE  IsOwed(q)'
      <4>1. g \in Goals \ {n}
        BY <1>6 DEF Knowing
      <4>2. pc'[g] # "done"
        BY <1>2, <3>1, <4>1
      <4> QED  BY <1>3, <2>1, <3>1, <4>2 DEF IsOwed
    <3> QED  BY <3>1 DEF IsOwed
  <2>3. IsFresh(q) => IsFresh(q)'
    BY DEF RunStaged, ContinueStaged, IsFresh, DeliveryInv, Folders
  <2> QED  BY <1>1, <2>2, <2>3 DEF Due, DeliveryInv
<1> QED  BY <1>7, <1>8

LEMMA DeliveryNext == DeliveryInv /\ [FilesNext]_<<vars, fileVars>> => DeliveryInv'
<1> SUFFICES ASSUME DeliveryInv, [FilesNext]_<<vars, fileVars>> PROVE DeliveryInv'
  OBVIOUS
<1>1. [Next]_vars
  BY FilesStep
<1>2. Shape' /\ FlightInv' /\ Folders'
  BY <1>1, ShapeNext, FlightNext, FoldersNext DEF DeliveryInv
<1> SUFFICES ASSUME NEW q \in Projects PROVE Due(q)'
  BY <1>2 DEF DeliveryInv
<1> USE DEF DeliveryInv
<1>a. ASSUME UNCHANGED <<project, prior, staging, target, overlapped>>, unsynced \subseteq unsynced',
             \A h \in Goals : pc'[h] = "done" => h \notin Knowing(q) \/ pc[h] = "done"
      PROVE  Due(q)'
  BY <1>a, DueStill DEF IsFresh
<1>3. CASE UNCHANGED <<vars, fileVars>>
  BY <1>3, <1>a DEF vars, fileVars, goalVars, history
<1>4. ASSUME NEW p \in Projects, RunStaged(p) \/ ContinueStaged(p) PROVE Due(q)'
  BY <1>4, DueBegin
<1>5. ASSUME NEW p \in Projects, NEW f \in Files, UserWrites(p, f) PROVE Due(q)'
  <2>1. target' = [target EXCEPT ![p][f] = Users] /\ staging' = staging
        /\ UNCHANGED <<project, prior, pc, overlapped, unsynced>>
    BY <1>5 DEF UserWrites, vars, goalVars, history
  <2>2. \A e \in Files : target'[q][e] \in {target[q][e], Users}
    BY <2>1 DEF Folders
  <2>3. IsFresh(q) => IsFresh(q)'
    BY <2>1, <2>2 DEF IsFresh
  <2> QED  BY <2>1, <2>3, DueStill
<1>6. ASSUME NEW g \in Goals, NEW t \in Tasks, NEW f \in Files, TaskMerges(g, t, f) PROVE Due(q)'
  <2>1. /\ pc[g] = "working" /\ prior[g].workspace
        /\ staging' = [staging EXCEPT ![project[g]][f] = Work(g, t, TRUE)] /\ target' = target
        /\ UNCHANGED <<project, prior, pc, overlapped, unsynced>>
    BY <1>6 DEF TaskMerges, vars, goalVars, history
  <2>2. CASE q = project[g]
    <3>1. g \in Knowing(q) /\ \A h \in Knowing(q) : q \in overlapped \/ h <= g
      BY <2>1, <2>2 DEF Knowing, FlightInv, Running
    <3>2. IsOwed(q)'
      BY <2>1, <3>1 DEF IsOwed, Knowing
    <3> QED  BY <3>2 DEF Due
  <2>3. CASE q # project[g]
    <3>1. staging'[q] = staging[q]
      BY <2>1, <2>3 DEF Folders
    <3>2. IsFresh(q) => IsFresh(q)'
      BY <2>1, <3>1 DEF IsFresh
    <3> QED  BY <2>1, <3>2, DueStill
  <2> QED  BY <2>2, <2>3
<1>7. ASSUME NEW g \in Goals, NEW t \in Tasks, NEW f \in Files, TaskFails(g, t, f) PROVE Due(q)'
  BY <1>7, <1>a DEF TaskFails, vars, goalVars, history
<1>8. ASSUME NEW g \in Goals, Opened(g), UNCHANGED fileVars PROVE Due(q)'
  <2>1. pc' = [pc EXCEPT ![g] = "working"] /\ UNCHANGED <<project, prior, overlapped, unsynced>>
    BY <1>8 DEF Opened, goalVars, history
  <2>2. \A h \in Goals : pc'[h] = "done" => pc[h] = "done"
    BY <2>1 DEF Shape, TypeOK
  <2> QED  BY <1>8, <1>a, <2>1, <2>2 DEF fileVars
<1>9. ASSUME NEW g \in Goals, NEW status, AnswerReported(g, status) PROVE Due(q)'
  <2>1. pc' = [pc EXCEPT ![g] = "closing"]
        /\ UNCHANGED <<project, prior, overlapped, unsynced, staging, target>>
    BY <1>9 DEF AnswerReported, Answer, goalVars
  <2>2. \A h \in Goals : pc'[h] = "done" => pc[h] = "done"
    BY <2>1 DEF Shape, TypeOK
  <2> QED  BY <1>a, <2>1, <2>2
<1>10. ASSUME NEW g \in Goals, CloseFailed(g), UNCHANGED fileVars PROVE Due(q)'
  <2>1. /\ pc[g] = "failing" /\ pc' = [pc EXCEPT ![g] = "done"]
        /\ UNCHANGED <<project, prior, overlapped, unsynced>>
    BY <1>10 DEF CloseFailed, goalVars
  <2>2. CASE q = project[g]
    BY <2>1, <2>2 DEF FlightInv, Due
  <2>3. CASE q # project[g]
    <3>1. \A h \in Goals : pc'[h] = "done" => h \notin Knowing(q) \/ pc[h] = "done"
      BY <2>1, <2>3 DEF Shape, TypeOK, Knowing
    <3> QED  BY <1>10, <1>a, <2>1, <3>1 DEF fileVars
  <2> QED  BY <2>2, <2>3
<1>11. ASSUME NEW g \in Goals, CloseDelivered(g) PROVE Due(q)'
  <2>1. /\ pc' = [pc EXCEPT ![g] = "done"] /\ staging' = staging
        /\ UNCHANGED <<project, prior, overlapped, unsynced>>
    BY <1>11 DEF CloseDelivered, Close, goalVars
  <2>2. \A h \in Goals \ {g} : pc'[h] = pc[h]
    BY <2>1 DEF Shape, TypeOK
  <2>3. CASE ~ prior[g].workspace
    <3>1. \A h \in Goals : pc'[h] = "done" => h \notin Knowing(q) \/ pc[h] = "done"
      BY <2>2, <2>3 DEF Knowing
    <3>2. target' = target
      BY <1>11, <2>3 DEF CloseDelivered
    <3> QED  BY <1>a, <2>1, <3>1, <3>2
  <2>4. CASE prior[g].workspace
    <3>1. PICK delivery \in Written(g) :
            target' = [target EXCEPT ![project[g]] = Delivered(project[g], delivery)]
      BY <1>11, <2>4 DEF CloseDelivered
    <3>2. CASE q = project[g]
      <4>1. target'[q] = Delivered(q, delivery)
        BY <3>1, <3>2 DEF Folders
      <4>2. IsFresh(q)'
        BY <2>1, <4>1 DEF IsFresh, Delivered, CopyTree
      <4> QED  BY <4>2 DEF Due
    <3>3. CASE q # project[g]
      <4>1. target'[q] = target[q]
        BY <3>1, <3>3 DEF Folders
      <4>2. IsFresh(q) => IsFresh(q)'
        BY <2>1, <4>1 DEF IsFresh
      <4>3. \A h \in Goals : pc'[h] = "done" => h \notin Knowing(q) \/ pc[h] = "done"
        BY <2>2, <3>3 DEF Knowing
      <4> QED  BY <2>1, <4>2, <4>3, DueStill
    <3> QED  BY <3>2, <3>3
  <2> QED  BY <2>3, <2>4
<1>12. ASSUME NEW g \in Goals, SyncFailsDelivered(g) PROVE Due(q)'
  <2>1. /\ pc' = [pc EXCEPT ![g] = "failing"] /\ staging' = staging
        /\ unsynced' = unsynced \cup {project[g]}
        /\ UNCHANGED <<project, prior, overlapped>>
    BY <1>12 DEF SyncFailsDelivered, SyncFails, goalVars
  <2>2. CASE q = project[g]
    BY <2>1, <2>2 DEF Due
  <2>3. CASE q # project[g]
    <3>1. target'[q] = target[q]
      BY <1>12, <2>3 DEF SyncFailsDelivered, Folders
    <3>2. IsFresh(q) => IsFresh(q)'
      BY <2>1, <3>1 DEF IsFresh
    <3>3. \A h \in Goals : pc'[h] = "done" => pc[h] = "done"
      BY <2>1 DEF Shape, TypeOK
    <3> QED  BY <2>1, <3>2, <3>3, DueStill
  <2> QED  BY <2>2, <2>3
<1>13. CASE RestartStaged
  <2>1. /\ pc' = [g \in Goals |-> IF pc[g] \in Running THEN "lost" ELSE pc[g]]
        /\ UNCHANGED <<project, prior, overlapped, unsynced, staging, target>>
    BY <1>13 DEF RestartStaged, TornRestart, Restart, goalVars, history
  <2>2. \A h \in Goals : pc'[h] = "done" => pc[h] = "done"
    BY <2>1
  <2> QED  BY <1>a, <2>1, <2>2
<1> QED
  BY <1>3, <1>4, <1>5, <1>6, <1>7, <1>8, <1>9, <1>10, <1>11, <1>12, <1>13 DEF FilesNext

LEMMA DeliveryInit == Init /\ FilesInit => DeliveryInv
<1> SUFFICES ASSUME Init, FilesInit PROVE DeliveryInv
  OBVIOUS
<1>1. Shape
  BY ShapeInit
<1>2. FlightInv
  BY DEF Init, FlightInv, Running
<1>3. Folders
  BY DEF FilesInit, Folders
<1>4. \A p \in Projects : Due(p)
  BY DEF FilesInit, NoFiles, Due, IsFresh
<1> QED  BY <1>1, <1>2, <1>3, <1>4 DEF DeliveryInv

LEMMA DeliveryIsMerged == DeliveryInv => DeliveredIsMerged
<1> SUFFICES ASSUME DeliveryInv, NEW p \in Projects, Settled(p)
             PROVE  \A f \in Files : staging[p][f] # Nothing => target[p][f] \in {staging[p][f], Users}
  BY DEF DeliveredIsMerged
<1>1. ~ IsOwed(p)
  <2> SUFFICES ASSUME NEW g \in Knowing(p), pc[g] # "done",
                      p \in overlapped \/ \A h \in Knowing(p) : h <= g
               PROVE  FALSE
    BY DEF IsOwed
  <2>1. PICK h \in Knowing(p) : p \notin overlapped /\ pc[h] = "done" /\ \A k \in Knowing(p) : k <= h
    BY DEF Settled, Knowing
  <2>2. g \in Nat /\ h \in Nat /\ g <= h /\ h <= g
    BY <2>1, LifecycleAssumption DEF Knowing, Goals
  <2> QED  BY <2>1, <2>2
<1> QED  BY <1>1 DEF DeliveryInv, Due, IsFresh, Settled

\* The files change nothing that a call does: what holds of the lifecycle holds with them.
THEOREM FilesFollowTheCalls == FilesSpec => Spec
<1>1. [FilesNext]_<<vars, fileVars>> => [Next]_vars
  BY FilesStep DEF vars
<1> QED  BY <1>1, PTL DEF FilesSpec, Spec

\* Behind the last call of a project the user has what was verified and merged,
\* for any number of files, tasks, projects and goals.
THEOREM MergedWorkIsDelivered == FilesSpec => []DeliveredIsMerged
<1> QED  BY DeliveryInit, DeliveryNext, DeliveryIsMerged, PTL DEF FilesSpec

-----------------------------------------------------------------------------
(* How a goal becomes a plan (GoalPlanning).                               *)

\* What a plan's modules can be called.
Names == Recognized \cup {"general"} \cup AdrTitles

\* A set of modules that a call whose title has some key may have found.
FoundFor(named, k) ==
  /\ named # {} /\ named \subseteq Names
  /\ \E d \in Calls : /\ KeyOf[goal[d].title] = k
                      /\ ExtractModules(goal[d].hits) \subseteq named
                      /\ named \subseteq ExtractModules(goal[d].hits) \cup AdrTitles

\* A decision with a row; its own one, if its call is alone in its millisecond.
Recorded(d) ==
  /\ \E c \in Calls : \E g : \E i \in Nat \ {0} : d = [id |-> <<g, i>>, by |-> c]
  /\ \E r \in adrs : r.id = d.id
  /\ Alone(d) => d \in adrs
Persisted(set) == set # {} /\ \A d \in set : Recorded(d)

\* What was recorded stays so; calls that began do not begin again.
KeepsRecords == \A d : Recorded(d) => Recorded(d)'
Continue == \A c \in Calls : phase[c] # "idle" => phase'[c] # "idle" /\ goalId'[c] = goalId[c]

PlannerTyped ==
  /\ goal \in [Calls -> [title : Titles, hits : SUBSET Recognized]]
  /\ phase = [c \in Calls |-> phase[c]] /\ goalId = [c \in Calls |-> goalId[c]]
  /\ modules = [c \in Calls |-> modules[c]] /\ decisions = [c \in Calls |-> decisions[c]]
  /\ written = [c \in Calls |-> written[c]]
  /\ goalCache = [k \in Keys |-> goalCache[k]] /\ archCache = [k \in Keys |-> archCache[k]]

CachesInv ==
  \A k \in Keys : /\ goalCache[k].found => FoundFor(goalCache[k].modules, k)
                  /\ archCache[k].found => Persisted(archCache[k].decisions)

\* Of the decisions that are being written, the first ones are.
Designed(c) ==
  \E n \in Nat \ {0} :
    /\ decisions[c] = {Decision(c, i) : i \in 1..n}
    /\ written[c] \in 0..n
    /\ \A i \in 1..written[c] : Recorded(Decision(c, i))

Decided == {"decided", "reasoning", "storing", "done"}

CallInv(c) ==
  /\ phase[c] \in {"idle", "reading", "analyzed", "designing", "failed"} \cup Decided
  /\ phase[c] \in {"idle", "reading", "analyzed"} => written[c] = 0
  /\ phase[c] \in {"analyzed", "designing"} \cup Decided => FoundFor(modules[c], KeyOf[goal[c].title])
  /\ phase[c] = "designing" => Designed(c)
  /\ phase[c] \in Decided => Persisted(decisions[c])

PlannerInv == PlannerTyped /\ CachesInv /\ \A c \in Calls : CallInv(c)

LEMMA PlannerStart ==
  ASSUME PlanningInit PROVE PlannerInv
<1> USE DEF PlanningInit
<1>1. PlannerTyped
  BY GoalsAssumption DEF PlannerTyped
<1>2. \A k \in Keys : ~goalCache[k].found /\ ~archCache[k].found
  BY DEF NothingFound
<1>3. \A c \in Calls : CallInv(c)
  BY DEF CallInv, Decided
<1> QED  BY <1>1, <1>2, <1>3 DEF PlannerInv, CachesInv

LEMMA NamesAreFinite == IsFiniteSet(Names)
<1>1. \A S, x : IsFiniteSet(S) => IsFiniteSet(S \cup {x})
  BY FS_AddElement
<1>2. IsFiniteSet({} \cup {"auth"} \cup {"api"} \cup {"database"} \cup {"frontend"} \cup {"testing"}
                     \cup {"devops"})
  BY <1>1, FS_EmptySet, Zenon
<1>3. IsFiniteSet({} \cup {"auth"} \cup {"api"} \cup {"database"} \cup {"frontend"} \cup {"testing"}
                     \cup {"devops"} \cup {"security"} \cup {"config"} \cup {"middleware"}
                     \cup {"documentation"} \cup {"general"})
  BY <1>1, <1>2, Zenon
<1>4. IsFiniteSet(Recognized \cup {"general"})
  <2>1. {} \cup {"auth"} \cup {"api"} \cup {"database"} \cup {"frontend"} \cup {"testing"}
           \cup {"devops"} \cup {"security"} \cup {"config"} \cup {"middleware"}
           \cup {"documentation"} \cup {"general"} = Recognized \cup {"general"}
    BY DEF Recognized
  <2> QED  BY <1>3, <2>1
<1> QED  BY <1>4, FS_Union, GoalsAssumption DEF Names

\* As many decisions are made as there are modules, and there are some.
LEMMA SomeDecisions ==
  ASSUME NEW named, named # {}, named \subseteq Names
  PROVE  Cardinality(named) \in Nat \ {0}
<1>1. IsFiniteSet(named)
  BY NamesAreFinite, FS_Subset
<1> QED  BY <1>1, FS_CardinalityType, FS_EmptySet

LEMMA DecisionsCounted ==
  ASSUME NEW n \in Nat, NEW c
  PROVE  Cardinality({Decision(c, i) : i \in 1..n}) = n
<1> DEFINE pairs == {Decision(c, i) : i \in 1..n}  f == [i \in 1..n |-> Decision(c, i)]
<1>0. \A i, j \in 1..n : Decision(c, i) = Decision(c, j) => i = j
  <2>1. \A i \in 1..n : Decision(c, i).id[2] = i
    BY DEF Decision
  <2> QED  BY <2>1
<1>1. f \in Bijection(1..n, pairs)
  BY <1>0 DEF Bijection, Injection, Surjection, IsInjective
<1>2. IsFiniteSet(1..n) /\ Cardinality(1..n) = n
  BY FS_Interval
<1>3. ExistsBijection(1..n, pairs)
  BY <1>1 DEF ExistsBijection
<1> HIDE DEF pairs
<1>4. Cardinality(pairs) = Cardinality(1..n)
  BY <1>2, <1>3, FS_Bijection
<1> QED  BY <1>2, <1>4 DEF pairs

\* A call that was alone in its millisecond before, was so all the time.
LEMMA AloneBefore ==
  ASSUME Continue, NEW d, Alone(d)' PROVE Alone(d)
BY DEF Continue, Alone

LEMMA RowsStay ==
  ASSUME Continue, adrs' = adrs PROVE KeepsRecords
<1> SUFFICES ASSUME NEW d, Recorded(d) PROVE Recorded(d)'
  BY DEF KeepsRecords
<1> QED  BY AloneBefore DEF Recorded

\* A row that is written replaces one of the same identifier, so one of a call of
\* the same millisecond.
LEMMA RowWritten ==
  ASSUME Continue, NEW c \in Calls, NEW g, NEW i \in Nat, NEW row,
         row = [id |-> <<g, i>>, by |-> c], adrs' = Upsert(adrs, row),
         i = 0 \/ (g = goalId[c] /\ phase[c] # "idle")
  PROVE  KeepsRecords /\ (i # 0 => Recorded(row)')
<1>1. row \in adrs' /\ \A r \in adrs : r.id # row.id => r \in adrs'
  BY DEF Upsert
<1>2. row.id = <<g, i>> /\ row.by = c
  OBVIOUS
<1>3. i # 0 => Recorded(row)'
  BY <1>1, <1>2 DEF Recorded
<1>4. ASSUME NEW d, Recorded(d) PROVE Recorded(d)'
  <2>1. PICK e \in Calls : \E h : \E j \in Nat \ {0} : d = [id |-> <<h, j>>, by |-> e]
    BY <1>4 DEF Recorded
  <2>2. PICK h : \E j \in Nat \ {0} : d = [id |-> <<h, j>>, by |-> e]
    BY <2>1
  <2>3. PICK j \in Nat \ {0} : d = [id |-> <<h, j>>, by |-> e]
    BY <2>2
  <2>4. d.id = <<h, j>> /\ d.by = e
    BY <2>3
  <2>5. /\ \E r \in adrs : r.id = d.id
        /\ Alone(d)' => d \in adrs
    BY <1>4, AloneBefore DEF Recorded
  <2>6. CASE d.id # row.id
    BY <1>1, <2>1, <2>5, <2>6 DEF Recorded
  <2>7. CASE d.id = row.id
    <3>1. h = g /\ j = i /\ g = goalId[c] /\ phase[c] # "idle"
      BY <1>2, <2>4, <2>7
    <3>2. CASE e = c
      <4>1. d = row
        BY <2>3, <3>1, <3>2
      <4> QED  BY <1>3, <3>1, <4>1
    <3>3. CASE e # c
      <4>1. ~Alone(d)'
        BY <2>4, <3>1, <3>3 DEF Alone, Continue
      <4> QED  BY <1>1, <2>1, <2>7, <4>1 DEF Recorded
    <3> QED  BY <3>2, <3>3
  <2> QED  BY <2>6, <2>7
<1> QED  BY <1>3, <1>4 DEF KeepsRecords

\* Where the caches and the goals stay and no decision is lost, the other
\* calls do not notice.
LEMMA CallStays ==
  ASSUME NEW c \in Calls, CallInv(c), goal' = goal, KeepsRecords,
         phase'[c] = phase[c], goalId'[c] = goalId[c], modules'[c] = modules[c],
         decisions'[c] = decisions[c], written'[c] = written[c]
  PROVE  CallInv(c)'
<1>1. FoundFor(modules[c], KeyOf[goal[c].title]) => FoundFor(modules[c], KeyOf[goal[c].title])'
  BY DEF FoundFor
<1>2. Persisted(decisions[c]) => Persisted(decisions[c])'
  BY DEF Persisted, KeepsRecords
<1>3. Designed(c) => Designed(c)'
  <2>1. \A i : Decision(c, i)' = Decision(c, i)
    BY DEF Decision
  <2> QED  BY <2>1 DEF Designed, KeepsRecords
<1> QED  BY <1>1, <1>2, <1>3 DEF CallInv

LEMMA OneCallMoves ==
  ASSUME PlannerInv, NEW c \in Calls, goal' = goal, KeepsRecords,
         PlannerTyped', CachesInv', CallInv(c)',
         \A d \in Calls \ {c} : /\ phase'[d] = phase[d] /\ goalId'[d] = goalId[d]
                                /\ modules'[d] = modules[d] /\ decisions'[d] = decisions[d]
                                /\ written'[d] = written[d]
  PROVE  PlannerInv'
<1>1. ASSUME NEW d \in Calls \ {c} PROVE CallInv(d)'
  BY CallStays DEF PlannerInv
<1> QED  BY <1>1 DEF PlannerInv

LEMMA CachesStay ==
  ASSUME CachesInv, goal' = goal, KeepsRecords, UNCHANGED caches
  PROVE  CachesInv'
<1>1. goalCache' = goalCache /\ archCache' = archCache
  BY DEF caches
<1>2. ASSUME NEW k \in Keys
      PROVE  /\ (goalCache[k].found => FoundFor(goalCache[k].modules, k))'
             /\ (archCache[k].found => Persisted(archCache[k].decisions))'
  <2>1. /\ goalCache[k].found => FoundFor(goalCache[k].modules, k)
        /\ archCache[k].found => Persisted(archCache[k].decisions)
    BY DEF CachesInv
  <2> QED  BY <1>1, <2>1 DEF FoundFor, Persisted, KeepsRecords
<1> QED  BY <1>2 DEF CachesInv

LEMMA BeginPlanning ==
  ASSUME PlannerInv, NEW c \in Calls, StartPlanning(c)
  PROVE  PlannerInv'
<1> DEFINE t == KeyOf[goal[c].title]  entry == goalCache[t]
<1>1. /\ phase[c] = "idle" /\ goal' = goal /\ adrs' = adrs
      /\ goalId' = [goalId EXCEPT ![c] = now]
      /\ UNCHANGED <<decisions, written>> /\ UNCHANGED caches
      /\ IF entry.found
         THEN phase' = [phase EXCEPT ![c] = "analyzed"] /\ modules' = [modules EXCEPT ![c] = entry.modules]
         ELSE phase' = [phase EXCEPT ![c] = "reading"] /\ UNCHANGED modules
  BY DEF StartPlanning, Goes, HashGoal
<1>2. t \in Keys
  BY GoalsAssumption DEF PlannerInv, PlannerTyped
<1>3. PlannerTyped'
  BY <1>1 DEF PlannerInv, PlannerTyped, caches
<1>10. KeepsRecords
  <2>1. Continue
    BY <1>1 DEF PlannerInv, PlannerTyped, Continue
  <2> QED  BY <1>1, <2>1, RowsStay
<1>4. CachesInv'
  BY <1>1, <1>10, CachesStay DEF PlannerInv
<1>5. \A d \in Calls \ {c} : /\ phase'[d] = phase[d] /\ goalId'[d] = goalId[d]
                             /\ modules'[d] = modules[d] /\ decisions'[d] = decisions[d]
                             /\ written'[d] = written[d]
  BY <1>1 DEF PlannerInv, PlannerTyped
<1>6. written'[c] = 0
  BY <1>1 DEF PlannerInv, CallInv
<1>7. CallInv(c)'
  <2>1. CASE entry.found
    <3>1. phase'[c] = "analyzed" /\ modules'[c] = entry.modules
      BY <1>1, <2>1 DEF PlannerInv, PlannerTyped
    <3>2. FoundFor(entry.modules, t)
      BY <1>2, <2>1 DEF PlannerInv, CachesInv
    <3>3. FoundFor(modules[c], KeyOf[goal[c].title])'
      BY <1>1, <3>1, <3>2 DEF FoundFor
    <3> QED  BY <1>6, <3>1, <3>3 DEF CallInv, Decided
  <2>2. CASE ~entry.found
    <3>1. phase'[c] = "reading"
      BY <1>1, <2>2 DEF PlannerInv, PlannerTyped
    <3> QED  BY <1>6, <3>1 DEF CallInv, Decided
  <2> QED  BY <2>1, <2>2
<1> QED  BY <1>1, <1>3, <1>4, <1>5, <1>7, <1>10, OneCallMoves

LEMMA AnalyzeStep ==
  ASSUME PlannerInv, NEW c \in Calls, Analyze(c)
  PROVE  PlannerInv'
<1> DEFINE t == KeyOf[goal[c].title]
<1>1. PICK reused \in SUBSET AdrTitles :
        LET named == ExtractModules(goal[c].hits) \cup reused
        IN /\ modules' = [modules EXCEPT ![c] = named]
           /\ goalCache' = [goalCache EXCEPT ![t] = [found |-> TRUE, modules |-> named]]
  BY DEF Analyze, HashGoal
<1> DEFINE named == ExtractModules(goal[c].hits) \cup reused
           entry == [found |-> TRUE, modules |-> named]
<1>2. /\ phase[c] = "reading" /\ phase' = [phase EXCEPT ![c] = "analyzed"]
      /\ modules' = [modules EXCEPT ![c] = named] /\ goalCache' = [goalCache EXCEPT ![t] = entry]
      /\ UNCHANGED <<goal, goalId, decisions, written, archCache, adrs>>
  BY <1>1 DEF Analyze, Goes
<1>3. t \in Keys /\ goal[c].hits \subseteq Recognized
  BY GoalsAssumption DEF PlannerInv, PlannerTyped
<1>10. KeepsRecords
  <2>1. Continue
    BY <1>2 DEF PlannerInv, PlannerTyped, Continue
  <2> QED  BY <1>2, <2>1, RowsStay
<1>4. FoundFor(named, t)
  BY <1>3 DEF FoundFor, Names, ExtractModules
<1>5. entry.modules = named
  OBVIOUS
<1> HIDE DEF named, entry, t
<1>6. PlannerTyped'
  BY <1>2 DEF PlannerInv, PlannerTyped
<1>7. CachesInv'
  <2>1. ASSUME NEW u \in Keys, goalCache'[u].found PROVE FoundFor(goalCache'[u].modules, u)
    <3>1. CASE u = t
      BY <1>2, <1>3, <1>4, <1>5, <3>1 DEF PlannerInv, PlannerTyped
    <3>2. CASE u # t
      <4>1. goalCache'[u] = goalCache[u]
        BY <1>2, <3>2 DEF PlannerInv, PlannerTyped
      <4> QED  BY <2>1, <4>1 DEF PlannerInv, CachesInv
    <3> QED  BY <3>1, <3>2
  <2>2. ASSUME NEW u \in Keys, archCache'[u].found PROVE Persisted(archCache'[u].decisions)
    <3>1. Persisted(archCache[u].decisions)
      BY <1>2, <2>2 DEF PlannerInv, CachesInv
    <3> QED  BY <1>2, <3>1
  <2>3. ASSUME NEW u \in Keys, archCache'[u].found PROVE Persisted(archCache[u].decisions)'
    BY <1>2, <1>10, <2>2, <2>3 DEF Persisted, KeepsRecords
  <2> QED  BY <1>2, <2>1, <2>3 DEF CachesInv, FoundFor
<1>8. \A d \in Calls \ {c} : /\ phase'[d] = phase[d] /\ goalId'[d] = goalId[d]
                             /\ modules'[d] = modules[d] /\ decisions'[d] = decisions[d]
                             /\ written'[d] = written[d]
  BY <1>2 DEF PlannerInv, PlannerTyped
<1>9. CallInv(c)'
  <2>1. phase'[c] = "analyzed" /\ modules'[c] = named /\ written'[c] = 0
    BY <1>2 DEF PlannerInv, PlannerTyped, CallInv
  <2>2. FoundFor(modules[c], KeyOf[goal[c].title])'
    BY <1>2, <1>4, <2>1 DEF FoundFor, t
  <2> QED  BY <2>1, <2>2 DEF CallInv, Decided
<1> QED  BY <1>2, <1>6, <1>7, <1>8, <1>9, <1>10, OneCallMoves

LEMMA ArchitectStep ==
  ASSUME PlannerInv, NEW c \in Calls, Architect(c)
  PROVE  PlannerInv'
<1> DEFINE t == KeyOf[goal[c].title]  entry == archCache[t]
           n == Cardinality(modules[c])  made == {Decision(c, i) : i \in 1..n}
<1>1. /\ phase[c] = "analyzed" /\ UNCHANGED <<goal, goalId, modules, written, adrs>>
      /\ UNCHANGED caches
      /\ IF entry.found
         THEN phase' = [phase EXCEPT ![c] = "decided"]
              /\ decisions' = [decisions EXCEPT ![c] = entry.decisions]
         ELSE phase' = [phase EXCEPT ![c] = "designing"] /\ decisions' = [decisions EXCEPT ![c] = made]
  BY DEF Architect, Goes, HashGoal
<1>2. t \in Keys
  BY GoalsAssumption DEF PlannerInv, PlannerTyped
<1>3. FoundFor(modules[c], t) /\ written[c] = 0
  BY <1>1 DEF PlannerInv, CallInv
<1>4. n \in Nat \ {0}
  BY <1>3, SomeDecisions DEF FoundFor
<1> HIDE DEF n, made
<1>5. PlannerTyped'
  BY <1>1 DEF PlannerInv, PlannerTyped, caches
<1>10. KeepsRecords
  <2>1. Continue
    BY <1>1 DEF PlannerInv, PlannerTyped, Continue
  <2> QED  BY <1>1, <2>1, RowsStay
<1>6. CachesInv'
  BY <1>1, <1>10, CachesStay DEF PlannerInv
<1>7. \A d \in Calls \ {c} : /\ phase'[d] = phase[d] /\ goalId'[d] = goalId[d]
                             /\ modules'[d] = modules[d] /\ decisions'[d] = decisions[d]
                             /\ written'[d] = written[d]
  BY <1>1 DEF PlannerInv, PlannerTyped
<1>8. FoundFor(modules[c], KeyOf[goal[c].title])'
  BY <1>1, <1>3 DEF FoundFor
<1>9. CallInv(c)'
  <2>1. CASE entry.found
    <3>1. phase'[c] = "decided" /\ decisions'[c] = entry.decisions
      BY <1>1, <2>1 DEF PlannerInv, PlannerTyped
    <3>2. Persisted(entry.decisions)
      BY <1>2, <2>1 DEF PlannerInv, CachesInv
    <3>3. Persisted(decisions[c])'
      BY <1>1, <1>10, <3>1, <3>2 DEF Persisted, KeepsRecords
    <3> QED  BY <1>8, <3>1, <3>3 DEF CallInv, Decided
  <2>2. CASE ~entry.found
    <3>1. phase'[c] = "designing" /\ decisions'[c] = made
      BY <1>1, <2>2 DEF PlannerInv, PlannerTyped
    <3>2. made = {Decision(c, i)' : i \in 1..n} /\ written'[c] = 0
      BY <1>1, <1>3 DEF made, Decision
    <3>3. Designed(c)'
      BY <1>4, <3>1, <3>2 DEF Designed
    <3> QED  BY <1>8, <3>1, <3>3 DEF CallInv, Decided
  <2> QED  BY <2>1, <2>2
<1> QED  BY <1>1, <1>5, <1>6, <1>7, <1>9, <1>10, OneCallMoves

LEMMA WriteDecisionStep ==
  ASSUME PlannerInv, NEW c \in Calls, WriteDecision(c)
  PROVE  PlannerInv'
<1> DEFINE t == KeyOf[goal[c].title]
<1>1. /\ phase[c] = "designing" /\ UNCHANGED <<goal, goalId, modules, decisions, goalCache>>
      /\ \/ /\ written' = [written EXCEPT ![c] = written[c] + 1]
            /\ adrs' = Upsert(adrs, Decision(c, written[c] + 1))
            /\ written[c] < Cardinality(decisions[c]) /\ UNCHANGED <<phase, archCache>>
         \/ phase' = [phase EXCEPT ![c] = "failed"] /\ UNCHANGED <<adrs, written, archCache>>
         \/ /\ written[c] = Cardinality(decisions[c]) /\ UNCHANGED <<adrs, written>>
            /\ phase' = [phase EXCEPT ![c] = "decided"]
            /\ archCache' = [archCache EXCEPT ![t] = [found |-> TRUE, decisions |-> decisions[c]]]
  <2>1. written' = [written EXCEPT ![c] = written[c] + 1] => written'[c] = written[c] + 1
    BY DEF PlannerInv, PlannerTyped
  <2> QED  BY <2>1 DEF WriteDecision, Goes, HashGoal, Decision
<1>2. t \in Keys /\ FoundFor(modules[c], t) /\ Designed(c)
  BY <1>1, GoalsAssumption DEF PlannerInv, PlannerTyped, CallInv
<1>3. PICK n \in Nat \ {0} : /\ decisions[c] = {Decision(c, i) : i \in 1..n}
                             /\ written[c] \in 0..n
                             /\ \A i \in 1..written[c] : Recorded(Decision(c, i))
  BY <1>2 DEF Designed
<1>4. Cardinality(decisions[c]) = n
  BY <1>3, DecisionsCounted
<1>5. /\ \A d \in Calls \ {c} : /\ phase'[d] = phase[d] /\ goalId'[d] = goalId[d]
                                /\ modules'[d] = modules[d] /\ decisions'[d] = decisions[d]
                                /\ written'[d] = written[d]
      /\ PlannerTyped' /\ Continue
  BY <1>1 DEF PlannerInv, PlannerTyped, Continue
<1>10. \A i : Decision(c, i)' = Decision(c, i)
  BY <1>1 DEF Decision
<1>6. FoundFor(modules[c], KeyOf[goal[c].title])'
  BY <1>1, <1>2 DEF FoundFor
\* One more is written.
<1>7. CASE /\ written' = [written EXCEPT ![c] = written[c] + 1]
           /\ adrs' = Upsert(adrs, Decision(c, written[c] + 1))
           /\ written[c] < Cardinality(decisions[c]) /\ UNCHANGED <<phase, archCache>>
  <2>1. written'[c] = written[c] + 1 /\ written'[c] \in 1..n
    BY <1>3, <1>4, <1>7 DEF PlannerInv, PlannerTyped
  <2>6. KeepsRecords /\ \A d : d = Decision(c, written[c] + 1) => Recorded(d)'
    <3> DEFINE row == Decision(c, written[c] + 1)
    <3>1. /\ row = [id |-> <<goalId[c], written[c] + 1>>, by |-> c] /\ written[c] + 1 \in Nat \ {0}
          /\ adrs' = Upsert(adrs, row) /\ phase[c] # "idle"
      BY <1>1, <1>3, <1>7 DEF Decision
    <3> HIDE DEF row
    <3>3. KeepsRecords /\ \A d : d = row => Recorded(d)'
      BY <1>5, <3>1, RowWritten
    <3> QED  BY <3>3 DEF row
  <2>2. \A i \in 1..written'[c] : Recorded(Decision(c, i))'
    <3> SUFFICES ASSUME NEW i \in 1..written'[c] PROVE Recorded(Decision(c, i))'
      OBVIOUS
    <3>1. CASE i = written[c] + 1
      <4>1. \A d : d = Decision(c, i) => Recorded(d)'
        BY <2>6, <3>1
      <4> QED  BY <1>10, <4>1
    <3>2. CASE i # written[c] + 1
      <4>1. Recorded(Decision(c, i))
        BY <1>3, <2>1, <3>2
      <4> QED  BY <1>10, <2>6, <4>1 DEF KeepsRecords
    <3> QED  BY <3>1, <3>2
  <2>3. Designed(c)'
    <3>1. decisions'[c] = {Decision(c, i)' : i \in 1..n} /\ written'[c] \in 0..n
      BY <1>1, <1>3, <1>10, <2>1
    <3> QED  BY <2>2, <3>1 DEF Designed
  <2>4. CallInv(c)'
    BY <1>1, <1>6, <1>7, <2>3 DEF CallInv, Decided
  <2>5. CachesInv'
    BY <1>1, <1>5, <1>7, <2>6, CachesStay DEF PlannerInv, caches
  <2> QED  BY <1>1, <1>5, <2>4, <2>5, <2>6, OneCallMoves
\* The write is refused.
<1>8. CASE phase' = [phase EXCEPT ![c] = "failed"] /\ UNCHANGED <<adrs, written, archCache>>
  <2>1. phase'[c] = "failed"
    BY <1>8 DEF PlannerInv, PlannerTyped
  <2>2. CallInv(c)'
    BY <2>1 DEF CallInv, Decided
  <2>4. KeepsRecords
    BY <1>5, <1>8, RowsStay
  <2>3. CachesInv'
    BY <1>1, <1>5, <1>8, <2>4, CachesStay DEF PlannerInv, caches
  <2> QED  BY <1>1, <1>5, <2>2, <2>3, <2>4, OneCallMoves
\* All are written.
<1>9. CASE /\ written[c] = Cardinality(decisions[c]) /\ UNCHANGED <<adrs, written>>
           /\ phase' = [phase EXCEPT ![c] = "decided"]
           /\ archCache' = [archCache EXCEPT ![t] = [found |-> TRUE, decisions |-> decisions[c]]]
  <2>1. Persisted(decisions[c])
    <3>1. \A d \in decisions[c] : Recorded(d)
      BY <1>3, <1>4, <1>9
    <3>2. Decision(c, 1) \in decisions[c]
      BY <1>3
    <3> QED  BY <3>1, <3>2 DEF Persisted
  <2>5. KeepsRecords
    BY <1>5, <1>9, RowsStay
  <2>2. phase'[c] = "decided" /\ Persisted(decisions[c])'
    BY <1>1, <1>9, <2>1, <2>5 DEF PlannerInv, PlannerTyped, Persisted, KeepsRecords
  <2>3. CallInv(c)'
    BY <1>6, <2>2 DEF CallInv, Decided
  <2>4. CachesInv'
    <3> DEFINE entry == [found |-> TRUE, decisions |-> decisions[c]]
    <3>1. entry.decisions = decisions[c] /\ archCache' = [archCache EXCEPT ![t] = entry]
      BY <1>9
    <3> HIDE DEF entry, t
    <3>2. ASSUME NEW u \in Keys, archCache'[u].found PROVE Persisted(archCache'[u].decisions)
      <4>1. CASE u = t
        BY <1>2, <2>1, <3>1, <4>1 DEF PlannerInv, PlannerTyped
      <4>2. CASE u # t
        <5>1. archCache'[u] = archCache[u]
          BY <3>1, <4>2 DEF PlannerInv, PlannerTyped
        <5> QED  BY <3>2, <5>1 DEF PlannerInv, CachesInv
      <4> QED  BY <4>1, <4>2
    <3>3. ASSUME NEW u \in Keys, goalCache'[u].found PROVE FoundFor(goalCache'[u].modules, u)
      BY <1>1, <3>3 DEF PlannerInv, CachesInv
    <3>4. ASSUME NEW u \in Keys, archCache'[u].found PROVE Persisted(archCache[u].decisions)'
      BY <2>5, <3>2, <3>4 DEF Persisted, KeepsRecords
    <3> QED  BY <1>1, <3>3, <3>4 DEF CachesInv, FoundFor
  <2> QED  BY <1>1, <1>5, <2>3, <2>4, <2>5, OneCallMoves
<1> QED  BY <1>1, <1>7, <1>8, <1>9

\* The rest of a call only moves on, and may add to the shared memory.
LEMMA RestStep ==
  ASSUME PlannerInv, NEW c \in Calls,
         Estimate(c) \/ ReasoningReturns(c) \/ StorePlan(c)
  PROVE  PlannerInv'
<1>1. PICK p \in Decided \cup {"failed"} : phase' = [phase EXCEPT ![c] = p]
  BY DEF Estimate, ReasoningReturns, StorePlan, Goes, Decided
<1>2. /\ phase[c] \in Decided
      /\ adrs' = adrs \/ adrs' = Upsert(adrs, [id |-> <<planId[c], 0>>, by |-> c])
      /\ UNCHANGED <<goal, goalId, modules, decisions, written>> /\ UNCHANGED caches
  BY DEF Estimate, ReasoningReturns, StorePlan, Decided
<1>3. /\ \A d \in Calls \ {c} : /\ phase'[d] = phase[d] /\ goalId'[d] = goalId[d]
                                /\ modules'[d] = modules[d] /\ decisions'[d] = decisions[d]
                                /\ written'[d] = written[d]
      /\ PlannerTyped' /\ phase'[c] = p
  BY <1>1, <1>2 DEF PlannerInv, PlannerTyped, caches
<1>8. KeepsRecords
  <2>1. Continue
    BY <1>2, <1>3 DEF Continue, Decided
  <2>2. CASE adrs' = adrs
    BY <2>1, <2>2, RowsStay
  <2>3. CASE adrs' = Upsert(adrs, [id |-> <<planId[c], 0>>, by |-> c])
    <3> DEFINE row == [id |-> <<planId[c], 0>>, by |-> c]
    <3>1. row = [id |-> <<planId[c], 0>>, by |-> c] /\ adrs' = Upsert(adrs, row) /\ 0 \in Nat
      BY <2>3
    <3> HIDE DEF row
    <3> QED  BY <2>1, <3>1, RowWritten
  <2> QED  BY <1>2, <2>2, <2>3
<1>4. CachesInv'
  BY <1>2, <1>8, CachesStay DEF PlannerInv
<1>5. FoundFor(modules[c], KeyOf[goal[c].title]) /\ Persisted(decisions[c])
  BY <1>2 DEF PlannerInv, CallInv
<1>6. FoundFor(modules[c], KeyOf[goal[c].title])' /\ Persisted(decisions[c])'
  BY <1>2, <1>5, <1>8 DEF FoundFor, Persisted, KeepsRecords
<1>7. CallInv(c)'
  BY <1>3, <1>6 DEF CallInv, Decided
<1> QED  BY <1>2, <1>3, <1>4, <1>7, <1>8, OneCallMoves

LEMMA PlannerStep ==
  ASSUME PlannerInv, [PlanningNext]_planningVars PROVE PlannerInv'
<1>1. CASE Tick \/ (\E p \in DOMAIN Profiles : SetProfile(p)) \/ UNCHANGED planningVars
  <2>1. /\ UNCHANGED <<goal, phase, goalId, modules, decisions, written, adrs>>
        /\ UNCHANGED caches
    BY <1>1 DEF Tick, SetProfile, planningVars, callVars
  <2>5. KeepsRecords
    BY <2>1, RowsStay DEF Continue
  <2>2. CachesInv'
    BY <2>1, <2>5, CachesStay DEF PlannerInv
  <2>3. \A c \in Calls : CallInv(c)'
    BY <2>1, <2>5, CallStays DEF PlannerInv
  <2>4. PlannerTyped'
    BY <2>1 DEF PlannerInv, PlannerTyped, caches
  <2> QED  BY <2>2, <2>3, <2>4 DEF PlannerInv
<1>2. CASE \E c \in Calls : \/ StartPlanning(c) \/ Analyze(c) \/ Architect(c)
                            \/ WriteDecision(c) \/ Estimate(c)
                            \/ ReasoningReturns(c) \/ StorePlan(c)
  BY <1>2, BeginPlanning, AnalyzeStep, ArchitectStep, WriteDecisionStep, RestStep
<1> QED  BY <1>1, <1>2 DEF PlanningNext

\* What was planned is what the goal asks for, whatever the caches hold, unless
\* another text was planned with a title of the same key (PlanCoversItsGoal).
THEOREM PlansCoverTheirGoals == PlanningSpec => []PlanCoversItsGoal
<1>1. PlanningInit => PlannerInv
  BY PlannerStart
<1>2. PlannerInv /\ [PlanningNext]_planningVars => PlannerInv'
  BY PlannerStep
<1>3. PlannerInv => PlanCoversItsGoal
  <2> SUFFICES ASSUME PlannerInv, NEW c \in Calls, Analyzed(c),
                      \A d \in Calls : SameKey(c, d) => goal[d].hits = goal[c].hits
               PROVE  modules[c] \ AdrTitles = ExtractModules(goal[c].hits) \ AdrTitles
    BY DEF PlanCoversItsGoal
  <2>1. FoundFor(modules[c], KeyOf[goal[c].title])
    BY DEF PlannerInv, CallInv, Analyzed, Decided
  <2> QED  BY <2>1 DEF FoundFor, SameKey
<1> QED  BY <1>1, <1>2, <1>3, PTL DEF PlanningSpec

\* The decisions a plan rests on are in shared memory, also when a write was
\* refused on the way, and whatever other calls write: each as it was made, if its
\* call is alone in its millisecond (DecisionsArePersisted).
THEOREM DecisionsCanBeRead == PlanningSpec => []DecisionsArePersisted
<1>1. PlanningInit => PlannerInv
  BY PlannerStart
<1>2. PlannerInv /\ [PlanningNext]_planningVars => PlannerInv'
  BY PlannerStep
<1>3. PlannerInv => DecisionsArePersisted
  BY DEF PlannerInv, CallInv, Persisted, Recorded, Decided, DecisionsArePersisted
<1> QED  BY <1>1, <1>2, <1>3, PTL DEF PlanningSpec

\* The layers of a plan of some modules: the architecture, one task for each
\* module, the tests, the review.
LEMMA PlanInLayers ==
  ASSUME NEW named, named # {}
  PROVE  LET deps == Dependencies(named)
             beforeTests == Startable(deps, Startable(deps, {}))
             beforeReview == Startable(deps, beforeTests)
         IN /\ beforeReview = DOMAIN deps \ {ReviewTask}
            /\ Startable(deps, beforeReview) = DOMAIN deps
<1> DEFINE deps == Dependencies(named)
           arch == ArchTask  tests == TestTask  review == ReviewTask
           impl == {ImplTask(m) : m \in named}
<1>1. /\ arch.kind = "arch" /\ tests.kind = "tests" /\ review.kind = "review"
      /\ arch.priority = "P0" /\ tests.priority = "P1" /\ review.priority = "P2"
      /\ \A t \in impl : t.kind = "impl" /\ t.priority = "P1"
  BY DEF ArchTask, TestTask, ReviewTask, ImplTask, Fixed
<1>2. PICK m \in named : TRUE
  OBVIOUS
<1>3. impl # {}
  BY <1>2
<1>4. PlanTasks(named) = {arch, tests, review} \cup impl
  BY DEF PlanTasks
<1> HIDE DEF impl
<1>5. /\ DOMAIN deps = {arch, tests, review} \cup impl
      /\ \A t \in {arch, tests, review} \cup impl :
           deps[t] = CASE t.kind = "arch" -> {}
                       [] t.kind = "impl" -> {arch}
                       [] t.kind = "tests" -> {u \in ({arch, tests, review} \cup impl) \ {tests} : u.priority = "P1"}
                       [] t.kind = "review" -> {tests}
  BY <1>4 DEF Dependencies
<1> HIDE DEF arch, tests, review, deps
<1>6. /\ deps[arch] = {} /\ deps[tests] = impl /\ deps[review] = {tests}
      /\ \A t \in impl : deps[t] = {arch}
  <2>1. {u \in ({arch, tests, review} \cup impl) \ {tests} : u.priority = "P1"} = impl
    BY <1>1
  <2> QED  BY <1>1, <1>5, <2>1
<1>7. Startable(deps, {}) = {arch}
  BY <1>1, <1>3, <1>5, <1>6 DEF Startable
<1>8. Startable(deps, {arch}) = {arch} \cup impl
  BY <1>1, <1>3, <1>5, <1>6 DEF Startable
<1>9. Startable(deps, {arch} \cup impl) = {arch, tests} \cup impl
  BY <1>1, <1>3, <1>5, <1>6 DEF Startable
<1>10. Startable(deps, {arch, tests} \cup impl) = {arch, tests, review} \cup impl
  BY <1>1, <1>3, <1>5, <1>6 DEF Startable
<1>11. {arch, tests} \cup impl = ({arch, tests, review} \cup impl) \ {review}
  BY <1>1
<1> QED  BY <1>5, <1>7, <1>8, <1>9, <1>10, <1>11 DEF deps, review

\* A quotient between two numbers stays between them when it is rounded.
LEMMA RoundDivBounds ==
  ASSUME NEW a \in Nat, NEW b \in Nat \ {0}, NEW lo \in Nat, NEW hi \in Nat,
         lo * b <= a, a <= hi * b
  PROVE  RoundDiv(a, b) \in lo..hi
<1> DEFINE q == (2 * a + b) \div (2 * b)
           r == (2 * a + b) % (2 * b)
<1>1. 2 * b \in Nat \ {0} /\ 2 * a + b \in Nat
  OBVIOUS
<1>2. q \in Int /\ r \in 0..2 * b - 1 /\ 2 * a + b = (2 * b) * q + r
  BY <1>1
<1> HIDE DEF q, r
<1>3. q <= hi
  <2> SUFFICES ASSUME q >= hi + 1 PROVE FALSE
    BY <1>2
  <2>1. (2 * b) * q >= (2 * b) * (hi + 1)
    BY <1>1, <1>2
  <2>2. (2 * b) * (hi + 1) = 2 * (hi * b) + 2 * b
    OBVIOUS
  <2> QED  BY <1>2, <2>1, <2>2
<1>4. q >= lo
  <2> SUFFICES ASSUME q + 1 <= lo PROVE FALSE
    BY <1>2
  <2>1. (2 * b) * (q + 1) <= (2 * b) * lo
    BY <1>1, <1>2
  <2>2. (2 * b) * lo = 2 * (lo * b) /\ (2 * b) * (q + 1) = (2 * b) * q + 2 * b
    BY <1>2
  <2> QED  BY <1>2, <2>1, <2>2
<1> QED  BY <1>2, <1>3, <1>4 DEF q, RoundDiv

\* The tables: the weights of the risks, and the complexities.
LEMMA RiskWeights ==
  \A m \in DOMAIN RiskRules : RiskRules[m] \in 20..200
  BY DEF RiskRules

LEMMA ModuleWeights ==
  ASSUME NEW m PROVE Lookup(ModuleComplexity, m, 4) \in 2..8
  BY DEF Lookup, ModuleComplexity

\* Their sums, over the modules of a plan.
LEMMA RiskSum ==
  ASSUME NEW S, IsFiniteSet(S), S \subseteq DOMAIN RiskRules
  PROVE  /\ MapThenSumSet(LAMBDA m : RiskRules[m], S) \in Nat
         /\ MapThenSumSet(LAMBDA m : RiskRules[m], S) <= 200 * Cardinality(S)
<1> DEFINE f == [m \in S |-> RiskRules[m]]
           Adds(g) == g = [s \in SUBSET S |->
                             IF s = {} THEN 0
                             ELSE RiskRules[CHOOSE x \in s : TRUE] + g[s \ {CHOOSE x \in s : TRUE}]]
           sum == CHOOSE g : Adds(g)
<1>1. MapThenSumSet(LAMBDA m : RiskRules[m], S) = sum[S]
  BY Zenon DEF MapThenSumSet, MapThenFoldSet
<1>2. f \in [S -> 20..200]
  BY RiskWeights
<1>3. \A g : Adds(g) <=> AddsUp(g, f, S)
  <2>1. \A s \in SUBSET S : s # {} => f[CHOOSE x \in s : TRUE] = RiskRules[CHOOSE x \in s : TRUE]
    OBVIOUS
  <2> HIDE DEF f
  <2> QED  BY <2>1 DEF AddsUp
<1> HIDE DEF Adds
<1>4. \E g : Adds(g)
  <2>1. f \in [S -> Nat]
    BY <1>2
  <2> HIDE DEF f
  <2> QED  BY <1>3, <2>1, SumsExist
<1>5. AddsUp(sum, f, S)
  <2>1. Adds(sum)
    BY <1>4, Zenon
  <2> HIDE DEF sum
  <2> QED  BY <1>3, <2>1
<1> HIDE DEF sum, f
<1> QED  BY <1>1, <1>2, <1>5, SumsAreBounded

LEMMA ComplexitySum ==
  ASSUME NEW S, IsFiniteSet(S)
  PROVE  /\ MapThenSumSet(LAMBDA m : Lookup(ModuleComplexity, m, 4), S) \in Nat
         /\ 2 * Cardinality(S) <= MapThenSumSet(LAMBDA m : Lookup(ModuleComplexity, m, 4), S)
         /\ MapThenSumSet(LAMBDA m : Lookup(ModuleComplexity, m, 4), S) <= 8 * Cardinality(S)
<1> DEFINE W(m) == Lookup(ModuleComplexity, m, 4)
           f == [m \in S |-> W(m)]
           Adds(g) == g = [s \in SUBSET S |->
                             IF s = {} THEN 0
                             ELSE W(CHOOSE x \in s : TRUE) + g[s \ {CHOOSE x \in s : TRUE}]]
           sum == CHOOSE g : Adds(g)
<1>1. MapThenSumSet(LAMBDA m : Lookup(ModuleComplexity, m, 4), S) = sum[S]
  BY Zenon DEF MapThenSumSet, MapThenFoldSet
<1>2. f \in [S -> 2..8]
  BY ModuleWeights
<1>3. \A g : Adds(g) <=> AddsUp(g, f, S)
  <2>1. \A s \in SUBSET S : s # {} => f[CHOOSE x \in s : TRUE] = W(CHOOSE x \in s : TRUE)
    <3> HIDE DEF W
    <3> QED  OBVIOUS
  <2> HIDE DEF f, W
  <2> QED  BY <2>1 DEF AddsUp
<1> HIDE DEF Adds
<1>4. \E g : Adds(g)
  <2>1. f \in [S -> Nat]
    BY <1>2
  <2> HIDE DEF f
  <2> QED  BY <1>3, <2>1, SumsExist
<1>5. AddsUp(sum, f, S)
  <2>1. Adds(sum)
    BY <1>4, Zenon
  <2> HIDE DEF sum
  <2> QED  BY <1>3, <2>1
<1> HIDE DEF sum, f
<1> QED  BY <1>1, <1>2, <1>5, SumsAreBounded

\* The risks of a plan are finitely many, and their weighted sum is at most 200 each.
LEMMA RiskIsBounded ==
  ASSUME NEW named, named \subseteq Names
  PROVE  OverallRisk(named) \in 0..50
<1> DEFINE rules == named \cap DOMAIN RiskRules
           R == Cardinality(rules)
           U == Cardinality(CouplingRisks(named))
           O == Cardinality(CircularRisks(named))
           three == IF Cardinality(named) >= 3 THEN 1 ELSE 0
           four == IF Cardinality(named) >= 4 THEN 1 ELSE 0
           sum == MapThenSumSet(LAMBDA m : RiskRules[m], rules)
<1>1. IsFiniteSet(named)
  BY NamesAreFinite, FS_Subset
<1>2. IsFiniteSet(rules) /\ R \in Nat
  <2>1. rules \in SUBSET named
    OBVIOUS
  <2>2. IsFiniteSet(rules)
    BY <1>1, <2>1, FS_Subset
  <2> QED  BY <2>2, FS_CardinalityType
<1>3. U \in Nat
  <2>1. CouplingRisks(named) \in SUBSET named
    BY DEF CouplingRisks
  <2> QED  BY <1>1, <2>1, FS_Subset, FS_CardinalityType
<1>4. O \in Nat
  <2>1. \A m : DependsOn(m) \subseteq Names
    BY DEF DependsOn, Lookup, CrossDeps, Names, Recognized
  <2>2. CircularRisks(named) \in SUBSET SUBSET Names
    BY <2>1 DEF CircularRisks
  <2>3. IsFiniteSet(SUBSET Names)
    BY NamesAreFinite, FS_SUBSET
  <2> QED  BY <2>2, <2>3, FS_Subset, FS_CardinalityType
<1>5. sum \in Nat /\ sum <= 200 * R
  <2>1. rules \subseteq DOMAIN RiskRules
    OBVIOUS
  <2> HIDE DEF rules
  <2> QED  BY <1>2, <2>1, RiskSum
<1>6. /\ RiskCount(named) = R + U + O + three + four
      /\ RiskTotal(named) = sum + 2 * 35 * U + 3 * 45 * O + (IF Cardinality(named) >= 3 THEN 2 * 40 ELSE 0)
                              + (IF Cardinality(named) >= 4 THEN 1 * 30 ELSE 0)
  BY DEF RiskCount, RiskTotal
<1>7. three \in Nat /\ four \in Nat
      /\ (IF Cardinality(named) >= 3 THEN 2 * 40 ELSE 0) = 80 * three
      /\ (IF Cardinality(named) >= 4 THEN 1 * 30 ELSE 0) = 30 * four
  OBVIOUS
<1> HIDE DEF R, U, O, three, four, sum
<1>8. /\ RiskCount(named) \in Nat /\ RiskTotal(named) \in Nat
      /\ RiskTotal(named) <= 50 * (4 * RiskCount(named))
  BY <1>2, <1>3, <1>4, <1>5, <1>6, <1>7
<1>9. CASE RiskCount(named) = 0
  BY <1>9 DEF OverallRisk
<1>10. CASE RiskCount(named) # 0
  <2> DEFINE b == 4 * RiskCount(named)
  <2>1. b \in Nat \ {0} /\ 0 * b <= RiskTotal(named) /\ RiskTotal(named) <= 50 * b
    BY <1>8, <1>10
  <2>2. RoundDiv(RiskTotal(named), b) \in 0..50
    <3> HIDE DEF b
    <3> QED  BY <1>8, <2>1, RoundDivBounds
  <2> QED  BY <1>10, <2>2 DEF OverallRisk, Least
<1> QED  BY <1>9, <1>10

\* Confidence is a percentage, and below the threshold of reasoning exactly when
\* nothing was recognized.
LEMMA ConfidenceIsRight ==
  ASSUME NEW named, named # {}, named \subseteq Names
  PROVE  /\ Confidence(named) \in 0..100
         /\ Confidence(named) < 40 <=> named = {"general"}
<1> DEFINE n == Cardinality(named)
           known == Cardinality(named \ {"general"})
           risk == OverallRisk(named)
           a == 210 * known + 90 * n - risk * n
           b == 3 * n
<1>1. IsFiniteSet(named) /\ n \in Nat \ {0}
  BY NamesAreFinite, FS_Subset, FS_CardinalityType, FS_EmptySet
<1>2. known = IF "general" \in named THEN n - 1 ELSE n
  BY <1>1, FS_RemoveElement
<1>3. risk \in 0..50
  BY RiskIsBounded
<1>4. Confidence(named) = Least(100, RoundDiv(a, b))
  <2>1. Most(n, 1) = n /\ Least(90, risk) = risk
    <3> HIDE DEF n, risk
    <3> QED  BY <1>1, <1>3 DEF Most, Least
  <2> QED  BY <2>1 DEF Confidence
<1>5. known = 0 <=> named = {"general"}
  <2>1. known = 0 <=> "general" \in named /\ n = 1
    BY <1>1, <1>2
  <2>2. n = 1 <=> \E x : named = {x}
    BY <1>1, FS_Singleton
  <2> QED  BY <2>1, <2>2
<1> HIDE DEF n, known, risk
<1>6. known \in 0..n /\ risk * n \in Nat /\ risk * n <= 50 * n
  BY <1>1, <1>2, <1>3
<1>7. a \in Nat /\ b \in Nat \ {0} /\ 0 * b <= a /\ a <= 100 * b
  BY <1>1, <1>6
<1>8. RoundDiv(a, b) \in 0..100
  <2> HIDE DEF a, b
  <2> QED  BY <1>7, RoundDivBounds
<1>9. CASE known = 0
  <2>1. a <= 30 * b
    BY <1>1, <1>6, <1>9
  <2>2. RoundDiv(a, b) \in 0..30
    <3> HIDE DEF a, b
    <3> QED  BY <1>7, <2>1, RoundDivBounds
  <2> QED  BY <1>4, <1>5, <1>9, <2>2 DEF Least
<1>10. CASE known # 0
  <2>1. 2 * known >= n
    BY <1>1, <1>2, <1>10
  <2>2. 40 * b <= a
    BY <1>1, <1>6, <2>1
  <2>3. RoundDiv(a, b) \in 40..100
    <3> HIDE DEF a, b
    <3> QED  BY <1>7, <2>2, RoundDivBounds
  <2> QED  BY <1>4, <1>5, <1>10, <2>3 DEF Least
<1> QED  BY <1>9, <1>10

\* Each of the six complexities is from 1 to 10.
LEMMA ComplexitiesAreInRange ==
  ASSUME NEW named, named # {}, named \subseteq Names
  PROVE  \A d \in DOMAIN Complexity(named) : Complexity(named)[d] \in 1..10
<1> DEFINE n == Cardinality(named)
           sum == MapThenSumSet(LAMBDA m : Lookup(ModuleComplexity, m, 4), named)
           impl == RoundDiv(sum, n)
           testing == Least(10, impl + 1)
           review == Least(10, RoundDiv(8 * impl, 10))
           verification == Least(10, RoundDiv(14 * review + OverallRisk(named), 20))
           deployment == IF "devops" \in named THEN 6 ELSE 3
           overall == RoundDiv(impl + testing + review + verification + deployment, 5)
<1>1. IsFiniteSet(named) /\ n \in Nat \ {0}
  BY NamesAreFinite, FS_Subset, FS_CardinalityType, FS_EmptySet
<1>2. sum \in Nat /\ 2 * n <= sum /\ sum <= 8 * n
  BY <1>1, ComplexitySum
<1>3. Complexity(named) =
        [implementation |-> impl, testing |-> testing, review |-> review,
         verification |-> verification, deployment |-> deployment, overall |-> overall]
  <2>1. Most(n, 1) = n
    <3> HIDE DEF n
    <3> QED  BY <1>1 DEF Most
  <2> QED  BY <2>1 DEF Complexity
<1> HIDE DEF n, sum
<1>4. impl \in 2..8
  BY <1>1, <1>2, RoundDivBounds
<1> HIDE DEF impl
<1>5. testing \in 3..9
  BY <1>4 DEF Least
<1>6. review \in 2..10
  <2>1. 2 * (8 * impl) + 10 \in 42..138
    BY <1>4
  <2>2. RoundDiv(8 * impl, 10) \in 2..6
    BY <2>1 DEF RoundDiv
  <2> QED  BY <2>2 DEF Least
<1> HIDE DEF review, testing
<1>7. verification \in 1..10
  <2> DEFINE a == 14 * review + OverallRisk(named)
  <2>1. a \in Nat /\ 1 * 20 <= a /\ a <= 10 * 20 /\ 20 \in Nat \ {0}
    BY <1>6, RiskIsBounded
  <2>2. RoundDiv(a, 20) \in 1..10
    <3> DEFINE b == 20  lo == 1  hi == 10
    <3>1. a \in Nat /\ b \in Nat \ {0} /\ lo \in Nat /\ hi \in Nat /\ lo * b <= a /\ a <= hi * b
      BY <2>1
    <3>2. RoundDiv(a, b) \in lo..hi
      <4> HIDE DEF a, b, lo, hi
      <4> QED  BY <3>1, RoundDivBounds
    <3> QED  BY <3>2
  <2> QED  BY <2>2 DEF Least
<1>8. deployment \in {3, 6}
  OBVIOUS
<1> HIDE DEF verification, deployment
<1>9. overall \in 1..10
  <2> DEFINE a == impl + testing + review + verification + deployment
  <2>1. a \in Nat /\ 1 * 5 <= a /\ a <= 10 * 5 /\ 5 \in Nat \ {0}
    BY <1>4, <1>5, <1>6, <1>7, <1>8
  <2>2. RoundDiv(a, 5) \in 1..10
    <3> DEFINE b == 5  lo == 1  hi == 10
    <3>1. a \in Nat /\ b \in Nat \ {0} /\ lo \in Nat /\ hi \in Nat /\ lo * b <= a /\ a <= hi * b
      BY <2>1
    <3>2. RoundDiv(a, b) \in lo..hi
      <4> HIDE DEF a, b, lo, hi
      <4> QED  BY <3>1, RoundDivBounds
    <3> QED  BY <3>2
  <2> QED  BY <2>2
<1> HIDE DEF overall
<1> QED  BY <1>3, <1>4, <1>5, <1>6, <1>7, <1>8, <1>9

\* What a profile limits is limited, and every module has its department.
LEMMA StrategyKeepsTheProfile ==
  ASSUME NEW p \in DOMAIN Profiles, NEW named, named # {}, named \subseteq Names
  PROVE  LET s == Strategy(Profiles[p], named)
         IN /\ s.tokens <= Profiles[p].budget
            /\ ~Profiles[p].parallel => s.policy # "MULTI_AGENT"
            /\ s.departments = {DepartmentOf(m) : m \in named}
<1> DEFINE profile0 == Profiles[p]
           tokens == EstimatedTokens(named)
<1>1. Cardinality(named) \in Nat
  BY NamesAreFinite, FS_Subset, FS_CardinalityType
<1>2. TaskCount(named) \in Nat /\ TaskCount(named) >= 3
  BY <1>1 DEF TaskCount, Most
<1>3. tokens \in Nat /\ EstimatedWorkers(named) = 3
  BY <1>2 DEF EstimatedTokens, EstimatedWorkers, Least
<1>4. profile0.budget \in Nat
  BY DEF Profiles
<1>5. Strategy(profile0, named) =
        [policy |-> WorkerPolicy(profile0, 3), departments |-> {DepartmentOf(m) : m \in named},
         tokens |-> Least(tokens, profile0.budget)]
  BY <1>3 DEF Strategy
<1> HIDE DEF tokens, profile0
<1>6. Least(tokens, profile0.budget) <= profile0.budget
  BY <1>3, <1>4 DEF Least
<1>7. ~profile0.parallel => WorkerPolicy(profile0, 3) # "MULTI_AGENT"
  BY DEF WorkerPolicy
<1> QED  BY <1>5, <1>6, <1>7 DEF profile0

LEMMA FeasibleAtTheEnd ==
  ASSUME PlannerInv PROVE PlanIsFeasible
<1> SUFFICES ASSUME NEW c \in Calls, phase[c] = "done"
             PROVE  LET deps == Dependencies(modules[c])
                        beforeTests == Startable(deps, Startable(deps, {}))
                        beforeReview == Startable(deps, beforeTests)
                    IN /\ beforeReview = DOMAIN deps \ {ReviewTask}
                       /\ Startable(deps, beforeReview) = DOMAIN deps
  BY DEF PlanIsFeasible
<1>1. modules[c] # {}
  BY DEF PlannerInv, CallInv, FoundFor, Decided
<1> QED  BY <1>1, PlanInLayers

LEMMA EstimatesInRange ==
  ASSUME PlannerInv, profile \in DOMAIN Profiles PROVE EstimatesAreSound
<1> SUFFICES ASSUME NEW c \in Calls, phase[c] = "storing"
             PROVE  /\ NeedsReasoning(c) <=> modules[c] = {"general"}
                    /\ LET x == Complexity(modules[c])
                       IN \A d \in DOMAIN x : x[d] \in 1..10
                    /\ OverallRisk(modules[c]) \in 0..100 /\ Confidence(modules[c]) \in 0..100
                    /\ LET s == Strategy(Profiles[profile], modules[c])
                       IN /\ s.tokens <= Profiles[profile].budget
                          /\ ~Profiles[profile].parallel => s.policy # "MULTI_AGENT"
                          /\ {DepartmentOf(m) : m \in goal[c].hits} \subseteq s.departments
                               \/ \E d \in Calls \ {c} : SameKey(c, d)
  BY DEF EstimatesAreSound
<1> DEFINE named == modules[c]
           s == Strategy(Profiles[profile], named)
<1>1. named # {} /\ named \subseteq Names /\ FoundFor(named, KeyOf[goal[c].title])
  BY DEF PlannerInv, CallInv, FoundFor, Decided
<1> HIDE DEF named
<1>2. NeedsReasoning(c) <=> named = {"general"}
  BY <1>1, ConfidenceIsRight DEF NeedsReasoning, AiConfidenceThreshold, named
<1>3. \A d \in DOMAIN Complexity(named) : Complexity(named)[d] \in 1..10
  BY <1>1, ComplexitiesAreInRange
<1>4. OverallRisk(named) \in 0..100 /\ Confidence(named) \in 0..100
  BY <1>1, RiskIsBounded, ConfidenceIsRight
<1>5. /\ s.tokens <= Profiles[profile].budget
      /\ ~Profiles[profile].parallel => s.policy # "MULTI_AGENT"
      /\ s.departments = {DepartmentOf(m) : m \in named}
  BY <1>1, StrategyKeepsTheProfile
<1>6. PICK d \in Calls : SameKey(c, d) /\ ExtractModules(goal[d].hits) \subseteq named
  BY <1>1 DEF FoundFor, SameKey
<1>7. CASE d = c
  <2>1. goal[c].hits \subseteq named
    BY <1>6, <1>7 DEF ExtractModules
  <2>2. {DepartmentOf(m) : m \in goal[c].hits} \subseteq s.departments
    BY <1>5, <2>1
  <2> HIDE DEF s
  <2> QED  BY <1>2, <1>3, <1>4, <1>5, <2>2 DEF named, s
<1>8. CASE d # c
  BY <1>2, <1>3, <1>4, <1>5, <1>6, <1>8 DEF named
<1> QED  BY <1>7, <1>8

\* A plan can be carried out and its review comes last, and the estimates are in
\* their ranges, the profile is kept, and reasoning is asked for exactly when the
\* rules recognize nothing (PlansAreSound): for any goals, and whatever decisions
\* are reused.
THEOREM PlansCanBeTrusted == PlanningSpec => []PlansAreSound
<1>1. PlanningInit => PlannerInv /\ profile \in DOMAIN Profiles
  <2>1. PlanningInit => profile \in DOMAIN Profiles
    BY DEF PlanningInit, Profiles
  <2> QED  BY <2>1, PlannerStart
<1>2. PlannerInv /\ profile \in DOMAIN Profiles /\ [PlanningNext]_planningVars
        => PlannerInv' /\ (profile \in DOMAIN Profiles)'
  <2>1. profile \in DOMAIN Profiles /\ [PlanningNext]_planningVars => profile' \in DOMAIN Profiles
    BY DEF PlanningNext, planningVars, Tick, SetProfile, StartPlanning, Analyze, Architect,
           WriteDecision, Estimate, ReasoningReturns, StorePlan
  <2> QED  BY <2>1, PlannerStep
<1>3. PlannerInv /\ profile \in DOMAIN Profiles => PlansAreSound
  BY FeasibleAtTheEnd, EstimatesInRange DEF PlansAreSound
<1> QED  BY <1>1, <1>2, <1>3, PTL DEF PlanningSpec
=============================================================================
