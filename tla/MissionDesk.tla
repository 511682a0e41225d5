---------------------------- MODULE MissionDesk ----------------------------
(***************************************************************************)
(* MissionEngine and TaskAssignmentEngine: missions, their plans, and who  *)
(* of the staff gets which task.  Batches are assigned one after the       *)
(* other, over whoever is on the staff and idle at that moment.            *)
(*                                                                         *)
(* A mission is known by the millisecond in which it was created.          *)
(***************************************************************************)
EXTENDS MissionPlans, FiniteSets, SequencesExt

CONSTANTS
  Workers, NoWorker,
  DepartmentOf, SkillsOf,   \* of a worker; departments and skills by the capability they have
  Goals,                    \* the texts of goals there may be
  MaxTime                   \* bound: milliseconds

ASSUME StaffAssumption ==
  /\ NoWorker \notin Workers /\ DOMAIN DepartmentOf = Workers /\ DOMAIN SkillsOf = Workers
  /\ Goals \subseteq Texts /\ MaxTime \in Nat

VARIABLES
  now,
  staff,     \* the workers in the store, in the order in which they were registered
  busy,
  missions,  \* by identifier: the status, or "none"
  plan,      \* by identifier: the tier (or "none"), the tasks, and which of them each worker was listed for
  pending    \* decompositions that have been asked for: identifier and tier
deskVars == <<now, staff, busy, missions, plan, pending>>

MissionIds == 0..MaxTime
NoPlan == [tier |-> "none", tasks |-> <<>>, listed |-> [w \in Workers |-> {}]]

DeskInit ==
  /\ now = 0 /\ staff = <<>> /\ busy = {}
  /\ missions = [id \in MissionIds |-> "none"]
  /\ plan = [id \in MissionIds |-> NoPlan]
  /\ pending = <<>>

OnStaff == ToSet(staff)

Tick == now < MaxTime /\ now' = now + 1 /\ UNCHANGED <<staff, busy, missions, plan, pending>>

-----------------------------------------------------------------------------
(* The staff.                                                              *)

Register(w) ==
  /\ w \notin OnStaff
  /\ staff' = Append(staff, w)
  /\ UNCHANGED <<now, busy, missions, plan, pending>>

Dismiss(w) ==
  /\ \E i \in DOMAIN staff : staff[i] = w /\ staff' = RemoveAt(staff, i)
  /\ busy' = busy \ {w}
  /\ UNCHANGED <<now, missions, plan, pending>>

Changes(w) ==
  /\ w \in OnStaff
  /\ busy' = IF w \in busy THEN busy \ {w} ELSE busy \cup {w}
  /\ UNCHANGED <<now, staff, missions, plan, pending>>

-----------------------------------------------------------------------------
(* Who gets a task.                                                        *)

\* departmentForCapability()
TargetDepartment(capability) ==
  IF capability \in {"Architecture", "Backend", "QA", "Documentation"} THEN capability ELSE "Backend"

Members(department) == {w \in OnStaff : DepartmentOf[w] = department}
Skilled(capability) == {w \in OnStaff : capability \in SkillsOf[w]}

\* An idle one if there is one, and the first registered of those.
Pick(candidates) ==
  LET preferred == IF candidates \ busy # {} THEN candidates \ busy ELSE candidates
  IN staff[CHOOSE i \in DOMAIN staff :
             staff[i] \in preferred /\ \A j \in 1..i - 1 : staff[j] \notin preferred]

\* Variant: a skilled worker is taken again rather than a member of the department.
SelectSkilledFirst(capability, used) ==
  LET skilled == Skilled(capability)
      members == Members(TargetDepartment(capability))
  IN CASE skilled \ used # {} -> Pick(skilled \ used)
       [] skilled \subseteq used /\ skilled # {} -> Pick(skilled)
       [] skilled = {} /\ members \ used # {} -> Pick(members \ used)
       [] skilled = {} /\ members \subseteq used /\ members # {} -> Pick(members)
       [] OTHER -> NoWorker

Select(capability, used) ==
  LET skilled == Skilled(capability)
      members == Members(TargetDepartment(capability))
  IN CASE skilled \ used # {} -> Pick(skilled \ used)
       [] skilled \subseteq used /\ members \ used # {} -> Pick(members \ used)
       [] skilled \subseteq used /\ members \subseteq used /\ members # {} -> Pick(members)
       [] OTHER -> NoWorker

\* One task of a batch; a task nobody can take stays what it was.
AssignTask(p, used, t) ==
  LET w == Select(BlueprintsOf(p.tier)[t].capability, used)
  IN IF w = NoWorker THEN [plan |-> p, used |-> used]
     ELSE [plan |-> [p EXCEPT !.tasks[t] = [status |-> "ASSIGNED", worker |-> w],
                              !.listed[w] = @ \cup {t}],
           used |-> used \cup {w}]

Batch(tier, n) == {t \in DOMAIN BlueprintsOf(tier) : BlueprintsOf(tier)[t].batch = n}

\* The tasks of a batch, in the order of the plan.
AssignBatch(p, n) ==
  MapThenFoldSet(LAMBDA t, a : AssignTask(a.plan, a.used, t), [plan |-> p, used |-> {}],
                 LAMBDA t : t, Max, Batch(p.tier, n)).plan

\* assignPlanTasks()
AssignPlanTasks(p) ==
  LET assigned[n \in 0..8] ==
        IF n = 0 THEN [p EXCEPT !.listed = [w \in Workers |-> {}]]
        ELSE AssignBatch(assigned[n - 1], n)
  IN assigned[8]

-----------------------------------------------------------------------------
(* MissionEngine.  Only the mission of an identifier is replaced by another *)
(* that is created in the same millisecond.                                *)

DecomposeAndPlanMission(text) ==
  /\ missions' = [missions EXCEPT ![now] = "CREATED"]
  /\ pending' = Append(pending, [id |-> now, tier |-> Tier(text)])
  /\ UNCHANGED <<now, staff, busy, plan>>

CreateMission ==
  /\ missions' = [missions EXCEPT ![now] = "CREATED"]
  /\ UNCHANGED <<now, staff, busy, plan, pending>>

\* planMission(): the first task is READY, the others wait.
NewPlan(tier) ==
  [NoPlan EXCEPT !.tier = tier,
     !.tasks = [t \in DOMAIN BlueprintsOf(tier) |->
                  [status |-> IF t = 1 THEN "READY" ELSE "PENDING", worker |-> NoWorker]]]

MissionDecomposed ==
  /\ pending # <<>>
  /\ plan' = [plan EXCEPT ![Head(pending).id] = AssignPlanTasks(NewPlan(Head(pending).tier))]
  /\ pending' = Tail(pending)
  /\ UNCHANGED <<now, staff, busy, missions>>

\* The command mission-assign: what was done already is assigned again.
MissionAssign(id) ==
  /\ plan[id].tier # "none"
  /\ plan' = [plan EXCEPT ![id] = AssignPlanTasks(@)]
  /\ UNCHANGED <<now, staff, busy, missions, pending>>

StartMission(id) ==
  /\ missions[id] \notin {"none", "RUNNING"}
  /\ missions' = [missions EXCEPT ![id] = "RUNNING"]
  /\ plan' = [plan EXCEPT ![id].tasks = [t \in DOMAIN @ |->
                IF @[t].status \in {"ASSIGNED", "READY"} THEN [@[t] EXCEPT !.status = "RUNNING"]
                ELSE @[t]]]
  /\ UNCHANGED <<now, staff, busy, pending>>

TaskBecomes(id, t, s) == plan' = [plan EXCEPT ![id].tasks[t].status = s]

StartTask(id, t) ==
  /\ TaskBecomes(id, t, "RUNNING")
  /\ UNCHANGED <<now, staff, busy, missions, pending>>

FailTask(id, t) ==
  /\ TaskBecomes(id, t, "FAILED")
  /\ UNCHANGED <<now, staff, busy, missions, pending>>

\* With its last task, the mission is complete, whatever it was.
CompleteTask(id, t) ==
  /\ TaskBecomes(id, t, "COMPLETED")
  /\ missions' = [missions EXCEPT ![id] =
       IF @ # "none" /\ \A u \in DOMAIN plan[id].tasks : plan'[id].tasks[u].status = "COMPLETED"
       THEN "COMPLETED" ELSE @]
  /\ UNCHANGED <<now, staff, busy, pending>>

MissionBecomes(id, s) ==
  missions' = [missions EXCEPT ![id] = s] /\ UNCHANGED <<now, staff, busy, plan, pending>>

PauseMission(id) == missions[id] = "RUNNING" /\ MissionBecomes(id, "PAUSED")
ResumeMission(id) == missions[id] = "PAUSED" /\ MissionBecomes(id, "RUNNING")
CancelMission(id) == missions[id] # "none" /\ MissionBecomes(id, "CANCELLED")
ArchiveMission(id) == missions[id] # "none" /\ MissionBecomes(id, "ARCHIVED")

DeskNext ==
  \/ Tick \/ CreateMission \/ MissionDecomposed
  \/ \E text \in Goals : DecomposeAndPlanMission(text)
  \/ \E w \in Workers : Register(w) \/ Dismiss(w) \/ Changes(w)
  \/ \E id \in MissionIds :
       \/ MissionAssign(id) \/ StartMission(id) \/ PauseMission(id) \/ ResumeMission(id)
       \/ CancelMission(id) \/ ArchiveMission(id)
       \/ \E t \in DOMAIN plan[id].tasks :
            StartTask(id, t) \/ CompleteTask(id, t) \/ FailTask(id, t)

DeskSpec == DeskInit /\ [][DeskNext]_deskVars

-----------------------------------------------------------------------------
(* Properties.                                                             *)

Eligible(capability) == Skilled(capability) \cup Members(TargetDepartment(capability))

\* A batch is dealt out so that nobody gets a second task of it while somebody who
\* could take that task has none, and no task is left over that somebody of its
\* department, or with its skill, could take -- except that a task is not dealt
\* to a skilled worker of another department twice.
DealtFairly(p) ==
  \A t \in DOMAIN p.tasks :
    LET bp == BlueprintsOf(p.tier)
        earlier == {u \in 1..t - 1 : bp[u].batch = bp[t].batch}
        taken == {w \in Workers : p.listed[w] \cap earlier # {}}
        owner == {w \in Workers : t \in p.listed[w]}
        eligible == Eligible(bp[t].capability)
    IN /\ owner \subseteq eligible /\ Cardinality(owner) <= 1
       /\ owner \subseteq taken => eligible \subseteq taken
       /\ owner = {} => Members(TargetDepartment(bp[t].capability)) = {}

\* Every time a plan's tasks are dealt out, for the first time or again, they are
\* dealt fairly over the staff of that moment.
AssignmentIsFair ==
  [][\A id \in MissionIds : plan'[id].listed # plan[id].listed => DealtFairly(plan'[id])]_deskVars
=============================================================================
