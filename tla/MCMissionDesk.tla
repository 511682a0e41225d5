--------------------------- MODULE MCMissionDesk ---------------------------
(***************************************************************************)
(* The mission desk: assignment of plans, graphs of tasks, collaboration,  *)
(* and the providers' plugins.  They share no state, so a behaviour is     *)
(* about one of the four.                                                  *)
(***************************************************************************)
EXTENDS MissionDesk, TaskGraph, Collaboration, RuntimePlugins

CONSTANTS alice, bob, carol, mock, mock2, mock3, mockId

VARIABLE subject

\* Three objects of one id: another declares more, and a version that is no
\* number; the last one needs a newer kernel.  As in a kernel without the
\* default providers, the default plugin is not registered: who has no provider
\* is sent to whichever plugin can reason.
MCManifest == [p \in {mock, mock2, mock3} |->
  [id |-> mockId, complete |-> TRUE, max |-> IF p = mock THEN 2 ELSE None,
   min |-> CASE p = mock -> 2 [] p = mock2 -> NaN [] OTHER -> 3,
   capabilities |-> IF p = mock2 THEN {"Reasoning", "Cancellation"} ELSE {"Reasoning"}]]

MCVars == <<subject, deskVars, graphVars, collabVars, pluginVars>>

\* alice and bob are backend engineers, and one of them has no listed skill;
\* carol, a documentation engineer, can also do the work of QA.
MCDepartmentOf ==
  alice :> "Backend" @@ bob :> "Backend" @@ carol :> "Documentation"
MCSkillsOf ==
  alice :> {"Backend"} @@ bob :> {} @@ carol :> {"Documentation", "QA"}

\* Goals of each size, one of them small in words that are too many.
MCGoals ==
  {text \in Texts : Cardinality({k \in {"enterprise", "large", "small"} : text[k]}) <= 1
                    /\ (text.short <=> text.enterprise \/ text.small)}
    \cup {[enterprise |-> FALSE, large |-> FALSE, small |-> TRUE, short |-> FALSE]}

MCInit ==
  /\ subject \in {"desk", "graph", "team", "plugins"}
  /\ DeskInit /\ GraphInit /\ CollabInit /\ PluginsInit

MCNext ==
  /\ UNCHANGED subject
  /\ \/ subject = "desk" /\ DeskNext /\ UNCHANGED <<graphVars, collabVars, pluginVars>>
     \/ subject = "graph" /\ GraphNext /\ UNCHANGED <<deskVars, collabVars, pluginVars>>
     \/ subject = "team" /\ CollabNext /\ UNCHANGED <<deskVars, graphVars, pluginVars>>
     \/ subject = "plugins" /\ PluginsNext /\ UNCHANGED <<deskVars, graphVars, collabVars>>

\* A mission of another size than SMALL is planned and assigned, and not carried
\* out; while one is carried out, everybody is on the staff.
AsAssigned(p) == \A t \in DOMAIN p.tasks : p.tasks[t].status \in {"PENDING", "READY", "ASSIGNED"}
MCBounded ==
  /\ Len(pending) <= 1
  /\ \A id \in MissionIds :
       plan[id].tier # "none" =>
         \/ missions[id] = "CREATED" /\ pending = <<>> /\ AsAssigned(plan[id])
         \/ plan[id].tier = "SMALL" /\ Len(staff) = 3 /\ busy = {}
  /\ Cardinality(sending \cup UNION {outbox[w] : w \in Colleagues}) <= 2

MCSpec == MCInit /\ [][MCNext]_MCVars
=============================================================================
