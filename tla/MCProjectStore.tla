---------------------------- MODULE MCProjectStore ----------------------------
(***************************************************************************)
(* The store of the first generation.  A behaviour is about two sessions   *)
(* that open one new file and write their rows, or about the knowledge of  *)
(* one session in a file that is migrated.                                 *)
(***************************************************************************)
EXTENDS ProjectKnowledge

CONSTANTS f1, f2, p1, A, B

VARIABLE subject

MCVars == <<subject, storeVars, knowledgeVars>>

MCLists == {<<f1>>, <<f1, f2>>}

\* A file that an earlier session migrated, and a session that opened it.
Migrated ==
  /\ tables = Tables /\ versions = DOMAIN Migrations
  /\ disk = [t \in Tables |-> <<>>] /\ work = disk /\ writer = Nobody
  /\ conn = [s \in Sessions |-> IF s = me THEN "ready" ELSE "closed"]
  /\ position = [s \in Sessions |-> Start]

MCInit ==
  \/ subject = "rows" /\ StoreInit /\ KnowledgeInit
       /\ ~ wired /\ release = 1 /\ \A f \in Files : file[f].content = "absent"
  \/ subject = "knowledge" /\ Migrated /\ KnowledgeInit /\ release = 1
       /\ file[f2].content = A /\ file[f1].content \in {A, "absent"}

\* The first file changes, the second one stays; mtimes are numbered as they come.
\* With the index a file has two of them, and only the first is repeated, by B.
MCChanges ==
  /\ file'[f2] = [content |-> A, time |-> 1]
  /\ times'[f1] = 1..Cardinality(times'[f1])
  /\ wired => Cardinality(times'[f1]) <= 2
  /\ wired /\ f1 \in repeated' => times'[f1] = {1} /\ file'[f1].content = B

MCNext ==
  /\ UNCHANGED subject
  /\ \/ subject = "rows" /\ StoreNext /\ UNCHANGED knowledgeVars
     \/ subject = "knowledge" /\ KnowledgeNext /\ MCChanges
     \/ /\ subject = "knowledge" /\ UNCHANGED knowledgeVars
        /\ Open(me) \/ SetPragmas(me) \/ LookForVersion(me)

MCSpec == MCInit /\ [][MCNext]_MCVars

InRow ==
  /\ release = 1
  /\ f1 \in DOMAIN disk["project_files"] /\ disk["project_files"][f1].hash = A

\* Telemetry is about one project and its task; with the index, a context takes the
\* tree of the first file from its row, and nothing changes meanwhile.
MCBounded ==
  IF subject = "rows" THEN DOMAIN work["projects"] \subseteq {p1}
    ELSE wired /\ job.kind = "context" => job.list = <<f1>> /\ InRow /\ touched = {}
=============================================================================
