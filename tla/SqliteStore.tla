----------------------------- MODULE SqliteStore -----------------------------
(***************************************************************************)
(* The SQLite file of the first generation, and the sessions (processes)   *)
(* that open it: SqliteDb.connect() with its migrations, and               *)
(* SqliteRepository with its transactions and writes.  Sessions may start  *)
(* on one file at the same time and die at every await; SQLite itself is   *)
(* external: it makes one statement, or one transaction, atomic, and lets  *)
(* one session write at a time.                                            *)
(***************************************************************************)
EXTENDS Naturals, Sequences, FiniteSets, Functions

CONSTANTS Sessions, Nobody, ProjectIds, TaskIds, ExecutionIds

ASSUME StoreAssumption == Nobody \notin Sessions

VARIABLES
  tables,     \* the tables of the file
  versions,   \* the rows of schema_migrations
  disk,       \* the committed rows: table -> key -> row
  writer,     \* the session with the write lock (BEGIN IMMEDIATE)
  work,       \* what the writer sees
  conn,       \* a session's handle: see Connections
  position    \* where its connect() stands in the migrations

storeVars == <<tables, versions, disk, writer, work, conn, position>>
schemaVars == <<tables, versions>>
rowVars == <<disk, writer, work>>

\* The tables of each migration, in the order of its statements.
Migrations ==
  << <<"projects", "tasks", "execution_records", "token_metrics", "resource_metrics">>,
     <<"project_metadata", "project_files">> >>
TablesOf(v) == Range(Migrations[v])
Tables == UNION {TablesOf(v) : v \in DOMAIN Migrations}

Connections == {"closed", "opened", "migrating", "ready", "refused"}
Start == [version |-> 1, step |-> 0]

StoreInit ==
  /\ tables = {} /\ versions = {}
  /\ disk = [t \in Tables |-> <<>>]
  /\ writer = Nobody /\ work = disk
  /\ conn = [s \in Sessions |-> "closed"]
  /\ position = [s \in Sessions |-> Start]

-----------------------------------------------------------------------------
(* connect()                                                               *)

\* Foreign keys are a setting of the connection, off until connect() says so.
Open(s) ==
  /\ conn[s] = "closed"
  /\ conn' = [conn EXCEPT ![s] = "opened"]
  /\ position' = [position EXCEPT ![s] = Start]
  /\ UNCHANGED <<schemaVars, rowVars>>

\* PRAGMA journal_mode = WAL comes before the busy_timeout is set.  It, or the
\* statement that makes schema_migrations (again, if it is there), may find the
\* file locked by a session that has it open.
SetPragmas(s) ==
  /\ conn[s] = "opened"
  /\ \/ conn' = [conn EXCEPT ![s] = "migrating"]
     \/ /\ \E other \in Sessions \ {s} : conn[other] # "closed"
        /\ conn' = [conn EXCEPT ![s] = "refused"]
  /\ UNCHANGED <<position, schemaVars, rowVars>>

NextVersion(s) ==
  IF position[s].version = Len(Migrations)
    THEN conn' = [conn EXCEPT ![s] = "ready"] /\ UNCHANGED position
    ELSE position' = [position EXCEPT ![s] = [version |-> @.version + 1, step |-> 0]] /\ UNCHANGED conn

\* Is the version recorded?  If not, its statements are the next.
LookForVersion(s) ==
  /\ conn[s] = "migrating" /\ position[s].step = 0
  /\ IF position[s].version \in versions
       THEN NextVersion(s)
       ELSE position' = [position EXCEPT ![s].step = 1] /\ UNCHANGED conn
  /\ UNCHANGED <<schemaVars, rowVars>>

AtStatement(s) ==
  /\ conn[s] = "migrating"
  /\ position[s].step \in DOMAIN Migrations[position[s].version]
Statement(s) == Migrations[position[s].version][position[s].step]

\* Variant: CREATE TABLE without IF NOT EXISTS.
CreateTableOnce(s) ==
  /\ AtStatement(s) /\ writer = Nobody
  /\ IF Statement(s) \in tables
       THEN conn' = [conn EXCEPT ![s] = "refused"] /\ UNCHANGED <<tables, position>>
       ELSE /\ tables' = tables \cup {Statement(s)}
            /\ position' = [position EXCEPT ![s].step = @ + 1]
            /\ UNCHANGED conn
  /\ UNCHANGED <<versions, rowVars>>

CreateTable(s) ==
  /\ AtStatement(s) /\ writer = Nobody
  /\ tables' = tables \cup {Statement(s)}
  /\ position' = [position EXCEPT ![s].step = @ + 1]
  /\ UNCHANGED <<versions, conn, rowVars>>

\* The version is a primary key: who records it second is refused, and
\* connect() throws.
RecordVersion(s) ==
  /\ conn[s] = "migrating" /\ writer = Nobody
  /\ position[s].step = Len(Migrations[position[s].version]) + 1
  /\ LET v == position[s].version IN
     IF v \in versions
       THEN conn' = [conn EXCEPT ![s] = "refused"] /\ UNCHANGED <<versions, position>>
       ELSE versions' = versions \cup {v} /\ NextVersion(s)
  /\ UNCHANGED <<tables, rowVars>>

\* The write lock is another's for longer than busy_timeout.
MigrationLockedOut(s) ==
  /\ conn[s] = "migrating" /\ position[s].step > 0
  /\ writer \notin {Nobody, s}
  /\ conn' = [conn EXCEPT ![s] = "refused"]
  /\ UNCHANGED <<position, schemaVars, rowVars>>

\* close(), the exit after a refused connect(), or the death of the process:
\* SQLite drops what was not committed.
SessionEnds(s) ==
  /\ conn[s] # "closed"
  /\ conn' = [conn EXCEPT ![s] = "closed"]
  /\ writer' = IF writer = s THEN Nobody ELSE writer
  /\ work' = IF writer = s THEN disk ELSE work
  /\ UNCHANGED <<position, disk, schemaVars>>

-----------------------------------------------------------------------------
(* Statements and transactions of a session that is ready.                 *)

\* The keys a row refers to.
Parents(t, row) ==
  CASE t = "tasks" -> {<<"projects", row.project>>}
    [] t = "execution_records" -> {<<"projects", row.project>>, <<"tasks", row.task>>}
    [] t \in {"token_metrics", "resource_metrics"} -> {<<"execution_records", row.execution>>}
    [] t \in {"project_metadata", "project_files"} -> {<<"projects", row.project>>}
    [] OTHER -> {}

HasParents(db, t, row) == \A parent \in Parents(t, row) : parent[2] \in DOMAIN db[parent[1]]
With(db, t, key, row) == [db EXCEPT ![t] = [k \in DOMAIN @ \cup {key} |-> IF k = key THEN row ELSE @[k]]]
Without(db, t, keys) == [db EXCEPT ![t] = Restrict(@, DOMAIN @ \ keys)]

\* What a statement of s sees, and whether it may write now (otherwise it waits,
\* or is refused after busy_timeout).
Db(s) == IF writer = s THEN work ELSE disk
MayWrite(s, t) == conn[s] = "ready" /\ writer \in {Nobody, s} /\ t \in tables

\* One statement: part of the session's transaction, or a commit of its own.
Run(s, db) ==
  /\ work' = db
  /\ disk' = IF writer = s THEN disk ELSE db
  /\ UNCHANGED writer

\* A statement that is refused.  In runInTransaction() it is the exception that
\* ends the work, and the repository rolls back.
Refused(s) ==
  /\ writer' = Nobody /\ work' = disk
  /\ UNCHANGED disk

BeginTransaction(s) ==
  /\ conn[s] = "ready" /\ writer = Nobody
  /\ writer' = s /\ work' = disk
  /\ UNCHANGED <<disk, conn, position, schemaVars>>

CommitTransaction(s) ==
  /\ writer = s
  /\ writer' = Nobody /\ disk' = work
  /\ UNCHANGED <<work, conn, position, schemaVars>>

RollbackTransaction(s) ==
  /\ writer = s
  /\ Refused(s)
  /\ UNCHANGED <<conn, position, schemaVars>>

\* Variant: nobody looks at the parents of a row (foreign_keys = OFF).
InsertUnchecked(s, t, key, row) ==
  /\ MayWrite(s, t)
  /\ IF key \notin DOMAIN Db(s)[t] THEN Run(s, With(Db(s), t, key, row)) ELSE Refused(s)
  /\ UNCHANGED <<conn, position, schemaVars>>

Insert(s, t, key, row) ==
  /\ MayWrite(s, t)
  /\ IF key \notin DOMAIN Db(s)[t] /\ HasParents(Db(s), t, row)
       THEN Run(s, With(Db(s), t, key, row))
       ELSE Refused(s)
  /\ UNCHANGED <<conn, position, schemaVars>>

\* INSERT ... ON CONFLICT DO UPDATE: the row that is there stays, some of its
\* columns change.
Update(s, t, key, row) ==
  /\ MayWrite(s, t) /\ key \in DOMAIN Db(s)[t]
  /\ Run(s, With(Db(s), t, key, row))
  /\ UNCHANGED <<conn, position, schemaVars>>

CreateProject(s, p) == Insert(s, "projects", p, [id |-> p])
CreateTask(s, t, p) == Insert(s, "tasks", t, [project |-> p, status |-> "PENDING"])

\* An UPDATE of a task that is not there changes nothing.
UpdateTask(s, t, status) ==
  /\ t \in DOMAIN Db(s)["tasks"]
  /\ Update(s, "tasks", t, [Db(s)["tasks"][t] EXCEPT !.status = status])

Execution(p, t, status) == [project |-> p, task |-> t, status |-> status]

\* The second save of an execution changes its status; its task stays.
SaveExecutionRecord(s, e, p, t, status) ==
  IF e \in DOMAIN Db(s)["execution_records"]
    THEN Update(s, "execution_records", e, [Db(s)["execution_records"][e] EXCEPT !.status = status])
    ELSE Insert(s, "execution_records", e, Execution(p, t, status))

\* Token and resource metrics (one of each per execution here).
SaveMetrics(s, t, e) ==
  IF e \in DOMAIN Db(s)[t] THEN Update(s, t, e, Db(s)[t][e])
                           ELSE Insert(s, t, e, [execution |-> e])

StoreStep(s) ==
  \/ Open(s) \/ SetPragmas(s) \/ LookForVersion(s) \/ CreateTable(s) \/ RecordVersion(s)
  \/ MigrationLockedOut(s) \/ SessionEnds(s)
  \/ BeginTransaction(s) \/ CommitTransaction(s) \/ RollbackTransaction(s)
  \/ \E p \in ProjectIds, t \in TaskIds, e \in ExecutionIds :
       \/ CreateProject(s, p)
       \/ CreateTask(s, t, p)
       \/ \E status \in {"RUNNING", "COMPLETED"} :
            UpdateTask(s, t, status) \/ SaveExecutionRecord(s, e, p, t, status)
       \/ \E m \in {"token_metrics", "resource_metrics"} : SaveMetrics(s, m, e)

StoreNext == \E s \in Sessions : StoreStep(s)

StoreSpec == StoreInit /\ [][StoreNext]_storeVars

-----------------------------------------------------------------------------
(* Properties.                                                             *)

\* getTelemetryByExecution(): an execution and the metrics that are there.
Telemetry(e) ==
  [of |-> <<disk["execution_records"][e].project, disk["execution_records"][e].task>>,
   metrics |-> {t \in {"token_metrics", "resource_metrics"} :
                  \E key \in DOMAIN disk[t] : disk[t][key].execution = e}]

\* A version that is recorded has all its tables, and who is ready has every
\* table, whoever migrated the file and wherever a migration was cut short.
\* Every committed row has the rows it refers to: neither a connection without
\* foreign keys nor half a transaction leaves telemetry without its execution,
\* or knowledge without its project.
StoreIsWhole ==
  /\ \A v \in versions : TablesOf(v) \subseteq tables
  /\ \A s \in Sessions : conn[s] = "ready" => tables = Tables
  /\ \A t \in Tables : \A key \in DOMAIN disk[t] : HasParents(disk, t, disk[t][key])

\* The migrations can be repeated from wherever they were cut short: connect()
\* is refused only to a session that races another one, which has the file open
\* when it sets the journal mode, recorded the version since it looked, or holds
\* the write lock.
OnlyARaceIsRefused ==
  [][\A s \in Sessions :
       conn'[s] = "refused" /\ conn[s] # "refused" =>
         \/ conn[s] = "opened" /\ \E other \in Sessions \ {s} : conn[other] # "closed"
         \/ writer \notin {Nobody, s}
         \/ position[s].version \in versions /\ position[s].step > 0]_storeVars

\* What was reported of an execution stays: its task and project never change,
\* its metrics never go, whatever is saved, rolled back or cut short later.
TelemetryIsKept ==
  [][\A e \in DOMAIN disk["execution_records"] :
       /\ e \in DOMAIN disk'["execution_records"]
       /\ Telemetry(e)'.of = Telemetry(e).of
       /\ Telemetry(e).metrics \subseteq Telemetry(e)'.metrics]_storeVars
=============================================================================
