--------------------------- MODULE ProjectKnowledge ---------------------------
(***************************************************************************)
(* What the first generation knows of a workspace: the read cache of the   *)
(* VirtualFileSystem, the syntax trees the ContextBuilder keeps, and the   *)
(* index of ProjectKnowledgeService in the SQLite file.  The three live in *)
(* one process, me; it indexes and builds contexts one after the other,    *)
(* while editors, git and providers change the files at any time.          *)
(***************************************************************************)
EXTENDS SqliteStore

CONSTANTS
  me,         \* the session that indexes
  Files,      \* the source files of the workspace
  Contents,   \* what a readable file may hold
  Malformed,  \* the content the parser refuses
  Lists,      \* the workspaceFiles of a call
  Releases,   \* the values of KNOWLEDGE_SCHEMA_VERSION
  MaxTime     \* bound: the mtimes of a file

ASSUME KnowledgeAssumption ==
  /\ me \in Sessions /\ Malformed \in Contents
  /\ Lists \subseteq Seq(Files) /\ MaxTime \in Nat
  /\ {"absent", "unreadable"} \cap Contents = {}

VARIABLES
  wired,      \* is the knowledge service there (demo.ts), or not (main.ts)?
  release,    \* the schema version of the program that runs
  file,       \* the files: content and mtime
  vfs, ast,   \* the entries "file:<path>" and "ast:<path>" of the InMemoryCache
  job,        \* the call that runs
  touched,    \* the files changed since it began (history)
  times,      \* the mtimes a file had (history)
  repeated    \* the files whose mtime stood for another version before (history)

sources == <<file, times, repeated>>
cacheVars == <<vfs, ast>>
knowledgeVars == <<wired, release, sources, vfs, ast, job, touched>>

NotCached == [content |-> "none", time |-> 0]
NoStat == 0
Idle == [kind |-> "none", project |-> Nobody, list |-> <<>>, next |-> 1,
         known |-> <<>>, force |-> FALSE, stat |-> NoStat, checked |-> FALSE]

KnowledgeInit ==
  /\ wired \in BOOLEAN
  /\ release \in Releases
  /\ file \in [Files -> {[content |-> c, time |-> 1] : c \in Contents \cup {"absent"}}]
  /\ vfs = [f \in Files |-> NotCached]
  /\ ast = [f \in Files |-> "none"]
  /\ job = Idle /\ touched = {}
  /\ times = [f \in Files |-> IF file[f].content = "absent" THEN {} ELSE {1}]
  /\ repeated = {}

\* Somebody writes, moves, copies or locks away a file; its mtime is any, also
\* one it had before (a write in the same tick, cp -p, or mv there and back).
Change(f, c, t) ==
  /\ t # file[f].time \/ c # file[f].content
  /\ file' = [file EXCEPT ![f] = [content |-> c, time |-> t]]
  /\ times' = [times EXCEPT ![f] = @ \cup {t}]
  /\ repeated' = IF t \in times[f] THEN repeated \cup {f} ELSE repeated \ {f}
  /\ touched' = IF job = Idle THEN {} ELSE touched \cup {f}
  /\ UNCHANGED <<storeVars, wired, release, cacheVars, job>>

Remove(f) ==
  /\ file[f].content # "absent"
  /\ file' = [file EXCEPT ![f] = [content |-> "absent", time |-> @.time]]
  /\ repeated' = repeated \ {f}
  /\ touched' = IF job = Idle THEN {} ELSE touched \cup {f}
  /\ UNCHANGED <<storeVars, wired, release, times, cacheVars, job>>

\* The process ends; the next one has empty caches and may be another release.
ProcessEnds ==
  /\ SessionEnds(me)
  /\ vfs' = [f \in Files |-> NotCached]
  /\ ast' = [f \in Files |-> "none"]
  /\ job' = Idle /\ touched' = {}
  /\ release' \in Releases
  /\ UNCHANGED <<wired, sources>>

-----------------------------------------------------------------------------
(* VirtualFileSystem.readFile(): statSync, then readFileSync.              *)

At == job.list[job.next]
InList == job.next \in DOMAIN job.list
Done == [job EXCEPT !.next = @ + 1, !.stat = NoStat, !.checked = FALSE]

\* Variant: what was read once is read again from the cache.
CachedOnce(f) == vfs[f] # NotCached
Cached(f) == vfs[f] # NotCached /\ vfs[f].time = file[f].time

\* The file is there and not as it was when it was read: its mtime is noted.
Stat ==
  /\ job.stat = NoStat
  /\ file[At].content # "absent" /\ ~ Cached(At)
  /\ job' = [job EXCEPT !.stat = file[At].time]

\* What readFile() returns in this step, if it does: '' without a file, the
\* cached content, or what is read now.
Returns(content) ==
  \/ job.stat = NoStat /\ file[At].content = "absent" /\ content = "absent" /\ UNCHANGED vfs
  \/ job.stat = NoStat /\ file[At].content # "absent" /\ Cached(At)
       /\ content = vfs[At].content /\ UNCHANGED vfs
  \/ job.stat # NoStat /\ file[At].content \in Contents /\ content = file[At].content
       /\ vfs' = [vfs EXCEPT ![At] = [content |-> content, time |-> job.stat]]

\* readFile() throws: the file went after the stat, or may not be read.
Throws ==
  /\ job.stat # NoStat
  /\ file[At].content \in {"absent", "unreadable"}
  /\ UNCHANGED vfs

Parses(content) == content # Malformed

-----------------------------------------------------------------------------
(* ProjectKnowledgeService.indexProject()                                  *)

Indexing == job.kind = "index"
FileRow(content) == [project |-> job.project, hash |-> content, release |-> release]
RowsOf(db, p) == {f \in DOMAIN db["project_files"] : db["project_files"][f].project = p}

\* The transaction begins with the project, the check of the schema version,
\* and the metadata.
StartIndex(p, list) ==
  /\ wired /\ job = Idle
  /\ conn[me] = "ready" /\ writer = Nobody /\ Tables \subseteq tables
  /\ writer' = me
  /\ LET db == IF p \in DOMAIN disk["projects"] THEN disk ELSE With(disk, "projects", p, [id |-> p])
         meta == db["project_metadata"]
         mismatch == p \in DOMAIN meta /\ meta[p].release # release
         purged == IF mismatch THEN Without(db, "project_files", RowsOf(db, p)) ELSE db IN
     /\ work' = With(purged, "project_metadata", p, [project |-> p, release |-> release])
     /\ job' = [Idle EXCEPT !.kind = "index", !.project = p, !.list = list, !.force = mismatch,
                            !.known = [f \in RowsOf(purged, p) |-> purged["project_files"][f].hash]]
  /\ touched' = {}
  /\ UNCHANGED <<disk, schemaVars, conn, position, wired, release, sources, cacheVars>>

IndexStat ==
  /\ Indexing /\ InList
  /\ Stat
  /\ UNCHANGED <<storeVars, wired, release, sources, cacheVars, touched>>

Unchanged(content) == ~ job.force /\ At \in DOMAIN job.known /\ job.known[At] = content

\* A file that is new or changed, and parses, is written; others keep their row.
IndexFile ==
  /\ Indexing /\ InList
  /\ \/ \E content \in Contents \cup {"absent"} :
          /\ Returns(content)
          /\ work' = IF ~ Unchanged(content) /\ Parses(content)
                       THEN With(work, "project_files", At, FileRow(content)) ELSE work
     \/ Throws /\ UNCHANGED work
  /\ job' = Done
  /\ UNCHANGED <<schemaVars, disk, writer, conn, position, wired, release, sources, ast, touched>>

\* Variant: every path that is not in the list is purged.
PurgeOthers == DOMAIN work["project_files"] \ Range(job.list)
Purged == DOMAIN job.known \ Range(job.list)

FinishIndex ==
  /\ Indexing /\ ~ InList
  /\ writer' = Nobody
  /\ work' = Without(work, "project_files", Purged)
  /\ disk' = work'
  /\ job' = Idle /\ touched' = {}
  /\ UNCHANGED <<schemaVars, conn, position, wired, release, sources, cacheVars>>

\* A statement fails (a full disk): runInTransaction() rolls back and throws.
AbortIndex ==
  /\ Indexing
  /\ RollbackTransaction(me)
  /\ job' = Idle /\ touched' = {}
  /\ UNCHANGED <<wired, release, sources, cacheVars>>

-----------------------------------------------------------------------------
(* ContextBuilder.buildContext(): the syntax tree of every file, from the  *)
(* cache, the index, or the file.                                          *)

Building == job.kind = "context"

StartContext(list) ==
  /\ job = Idle /\ conn[me] = "ready"
  /\ job' = [Idle EXCEPT !.kind = "context", !.list = list]
  /\ touched' = {}
  /\ UNCHANGED <<storeVars, wired, release, sources, cacheVars>>

\* hasFileChanged() says no, and there is a tree.
Reused(f) == ast[f] # "none" /\ Cached(f) /\ file[f].content # "absent"

Known(f) == wired /\ f \in DOMAIN Db(me)["project_files"]

CheckFile ==
  /\ Building /\ InList /\ ~ job.checked
  /\ \/ Reused(At) /\ job' = Done /\ UNCHANGED ast
     \/ /\ ~ Reused(At) /\ Known(At)
        /\ ast' = [ast EXCEPT ![At] = Db(me)["project_files"][At].hash]
        /\ job' = Done
     \/ ~ Reused(At) /\ ~ Known(At) /\ job' = [job EXCEPT !.checked = TRUE] /\ UNCHANGED ast
  /\ UNCHANGED <<storeVars, wired, release, sources, vfs, touched>>

ContextStat ==
  /\ Building /\ InList /\ job.checked
  /\ Stat
  /\ UNCHANGED <<storeVars, wired, release, sources, cacheVars, touched>>

\* The parser's refusal, and readFile()'s, end the call.
ParseFile ==
  /\ Building /\ InList /\ job.checked
  /\ \/ \E content \in Contents \cup {"absent"} :
          /\ Returns(content)
          /\ IF Parses(content) THEN ast' = [ast EXCEPT ![At] = content] /\ job' = Done
                                ELSE UNCHANGED ast /\ job' = Idle
     \/ Throws /\ UNCHANGED ast /\ job' = Idle
  /\ touched' = IF job' = Idle THEN {} ELSE touched
  /\ UNCHANGED <<storeVars, wired, release, sources>>

FinishContext ==
  /\ Building /\ ~ InList
  /\ job' = Idle /\ touched' = {}
  /\ UNCHANGED <<storeVars, wired, release, sources, cacheVars>>

KnowledgeNext ==
  \/ \E f \in Files :
       \/ Remove(f)
       \/ \E c \in Contents \cup {"unreadable"}, t \in 1..MaxTime : Change(f, c, t)
  \/ ProcessEnds
  \/ \E list \in Lists :
       StartContext(list) \/ \E p \in ProjectIds : StartIndex(p, list)
  \/ IndexStat \/ IndexFile \/ FinishIndex \/ AbortIndex
  \/ CheckFile \/ ContextStat \/ ParseFile \/ FinishContext

\* Beside it other sessions use the store at any time, me between its calls.
Beside ==
  /\ \E s \in Sessions : (s = me => job = Idle) /\ StoreStep(s)
  /\ UNCHANGED knowledgeVars

KnowledgeSpec ==
  StoreInit /\ KnowledgeInit /\ [][KnowledgeNext \/ Beside]_<<storeVars, knowledgeVars>>

-----------------------------------------------------------------------------
(* Properties.                                                             *)

\* When an index commits, it says what the files hold: every file of the list
\* that nobody changed meanwhile, whose mtime did not stand for another version
\* before, and that can be read and parsed, has a row of
\* this project with its content, whatever was cached, skipped or taken from
\* another project; the project has no row of another file or of another
\* schema; and rows of other projects only go to files of the list.
IndexIsCurrent ==
  [][FinishIndex =>
       LET rows == disk["project_files"]
           rows2 == disk'["project_files"] IN
       /\ \A f \in Range(job.list) \ (touched \cup repeated) :
            file[f].content \in (Contents \ {Malformed}) \cup {"absent"} =>
              f \in DOMAIN rows2 /\ rows2[f] = FileRow(file[f].content)
       /\ \A f \in DOMAIN rows2 :
            rows2[f].project = job.project => f \in Range(job.list) /\ rows2[f].release = release
       /\ \A f \in DOMAIN rows \ Range(job.list) :
            rows[f].project # job.project => f \in DOMAIN rows2 /\ rows2[f] = rows[f]]_<<storeVars, knowledgeVars>>

\* What the caches would hand out now is what the file holds now: a read under
\* an old mtime, or a tree under a newer read, is never taken for current.
\* (The tree only without the index, with which trees are as old as their rows;
\* and not of a file that stopped parsing: the failed call has read it, so the
\* next one finds it unchanged and hands out the tree from before.  Versions are
\* told apart by mtime alone: nothing is said of one that has the mtime of an
\* earlier one, until the file is written again.)
CachesAreCurrent ==
  \A f \in Files \ repeated :
    /\ file[f].content \in Contents /\ Cached(f) => vfs[f].content = file[f].content
    /\ ~ wired /\ Reused(f) /\ file[f].content \in Contents \ {Malformed} =>
         ast[f] = file[f].content
=============================================================================
