------------------------ MODULE KernelAndStoreProofs ------------------------
(***************************************************************************)
(* Theorems about the life of a process: KernelLifecycle, its start, its   *)
(* errors and its end, for any number of workers; and about the file that  *)
(* outlives it, SqliteStore and ProjectKnowledge, for any number of        *)
(* sessions, projects, tasks, executions and files: migrations that race   *)
(* and die leave a whole schema, committed rows have what they refer to,   *)
(* telemetry stays, and the index and the caches say what the files hold.  *)
(***************************************************************************)
EXTENDS KernelLifecycle, ProjectKnowledge, TLAPS

-----------------------------------------------------------------------------
(* The life of the process (KernelLifecycle).                              *)

Status == {"null", "open", "closing"}

-----------------------------------------------------------------------------
(* The store that is closed next.                                          *)

\* It has a handle, and those before it have none; when nothing is left to
\* close, nothing from the given rank on has a handle.
LEMMA NextToCloseFacts ==
  ASSUME NEW d \in [Stores -> Status], NEW i \in 1..4
  PROVE  /\ NextToClose(d, i) \in Stores \cup {"returned"}
         /\ NextToClose(d, i) \in Stores => d[NextToClose(d, i)] # "null"
         /\ i = 1 /\ NextToClose(d, i) # "events" => d["events"] = "null"
PROOF
  <1> DEFINE open == {s \in Stores : Rank[s] >= i /\ d[s] # "null"}
             first(s) == s \in open /\ \A r \in open : Rank[s] <= Rank[r]
  <1>1. Stores = {"events", "memory", "workforce"}
        /\ Rank["events"] = 1 /\ Rank["memory"] = 2 /\ Rank["workforce"] = 3
    BY DEF Stores, Rank
  <1>2. CASE open = {}
    <2>1. NextToClose(d, i) = "returned"
      BY <1>2 DEF NextToClose
    <2> QED
      BY <1>1, <1>2, <2>1
  <1>3. CASE open # {}
    <2>1. \E s \in Stores : first(s)
      <3>1. CASE "events" \in open
        BY <1>1, <3>1
      <3>2. CASE "events" \notin open /\ "memory" \in open
        BY <1>1, <3>2
      <3>3. CASE "events" \notin open /\ "memory" \notin open
        BY <1>1, <1>3, <3>3
      <3> QED
        BY <3>1, <3>2, <3>3
    <2>2. NextToClose(d, i) = CHOOSE s \in Stores :
            /\ Rank[s] >= i /\ d[s] # "null"
            /\ \A r \in Stores : Rank[r] >= i /\ d[r] # "null" => Rank[s] <= Rank[r]
      BY <1>3 DEF NextToClose
    <2>3. \E s \in Stores :
            /\ Rank[s] >= i /\ d[s] # "null"
            /\ \A r \in Stores : Rank[r] >= i /\ d[r] # "null" => Rank[s] <= Rank[r]
      BY <2>1
    <2>4. first(NextToClose(d, i))
      <3> HIDE DEF Stores
      <3> QED
        BY <2>2, <2>3
    <2>5. i = 1 /\ NextToClose(d, i) # "events" => d["events"] = "null"
      BY <1>1, <2>4
    <2> QED
      BY <2>4, <2>5
  <1> QED
    BY <1>2, <1>3

-----------------------------------------------------------------------------
(* The invariant.                                                          *)

\* Before the tail of boot() there is nothing to shut down.
BootInv ==
  /\ main \in Connecting =>
       /\ ~isBooted /\ employed = {}
       /\ \A w \in Workers : process[w] = "none" /\ former[w] = {}
       /\ Alive => shuttingDown = "no"
  /\ main \in Connecting \cup {"providers", "launch"} =>
       screen = "off" /\ pc["terminal"] = "idle"
  /\ main = "threw" => exit = "one"
  /\ screen # "off" => main = "interface" /\ pc["terminal"] = "idle"

\* Who can be told to end is on the staff, and a shutdown lets the staff go; of
\* the children that were replaced only one spawned over has heard of nothing.
StaffInv ==
  /\ \A w \in Workers : Abandoned(w) => w \in employed
  /\ \A w \in Workers : \A p \in former[w] : Untouched(p) => w \in doubled
  /\ \A w \in Workers : process[w] = "suspended" => killed[w]
  /\ employed # {} => isBooted
  /\ shuttingDown # "no" \/ pc["terminal"] # "idle" => employed = {}
  /\ main \notin Connecting \cup {"threw"} /\ ~heartbeat =>
       shuttingDown # "no" \/ pc["terminal"] # "idle"

\* A caller waits for a handle that closes, and a handle that closes answers to
\* the caller who began that.  The event log is behind whoever is past it.
Waiting ==
  /\ \A c \in Callers : pc[c] \in Stores => db[pc[c]] = "closing"
  /\ \A s \in Stores : db[s] = "closing" => pc[closer[s]] = s
  /\ \A c \in Callers : pc[c] = "returned" => ~isBooted
  /\ \A c \in Callers : pc[c] # "idle" /\ main \notin Connecting \cup {"threw"} =>
       isClosed /\ (pc[c] # "events" => db["events"] = "null")
  /\ ~isBooted /\ main \notin Connecting \cup {"threw"} =>
       isClosed /\ db["events"] = "null"

ClosingInv ==
  /\ Waiting
  /\ shuttingDown = "no" <=> pc["guardian"] = "idle"
  /\ Alive => pc["guardian"] \notin {"returned", "threw"}

\* A fatal error is being contained, or has ended the program.
FatalInv ==
  /\ fatal => shuttingDown = "fatal" \/ exit = "one"
  /\ exit = "zero" => ~fatal

Inv ==
  /\ TypeOK /\ BootInv /\ StaffInv /\ ClosingInv /\ FatalInv
  /\ NobodyIsAbandoned /\ ZeroMeansDrained

-----------------------------------------------------------------------------
(* It is inductive.                                                        *)

LEMMA StoreNames ==
  /\ Stores = {"events", "memory", "workforce"} /\ Callers = {"guardian", "terminal"}
  /\ Rank["events"] = 1 /\ Rank["memory"] = 2 /\ Rank["workforce"] = 3
  /\ Connecting = {"events", "memory", "workforce", "projects", "plugins"}
PROOF
  BY DEF Stores, Callers, Rank, Connecting

LEMMA InitInv == Init => Inv
PROOF
  <1> SUFFICES ASSUME Init PROVE Inv
    OBVIOUS
  <1>1. TypeOK
    BY DEF Init, TypeOK, Stages, Connecting, Callers, Tabs
  <1>2. BootInv /\ FatalInv
    BY StoreNames DEF Init, BootInv, FatalInv, Alive
  <1>3. StaffInv
    BY StoreNames DEF Init, StaffInv, Abandoned
  <1>4. ClosingInv
    BY StoreNames DEF Init, ClosingInv, Waiting
  <1>5. NobodyIsAbandoned /\ ZeroMeansDrained
    BY DEF Init, NobodyIsAbandoned, ZeroMeansDrained, Alive
  <1> QED
    BY <1>1, <1>2, <1>3, <1>4, <1>5 DEF Inv

\* What BeginShutdown does, in one of its two ways.
ShutdownBegun(c) ==
  LET s == pc'[c] IN
  /\ pc' = [pc EXCEPT ![c] = s] /\ s \in Stores \cup {"returned"}
  /\ isBooted' = (isBooted /\ s # "returned")
  /\ employed' = {} /\ \A w \in Workers : ~Abandoned(w)'
  /\ process' \in [Workers -> {"none", "running", "suspended", "told", "gone"}]
  /\ killed' \in [Workers -> BOOLEAN]
  /\ UNCHANGED <<former, doubled, backoff>>
  /\ db' \in [Stores -> Status] /\ closer' \in [Stores -> Callers]
  /\ isClosed' \in BOOLEAN /\ heartbeat' \in BOOLEAN
  /\ \A r \in Stores :
       \/ r # s /\ db'[r] = db[r] /\ closer'[r] = closer[r]
       \/ r = s /\ db'[r] = "closing"
          /\ IF db[r] = "open" THEN closer'[r] = c
             ELSE db[r] = "closing" /\ closer'[r] = closer[r]
  /\ main \notin Connecting => isClosed' /\ (s # "events" => db'["events"] = "null")
  /\ main \in Connecting =>
       s = "returned" /\ UNCHANGED <<isBooted, heartbeat, db, closer, isClosed, staff>>

LEMMA BeginShutdownStep ==
  ASSUME Inv, Alive, main \notin Connecting \/ ~isBooted, main # "threw",
         NEW c \in Callers, pc[c] = "idle", BeginShutdown(c)
  PROVE  ShutdownBegun(c)
PROOF
  <1>1. CASE ~isBooted
    <2>1. /\ pc' = [pc EXCEPT ![c] = "returned"]
          /\ UNCHANGED <<isBooted, heartbeat, db, closer, isClosed, staff>>
      BY <1>1 DEF BeginShutdown
    <2>2. employed = {} /\ \A w \in Workers : ~Abandoned(w)
      BY <1>1 DEF Inv, StaffInv
    <2>3. pc'[c] = "returned"
      BY <2>1 DEF Inv, TypeOK
    <2>4. \A w \in Workers : ~Abandoned(w)'
      BY <2>1, <2>2 DEF Abandoned, staff
    <2>5. main \notin Connecting => isClosed /\ db["events"] = "null"
      BY <1>1 DEF Inv, ClosingInv, Waiting
    <2> QED
      BY <2>1, <2>2, <2>3, <2>4, <2>5, <1>1, StoreNames
         DEF Inv, TypeOK, Status, ShutdownBegun, staff
  <1>2. CASE isBooted
    <2> DEFINE s == NextToClose(db, 1)
    <2>1. /\ StopWorkers /\ isClosed' = TRUE /\ Reach(c, s, db) /\ pc' = [pc EXCEPT ![c] = s]
      BY <1>2 DEF BeginShutdown
    <2>2. db \in [Stores -> Status] /\ closer \in [Stores -> Callers]
          /\ pc \in [Callers -> Stores \cup {"idle", "returned", "threw"}]
          /\ process \in [Workers -> {"none", "running", "suspended", "told", "gone"}]
          /\ killed \in [Workers -> BOOLEAN] /\ heartbeat \in BOOLEAN
      BY DEF Inv, TypeOK, Status
    <2>3. /\ s \in Stores \cup {"returned"}
          /\ s \in Stores => db[s] # "null"
          /\ s # "events" => db["events"] = "null"
      BY <2>2, NextToCloseFacts
    <2> HIDE DEF s
    <2>4. pc'[c] = s
      BY <2>1, <2>2
    <2>5. /\ db' = IF s \in Stores THEN [db EXCEPT ![s] = "closing"] ELSE db
          /\ closer' = IF s \in Stores /\ db[s] = "open" THEN [closer EXCEPT ![s] = c] ELSE closer
          /\ isBooted' = (isBooted /\ s # "returned")
      BY <2>1 DEF Reach
    <2>6. /\ db' \in [Stores -> Status] /\ closer' \in [Stores -> Callers]
          /\ \A r \in Stores :
               \/ r # s /\ db'[r] = db[r] /\ closer'[r] = closer[r]
               \/ r = s /\ db'[r] = "closing"
                  /\ IF db[r] = "open" THEN closer'[r] = c
                     ELSE db[r] = "closing" /\ closer'[r] = closer[r]
      BY <2>2, <2>3, <2>5 DEF Status
    <2>7. /\ employed' = {} /\ heartbeat' = FALSE
          /\ UNCHANGED <<former, doubled, backoff>>
          /\ process' \in [Workers -> {"none", "running", "suspended", "told", "gone"}]
          /\ killed' \in [Workers -> BOOLEAN]
          /\ \A w \in Workers : ~Abandoned(w)'
      <3>1. employed' = {} /\ heartbeat' = FALSE
            /\ UNCHANGED <<former, doubled, backoff>>
            /\ process' = [w \in Workers |-> IF Told(w) THEN "told" ELSE process[w]]
            /\ killed' = [w \in Workers |-> killed[w] \/ Told(w)]
        BY <2>1 DEF StopWorkers
      <3>2. \A w \in Workers : Told(w) \in BOOLEAN
        BY DEF Told
      <3>3. process' \in [Workers -> {"none", "running", "suspended", "told", "gone"}]
        BY <2>2, <3>1
      <3>4. killed' \in [Workers -> BOOLEAN]
        BY <2>2, <3>1, <3>2
      <3>5. ASSUME NEW w \in Workers PROVE ~Abandoned(w)'
        <4>0. ~(w \notin doubled' /\ \E p \in former'[w] : Untouched(p))
          BY <3>1 DEF Inv, StaffInv
        <4>1. CASE Told(w)
          BY <3>1, <4>0, <4>1 DEF Abandoned
        <4>2. CASE ~Told(w)
          <5>1. process'[w] = process[w] /\ (killed'[w] <=> killed[w])
            BY <3>1, <4>2
          <5>2. process[w] \in {"running", "suspended"} /\ ~killed[w] => w \in employed
            BY DEF Inv, StaffInv, Abandoned
          <5>3. process[w] = "suspended" => killed[w]
            BY DEF Inv, StaffInv
          <5> QED
            BY <4>0, <4>2, <5>1, <5>2, <5>3 DEF Abandoned, Told
        <4> QED
          BY <4>1, <4>2
      <3> QED
        BY <3>1, <3>3, <3>4, <3>5
    <2>8. main \notin Connecting
      BY <1>2
    <2>9. s # "events" => db'["events"] = "null"
      BY <2>3, <2>5, <2>2, StoreNames
    <2> QED
      BY <2>1, <2>3, <2>4, <2>5, <2>6, <2>7, <2>8, <2>9 DEF ShutdownBegun
  <1> QED
    BY <1>1, <1>2 DEF Inv, TypeOK


\* A store is connected.
LEMMA ConnectsStep ==
  ASSUME Inv, Alive, NEW s \in Stores, NEW next \in Connecting, Connects(s, next)
  PROVE  Inv'
PROOF
  <1>1. TypeOK'
    BY StoreNames DEF Inv, TypeOK, Stages, Screens, Tabs, Connects, staff
  <1>2. BootInv'
    BY StoreNames DEF Inv, TypeOK, BootInv, Alive, Abandoned, StaffInv, Connects, staff
  <1>3. StaffInv'
    BY StoreNames DEF Inv, TypeOK, BootInv, StaffInv, Abandoned, Alive, Connects, staff
  <1>4. ClosingInv'
    BY StoreNames DEF Inv, TypeOK, BootInv, ClosingInv, Waiting, Alive, Connects, staff
  <1>5. FatalInv'
    BY StoreNames DEF Inv, TypeOK, FatalInv, Alive, ClosingInv, Waiting, Connects, staff
  <1>6. NobodyIsAbandoned'
    BY StoreNames
       DEF Inv, TypeOK, NobodyIsAbandoned, Abandoned, Alive, StaffInv, BootInv, Connects, staff
  <1>7. ZeroMeansDrained'
    BY StoreNames
       DEF Inv, TypeOK, ZeroMeansDrained, Alive, FatalInv, ClosingInv, Waiting, BootInv,
           StaffInv, Connects, staff
  <1> QED
    BY <1>1, <1>2, <1>3, <1>4, <1>5, <1>6, <1>7 DEF Inv

\* The rest of the launch.
LEMMA BootStep ==
  ASSUME Inv, Alive, BootAwaits \/ BootCompletes \/ Launch \/ LaunchFails
  PROVE  Inv'
PROOF
  <1>1. TypeOK'
    <2>1. CASE BootAwaits \/ LaunchFails
      BY <2>1, StoreNames DEF Inv, TypeOK, Stages, BootAwaits, LaunchFails, kernelVars, staff
    <2>2. CASE BootCompletes
      BY <2>2 DEF Inv, TypeOK, Stages, BootCompletes, Replaced
    <2>3. CASE Launch
      BY <2>3 DEF Inv, TypeOK, Stages, Screens, Launch, kernelVars, staff
    <2> QED
      BY <2>1, <2>2, <2>3
  <1>2. BootInv'
    BY StoreNames
       DEF Inv, TypeOK, BootInv, Alive, Abandoned, StaffInv, BootAwaits, BootCompletes,
           Launch, LaunchFails, kernelVars, staff
  <1>3. StaffInv'
    BY StoreNames
       DEF Inv, TypeOK, BootInv, StaffInv, Abandoned, Alive, BootAwaits, BootCompletes,
           Launch, LaunchFails, kernelVars, staff
  <1>4. ClosingInv'
    BY StoreNames
       DEF Inv, TypeOK, BootInv, ClosingInv, Waiting, Alive, BootAwaits, BootCompletes,
           Launch, LaunchFails, kernelVars, staff
  <1>5. FatalInv'
    BY StoreNames
       DEF Inv, TypeOK, FatalInv, Alive, ClosingInv, Waiting, BootAwaits, BootCompletes,
           Launch, LaunchFails, kernelVars, staff
  <1>6. NobodyIsAbandoned'
    BY StoreNames
       DEF Inv, TypeOK, NobodyIsAbandoned, Abandoned, Alive, StaffInv, BootInv,
           BootAwaits, BootCompletes, Launch, LaunchFails, kernelVars, staff
  <1>7. ZeroMeansDrained'
    BY StoreNames
       DEF Inv, TypeOK, ZeroMeansDrained, Alive, FatalInv, ClosingInv, Waiting, BootInv,
           StaffInv, BootAwaits, BootCompletes, Launch, LaunchFails, kernelVars, staff
  <1> QED
    BY <1>1, <1>2, <1>3, <1>4, <1>5, <1>6, <1>7 DEF Inv

\* A late write opens a handle again.
LEMMA LateWriteStep ==
  ASSUME Inv, Alive, NEW s \in Stores, LateWrite(s)
  PROVE  Inv'
PROOF
  <1>1. TypeOK'
    BY StoreNames DEF Inv, TypeOK, Stages, Screens, Tabs, LateWrite, staff
  <1>2. BootInv'
    BY StoreNames DEF Inv, TypeOK, BootInv, Alive, Abandoned, StaffInv, LateWrite, staff
  <1>3. StaffInv'
    BY StoreNames DEF Inv, TypeOK, BootInv, StaffInv, Abandoned, Alive, LateWrite, staff
  <1>4. ClosingInv'
    BY StoreNames DEF Inv, TypeOK, BootInv, ClosingInv, Waiting, Alive, LateWrite, staff
  <1>5. FatalInv'
    BY StoreNames DEF Inv, TypeOK, FatalInv, Alive, ClosingInv, Waiting, LateWrite, staff
  <1>6. NobodyIsAbandoned'
    BY StoreNames
       DEF Inv, TypeOK, NobodyIsAbandoned, Abandoned, Alive, StaffInv, BootInv,
           LateWrite, staff
  <1>7. ZeroMeansDrained'
    BY StoreNames
       DEF Inv, TypeOK, ZeroMeansDrained, Alive, FatalInv, ClosingInv, Waiting, BootInv,
           StaffInv, LateWrite, staff
  <1> QED
    BY <1>1, <1>2, <1>3, <1>4, <1>5, <1>6, <1>7 DEF Inv

\* A child ends or is replaced, paused or resumed, or a sleep of the policy ends.
LEMMA WorkerStep ==
  ASSUME Inv, Alive, NEW w \in Workers,
         \/ WorkerEnds(w) \/ \E p \in former[w] : FormerEnds(w, p)
         \/ WorkerRestarts(w) \/ BackoffLapses(w) \/ Pause(w) \/ Resume(w)
  PROVE  Inv'
PROOF
  <1> DEFINE
    Changes ==
      /\ UNCHANGED <<main, isBooted, heartbeat, db, closer, isClosed, pc, shuttingDown,
                     calls, screen, tab, exit, fatal, employed, doubled>>
      /\ process' \in [Workers -> {"none", "running", "suspended", "told", "gone"}]
      /\ killed' \in [Workers -> BOOLEAN]
      /\ former' \in [Workers -> SUBSET Replaced] /\ backoff' \in SUBSET Workers
      /\ \A v \in Workers :
           /\ process[v] = "none" /\ former[v] = {} /\ v \notin employed =>
                process'[v] = "none" /\ former'[v] = {}
           /\ process'[v] \in {"running", "suspended"} /\ ~killed'[v] => v \in employed
           /\ process'[v] = "suspended" => killed'[v]
           /\ \A p \in former'[v] : Untouched(p) => v \in doubled
  <1>0. Changes
    <2>1. /\ process \in [Workers -> {"none", "running", "suspended", "told", "gone"}]
          /\ killed \in [Workers -> BOOLEAN]
          /\ former \in [Workers -> SUBSET Replaced] /\ backoff \in SUBSET Workers
          /\ \A v \in Workers :
               /\ process[v] \in {"running", "suspended"} /\ ~killed[v] => v \in employed
               /\ process[v] = "suspended" => killed[v]
               /\ \A p \in former[v] : Untouched(p) => v \in doubled
      BY DEF Inv, TypeOK, StaffInv, Abandoned
    <2>2. CASE WorkerEnds(w)
      BY <2>1, <2>2 DEF WorkerEnds, MayCrash, staffOnly
    <2>3. ASSUME NEW p \in former[w], FormerEnds(w, p) PROVE Changes
      BY <2>1, <2>3 DEF FormerEnds, MayCrash, staffOnly
    <2>4. CASE WorkerRestarts(w)
      <3>1. LeftBehind(w) \in SUBSET Replaced /\ \A p \in LeftBehind(w) : ~Untouched(p)
        BY <2>1 DEF LeftBehind, Replaced, Untouched
      <3>2. (process[w] = "none" /\ former[w] = {} /\ w \notin employed) => FALSE
        BY <2>4 DEF WorkerRestarts
      <3> QED
        BY <2>1, <2>4, <3>1, <3>2 DEF WorkerRestarts, staffOnly
    <2>5. CASE BackoffLapses(w)
      BY <2>1, <2>5 DEF BackoffLapses, staffOnly
    <2>6. CASE Pause(w)
      BY <2>1, <2>6 DEF Pause, staffOnly
    <2>7. CASE Resume(w)
      BY <2>1, <2>7 DEF Resume, staffOnly
    <2> QED
      BY <2>2, <2>3, <2>4, <2>5, <2>6, <2>7
  <1>1. TypeOK'
    BY <1>0 DEF Inv, TypeOK
  <1>2. BootInv'
    BY <1>0 DEF Inv, BootInv, Alive
  <1>3. StaffInv'
    BY <1>0 DEF Inv, StaffInv, Abandoned
  <1>4. ClosingInv'
    BY <1>0 DEF Inv, ClosingInv, Waiting, Alive
  <1>5. FatalInv'
    BY <1>0 DEF Inv, FatalInv
  <1>6. NobodyIsAbandoned' /\ ZeroMeansDrained'
    BY <1>0 DEF Inv, NobodyIsAbandoned, ZeroMeansDrained, Alive
  <1> QED
    BY <1>1, <1>2, <1>3, <1>4, <1>5, <1>6 DEF Inv

\* Calls of providers, and what the operator does but 'q'.
LEMMA InterfaceStep ==
  ASSUME Inv, Alive, CallBegins \/ CallEnds \/ Navigate \/ SelectTab \/ Interrupt
  PROVE  Inv'
PROOF
  <1> DEFINE
    Changes ==
      /\ UNCHANGED <<isBooted, heartbeat, db, closer, isClosed, pc, process, killed, employed,
                     former, doubled, backoff>>
      /\ UNCHANGED <<shuttingDown, exit, fatal>>
      /\ calls' \in BOOLEAN /\ tab' \in Tabs
      /\ \/ main' = main /\ screen' = screen
         \/ main' = main /\ screen # "off" /\ screen' \in Screens
         \/ main = "interface" /\ main' = "returned" /\ screen' = "off"
  <1>0. Changes
    <2>1. CASE CallBegins \/ CallEnds
      BY <2>1 DEF Inv, TypeOK, CallBegins, CallEnds, kernelVars, staff
    <2>2. CASE Navigate
      BY <2>2 DEF Inv, TypeOK, Navigate, Navigation, Screens, kernelVars, staff
    <2>3. CASE SelectTab
      BY <2>3 DEF Inv, TypeOK, SelectTab, Tabs, kernelVars, staff
    <2>4. CASE Interrupt
      BY <2>4 DEF Inv, TypeOK, BootInv, Interrupt, Screens, Tabs, kernelVars, staff
    <2> QED
      BY <2>1, <2>2, <2>3, <2>4
  <1>1. TypeOK'
    BY <1>0, StoreNames DEF Inv, TypeOK, Stages, Screens, Tabs
  <1>2. BootInv'
    BY <1>0, StoreNames DEF Inv, TypeOK, BootInv, Alive, Abandoned, StaffInv
  <1>3. StaffInv'
    BY <1>0, StoreNames DEF Inv, TypeOK, BootInv, StaffInv, Abandoned, Alive
  <1>4. ClosingInv'
    BY <1>0, StoreNames DEF Inv, TypeOK, BootInv, ClosingInv, Waiting, Alive
  <1>5. FatalInv'
    BY <1>0, StoreNames DEF Inv, TypeOK, FatalInv, Alive, ClosingInv, Waiting
  <1>6. NobodyIsAbandoned'
    BY <1>0, StoreNames
       DEF Inv, TypeOK, NobodyIsAbandoned, Abandoned, Alive, StaffInv, BootInv
  <1>7. ZeroMeansDrained'
    BY <1>0, StoreNames
       DEF Inv, TypeOK, ZeroMeansDrained, Alive, FatalInv, ClosingInv, Waiting, BootInv,
           StaffInv
  <1> QED
    BY <1>1, <1>2, <1>3, <1>4, <1>5, <1>6, <1>7 DEF Inv

\* Nothing is left to do.
LEMMA IdleExitStep ==
  ASSUME Inv, Alive, IdleExit
  PROVE  Inv'
PROOF
  <1>1. TypeOK'
    BY StoreNames DEF Inv, TypeOK, Stages, Screens, Tabs, IdleExit, kernelVars, staff
  <1>2. BootInv'
    BY StoreNames
       DEF Inv, TypeOK, BootInv, Alive, Abandoned, StaffInv, IdleExit, kernelVars, staff
  <1>3. StaffInv'
    BY StoreNames
       DEF Inv, TypeOK, BootInv, StaffInv, Abandoned, Alive, IdleExit, kernelVars, staff
  <1>4. ClosingInv'
    BY StoreNames
       DEF Inv, TypeOK, BootInv, ClosingInv, Waiting, Alive, IdleExit, kernelVars, staff
  <1>5. FatalInv'
    BY StoreNames
       DEF Inv, TypeOK, FatalInv, Alive, ClosingInv, Waiting, IdleExit, kernelVars, staff
  <1>6. NobodyIsAbandoned'
    BY StoreNames
       DEF Inv, TypeOK, NobodyIsAbandoned, Abandoned, Alive, StaffInv, BootInv,
           IdleExit, kernelVars, staff
  <1>7. ZeroMeansDrained'
    BY StoreNames
       DEF Inv, TypeOK, ZeroMeansDrained, Alive, FatalInv, ClosingInv, Waiting, BootInv,
           StaffInv, IdleExit, kernelVars, staff
  <1> QED
    BY <1>1, <1>2, <1>3, <1>4, <1>5, <1>6, <1>7 DEF Inv

\* However begun, a shutdown waits as the invariant says.
LEMMA WaitingBegins ==
  ASSUME Inv, NEW c \in Callers, pc[c] = "idle", main # "threw",
         ShutdownBegun(c), main' = main \/ (main' = "returned" /\ main \notin Connecting)
  PROVE  Waiting'
PROOF
  <1> DEFINE s == pc'[c]
  <1>1. /\ pc \in [Callers -> Stores \cup {"idle", "returned", "threw"}]
        /\ closer \in [Stores -> Callers] /\ Waiting
    BY DEF Inv, TypeOK, ClosingInv
  <1>2. /\ s \in Stores \cup {"returned"} /\ isBooted' = (isBooted /\ s # "returned")
        /\ pc' = [pc EXCEPT ![c] = s]
        /\ \A r \in Stores :
             \/ r # s /\ db'[r] = db[r] /\ closer'[r] = closer[r]
             \/ r = s /\ db'[r] = "closing"
                /\ IF db[r] = "open" THEN closer'[r] = c
                   ELSE db[r] = "closing" /\ closer'[r] = closer[r]
        /\ main \notin Connecting => isClosed' /\ (s # "events" => db'["events"] = "null")
    BY DEF ShutdownBegun
  <1> HIDE DEF s
  <1>3. pc'[c] = s /\ \A e \in Callers \ {c} : pc'[e] = pc[e]
    BY <1>1, <1>2
  <1>4. \A e \in Callers : pc'[e] \in Stores => db'[pc'[e]] = "closing"
    <2> SUFFICES ASSUME NEW e \in Callers, pc'[e] \in Stores PROVE db'[pc'[e]] = "closing"
      OBVIOUS
    <2>1. CASE e = c
      BY <1>2, <1>3, <2>1
    <2>2. CASE e # c
      BY <1>1, <1>2, <1>3, <2>2 DEF Waiting
    <2> QED
      BY <2>1, <2>2
  <1>5. \A r \in Stores : db'[r] = "closing" => pc'[closer'[r]] = r
    <2> SUFFICES ASSUME NEW r \in Stores, db'[r] = "closing" PROVE pc'[closer'[r]] = r
      OBVIOUS
    <2>1. db[r] = "closing" => closer[r] # c /\ pc[closer[r]] = r
      BY <1>1, StoreNames DEF Waiting
    <2>2. CASE r # s
      BY <1>1, <1>2, <1>3, <2>1, <2>2
    <2>3. CASE r = s
      BY <1>1, <1>2, <1>3, <2>1, <2>3
    <2> QED
      BY <2>2, <2>3
  <1>6. \A e \in Callers : pc'[e] = "returned" => ~isBooted'
    BY <1>1, <1>2, <1>3 DEF Waiting
  <1>7. db["events"] = "null" => s # "events"
    BY <1>2, StoreNames
  <1>8. ASSUME NEW e \in Callers, pc'[e] # "idle", main' \notin Connecting \cup {"threw"}
        PROVE  isClosed' /\ (pc'[e] # "events" => db'["events"] = "null")
    <2>1. main \notin Connecting \cup {"threw"}
      BY <1>8
    <2>2. isClosed' /\ (s # "events" => db'["events"] = "null")
      BY <1>2, <2>1
    <2>3. CASE e = c
      BY <1>3, <2>2, <2>3
    <2>4. CASE e # c
      BY <1>1, <1>3, <1>7, <1>8, <2>1, <2>2, <2>4 DEF Waiting
    <2> QED
      BY <2>3, <2>4
  <1>9. ASSUME ~isBooted', main' \notin Connecting \cup {"threw"}
        PROVE  isClosed' /\ db'["events"] = "null"
    <2>1. main \notin Connecting \cup {"threw"}
      BY <1>9
    <2>2. isClosed' /\ (s # "events" => db'["events"] = "null")
      BY <1>2, <2>1
    <2>3. CASE isBooted
      BY <1>2, <1>9, <2>2, <2>3, StoreNames
    <2>4. CASE ~isBooted
      BY <1>1, <1>7, <2>1, <2>2, <2>4 DEF Waiting
    <2> QED
      BY <2>3, <2>4
  <1> QED
    BY <1>4, <1>5, <1>6, <1>8, <1>9 DEF Waiting

\* The guardian's shutdown, for a signal or for a fatal error.
LEMMA GuardianBegins ==
  ASSUME Inv, Alive, shuttingDown = "no", NEW kind \in {"signal", "fatal"},
         BeginShutdown("guardian"), shuttingDown' = kind, exit' = ExitCode(kind),
         fatal' = (kind = "fatal"), UNCHANGED <<main, calls, screen, tab>>
  PROVE  Inv'
PROOF
  <1>1. main # "threw" /\ pc["guardian"] = "idle" /\ (main \notin Connecting \/ ~isBooted)
    BY DEF Inv, BootInv, ClosingInv, Waiting, Alive
  <1>2. ShutdownBegun("guardian")
    BY <1>1, BeginShutdownStep, StoreNames
  <1> DEFINE s == pc'["guardian"]
  <1>3. exit' = IF s = "returned" THEN (IF kind = "signal" THEN "zero" ELSE "one") ELSE "alive"
    BY <1>2, StoreNames DEF ExitCode, ShutdownBegun
  <1>4. /\ s \in Stores \cup {"returned"} /\ isBooted' = (isBooted /\ s # "returned")
        /\ pc \in [Callers -> Stores \cup {"idle", "returned", "threw"}]
        /\ pc' = [pc EXCEPT !["guardian"] = s]
    BY <1>2 DEF ShutdownBegun, Inv, TypeOK
  <1> HIDE DEF s
  <1>5. pc'["guardian"] = s /\ pc'["terminal"] = pc["terminal"]
    BY <1>4, StoreNames
  <1>6. TypeOK'
    BY <1>2, <1>3, <1>4 DEF Inv, TypeOK, ShutdownBegun, Status
  <1>7. BootInv'
    BY <1>1, <1>2, <1>3, <1>4, <1>5, StoreNames DEF Inv, BootInv, ShutdownBegun, Alive, staff
  <1>8. StaffInv'
    <2>1. employed' = {} /\ \A w \in Workers : ~Abandoned(w)'
      BY <1>2 DEF ShutdownBegun
    <2>2. /\ \A w \in Workers : process'[w] = "suspended" => killed'[w]
          /\ \A w \in Workers : \A p \in former'[w] : Untouched(p) => w \in doubled'
      BY <2>1, <1>2 DEF Inv, StaffInv, ShutdownBegun, Abandoned
    <2> QED
      BY <2>1, <2>2 DEF StaffInv
  <1>9. ClosingInv'
    <2>1. Waiting'
      BY <1>1, <1>2, StoreNames, WaitingBegins
    <2>2. shuttingDown' # "no" /\ pc'["guardian"] \notin {"idle", "threw"}
      BY <1>4, <1>5, StoreNames
    <2>3. Alive' => pc'["guardian"] # "returned"
      BY <1>3, <1>5 DEF Alive
    <2> QED
      BY <2>1, <2>2, <2>3 DEF ClosingInv
  <1>10. FatalInv'
    BY <1>3 DEF FatalInv
  <1>11. NobodyIsAbandoned'
    BY <1>2 DEF ShutdownBegun, NobodyIsAbandoned
  <1>12. ZeroMeansDrained'
    <2>1. ASSUME exit' = "zero" PROVE s = "returned" /\ kind = "signal" /\ ~fatal' /\ ~isBooted'
      BY <1>3, <1>4, <2>1
    <2>2. ASSUME exit' = "zero", NEW r \in Stores, db'[r] = "closing" PROVE closer'[r] = "terminal"
      BY <2>1, <2>2, <1>5, <1>6, <1>9, StoreNames DEF ClosingInv, Waiting, TypeOK
    <2>3. ASSUME exit' = "zero", main' \notin Connecting PROVE isClosed' /\ db'["events"] = "null"
      BY <1>2, <2>1, <2>3, StoreNames DEF ShutdownBegun, s
    <2> QED
      BY <2>1, <2>2, <2>3 DEF ZeroMeansDrained
  <1> QED
    BY <1>6, <1>7, <1>8, <1>9, <1>10, <1>11, <1>12 DEF Inv

\* A signal, the error that escapes, and 'q'.
LEMMA SignalStep ==
  ASSUME Inv, Alive, Signal
  PROVE  Inv'
PROOF
  <1>1. fatal' = FALSE
    BY DEF Inv, FatalInv, TypeOK, Signal, Alive
  <1> QED
    BY <1>1, GuardianBegins DEF Signal

LEMMA RunFatalStep ==
  ASSUME Inv, Alive, RunFatal
  PROVE  Inv'
PROOF
  <1>1. CASE shuttingDown = "no"
    BY <1>1, GuardianBegins DEF RunFatal
  <1>2. CASE shuttingDown # "no"
    <2>1. fatal' = TRUE /\ exit' = "one" /\ UNCHANGED <<main, calls, screen, tab, shuttingDown>>
          /\ UNCHANGED <<isBooted, heartbeat, db, closer, isClosed, pc, staff>>
      BY <1>2 DEF RunFatal, kernelVars
    <2>2. TypeOK'
      BY <2>1 DEF Inv, TypeOK, staff
    <2>3. BootInv' /\ FatalInv' /\ ZeroMeansDrained'
      BY <2>1 DEF Inv, BootInv, FatalInv, ZeroMeansDrained, Alive, staff
    <2>4. StaffInv' /\ NobodyIsAbandoned'
      BY <1>2, <2>1 DEF Inv, StaffInv, NobodyIsAbandoned, Abandoned, staff
    <2>5. ClosingInv'
      BY <2>1 DEF Inv, ClosingInv, Waiting, Alive
    <2> QED
      BY <2>2, <2>3, <2>4, <2>5 DEF Inv
  <1> QED
    BY <1>1, <1>2

LEMMA QuitStep ==
  ASSUME Inv, Alive, Quit
  PROVE  Inv'
PROOF
  <1>1. /\ main = "interface" /\ pc["terminal"] = "idle"
        /\ main' = "returned" /\ screen' = "off" /\ BeginShutdown("terminal")
        /\ tab' = "DASHBOARD" /\ UNCHANGED <<shuttingDown, calls, fatal, exit>>
    BY DEF Quit, Inv, BootInv, Screens
  <1>2. ShutdownBegun("terminal")
    BY <1>1, BeginShutdownStep, StoreNames
  <1> DEFINE s == pc'["terminal"]
  <1>4. /\ s \in Stores \cup {"returned"} /\ isBooted' = (isBooted /\ s # "returned")
        /\ pc \in [Callers -> Stores \cup {"idle", "returned", "threw"}]
        /\ pc' = [pc EXCEPT !["terminal"] = s]
    BY <1>2 DEF ShutdownBegun, Inv, TypeOK
  <1> HIDE DEF s
  <1>5. pc'["terminal"] = s /\ pc'["guardian"] = pc["guardian"]
    BY <1>4, StoreNames
  <1>6. TypeOK'
    BY <1>1, <1>2, <1>4 DEF Inv, TypeOK, ShutdownBegun, Status, Stages, Tabs
  <1>7. BootInv' /\ FatalInv'
    BY <1>1, StoreNames DEF Inv, BootInv, FatalInv
  <1>8. StaffInv' /\ NobodyIsAbandoned'
    <2>1. employed' = {} /\ \A w \in Workers : ~Abandoned(w)'
      BY <1>2 DEF ShutdownBegun
    <2>2. /\ \A w \in Workers : process'[w] = "suspended" => killed'[w]
          /\ \A w \in Workers : \A p \in former'[w] : Untouched(p) => w \in doubled'
      BY <2>1, <1>2 DEF Inv, StaffInv, ShutdownBegun, Abandoned
    <2> QED
      BY <1>4, <1>5, <2>1, <2>2, StoreNames DEF StaffInv, NobodyIsAbandoned
  <1>9. ClosingInv'
    BY <1>1, <1>2, <1>5, StoreNames, WaitingBegins DEF Inv, ClosingInv, Alive
  <1>10. ZeroMeansDrained'
    BY <1>1 DEF ZeroMeansDrained, Alive
  <1> QED
    BY <1>6, <1>7, <1>8, <1>9, <1>10 DEF Inv

\* The end of a close, after which its callers go on to the next handle.
LEMMA CloseStep ==
  ASSUME Inv, Alive, NEW s \in Stores, CloseDone(s)
  PROVE  Inv'
PROOF
  <1> DEFINE first == closer[s]
             d == [db EXCEPT ![s] = "null"]
             next == NextToClose(d, Rank[s] + 1)
             goOn == {first} \cup (IF s = "events" THEN {c \in Callers : pc[c] = s} ELSE {})
  <1>1. /\ db[s] = "closing"
        /\ pc' = [c \in Callers |->
                    IF c \in goOn THEN next ELSE IF pc[c] = s THEN "threw" ELSE pc[c]]
        /\ Reach(first, next, d)
        /\ exit' = ExitCode(shuttingDown)
        /\ UNCHANGED <<main, heartbeat, isClosed, shuttingDown, staff,
                       calls, screen, tab, fatal>>
    BY DEF CloseDone
  <1>2. /\ db \in [Stores -> Status] /\ closer \in [Stores -> Callers]
        /\ pc \in [Callers -> Stores \cup {"idle", "returned", "threw"}]
    BY DEF Inv, TypeOK, Status
  <1>3. first \in Callers /\ pc[first] = s
    BY <1>1, <1>2 DEF Inv, ClosingInv, Waiting
  <1>4. d \in [Stores -> Status] /\ d[s] = "null" /\ \A r \in Stores \ {s} : d[r] = db[r]
    BY <1>2 DEF Status
  <1>5. Rank[s] + 1 \in 1..4
    BY StoreNames
  <1>6. next \in Stores \cup {"returned"} /\ (next \in Stores => d[next] # "null")
    BY <1>4, <1>5, NextToCloseFacts
  <1>7. next # "events"
    BY <1>4, <1>5, StoreNames DEF NextToClose
  <1>8. \A c \in Callers : c \in goOn <=> c = first \/ (s = "events" /\ pc[c] = s)
    BY <1>3
  <1> HIDE DEF d, next, goOn, first
  <1>9. ASSUME NEW c \in Callers
        PROVE  /\ pc[c] # s => pc'[c] = pc[c]
               /\ pc[c] = s => pc'[c] = next \/ (pc'[c] = "threw" /\ s # "events" /\ c # first)
    <2>1. pc'[c] = IF c \in goOn THEN next ELSE IF pc[c] = s THEN "threw" ELSE pc[c]
      BY <1>1
    <2>2. CASE c \in goOn
      BY <1>3, <1>8, <2>1, <2>2
    <2>3. CASE c \notin goOn
      BY <1>3, <1>8, <2>1, <2>3
    <2> QED
      BY <2>2, <2>3
  <1>10. pc'[first] = next
    BY <1>1, <1>3, <1>8
  <1>11. /\ db' = IF next \in Stores THEN [d EXCEPT ![next] = "closing"] ELSE d
         /\ closer' = IF next \in Stores /\ d[next] = "open"
                      THEN [closer EXCEPT ![next] = first] ELSE closer
         /\ isBooted' = (isBooted /\ next # "returned")
    BY <1>1 DEF Reach
  <1>12. /\ db' \in [Stores -> Status] /\ closer' \in [Stores -> Callers]
         /\ db'[s] = "null" /\ next # s
         /\ \A r \in Stores \ {s, next} : db'[r] = db[r] /\ closer'[r] = closer[r]
         /\ next \in Stores =>
              db'[next] = "closing"
              /\ IF db[next] = "open" THEN closer'[next] = first
                 ELSE db[next] = "closing" /\ closer'[next] = closer[next]
    BY <1>2, <1>3, <1>4, <1>6, <1>11 DEF Status
  <1>13. pc' \in [Callers -> Stores \cup {"idle", "returned", "threw"}]
    BY <1>1, <1>2, <1>6
  <1>14. /\ main \notin Connecting \cup {"threw"} /\ isClosed
         /\ employed = {} /\ \A w \in Workers : ~Abandoned(w)
    <2>1. main # "threw"
      BY DEF Inv, BootInv, Alive
    <2>2. main \notin Connecting
      BY <1>3, StoreNames DEF Inv, BootInv, ClosingInv, Alive
    <2>3. isClosed
      BY <1>3, <2>1, <2>2, StoreNames DEF Inv, ClosingInv, Waiting
    <2>4. employed = {}
      BY <1>3, StoreNames DEF Inv, StaffInv, ClosingInv
    <2> QED
      BY <2>1, <2>2, <2>3, <2>4 DEF Inv, StaffInv
  <1>15. db'["events"] = "null"
    <2>1. CASE s = "events"
      BY <1>12, <2>1
    <2>2. CASE s # "events"
      <3>1. db["events"] = "null"
        BY <1>3, <1>14, <2>2, StoreNames DEF Inv, ClosingInv, Waiting
      <3> QED
        BY <1>7, <1>12, <2>2, <3>1, StoreNames
    <2> QED
      BY <2>1, <2>2
  <1>16. exit' \in {"alive", "zero", "one"}
         /\ (exit' = "zero" => pc'["guardian"] = "returned" /\ shuttingDown = "signal")
         /\ (exit' = "alive" => pc'["guardian"] \notin {"returned", "threw"})
    BY <1>1 DEF ExitCode
  <1>17. TypeOK'
    BY <1>1, <1>11, <1>12, <1>13, <1>16 DEF Inv, TypeOK, Status, staff
  <1>18. BootInv'
    BY <1>1, <1>14, <1>9, StoreNames DEF Inv, BootInv, staff
  <1>19. StaffInv' /\ NobodyIsAbandoned'
    <2>1. employed' = {} /\ \A w \in Workers : ~Abandoned(w)'
      BY <1>1, <1>14 DEF Abandoned, staff
    <2>2. /\ \A w \in Workers : process'[w] = "suspended" => killed'[w]
          /\ \A w \in Workers : \A p \in former'[w] : Untouched(p) => w \in doubled'
      BY <1>1 DEF Inv, StaffInv, staff
    <2>3. pc["terminal"] # "idle" => pc'["terminal"] # "idle"
      BY <1>6, <1>9, StoreNames
    <2>4. main' \notin Connecting \cup {"threw"} /\ ~heartbeat' =>
            shuttingDown' # "no" \/ pc'["terminal"] # "idle"
      BY <1>1, <2>3 DEF Inv, StaffInv
    <2> QED
      BY <2>1, <2>2, <2>4 DEF StaffInv, NobodyIsAbandoned
  <1>20. ClosingInv'
    <2>1. \A c \in Callers : pc'[c] \in Stores => db'[pc'[c]] = "closing"
      <3> SUFFICES ASSUME NEW c \in Callers, pc'[c] \in Stores PROVE db'[pc'[c]] = "closing"
        OBVIOUS
      <3>1. CASE pc[c] = s
        BY <1>9, <1>12, <3>1, StoreNames
      <3>2. CASE pc[c] # s
        BY <1>9, <1>12, <3>2 DEF Inv, ClosingInv, Waiting
      <3> QED
        BY <3>1, <3>2
    <2>2. \A r \in Stores : db'[r] = "closing" => pc'[closer'[r]] = r
      <3> SUFFICES ASSUME NEW r \in Stores, db'[r] = "closing" PROVE pc'[closer'[r]] = r
        OBVIOUS
      <3>1. r # s
        BY <1>12
      <3>2. db[r] = "closing" => closer[r] \in Callers /\ pc[closer[r]] = r
        BY <1>2 DEF Inv, ClosingInv, Waiting
      <3>3. CASE r = next
        BY <1>6, <1>9, <1>10, <1>11, <1>12, <1>2, <1>4, <3>1, <3>2, <3>3
      <3>4. CASE r # next
        BY <1>9, <1>12, <3>1, <3>2, <3>4
      <3> QED
        BY <3>3, <3>4
    <2>3. ASSUME NEW c \in Callers, pc'[c] = "returned" PROVE ~isBooted'
      <3>1. CASE pc[c] = s
        <4>1. next = "returned"
          BY <1>9, <2>3, <3>1
        <4> QED
          BY <1>11, <4>1
      <3>2. CASE pc[c] # s
        <4>1. ~isBooted
          BY <1>9, <2>3, <3>2 DEF Inv, ClosingInv, Waiting
        <4> QED
          BY <1>11, <4>1
      <3> QED
        BY <3>1, <3>2
    <2>4. isClosed' /\ db'["events"] = "null"
      BY <1>1, <1>14, <1>15
    <2>5. shuttingDown' = "no" <=> pc'["guardian"] = "idle"
      BY <1>1, <1>6, <1>9, StoreNames DEF Inv, ClosingInv
    <2>6. Alive' => pc'["guardian"] \notin {"returned", "threw"}
      BY <1>16 DEF Alive
    <2> QED
      BY <2>1, <2>2, <2>3, <2>4, <2>5, <2>6 DEF ClosingInv, Waiting
  <1>21. FatalInv'
    BY <1>1, <1>16 DEF Inv, FatalInv, TypeOK, Alive
  <1>22. ZeroMeansDrained'
    <2> SUFFICES ASSUME exit' = "zero" PROVE ZeroMeansDrained'
      BY DEF ZeroMeansDrained
    <2>1. pc'["guardian"] = "returned" /\ shuttingDown = "signal"
      BY <1>16
    <2>2. ~fatal'
      BY <1>1, <2>1 DEF Inv, FatalInv, Alive
    <2>3. ~isBooted'
      BY <1>20, <2>1, StoreNames DEF ClosingInv, Waiting
    <2>4. \A r \in Stores : db'[r] = "closing" => closer'[r] = "terminal"
      BY <1>12, <1>20, <2>1, StoreNames DEF ClosingInv, Waiting
    <2> QED
      BY <1>1, <1>14, <1>15, <2>2, <2>3, <2>4 DEF ZeroMeansDrained
  <1> QED
    BY <1>17, <1>18, <1>19, <1>20, <1>21, <1>22 DEF Inv

-----------------------------------------------------------------------------
(* The theorems.                                                           *)

LEMMA NextInv == Inv /\ [Next]_vars => Inv'
PROOF
  <1> SUFFICES ASSUME Inv, [Next]_vars PROVE Inv'
    OBVIOUS
  <1>1. CASE UNCHANGED vars
    BY <1>1 DEF vars, Inv, TypeOK, BootInv, StaffInv, ClosingInv, Waiting, FatalInv,
       NobodyIsAbandoned, ZeroMeansDrained, Abandoned, Untouched, Alive
  <1>2. CASE Boot \/ LaunchFails
    <2>1. CASE ConnectEvents \/ ConnectMemory \/ ConnectWorkforce
      BY <2>1, ConnectsStep, StoreNames
         DEF ConnectEvents, ConnectMemory, ConnectWorkforce, Connects
    <2>2. CASE BootAwaits \/ BootCompletes \/ Launch \/ LaunchFails
      BY <2>2, BootStep DEF BootAwaits, BootCompletes, Launch, LaunchFails
    <2> QED
      BY <1>2, <2>1, <2>2 DEF Boot
  <1>3. CASE Signal
    BY <1>3, SignalStep DEF Signal
  <1>4. CASE ErrorEscapes \/ TerminalRejects \/ \E w \in Workers : WorkerWritesToStderr(w)
    BY <1>4, RunFatalStep DEF ErrorEscapes, TerminalRejects, WorkerWritesToStderr
  <1>5. ASSUME NEW s \in Stores, CloseDone(s) \/ LateWrite(s) PROVE Inv'
    BY <1>5, CloseStep, LateWriteStep DEF CloseDone, LateWrite
  <1>6. CASE CallBegins \/ CallEnds \/ Navigate \/ SelectTab \/ Interrupt
    BY <1>6, InterfaceStep DEF CallBegins, CallEnds, Navigate, SelectTab, Interrupt
  <1>7. CASE IdleExit
    BY <1>7, IdleExitStep DEF IdleExit
  <1>8. CASE Quit
    BY <1>8, QuitStep DEF Quit
  <1>9. ASSUME NEW w \in Workers,
               \/ WorkerEnds(w) \/ \E p \in former[w] : FormerEnds(w, p)
               \/ WorkerRestarts(w) \/ BackoffLapses(w) \/ Pause(w) \/ Resume(w)
        PROVE  Inv'
    BY <1>9, WorkerStep
       DEF WorkerEnds, FormerEnds, WorkerRestarts, BackoffLapses, Pause, Resume
  <1> QED
    BY <1>1, <1>2, <1>3, <1>4, <1>5, <1>6, <1>7, <1>8, <1>9 DEF Next

LEMMA InvHolds == Spec => []Inv
PROOF
  BY InitInv, NextInv, PTL DEF Spec

\* Every state of the process has its type (kernel.ts, process_guardian.ts).
THEOREM TypeCorrect == Spec => []TypeOK
PROOF
  <1>1. Inv => TypeOK
    BY DEF Inv
  <1> QED
    BY <1>1, InvHolds, PTL

\* However the shutdowns of a signal, a fatal error and 'q' overlap, and whenever
\* operator and policy restart, every worker's child that no signal was sent to
\* before, the replaced ones included, was told to end, for any number of workers;
\* except the first children of ids that boot() spawned twice.
THEOREM WorkersAreTold == Spec => []NobodyIsAbandoned
PROOF
  <1>1. Inv => NobodyIsAbandoned
    BY DEF Inv
  <1> QED
    BY <1>1, InvHolds, PTL

\* Exit code 0 means a complete drain without a fatal error, whatever is written
\* late and whoever closes what.
THEOREM ZeroIsHonest == Spec => []ZeroMeansDrained
PROOF
  <1>1. Inv => ZeroMeansDrained
    BY DEF Inv
  <1> QED
    BY <1>1, InvHolds, PTL

\* Who waits for a handle waits for one whose close is under way, and that close
\* knows whom to answer: the two shutdowns cannot wait for one another.
WaitsForAClose ==
  \A c \in Callers : pc[c] \in Stores =>
    db[pc[c]] = "closing" /\ pc[closer[pc[c]]] = pc[c]

\* The callers of shutdown() never wait for a handle that nobody closes
\* (kernel.ts, the three close()).
THEOREM CallersWaitForACloseUnderWay == Spec => []WaitsForAClose
PROOF
  <1>1. Inv => WaitsForAClose
    BY DEF Inv, ClosingInv, Waiting, WaitsForAClose
  <1> QED
    BY <1>1, InvHolds, PTL

-----------------------------------------------------------------------------
(* The file and its sessions (SqliteStore, ProjectKnowledge).              *)

Statuses == {"PENDING", "RUNNING", "COMPLETED"}
Metrics == {"token_metrics", "resource_metrics"}

-----------------------------------------------------------------------------
(* The schema.                                                             *)

LEMMA SchemaFacts ==
  /\ DOMAIN Migrations = {1, 2} /\ Len(Migrations) = 2
  /\ Len(Migrations[1]) = 5 /\ Len(Migrations[2]) = 2
  /\ DOMAIN Migrations[1] = 1..5 /\ DOMAIN Migrations[2] = 1..2
  /\ \A v \in {1, 2} : TablesOf(v) = {Migrations[v][k] : k \in 1..Len(Migrations[v])}
  /\ Tables = TablesOf(1) \cup TablesOf(2)
  /\ Tables = {"projects", "tasks", "execution_records", "token_metrics",
               "resource_metrics", "project_metadata", "project_files"}
PROOF
  <1>1. DOMAIN Migrations = {1, 2} /\ Len(Migrations) = 2
        /\ Len(Migrations[1]) = 5 /\ Len(Migrations[2]) = 2
        /\ DOMAIN Migrations[1] = 1..5 /\ DOMAIN Migrations[2] = 1..2
    BY DEF Migrations
  <1>2. \A v \in {1, 2} : TablesOf(v) = {Migrations[v][k] : k \in 1..Len(Migrations[v])}
    BY <1>1 DEF TablesOf, Range
  <1>3. Tables = TablesOf(1) \cup TablesOf(2)
    BY <1>1 DEF Tables
  <1>4. /\ TablesOf(1) = {"projects", "tasks", "execution_records", "token_metrics",
                          "resource_metrics"}
        /\ TablesOf(2) = {"project_metadata", "project_files"}
    <2>1. 1..5 = {1, 2, 3, 4, 5} /\ 1..2 = {1, 2}
      OBVIOUS
    <2>2. /\ Migrations[1][1] = "projects" /\ Migrations[1][2] = "tasks"
          /\ Migrations[1][3] = "execution_records" /\ Migrations[1][4] = "token_metrics"
          /\ Migrations[1][5] = "resource_metrics"
          /\ Migrations[2][1] = "project_metadata" /\ Migrations[2][2] = "project_files"
      BY DEF Migrations
    <2>3. /\ TablesOf(1) = {Migrations[1][k] : k \in {1, 2, 3, 4, 5}}
          /\ TablesOf(2) = {Migrations[2][k] : k \in {1, 2}}
      BY <1>1, <1>2, <2>1
    <2>4. TablesOf(1) = {"projects", "tasks", "execution_records", "token_metrics",
                         "resource_metrics"}
      BY <2>2, <2>3
    <2>5. TablesOf(2) = {"project_metadata", "project_files"}
      BY <2>2, <2>3
    <2> QED
      BY <2>4, <2>5
  <1> QED
    BY <1>1, <1>2, <1>3, <1>4

\* Who stands at a statement has run those before it, and has passed only
\* versions that are recorded.
Progress(s) ==
  /\ conn[s] = "opened" => position[s] = Start
  /\ conn[s] = "migrating" =>
       /\ \A v \in 1..(position[s].version - 1) : v \in versions
       /\ position[s].step <= Len(Migrations[position[s].version]) + 1
       /\ \A k \in 1..(position[s].step - 1) : Migrations[position[s].version][k] \in tables
  /\ conn[s] = "ready" => {1, 2} \subseteq versions

SchemaInv ==
  /\ tables \subseteq Tables /\ versions \subseteq {1, 2}
  /\ conn \in [Sessions -> Connections]
  /\ position \in [Sessions -> [version : {1, 2}, step : Nat]]
  /\ \A v \in versions : TablesOf(v) \subseteq tables
  /\ \A s \in Sessions : Progress(s)

LEMMA SchemaIsWhole ==
  SchemaInv => \A s \in Sessions : conn[s] = "ready" => tables = Tables
PROOF
  BY SchemaFacts DEF SchemaInv, Progress

LEMMA SchemaInit == StoreInit => SchemaInv
PROOF
  BY SchemaFacts DEF StoreInit, SchemaInv, Progress, Start, Connections

\* The steps of connect().
LEMMA SchemaStep ==
  ASSUME SchemaInv, NEW s \in Sessions,
         \/ Open(s) \/ SetPragmas(s) \/ LookForVersion(s) \/ CreateTable(s) \/ RecordVersion(s)
         \/ MigrationLockedOut(s) \/ SessionEnds(s)
  PROVE  SchemaInv'
PROOF
  <1>1. /\ tables \subseteq Tables /\ versions \subseteq {1, 2}
        /\ conn \in [Sessions -> Connections]
        /\ position \in [Sessions -> [version : {1, 2}, step : Nat]]
        /\ position[s].version \in {1, 2} /\ position[s].step \in Nat
    BY DEF SchemaInv
  <1>2. ASSUME tables \subseteq tables', tables' \subseteq Tables,
               versions \subseteq versions', versions' \subseteq {1, 2},
               \A v \in versions' : TablesOf(v) \subseteq tables',
               conn' \in [Sessions -> Connections],
               position' \in [Sessions -> [version : {1, 2}, step : Nat]],
               \A r \in Sessions \ {s} : conn'[r] = conn[r] /\ position'[r] = position[r],
               Progress(s)'
        PROVE  SchemaInv'
    <2>1. \A r \in Sessions \ {s} : Progress(r)'
      BY <1>2 DEF SchemaInv, Progress
    <2> QED
      BY <1>2, <2>1 DEF SchemaInv
  <1>3. CASE Open(s)
    <2>1. /\ conn' \in [Sessions -> Connections] /\ conn'[s] = "opened"
          /\ position' \in [Sessions -> [version : {1, 2}, step : Nat]]
          /\ position'[s] = Start /\ UNCHANGED schemaVars
          /\ \A r \in Sessions \ {s} : conn'[r] = conn[r] /\ position'[r] = position[r]
      BY <1>1, <1>3 DEF Open, Start, Connections
    <2> QED
      BY <1>2, <2>1 DEF Progress, SchemaInv, schemaVars
  <1>10. ASSUME conn' = [conn EXCEPT ![s] = "refused"], UNCHANGED <<position, schemaVars>>
         PROVE  SchemaInv'
    <2>1. /\ conn' \in [Sessions -> Connections] /\ conn'[s] = "refused"
          /\ position' = position /\ UNCHANGED schemaVars
          /\ \A r \in Sessions \ {s} : conn'[r] = conn[r]
      BY <1>1, <1>10 DEF Connections
    <2> QED
      BY <1>1, <1>2, <2>1 DEF Progress, SchemaInv, schemaVars
  <1>4. CASE MigrationLockedOut(s) \/ SessionEnds(s)
    <2>1. /\ conn' \in [Sessions -> Connections] /\ conn'[s] \in {"closed", "refused"}
          /\ position' = position /\ UNCHANGED schemaVars
          /\ \A r \in Sessions \ {s} : conn'[r] = conn[r]
      BY <1>1, <1>4 DEF MigrationLockedOut, SessionEnds, Connections
    <2> QED
      BY <1>1, <1>2, <2>1 DEF Progress, SchemaInv, schemaVars
  <1>5. CASE SetPragmas(s)
    <2> SUFFICES ASSUME conn' = [conn EXCEPT ![s] = "migrating"] PROVE SchemaInv'
      BY <1>5, <1>10 DEF SetPragmas
    <2>1. /\ conn' \in [Sessions -> Connections] /\ conn'[s] = "migrating"
          /\ position' = position /\ UNCHANGED schemaVars
          /\ \A r \in Sessions \ {s} : conn'[r] = conn[r]
      BY <1>1, <1>5 DEF SetPragmas, Connections
    <2>2. position[s] = Start
      BY <1>5 DEF SetPragmas, SchemaInv, Progress
    <2>3. Progress(s)'
      BY <2>1, <2>2, SchemaFacts DEF Progress, Start
    <2> QED
      BY <1>1, <1>2, <2>1, <2>3 DEF SchemaInv, schemaVars
  <1>6. ASSUME NextVersion(s), conn[s] = "migrating", position[s].version \in versions',
               versions \subseteq versions'
        PROVE  /\ conn' \in [Sessions -> Connections]
               /\ position' \in [Sessions -> [version : {1, 2}, step : Nat]]
               /\ \A r \in Sessions \ {s} : conn'[r] = conn[r] /\ position'[r] = position[r]
               /\ Progress(s)'
    <2>1. \A v \in 1..(position[s].version - 1) : v \in versions'
      BY <1>6 DEF SchemaInv, Progress
    <2>2. CASE position[s].version = 2
      <3>1. conn' = [conn EXCEPT ![s] = "ready"] /\ position' = position
        BY <1>6, <2>2, SchemaFacts DEF NextVersion
      <3>2. {1, 2} \subseteq versions'
        BY <1>6, <2>1, <2>2
      <3> QED
        BY <1>1, <3>1, <3>2 DEF Progress, Connections
    <2>3. CASE position[s].version = 1
      <3>1. /\ position' = [position EXCEPT ![s] = [version |-> @.version + 1, step |-> 0]]
            /\ conn' = conn
        BY <1>6, <2>3, SchemaFacts DEF NextVersion
      <3>2. position'[s] = [version |-> 2, step |-> 0]
        BY <1>1, <2>3, <3>1
      <3>3. position' \in [Sessions -> [version : {1, 2}, step : Nat]]
        BY <1>1, <2>3, <3>1
      <3>4. Progress(s)'
        BY <1>6, <2>3, <3>1, <3>2, SchemaFacts DEF Progress
      <3> QED
        BY <1>1, <3>1, <3>3, <3>4
    <2> QED
      BY <1>1, <2>2, <2>3
  <1>7. CASE LookForVersion(s)
    <2>1. UNCHANGED schemaVars /\ conn[s] = "migrating" /\ position[s].step = 0
      BY <1>7 DEF LookForVersion
    <2>2. CASE position[s].version \in versions
      <3>1. NextVersion(s)
        BY <1>7, <2>2 DEF LookForVersion
      <3> QED
        BY <1>1, <1>2, <1>6, <2>1, <2>2, <3>1 DEF SchemaInv, schemaVars
    <2>3. CASE position[s].version \notin versions
      <3>1. position' = [position EXCEPT ![s].step = 1] /\ conn' = conn
        BY <1>7, <2>3 DEF LookForVersion
      <3>2. /\ position' \in [Sessions -> [version : {1, 2}, step : Nat]]
            /\ position'[s].version = position[s].version /\ position'[s].step = 1
            /\ \A r \in Sessions \ {s} : position'[r] = position[r]
        BY <1>1, <3>1
      <3>3. Progress(s)'
        BY <1>1, <2>1, <3>1, <3>2, SchemaFacts DEF SchemaInv, Progress, schemaVars
      <3> QED
        BY <1>1, <1>2, <2>1, <3>1, <3>2, <3>3 DEF SchemaInv, schemaVars
    <2> QED
      BY <2>2, <2>3
  <1>8. CASE CreateTable(s)
    <2> DEFINE v == position[s].version
               k == position[s].step
    <2>1. /\ conn[s] = "migrating" /\ k \in DOMAIN Migrations[v]
          /\ tables' = tables \cup {Migrations[v][k]}
          /\ position' = [position EXCEPT ![s].step = @ + 1]
          /\ versions' = versions /\ conn' = conn
      BY <1>8 DEF CreateTable, AtStatement, Statement
    <2>2. k \in 1..Len(Migrations[v]) /\ Migrations[v][k] \in Tables
      BY <1>1, <2>1, SchemaFacts
    <2>3. /\ position' \in [Sessions -> [version : {1, 2}, step : Nat]]
          /\ position'[s].version = v /\ position'[s].step = k + 1
          /\ \A r \in Sessions \ {s} : position'[r] = position[r]
      BY <1>1, <2>1
    <2>4. Progress(s)'
      <3>1. \A u \in 1..(v - 1) : u \in versions
        BY <2>1 DEF SchemaInv, Progress
      <3>2. \A l \in 1..(k - 1) : Migrations[v][l] \in tables
        BY <2>1 DEF SchemaInv, Progress
      <3>3. \A l \in 1..k : Migrations[v][l] \in tables'
        <4>1. k \in Nat /\ \A l \in 1..k : l = k \/ l \in 1..(k - 1)
          BY <1>1
        <4> QED
          BY <2>1, <3>2, <4>1
      <3> HIDE DEF v, k
      <3>4. k \in Nat /\ k + 1 - 1 = k /\ k + 1 <= Len(Migrations[v]) + 1
        BY <1>1, <2>2, SchemaFacts DEF v, k
      <3> QED
        BY <2>1, <2>3, <3>1, <3>3, <3>4 DEF Progress
    <2> QED
      BY <1>1, <1>2, <2>1, <2>2, <2>3, <2>4 DEF SchemaInv
  <1>9. CASE RecordVersion(s)
    <2> DEFINE v == position[s].version
    <2>1. conn[s] = "migrating" /\ tables' = tables
          /\ position[s].step = Len(Migrations[v]) + 1
      BY <1>9 DEF RecordVersion
    <2>2. CASE v \in versions
      <3>1. conn' = [conn EXCEPT ![s] = "refused"] /\ versions' = versions /\ position' = position
        BY <1>9, <2>2 DEF RecordVersion
      <3> QED
        BY <1>1, <1>2, <2>1, <3>1 DEF SchemaInv, Progress, Connections
    <2>3. CASE v \notin versions
      <3>1. versions' = versions \cup {v} /\ NextVersion(s)
        BY <1>9, <2>3 DEF RecordVersion
      <3>2. TablesOf(v) \subseteq tables
        <4>1. \A k \in 1..(position[s].step - 1) : Migrations[v][k] \in tables
          BY <2>1 DEF SchemaInv, Progress
        <4>2. v \in {1, 2}
          BY <1>1
        <4>3. TablesOf(v) = {Migrations[v][k] : k \in 1..Len(Migrations[v])}
          BY <4>2, SchemaFacts
        <4>4. Len(Migrations[v]) \in Nat
          BY <4>2, SchemaFacts
        <4> HIDE DEF v
        <4>5. position[s].step - 1 = Len(Migrations[v])
          BY <2>1, <4>4
        <4> QED
          BY <4>1, <4>3, <4>5
      <3> QED
        BY <1>1, <1>2, <1>6, <2>1, <3>1, <3>2 DEF SchemaInv
    <2> QED
      BY <2>2, <2>3
  <1> QED
    BY <1>3, <1>4, <1>5, <1>7, <1>8, <1>9

-----------------------------------------------------------------------------
(* The rows.                                                               *)

\* Rows as the statements write them, and each row's parents among them.
IsStore(st) == st = [t \in Tables |-> st[t]]
RowsTyped(st) ==
  /\ \A k \in DOMAIN st["tasks"] :
       st["tasks"][k] \in [project : ProjectIds, status : Statuses]
  /\ \A k \in DOMAIN st["execution_records"] :
       st["execution_records"][k] \in [project : ProjectIds, task : TaskIds, status : Statuses]
Whole(st) == \A t \in Tables : \A key \in DOMAIN st[t] : HasParents(st, t, st[t][key])
Sound(st) == IsStore(st) /\ RowsTyped(st) /\ Whole(st)

\* Of an execution that is in one store, another one knows the task and project,
\* and the metrics.
Extends(old, new) ==
  /\ \A e \in DOMAIN old["execution_records"] :
       /\ e \in DOMAIN new["execution_records"]
       /\ new["execution_records"][e].project = old["execution_records"][e].project
       /\ new["execution_records"][e].task = old["execution_records"][e].task
  /\ \A t \in Metrics : \A k \in DOMAIN old[t] :
       k \in DOMAIN new[t] /\ new[t][k].execution = old[t][k].execution

\* Without a transaction all see the same; with one, its session sees no less.
RowsInv ==
  /\ writer \in Sessions \cup {Nobody}
  /\ Sound(disk) /\ Sound(work) /\ Extends(disk, work)

\* What With() does to the rows.
LEMMA WithFacts ==
  ASSUME NEW st, IsStore(st), NEW t \in Tables, NEW key, NEW row
  PROVE  LET new == With(st, t, key, row) IN
         /\ IsStore(new)
         /\ \A u \in Tables \ {t} : new[u] = st[u]
         /\ DOMAIN new[t] = DOMAIN st[t] \cup {key}
         /\ new[t][key] = row
         /\ \A k \in DOMAIN st[t] \ {key} : new[t][k] = st[t][k]
PROOF
  <1> DEFINE rows == [k \in DOMAIN st[t] \cup {key} |-> IF k = key THEN row ELSE st[t][k]]
             new == With(st, t, key, row)
  <1>1. new = [st EXCEPT ![t] = rows]
    BY DEF With
  <1>2. new = [u \in Tables |-> IF u = t THEN rows ELSE st[u]]
    <2> HIDE DEF rows, new
    <2> QED
      BY <1>1 DEF IsStore
  <1>3. \A u \in Tables : new[u] = IF u = t THEN rows ELSE st[u]
    BY <1>2
  <1>4. IsStore(new)
    <2> HIDE DEF rows, new
    <2> QED
      BY <1>2, <1>3 DEF IsStore
  <1>5. new[t] = rows /\ \A u \in Tables \ {t} : new[u] = st[u]
    BY <1>3
  <1> QED
    BY <1>4, <1>5

\* The tables in which parents are looked for.
LEMMA ParentTables ==
  ASSUME NEW t \in Tables, NEW row, NEW parent \in Parents(t, row)
  PROVE  parent[1] \in Tables
PROOF
  BY SchemaFacts DEF Parents

\* Writing a row whose parents are there keeps every row's parents there.
LEMMA WithKeepsWhole ==
  ASSUME NEW st, IsStore(st), Whole(st), NEW t \in Tables, NEW key, NEW row,
         HasParents(st, t, row)
  PROVE  Whole(With(st, t, key, row))
PROOF
  <1> DEFINE new == With(st, t, key, row)
  <1>1. /\ \A u \in Tables \ {t} : new[u] = st[u]
        /\ DOMAIN new[t] = DOMAIN st[t] \cup {key}
        /\ new[t][key] = row
        /\ \A k \in DOMAIN st[t] \ {key} : new[t][k] = st[t][k]
    BY WithFacts
  <1> HIDE DEF new
  <1>2. \A u \in Tables : DOMAIN st[u] \subseteq DOMAIN new[u]
    BY <1>1
  <1>3. ASSUME NEW u \in Tables, NEW r, HasParents(st, u, r) PROVE HasParents(new, u, r)
    BY <1>2, <1>3, ParentTables DEF HasParents
  <1>4. ASSUME NEW u \in Tables, NEW k \in DOMAIN new[u] PROVE HasParents(new, u, new[u][k])
    <2>1. CASE u # t \/ k # key
      <3>1. k \in DOMAIN st[u] /\ new[u][k] = st[u][k]
        BY <1>1, <1>4, <2>1
      <3> QED
        BY <1>3, <3>1 DEF Whole
    <2>2. CASE u = t /\ k = key
      BY <1>1, <1>3, <2>2
    <2> QED
      BY <2>1, <2>2
  <1> QED
    BY <1>4 DEF Whole, new

\* A row of its type, as far as types are told apart.
RowTyped(t, row) ==
  /\ t = "tasks" => row \in [project : ProjectIds, status : Statuses]
  /\ t = "execution_records" =>
       row \in [project : ProjectIds, task : TaskIds, status : Statuses]

LEMMA WithKeepsSound ==
  ASSUME NEW st, Sound(st), NEW t \in Tables, NEW key, NEW row,
         HasParents(st, t, row), RowTyped(t, row)
  PROVE  Sound(With(st, t, key, row))
PROOF
  <1> DEFINE new == With(st, t, key, row)
  <1>1. /\ IsStore(new)
        /\ \A u \in Tables \ {t} : new[u] = st[u]
        /\ DOMAIN new[t] = DOMAIN st[t] \cup {key}
        /\ new[t][key] = row
        /\ \A k \in DOMAIN st[t] \ {key} : new[t][k] = st[t][k]
    BY WithFacts DEF Sound
  <1>2. Whole(new)
    BY WithKeepsWhole DEF Sound
  <1> HIDE DEF new
  <1>3. RowsTyped(new)
    <2>1. "tasks" \in Tables /\ "execution_records" \in Tables
      BY SchemaFacts
    <2>2. ASSUME NEW k \in DOMAIN new["tasks"]
          PROVE  new["tasks"][k] \in [project : ProjectIds, status : Statuses]
      <3>1. CASE t = "tasks" /\ k = key
        BY <1>1, <3>1 DEF RowTyped
      <3>2. CASE t # "tasks" \/ k # key
        <4>1. k \in DOMAIN st["tasks"] /\ new["tasks"][k] = st["tasks"][k]
          BY <1>1, <2>1, <2>2, <3>2
        <4> QED
          BY <4>1 DEF Sound, RowsTyped
      <3> QED
        BY <3>1, <3>2
    <2>3. ASSUME NEW k \in DOMAIN new["execution_records"]
          PROVE  new["execution_records"][k]
                   \in [project : ProjectIds, task : TaskIds, status : Statuses]
      <3>1. CASE t = "execution_records" /\ k = key
        BY <1>1, <3>1 DEF RowTyped
      <3>2. CASE t # "execution_records" \/ k # key
        <4>1. /\ k \in DOMAIN st["execution_records"]
              /\ new["execution_records"][k] = st["execution_records"][k]
          BY <1>1, <2>1, <2>3, <3>2
        <4> QED
          BY <4>1 DEF Sound, RowsTyped
      <3> QED
        BY <3>1, <3>2
    <2> QED
      BY <2>2, <2>3 DEF RowsTyped
  <1> QED
    BY <1>1, <1>2, <1>3 DEF Sound, new

\* The columns telemetry is about are those of the row that is there.
Kept(st, t, key, row) ==
  key \in DOMAIN st[t] =>
    /\ t = "execution_records" =>
         row.project = st[t][key].project /\ row.task = st[t][key].task
    /\ t \in Metrics => row.execution = st[t][key].execution

LEMMA WithExtends ==
  ASSUME NEW st, Sound(st), NEW t \in Tables, NEW key, NEW row, Kept(st, t, key, row)
  PROVE  Extends(st, With(st, t, key, row))
PROOF
  <1> DEFINE new == With(st, t, key, row)
  <1>1. /\ \A u \in Tables \ {t} : new[u] = st[u]
        /\ DOMAIN new[t] = DOMAIN st[t] \cup {key}
        /\ new[t][key] = row
        /\ \A k \in DOMAIN st[t] \ {key} : new[t][k] = st[t][k]
    BY WithFacts DEF Sound
  <1> HIDE DEF new
  <1>2. "execution_records" \in Tables /\ Metrics \subseteq Tables
    BY SchemaFacts DEF Metrics
  <1>3. ASSUME NEW u \in Tables, NEW k \in DOMAIN st[u]
        PROVE  /\ k \in DOMAIN new[u]
               /\ (u = t /\ k = key) \/ new[u][k] = st[u][k]
    BY <1>1, <1>3
  <1>4. ASSUME NEW e \in DOMAIN st["execution_records"]
        PROVE  /\ e \in DOMAIN new["execution_records"]
               /\ new["execution_records"][e].project = st["execution_records"][e].project
               /\ new["execution_records"][e].task = st["execution_records"][e].task
    BY <1>1, <1>2, <1>3, <1>4 DEF Kept
  <1>5. ASSUME NEW u \in Metrics, NEW k \in DOMAIN st[u]
        PROVE  k \in DOMAIN new[u] /\ new[u][k].execution = st[u][k].execution
    BY <1>1, <1>2, <1>3, <1>5 DEF Kept
  <1> QED
    BY <1>4, <1>5 DEF Extends, new

LEMMA ExtendsFacts ==
  /\ \A a : Extends(a, a)
  /\ \A a, b, c : Extends(a, b) /\ Extends(b, c) => Extends(a, c)
PROOF
  BY DEF Extends

\* What a step of the repository does to the committed rows and to the writer's.
Harmless == RowsInv' /\ Extends(disk, disk')

\* One statement that writes a row, in a transaction or not.
LEMMA RunStep ==
  ASSUME RowsInv, NEW s \in Sessions, writer \in {Nobody, s}, NEW t \in Tables, NEW key, NEW row,
         HasParents(Db(s), t, row), RowTyped(t, row), Kept(Db(s), t, key, row),
         Run(s, With(Db(s), t, key, row))
  PROVE  Harmless
PROOF
  <1> DEFINE new == With(Db(s), t, key, row)
  <1>1. Sound(Db(s)) /\ Sound(disk) /\ Sound(work) /\ Extends(disk, Db(s))
    BY ExtendsFacts DEF RowsInv, Db
  <1>2. Sound(new) /\ Extends(Db(s), new)
    BY <1>1, WithKeepsSound, WithExtends
  <1> HIDE DEF new
  <1>3. work' = new /\ disk' = (IF writer = s THEN disk ELSE new) /\ writer' = writer
    BY DEF Run, new
  <1>4. Extends(disk, new) /\ Extends(disk, disk) /\ Extends(new, new)
    BY <1>1, <1>2, ExtendsFacts
  <1>5. writer \in Sessions \cup {Nobody}
    BY DEF RowsInv
  <1>6. CASE writer = s
    BY <1>1, <1>2, <1>3, <1>4, <1>5, <1>6 DEF Harmless, RowsInv
  <1>7. CASE writer # s
    BY <1>1, <1>2, <1>3, <1>4, <1>5, <1>7 DEF Harmless, RowsInv
  <1> QED
    BY <1>6, <1>7

\* A statement that is refused, and the ends of a transaction.
LEMMA TransactionStep ==
  ASSUME RowsInv, NEW s \in Sessions,
         \/ Refused(s) \/ BeginTransaction(s) \/ CommitTransaction(s) \/ RollbackTransaction(s)
         \/ SessionEnds(s)
  PROVE  Harmless
PROOF
  <1>1. /\ writer \in Sessions \cup {Nobody}
        /\ Sound(disk) /\ Sound(work) /\ Extends(disk, work)
        /\ Extends(disk, disk) /\ Extends(work, work)
    BY ExtendsFacts DEF RowsInv
  <1>2. CASE Refused(s) \/ RollbackTransaction(s)
    BY <1>1, <1>2 DEF Refused, RollbackTransaction, Harmless, RowsInv
  <1>3. CASE BeginTransaction(s)
    BY <1>1, <1>3 DEF BeginTransaction, Harmless, RowsInv
  <1>4. CASE CommitTransaction(s)
    BY <1>1, <1>4 DEF CommitTransaction, Harmless, RowsInv
  <1>5. CASE SessionEnds(s)
    BY <1>1, <1>5 DEF SessionEnds, Harmless, RowsInv
  <1> QED
    BY <1>2, <1>3, <1>4, <1>5

LEMMA InsertStep ==
  ASSUME RowsInv, NEW s \in Sessions, NEW t \in Tables, NEW key, NEW row,
         RowTyped(t, row), Insert(s, t, key, row)
  PROVE  Harmless
PROOF
  <1>1. CASE key \notin DOMAIN Db(s)[t] /\ HasParents(Db(s), t, row)
    BY <1>1, RunStep DEF Insert, MayWrite, Kept
  <1>2. CASE ~ (key \notin DOMAIN Db(s)[t] /\ HasParents(Db(s), t, row))
    BY <1>2, TransactionStep DEF Insert
  <1> QED
    BY <1>1, <1>2

LEMMA UpdateStep ==
  ASSUME RowsInv, NEW s \in Sessions, NEW t \in Tables, NEW key, NEW row,
         HasParents(Db(s), t, row), RowTyped(t, row), Kept(Db(s), t, key, row),
         Update(s, t, key, row)
  PROVE  Harmless
PROOF
  BY RunStep DEF Update, MayWrite

LEMMA DbIsSound ==
  ASSUME RowsInv, NEW s \in Sessions
  PROVE  Sound(Db(s))
PROOF
  BY DEF RowsInv, Db

\* The repository's operations.
LEMMA TaskSteps ==
  ASSUME RowsInv, NEW s \in Sessions, NEW p \in ProjectIds, NEW t \in TaskIds,
         NEW status \in Statuses,
         CreateProject(s, p) \/ CreateTask(s, t, p) \/ UpdateTask(s, t, status)
  PROVE  Harmless
PROOF
  <1>1. CASE CreateProject(s, p)
    <2>1. "projects" \in Tables /\ RowTyped("projects", [id |-> p])
      BY SchemaFacts DEF RowTyped
    <2> QED
      BY <1>1, <2>1, InsertStep DEF CreateProject
  <1>2. CASE CreateTask(s, t, p)
    <2>1. "tasks" \in Tables /\ RowTyped("tasks", [project |-> p, status |-> "PENDING"])
      BY SchemaFacts DEF RowTyped, Statuses
    <2> QED
      BY <1>2, <2>1, InsertStep DEF CreateTask
  <1>3. CASE UpdateTask(s, t, status)
    <2> DEFINE old == Db(s)["tasks"][t]
               row == [old EXCEPT !.status = status]
    <2>1. t \in DOMAIN Db(s)["tasks"] /\ Update(s, "tasks", t, row) /\ "tasks" \in Tables
      BY <1>3, SchemaFacts DEF UpdateTask
    <2>2. old \in [project : ProjectIds, status : Statuses] /\ HasParents(Db(s), "tasks", old)
      BY <2>1, DbIsSound DEF Sound, RowsTyped, Whole
    <2>3. row \in [project : ProjectIds, status : Statuses] /\ row.project = old.project
      BY <2>2
    <2> HIDE DEF row, old
    <2>4. HasParents(Db(s), "tasks", row) /\ RowTyped("tasks", row) /\ Kept(Db(s), "tasks", t, row)
      BY <2>2, <2>3 DEF HasParents, Parents, RowTyped, Kept, Metrics
    <2> QED
      BY <2>1, <2>4, UpdateStep
  <1> QED
    BY <1>1, <1>2, <1>3

LEMMA ExecutionSteps ==
  ASSUME RowsInv, NEW s \in Sessions, NEW p \in ProjectIds, NEW t \in TaskIds,
         NEW e \in ExecutionIds, NEW status \in Statuses,
         SaveExecutionRecord(s, e, p, t, status)
  PROVE  Harmless
PROOF
  <1>1. "execution_records" \in Tables
    BY SchemaFacts
  <1>2. CASE e \in DOMAIN Db(s)["execution_records"]
    <2> DEFINE old == Db(s)["execution_records"][e]
               row == [old EXCEPT !.status = status]
    <2>1. Update(s, "execution_records", e, row)
      BY <1>2 DEF SaveExecutionRecord
    <2>2. /\ old \in [project : ProjectIds, task : TaskIds, status : Statuses]
          /\ HasParents(Db(s), "execution_records", old)
      BY <1>1, <1>2, DbIsSound DEF Sound, RowsTyped, Whole
    <2>3. /\ row \in [project : ProjectIds, task : TaskIds, status : Statuses]
          /\ row.project = old.project /\ row.task = old.task
      BY <2>2
    <2>4. Kept(Db(s), "execution_records", e, row)
      BY <2>3 DEF Kept, Metrics
    <2> HIDE DEF row, old
    <2>5. HasParents(Db(s), "execution_records", row) /\ RowTyped("execution_records", row)
      BY <2>2, <2>3 DEF HasParents, Parents, RowTyped
    <2> QED
      BY <1>1, <2>1, <2>4, <2>5, UpdateStep
  <1>3. CASE e \notin DOMAIN Db(s)["execution_records"]
    <2>1. RowTyped("execution_records", Execution(p, t, status))
      BY DEF RowTyped, Execution
    <2> QED
      BY <1>1, <1>3, <2>1, InsertStep DEF SaveExecutionRecord
  <1> QED
    BY <1>2, <1>3

LEMMA MetricsSteps ==
  ASSUME RowsInv, NEW s \in Sessions, NEW m \in Metrics, NEW e \in ExecutionIds,
         SaveMetrics(s, m, e)
  PROVE  Harmless
PROOF
  <1>1. m \in Tables /\ m # "tasks" /\ m # "execution_records"
    BY SchemaFacts DEF Metrics
  <1>2. CASE e \in DOMAIN Db(s)[m]
    <2>1. HasParents(Db(s), m, Db(s)[m][e])
      BY <1>1, <1>2, DbIsSound DEF Sound, Whole
    <2> QED
      BY <1>1, <1>2, <2>1, UpdateStep DEF SaveMetrics, RowTyped, Kept
  <1>3. CASE e \notin DOMAIN Db(s)[m]
    BY <1>1, <1>3, InsertStep DEF SaveMetrics, RowTyped
  <1> QED
    BY <1>2, <1>3

\* All the steps.
LEMMA RepositoryStep ==
  ASSUME RowsInv, SchemaInv, [StoreNext]_storeVars
  PROVE  Harmless /\ SchemaInv'
PROOF
  <1>1. CASE UNCHANGED storeVars
    <2>1. SchemaInv'
      BY <1>1 DEF SchemaInv, Progress, storeVars
    <2> QED
      BY <1>1, <2>1, ExtendsFacts DEF Harmless, RowsInv, storeVars
  <1>2. ASSUME NEW s \in Sessions,
               \/ Open(s) \/ SetPragmas(s) \/ LookForVersion(s) \/ CreateTable(s)
               \/ RecordVersion(s) \/ MigrationLockedOut(s)
        PROVE  Harmless /\ SchemaInv'
    <2>1. UNCHANGED rowVars
      BY <1>2 DEF Open, SetPragmas, LookForVersion, CreateTable, RecordVersion,
         MigrationLockedOut
    <2>2. Harmless
      BY <2>1, ExtendsFacts DEF Harmless, RowsInv, rowVars
    <2> QED
      BY <1>2, <2>2, SchemaStep
  <1>3. ASSUME NEW s \in Sessions, SessionEnds(s)
        PROVE  Harmless /\ SchemaInv'
    BY <1>3, SchemaStep, TransactionStep
  <1>4. ASSUME UNCHANGED <<conn, position, schemaVars>>
        PROVE  SchemaInv'
    BY <1>4 DEF SchemaInv, Progress, schemaVars
  <1>5. ASSUME NEW s \in Sessions,
               BeginTransaction(s) \/ CommitTransaction(s) \/ RollbackTransaction(s)
        PROVE  Harmless /\ SchemaInv'
    <2>1. UNCHANGED <<conn, position, schemaVars>>
      BY <1>5 DEF BeginTransaction, CommitTransaction, RollbackTransaction
    <2> QED
      BY <1>4, <1>5, <2>1, TransactionStep
  <1>6. ASSUME NEW s \in Sessions, NEW p \in ProjectIds, NEW t \in TaskIds,
               CreateProject(s, p) \/ CreateTask(s, t, p)
        PROVE  Harmless /\ SchemaInv'
    <2>1. UNCHANGED <<conn, position, schemaVars>>
      BY <1>6 DEF CreateProject, CreateTask, Insert
    <2>2. "PENDING" \in Statuses
      BY DEF Statuses
    <2> QED
      BY <1>4, <1>6, <2>1, <2>2, TaskSteps
  <1>7. ASSUME NEW s \in Sessions, NEW p \in ProjectIds, NEW t \in TaskIds, NEW e \in ExecutionIds,
               NEW status \in {"RUNNING", "COMPLETED"},
               UpdateTask(s, t, status) \/ SaveExecutionRecord(s, e, p, t, status)
        PROVE  Harmless /\ SchemaInv'
    <2>1. UNCHANGED <<conn, position, schemaVars>>
      BY <1>7 DEF UpdateTask, SaveExecutionRecord, Insert, Update
    <2>2. status \in Statuses
      BY DEF Statuses
    <2> QED
      BY <1>4, <1>7, <2>1, <2>2, TaskSteps, ExecutionSteps
  <1>8. ASSUME NEW s \in Sessions, NEW e \in ExecutionIds, NEW m \in Metrics, SaveMetrics(s, m, e)
        PROVE  Harmless /\ SchemaInv'
    <2>1. UNCHANGED <<conn, position, schemaVars>>
      BY <1>8 DEF SaveMetrics, Insert, Update
    <2> QED
      BY <1>4, <1>8, <2>1, MetricsSteps
  <1> QED
    BY <1>1, <1>2, <1>3, <1>5, <1>6, <1>7, <1>8 DEF StoreNext, StoreStep, Metrics

LEMMA RowsInit == StoreInit => RowsInv
PROOF
  <1> SUFFICES ASSUME StoreInit PROVE RowsInv
    OBVIOUS
  <1>1. /\ disk = [t \in Tables |-> <<>>] /\ work = disk /\ writer = Nobody
    BY DEF StoreInit
  <1>2. \A t \in Tables : disk[t] = <<>>
    BY <1>1
  <1>3. \A t \in Tables : DOMAIN disk[t] = {}
    BY <1>2
  <1>4. Sound(disk)
    BY <1>1, <1>2, <1>3, SchemaFacts DEF Sound, IsStore, RowsTyped, Whole
  <1> QED
    BY <1>1, <1>4, ExtendsFacts DEF RowsInv

-----------------------------------------------------------------------------
(* The theorems.                                                           *)

LEMMA StoreInvariant == StoreSpec => [](SchemaInv /\ RowsInv)
PROOF
  <1>1. StoreInit => SchemaInv /\ RowsInv
    BY SchemaInit, RowsInit
  <1>2. SchemaInv /\ RowsInv /\ [StoreNext]_storeVars => (SchemaInv /\ RowsInv)'
    BY RepositoryStep DEF Harmless
  <1> QED
    BY <1>1, <1>2, PTL DEF StoreSpec

\* For any sessions that migrate one file at once and die at any statement, a
\* recorded version has all its tables, who is ready has every table, and every
\* committed row has the rows it refers to (sqlite_db.ts, sqlite_repository.ts).
THEOREM StoreStaysWhole == StoreSpec => []StoreIsWhole
PROOF
  <1>1. SchemaInv /\ RowsInv => StoreIsWhole
    BY SchemaIsWhole DEF StoreIsWhole, SchemaInv, RowsInv, Sound, Whole
  <1> QED
    BY <1>1, StoreInvariant, PTL

\* connect() throws only because of another session: the migrations can be
\* repeated from wherever they were cut short (sqlite_db.ts, runMigrations()).
THEOREM MigrationsCanBeRepeated == StoreSpec => OnlyARaceIsRefused
PROOF
  <1>1. ASSUME SchemaInv, StoreNext, NEW r \in Sessions, conn'[r] = "refused", conn[r] # "refused"
        PROVE  \/ conn[r] = "opened" /\ \E other \in Sessions \ {r} : conn[other] # "closed"
               \/ writer \notin {Nobody, r}
               \/ position[r].version \in versions /\ position[r].step > 0
    <2>1. conn \in [Sessions -> Connections] /\ position[r].version \in {1, 2}
      BY <1>1 DEF SchemaInv
    <2>2. ASSUME NEW s \in Sessions, MigrationLockedOut(s)
          PROVE  writer \notin {Nobody, r}
      BY <1>1, <2>1, <2>2 DEF MigrationLockedOut
    <2>3. ASSUME NEW s \in Sessions, RecordVersion(s)
          PROVE  position[r].version \in versions /\ position[r].step > 0
      <3>1. s = r /\ position[r].step = Len(Migrations[position[r].version]) + 1
        BY <1>1, <2>1, <2>3 DEF RecordVersion, NextVersion
      <3>2. position[r].version \in versions
        BY <1>1, <2>1, <2>3, <3>1 DEF RecordVersion, NextVersion
      <3> QED
        BY <2>1, <3>1, <3>2, SchemaFacts
    <2>4. ASSUME NEW s \in Sessions,
                 \/ Open(s) \/ LookForVersion(s) \/ CreateTable(s)
                 \/ SessionEnds(s)
          PROVE  FALSE
      BY <1>1, <2>1, <2>4
         DEF Open, LookForVersion, NextVersion, CreateTable, SessionEnds
    <2>8. ASSUME NEW s \in Sessions, SetPragmas(s)
          PROVE  conn[r] = "opened" /\ \E other \in Sessions \ {r} : conn[other] # "closed"
      BY <1>1, <2>1, <2>8 DEF SetPragmas
    <2>5. ASSUME conn' = conn PROVE FALSE
      BY <1>1, <2>5
    <2>6. ASSUME NEW s \in Sessions,
                 BeginTransaction(s) \/ CommitTransaction(s) \/ RollbackTransaction(s)
          PROVE  FALSE
      BY <2>5, <2>6 DEF BeginTransaction, CommitTransaction, RollbackTransaction
    <2>7. ASSUME NEW s \in Sessions, NEW p \in ProjectIds, NEW t \in TaskIds,
                 NEW e \in ExecutionIds, NEW status, NEW m,
                 \/ CreateProject(s, p) \/ CreateTask(s, t, p) \/ UpdateTask(s, t, status)
                 \/ SaveExecutionRecord(s, e, p, t, status) \/ SaveMetrics(s, m, e)
          PROVE  FALSE
      BY <2>5, <2>7
         DEF CreateProject, CreateTask, UpdateTask, SaveExecutionRecord, SaveMetrics,
         Insert, Update
    <2> QED
      BY <1>1, <2>2, <2>3, <2>4, <2>6, <2>7, <2>8 DEF StoreNext, StoreStep
  <1>2. SchemaInv /\ [StoreNext]_storeVars =>
          [\A s \in Sessions :
             conn'[s] = "refused" /\ conn[s] # "refused" =>
               \/ conn[s] = "opened" /\ \E other \in Sessions \ {s} : conn[other] # "closed"
               \/ writer \notin {Nobody, s}
               \/ position[s].version \in versions /\ position[s].step > 0]_storeVars
    BY <1>1
  <1> QED
    BY <1>2, StoreInvariant, PTL DEF StoreSpec, OnlyARaceIsRefused

\* Rows that are extended say no less of an execution.
TelemetryGrows ==
  \A e \in DOMAIN disk["execution_records"] :
    /\ e \in DOMAIN disk'["execution_records"]
    /\ Telemetry(e)'.of = Telemetry(e).of
    /\ Telemetry(e).metrics \subseteq Telemetry(e)'.metrics

LEMMA ExtendedTelemetryGrows ==
  ASSUME Extends(disk, disk')
  PROVE  TelemetryGrows
PROOF
  <1>1. ASSUME NEW e \in DOMAIN disk["execution_records"]
        PROVE  /\ e \in DOMAIN disk'["execution_records"]
               /\ Telemetry(e)'.of = Telemetry(e).of
               /\ Telemetry(e).metrics \subseteq Telemetry(e)'.metrics
    <2>1. /\ e \in DOMAIN disk'["execution_records"]
          /\ disk'["execution_records"][e].project = disk["execution_records"][e].project
          /\ disk'["execution_records"][e].task = disk["execution_records"][e].task
      BY <1>1 DEF Extends
    <2>2. ASSUME NEW t \in Metrics, \E key \in DOMAIN disk[t] : disk[t][key].execution = e
          PROVE  \E key \in DOMAIN disk'[t] : disk'[t][key].execution = e
      BY <2>2 DEF Extends
    <2> QED
      BY <2>1, <2>2 DEF Telemetry, Metrics
  <1> QED
    BY <1>1 DEF TelemetryGrows

\* What was reported of an execution stays, whatever is saved, rolled back or
\* cut short later (sqlite_repository.ts, getTelemetryByExecution()).
THEOREM TelemetryStays == StoreSpec => TelemetryIsKept
PROOF
  <1>1. SchemaInv /\ RowsInv /\ [StoreNext]_storeVars => [TelemetryGrows]_storeVars
    BY RepositoryStep, ExtendedTelemetryGrows DEF Harmless
  <1> QED
    BY <1>1, StoreInvariant, PTL DEF StoreSpec, TelemetryIsKept, TelemetryGrows
-----------------------------------------------------------------------------
(* Knowledge: the invariant.                                               *)

Hashes == Contents \cup {"absent"}
Healthy == (Contents \ {Malformed}) \cup {"absent"}

FilesTyped ==
  /\ wired \in BOOLEAN /\ release \in Releases
  /\ file \in [Files -> [content : Hashes \cup {"unreadable"}, time : Nat \ {0}]]
  /\ vfs \in [Files -> [content : Hashes \cup {"none"}, time : Nat]]
  /\ ast \in [Files -> Hashes \cup {"none"}]
  /\ times \in [Files -> SUBSET (Nat \ {0})]
  /\ \A f \in Files : file[f].content # "absent" => file[f].time \in times[f]

JobTyped ==
  /\ job = [kind |-> job.kind, project |-> job.project, list |-> job.list, next |-> job.next,
            known |-> job.known, force |-> job.force, stat |-> job.stat, checked |-> job.checked]
  /\ job.kind \in {"none", "index", "context"}
  /\ job.list \in Seq(Files) /\ job.next \in Nat \ {0} /\ job.stat \in Nat

\* A row of the index is of the schema its project's metadata name.
KnowledgeRows(st) ==
  \A f \in DOMAIN st["project_files"] :
    /\ st["project_files"][f] \in [project : ProjectIds, hash : Hashes, release : Releases]
    /\ st["project_files"][f].project \in DOMAIN st["project_metadata"]
    /\ st["project_metadata"][st["project_files"][f].project].release
         = st["project_files"][f].release

\* What is cached has an mtime the file had, and unless the present one stood for
\* another version, what is cached under it is the content; without the index, a
\* tree goes with that read.
Distinct(f) == f \notin repeated /\ file[f].content # "absent"
CacheInv(f) ==
  /\ vfs[f].time \in times[f] \cup {0}
  /\ Distinct(f) /\ vfs[f].time = file[f].time =>
       /\ vfs[f].content = file[f].content
       /\ ~ wired /\ ast[f] # "none" => ast[f] = vfs[f].content \/ vfs[f].content = Malformed

\* The time noted by a stat is one the file had, too.
StatInv ==
  job.stat # NoStat =>
    /\ InList /\ job.stat \in times[At]
    /\ At \notin touched => file[At].content # "absent"

FilesRead == {job.list[i] : i \in {j \in DOMAIN job.list : j < job.next}}
RowsNow == work["project_files"]

\* The index in the making: the metadata are written; a row that is known still
\* has its hash unless the file was read; the project's rows are those known or
\* of the list; what was read and left alone is indexed; and the rows of others
\* that are not in the list are as they were.
MetadataWritten ==
  /\ wired /\ writer = me /\ job.project \in ProjectIds
  /\ job.project \in DOMAIN work["project_metadata"]
  /\ work["project_metadata"][job.project] = [project |-> job.project, release |-> release]
KnownRows ==
  \A f \in DOMAIN job.known :
    /\ f \in DOMAIN RowsNow /\ RowsNow[f].project = job.project
    /\ RowsNow[f].hash = job.known[f] \/ f \in FilesRead
OwnRows ==
  \A f \in DOMAIN RowsNow :
    RowsNow[f].project = job.project => f \in DOMAIN job.known \cup Range(job.list)
ReadRows ==
  \A f \in FilesRead \ (touched \cup repeated) :
    file[f].content \in Healthy => f \in DOMAIN RowsNow /\ RowsNow[f] = FileRow(file[f].content)
OtherRows ==
  \A f \in DOMAIN disk["project_files"] \ Range(job.list) :
    disk["project_files"][f].project # job.project =>
      f \in DOMAIN RowsNow /\ RowsNow[f] = disk["project_files"][f]
IndexInv == Indexing => MetadataWritten /\ KnownRows /\ OwnRows /\ ReadRows /\ OtherRows

KnowledgeInv ==
  /\ FilesTyped /\ JobTyped
  /\ KnowledgeRows(disk) /\ KnowledgeRows(work)
  /\ \A f \in Files : CacheInv(f)
  /\ StatInv /\ IndexInv

-----------------------------------------------------------------------------
(* Knowledge: the rows.                                                    *)

\* What Without() does to the rows.
LEMMA WithoutFacts ==
  ASSUME NEW st, IsStore(st), NEW t \in Tables, NEW keys
  PROVE  LET new == Without(st, t, keys) IN
         /\ IsStore(new)
         /\ \A u \in Tables \ {t} : new[u] = st[u]
         /\ DOMAIN new[t] = DOMAIN st[t] \ keys
         /\ \A k \in DOMAIN st[t] \ keys : new[t][k] = st[t][k]
PROOF
  <1> DEFINE rows == [k \in DOMAIN st[t] \ keys |-> st[t][k]]
             new == Without(st, t, keys)
  <1>1. new = [st EXCEPT ![t] = rows]
    BY DEF Without, Restrict
  <1>2. new = [u \in Tables |-> IF u = t THEN rows ELSE st[u]]
    <2> HIDE DEF rows, new
    <2> QED
      BY <1>1 DEF IsStore
  <1>3. \A u \in Tables : new[u] = IF u = t THEN rows ELSE st[u]
    BY <1>2
  <1>4. IsStore(new)
    <2> HIDE DEF rows, new
    <2> QED
      BY <1>2, <1>3 DEF IsStore
  <1>5. new[t] = rows /\ \A u \in Tables \ {t} : new[u] = st[u]
    BY <1>3
  <1> QED
    BY <1>4, <1>5

\* No row refers to a file of the index: it may be purged.
LEMMA PurgeIsHarmless ==
  ASSUME NEW st, Sound(st), NEW keys
  PROVE  LET new == Without(st, "project_files", keys) IN Sound(new) /\ Extends(st, new)
PROOF
  <1> DEFINE t == "project_files"
             new == Without(st, t, keys)
  <1>1. t \in Tables /\ t \notin Metrics
        /\ {"projects", "tasks", "execution_records", "token_metrics", "resource_metrics"}
             \subseteq Tables \ {t}
    BY SchemaFacts DEF Metrics
  <1>2. /\ IsStore(new)
        /\ \A u \in Tables \ {t} : new[u] = st[u]
        /\ DOMAIN new[t] = DOMAIN st[t] \ keys
        /\ \A k \in DOMAIN st[t] \ keys : new[t][k] = st[t][k]
    BY <1>1, WithoutFacts DEF Sound
  <1> HIDE DEF new
  <1>3. ASSUME NEW u \in Tables, NEW r, HasParents(st, u, r) PROVE HasParents(new, u, r)
    <2>1. \A parent \in Parents(u, r) : parent[1] \in Tables \ {t}
      BY <1>1 DEF Parents
    <2> QED
      BY <1>2, <1>3, <2>1 DEF HasParents
  <1>4. ASSUME NEW u \in Tables, NEW k \in DOMAIN new[u] PROVE HasParents(new, u, new[u][k])
    <2>1. k \in DOMAIN st[u] /\ new[u][k] = st[u][k]
      BY <1>2, <1>4
    <2> QED
      BY <1>3, <2>1 DEF Sound, Whole
  <1>5. RowsTyped(new)
    BY <1>1, <1>2 DEF Sound, RowsTyped
  <1>6. Extends(st, new)
    BY <1>1, <1>2 DEF Extends, Metrics
  <1> QED
    BY <1>2, <1>4, <1>5, <1>6 DEF Sound, Whole, new

\* A row of the projects or of the knowledge touches no telemetry.
LEMMA KnowledgeRowIsHarmless ==
  ASSUME NEW st, Sound(st), NEW t \in {"projects", "project_metadata", "project_files"},
         NEW key, NEW row, HasParents(st, t, row)
  PROVE  Sound(With(st, t, key, row)) /\ Extends(st, With(st, t, key, row))
PROOF
  <1>1. t \in Tables /\ t \notin Metrics /\ t \notin {"tasks", "execution_records"}
    BY SchemaFacts DEF Metrics
  <1>2. RowTyped(t, row) /\ Kept(st, t, key, row)
    BY <1>1 DEF RowTyped, Kept
  <1> QED
    BY <1>1, <1>2, WithKeepsSound, WithExtends

-----------------------------------------------------------------------------
(* Knowledge: the steps.                                                   *)

StoreInv == SchemaInv /\ RowsInv

\* With no call nothing is noted and no index is in the making.
LEMMA NoJob ==
  ASSUME job' = Idle
  PROVE  JobTyped' /\ StatInv' /\ IndexInv'
PROOF
  <1>1. /\ job' = [kind |-> "none", project |-> Nobody, list |-> <<>>, next |-> 1,
                   known |-> <<>>, force |-> FALSE, stat |-> 0, checked |-> FALSE]
        /\ job'.kind = "none" /\ job'.stat = 0 /\ job'.list = <<>> /\ job'.next = 1
        /\ <<>> \in Seq(Files)
    BY DEF Idle, NoStat
  <1>2. JobTyped'
    BY <1>1 DEF JobTyped
  <1> QED
    BY <1>1, <1>2 DEF StatInv, NoStat, IndexInv, Indexing

LEMMA JobRuns ==
  ASSUME JobTyped
  PROVE  /\ Indexing \/ Building => job # Idle
         /\ job.stat # NoStat => job # Idle
         /\ InList => At \in Files
PROOF
  BY DEF JobTyped, Indexing, Building, Idle, NoStat, InList, At

LEMMA DoneFacts ==
  ASSUME JobTyped
  PROVE  /\ Done.kind = job.kind /\ Done.project = job.project /\ Done.list = job.list
         /\ Done.known = job.known /\ Done.next = job.next + 1 /\ Done.stat = NoStat
         /\ job' = Done => JobTyped' /\ StatInv'
PROOF
  <1>1. Done = [kind |-> job.kind, project |-> job.project, list |-> job.list,
                next |-> job.next + 1, known |-> job.known, force |-> job.force,
                stat |-> NoStat, checked |-> FALSE]
    <2> DEFINE r(n, s, c) ==
                 [kind |-> job.kind, project |-> job.project, list |-> job.list, next |-> n,
                  known |-> job.known, force |-> job.force, stat |-> s, checked |-> c]
    <2>1. job = r(job.next, job.stat, job.checked)
      BY DEF JobTyped
    <2>2. [job EXCEPT !.next = @ + 1] = r(job.next + 1, job.stat, job.checked)
      BY <2>1
    <2>3. [r(job.next + 1, job.stat, job.checked) EXCEPT !.stat = NoStat]
            = r(job.next + 1, NoStat, job.checked)
      OBVIOUS
    <2>4. \A c : [r(job.next + 1, NoStat, job.checked) EXCEPT !.checked = c]
                 = r(job.next + 1, NoStat, c)
      OBVIOUS
    <2>5. Done = [[[job EXCEPT !.next = @ + 1] EXCEPT !.stat = NoStat] EXCEPT !.checked = FALSE]
      BY DEF Done
    <2> QED
      BY <2>2, <2>3, <2>4, <2>5
  <1>2. job.next + 1 \in Nat \ {0} /\ NoStat \in Nat
    BY DEF JobTyped, NoStat
  <1>3. job' = Done => JobTyped' /\ StatInv'
    BY <1>1, <1>2 DEF JobTyped, StatInv
  <1> QED
    BY <1>1, <1>3

\* Done with a file, one more was read.
LEMMA ReadMore ==
  ASSUME JobTyped, InList, job' = Done
  PROVE  FilesRead' = FilesRead \cup {At}
PROOF
  <1>1. job'.list = job.list /\ job'.next = job.next + 1
    BY DoneFacts
  <1>2. job.next \in Nat /\ DOMAIN job.list \subseteq Nat /\ job.next \in DOMAIN job.list
    BY DEF JobTyped, InList
  <1>3. \A j \in DOMAIN job.list : j < job.next + 1 <=> j < job.next \/ j = job.next
    BY <1>2
  <1> QED
    BY <1>1, <1>2, <1>3 DEF FilesRead, At

\* A stat notes the time of a file that is there.
LEMMA StatStep ==
  ASSUME FilesTyped, JobTyped, InList, Stat, UNCHANGED <<file, times, touched>>
  PROVE  /\ JobTyped' /\ StatInv' /\ UNCHANGED FilesRead
         /\ \A x \in {"kind", "project", "list", "next", "known"} : job'[x] = job[x]
PROOF
  <1>1. At \in Files /\ file[At].time \in Nat /\ file[At].time \in times[At]
    BY JobRuns DEF FilesTyped, Stat
  <1>2. job' = [kind |-> job.kind, project |-> job.project, list |-> job.list, next |-> job.next,
                known |-> job.known, force |-> job.force, stat |-> file[At].time,
                checked |-> job.checked]
    BY DEF Stat, JobTyped
  <1>3. At' = At /\ InList' /\ JobTyped'
    BY <1>1, <1>2 DEF At, InList, JobTyped
  <1>4. StatInv'
    BY <1>1, <1>2, <1>3 DEF StatInv, Stat
  <1> QED
    BY <1>2, <1>3, <1>4 DEF FilesRead

\* What readFile() returns is what the file holds at that moment, cached or not, if
\* versions can be told apart, and the cache stays true.
LEMMA ReadIsCurrent ==
  ASSUME FilesTyped, JobTyped, StatInv, InList, \A f \in Files : CacheInv(f),
         NEW content \in Hashes, Returns(content), UNCHANGED <<file, times, repeated>>
  PROVE  /\ At \notin repeated => content = file[At].content
         /\ vfs' \in [Files -> [content : Hashes \cup {"none"}, time : Nat]]
         /\ \A f \in Files \ {At} : vfs'[f] = vfs[f]
         /\ vfs'[At].time \in times[At] \cup {0}
         /\ Distinct(At) /\ vfs'[At].time = file[At].time => vfs'[At].content = content
PROOF
  <1>1. At \in Files /\ job.stat \in Nat
    BY JobRuns DEF JobTyped
  <1>2. CacheInv(At) /\ vfs \in [Files -> [content : Hashes \cup {"none"}, time : Nat]]
    BY <1>1 DEF FilesTyped
  <1>3. CASE UNCHANGED vfs /\ content = file[At].content
    BY <1>2, <1>3 DEF CacheInv, Distinct
  <1>4. CASE /\ job.stat = NoStat /\ file[At].content # "absent" /\ Cached(At)
             /\ content = vfs[At].content /\ UNCHANGED vfs
    <2>1. vfs[At].time = file[At].time
      BY <1>4 DEF Cached
    <2> QED
      BY <1>2, <1>4, <2>1 DEF CacheInv, Distinct
  <1>5. CASE /\ job.stat # NoStat /\ content = file[At].content
             /\ vfs' = [vfs EXCEPT ![At] = [content |-> content, time |-> job.stat]]
    <2>1. job.stat \in times[At]
      BY <1>5 DEF StatInv
    <2>2. /\ vfs' \in [Files -> [content : Hashes \cup {"none"}, time : Nat]]
          /\ \A f \in Files \ {At} : vfs'[f] = vfs[f]
          /\ vfs'[At] = [content |-> content, time |-> job.stat]
      BY <1>1, <1>2, <1>5
    <2> QED
      BY <1>5, <2>1, <2>2
  <1> QED
    BY <1>3, <1>4, <1>5 DEF Returns

\* A file moves on: to a version of its own, or to one that repeats an mtime.
LEMMA FileMoves ==
  ASSUME KnowledgeInv, NEW f \in Files, NEW new \in [content : Hashes \cup {"unreadable"}, time : Nat \ {0}],
         UNCHANGED <<storeVars, wired, release, vfs, ast, job>>,
         file' = [file EXCEPT ![f] = new],
         times' \in [Files -> SUBSET (Nat \ {0})], times[f] \subseteq times'[f],
         \A g \in Files \ {f} : times'[g] = times[g] /\ (g \in repeated' <=> g \in repeated),
         new.content # "absent" => /\ new.time \in times'[f]
                                   /\ new.time \in times[f] => f \in repeated',
         job # Idle => touched' = touched \cup {f}
  PROVE  KnowledgeInv'
PROOF
  <1>1. /\ FilesTyped /\ JobTyped /\ StatInv /\ IndexInv
        /\ KnowledgeRows(disk) /\ KnowledgeRows(work)
    BY DEF KnowledgeInv
  <1>2. UNCHANGED <<storeVars, wired, release, vfs, ast, job>>
    OBVIOUS
  <1>3. /\ file' \in [Files -> [content : Hashes \cup {"unreadable"}, time : Nat \ {0}]]
        /\ file'[f] = new /\ \A g \in Files \ {f} : file'[g] = file[g]
    BY <1>1 DEF FilesTyped
  <1>4. FilesTyped' /\ JobTyped'
    BY <1>1, <1>2, <1>3 DEF FilesTyped, JobTyped
  <1>5. KnowledgeRows(disk)' /\ KnowledgeRows(work)'
    BY <1>1, <1>2 DEF KnowledgeRows, storeVars
  <1>6. ASSUME NEW g \in Files PROVE CacheInv(g)'
    <2>1. CacheInv(g) /\ vfs[g].time \in Nat
      BY <1>1 DEF KnowledgeInv, FilesTyped
    <2>2. CASE g # f
      BY <1>2, <1>3, <2>1, <2>2 DEF CacheInv, Distinct
    <2>3. CASE g = f
      <3>1. vfs[g].time \in times[g] \cup {0}
        BY <2>1 DEF CacheInv
      <3>2. ~ (Distinct(g)' /\ vfs'[g].time = file'[g].time)
        BY <1>2, <1>3, <2>3, <3>1 DEF Distinct
      <3> QED
        BY <1>2, <2>3, <3>1, <3>2 DEF CacheInv
    <2> QED
      BY <2>2, <2>3
  <1>7. StatInv'
    <2>1. At' = At /\ (InList' <=> InList) /\ job.stat \in Nat
      BY <1>1, <1>2 DEF At, InList, JobTyped
    <2>2. ASSUME job.stat # NoStat
          PROVE  /\ InList /\ job.stat \in times'[At]
                 /\ At \notin touched' => file'[At].content # "absent"
      <3>1. /\ InList /\ At \in Files /\ job # Idle /\ job.stat \in times[At]
            /\ At \notin touched => file[At].content # "absent"
        BY <1>1, <2>2, JobRuns DEF StatInv
      <3>2. CASE At = f
        BY <1>2, <1>3, <2>1, <3>1, <3>2
      <3>3. CASE At # f
        BY <1>2, <1>3, <3>1, <3>3
      <3> QED
        BY <3>2, <3>3
    <2> QED
      BY <1>2, <2>1, <2>2 DEF StatInv
  <1>8. IndexInv'
    <2>1. (Indexing' <=> Indexing) /\ FilesRead' = FilesRead
      BY <1>2 DEF Indexing, FilesRead
    <2>2. ASSUME Indexing PROVE ReadRows'
      <3>1. touched' = touched \cup {f} /\ ReadRows
        BY <1>1, <1>2, <2>2, JobRuns DEF IndexInv
      <3>2. FilesRead \subseteq Files
        BY <1>1 DEF FilesRead, JobTyped
      <3> QED
        BY <1>2, <1>3, <2>1, <3>1, <3>2 DEF ReadRows, RowsNow, FileRow, storeVars
    <2>3. ASSUME Indexing PROVE MetadataWritten' /\ KnownRows' /\ OwnRows' /\ OtherRows'
      BY <1>1, <1>2, <2>1, <2>3
         DEF IndexInv, MetadataWritten, KnownRows, OwnRows, OtherRows, RowsNow, storeVars
    <2> QED
      BY <2>1, <2>2, <2>3 DEF IndexInv
  <1> QED
    BY <1>2, <1>4, <1>5, <1>6, <1>7, <1>8 DEF KnowledgeInv

LEMMA ChangeStep ==
  ASSUME KnowledgeInv, NEW f \in Files, NEW c \in Contents \cup {"unreadable"},
         NEW t \in Nat \ {0}, Change(f, c, t)
  PROVE  KnowledgeInv' /\ UNCHANGED storeVars
PROOF
  <1> DEFINE new == [content |-> c, time |-> t]
  <1>1. new \in [content : Hashes \cup {"unreadable"}, time : Nat \ {0}] /\ new.time = t
    BY DEF Hashes
  <1>2. /\ file' = [file EXCEPT ![f] = new]
        /\ times' = [times EXCEPT ![f] = times[f] \cup {t}]
        /\ repeated' = IF t \in times[f] THEN repeated \cup {f} ELSE repeated \ {f}
        /\ job # Idle => touched' = touched \cup {f}
        /\ UNCHANGED <<storeVars, wired, release, vfs, ast, job>>
    BY DEF Change, cacheVars
  <1>3. times \in [Files -> SUBSET (Nat \ {0})]
    BY DEF KnowledgeInv, FilesTyped
  <1>4. /\ times' \in [Files -> SUBSET (Nat \ {0})] /\ times'[f] = times[f] \cup {t}
        /\ \A g \in Files \ {f} : times'[g] = times[g] /\ (g \in repeated' <=> g \in repeated)
    BY <1>2, <1>3
  <1> HIDE DEF new
  <1> QED
    BY <1>1, <1>2, <1>4, FileMoves

LEMMA RemoveStep ==
  ASSUME KnowledgeInv, NEW f \in Files, Remove(f)
  PROVE  KnowledgeInv' /\ UNCHANGED storeVars
PROOF
  <1> DEFINE new == [content |-> "absent", time |-> file[f].time]
  <1>1. /\ FilesTyped /\ file[f] = [content |-> file[f].content, time |-> file[f].time]
        /\ file[f].time \in Nat \ {0}
    BY DEF KnowledgeInv, FilesTyped
  <1>2. new \in [content : Hashes \cup {"unreadable"}, time : Nat \ {0}] /\ new.content = "absent"
    BY <1>1 DEF Hashes
  <1>3. /\ file' = [file EXCEPT ![f] = new] /\ UNCHANGED times /\ repeated' = repeated \ {f}
        /\ job # Idle => touched' = touched \cup {f}
        /\ UNCHANGED <<storeVars, wired, release, vfs, ast, job>>
    BY <1>1 DEF Remove, cacheVars
  <1>4. times \in [Files -> SUBSET (Nat \ {0})]
    BY <1>1 DEF FilesTyped
  <1> HIDE DEF new
  <1> QED
    BY <1>2, <1>3, <1>4, FileMoves

\* A call that ends or begins without a look at the files leaves the caches true.
LEMMA SameFiles ==
  ASSUME FilesTyped, \A f \in Files : CacheInv(f), UNCHANGED <<wired, release, file, times, repeated, cacheVars>>
  PROVE  FilesTyped' /\ \A f \in Files : CacheInv(f)'
PROOF
  BY DEF FilesTyped, CacheInv, Distinct, cacheVars

LEMMA SameKnowledge ==
  ASSUME NEW db1, NEW db2, KnowledgeRows(db1),
         db2["project_files"] = db1["project_files"],
         db2["project_metadata"] = db1["project_metadata"]
  PROVE  KnowledgeRows(db2)
PROOF
  BY DEF KnowledgeRows

LEMMA ProcessEndsStep ==
  ASSUME KnowledgeInv, StoreInv, ProcessEnds
  PROVE  KnowledgeInv' /\ StoreInv' /\ UNCHANGED disk
PROOF
  <1>1. me \in Sessions /\ SessionEnds(me)
    BY KnowledgeAssumption DEF ProcessEnds
  <1>2. StoreInv' /\ disk' = disk /\ (work' = disk \/ work' = work)
    BY <1>1, SchemaStep, TransactionStep DEF StoreInv, Harmless, SessionEnds
  <1>3. /\ FilesTyped /\ KnowledgeRows(disk) /\ KnowledgeRows(work)
        /\ release' \in Releases /\ UNCHANGED <<wired, file, times, repeated>>
        /\ vfs' = [f \in Files |-> NotCached] /\ ast' = [f \in Files |-> "none"]
    BY DEF KnowledgeInv, ProcessEnds, sources
  <1>4. FilesTyped'
    BY <1>3 DEF FilesTyped, NotCached
  <1>5. \A f \in Files : CacheInv(f)'
    <2>1. \A f \in Files : file[f].time \in Nat \ {0} /\ vfs'[f].time = 0
      BY <1>3 DEF FilesTyped, NotCached
    <2> QED
      BY <1>3, <2>1 DEF CacheInv
  <1>6. JobTyped' /\ StatInv' /\ IndexInv'
    BY NoJob DEF ProcessEnds
  <1>7. KnowledgeRows(disk)' /\ KnowledgeRows(work)'
    BY <1>2, <1>3 DEF KnowledgeRows
  <1> QED
    BY <1>2, <1>4, <1>5, <1>6, <1>7 DEF KnowledgeInv

LEMMA StartContextStep ==
  ASSUME KnowledgeInv, NEW list \in Lists, StartContext(list)
  PROVE  KnowledgeInv' /\ UNCHANGED storeVars
PROOF
  <1>1. job' = [kind |-> "context", project |-> Nobody, list |-> list, next |-> 1,
                known |-> <<>>, force |-> FALSE, stat |-> NoStat, checked |-> FALSE]
    BY DEF StartContext, Idle
  <1>2. JobTyped' /\ StatInv' /\ IndexInv'
    BY <1>1, KnowledgeAssumption DEF JobTyped, StatInv, IndexInv, Indexing, NoStat
  <1>3. UNCHANGED <<storeVars, wired, release, file, times, repeated, cacheVars>>
    BY DEF StartContext, sources
  <1>4. KnowledgeRows(disk)' /\ KnowledgeRows(work)'
    BY <1>3 DEF KnowledgeInv, KnowledgeRows, storeVars
  <1> QED
    BY <1>2, <1>3, <1>4, SameFiles DEF KnowledgeInv

\* The end of a call that leaves the store alone.
LEMMA FinishContextStep ==
  ASSUME KnowledgeInv, FinishContext
  PROVE  KnowledgeInv' /\ UNCHANGED storeVars
PROOF
  <1>1. job' = Idle /\ UNCHANGED <<storeVars, wired, release, file, times, repeated, cacheVars>>
    BY DEF FinishContext, sources
  <1>2. KnowledgeRows(disk)' /\ KnowledgeRows(work)'
    BY <1>1 DEF KnowledgeInv, KnowledgeRows, storeVars
  <1> QED
    BY <1>1, <1>2, NoJob, SameFiles DEF KnowledgeInv

LEMMA AbortIndexStep ==
  ASSUME KnowledgeInv, StoreInv, AbortIndex
  PROVE  KnowledgeInv' /\ StoreInv' /\ UNCHANGED disk
PROOF
  <1>1. /\ me \in Sessions /\ RollbackTransaction(me) /\ job' = Idle
        /\ UNCHANGED <<wired, release, file, times, repeated, cacheVars>>
    BY KnowledgeAssumption DEF AbortIndex, sources
  <1>2. RowsInv' /\ disk' = disk /\ work' = disk /\ UNCHANGED <<conn, position, schemaVars>>
    BY <1>1, TransactionStep DEF StoreInv, Harmless, RollbackTransaction, Refused
  <1>3. SchemaInv'
    BY <1>2 DEF StoreInv, SchemaInv, Progress, schemaVars
  <1>4. KnowledgeRows(disk)' /\ KnowledgeRows(work)'
    BY <1>2 DEF KnowledgeInv, KnowledgeRows
  <1> QED
    BY <1>1, <1>2, <1>3, <1>4, NoJob, SameFiles DEF KnowledgeInv, StoreInv

\* The stat of a file, for an index or a context.
LEMMA StatsStep ==
  ASSUME KnowledgeInv, IndexStat \/ ContextStat
  PROVE  KnowledgeInv' /\ UNCHANGED storeVars
PROOF
  <1>1. InList /\ Stat /\ UNCHANGED <<storeVars, wired, release, file, times, repeated, cacheVars, touched>>
    BY DEF IndexStat, ContextStat, sources
  <1>2. /\ JobTyped' /\ StatInv' /\ FilesRead' = FilesRead
        /\ job'.kind = job.kind /\ job'.project = job.project /\ job'.list = job.list
        /\ job'.known = job.known
    BY <1>1, StatStep DEF KnowledgeInv
  <1>3. KnowledgeRows(disk)' /\ KnowledgeRows(work)'
    BY <1>1 DEF KnowledgeInv, KnowledgeRows, storeVars
  <1>4. IndexInv'
    BY <1>1, <1>2 DEF KnowledgeInv, IndexInv, Indexing, MetadataWritten, KnownRows, OwnRows,
       ReadRows, OtherRows, RowsNow, FileRow, storeVars
  <1> QED
    BY <1>1, <1>2, <1>3, <1>4, SameFiles DEF KnowledgeInv

\* A context uses the tree that is there, or the one of the index, or looks.
LEMMA CheckFileStep ==
  ASSUME KnowledgeInv, CheckFile
  PROVE  KnowledgeInv' /\ UNCHANGED storeVars
PROOF
  <1>1. /\ Building /\ InList /\ UNCHANGED <<storeVars, wired, release, file, times, repeated, vfs, touched>>
        /\ FilesTyped /\ JobTyped /\ StatInv /\ At \in Files
    BY JobRuns DEF CheckFile, KnowledgeInv, sources
  <1>2. \/ job' = Done /\ UNCHANGED ast
        \/ /\ wired /\ job' = Done /\ At \in DOMAIN Db(me)["project_files"]
           /\ ast' = [ast EXCEPT ![At] = Db(me)["project_files"][At].hash]
        \/ job' = [job EXCEPT !.checked = TRUE] /\ UNCHANGED ast
    BY DEF CheckFile, Known
  <1>3. JobTyped' /\ StatInv' /\ job'.kind = job.kind
    <2>1. CASE job' = Done
      BY <1>1, <2>1, DoneFacts
    <2>2. CASE job' = [job EXCEPT !.checked = TRUE]
      <3>1. ASSUME NEW c, job' = [job EXCEPT !.checked = c]
            PROVE  job' = [kind |-> job.kind, project |-> job.project, list |-> job.list,
                           next |-> job.next, known |-> job.known, force |-> job.force,
                           stat |-> job.stat, checked |-> c]
        BY <1>1, <3>1 DEF JobTyped
      <3>2. job' = [kind |-> job.kind, project |-> job.project, list |-> job.list,
                    next |-> job.next, known |-> job.known, force |-> job.force,
                    stat |-> job.stat, checked |-> TRUE]
        BY <2>2, <3>1
      <3>3. JobTyped'
        BY <1>1, <3>2 DEF JobTyped
      <3> QED
        BY <1>1, <3>2, <3>3 DEF StatInv, InList, At
    <2> QED
      BY <1>2, <2>1, <2>2
  <1>4. IndexInv'
    BY <1>1, <1>3 DEF IndexInv, Indexing, Building
  <1>5. FilesTyped'
    <2>1. KnowledgeRows(Db(me))
      BY DEF KnowledgeInv, Db
    <2>2. At \in DOMAIN Db(me)["project_files"] =>
            Db(me)["project_files"][At].hash \in Hashes
      BY <2>1 DEF KnowledgeRows
    <2> QED
      BY <1>1, <1>2, <2>2 DEF FilesTyped
  <1>6. \A f \in Files : CacheInv(f)'
    BY <1>1, <1>2 DEF KnowledgeInv, CacheInv, Distinct
  <1>7. KnowledgeRows(disk)' /\ KnowledgeRows(work)'
    BY <1>1 DEF KnowledgeInv, KnowledgeRows, storeVars
  <1> QED
    BY <1>1, <1>3, <1>4, <1>5, <1>6, <1>7 DEF KnowledgeInv

\* Without the index, the tree of what was read replaces the old one, unless the
\* parser refuses.
LEMMA ParseFileStep ==
  ASSUME KnowledgeInv, ParseFile
  PROVE  KnowledgeInv' /\ UNCHANGED storeVars
PROOF
  <1>1. /\ Building /\ InList /\ UNCHANGED <<storeVars, wired, release, file, times, repeated>>
        /\ FilesTyped /\ JobTyped /\ StatInv /\ At \in Files
        /\ \A f \in Files : CacheInv(f)
    BY JobRuns DEF ParseFile, KnowledgeInv, sources
  <1>2. job' = Done \/ job' = Idle
    BY DEF ParseFile
  <1>3. JobTyped' /\ StatInv' /\ IndexInv'
    <2>1. CASE job' = Done
      BY <1>1, <2>1, DoneFacts DEF IndexInv, Indexing, Building
    <2>2. CASE job' = Idle
      BY <2>2, NoJob
    <2> QED
      BY <1>2, <2>1, <2>2
  <1>4. FilesTyped' /\ \A f \in Files : CacheInv(f)'
    <2>1. CASE Throws /\ UNCHANGED ast
      BY <1>1, <2>1, SameFiles DEF Throws, cacheVars
    <2>2. ASSUME NEW content \in Hashes, Returns(content),
                 Parses(content) => ast' = [ast EXCEPT ![At] = content],
                 ~ Parses(content) => ast' = ast
          PROVE  FilesTyped' /\ \A f \in Files : CacheInv(f)'
      <3>1. /\ At \notin repeated => content = file[At].content
            /\ vfs' \in [Files -> [content : Hashes \cup {"none"}, time : Nat]]
            /\ \A f \in Files \ {At} : vfs'[f] = vfs[f]
            /\ vfs'[At].time \in times[At] \cup {0}
            /\ Distinct(At) /\ vfs'[At].time = file[At].time => vfs'[At].content = content
        BY <1>1, <2>2, ReadIsCurrent
      <3>2. /\ ast' \in [Files -> Hashes \cup {"none"}]
            /\ \A f \in Files \ {At} : ast'[f] = ast[f]
            /\ content # Malformed => ast'[At] = content
        BY <1>1, <2>2 DEF FilesTyped, Parses
      <3>3. \A f \in Files : f = At => CacheInv(f)'
        BY <1>1, <3>1, <3>2 DEF CacheInv, Distinct
      <3>4. \A f \in Files \ {At} : CacheInv(f)'
        BY <1>1, <3>1, <3>2 DEF CacheInv, Distinct
      <3> QED
        BY <1>1, <3>1, <3>2, <3>3, <3>4 DEF FilesTyped
    <2> QED
      BY <2>1, <2>2 DEF ParseFile, Hashes
  <1>5. KnowledgeRows(disk)' /\ KnowledgeRows(work)'
    BY <1>1 DEF KnowledgeInv, KnowledgeRows, storeVars
  <1> QED
    BY <1>1, <1>3, <1>4, <1>5 DEF KnowledgeInv

LEMMA KnowledgeTables ==
  {"projects", "project_metadata", "project_files"} \subseteq Tables
PROOF
  BY SchemaFacts

\* The index begins with the rows that are there and are of this release.
LEMMA StartIndexStep ==
  ASSUME KnowledgeInv, StoreInv, NEW p \in ProjectIds, NEW list \in Lists, StartIndex(p, list)
  PROVE  KnowledgeInv' /\ StoreInv' /\ UNCHANGED disk
PROOF
  <1> DEFINE st == IF p \in DOMAIN disk["projects"] THEN disk
                                                    ELSE With(disk, "projects", p, [id |-> p])
             meta == st["project_metadata"]
             mismatch == p \in DOMAIN meta /\ meta[p].release # release
             purged == IF mismatch THEN Without(st, "project_files", RowsOf(st, p)) ELSE st
             row == [project |-> p, release |-> release]
             new == With(purged, "project_metadata", p, row)
             known == [f \in RowsOf(purged, p) |-> purged["project_files"][f].hash]
  <1>1. /\ wired /\ writer' = me /\ work' = new /\ touched' = {}
        /\ job' = [Idle EXCEPT !.kind = "index", !.project = p, !.list = list,
                               !.force = mismatch, !.known = known]
        /\ UNCHANGED <<disk, schemaVars, conn, position, wired, release, file, times, repeated, cacheVars>>
    BY DEF StartIndex, sources
  <1>2. /\ FilesTyped /\ KnowledgeRows(disk) /\ SchemaInv /\ RowsInv
        /\ Sound(disk) /\ Extends(disk, disk)
        /\ release \in Releases /\ list \in Seq(Files) /\ me \in Sessions
    BY ExtendsFacts, KnowledgeAssumption DEF KnowledgeInv, StoreInv, RowsInv, FilesTyped
  <1>3. /\ Sound(st) /\ Extends(disk, st) /\ p \in DOMAIN st["projects"]
        /\ st["project_files"] = disk["project_files"]
        /\ st["project_metadata"] = disk["project_metadata"]
    <2>1. CASE p \in DOMAIN disk["projects"]
      BY <1>2, <2>1
    <2>2. CASE p \notin DOMAIN disk["projects"]
      <3>1. st = With(disk, "projects", p, [id |-> p])
        BY <2>2
      <3>2. HasParents(disk, "projects", [id |-> p])
        BY DEF HasParents, Parents
      <3> HIDE DEF st
      <3>3. Sound(st) /\ Extends(disk, st)
        BY <1>2, <3>1, <3>2, KnowledgeRowIsHarmless
      <3>4. IsStore(disk)
        BY <1>2 DEF Sound
      <3> QED
        BY <3>1, <3>3, <3>4, WithFacts, KnowledgeTables
    <2> QED
      BY <2>1, <2>2
  <1>4. KnowledgeRows(st)
    BY <1>2, <1>3, SameKnowledge
  <1> HIDE DEF st
  <1>5. /\ Sound(purged) /\ Extends(st, purged)
        /\ p \in DOMAIN purged["projects"] /\ purged["project_metadata"] = meta
        /\ \A f \in DOMAIN purged["project_files"] :
             f \in DOMAIN st["project_files"] /\ purged["project_files"][f] = st["project_files"][f]
        /\ \A f \in DOMAIN st["project_files"] :
             f \in DOMAIN purged["project_files"] \/ st["project_files"][f].project = p
        /\ mismatch => \A f \in DOMAIN purged["project_files"] : purged["project_files"][f].project # p
    <2>1. CASE mismatch
      <3>1. purged = Without(st, "project_files", RowsOf(st, p))
        BY <2>1
      <3> HIDE DEF purged
      <3>2. Sound(purged) /\ Extends(st, purged)
        BY <1>3, <3>1, PurgeIsHarmless
      <3>3. /\ \A u \in Tables \ {"project_files"} : purged[u] = st[u]
            /\ DOMAIN purged["project_files"] = DOMAIN st["project_files"] \ RowsOf(st, p)
            /\ \A k \in DOMAIN st["project_files"] \ RowsOf(st, p) :
                 purged["project_files"][k] = st["project_files"][k]
        BY <1>3, <3>1, WithoutFacts, KnowledgeTables DEF Sound
      <3>4. purged["projects"] = st["projects"] /\ purged["project_metadata"] = meta
        BY <3>3, KnowledgeTables
      <3>5. p \in DOMAIN purged["projects"]
        BY <1>3, <3>4
      <3> QED
        BY <3>2, <3>3, <3>4, <3>5 DEF RowsOf
    <2>2. CASE ~ mismatch
      <3>1. purged = st
        BY <2>2
      <3> QED
        BY <1>3, <2>2, <3>1, ExtendsFacts
    <2> QED
      BY <2>1, <2>2
  <1> HIDE DEF purged
  <1>6. HasParents(purged, "project_metadata", row)
    BY <1>5 DEF HasParents, Parents
  <1>7. /\ Sound(new) /\ Extends(purged, new)
        /\ new["project_files"] = purged["project_files"]
        /\ DOMAIN new["project_metadata"] = DOMAIN meta \cup {p}
        /\ new["project_metadata"][p] = row
        /\ \A q \in DOMAIN meta \ {p} : new["project_metadata"][q] = meta[q]
    <2>1. Sound(new) /\ Extends(purged, new)
      BY <1>5, <1>6, KnowledgeRowIsHarmless
    <2> QED
      BY <1>5, <2>1, WithFacts, KnowledgeTables DEF Sound
  <1> HIDE DEF new
  <1>8. RowsInv' /\ SchemaInv'
    <2>1. Extends(disk, new)
      BY <1>3, <1>5, <1>7, ExtendsFacts
    <2>2. RowsInv'
      BY <1>1, <1>2, <1>7, <2>1 DEF RowsInv
    <2>3. SchemaInv'
      BY <1>1, <1>2 DEF SchemaInv, Progress, schemaVars
    <2> QED
      BY <2>2, <2>3
  <1>9. ASSUME NEW f \in DOMAIN new["project_files"]
        PROVE  /\ new["project_files"][f] \in [project : ProjectIds, hash : Hashes, release : Releases]
               /\ new["project_files"][f].project \in DOMAIN new["project_metadata"]
               /\ new["project_metadata"][new["project_files"][f].project].release
                    = new["project_files"][f].release
    <2> DEFINE r == new["project_files"][f]
    <2>1. /\ r \in [project : ProjectIds, hash : Hashes, release : Releases]
          /\ r.project \in DOMAIN meta /\ meta[r.project].release = r.release
      BY <1>4, <1>5, <1>7, <1>9 DEF KnowledgeRows
    <2>2. r.project = p => meta[p].release = release
      BY <1>5, <1>7, <1>9, <2>1
    <2> QED
      BY <1>7, <2>1, <2>2
  <1>10. KnowledgeRows(disk)' /\ KnowledgeRows(work)'
    BY <1>1, <1>2, <1>9 DEF KnowledgeRows
  <1>11. job' = [kind |-> "index", project |-> p, list |-> list, next |-> 1, known |-> known,
                 force |-> mismatch, stat |-> NoStat, checked |-> FALSE]
    <2> HIDE DEF known, mismatch
    <2> DEFINE r(k, q, l, m, n, c) ==
                 [kind |-> k, project |-> q, list |-> l, next |-> 1, known |-> n,
                  force |-> m, stat |-> NoStat, checked |-> c]
    <2>1. Idle = r("none", Nobody, <<>>, FALSE, <<>>, FALSE)
      BY DEF Idle
    <2>2. \A c : [r("none", Nobody, <<>>, c, <<>>, c) EXCEPT !.kind = "index"]
                 = r("index", Nobody, <<>>, c, <<>>, c)
      OBVIOUS
    <2>3. \A c : [r("index", Nobody, <<>>, c, <<>>, c) EXCEPT !.project = p]
                 = r("index", p, <<>>, c, <<>>, c)
      OBVIOUS
    <2>4. \A c : [r("index", p, <<>>, c, <<>>, c) EXCEPT !.list = list]
                 = r("index", p, list, c, <<>>, c)
      OBVIOUS
    <2>5. \A c, m : [r("index", p, list, c, <<>>, c) EXCEPT !.force = m]
                    = r("index", p, list, m, <<>>, c)
      OBVIOUS
    <2>6. \A c, m, n : [r("index", p, list, m, <<>>, c) EXCEPT !.known = n]
                       = r("index", p, list, m, n, c)
      OBVIOUS
    <2>7. job' = [[[[[Idle EXCEPT !.kind = "index"] EXCEPT !.project = p] EXCEPT !.list = list]
                     EXCEPT !.force = mismatch] EXCEPT !.known = known]
      BY <1>1
    <2>8. ASSUME NEW c, Idle = r("none", Nobody, <<>>, c, <<>>, c)
          PROVE  job' = r("index", p, list, mismatch, known, c)
      <3> HIDE DEF r
      <3>1. [Idle EXCEPT !.kind = "index"] = r("index", Nobody, <<>>, c, <<>>, c)
        BY <2>2, <2>8
      <3>2. [[Idle EXCEPT !.kind = "index"] EXCEPT !.project = p] = r("index", p, <<>>, c, <<>>, c)
        BY <2>3, <3>1
      <3>3. [[[Idle EXCEPT !.kind = "index"] EXCEPT !.project = p] EXCEPT !.list = list]
              = r("index", p, list, c, <<>>, c)
        BY <2>4, <3>2
      <3>4. [[[[Idle EXCEPT !.kind = "index"] EXCEPT !.project = p] EXCEPT !.list = list]
                EXCEPT !.force = mismatch] = r("index", p, list, mismatch, <<>>, c)
        BY <2>5, <3>3
      <3> QED
        BY <2>6, <2>7, <3>4
    <2> QED
      BY <2>1, <2>8
  <1>12. JobTyped' /\ StatInv'
    BY <1>2, <1>11 DEF JobTyped, StatInv, NoStat
  <1>13. IndexInv'
    <2>1. FilesRead' = {}
      <3>1. \A j \in DOMAIN list : j \in Nat \ {0}
        BY <1>2
      <3> QED
        BY <1>11, <3>1 DEF FilesRead
    <2>2. /\ RowsNow' = purged["project_files"]
          /\ job'.project = p /\ job'.list = list /\ job'.known = known
      BY <1>1, <1>7, <1>11 DEF RowsNow
    <2>3. MetadataWritten'
      BY <1>1, <1>7, <2>2 DEF MetadataWritten
    <2>4. KnownRows' /\ OwnRows'
      BY <2>2 DEF KnownRows, OwnRows, RowsOf
    <2>5. ReadRows'
      BY <2>1 DEF ReadRows
    <2>6. OtherRows'
      BY <1>1, <1>3, <1>5, <2>2 DEF OtherRows
    <2> QED
      BY <2>3, <2>4, <2>5, <2>6 DEF IndexInv
  <1>14. FilesTyped' /\ \A f \in Files : CacheInv(f)'
    BY <1>1, SameFiles DEF KnowledgeInv
  <1> QED
    BY <1>1, <1>8, <1>10, <1>12, <1>13, <1>14 DEF KnowledgeInv, StoreInv

\* A file of the list: it is read, and its row written unless it is known so.
LEMMA IndexFileStep ==
  ASSUME KnowledgeInv, StoreInv, IndexFile
  PROVE  KnowledgeInv' /\ StoreInv' /\ UNCHANGED disk
PROOF
  <1> DEFINE g == At
             p == job.project
             t == "project_files"
  <1>1. /\ Indexing /\ InList /\ g \in Files /\ job' = Done
        /\ UNCHANGED <<schemaVars, disk, writer, conn, position, wired, release, file, times, repeated, ast, touched>>
        /\ FilesTyped /\ JobTyped /\ StatInv /\ \A f \in Files : CacheInv(f)
        /\ MetadataWritten /\ KnownRows /\ OwnRows /\ ReadRows /\ OtherRows
        /\ KnowledgeRows(disk) /\ KnowledgeRows(work) /\ RowsInv
    BY JobRuns DEF IndexFile, KnowledgeInv, IndexInv, StoreInv, sources
  <1>2. /\ JobTyped' /\ StatInv' /\ FilesRead' = FilesRead \cup {g}
        /\ Indexing' /\ job'.project = p /\ job'.list = job.list /\ job'.known = job.known
    BY <1>1, DoneFacts, ReadMore DEF Indexing
  <1>3. /\ Sound(work) /\ IsStore(work) /\ Whole(work) /\ writer = me
        /\ p \in ProjectIds /\ p \in DOMAIN work["project_metadata"]
        /\ work["project_metadata"][p] = [project |-> p, release |-> release]
        /\ g \in Range(job.list)
    BY <1>1 DEF RowsInv, Sound, MetadataWritten, InList, At, Range
  <1>4. \A content : FileRow(content) = [project |-> p, hash |-> content, release |-> release]
    BY DEF FileRow
  \* The two outcomes for the rows.
  <1>5. CASE UNCHANGED <<work, vfs>> /\ Throws
    <2>1. FilesTyped' /\ \A f \in Files : CacheInv(f)'
      BY <1>1, <1>5, SameFiles DEF cacheVars
    <2>2. KnowledgeRows(disk)' /\ KnowledgeRows(work)' /\ RowsInv'
      BY <1>1, <1>5 DEF KnowledgeRows, RowsInv
    <2>3. g \in FilesRead \/ g \in touched \/ file[g].content \notin Healthy
      BY <1>1, <1>5, KnowledgeAssumption DEF Throws, StatInv, Healthy
    <2>4. ReadRows'
      BY <1>1, <1>2, <1>5, <2>3 DEF ReadRows, RowsNow, FileRow
    <2>5. MetadataWritten' /\ KnownRows' /\ OwnRows' /\ OtherRows'
      BY <1>1, <1>2, <1>5 DEF MetadataWritten, KnownRows, OwnRows, OtherRows, RowsNow
    <2> QED
      BY <1>1, <1>2, <1>5, <2>1, <2>2, <2>4, <2>5
         DEF KnowledgeInv, IndexInv, StoreInv, SchemaInv, Progress, schemaVars
  <1>6. ASSUME NEW content \in Hashes, Returns(content),
               work' = IF ~ Unchanged(content) /\ Parses(content)
                         THEN With(work, t, g, FileRow(content)) ELSE work
        PROVE  KnowledgeInv' /\ StoreInv'
    <2>1. /\ g \notin repeated => content = file[g].content
          /\ vfs' \in [Files -> [content : Hashes \cup {"none"}, time : Nat]]
          /\ \A f \in Files \ {g} : vfs'[f] = vfs[f]
          /\ vfs'[g].time \in times[g] \cup {0}
          /\ Distinct(g) /\ vfs'[g].time = file[g].time => vfs'[g].content = content
      BY <1>1, <1>6, ReadIsCurrent
    <2>2. FilesTyped' /\ \A f \in Files : CacheInv(f)'
      BY <1>1, <2>1 DEF FilesTyped, CacheInv, Distinct, MetadataWritten
    <2>3. CASE Unchanged(content) \/ ~ Parses(content)
      <3>1. work' = work
        BY <1>6, <2>3
      <3>2. KnowledgeRows(disk)' /\ KnowledgeRows(work)' /\ RowsInv'
        BY <1>1, <3>1 DEF KnowledgeRows, RowsInv
      <3>3. ASSUME g \notin touched \cup repeated, file[g].content \in Healthy
            PROVE  g \in DOMAIN RowsNow /\ RowsNow[g] = FileRow(file[g].content)
        <4>1. g \in DOMAIN job.known /\ job.known[g] = content
          BY <2>1, <2>3, <3>3, KnowledgeAssumption DEF Unchanged, Parses, Healthy
        <4>2. CASE g \in FilesRead
          BY <1>1, <3>3, <4>2 DEF ReadRows
        <4>3. CASE g \notin FilesRead
          <5>1. /\ g \in DOMAIN RowsNow /\ RowsNow[g].project = p /\ RowsNow[g].hash = content
            BY <1>1, <4>1, <4>3 DEF KnownRows
          <5>2. /\ RowsNow[g] \in [project : ProjectIds, hash : Hashes, release : Releases]
                /\ RowsNow[g].release = release
            BY <1>1, <1>3, <5>1 DEF KnowledgeRows, RowsNow
          <5> QED
            BY <1>4, <2>1, <3>3, <5>1, <5>2
        <4> QED
          BY <4>2, <4>3
      <3>4. ReadRows'
        BY <1>1, <1>2, <3>1, <3>3 DEF ReadRows, RowsNow, FileRow
      <3>5. MetadataWritten' /\ KnownRows' /\ OwnRows' /\ OtherRows'
        BY <1>1, <1>2, <3>1 DEF MetadataWritten, KnownRows, OwnRows, OtherRows, RowsNow
      <3> QED
        BY <1>1, <1>2, <2>2, <3>2, <3>4, <3>5
           DEF KnowledgeInv, IndexInv, StoreInv, SchemaInv, Progress, schemaVars
    <2>4. CASE ~ Unchanged(content) /\ Parses(content)
      <3> DEFINE new == With(work, t, g, FileRow(content))
                 meta == work["project_metadata"]
      <3>1. work' = new
        BY <1>6, <2>4
      <3>2. HasParents(work, t, FileRow(content))
        <4>1. HasParents(work, "project_metadata", meta[p])
          BY <1>3, KnowledgeTables DEF Whole
        <4>2. Parents("project_metadata", meta[p]) = {<<"projects", p>>}
          BY <1>3 DEF Parents
        <4>3. \A parent \in {<<"projects", p>>} : parent[2] \in DOMAIN work[parent[1]]
          BY <4>1, <4>2 DEF HasParents
        <4>4. p \in DOMAIN work["projects"]
          BY <4>3
        <4> QED
          BY <1>4, <4>4 DEF HasParents, Parents
      <3>3. Sound(new) /\ Extends(work, new)
        BY <1>3, <3>2, KnowledgeRowIsHarmless
      <3>4. /\ new["project_metadata"] = meta
            /\ DOMAIN new[t] = DOMAIN work[t] \cup {g}
            /\ new[t][g] = FileRow(content)
            /\ \A k \in DOMAIN work[t] \ {g} : new[t][k] = work[t][k]
        BY <1>3, WithFacts, KnowledgeTables
      <3> HIDE DEF new
      <3>5. RowsInv'
        BY <1>1, <3>1, <3>3, ExtendsFacts DEF RowsInv
      <3>6. KnowledgeRows(disk)'
        BY <1>1 DEF KnowledgeRows
      <3>7. KnowledgeRows(work)'
        <4>1. /\ FileRow(content) \in [project : ProjectIds, hash : Hashes, release : Releases]
              /\ meta[p].release = release
          BY <1>1, <1>3, <1>4, <1>6 DEF FilesTyped
        <4> QED
          BY <1>1, <1>3, <1>4, <3>1, <3>4, <4>1 DEF KnowledgeRows
      <3>8. RowsNow' = new[t] /\ RowsNow = work[t]
        BY <3>1 DEF RowsNow
      <3>9. MetadataWritten'
        BY <1>1, <1>2, <3>1, <3>4 DEF MetadataWritten
      <3>10. KnownRows'
        BY <1>1, <1>2, <1>4, <3>4, <3>8 DEF KnownRows
      <3>11. OwnRows'
        BY <1>1, <1>2, <1>3, <3>4, <3>8 DEF OwnRows
      <3>12. ReadRows'
        <4>1. \A c : FileRow(c)' = FileRow(c)
          BY <1>1, <1>2 DEF FileRow
        <4> QED
          BY <1>1, <1>2, <2>1, <3>4, <3>8, <4>1 DEF ReadRows
      <3>13. OtherRows'
        BY <1>1, <1>2, <1>3, <3>4, <3>8 DEF OtherRows
      <3> QED
        BY <1>1, <1>2, <2>2, <3>5, <3>6, <3>7, <3>9, <3>10, <3>11, <3>12, <3>13
           DEF KnowledgeInv, IndexInv, StoreInv, SchemaInv, Progress, schemaVars
    <2> QED
      BY <2>3, <2>4
  <1>7. \/ UNCHANGED <<work, vfs>> /\ Throws
        \/ \E content \in Hashes :
             /\ Returns(content)
             /\ work' = IF ~ Unchanged(content) /\ Parses(content)
                          THEN With(work, t, g, FileRow(content)) ELSE work
    BY DEF IndexFile, Hashes, Throws
  <1>8. disk' = disk
    BY <1>1
  <1> QED
    BY <1>5, <1>6, <1>7, <1>8

\* Why what a commit leaves is current: the rows of the work, without the purged.
LEMMA CommitIsCurrent ==
  ASSUME KnowledgeInv, StoreInv, Indexing, ~ InList,
         work' = Without(work, "project_files", Purged)
  PROVE  LET rows2 == work'["project_files"] IN
         /\ Sound(work') /\ Extends(work, work')
         /\ work'["project_metadata"] = work["project_metadata"]
         /\ \A f \in DOMAIN rows2 : f \in DOMAIN RowsNow /\ rows2[f] = RowsNow[f]
         /\ \A f \in DOMAIN RowsNow : f \in DOMAIN rows2 \/ f \in Purged
         /\ DOMAIN rows2 \cap Purged = {}
         /\ FilesRead = Range(job.list)
PROOF
  <1>1. Sound(work) /\ IsStore(work)
    BY DEF StoreInv, RowsInv, Sound
  <1>2. Sound(work') /\ Extends(work, work')
    BY <1>1, PurgeIsHarmless
  <1>3. /\ work'["project_metadata"] = work["project_metadata"]
        /\ DOMAIN work'["project_files"] = DOMAIN RowsNow \ Purged
        /\ \A f \in DOMAIN RowsNow \ Purged : work'["project_files"][f] = RowsNow[f]
    BY <1>1, WithoutFacts, KnowledgeTables DEF RowsNow
  <1>4. \A j \in DOMAIN job.list : j < job.next
    <2>1. /\ job.list \in Seq(Files) /\ job.next \in Nat \ {0} /\ job.next \notin 1..Len(job.list)
          /\ DOMAIN job.list = 1..Len(job.list) /\ Len(job.list) \in Nat
      BY DEF KnowledgeInv, JobTyped, InList
    <2> QED
      BY <2>1
  <1>5. FilesRead = Range(job.list)
    BY <1>4 DEF FilesRead, Range
  <1> QED
    BY <1>2, <1>3, <1>5

LEMMA FinishIndexStep ==
  ASSUME KnowledgeInv, StoreInv, FinishIndex
  PROVE  KnowledgeInv' /\ StoreInv' /\ Extends(disk, disk')
PROOF
  <1>1. /\ Indexing /\ ~ InList /\ writer' = Nobody /\ disk' = work' /\ job' = Idle
        /\ work' = Without(work, "project_files", Purged)
        /\ UNCHANGED <<schemaVars, conn, position, wired, release, file, times, repeated, cacheVars>>
    BY DEF FinishIndex, sources
  <1>2. /\ Sound(work') /\ Extends(work, work')
        /\ work'["project_metadata"] = work["project_metadata"]
        /\ \A f \in DOMAIN work'["project_files"] :
             f \in DOMAIN RowsNow /\ work'["project_files"][f] = RowsNow[f]
    BY <1>1, CommitIsCurrent
  <1>3. Extends(disk, work') /\ Extends(work', work')
    BY <1>2, ExtendsFacts DEF StoreInv, RowsInv
  <1>4. RowsInv'
    BY <1>1, <1>2, <1>3 DEF RowsInv
  <1>5. SchemaInv'
    BY <1>1 DEF StoreInv, SchemaInv, Progress, schemaVars
  <1>6. KnowledgeRows(work')
    BY <1>2 DEF KnowledgeInv, KnowledgeRows, RowsNow
  <1>7. KnowledgeRows(disk)' /\ KnowledgeRows(work)'
    BY <1>1, <1>6 DEF KnowledgeRows
  <1> QED
    BY <1>1, <1>3, <1>4, <1>5, <1>7, NoJob, SameFiles DEF KnowledgeInv, StoreInv

-----------------------------------------------------------------------------
(* Knowledge: the store beside it.                                         *)

SameIndex(a, b) ==
  a["project_files"] = b["project_files"] /\ a["project_metadata"] = b["project_metadata"]

\* The other operations of the repository leave the index alone.
LEMMA InsertLeavesIndex ==
  ASSUME RowsInv, NEW s \in Sessions, NEW t \in Tables \ {"project_files", "project_metadata"},
         NEW key, NEW row, Insert(s, t, key, row) \/ Update(s, t, key, row)
  PROVE  /\ SameIndex(disk', disk) \/ SameIndex(disk', work)
         /\ SameIndex(work', disk) \/ SameIndex(work', work)
PROOF
  <1> DEFINE new == With(Db(s), t, key, row)
  <1>1. IsStore(Db(s)) /\ Db(s) \in {disk, work}
    BY DEF RowsInv, Sound, Db
  <1>2. SameIndex(new, Db(s))
    BY <1>1, WithFacts, KnowledgeTables DEF SameIndex
  <1>3. Run(s, new) \/ Refused(s)
    BY DEF Insert, Update
  <1> HIDE DEF new
  <1>4. CASE Run(s, new)
    BY <1>1, <1>2, <1>4 DEF Run, SameIndex
  <1>5. CASE Refused(s)
    BY <1>5 DEF Refused, SameIndex
  <1> QED
    BY <1>3, <1>4, <1>5

LEMMA StoreStepLeavesIndex ==
  ASSUME RowsInv, NEW s \in Sessions, StoreStep(s)
  PROVE  /\ SameIndex(disk', disk) \/ SameIndex(disk', work)
         /\ SameIndex(work', disk) \/ SameIndex(work', work)
PROOF
  <1> DEFINE Goal == /\ SameIndex(disk', disk) \/ SameIndex(disk', work)
                     /\ SameIndex(work', disk) \/ SameIndex(work', work)
  <1>1. CASE \/ Open(s) \/ SetPragmas(s) \/ LookForVersion(s) \/ CreateTable(s)
             \/ RecordVersion(s) \/ MigrationLockedOut(s)
    BY <1>1 DEF Open, SetPragmas, LookForVersion, CreateTable, RecordVersion, MigrationLockedOut,
       rowVars, SameIndex
  <1>2. CASE \/ SessionEnds(s) \/ BeginTransaction(s) \/ CommitTransaction(s)
             \/ RollbackTransaction(s)
    BY <1>2 DEF SessionEnds, BeginTransaction, CommitTransaction, RollbackTransaction, Refused,
       SameIndex
  <1>3. {"projects", "tasks", "execution_records", "token_metrics", "resource_metrics"}
          \subseteq Tables \ {"project_files", "project_metadata"}
    BY SchemaFacts
  <1>4. ASSUME NEW p, NEW t, NEW e, NEW status, NEW m \in Metrics,
               \/ CreateProject(s, p) \/ CreateTask(s, t, p) \/ UpdateTask(s, t, status)
               \/ SaveExecutionRecord(s, e, p, t, status) \/ SaveMetrics(s, m, e)
        PROVE  \E u \in Tables \ {"project_files", "project_metadata"} : \E key, row :
                 Insert(s, u, key, row) \/ Update(s, u, key, row)
    <2>1. m \in Tables \ {"project_files", "project_metadata"}
      BY <1>3 DEF Metrics
    <2>2. CASE CreateProject(s, p)
      BY <1>3, <2>2 DEF CreateProject
    <2>3. CASE CreateTask(s, t, p)
      BY <1>3, <2>3 DEF CreateTask
    <2>4. CASE UpdateTask(s, t, status)
      BY <1>3, <2>4 DEF UpdateTask
    <2>5. CASE SaveExecutionRecord(s, e, p, t, status)
      BY <1>3, <2>5 DEF SaveExecutionRecord
    <2>6. CASE SaveMetrics(s, m, e)
      BY <2>1, <2>6 DEF SaveMetrics
    <2> QED
      BY <1>4, <2>2, <2>3, <2>4, <2>5, <2>6
  <1>5. ASSUME \E u \in Tables \ {"project_files", "project_metadata"} : \E key, row :
                 Insert(s, u, key, row) \/ Update(s, u, key, row)
        PROVE  Goal
    <2> HIDE DEF Goal
    <2>1. PICK u \in Tables \ {"project_files", "project_metadata"} :
            \E key, row : Insert(s, u, key, row) \/ Update(s, u, key, row)
      BY <1>5
    <2>2. PICK key, row : Insert(s, u, key, row) \/ Update(s, u, key, row)
      BY <2>1
    <2> QED
      BY <2>2, InsertLeavesIndex DEF Goal
  <1> HIDE DEF Goal
  <1>6. CASE \E p \in ProjectIds, t \in TaskIds, e \in ExecutionIds :
       \/ CreateProject(s, p) \/ CreateTask(s, t, p)
       \/ \E status \in {"RUNNING", "COMPLETED"} :
            UpdateTask(s, t, status) \/ SaveExecutionRecord(s, e, p, t, status)
       \/ \E m \in Metrics : SaveMetrics(s, m, e)
    <2>1. Metrics # {}
      BY DEF Metrics
    <2>2. \E u \in Tables \ {"project_files", "project_metadata"} : \E key, row :
            Insert(s, u, key, row) \/ Update(s, u, key, row)
      BY <1>4, <1>6, <2>1
    <2> QED
      BY <1>5, <2>2 DEF Goal
  <1> QED
    BY <1>1, <1>2, <1>6 DEF StoreStep, Metrics, Goal

\* While a session writes, the others' steps change no row.
LEMMA TheWriterIsAlone ==
  ASSUME NEW s \in Sessions, StoreStep(s), writer \notin {Nobody, s}
  PROVE  UNCHANGED rowVars
PROOF
  <1>1. CASE \/ Open(s) \/ SetPragmas(s) \/ LookForVersion(s) \/ CreateTable(s)
             \/ RecordVersion(s) \/ MigrationLockedOut(s) \/ SessionEnds(s)
    BY <1>1 DEF Open, SetPragmas, LookForVersion, CreateTable, RecordVersion, MigrationLockedOut,
       SessionEnds, rowVars
  <1>2. CASE BeginTransaction(s) \/ CommitTransaction(s) \/ RollbackTransaction(s)
    BY <1>2 DEF BeginTransaction, CommitTransaction, RollbackTransaction
  <1>3. ASSUME NEW p, NEW t, NEW e, NEW status, NEW m,
               \/ CreateProject(s, p) \/ CreateTask(s, t, p) \/ UpdateTask(s, t, status)
               \/ SaveExecutionRecord(s, e, p, t, status) \/ SaveMetrics(s, m, e)
        PROVE  FALSE
    BY <1>3 DEF CreateProject, CreateTask, UpdateTask, SaveExecutionRecord, SaveMetrics, Insert,
       Update, MayWrite
  <1> QED
    BY <1>1, <1>2, <1>3 DEF StoreStep

LEMMA BesideStep ==
  ASSUME KnowledgeInv, StoreInv, Beside
  PROVE  KnowledgeInv' /\ StoreInv' /\ Extends(disk, disk')
PROOF
  <1>1. PICK s \in Sessions : (s = me => job = Idle) /\ StoreStep(s)
    BY DEF Beside
  <1>2. UNCHANGED <<wired, release, file, times, repeated, vfs, ast, job, touched>>
    BY DEF Beside, knowledgeVars, sources
  <1>3. StoreInv' /\ Extends(disk, disk')
    BY <1>1, RepositoryStep DEF StoreInv, StoreNext, Harmless
  <1>4. KnowledgeRows(disk)' /\ KnowledgeRows(work)'
    <2>1. /\ SameIndex(disk', disk) \/ SameIndex(disk', work)
          /\ SameIndex(work', disk) \/ SameIndex(work', work)
      BY <1>1, StoreStepLeavesIndex DEF StoreInv
    <2> QED
      BY <2>1, SameKnowledge DEF KnowledgeInv, SameIndex, KnowledgeRows
  <1>5. FilesTyped' /\ JobTyped' /\ StatInv' /\ \A f \in Files : CacheInv(f)'
    BY <1>2 DEF KnowledgeInv, FilesTyped, JobTyped, StatInv, InList, At, CacheInv, Distinct
  <1>6. IndexInv'
    <2>1. ASSUME Indexing PROVE UNCHANGED rowVars
      <3>1. writer = me /\ s # me /\ me # Nobody
        BY <1>1, <2>1, JobRuns, KnowledgeAssumption, StoreAssumption
           DEF KnowledgeInv, IndexInv, MetadataWritten
      <3> QED
        BY <1>1, <3>1, TheWriterIsAlone
    <2>2. Indexing' <=> Indexing
      BY <1>2 DEF Indexing
    <2> QED
      BY <1>2, <2>1, <2>2 DEF KnowledgeInv, IndexInv, MetadataWritten, KnownRows, OwnRows, ReadRows,
         OtherRows, RowsNow, FilesRead, FileRow, rowVars
  <1> QED
    BY <1>3, <1>4, <1>5, <1>6 DEF KnowledgeInv

\* All the steps, with what each keeps of the telemetry.
LEMMA KnowledgeStep ==
  ASSUME KnowledgeInv, StoreInv, [KnowledgeNext \/ Beside]_<<storeVars, knowledgeVars>>
  PROVE  KnowledgeInv' /\ StoreInv' /\ Extends(disk, disk')
PROOF
  <1>1. ASSUME UNCHANGED storeVars PROVE StoreInv' /\ Extends(disk, disk')
    BY <1>1, ExtendsFacts, RepositoryStep DEF StoreInv, Harmless, storeVars
  <1>2. ASSUME UNCHANGED disk PROVE Extends(disk, disk')
    BY <1>2, ExtendsFacts
  <1>3. CASE UNCHANGED <<storeVars, knowledgeVars>>
    <2>1. KnowledgeInv'
      BY <1>3 DEF KnowledgeInv, FilesTyped, JobTyped, KnowledgeRows, CacheInv, Distinct, StatInv, InList, At,
         IndexInv, Indexing, MetadataWritten, KnownRows, OwnRows, ReadRows, OtherRows, RowsNow,
         FilesRead, FileRow, storeVars, knowledgeVars, sources
    <2> QED
      BY <1>1, <1>3, <2>1
  <1>4. ASSUME NEW f \in Files, NEW c \in Contents \cup {"unreadable"}, NEW t \in 1..MaxTime,
               Change(f, c, t)
        PROVE  KnowledgeInv' /\ StoreInv' /\ Extends(disk, disk')
    <2>1. t \in Nat \ {0}
      BY KnowledgeAssumption
    <2> QED
      BY <1>1, <1>4, <2>1, ChangeStep
  <1>14. ASSUME NEW f \in Files, Remove(f)
         PROVE  KnowledgeInv' /\ StoreInv' /\ Extends(disk, disk')
    BY <1>1, <1>14, RemoveStep
  <1>5. CASE ProcessEnds
    BY <1>2, <1>5, ProcessEndsStep
  <1>6. ASSUME NEW list \in Lists, StartContext(list)
        PROVE  KnowledgeInv' /\ StoreInv' /\ Extends(disk, disk')
    BY <1>1, <1>6, StartContextStep
  <1>7. ASSUME NEW list \in Lists, NEW p \in ProjectIds, StartIndex(p, list)
        PROVE  KnowledgeInv' /\ StoreInv' /\ Extends(disk, disk')
    BY <1>2, <1>7, StartIndexStep
  <1>8. CASE IndexStat \/ ContextStat
    BY <1>1, <1>8, StatsStep
  <1>9. CASE IndexFile
    BY <1>2, <1>9, IndexFileStep
  <1>10. CASE AbortIndex
    BY <1>2, <1>10, AbortIndexStep
  <1>11. CASE CheckFile
    BY <1>1, <1>11, CheckFileStep
  <1>12. CASE ParseFile
    BY <1>1, <1>12, ParseFileStep
  <1>13. CASE FinishContext
    BY <1>1, <1>13, FinishContextStep
  <1> QED
    BY <1>3, <1>4, <1>5, <1>6, <1>7, <1>8, <1>9, <1>10, <1>11, <1>12, <1>13, <1>14,
       FinishIndexStep, BesideStep DEF KnowledgeNext

LEMMA KnowledgeInitially == StoreInit /\ KnowledgeInit => KnowledgeInv
PROOF
  <1> SUFFICES ASSUME StoreInit, KnowledgeInit PROVE KnowledgeInv
    OBVIOUS
  <1>1. /\ wired \in BOOLEAN /\ release \in Releases /\ job = Idle
        /\ file \in [Files -> {[content |-> c, time |-> 1] : c \in Hashes}]
        /\ vfs = [f \in Files |-> NotCached] /\ ast = [f \in Files |-> "none"]
    BY DEF KnowledgeInit, Hashes
  <1>2. \A f \in Files : file[f] \in [content : Hashes, time : {1}]
    BY <1>1
  <1>3. \A f \in Files : vfs[f] = [content |-> "none", time |-> 0]
    BY <1>1 DEF NotCached
  <1>4. FilesTyped
    <2>1. file \in [Files -> [content : Hashes \cup {"unreadable"}, time : Nat \ {0}]]
      BY <1>1, <1>2
    <2>2. vfs \in [Files -> [content : Hashes \cup {"none"}, time : Nat]]
      BY <1>1, <1>3
    <2>3. /\ times \in [Files -> SUBSET (Nat \ {0})]
          /\ \A f \in Files : file[f].content # "absent" => file[f].time \in times[f]
      BY <1>2 DEF KnowledgeInit
    <2> QED
      BY <1>1, <2>1, <2>2, <2>3 DEF FilesTyped
  <1>5. JobTyped /\ StatInv /\ IndexInv
    BY <1>1 DEF JobTyped, Idle, StatInv, NoStat, IndexInv, Indexing
  <1>6. \A f \in Files : CacheInv(f)
    BY <1>2, <1>3 DEF CacheInv
  <1>7. KnowledgeRows(disk) /\ KnowledgeRows(work)
    BY KnowledgeTables DEF StoreInit, KnowledgeRows
  <1> QED
    BY <1>4, <1>5, <1>6, <1>7 DEF KnowledgeInv

LEMMA KnowledgeInvariant == KnowledgeSpec => [](KnowledgeInv /\ StoreInv)
PROOF
  <1>1. StoreInit /\ KnowledgeInit => KnowledgeInv /\ StoreInv
    BY KnowledgeInitially, SchemaInit, RowsInit DEF StoreInv
  <1>2. KnowledgeInv /\ StoreInv /\ [KnowledgeNext \/ Beside]_<<storeVars, knowledgeVars>>
          => (KnowledgeInv /\ StoreInv)'
    BY KnowledgeStep
  <1> QED
    BY <1>1, <1>2, PTL DEF KnowledgeSpec

\* Whatever the files do between a stat and a read, and whichever read fails, the
\* cached content and tree that would be handed out now are the file's (vfs.ts,
\* readFile(), hasFileChanged(); context_builder.ts).
THEOREM NothingStaleIsHandedOut == KnowledgeSpec => []CachesAreCurrent
PROOF
  <1>1. KnowledgeInv => CachesAreCurrent
    <2> SUFFICES ASSUME KnowledgeInv, NEW f \in Files \ repeated, Cached(f),
                        file[f].content # "absent"
                 PROVE  /\ vfs[f].content = file[f].content
                        /\ ~ wired /\ ast[f] # "none" /\ file[f].content # Malformed
                             => ast[f] = file[f].content
      BY KnowledgeAssumption DEF CachesAreCurrent, Reused
    <2>1. CacheInv(f) /\ vfs[f].time = file[f].time
      BY DEF KnowledgeInv, Cached
    <2> QED
      BY <2>1 DEF CacheInv, Distinct
  <1> QED
    BY <1>1, KnowledgeInvariant, PTL

\* The commit of an index, over files that change between its reads and rows that
\* other projects own (project_knowledge_service.ts, indexProject()).
THEOREM CommittedIndexIsCurrent == KnowledgeSpec => IndexIsCurrent
PROOF
  <1> DEFINE rows == disk["project_files"]
             rows2 == disk'["project_files"]
             Current ==
               /\ \A f \in Range(job.list) \ (touched \cup repeated) :
                    file[f].content \in (Contents \ {Malformed}) \cup {"absent"} =>
                      f \in DOMAIN rows2 /\ rows2[f] = FileRow(file[f].content)
               /\ \A f \in DOMAIN rows2 :
                    rows2[f].project = job.project =>
                      f \in Range(job.list) /\ rows2[f].release = release
               /\ \A f \in DOMAIN rows \ Range(job.list) :
                    rows[f].project # job.project => f \in DOMAIN rows2 /\ rows2[f] = rows[f]
  <1>1. ASSUME KnowledgeInv, StoreInv, FinishIndex PROVE Current
    <2>1. Indexing /\ ~ InList /\ disk' = work' /\ work' = Without(work, "project_files", Purged)
      BY <1>1 DEF FinishIndex
    <2>2. /\ \A f \in DOMAIN rows2 : f \in DOMAIN RowsNow /\ rows2[f] = RowsNow[f]
          /\ \A f \in DOMAIN RowsNow : f \in DOMAIN rows2 \/ f \in Purged
          /\ DOMAIN rows2 \cap Purged = {} /\ FilesRead = Range(job.list)
      BY <1>1, <2>1, CommitIsCurrent
    <2>3. /\ MetadataWritten /\ KnownRows /\ OwnRows /\ ReadRows /\ OtherRows
          /\ KnowledgeRows(work)
      BY <1>1, <2>1 DEF KnowledgeInv, IndexInv
    <2> HIDE DEF rows, rows2
    <2>4. ASSUME NEW f \in Range(job.list) \ (touched \cup repeated), file[f].content \in Healthy
          PROVE  f \in DOMAIN rows2 /\ rows2[f] = FileRow(file[f].content)
      BY <2>2, <2>3, <2>4 DEF ReadRows, Purged
    <2>5. ASSUME NEW f \in DOMAIN rows2, rows2[f].project = job.project
          PROVE  f \in Range(job.list) /\ rows2[f].release = release
      <3>1. f \in DOMAIN RowsNow /\ rows2[f] = RowsNow[f] /\ f \notin Purged
        BY <2>2
      <3>2. f \in Range(job.list)
        BY <2>3, <2>5, <3>1 DEF OwnRows, Purged
      <3>3. RowsNow[f].release = release
        BY <2>3, <2>5, <3>1 DEF KnowledgeRows, RowsNow, MetadataWritten
      <3> QED
        BY <3>1, <3>2, <3>3
    <2>6. ASSUME NEW f \in DOMAIN rows \ Range(job.list), rows[f].project # job.project
          PROVE  f \in DOMAIN rows2 /\ rows2[f] = rows[f]
      <3>1. f \in DOMAIN RowsNow /\ RowsNow[f] = rows[f]
        BY <2>3, <2>6 DEF OtherRows, rows
      <3>2. f \notin Purged
        BY <2>3, <2>6, <3>1 DEF KnownRows, Purged
      <3> QED
        BY <2>2, <3>1, <3>2
    <2> QED
      BY <2>4, <2>5, <2>6 DEF Healthy
  <1> HIDE DEF Current
  <1>2. KnowledgeInv /\ StoreInv /\ [KnowledgeNext \/ Beside]_<<storeVars, knowledgeVars>> =>
          [FinishIndex => Current]_<<storeVars, knowledgeVars>>
    BY <1>1
  <1>3. KnowledgeSpec => [][FinishIndex => Current]_<<storeVars, knowledgeVars>>
    BY <1>2, KnowledgeInvariant, PTL DEF KnowledgeSpec
  <1> QED
    BY <1>3 DEF IndexIsCurrent, Current

\* Indexing, purging and rolling back leave the store as whole as the repository
\* does: no row of the index without its project, and no telemetry lost
\* (project_knowledge_service.ts, indexProject(); sqlite_repository.ts).
THEOREM IndexingKeepsTheStoreWhole == KnowledgeSpec => []StoreIsWhole /\ TelemetryIsKept
PROOF
  <1>1. StoreInv => StoreIsWhole
    BY SchemaIsWhole DEF StoreInv, StoreIsWhole, SchemaInv, RowsInv, Sound, Whole
  <1>2. KnowledgeInv /\ StoreInv /\ [KnowledgeNext \/ Beside]_<<storeVars, knowledgeVars>>
          => [TelemetryGrows]_storeVars
    BY KnowledgeStep, ExtendedTelemetryGrows
  <1> QED
    BY <1>1, <1>2, KnowledgeInvariant, PTL DEF KnowledgeSpec, TelemetryIsKept, TelemetryGrows
=============================================================================
