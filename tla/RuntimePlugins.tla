--------------------------- MODULE RuntimePlugins ---------------------------
(***************************************************************************)
(* The providers' plugins: RuntimePluginSystemManager with its loader and  *)
(* registry, the routing of a worker's request to a plugin (WorkerAware-   *)
(* RuntimeSelectionStrategy), and what ReasoningCoordinator does with the  *)
(* plugin it was given: execute() starts a process that the plugin enters  *)
(* in its table, an interrupt looks the plugin up again by its id.         *)
(*                                                                         *)
(* A plugin is an object; two objects may have one id.  Between two awaits *)
(* of a load or an unload requests are selected, start, end and are        *)
(* interrupted, and operators enable, disable and assign plugins.  Loads   *)
(* and unloads do not overlap one another: registerProviderPlugins()       *)
(* awaits each, and nothing else calls them.                               *)
(***************************************************************************)
EXTENDS Naturals

CONSTANTS
  Ids, Plugins,
  Manifest,        \* plugin -> [id, complete, min, max, capabilities]
  Callers,         \* the workers that reason
  MaxCalls,        \* bound: requests of one worker
  DefaultPluginId, \* of requests without an assigned provider
  NaN, None

KernelMajor == 2
Capabilities == {"Reasoning", "Cancellation", "ToolExecution", "FileAccess"}
IdOf(p) == Manifest[p].id

\* A version's major number, NaN if it does not start with one, or no version.
Majors == Nat \cup {NaN, None}

\* The records of the registry.
Records == [plugin : Plugins, enabled : BOOLEAN]

ASSUME PluginsAssumption ==
  /\ Manifest \in [Plugins -> [id : Ids, complete : BOOLEAN, min : Majors, max : Majors,
                               capabilities : SUBSET Capabilities]]
  /\ DefaultPluginId \in Ids
  /\ MaxCalls \in Nat /\ None \notin Plugins \cup Ids \cup Records

Processes == Callers \X (1..MaxCalls)

VARIABLES
  registry,        \* plugins: id -> [plugin, enabled], or None
  capabilityMap,
  up, available,   \* isInitialized, detectionResult.available
  table,           \* activeChildProcesses: worker -> the call whose child it is, 0 without
  change,          \* the load or unload under way: [at, plugin, id]
  assigned,        \* assignedProviderId, None without
  calls,           \* requests of a worker so far
  current,         \* activeExecution: [at, plugin], at: idle, selected, executing
  process,         \* of a call: [state, plugin], state: none, running, killed, gone
  exposed          \* processes started by a plugin out of use or beside that of
                   \* an interrupted call, or missed by an interrupt (history)

pluginVars == <<registry, capabilityMap, up, available, table, change, assigned,
                calls, current, process, exposed>>
loadVars == <<registry, capabilityMap, up, available, change>>
callVars == <<table, calls, current, process, exposed>>

Idle == [at |-> "idle", plugin |-> None]
NoChange == [at |-> "none", plugin |-> None, id |-> None]

PluginsInit ==
  /\ registry = [i \in Ids |-> None]
  /\ capabilityMap = [c \in Capabilities |-> {}]
  /\ up = [p \in Plugins |-> FALSE] /\ available = [p \in Plugins |-> FALSE]
  /\ table = [p \in Plugins |-> [w \in Callers |-> 0]]
  /\ change = NoChange
  /\ assigned = [w \in Callers |-> None]
  /\ calls = [w \in Callers |-> 0]
  /\ current = [w \in Callers |-> Idle]
  /\ process = [c \in Processes |-> [state |-> "none", plugin |-> None]]
  /\ exposed = {}

-----------------------------------------------------------------------------
(* RuntimePluginRegistry.                                                  *)

\* register(): always enabled.
RegisterPlugin(p) ==
  /\ registry' = [registry EXCEPT ![IdOf(p)] = [plugin |-> p, enabled |-> TRUE]]
  /\ capabilityMap' = [c \in Capabilities |->
       capabilityMap[c] \cup (IF c \in Manifest[p].capabilities THEN {IdOf(p)} ELSE {})]

\* unregister(): the capabilities of the record that is there.
Unregister(i) ==
  /\ registry' = [registry EXCEPT ![i] = None]
  /\ capabilityMap' = [c \in Capabilities |->
       IF registry[i] # None /\ c \in Manifest[registry[i].plugin].capabilities
       THEN capabilityMap[c] \ {i} ELSE capabilityMap[c]]

SetEnabled(i, enabled) ==
  /\ registry[i] # None
  /\ registry' = [registry EXCEPT ![i].enabled = enabled]
  /\ UNCHANGED <<capabilityMap, up, available, change, assigned, callVars>>

\* getPlugin(): the enabled plugin of an id.
GetPlugin(i) == IF registry[i] # None /\ registry[i].enabled THEN registry[i].plugin ELSE None

IsRegistered(p) == registry[IdOf(p)] # None /\ registry[IdOf(p)].plugin = p

GetPluginsByCapability(c) == {GetPlugin(i) : i \in capabilityMap[c]} \ {None}

-----------------------------------------------------------------------------
(* RuntimePluginLoader.                                                    *)

\* validateManifest(): id, name, version and minKernelVersion are there.
ManifestIsValid(p) == Manifest[p].complete /\ Manifest[p].min # None

\* isCompatible(): the majors are compared, and NaN is neither less nor more.
IsCompatible(p) ==
  /\ Manifest[p].min \in Nat => KernelMajor >= Manifest[p].min
  /\ Manifest[p].max \in Nat => KernelMajor <= Manifest[p].max

\* loadPlugin() comes to plugin.validate(), or returns the errors.
Validating(p) ==
  change' = IF ManifestIsValid(p) /\ IsCompatible(p)
            THEN [at |-> "validating", plugin |-> p, id |-> IdOf(p)] ELSE NoChange

-----------------------------------------------------------------------------
(* RuntimePluginSystemManager.                                             *)

\* Variant: the plugin is marked as shut down, its processes run on.
ShutdownMarksOnly(p) ==
  /\ up' = [up EXCEPT ![p] = FALSE]
  /\ UNCHANGED <<table, process>>

\* shutdown() of a plugin kills what its table names; the detection stays.
Shutdown(p) ==
  /\ up' = [up EXCEPT ![p] = FALSE]
  /\ process' = [c \in Processes |->
       IF table[p][c[1]] = c[2] /\ process[c].state = "running"
       THEN [process[c] EXCEPT !.state = "killed"] ELSE process[c]]
  /\ table' = [table EXCEPT ![p] = [w \in Callers |-> 0]]

\* loadAndRegisterPlugin() up to its first await: another plugin of the id is
\* shut down first.
BeginLoad(p) ==
  LET record == registry[IdOf(p)] IN
  /\ change = NoChange
  /\ IF record # None /\ record.plugin # p
     THEN /\ Shutdown(record.plugin)
          /\ change' = [at |-> "closing", plugin |-> p, id |-> IdOf(p)]
     ELSE Validating(p) /\ UNCHANGED <<up, table, process>>
  /\ UNCHANGED <<registry, capabilityMap, available, assigned, calls, current, exposed>>

\* The other plugin is shut down: out of the registry with it, the new one is
\* looked at.
ReplaceOther ==
  /\ change.at = "closing"
  /\ Unregister(change.id)
  /\ Validating(change.plugin)
  /\ UNCHANGED <<up, available, assigned, callVars>>

\* initialize() of a plugin looks its executable up.
Initialize(p) ==
  /\ up' = [up EXCEPT ![p] = TRUE]
  /\ \E found \in BOOLEAN : available' = [available EXCEPT ![p] = found]

\* validate() answered; initialize() starts.
Validated ==
  /\ change.at = "validating"
  /\ \/ change' = NoChange /\ UNCHANGED <<up, available>>
     \/ /\ change' = [change EXCEPT !.at = "initializing"]
        /\ Initialize(change.plugin)
  /\ UNCHANGED <<registry, capabilityMap, assigned, callVars>>

\* initialize() is over; it may have thrown.
Initialized ==
  /\ change.at = "initializing"
  /\ RegisterPlugin(change.plugin) \/ UNCHANGED <<registry, capabilityMap>>
  /\ change' = NoChange
  /\ UNCHANGED <<up, available, assigned, callVars>>

\* unloadPlugin() up to its await, and behind it.
BeginUnload(i) ==
  /\ change = NoChange /\ registry[i] # None
  /\ Shutdown(registry[i].plugin)
  /\ change' = [at |-> "unloading", plugin |-> registry[i].plugin, id |-> i]
  /\ UNCHANGED <<registry, capabilityMap, available, assigned, calls, current, exposed>>

EndUnload ==
  /\ change.at = "unloading"
  /\ Unregister(change.id)
  /\ change' = NoChange
  /\ UNCHANGED <<up, available, assigned, callVars>>

-----------------------------------------------------------------------------
(* Requests.                                                               *)

\* workerChangeProvider(), and the roles' providers after the registration.
Assign(w, i) ==
  /\ registry[i] # None
  /\ assigned' = [assigned EXCEPT ![w] = i]
  /\ UNCHANGED <<loadVars, callVars>>

\* selectPlugin(): a worker's own provider or none; without an assignment the
\* default one, and failing that any that can reason.
Selectable(w) ==
  LET own == GetPlugin(assigned[w])
      fallback == GetPlugin(DefaultPluginId)
  IN IF assigned[w] # None THEN {p \in {own} \ {None} : available[p]}
     ELSE IF fallback # None THEN {fallback} ELSE GetPluginsByCapability("Reasoning")

\* requestReasoning() of an idle worker up to the await of the selection;
\* without a plugin the request fails.
SelectPlugin(w) ==
  /\ current[w] = Idle /\ calls[w] < MaxCalls
  /\ \E p \in Selectable(w) : current' = [current EXCEPT ![w] = [at |-> "selected", plugin |-> p]]
  /\ UNCHANGED <<loadVars, assigned, table, calls, process, exposed>>

InUse(p) == up[p] /\ IsRegistered(p)
Lingers(w) == \E n \in 1..MaxCalls : process[<<w, n>>].state \in {"running", "killed"}

\* execute() of the selected plugin, whatever became of it.
Execute(w) ==
  LET p == current[w].plugin  c == <<w, calls[w] + 1>> IN
  /\ current[w].at = "selected"
  /\ calls' = [calls EXCEPT ![w] = @ + 1]
  /\ IF available[p]
     THEN /\ process' = [process EXCEPT ![c] = [state |-> "running", plugin |-> p]]
          /\ table' = [table EXCEPT ![p][w] = calls[w] + 1]
          /\ current' = [current EXCEPT ![w].at = "executing"]
          /\ exposed' = exposed \cup (IF InUse(p) /\ ~Lingers(w) THEN {} ELSE {c})
     ELSE current' = [current EXCEPT ![w] = Idle] /\ UNCHANGED <<process, table, exposed>>
  /\ UNCHANGED <<loadVars, assigned>>

\* A process is gone: its call is answered, the table forgets the worker.
Ends(c) ==
  /\ process[c].state \in {"running", "killed"}
  /\ process' = [process EXCEPT ![c] = [state |-> "gone", plugin |-> None]]
  /\ exposed' = exposed \ {c}
  /\ table' = [table EXCEPT ![process[c].plugin][c[1]] = 0]
  /\ current' = [current EXCEPT ![c[1]] = IF @.at = "executing" THEN Idle ELSE @]
  /\ UNCHANGED <<loadVars, assigned, calls>>

\* cancelForWorker(): the plugin is looked up by its id, and the worker is
\* free whether or not a process was found.
CancelForWorker(w) ==
  LET p == GetPlugin(IdOf(current[w].plugin)) IN
  /\ current[w].at = "executing"
  /\ current' = [current EXCEPT ![w] = Idle]
  /\ IF p # None /\ table[p][w] # 0
     THEN /\ process' = [process EXCEPT ![<<w, table[p][w]>>].state = "killed"]
          /\ table' = [table EXCEPT ![p][w] = 0]
          /\ UNCHANGED exposed
     ELSE exposed' = exposed \cup {<<w, calls[w]>>} /\ UNCHANGED <<process, table>>
  /\ UNCHANGED <<loadVars, assigned, calls>>

-----------------------------------------------------------------------------
PluginsNext ==
  \/ \E p \in Plugins : BeginLoad(p)
  \/ ReplaceOther \/ Validated \/ Initialized \/ EndUnload
  \/ \E i \in Ids : BeginUnload(i) \/ \E enabled \in BOOLEAN : SetEnabled(i, enabled)
  \/ \E w \in Callers : \/ SelectPlugin(w) \/ Execute(w) \/ CancelForWorker(w)
                        \/ \E i \in Ids : Assign(w, i)
  \/ \E c \in Processes : Ends(c)

PluginsSpec == PluginsInit /\ [][PluginsNext]_pluginVars
-----------------------------------------------------------------------------
(* Properties.                                                             *)

\* No process is orphaned by a replacement or an unloading (the comment at
\* runtime_plugin_system_manager.ts:27): a process that runs belongs to the
\* plugin that is registered for its id, unless that plugin had been selected
\* before it was shut down or unloaded and started the process after that, the
\* process of an interrupted call, ending later, erased its entry, or an
\* interrupt missed it, its plugin being disabled at that moment.
ProcessesAreOwned ==
  \A c \in Processes : process[c].state = "running" =>
    IsRegistered(process[c].plugin) \/ c \in exposed
=============================================================================
