---------------------------- MODULE GoalPlanning ----------------------------
(***************************************************************************)
(* AutonomousPlanner.planMission() and what it keeps: the prompt cache,    *)
(* the decisions in shared memory, the plans, the execution profile.       *)
(* Several calls may run at a time; a call gives way to others where it    *)
(* awaits shared memory or reasoning, and a write may be refused.          *)
(*                                                                         *)
(* Both caches are keyed by the title alone, without case and spaces, and  *)
(* every identifier is the millisecond in which it was made; a row that is *)
(* written under an identifier replaces the one that is there.             *)
(***************************************************************************)
EXTENDS GoalRules

CONSTANTS
  Calls,        \* calls of planMission()
  Titles, Keys,
  KeyOf,        \* of a title: itself in lower case, with '-' for each white space
  GoalChoices,  \* the goals the calls may have: functions from Calls
  AdrTitles,    \* decisions put into shared memory by hand (adr-001 .. adr-003)
  MaxTime       \* bound: milliseconds

ASSUME GoalsAssumption ==
  /\ KeyOf \in [Titles -> Keys]
  /\ GoalChoices \subseteq [Calls -> [title : Titles, hits : SUBSET Recognized]]
  /\ IsFiniteSet(AdrTitles)

VARIABLES
  goal,        \* of a call: its title, and the modules its text has keywords of
  now, profile,
  phase, planId, goalId, modules, source, decisions, written,   \* of a call
  goalCache,   \* by key: what analyze() returned, or nothing
  archCache,   \* by key: the decisions, or nothing
  adrs,        \* the rows in shared memory: an identifier, and whose decision it says
  plans        \* by identifier: the call whose plan it is
callVars == <<phase, planId, goalId, modules, source, decisions, written>>
caches == <<goalCache, archCache>>
planningVars == <<goal, now, profile, callVars, caches, adrs, plans>>

NothingFound == [found |-> FALSE]
NoCall == "none"

PlanningInit ==
  /\ goal \in GoalChoices
  /\ now = 0 /\ profile = "Balanced"
  /\ phase = [c \in Calls |-> "idle"]
  /\ planId = [c \in Calls |-> 0] /\ goalId = [c \in Calls |-> 0]
  /\ modules = [c \in Calls |-> {}] /\ source = [c \in Calls |-> "none"]
  /\ decisions = [c \in Calls |-> {}] /\ written = [c \in Calls |-> 0]
  /\ goalCache = [k \in Keys |-> NothingFound] /\ archCache = [k \in Keys |-> NothingFound]
  /\ adrs = {} /\ plans = [i \in 0..MaxTime |-> NoCall]

Goes(c, p) == phase' = [phase EXCEPT ![c] = p]

Tick ==
  /\ now < MaxTime /\ now' = now + 1
  /\ UNCHANGED <<goal, profile, callVars, caches, adrs, plans>>

SetProfile(p) ==
  /\ profile # p /\ profile' = p
  /\ UNCHANGED <<goal, now, callVars, caches, adrs, plans>>

-----------------------------------------------------------------------------
(* 1. GoalAnalyzer.analyze()                                               *)

\* Variant: one key for all the goals.
SomeKey(t) == CHOOSE k \in Keys : TRUE

\* hashGoal(): the description is no part of it, and several titles have one key.
HashGoal(t) == KeyOf[t]

StartPlanning(c) ==
  /\ phase[c] = "idle"
  /\ planId' = [planId EXCEPT ![c] = now] /\ goalId' = [goalId EXCEPT ![c] = now]
  /\ LET entry == goalCache[HashGoal(goal[c].title)]
     IN IF entry.found
        THEN /\ Goes(c, "analyzed")
             /\ modules' = [modules EXCEPT ![c] = entry.modules]
             /\ source' = [source EXCEPT ![c] = "CACHE"]
        ELSE Goes(c, "reading") /\ UNCHANGED <<modules, source>>
  /\ UNCHANGED <<goal, now, profile, decisions, written, caches, adrs, plans>>

\* The known decisions have been read; some overlap with the description.
Analyze(c) ==
  /\ phase[c] = "reading"
  /\ \E reused \in SUBSET AdrTitles :
       LET found == ExtractModules(goal[c].hits) \cup reused
       IN /\ modules' = [modules EXCEPT ![c] = found]
          /\ goalCache' = [goalCache EXCEPT ![HashGoal(goal[c].title)] =
                             [found |-> TRUE, modules |-> found]]
  /\ source' = [source EXCEPT ![c] = "RULE_ENGINE"]
  /\ Goes(c, "analyzed")
  /\ UNCHANGED <<goal, now, profile, planId, goalId, decisions, written, archCache, adrs, plans>>

-----------------------------------------------------------------------------
(* 2. ArchitecturePlanner.plan()                                           *)

\* The decision of call c on its i-th module, and the row for it: writeADR() is an
\* upsert.
Decision(c, i) == [id |-> <<goalId[c], i>>, by |-> c]
Upsert(rows, row) == {r \in rows : r.id # row.id} \cup {row}

Architect(c) ==
  /\ phase[c] = "analyzed"
  /\ LET entry == archCache[HashGoal(goal[c].title)]
     IN IF entry.found
        THEN /\ Goes(c, "decided")
             /\ decisions' = [decisions EXCEPT ![c] = entry.decisions]
        ELSE /\ Goes(c, "designing")
             /\ decisions' = [decisions EXCEPT ![c] =
                  {Decision(c, i) : i \in 1..Cardinality(modules[c])}]
  /\ UNCHANGED <<goal, now, profile, planId, goalId, modules, source, written, caches, adrs, plans>>

\* Variant: the decisions are cached, then written.
WriteDecisionCached(c) ==
  /\ phase[c] = "designing"
  /\ \/ adrs' = {r \in adrs : \A d \in decisions[c] : r.id # d.id} \cup decisions[c]
        /\ Goes(c, "decided")
     \/ adrs' = adrs /\ Goes(c, "failed")
  /\ archCache' = [archCache EXCEPT ![HashGoal(goal[c].title)] =
                     [found |-> TRUE, decisions |-> decisions[c]]]
  /\ UNCHANGED <<goal, now, profile, planId, goalId, modules, source, decisions, written,
                 goalCache, plans>>

\* The decisions are written one after the other; when all are, they are cached.
\* A write that is refused ends the call.
WriteDecision(c) ==
  /\ phase[c] = "designing"
  /\ \/ /\ written[c] < Cardinality(decisions[c])
        /\ \/ /\ written' = [written EXCEPT ![c] = @ + 1]
              /\ adrs' = Upsert(adrs, Decision(c, written'[c])) /\ UNCHANGED phase
           \/ Goes(c, "failed") /\ UNCHANGED <<adrs, written>>
        /\ UNCHANGED archCache
     \/ /\ written[c] = Cardinality(decisions[c])
        /\ archCache' = [archCache EXCEPT ![HashGoal(goal[c].title)] =
                           [found |-> TRUE, decisions |-> decisions[c]]]
        /\ Goes(c, "decided") /\ UNCHANGED <<adrs, written>>
  /\ UNCHANGED <<goal, now, profile, planId, goalId, modules, source, decisions, goalCache, plans>>

-----------------------------------------------------------------------------
(* 3. to 8.: the rest, with reasoning where the rules are not sure enough. *)

AiConfidenceThreshold == 40
NeedsReasoning(c) == Confidence(modules[c]) < AiConfidenceThreshold

Estimate(c) ==
  /\ phase[c] = "decided"
  /\ Goes(c, IF NeedsReasoning(c) THEN "reasoning" ELSE "storing")
  /\ UNCHANGED <<goal, now, profile, planId, goalId, modules, source, decisions, written, caches,
                 adrs, plans>>

\* Whether it succeeds or not, the invocation is recorded and the plan is made.
ReasoningReturns(c) ==
  /\ phase[c] = "reasoning"
  /\ Goes(c, "storing")
  /\ source' = [source EXCEPT ![c] = "HYBRID"]
  /\ UNCHANGED <<goal, now, profile, planId, goalId, modules, decisions, written, caches,
                 adrs, plans>>

\* 9. and 10.: the decision on the plan is written, then the plan is kept.
\* resolveOverallSource() says CACHE only if every stage does, and the rule
\* stages never do.
StorePlan(c) ==
  /\ phase[c] = "storing"
  /\ \/ /\ Goes(c, "done")
        /\ adrs' = Upsert(adrs, [id |-> <<planId[c], 0>>, by |-> c])
        /\ plans' = [plans EXCEPT ![planId[c]] = c]
        /\ source' = [source EXCEPT ![c] = IF @ = "HYBRID" THEN @ ELSE "RULE_ENGINE"]
     \/ Goes(c, "failed") /\ UNCHANGED <<adrs, plans, source>>
  /\ UNCHANGED <<goal, now, profile, planId, goalId, modules, decisions, written, caches>>

PlanningNext ==
  \/ Tick
  \/ \E p \in DOMAIN Profiles : SetProfile(p)
  \/ \E c \in Calls :
       \/ StartPlanning(c) \/ Analyze(c) \/ Architect(c) \/ WriteDecision(c)
       \/ Estimate(c) \/ ReasoningReturns(c) \/ StorePlan(c)

PlanningSpec == PlanningInit /\ [][PlanningNext]_planningVars

-----------------------------------------------------------------------------
(* Properties.                                                             *)

PlanningTypeOK ==
  /\ goal \in GoalChoices /\ now \in 0..MaxTime /\ profile \in DOMAIN Profiles
  /\ phase \in [Calls -> {"idle", "reading", "analyzed", "designing", "decided",
                          "reasoning", "storing", "done", "failed"}]
  /\ planId \in [Calls -> 0..MaxTime] /\ goalId \in [Calls -> 0..MaxTime]
  /\ modules \in [Calls -> SUBSET (Recognized \cup {"general"} \cup AdrTitles)]
  /\ written \in [Calls -> 0..Cardinality(Recognized \cup AdrTitles)]
  /\ source \in [Calls -> {"none", "CACHE", "RULE_ENGINE", "HYBRID"}]
  /\ plans \in [0..MaxTime -> Calls \cup {NoCall}]

Analyzed(c) == phase[c] \notin {"idle", "reading", "failed"}

\* What was planned is what the goal asks for: no module its text names is
\* missing, and none it does not name is added, whatever the caches hold, save
\* for the decisions that are reused.  Except for a goal with whose title, or one
\* that differs in case and spaces only, another text was planned.
SameKey(c, d) == KeyOf[goal[c].title] = KeyOf[goal[d].title]
PlanCoversItsGoal ==
  \A c \in Calls :
    Analyzed(c) /\ (\A d \in Calls : SameKey(c, d) => goal[d].hits = goal[c].hits)
      => modules[c] \ AdrTitles = ExtractModules(goal[c].hits) \ AdrTitles

\* No other call has the millisecond of a decision.
Alone(d) == \A c \in Calls \ {d.by} : phase[c] = "idle" \/ goalId[c] # d.id[1]

\* The decisions a plan rests on, cached or not, are in shared memory, also when a
\* write was refused on the way: each as its own call made it, unless another
\* call began in the same millisecond; then it may be the other one's.
DecisionsArePersisted ==
  \A c \in Calls : phase[c] \in {"decided", "reasoning", "storing", "done"} =>
    /\ decisions[c] # {}
    /\ \A d \in decisions[c] :
         /\ \E r \in adrs : r.id = d.id
         /\ Alone(d) => d \in adrs

\* What can be started when some tasks are done.
Startable(deps, done) == {t \in DOMAIN deps : deps[t] \subseteq done}

\* Each task can be started once those before it are done: the dependencies of
\* every plan have no cycle, and the review comes after everything else.
PlanIsFeasible ==
  \A c \in Calls : phase[c] = "done" =>
    LET deps == Dependencies(modules[c])
        beforeTests == Startable(deps, Startable(deps, {}))
        beforeReview == Startable(deps, beforeTests)
    IN beforeReview = DOMAIN deps \ {ReviewTask} /\ Startable(deps, beforeReview) = DOMAIN deps

\* The rules hand a goal over to reasoning exactly when they recognize nothing in
\* it, and what they estimate is in its range: complexities from 1 to 10, a
\* risk and a confidence in percent; a profile that forbids parallel work never
\* gets it, and the token budget is kept.
EstimatesAreSound ==
  \A c \in Calls : phase[c] = "storing" =>
    /\ NeedsReasoning(c) <=> modules[c] = {"general"}
    /\ LET x == Complexity(modules[c])
       IN \A d \in DOMAIN x : x[d] \in 1..10
    /\ OverallRisk(modules[c]) \in 0..100 /\ Confidence(modules[c]) \in 0..100
    /\ LET s == Strategy(Profiles[profile], modules[c])
       IN /\ s.tokens <= Profiles[profile].budget
          /\ ~Profiles[profile].parallel => s.policy # "MULTI_AGENT"
          /\ {DepartmentOf(m) : m \in goal[c].hits} \subseteq s.departments
               \/ \E d \in Calls \ {c} : SameKey(c, d)

\* A plan can be carried out, and what is said of it can be trusted.
PlansAreSound == PlanIsFeasible /\ EstimatesAreSound
=============================================================================
