----------------------------- MODULE GoalRules -----------------------------
(***************************************************************************)
(* The rules by which a business goal becomes a plan, without any model of *)
(* language: the tables and the formulas of GoalAnalyzer, DependencyAna-   *)
(* lyzer, RiskAnalyzer, ComplexityEstimator, CostEstimator, Execution-     *)
(* StrategyPlanner, ExecutionPolicyEngine and PlanGenerator.               *)
(*                                                                         *)
(* A set of affected modules is a set of names: the ten of the keyword     *)
(* map, "general" when the text has no keyword, and titles of decisions.   *)
(* Fractions are exact: a quotient is rounded as Math.round() does.        *)
(***************************************************************************)
EXTENDS Naturals, FiniteSets, FiniteSetsExt

Recognized == {"auth", "api", "database", "frontend", "testing", "devops", "security",
               "config", "middleware", "documentation"}

\* extractModules(): the modules whose keywords the text has.
ExtractModules(hits) == IF hits = {} THEN {"general"} ELSE hits

Lookup(table, m, default) == IF m \in DOMAIN table THEN table[m] ELSE default
RoundDiv(a, b) == (2 * a + b) \div (2 * b)
Least(a, b) == IF a <= b THEN a ELSE b
Most(a, b) == IF a >= b THEN a ELSE b

-----------------------------------------------------------------------------
(* DependencyAnalyzer                                                      *)

CrossDeps ==
  [auth |-> {"database", "middleware", "config", "security"},
   api |-> {"middleware", "database", "config"}, database |-> {"config"},
   frontend |-> {"api"}, security |-> {"auth", "config"}, middleware |-> {"config"},
   devops |-> {"config", "testing"}]
DependsOn(m) == Lookup(CrossDeps, m, {})

CouplingRisks(modules) == {m \in modules : Cardinality(DependsOn(m) \cap modules) >= 3}

\* The other module of a pair need not be affected itself.
CircularRisks(modules) ==
  UNION {{{m, d} : d \in {e \in DependsOn(m) : m \in DependsOn(e)}} : m \in modules}

-----------------------------------------------------------------------------
(* RiskAnalyzer: severity weight times probability (in percent).           *)

RiskRules ==
  [auth |-> 3 * 40, database |-> 3 * 35, api |-> 2 * 30, security |-> 4 * 50,
   middleware |-> 2 * 25, frontend |-> 1 * 20, config |-> 2 * 25, devops |-> 3 * 30]

RiskCount(modules) ==
  Cardinality(modules \cap DOMAIN RiskRules) + Cardinality(CouplingRisks(modules))
    + Cardinality(CircularRisks(modules))
    + (IF Cardinality(modules) >= 3 THEN 1 ELSE 0) + (IF Cardinality(modules) >= 4 THEN 1 ELSE 0)

RiskTotal(modules) ==
  MapThenSumSet(LAMBDA m : RiskRules[m], modules \cap DOMAIN RiskRules)
    + 2 * 35 * Cardinality(CouplingRisks(modules))
    + 3 * 45 * Cardinality(CircularRisks(modules))
    + (IF Cardinality(modules) >= 3 THEN 2 * 40 ELSE 0)
    + (IF Cardinality(modules) >= 4 THEN 1 * 30 ELSE 0)

\* computeOverallScore(): (total / 100 / count) * 25.
OverallRisk(modules) ==
  IF RiskCount(modules) = 0 THEN 0
  ELSE Least(100, RoundDiv(RiskTotal(modules), 4 * RiskCount(modules)))

-----------------------------------------------------------------------------
(* ComplexityEstimator and CostEstimator                                   *)

ModuleComplexity ==
  [auth |-> 7, api |-> 5, database |-> 6, frontend |-> 5, testing |-> 3, devops |-> 4,
   security |-> 8, config |-> 2, middleware |-> 5, documentation |-> 2, general |-> 4]

Complexity(modules) ==
  LET n == Most(Cardinality(modules), 1)
      impl == RoundDiv(MapThenSumSet(LAMBDA m : Lookup(ModuleComplexity, m, 4), modules), n)
      testing == Least(10, impl + 1)
      review == Least(10, RoundDiv(8 * impl, 10))
      verification == Least(10, RoundDiv(14 * review + OverallRisk(modules), 20))
      deployment == IF "devops" \in modules THEN 6 ELSE 3
  IN [implementation |-> impl, testing |-> testing, review |-> review,
      verification |-> verification, deployment |-> deployment,
      overall |-> RoundDiv(impl + testing + review + verification + deployment, 5)]

\* rate * 70 + 30 - min(30, risk / 3), at most 100; as one fraction over 3 * n.
Confidence(modules) ==
  LET n == Most(Cardinality(modules), 1)
      known == Cardinality(modules \ {"general"})
      penalty == Least(90, OverallRisk(modules))
  IN Least(100, RoundDiv(210 * known + 90 * n - penalty * n, 3 * n))

TaskCount(modules) == Most(2 * Cardinality(modules), 3)
EstimatedTokens(modules) ==
  Least(TaskCount(modules) * 1200, 10500) + Least(TaskCount(modules) * 600, 4500)
EstimatedWorkers(modules) == Least(TaskCount(modules), 3)

-----------------------------------------------------------------------------
(* ExecutionPolicyEngine and ExecutionStrategyPlanner                      *)

Profiles ==
  [Economy |-> [budget |-> 5000, parallel |-> FALSE, policy |-> "SINGLE"],
   Balanced |-> [budget |-> 15000, parallel |-> TRUE, policy |-> "PAIR_PROGRAMMING"],
   Performance |-> [budget |-> 50000, parallel |-> TRUE, policy |-> "MULTI_AGENT"],
   Custom |-> [budget |-> 20000, parallel |-> TRUE, policy |-> "DEPARTMENT"]]

WorkerPolicy(profile, workers) ==
  CASE workers <= 1 -> "SINGLE"
    [] workers = 2 -> IF profile.policy = "SINGLE" THEN "SINGLE" ELSE "PAIR_PROGRAMMING"
    [] workers \in 3..5 -> IF profile.parallel THEN "MULTI_AGENT" ELSE "PAIR_PROGRAMMING"
    [] OTHER -> "DEPARTMENT"

ModuleDepartment ==
  [auth |-> "backend", api |-> "backend", database |-> "backend", frontend |-> "frontend",
   testing |-> "qa", devops |-> "devops", security |-> "backend", config |-> "devops",
   middleware |-> "backend", documentation |-> "documentation", general |-> "backend"]
DepartmentOf(m) == Lookup(ModuleDepartment, m, "backend")

Strategy(profile, modules) ==
  [policy |-> WorkerPolicy(profile, EstimatedWorkers(modules)),
   departments |-> {DepartmentOf(m) : m \in modules},
   tokens |-> Least(EstimatedTokens(modules), profile.budget)]

-----------------------------------------------------------------------------
(* PlanGenerator: the tasks in the order in which they are made.           *)

ImplTask(m) == [kind |-> "impl", module |-> m, priority |-> "P1", department |-> DepartmentOf(m)]
Fixed(kind, priority, department) ==
  [kind |-> kind, module |-> "all", priority |-> priority, department |-> department]
ArchTask == Fixed("arch", "P0", "architecture")
TestTask == Fixed("tests", "P1", "qa")
ReviewTask == Fixed("review", "P2", "qa")

PlanTasks(modules) == {ArchTask, TestTask, ReviewTask} \cup {ImplTask(m) : m \in modules}

\* Variant: the tasks of priority P1 are collected when the test task is one.
DependenciesOfAll(modules) ==
  [t \in PlanTasks(modules) |->
     CASE t.kind = "arch" -> {}
       [] t.kind = "impl" -> {ArchTask}
       [] t.kind = "tests" -> {u \in PlanTasks(modules) : u.priority = "P1"}
       [] t.kind = "review" -> {TestTask}]

Dependencies(modules) ==
  [t \in PlanTasks(modules) |->
     CASE t.kind = "arch" -> {}
       [] t.kind = "impl" -> {ArchTask}
       [] t.kind = "tests" -> {u \in PlanTasks(modules) \ {TestTask} : u.priority = "P1"}
       [] t.kind = "review" -> {TestTask}]
=============================================================================
