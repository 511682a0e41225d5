---------------------------- MODULE MissionPlans ----------------------------
(***************************************************************************)
(* The plans by which a mission is decomposed: the blueprints of Default-  *)
(* MissionPlanningStrategy and the choice among them of TeamSizeEstimator. *)
(* A task is its position in the plan.                                     *)
(***************************************************************************)
EXTENDS Naturals, Sequences

Blueprint(capability, dependsOn, batch) ==
  [capability |-> capability, dependsOn |-> dependsOn, batch |-> batch]

Blueprints ==
  << Blueprint("Architecture", {}, 1), Blueprint("Backend", {1}, 2),
     Blueprint("Backend", {1, 2}, 3), Blueprint("Backend", {3}, 4), Blueprint("QA", {4}, 5),
     Blueprint("Documentation", {4}, 5),
     \* of LARGE
     Blueprint("Backend", {4}, 5), Blueprint("Backend", {4}, 5), Blueprint("Backend", {4}, 5),
     Blueprint("QA", {7, 8, 9}, 6),
     \* of ENTERPRISE
     Blueprint("Backend", {10}, 7), Blueprint("Backend", {4}, 7), Blueprint("Backend", {4}, 7),
     Blueprint("Backend", {3}, 7), Blueprint("QA", {11}, 8) >>

SmallBlueprints ==
  << Blueprint("Architecture", {}, 1), Blueprint("Backend", {1}, 2), Blueprint("QA", {2}, 3) >>

\* What the text of a goal has: keywords of a size, and at most 14 words.
Texts == [enterprise : BOOLEAN, large : BOOLEAN, small : BOOLEAN, short : BOOLEAN]

Tier(text) ==
  CASE text.enterprise -> "ENTERPRISE"
    [] ~text.enterprise /\ text.large -> "LARGE"
    [] ~text.enterprise /\ ~text.large /\ text.small /\ text.short -> "SMALL"
    [] OTHER -> "MEDIUM"

TierTaskCount == [MEDIUM |-> 6, LARGE |-> 10, ENTERPRISE |-> 15]

BlueprintsOf(tier) ==
  IF tier = "SMALL" THEN SmallBlueprints ELSE SubSeq(Blueprints, 1, TierTaskCount[tier])
=============================================================================
