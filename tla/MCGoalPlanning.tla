--------------------------- MODULE MCGoalPlanning ---------------------------
(***************************************************************************)
(* GoalPlanning with two calls: of one goal, of two goals with the same    *)
(* title and other texts, of goals with different titles of one key or of  *)
(* two; and with a goal for every set of modules that the rules know.      *)
(***************************************************************************)
EXTENDS GoalPlanning

CONSTANTS c1, c2, cart, CART, site

MCKeyOf == [t \in Titles |-> IF t = CART THEN cart ELSE t]

Some == {{}, {"auth", "database"}}

MCGoalChoices ==
  {[c \in Calls |-> IF c = c1 THEN [title |-> cart, hits |-> h]
                    ELSE [title |-> t, hits |-> g]] :
     h \in Some, t \in Titles, g \in Some}

\* The estimates of every goal, one call each.
MCAllGoals ==
  {[c \in Calls |-> [title |-> cart, hits |-> h]] : h \in SUBSET Recognized}

MCChoices == MCGoalChoices \cup MCAllGoals
MCAdrTitles == {"decision"}

\* The goals of every set of modules are planned in one call, without a clock;
\* two of the profiles, the default and the one that forbids parallel work.
MCGoalsBounded ==
  /\ profile \in {"Balanced", "Economy"}
  /\ goal[c1].hits \notin Some => now = 0 /\ phase[c2] = "idle"
=============================================================================
