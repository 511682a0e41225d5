------------------------- MODULE MCReasoningFlight -------------------------
(* Instances of ReasoningFlight for TLC: three requests to one worker.  A  *)
(* request that arrives while the worker is removed takes the path of a    *)
(* planning request, which belongs to no registered worker at all.         *)
EXTENDS ReasoningFlight, TLC

CONSTANTS bob, planner, r1, r2, r3

OneWorker == {bob}
ThreeRequests == {r1, r2, r3}
AllBobs == [r \in Requests |-> bob]

=============================================================================
