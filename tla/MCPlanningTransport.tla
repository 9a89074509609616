------------------------- MODULE MCPlanningTransport -------------------------
(* Instances of PlanningTransport for TLC. *)
EXTENDS PlanningTransport, TLC

\* Deliveries are interchangeable.
DeliverySymmetry == Permutations(Deliveries)
=============================================================================
