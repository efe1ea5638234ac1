------------------------------- MODULE MC_Fleet -------------------------------
(* Two implementers and a human.  v1 has the lower tier, and looks dearer than it is where v2 *)
(* looks cheap and is not.  The cell without an Optimizer executes with v1. *)
EXTENDS Fleet

MCVersions == {"v1", "v2", "human"}
MCImplementers == <<"v1", "v2">>
MCTier == [v \in MCVersions |-> IF v = "v2" THEN 2 ELSE 1]
MCNominal == [v \in MCVersions |-> IF v = "v2" THEN 1 ELSE 2]
MCCost == [v \in MCVersions |-> IF v = "v2" THEN 3 ELSE 2]
MCFloorTier == [f \in Flows |-> IF f = "f2" THEN 2 ELSE 1]
MCMaxCalls == [f \in Flows |-> IF f = "f1" THEN 2 ELSE 1]
MCOneCall == [f \in Flows |-> 1]
MCRole == [v \in MCVersions |-> IF v = "human" THEN "Human" ELSE "Executor"]
==============================================================================
