---------------------------- MODULE MCDecisionPath ----------------------------
(* What a decision rests on, in parts that are checked side by side: the    *)
(* workflow, whose adapters answer anything; the two adapters with a logic   *)
(* of their own, routing and the knowledge tier; the gates the forecaster    *)
(* and the surrogate came through; and the data of the detector.  A          *)
(* behaviour is of one part; the others keep their initial state.            *)
(*                                                                           *)
(* Workflow: five ratio levels, three iterations and four possible routes,   *)
(* one more than a recommendation may name.  Routing: every subgraph of a    *)
(* 3 x 2 grid, corridors of two costs, and a budget that some searches use   *)
(* up.  Knowledge: two laws of one provision in two editions, two ingestions *)
(* and two services over one index.  Gates: datasets of two lengths, of      *)
(* which that of 9 steps leaves a split empty.  Detector data: two derived   *)
(* datasets, an image of the root's val split among those that are offered.  *)
EXTENDS WhatIfWorkflow, Routing, Knowledge, PhaseGates, VisionData

TwoCorridors == {{1, 4}, {0, 1}}
TwoLaws      == <<"law35", "law36">>

VARIABLE part

pathVars == <<workVars, routeVars, knowVars, gateVars, visionVars>>

PathInit ==
    /\ part \in {"workflow", "routing", "knowledge", "gates", "data"}
    /\ WorkInit /\ (part # "workflow" => request = CHOOSE r \in Requests : TRUE)
    /\ RouteInit /\ KnowInit /\ GateInit /\ VisionInit

PathNext ==
    /\ \/ /\ part = "workflow" /\ WorkNext
          /\ UNCHANGED <<routeVars, knowVars, gateVars, visionVars>>
       \/ /\ part = "routing" /\ RouteNext
          /\ UNCHANGED <<workVars, knowVars, gateVars, visionVars>>
       \/ /\ part = "knowledge" /\ KnowNext
          /\ UNCHANGED <<workVars, routeVars, gateVars, visionVars>>
       \/ /\ part = "gates" /\ GateNext
          /\ UNCHANGED <<workVars, routeVars, knowVars, visionVars>>
       \/ /\ part = "data" /\ VisionNext
          /\ UNCHANGED <<workVars, routeVars, knowVars, gateVars>>
    /\ UNCHANGED part

PathSpec == PathInit /\ [][PathNext]_<<part, pathVars>>

=============================================================================
