----------------------------- MODULE MCCluster -----------------------------
(* Instances of Cluster for TLC. *)
EXTENDS Cluster

EveryTarget == [t \in Callers |-> {"any", "node", "leader", "controller", "coordinator"}]
=============================================================================
