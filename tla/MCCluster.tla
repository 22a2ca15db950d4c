----------------------------- MODULE MCCluster ------------------------------
(* Instances of Cluster. *)
EXTENDS Cluster

Strict == {[failureThreshold |-> 1, successThreshold |-> 1, timeout |-> 1]}

=============================================================================
