------------------------------ MODULE MCCluster ------------------------------
(* Two servers, with one and with two service addresses; lb is an endpoint *)
(* of the first that is not one of them, as behind a load balancer.        *)
EXTENDS Cluster, TLC

CONSTANTS A, B, a1, b1, b2, lb

PairAddrs == A :> <<a1>> @@ B :> <<b1, b2>>
PairOwner == a1 :> A @@ lb :> A @@ b1 :> B @@ b2 :> B
=============================================================================
