----------------------------- MODULE MCCluster -----------------------------
(* Three nodes; kbdiag runs against node 2.                                 *)
EXTENDS Cluster

ThreeNodes == 1..3
=============================================================================
