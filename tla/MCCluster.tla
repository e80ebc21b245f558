----------------------------- MODULE MCCluster ------------------------------
(* Cluster with the three servers A, B and C of servers.json as 1, 2 and 3. *)
EXTENDS Cluster, TLC

\* The priorities of test_config_priority.py: B, then A, then C.
Shuffled == 1 :> 2 @@ 2 :> 3 @@ 3 :> 1
ByName == <<1, 2, 3>>
=============================================================================
