--------------------------- MODULE MCClusterConfig ---------------------------
(***************************************************************************)
(* ClusterConfig with a shard of a master and its replicas and at most one *)
(* master of another shard.                                                *)
(***************************************************************************)
EXTENDS ClusterConfig

CONSTANTS f, s1, s2, o1

Names == [n \in Nodes |-> CASE n = s2 -> 1 [] n = o1 -> 2 [] n = f -> 3
                            [] n = s1 -> 4]
\* Epochs of a cluster that has been running.
Settled == [n \in Nodes |-> IF n \in Shard THEN 1 ELSE 2]
=============================================================================
