-------------------------- MODULE MCClusterElection --------------------------
(***************************************************************************)
(* ClusterElection with two replicas of the lost master; voters are        *)
(* interchangeable, and so are the replicas.                               *)
(***************************************************************************)
EXTENDS ClusterElection, TLC

CONSTANTS v1, v2, s1, s2

Symmetric == Permutations(Voters) \cup Permutations(Replicas)
=============================================================================
