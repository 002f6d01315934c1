--------------------------- MODULE MCClusterClient ---------------------------
(***************************************************************************)
(* ClusterClient with two masters and two slots, one of which may move.    *)
(***************************************************************************)
EXTENDS ClusterClient

CONSTANTS n1, n2, s1, s2
=============================================================================
