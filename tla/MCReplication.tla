---------------------------- MODULE MCReplication ----------------------------
EXTENDS Replication

CONSTANTS s1, s2

\* One slave and four events, or two slaves and two.
FourOrTwo == <<4, 2>>
Three == <<3>>
=============================================================================
