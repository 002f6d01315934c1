---------------------------- MODULE MCCacheServer ----------------------------
(***************************************************************************)
(* CacheServer with one account, two connections of everything and two     *)
(* runs of the process.                                                    *)
(***************************************************************************)
EXTENDS CacheServer

CONSTANTS a1
=============================================================================
