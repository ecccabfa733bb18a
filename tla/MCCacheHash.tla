---------------------------- MODULE MCCacheHash ----------------------------
(* Small instances of CacheHash for TLC.                                   *)
EXTENDS CacheHash, TLC

Symmetric == Permutations(Sess) \cup Permutations(Obj)
=============================================================================
