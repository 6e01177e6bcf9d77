----------------------------- MODULE MCCacheState -----------------------------
(* Small instances of CacheState for TLC. *)
EXTENDS CacheState
=============================================================================
