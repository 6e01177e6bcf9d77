----------------------------- MODULE MCDiskCache -----------------------------
(* Small instances of DiskCache, its inductive invariant and the claims of   *)
(* its documentation for TLC.                                                *)
EXTENDS DiskCacheInv, DiskCacheClaims, TLC

\* Calls are interchangeable: no property names one.
Symmetry == Permutations(Calls)

=============================================================================
