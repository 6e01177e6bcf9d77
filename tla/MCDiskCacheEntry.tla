--------------------------- MODULE MCDiskCacheEntry ---------------------------
(* Small instances of DiskCacheEntry for TLC. *)
EXTENDS DiskCacheEntry, TLC

\* Calls are interchangeable: no property names one.
Symmetry == Permutations(Calls)

=============================================================================
