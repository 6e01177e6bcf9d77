--------------------------- MODULE MCTieredStorage ---------------------------
(* Small instances of TieredStorage and its inductive invariant for TLC. *)
EXTENDS TieredStorageInv, TLC

Symmetry == Permutations(Calls) \cup Permutations(Stored)
=============================================================================
