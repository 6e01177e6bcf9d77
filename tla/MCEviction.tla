------------------------------ MODULE MCEviction ------------------------------
(* A small instance of Eviction for TLC. *)
EXTENDS Eviction, TLC

\* No property names a key or a call.
Symmetry == Permutations(Keys) \cup Permutations(Calls)

=============================================================================
