----------------------------- MODULE MCHitHandler -----------------------------
(* Small instances of HitHandler and its inductive invariant for TLC. *)
EXTENDS HitHandlerInv
=============================================================================
