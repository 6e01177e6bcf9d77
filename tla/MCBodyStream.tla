----------------------------- MODULE MCBodyStream -----------------------------
(* A small instance of BodyStream for TLC, without symmetry because of its   *)
(* liveness property.                                                        *)
EXTENDS BodyStreamInv, TLC
=============================================================================
