------------------------------ MODULE MCInspector ------------------------------
(* A small instance of Inspector for TLC: the state file and the directories  *)
(* of two keys in the root, two files in one of them.                         *)
EXTENDS Inspector, TLC

CONSTANTS key, other, state, body, meta

MCParent ==
  [n \in {key, other, state} |-> Root] @@ [n \in {body, meta} |-> key]
MCRank == (state :> 1) @@ (other :> 2) @@ (key :> 3) @@ (body :> 4) @@ (meta :> 5)

=============================================================================
