----------------------------- MODULE MCSession -----------------------------
(* Three interchangeable memories for TLC. *)
EXTENDS Session, TLC

Symmetry == Permutations(Memories)
=============================================================================
