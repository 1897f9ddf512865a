------------------------------ MODULE MCClaude ------------------------------
(* Three prompts, two of which share a key. *)
EXTENDS Claude

CONSTANTS p1, p2, p3, k1, k2

MCPrompts == {p1, p2, p3}
MCKeys == {k1, k2}
MCKeyOf == [p \in MCPrompts |-> IF p = p3 THEN k2 ELSE k1]
=============================================================================
