------------------------------ MODULE MCEngram ------------------------------
(* A small memory for TLC: constants of Engram that a .cfg cannot write. *)
EXTENDS Engram, TLC

CONSTANTS a, b

\* A commit of undo or of a host writes a trace of old, or two, or a row no engine can use.
Restored == [text |-> a, born |-> 0, vec |-> TRUE]
Unusable == [text |-> Junk, born |-> 0, vec |-> FALSE]
MCBatches ==
    UNION {[S -> {Restored}] : S \in {s \in SUBSET Ids : Cardinality(s) <= 2}}
        \cup {[i \in {id} |-> Unusable] : id \in Ids}
Symmetry == Permutations(Ids)
=============================================================================
