------------------------------ MODULE MCStore ------------------------------
(* Small stores for TLC: constants of Store that a .cfg cannot write. *)
EXTENDS Store, TLC

CONSTANTS i1, i2, i3, x, y, none, m1, m2, v1, v2

Labile == [band |-> 0, last |-> 0, con |-> FALSE]
Settled == [band |-> 1, last |-> 0, con |-> TRUE]
MCStates == {Labile, Settled}

Draft(text, created, model, st, vec) ==
    [text |-> text, created |-> created, model |-> model, st |-> st, vec |-> vec]

\* A trace saved offline, the same indexed, and one that differs from it in every field.
MCDrafts == {Draft(x, 1, none, Labile, NoVec), Draft(x, 1, m1, Labile, v1),
             Draft(y, 2, m1, Settled, v2)}
MCDimOf == v1 :> 2 @@ v2 :> 2
Symmetry == Permutations(Ids)
=============================================================================
