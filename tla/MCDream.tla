------------------------------ MODULE MCDream ------------------------------
(* A small queue for TLC: constants of Dream that a .cfg cannot write. *)
EXTENDS Dream, TLC

CONSTANTS a, b, c

\* Chains and a pair that reach each other; nothing reaches c.
MCHits == a :> {b} @@ b :> {a, b} @@ c :> {a}
\* The vectors of a and b are close, that of c to none but its own.
MCNears == a :> {a, b} @@ b :> {a, b} @@ c :> {c}
\* The first two ids are facts of one turn.
MCStatedAt == [i \in 1 .. MaxId |-> IF i <= 2 THEN 1 ELSE i]
=============================================================================
