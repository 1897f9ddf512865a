------------------------------- MODULE Trace -------------------------------
(***************************************************************************)
(* The memory trace (src/src/trace.rs) as the storage sees it.  Texts,     *)
(* creation times, embedding models and vectors are members of small sets: *)
(* the storage compares them and never looks inside.  A state is what      *)
(* strengthening rewrites: the stability band, the time of the last recall *)
(* and whether the dream has consolidated the trace.                       *)
(***************************************************************************)
CONSTANTS
    Ids,        \* trace ids
    Texts,      \* propositions
    Times,      \* creation times
    Models,     \* embedding model ids ("" included)
    Vecs,       \* non-empty vectors
    NoVec,      \* the empty vector: a trace that is not indexed
    States,     \* records [band, last, con]
    Absent,     \* no row has this id
    Damaged     \* a stored value that cannot be decoded

ASSUME DistinctValues ==
    /\ NoVec \notin Vecs
    /\ Damaged \notin Vecs
    /\ Damaged # NoVec
    /\ Damaged # Absent
    /\ \A s \in States : s = [band |-> s.band, last |-> s.last, con |-> s.con]
    /\ \A s \in States : s.con \in BOOLEAN

Vector == Vecs \cup {NoVec}

\* A row without its vector: what the table of rows holds.
Row == [text : Texts, created : Times, model : Models, st : States]

\* A whole trace: what a reader of the storage gets.
Stored == [text : Texts, created : Times, model : Models, st : States, vec : Vector]

ASSUME AbsentIsNoTrace == Absent \notin Row \cup Stored /\ Damaged \notin Row \cup Stored

WithVec(r, v) ==
    [text |-> r.text, created |-> r.created, model |-> r.model, st |-> r.st, vec |-> v]

\* The four writes a caller may ask for.
InsertWrite(i, t) == [op |-> "Insert", id |-> i, trace |-> t]
StateWrite(i, s) == [op |-> "State", id |-> i, st |-> s]
IndexWrite(i, m, v) == [op |-> "Index", id |-> i, model |-> m, vec |-> v]
RemoveWrite(i) == [op |-> "Remove", id |-> i]

=============================================================================
