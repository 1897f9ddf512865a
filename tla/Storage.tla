------------------------------ MODULE Storage ------------------------------
(***************************************************************************)
(* What a storage promises the engine (the Storage trait of                *)
(* src/src/storage.rs): a map from ids to traces that changes only by      *)
(* atomic batches of writes.  Every table, index and cache of the bundled  *)
(* store is behind this map.  `asked` is the writes the open batch was     *)
(* asked for so far, `work` the map as exactly these writes, in this       *)
(* order, have changed it (NoBatch when no batch is open).                 *)
(***************************************************************************)
EXTENDS Trace, Sequences

CONSTANTS NoBatch

VARIABLES mem, work, asked

storageVars == <<mem, work, asked>>

Memory == [Ids -> Stored \cup {Absent, Damaged}]

Holds(m, i) == m[i] \notin {Absent, Damaged}

StorageInit ==
    /\ mem = [i \in Ids |-> Absent]
    /\ work = NoBatch
    /\ asked = <<>>

Begin ==
    /\ work = NoBatch
    /\ work' = mem
    /\ asked' = <<>>
    /\ UNCHANGED mem

Asked(w) ==
    /\ work # NoBatch
    /\ asked' = Append(asked, w)
    /\ UNCHANGED mem

\* The four writes, each on the open batch and each changing what it was asked to change.
Put(i, t) ==
    /\ Asked(InsertWrite(i, t))
    /\ work' = [work EXCEPT ![i] = t]

PutState(i, s) ==
    /\ Asked(StateWrite(i, s))
    /\ work' = IF Holds(work, i) THEN [work EXCEPT ![i].st = s] ELSE work

PutVector(i, m, v) ==
    /\ Asked(IndexWrite(i, m, v))
    /\ work' = IF Holds(work, i) THEN [work EXCEPT ![i].model = m, ![i].vec = v] ELSE work

Delete(i) ==
    /\ Asked(RemoveWrite(i))
    /\ work' = [work EXCEPT ![i] = Absent]

Commit ==
    /\ work # NoBatch
    /\ mem' = work
    /\ work' = NoBatch
    /\ asked' = <<>>

\* A failed or interrupted batch leaves no trace of itself.
Abandon ==
    /\ work # NoBatch
    /\ work' = NoBatch
    /\ asked' = <<>>
    /\ UNCHANGED mem

Clear ==
    /\ work = NoBatch
    /\ mem' = [i \in Ids |-> Absent]
    /\ UNCHANGED <<work, asked>>

\* A damaged file costs a trace its readability or its vector, never another trace.
Decay(i) ==
    /\ work = NoBatch
    /\ Holds(mem, i)
    /\ \/ mem' = [mem EXCEPT ![i] = Damaged]
       \/ mem' = [mem EXCEPT ![i].vec = NoVec]
    /\ UNCHANGED <<work, asked>>

StorageNext ==
    \/ Begin \/ Commit \/ Abandon \/ Clear
    \/ \E i \in Ids :
        \/ \E t \in Stored : Put(i, t)
        \/ \E s \in States : PutState(i, s)
        \/ \E m \in Models, v \in Vecs : PutVector(i, m, v)
        \/ Delete(i)
        \/ Decay(i)

StorageSpec == StorageInit /\ [][StorageNext]_storageVars
=============================================================================
