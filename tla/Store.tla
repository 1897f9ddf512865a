------------------------------- MODULE Store -------------------------------
(***************************************************************************)
(* The bundled storage (src/src/store.rs): a table of rows, the tables     *)
(* that index them, the lists vectors are filed in, and the centroids the  *)
(* process keeps in memory.  A write transaction works on its own copy of  *)
(* the tables (tx) and of the centroids; both replace the committed ones   *)
(* together or not at all.  Cosines are abstracted: which list a vector is *)
(* filed in, and how 2-means divides a list, is a choice among the         *)
(* outcomes the code can produce (equal vectors stay together).            *)
(***************************************************************************)
EXTENDS Trace, Integers, FiniteSets, Sequences

CONSTANTS
    Drafts,       \* the traces callers write
    DimOf,        \* DimOf[v]: the dimension of vector v
    ListMax,      \* LIST_MAX
    MaxLists,     \* bound: list numbers a model may use
    MaxBatch,     \* bound: writes in one transaction
    MaxDamage,    \* bound: kinds of value a file loses in one behaviour
    DamageKinds,  \* what a damaged file may lose, each once: "row", "entry", "centroid"
    NoTx          \* no transaction is open

VARIABLES
    db,      \* the committed tables, and the centroids in memory (db.seen)
    tx,      \* the same as the open transaction has changed them, or NoTx
    batch,   \* the writes the open transaction has applied, in order
    damage   \* the kinds of value damaged so far

vars == <<db, tx, batch, damage>>

ListNos == 1 .. MaxLists
Dims == {DimOf[v] : v \in Vecs}
NoDim == 0

ASSUME StoreAssumption ==
    /\ Drafts \subseteq Stored
    /\ ListMax \in Nat \ {0}
    /\ MaxLists \in Nat
    /\ MaxBatch \in Nat
    /\ MaxDamage \in Nat
    /\ \A v \in Vecs : DimOf[v] \in Nat \ {0} /\ DimOf[v] # Damaged

BandKey == [band : {s.band : s \in States}, last : {s.last : s \in States},
            id : Ids, created : Times]
Entry == [model : Models, list : ListNos, id : Ids, created : Times, vec : Vecs \cup {Damaged}]
Centroid == [model : Models, list : ListNos, size : Nat, dim : Nat \cup {Damaged}]
SeenList == [model : Models, list : ListNos, size : Nat, dim : Nat]

Tables ==
    [rows : [Ids -> Row \cup {Absent, Damaged}],
     text : SUBSET (Texts \X Ids),
     labile : SUBSET (Models \X Ids),
     model : SUBSET (Models \X Ids),
     band : SUBSET BandKey,
     created : SUBSET (Times \X Ids),
     listed : [Ids -> ListNos \cup {0}],          \* 0: in no list
     lists : SUBSET Entry,
     cents : SUBSET Centroid,
     count : Nat,
     next : [Models -> 0 .. MaxLists],
     read : SUBSET Models,                        \* the models whose centroids are in memory
     seen : [Models -> SUBSET SeenList]]

Empty ==
    [rows |-> [i \in Ids |-> Absent], text |-> {}, labile |-> {}, model |-> {},
     band |-> {}, created |-> {}, listed |-> [i \in Ids |-> 0], lists |-> {},
     cents |-> {}, count |-> 0, next |-> [m \in Models |-> 0],
     read |-> {}, seen |-> [m \in Models |-> {}]]

Found(d, i) == d.rows[i] \notin {Absent, Damaged}

Less(a, b) == IF a > b THEN a - b ELSE 0

-----------------------------------------------------------------------------
(* Lists and centroids.                                                    *)

Members(d, m, l) == {e \in d.lists : e.model = m /\ e.list = l}

SaveList(cents, c) ==
    {x \in cents : ~(x.model = c.model /\ x.list = c.list)}
        \cup (IF c.size = 0 THEN {} ELSE {c})

\* A list whose centroid entry is damaged, recomputed from its members.
Rebuilt(d, m, l) ==
    LET whole == {e \in Members(d, m, l) : e.vec # Damaged}
    IN  [model |-> m, list |-> l, size |-> Cardinality(whole),
         dim |-> IF whole = {} THEN NoDim ELSE DimOf[(CHOOSE e \in whole : TRUE).vec]]

\* The centroids a writer works on: those in memory, or the table's, rebuilt where damaged.
ListsOf(d, m) ==
    IF m \in d.read THEN d
    ELSE LET table == {c \in d.cents : c.model = m}
             lost == {c \in table : c.dim = Damaged}
             fresh == {Rebuilt(d, m, c.list) : c \in lost}
         IN  [d EXCEPT !.cents = (@ \ lost) \cup {c \in fresh : c.size > 0},
                       !.read = @ \cup {m},
                       !.seen[m] = (table \ lost) \cup fresh]

Fits(d, m, v) == {c \in d.seen[m] : c.dim = DimOf[v]}

\* The lists the vector may be filed in: one of its dimension, or a new one.
Targets(d, m, v) ==
    IF v = NoVec THEN {0}
    ELSE LET fits == Fits(ListsOf(d, m), m, v)
         IN  IF fits = {} THEN {d.next[m] + 1} \cap ListNos ELSE {c.list : c \in fits}

\* A list is divided when it passes ListMax, and again only when its size has doubled.
SplitDue(size) ==
    LET over == Less(size, 1)
    IN  /\ over >= ListMax
        /\ over % ListMax = 0
        /\ \E p \in 0 .. over : over \div ListMax = 2 ^ p

SplitForgetsListed(d, m, c, far) == \* mutant: moved members still name the list they left
    LET members == Members(d, m, c.list)
        moved == {e \in members : e.vec \in far}
        new == d.next[m] + 1
        old == [c EXCEPT !.size = Less(@, Cardinality(moved))]
        fresh == [c EXCEPT !.list = new, !.size = Cardinality(moved)]
    IN  IF moved = {} \/ moved = members THEN d
        ELSE [d EXCEPT
                !.next[m] = new,
                !.lists = (@ \ moved) \cup {[e EXCEPT !.list = new] : e \in moved},
                !.cents = SaveList(SaveList(@, old), fresh),
                !.seen[m] = (@ \ {c}) \cup {old, fresh}]

\* 2-means moves the members with a vector in `far` to a new list.
Split(d, m, c, far) ==
    LET members == Members(d, m, c.list)
        moved == {e \in members : e.vec \in far}
        new == d.next[m] + 1
        old == [c EXCEPT !.size = Less(@, Cardinality(moved))]
        fresh == [c EXCEPT !.list = new, !.size = Cardinality(moved)]
    IN  IF moved = {} \/ moved = members THEN d
        ELSE [d EXCEPT
                !.next[m] = new,
                !.lists = (@ \ moved) \cup {[e EXCEPT !.list = new] : e \in moved},
                !.listed = [i \in Ids |-> IF \E e \in moved : e.id = i THEN new ELSE @[i]],
                !.cents = SaveList(SaveList(@, old), fresh),
                !.seen[m] = (@ \ {c}) \cup {old, fresh}]

\* Division of a list needs every member readable and a free list number.
SplitPossible(d, m, l) ==
    /\ \A e \in Members(d, m, l) : e.vec # Damaged
    /\ d.next[m] < MaxLists

\* The vector filed in list `to` (one of Targets), the list not divided yet.
Filed(d0, i, t, v, to) ==
    LET d == ListsOf(d0, t.model)
        held == {c \in d.seen[t.model] : c.list = to /\ c.dim = DimOf[v]}
        c == IF held = {}
             THEN [model |-> t.model, list |-> to, size |-> 0, dim |-> DimOf[v]]
             ELSE CHOOSE x \in held : TRUE
        grown == [c EXCEPT !.size = @ + 1]
    IN  [d EXCEPT
           !.next[t.model] = IF held = {} THEN to ELSE @,
           !.lists = {e \in @ : ~(e.model = t.model /\ e.list = to /\ e.id = i)}
                       \cup {[model |-> t.model, list |-> to, id |-> i,
                              created |-> t.created, vec |-> v]},
           !.listed[i] = to,
           !.cents = SaveList(@, grown),
           !.seen[t.model] = (@ \ {c}) \cup {grown}]

UnlistKeepsSize(d0, i, m) ==    \* mutant: the list's size is not taken back
    [d0 EXCEPT !.listed[i] = 0,
               !.lists = {e \in @ : ~(e.model = m /\ e.list = d0.listed[i] /\ e.id = i)}]

\* The vector of i taken out of its list; a list left empty loses its centroid.
Unlist(d0, i, m) ==
    LET l == d0.listed[i]
        taken == [d0 EXCEPT !.listed[i] = 0,
                            !.lists = {e \in @ : ~(e.model = m /\ e.list = l /\ e.id = i)}]
        d == ListsOf(taken, m)
        held == {c \in d.seen[m] : c.list = l}
        c == CHOOSE x \in held : TRUE
        smaller == [c EXCEPT !.size = Less(@, 1)]
    IN  IF l = 0 THEN d0
        ELSE IF held = {} THEN d
        ELSE [d EXCEPT !.cents = SaveList(@, smaller),
                       !.seen[m] = (@ \ {c}) \cup (IF smaller.size = 0 THEN {} ELSE {smaller})]

-----------------------------------------------------------------------------
(* Rows and the tables that index them.                                    *)

DropState(d, i, t) ==
    [d EXCEPT !.labile = @ \ {<<t.model, i>>},
              !.band = {b \in @ : ~(b.band = t.st.band /\ b.last = t.st.last /\ b.id = i)}]

PutState(d, i, t) ==
    [d EXCEPT !.rows[i] = t,
              !.labile = IF t.st.con THEN @ ELSE @ \cup {<<t.model, i>>},
              !.band = {b \in @ : ~(b.band = t.st.band /\ b.last = t.st.last /\ b.id = i)}
                         \cup {[band |-> t.st.band, last |-> t.st.last,
                                id |-> i, created |-> t.created]}]

Unindex(d, i, t) == Unlist([d EXCEPT !.model = @ \ {<<t.model, i>>}], i, t.model)

Index(d, i, t, v, to) ==
    LET named == [d EXCEPT !.model = @ \cup {<<t.model, i>>}]
    IN  IF v = NoVec THEN named ELSE Filed(named, i, t, v, to)

Link(d, i, t, v, to) ==
    LET stated == PutState(d, i, t)
    IN  Index([stated EXCEPT !.text = @ \cup {<<t.text, i>>},
                             !.created = @ \cup {<<t.created, i>>}], i, t, v, to)

UnlinkKeepsText(d, i) ==        \* mutant: the text index keeps the removed row
    LET t == d.rows[i]
        dropped == DropState(d, i, t)
    IN  Unindex([dropped EXCEPT !.rows[i] = Absent,
                                !.created = @ \ {<<t.created, i>>}], i, t)

Unlink(d, i) ==
    LET t == d.rows[i]
        dropped == DropState(d, i, t)
    IN  Unindex([dropped EXCEPT !.rows[i] = Absent,
                                !.text = @ \ {<<t.text, i>>},
                                !.created = @ \ {<<t.created, i>>}], i, t)

\* A row that cannot be decoded names no keys: every index is searched by id.
Purge(d, i) ==
    LET named == {m \in Models : <<m, i>> \in d.model}
        out == IF named = {} THEN d ELSE Unlist(d, i, CHOOSE m \in named : TRUE)
    IN  [out EXCEPT !.rows[i] = Absent,
                    !.model = {k \in @ : k[2] # i},
                    !.labile = {k \in @ : k[2] # i},
                    !.text = {k \in @ : k[2] # i},
                    !.created = {k \in @ : k[2] # i},
                    !.band = {b \in @ : b.id # i},
                    !.listed[i] = 0]

\* The tables without row i, as an overwrite or a removal leaves them.
Cleared(d, i) == IF Found(d, i) THEN Unlink(d, i)
                 ELSE IF d.rows[i] = Damaged THEN Purge(d, i)
                 ELSE d

SameVector(d, i, t, v) ==
    IF d.listed[i] = 0 THEN v = NoVec
    ELSE \E e \in Members(d, t.model, d.listed[i]) :
            e.id = i /\ e.created = t.created /\ e.vec = v

\* Same text, time, model and vector: only the state indexes can have changed.
FastPath(d, i, t, v) ==
    /\ Found(d, i)
    /\ d.rows[i].text = t.text /\ d.rows[i].created = t.created /\ d.rows[i].model = t.model
    /\ SameVector(d, i, t, v)

-----------------------------------------------------------------------------
(* The transaction.                                                        *)

Init ==
    /\ db = Empty
    /\ tx = NoTx
    /\ batch = <<>>
    /\ damage = {}

BeginWrite ==
    /\ tx = NoTx
    /\ tx' = db
    /\ batch' = <<>>
    /\ UNCHANGED <<db, damage>>

\* What a write does after filing a vector: the list it is in is divided when due.
AfterFiling(d, i, m, v) ==
    LET c == CHOOSE x \in d.seen[m] : x.list = d.listed[i]
    IN  IF v = NoVec \/ ~SplitDue(c.size) THEN {d}
        ELSE IF ~SplitPossible(d, m, c.list) THEN {}
        ELSE {Split(d, m, c, far) : far \in SUBSET Vecs}

WriteStep(w) ==
    /\ tx # NoTx
    /\ Len(batch) < MaxBatch
    /\ batch' = Append(batch, w)
    /\ UNCHANGED <<db, damage>>

ApplyInsert(i, t, v) ==
    /\ WriteStep(InsertWrite(i, WithVec(t, v)))
    /\ WithVec(t, v) \in Drafts
    /\ IF FastPath(tx, i, t, v)
       THEN tx' = PutState(DropState(tx, i, tx.rows[i]), i, t)
       ELSE LET old == Cleared(tx, i)
                base == [old EXCEPT !.count = IF tx.rows[i] = Absent THEN @ + 1 ELSE @]
            IN  \E to \in Targets(base, t.model, v) :
                    tx' \in AfterFiling(Link(base, i, t, v, to), i, t.model, v)

ApplyState(i, s) ==
    /\ WriteStep(StateWrite(i, s))
    /\ tx' = IF Found(tx, i)
             THEN PutState(DropState(tx, i, tx.rows[i]), i, [tx.rows[i] EXCEPT !.st = s])
             ELSE tx

ApplyIndex(i, m, v) ==
    /\ WriteStep(IndexWrite(i, m, v))
    /\ \E t \in Drafts : t.model = m /\ t.vec = v
    /\ IF ~Found(tx, i) THEN tx' = tx
       ELSE LET old == tx.rows[i]
                t == [old EXCEPT !.model = m]
                base == PutState(Unindex(DropState(tx, i, old), i, old), i, t)
            IN  \E to \in Targets(base, m, v) :
                    tx' \in AfterFiling(Index(base, i, t, v, to), i, m, v)

ApplyRemove(i) ==
    /\ WriteStep(RemoveWrite(i))
    /\ LET d == Cleared(tx, i)
       IN  tx' = [d EXCEPT !.count = IF tx.rows[i] # Absent THEN Less(@, 1) ELSE @]

CommitWrite ==
    /\ tx # NoTx
    /\ db' = tx
    /\ tx' = NoTx
    /\ batch' = <<>>
    /\ UNCHANGED damage

FailWritePublishes ==           \* mutant: the centroids are shared before the commit
    /\ tx # NoTx
    /\ db' = [db EXCEPT !.read = tx.read, !.seen = tx.seen]
    /\ tx' = NoTx
    /\ batch' = <<>>
    /\ UNCHANGED damage

\* A write that errs (a value that is not finite, a damaged member in a list due to be
\* divided, the disk) aborts the transaction: tables and shared centroids stay.
FailWrite ==
    /\ tx # NoTx
    /\ tx' = NoTx
    /\ batch' = <<>>
    /\ UNCHANGED <<db, damage>>

\* The file as a new process finds it: no centroids in memory.
Closed(d) == [d EXCEPT !.read = {}, !.seen = [m \in Models |-> {}]]

\* The process ends, perhaps inside a transaction, and opens the file again.
Reopen ==
    /\ db' = Closed(db)
    /\ tx' = NoTx
    /\ batch' = <<>>
    /\ UNCHANGED damage

\* A reader loads the centroids, unless one is damaged.
ReadLists(m) ==
    /\ tx = NoTx
    /\ m \notin db.read
    /\ LET table == {c \in db.cents : c.model = m}
       IN  /\ \A c \in table : c.dim # Damaged
           /\ db' = [db EXCEPT !.read = @ \cup {m}, !.seen[m] = table]
    /\ UNCHANGED <<tx, batch, damage>>

ClearStore ==
    /\ tx = NoTx
    /\ db' = Empty
    /\ UNCHANGED <<tx, batch, damage>>

\* The file loses a value while it is closed.
DamageFile(kind) ==
    /\ tx = NoTx
    /\ kind \in DamageKinds \ damage
    /\ Cardinality(damage) < MaxDamage
    /\ damage' = damage \cup {kind}
    /\ LET d == Closed(db)
       IN  \/ /\ kind = "row"
              /\ \E i \in Ids : Found(d, i) /\ db' = [d EXCEPT !.rows[i] = Damaged]
           \/ /\ kind = "entry"
              /\ \E e \in d.lists :
                    db' = [d EXCEPT !.lists = (@ \ {e}) \cup {[e EXCEPT !.vec = Damaged]}]
           \/ /\ kind = "centroid"
              /\ \E c \in d.cents :
                    db' = [d EXCEPT !.cents = (@ \ {c}) \cup {[c EXCEPT !.size = 0, !.dim = Damaged]}]
    /\ UNCHANGED <<tx, batch>>

Next ==
    \/ BeginWrite \/ CommitWrite \/ FailWrite \/ Reopen \/ ClearStore
    \/ \E i \in Ids, t \in Row, v \in Vector : ApplyInsert(i, t, v)
    \/ \E i \in Ids, s \in States : ApplyState(i, s)
    \/ \E i \in Ids, m \in Models, v \in Vecs : ApplyIndex(i, m, v)
    \/ \E i \in Ids : ApplyRemove(i)
    \/ \E m \in Models : ReadLists(m)
    \/ \E kind \in {"row", "entry", "centroid"} : DamageFile(kind)

Spec == Init /\ [][Next]_vars
-----------------------------------------------------------------------------
(* Properties.                                                             *)

\* The entries of row t under id i, and no others, in every table that indexes rows.
IndexedAs(d, i, t) ==
    /\ {k \in d.text : k[2] = i} = {<<t.text, i>>}
    /\ {k \in d.created : k[2] = i} = {<<t.created, i>>}
    /\ {k \in d.model : k[2] = i} = {<<t.model, i>>}
    /\ {k \in d.labile : k[2] = i} = (IF t.st.con THEN {} ELSE {<<t.model, i>>})
    /\ {b \in d.band : b.id = i} = {[band |-> t.st.band, last |-> t.st.last,
                                     id |-> i, created |-> t.created]}
    /\ \A e \in d.lists :
          e.id = i => e.model = t.model /\ e.list = d.listed[i] /\ e.created = t.created
    /\ d.listed[i] # 0 => \E e \in d.lists : e.id = i

NotIndexed(d, i) ==
    /\ d.listed[i] = 0
    /\ \A k \in d.text \cup d.created \cup d.model \cup d.labile : k[2] # i
    /\ \A e \in d.lists \cup d.band : e.id # i

RowIndexed(d, i) ==
    IF Found(d, i) THEN IndexedAs(d, i, d.rows[i])
    ELSE IF d.rows[i] = Absent THEN NotIndexed(d, i)
    ELSE \E t \in Row : IndexedAs(d, i, t)

\* Every view of the store (by text, by creation time, by model, the labile queue, the
\* stability bands, the similarity lists) holds a row exactly once, under the keys the
\* row has now, and nothing of a row that is gone -- whatever writes, aborts, reopenings
\* and damaged values came before (store.rs link/unlink/put_state/drop_state/purge).
IndexesMatchRows ==
    /\ \A i \in Ids : RowIndexed(db, i)
    /\ tx # NoTx => \A i \in Ids : RowIndexed(tx, i)

\* What the store counts instead of reading it is exact.  The count of rows, which eviction
\* trusts, includes the unreadable ones.  And while no centroid entry was ever damaged, a
\* list has a centroid exactly when it has members, its stored size is their number, and
\* they all have the centroid's dimension.
CountersExact ==
    /\ db.count = Cardinality({i \in Ids : db.rows[i] # Absent})
    /\ "centroid" \notin damage =>
        /\ \A c \in db.cents :
              LET members == Members(db, c.model, c.list)
              IN  /\ c.size = Cardinality(members) /\ c.size > 0
                  /\ \A e \in members : e.vec # Damaged => DimOf[e.vec] = c.dim
        /\ \A e \in db.lists : \E c \in db.cents : c.model = e.model /\ c.list = e.list

\* The centroids in memory are the ones the file holds: an aborted transaction, or one
\* that rebuilt a damaged centroid, leaves no list in one place that the other lacks.
CentroidCacheCurrent ==
    \A m \in db.read :
        {c \in db.seen[m] : c.size > 0} = {c \in db.cents : c.model = m}

\* A vector is hidden from `near` when its list has no centroid entry.
NoVectorHidden ==
    \A e \in db.lists :
        e.vec # Damaged =>
            \E c \in db.cents : c.model = e.model /\ c.list = e.list

\* What a reader of the tables gets for id i: the row and the vector filed for it.
TraceOf(d, i) ==
    IF ~Found(d, i) THEN d.rows[i]
    ELSE LET filed == {e \in d.lists : e.id = i /\ e.model = d.rows[i].model
                                        /\ e.list = d.listed[i] /\ e.vec # Damaged}
         IN  WithVec(d.rows[i], IF filed = {} THEN NoVec ELSE (CHOOSE e \in filed : TRUE).vec)

Contract == INSTANCE Storage WITH
    mem <- [i \in Ids |-> TraceOf(db, i)],
    work <- IF tx = NoTx THEN NoTx ELSE [i \in Ids |-> TraceOf(tx, i)],
    asked <- IF tx = NoTx THEN <<>> ELSE batch,
    NoBatch <- NoTx

\* Behind all its tables the store is the atomic map of storage.rs: a reader sees whole
\* transactions, and the open one holds the committed traces as changed by exactly the
\* writes it was asked for, each under its id and with the text, state and vector given.
ImplementsStorage == Contract!StorageSpec
=============================================================================
