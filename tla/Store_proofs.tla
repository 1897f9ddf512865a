---------------------------- MODULE Store_proofs ----------------------------
(***************************************************************************)
(* Theorems about the bundled store, for every set of ids, texts, times,   *)
(* models, states and vectors, every dimension, every LIST_MAX, and for    *)
(* batches and damage of any length.                                       *)
(***************************************************************************)
EXTENDS Store, FiniteSetTheorems, TLAPS

Fields == {"rows", "text", "labile", "model", "band", "created", "listed", "lists",
           "cents", "count", "next", "read", "seen"}

ListFields == {"model", "list", "size", "dim"}

EntryFields == {"model", "list", "id", "created", "vec"}

IsEntry(x) ==
    /\ DOMAIN x = EntryFields
    /\ x.id \in Ids /\ x.list \in Nat \ {0} /\ x.vec \in Vecs \cup {Damaged}

\* The shape of the tables, as far as the indexes depend on it.
Shape(d) ==
    /\ DOMAIN d = Fields
    /\ d.rows \in [Ids -> Row \cup {Absent, Damaged}]
    /\ d.listed \in [Ids -> Nat]
    /\ DOMAIN d.next = Models /\ \A m \in Models : d.next[m] \in Nat
    /\ DOMAIN d.seen = Models
    /\ \A m \in Models : \A c \in d.seen[m] : DOMAIN c = ListFields /\ c.list \in Nat \ {0}
    /\ \A c \in d.cents : DOMAIN c = ListFields /\ c.list \in Nat \ {0}
    /\ \A e \in d.lists : IsEntry(e)

\* Nothing but lists and centroids differs.
SameRows(d, e) ==
    /\ e.rows = d.rows /\ e.text = d.text /\ e.labile = d.labile /\ e.model = d.model
    /\ e.band = d.band /\ e.created = d.created /\ e.count = d.count

LEMMA SaveListShape ==
  ASSUME NEW cents, NEW c, DOMAIN c = ListFields, c.list \in Nat \ {0},
         \A x \in cents : DOMAIN x = ListFields /\ x.list \in Nat \ {0}
  PROVE  \A x \in SaveList(cents, c) : DOMAIN x = ListFields /\ x.list \in Nat \ {0}
  BY DEF SaveList

LEMMA RebuiltShape ==
  ASSUME NEW d, NEW m, NEW l
  PROVE  DOMAIN Rebuilt(d, m, l) = ListFields /\ Rebuilt(d, m, l).list = l
  BY DEF Rebuilt, ListFields

LEMMA ListsOfIs ==
  ASSUME NEW d, Shape(d), NEW m \in Models
  PROVE  LET e == ListsOf(d, m)
         IN  Shape(e) /\ SameRows(d, e) /\ e.lists = d.lists /\ e.listed = d.listed
             /\ e.next = d.next
<1>1. CASE m \in d.read
  BY <1>1 DEF ListsOf, SameRows
<1>2. CASE m \notin d.read
  <2> DEFINE table == {c \in d.cents : c.model = m}
             lost == {c \in table : c.dim = Damaged}
             fresh == {Rebuilt(d, m, c.list) : c \in lost}
             cents == (d.cents \ lost) \cup {c \in fresh : c.size > 0}
             read == d.read \cup {m}
             seen == [d.seen EXCEPT ![m] = (table \ lost) \cup fresh]
             e == [d EXCEPT !.cents = cents, !.read = read, !.seen = seen]
  <2>1. ListsOf(d, m) = e
    BY <1>2 DEF ListsOf
  <2>2. \A c \in fresh : DOMAIN c = ListFields /\ c.list \in Nat \ {0}
    BY RebuiltShape DEF Shape
  <2>3. \A c \in cents : DOMAIN c = ListFields /\ c.list \in Nat \ {0}
    BY <2>2 DEF Shape
  <2>4. DOMAIN seen = Models /\ \A k \in Models : \A c \in seen[k] : DOMAIN c = ListFields /\ c.list \in Nat \ {0}
    BY <2>2 DEF Shape
  <2> HIDE DEF cents, read, seen
  <2>5. DOMAIN e = Fields /\ e.cents = cents /\ e.seen = seen
        /\ e.lists = d.lists /\ e.listed = d.listed /\ e.next = d.next /\ SameRows(d, e)
    BY DEF Shape, Fields, SameRows
  <2> HIDE DEF e
  <2>6. Shape(e)
    BY <2>3, <2>4, <2>5 DEF Shape, SameRows
  <2> QED
    BY <2>1, <2>5, <2>6
<1> QED
  BY <1>1, <1>2

LEMMA UnlistIs ==
  ASSUME NEW d, Shape(d), NEW i \in Ids, NEW m \in Models
  PROVE  LET e == Unlist(d, i, m)
         IN  /\ Shape(e) /\ SameRows(d, e)
             /\ e.listed = [d.listed EXCEPT ![i] = 0]
             /\ e.lists = IF d.listed[i] = 0 THEN d.lists
                          ELSE {x \in d.lists : ~(x.model = m /\ x.list = d.listed[i] /\ x.id = i)}
<1>1. CASE d.listed[i] = 0
  <2>1. d.listed = [d.listed EXCEPT ![i] = 0]
    BY <1>1 DEF Shape
  <2> QED
    BY <1>1, <2>1 DEF Unlist, SameRows
<1>2. CASE d.listed[i] # 0
  <2> DEFINE l == d.listed[i]
             listed == [d.listed EXCEPT ![i] = 0]
             lists == {e \in d.lists : ~(e.model = m /\ e.list = l /\ e.id = i)}
             taken == [d EXCEPT !.listed = listed, !.lists = lists]
             e == ListsOf(taken, m)
             held == {c \in e.seen[m] : c.list = l}
             c == CHOOSE x \in held : TRUE
             smaller == [c EXCEPT !.size = Less(@, 1)]
             cents == SaveList(e.cents, smaller)
             seen == [e.seen EXCEPT ![m] = (@ \ {c}) \cup (IF smaller.size = 0 THEN {} ELSE {smaller})]
             f == [e EXCEPT !.cents = cents, !.seen = seen]
  <2>1. Unlist(d, i, m) = IF held = {} THEN e ELSE f
    BY <1>2 DEF Unlist
  <2>2. listed \in [Ids -> Nat] /\ \A x \in lists : IsEntry(x)
    BY DEF Shape
  <2>3. e = ListsOf(taken, m)
    OBVIOUS
  <2> HIDE DEF listed, lists
  <2>4. DOMAIN taken = Fields /\ taken.listed = listed /\ taken.lists = lists /\ SameRows(d, taken)
        /\ taken.next = d.next /\ taken.seen = d.seen /\ taken.cents = d.cents
    BY DEF Shape, Fields, SameRows
  <2> HIDE DEF taken
  <2>5. Shape(taken)
    BY <2>2, <2>4 DEF Shape, SameRows
  <2>6. Shape(e) /\ SameRows(d, e) /\ e.lists = lists /\ e.listed = listed
    BY <2>4, <2>5, ListsOfIs DEF SameRows
  <2> HIDE DEF e
  <2>7. ASSUME held # {}
        PROVE  Shape(f) /\ SameRows(d, f) /\ f.lists = lists /\ f.listed = listed
    <3>1. c \in held
      BY <2>7
    <3>2. DOMAIN c = ListFields /\ c.list \in Nat \ {0}
      BY <2>6, <3>1 DEF Shape
    <3> HIDE DEF c
    <3>3. DOMAIN smaller = ListFields /\ smaller.list \in Nat \ {0}
      BY <3>2 DEF ListFields
    <3> HIDE DEF smaller
    <3>4. \A x \in cents : DOMAIN x = ListFields /\ x.list \in Nat \ {0}
      BY <2>6, <3>3, SaveListShape DEF Shape
    <3>5. DOMAIN seen = Models
          /\ \A k \in Models : \A x \in seen[k] : DOMAIN x = ListFields /\ x.list \in Nat \ {0}
      BY <2>6, <3>3 DEF Shape
    <3> HIDE DEF cents, seen
    <3>6. DOMAIN f = Fields /\ f.cents = cents /\ f.seen = seen /\ f.lists = e.lists
          /\ f.listed = e.listed /\ f.next = e.next /\ SameRows(e, f)
      BY <2>6 DEF Shape, Fields, SameRows
    <3> HIDE DEF f
    <3> QED
      BY <2>6, <3>4, <3>5, <3>6 DEF Shape, SameRows
  <2> HIDE DEF f, held
  <2>8. lists = {x \in d.lists : ~(x.model = m /\ x.list = d.listed[i] /\ x.id = i)}
        /\ listed = [d.listed EXCEPT ![i] = 0]
    BY DEF lists, listed
  <2>9. Shape(Unlist(d, i, m)) /\ SameRows(d, Unlist(d, i, m))
        /\ Unlist(d, i, m).lists = lists /\ Unlist(d, i, m).listed = listed
    BY <2>1, <2>6, <2>7
  <2> QED
    BY <1>2, <2>8, <2>9
<1> QED
  BY <1>1, <1>2

NewEntry(i, t, v, to) ==
    [model |-> t.model, list |-> to, id |-> i, created |-> t.created, vec |-> v]

LEMMA TargetsAreLists ==
  ASSUME NEW d, Shape(d), NEW m \in Models, NEW v, v # NoVec, NEW to \in Targets(d, m, v)
  PROVE  to \in Nat \ {0}
<1>1. Shape(ListsOf(d, m))
  BY ListsOfIs
<1> QED
  BY <1>1, StoreAssumption DEF Targets, Fits, Shape, ListNos

LEMMA FiledIs ==
  ASSUME NEW d, Shape(d), NEW i \in Ids, NEW t, t.model \in Models,
         NEW v \in Vecs, NEW to \in Nat \ {0}
  PROVE  LET e == Filed(d, i, t, v, to)
         IN  /\ Shape(e) /\ SameRows(d, e)
             /\ e.listed = [d.listed EXCEPT ![i] = to]
             /\ e.lists = {x \in d.lists : ~(x.model = t.model /\ x.list = to /\ x.id = i)}
                             \cup {NewEntry(i, t, v, to)}
             /\ \E x \in e.seen[t.model] : x.list = to
<1> DEFINE m == t.model
           b == ListsOf(d, m)
           held == {c \in b.seen[m] : c.list = to /\ c.dim = DimOf[v]}
           c == IF held = {}
                THEN [model |-> m, list |-> to, size |-> 0, dim |-> DimOf[v]]
                ELSE CHOOSE x \in held : TRUE
           grown == [c EXCEPT !.size = @ + 1]
           next == [b.next EXCEPT ![m] = IF held = {} THEN to ELSE @]
           lists == {x \in b.lists : ~(x.model = m /\ x.list = to /\ x.id = i)}
                      \cup {NewEntry(i, t, v, to)}
           listed == [b.listed EXCEPT ![i] = to]
           cents == SaveList(b.cents, grown)
           seen == [b.seen EXCEPT ![m] = (@ \ {c}) \cup {grown}]
           e == [b EXCEPT !.next = next, !.lists = lists, !.listed = listed, !.cents = cents,
                          !.seen = seen]
<1>1. Filed(d, i, t, v, to) = e
  BY DEF Filed, NewEntry
<1>2. Shape(b) /\ SameRows(d, b) /\ b.lists = d.lists /\ b.listed = d.listed /\ b.next = d.next
  BY ListsOfIs
<1>3. DOMAIN c = ListFields /\ c.list = to
  <2>1. CASE held = {}
    BY <2>1 DEF ListFields
  <2>2. CASE held # {}
    <3>1. c \in held
      BY <2>2
    <3> QED
      BY <1>2, <3>1 DEF Shape
  <2> QED
    BY <2>1, <2>2
<1> HIDE DEF c
<1>4. DOMAIN grown = ListFields /\ grown.list = to
  BY <1>3 DEF ListFields
<1> HIDE DEF grown
<1>5. \A x \in cents : DOMAIN x = ListFields /\ x.list \in Nat \ {0}
  BY <1>2, <1>4, SaveListShape DEF Shape
<1>6. /\ DOMAIN seen = Models
      /\ \A k \in Models : \A x \in seen[k] : DOMAIN x = ListFields /\ x.list \in Nat \ {0}
      /\ grown \in seen[m]
  BY <1>2, <1>4 DEF Shape
<1>7. DOMAIN next = Models /\ \A k \in Models : next[k] \in Nat
  BY <1>2 DEF Shape
<1>8. listed \in [Ids -> Nat] /\ listed = [d.listed EXCEPT ![i] = to]
  BY <1>2 DEF Shape
<1>9. IsEntry(NewEntry(i, t, v, to))
  BY DEF NewEntry, EntryFields, IsEntry
<1>10. \A x \in lists : IsEntry(x)
  BY <1>2, <1>9 DEF Shape
<1>11. lists = {x \in d.lists : ~(x.model = t.model /\ x.list = to /\ x.id = i)}
                 \cup {NewEntry(i, t, v, to)}
  BY <1>2
<1> HIDE DEF next, lists, listed, cents, seen, held
<1>12. /\ DOMAIN e = Fields /\ e.cents = cents /\ e.seen = seen /\ e.lists = lists
       /\ e.listed = listed /\ e.next = next
  BY <1>2 DEF Shape, Fields
<1>13. SameRows(d, e)
  BY <1>2 DEF Shape, Fields, SameRows
<1> HIDE DEF e, b
<1>14. Shape(e)
  <2>1. e.rows = d.rows
    BY <1>13 DEF SameRows
  <2> QED
    BY <1>5, <1>6, <1>7, <1>8, <1>10, <1>12, <2>1 DEF Shape
<1> QED
  BY <1>1, <1>4, <1>6, <1>8, <1>11, <1>12, <1>13, <1>14

\* How a division moves the entries `moved` of a list to the list `new`.
Divided(d, e, moved, new) ==
    /\ Shape(e) /\ SameRows(d, e)
    /\ e.lists = (d.lists \ moved) \cup {[x EXCEPT !.list = new] : x \in moved}
    /\ e.listed = [i \in Ids |-> IF \E x \in moved : x.id = i THEN new ELSE d.listed[i]]

LEMMA SplitIs ==
  ASSUME NEW d, Shape(d), NEW m \in Models, NEW c \in d.seen[m], NEW far
  PROVE  \/ Split(d, m, c, far) = d
         \/ \E moved \in SUBSET d.lists, new \in Nat \ {0} :
               Divided(d, Split(d, m, c, far), moved, new)
<1> DEFINE members == Members(d, m, c.list)
           moved == {e \in members : e.vec \in far}
           new == d.next[m] + 1
           old == [c EXCEPT !.size = Less(@, Cardinality(moved))]
           fresh == [c EXCEPT !.list = new, !.size = Cardinality(moved)]
           next == [d.next EXCEPT ![m] = new]
           lists == (d.lists \ moved) \cup {[e EXCEPT !.list = new] : e \in moved}
           listed == [i \in Ids |-> IF \E e \in moved : e.id = i THEN new ELSE d.listed[i]]
           cents == SaveList(SaveList(d.cents, old), fresh)
           seen == [d.seen EXCEPT ![m] = (@ \ {c}) \cup {old, fresh}]
           f == [d EXCEPT !.next = next, !.lists = lists, !.listed = listed,
                          !.cents = cents, !.seen = seen]
<1>1. Split(d, m, c, far) = IF moved = {} \/ moved = members THEN d ELSE f
  BY DEF Split
<1>2. moved \subseteq d.lists
  BY DEF Members
<1>3. new \in Nat \ {0}
  BY DEF Shape
<1> HIDE DEF new, moved, members
<1>4. DOMAIN c = ListFields /\ c.list \in Nat \ {0}
  BY DEF Shape
<1>5. DOMAIN old = ListFields /\ old.list \in Nat \ {0}
  BY <1>4 DEF ListFields
<1>6. DOMAIN fresh = ListFields /\ fresh.list \in Nat \ {0}
  BY <1>3, <1>4 DEF ListFields
<1> HIDE DEF old, fresh
<1>7. \A x \in cents : DOMAIN x = ListFields /\ x.list \in Nat \ {0}
  <2>1. \A x \in SaveList(d.cents, old) : DOMAIN x = ListFields /\ x.list \in Nat \ {0}
    BY <1>5, SaveListShape DEF Shape
  <2> QED
    BY <1>6, <2>1, SaveListShape
<1>8. /\ DOMAIN seen = Models
      /\ \A k \in Models : \A x \in seen[k] : DOMAIN x = ListFields /\ x.list \in Nat \ {0}
  BY <1>5, <1>6 DEF Shape
<1>9. DOMAIN next = Models /\ \A k \in Models : next[k] \in Nat
  BY <1>3 DEF Shape
<1>10. listed \in [Ids -> Nat]
  BY <1>3 DEF Shape
<1>11. \A x \in lists : IsEntry(x)
  <2>1. ASSUME NEW e \in moved
        PROVE  IsEntry([e EXCEPT !.list = new])
    BY <1>2, <1>3 DEF Shape, EntryFields, IsEntry
  <2>2. ASSUME NEW x \in lists
        PROVE  IsEntry(x)
    <3>1. CASE x \in d.lists
      BY <3>1 DEF Shape
    <3>2. CASE \E e \in moved : x = [e EXCEPT !.list = new]
      BY <1>3, <2>1, <3>2
    <3> QED
      BY <2>2, <3>1, <3>2
  <2> QED
    BY <2>2
<1>12. lists = (d.lists \ moved) \cup {[x EXCEPT !.list = new] : x \in moved}
       /\ listed = [i \in Ids |-> IF \E x \in moved : x.id = i THEN new ELSE d.listed[i]]
  OBVIOUS
<1> HIDE DEF next, lists, listed, cents, seen
<1>13. /\ DOMAIN f = Fields /\ f.cents = cents /\ f.seen = seen /\ f.lists = lists
       /\ f.listed = listed /\ f.next = next
  BY DEF Shape, Fields
<1>14. SameRows(d, f)
  BY DEF Shape, Fields, SameRows
<1> HIDE DEF f
<1>15. Shape(f)
  <2>1. f.rows = d.rows
    BY <1>14 DEF SameRows
  <2> QED
    BY <1>7, <1>8, <1>9, <1>10, <1>11, <1>13, <2>1 DEF Shape
<1>16. Divided(d, f, moved, new)
  BY <1>12, <1>13, <1>14, <1>15 DEF Divided
<1> QED
  BY <1>1, <1>2, <1>3, <1>16

-----------------------------------------------------------------------------
(* What a step leaves alone.                                               *)

\* An id is filed once.
OneEntry(d) == \A x \in d.lists, y \in d.lists : x.id = y.id => x = y

Good(d) == Shape(d) /\ OneEntry(d) /\ \A i \in Ids : RowIndexed(d, i)

Untouched(d, e, j) ==
    /\ e.rows[j] = d.rows[j] /\ e.listed[j] = d.listed[j]
    /\ {k \in e.text : k[2] = j} = {k \in d.text : k[2] = j}
    /\ {k \in e.created : k[2] = j} = {k \in d.created : k[2] = j}
    /\ {k \in e.model : k[2] = j} = {k \in d.model : k[2] = j}
    /\ {k \in e.labile : k[2] = j} = {k \in d.labile : k[2] = j}
    /\ {b \in e.band : b.id = j} = {b \in d.band : b.id = j}
    /\ {x \in e.lists : x.id = j} = {x \in d.lists : x.id = j}

Changes(d, e, i) == Shape(e) /\ OneEntry(e) /\ \A j \in Ids \ {i} : Untouched(d, e, j)

LEMMA IndexedStays ==
  ASSUME NEW d, NEW e, NEW j, Untouched(d, e, j), NEW t, IndexedAs(d, j, t)
  PROVE  IndexedAs(e, j, t)
  BY DEF Untouched, IndexedAs

LEMMA UntouchedStays ==
  ASSUME NEW d, NEW e, NEW j, Untouched(d, e, j), RowIndexed(d, j)
  PROVE  RowIndexed(e, j) /\ TraceOf(e, j) = TraceOf(d, j)
<1>1. Found(e, j) <=> Found(d, j)
  BY DEF Untouched, Found
<1>2. CASE Found(d, j)
  <2>1. RowIndexed(e, j)
    BY <1>1, <1>2, IndexedStays DEF RowIndexed, Untouched
  <2> DEFINE A == {x \in d.lists : x.id = j /\ x.model = d.rows[j].model
                                        /\ x.list = d.listed[j] /\ x.vec # Damaged}
               B == {x \in e.lists : x.id = j /\ x.model = e.rows[j].model
                                        /\ x.list = e.listed[j] /\ x.vec # Damaged}
  <2>3. TraceOf(e, j) = TraceOf(d, j)
    <3>1. A = B
      BY DEF Untouched
    <3>2. TraceOf(d, j) = WithVec(d.rows[j], IF A = {} THEN NoVec ELSE (CHOOSE x \in A : TRUE).vec)
      BY <1>2 DEF TraceOf
    <3>3. TraceOf(e, j) = WithVec(e.rows[j], IF B = {} THEN NoVec ELSE (CHOOSE x \in B : TRUE).vec)
      BY <1>1, <1>2 DEF TraceOf
    <3>4. e.rows[j] = d.rows[j]
      BY DEF Untouched
    <3> HIDE DEF A, B
    <3> QED
      BY <3>1, <3>2, <3>3, <3>4
  <2> QED
    BY <2>1, <2>3
<1>3. CASE ~Found(d, j)
  <2>1. TraceOf(e, j) = TraceOf(d, j)
    BY <1>1, <1>3 DEF TraceOf, Untouched
  <2>2. CASE d.rows[j] = Absent
    <3>1. NotIndexed(d, j)
      BY <1>3, <2>2 DEF RowIndexed
    <3>2. NotIndexed(e, j)
      BY <3>1 DEF NotIndexed, Untouched
    <3> QED
      BY <1>1, <1>3, <2>1, <2>2, <3>2 DEF RowIndexed, Untouched
  <2>3. CASE d.rows[j] # Absent
    <3>1. PICK t \in Row : IndexedAs(d, j, t)
      BY <1>3, <2>3 DEF RowIndexed
    <3> QED
      BY <1>1, <1>3, <2>1, <2>3, <3>1, IndexedStays DEF RowIndexed, Untouched
  <2> QED
    BY <2>2, <2>3
<1> QED
  BY <1>2, <1>3

\* What a reader gets for a trace that is filed, and for one that is not.
LEMMA TraceWith ==
  ASSUME NEW d, NEW i, OneEntry(d), Found(d, i), IndexedAs(d, i, d.rows[i]),
         NEW x \in d.lists, x.id = i
  PROVE  TraceOf(d, i) = WithVec(d.rows[i], IF x.vec = Damaged THEN NoVec ELSE x.vec)
<1> DEFINE filed == {e \in d.lists : e.id = i /\ e.model = d.rows[i].model
                                        /\ e.list = d.listed[i] /\ e.vec # Damaged}
<1>1. filed = IF x.vec = Damaged THEN {} ELSE {x}
  BY DEF OneEntry, IndexedAs
<1>2. TraceOf(d, i) = WithVec(d.rows[i], IF filed = {} THEN NoVec ELSE (CHOOSE e \in filed : TRUE).vec)
  BY DEF TraceOf
<1> HIDE DEF filed
<1>3. x.vec # Damaged => (CHOOSE e \in filed : TRUE) = x
  BY <1>1
<1> QED
  BY <1>1, <1>2, <1>3

LEMMA TraceWithout ==
  ASSUME NEW d, NEW i, Found(d, i), \A x \in d.lists : x.id # i
  PROVE  TraceOf(d, i) = WithVec(d.rows[i], NoVec)
<1> DEFINE filed == {e \in d.lists : e.id = i /\ e.model = d.rows[i].model
                                        /\ e.list = d.listed[i] /\ e.vec # Damaged}
<1>1. filed = {}
  OBVIOUS
<1>2. TraceOf(d, i) = WithVec(d.rows[i], IF filed = {} THEN NoVec ELSE (CHOOSE e \in filed : TRUE).vec)
  BY DEF TraceOf
<1> HIDE DEF filed
<1> QED
  BY <1>1, <1>2

-----------------------------------------------------------------------------
(* Taking a row out.                                                       *)

LEMMA DropStateIs ==
  ASSUME NEW d, Shape(d), NEW i, NEW t
  PROVE  LET e == DropState(d, i, t)
         IN  /\ Shape(e)
             /\ e.rows = d.rows /\ e.text = d.text /\ e.created = d.created /\ e.model = d.model
             /\ e.listed = d.listed /\ e.lists = d.lists /\ e.count = d.count
             /\ e.labile = d.labile \ {<<t.model, i>>}
             /\ e.band = {b \in d.band : ~(b.band = t.st.band /\ b.last = t.st.last /\ b.id = i)}
<1> DEFINE labile == d.labile \ {<<t.model, i>>}
           band == {b \in d.band : ~(b.band = t.st.band /\ b.last = t.st.last /\ b.id = i)}
           e == [d EXCEPT !.labile = labile, !.band = band]
<1>1. DropState(d, i, t) = e
  BY DEF DropState
<1> HIDE DEF labile, band
<1>2. /\ DOMAIN e = Fields
      /\ e.rows = d.rows /\ e.text = d.text /\ e.created = d.created /\ e.model = d.model
      /\ e.listed = d.listed /\ e.lists = d.lists /\ e.count = d.count
      /\ e.next = d.next /\ e.seen = d.seen /\ e.cents = d.cents
      /\ e.labile = labile /\ e.band = band
  BY DEF Shape, Fields
<1> HIDE DEF e
<1>3. Shape(e)
  BY <1>2 DEF Shape
<1> QED
  BY <1>1, <1>2, <1>3 DEF labile, band

LEMMA PutStateSame ==
  ASSUME NEW d, Shape(d), NEW i \in Ids, NEW t \in Row
  PROVE  LET e == PutState(d, i, t)
         IN  /\ Shape(e)
             /\ e.text = d.text /\ e.created = d.created /\ e.model = d.model
             /\ e.listed = d.listed /\ e.lists = d.lists /\ e.count = d.count
<1> DEFINE rows == [d.rows EXCEPT ![i] = t]
           labile == IF t.st.con THEN d.labile ELSE d.labile \cup {<<t.model, i>>}
           band == {b \in d.band : ~(b.band = t.st.band /\ b.last = t.st.last /\ b.id = i)}
                      \cup {[band |-> t.st.band, last |-> t.st.last, id |-> i, created |-> t.created]}
           e == [d EXCEPT !.rows = rows, !.labile = labile, !.band = band]
<1>1. PutState(d, i, t) = e
  BY DEF PutState
<1>2. rows \in [Ids -> Row \cup {Absent, Damaged}]
  BY DEF Shape
<1> HIDE DEF rows, labile, band
<1>3. /\ DOMAIN e = Fields
      /\ e.rows = rows /\ e.text = d.text /\ e.created = d.created /\ e.model = d.model
      /\ e.listed = d.listed /\ e.lists = d.lists /\ e.count = d.count
      /\ e.next = d.next /\ e.seen = d.seen /\ e.cents = d.cents
      /\ e.labile = labile /\ e.band = band
  BY DEF Shape, Fields
<1> HIDE DEF e
<1>4. Shape(e)
  BY <1>2, <1>3 DEF Shape
<1> QED
  BY <1>1, <1>3, <1>4

LEMMA PutStateIs ==
  ASSUME NEW d, Shape(d), NEW i \in Ids, NEW t \in Row
  PROVE  LET e == PutState(d, i, t)
         IN  /\ Shape(e)
             /\ e.rows = [d.rows EXCEPT ![i] = t]
             /\ e.text = d.text /\ e.created = d.created /\ e.model = d.model
             /\ e.listed = d.listed /\ e.lists = d.lists /\ e.count = d.count
             /\ e.labile = IF t.st.con THEN d.labile ELSE d.labile \cup {<<t.model, i>>}
             /\ e.band = {b \in d.band : ~(b.band = t.st.band /\ b.last = t.st.last /\ b.id = i)}
                           \cup {[band |-> t.st.band, last |-> t.st.last,
                                  id |-> i, created |-> t.created]}
<1> DEFINE rows == [d.rows EXCEPT ![i] = t]
           labile == IF t.st.con THEN d.labile ELSE d.labile \cup {<<t.model, i>>}
           band == {b \in d.band : ~(b.band = t.st.band /\ b.last = t.st.last /\ b.id = i)}
                      \cup {[band |-> t.st.band, last |-> t.st.last, id |-> i, created |-> t.created]}
           e == [d EXCEPT !.rows = rows, !.labile = labile, !.band = band]
<1>1. PutState(d, i, t) = e
  BY DEF PutState
<1>2. rows \in [Ids -> Row \cup {Absent, Damaged}]
  BY DEF Shape
<1> HIDE DEF rows, labile, band
<1>3. /\ DOMAIN e = Fields
      /\ e.rows = rows /\ e.text = d.text /\ e.created = d.created /\ e.model = d.model
      /\ e.listed = d.listed /\ e.lists = d.lists /\ e.count = d.count
      /\ e.next = d.next /\ e.seen = d.seen /\ e.cents = d.cents
      /\ e.labile = labile /\ e.band = band
  BY DEF Shape, Fields
<1> HIDE DEF e
<1>4. Shape(e)
  BY <1>2, <1>3 DEF Shape
<1> QED
  BY <1>1, <1>3, <1>4 DEF rows, labile, band

\* What is left of a row that a write takes out.
GoneFrom(d, e, i) ==
    Changes(d, e, i) /\ NotIndexed(e, i) /\ e.rows[i] = Absent /\ e.count = d.count

\* Only lists of id i change in Unlist.
LEMMA UnlistOther ==
  ASSUME NEW d, Shape(d), OneEntry(d), NEW i \in Ids, NEW m \in Models
  PROVE  LET e == Unlist(d, i, m)
         IN  /\ OneEntry(e) /\ e.listed[i] = 0
             /\ \A j \in Ids \ {i} : /\ e.listed[j] = d.listed[j]
                                     /\ {x \in e.lists : x.id = j} = {x \in d.lists : x.id = j}
             /\ (\A x \in d.lists : x.id = i => x.model = m /\ x.list = d.listed[i]) =>
                    \A x \in e.lists : x.id # i
<1> DEFINE e == Unlist(d, i, m)
<1>1. /\ e.listed = [d.listed EXCEPT ![i] = 0]
      /\ e.lists = IF d.listed[i] = 0 THEN d.lists
                   ELSE {x \in d.lists : ~(x.model = m /\ x.list = d.listed[i] /\ x.id = i)}
  BY UnlistIs
<1> HIDE DEF e
<1>2. e.lists \subseteq d.lists /\ \A x \in d.lists : x.id # i => x \in e.lists
  BY <1>1
<1>3. OneEntry(e)
  BY <1>2 DEF OneEntry
<1>4. e.listed[i] = 0 /\ \A j \in Ids \ {i} : e.listed[j] = d.listed[j]
  BY <1>1 DEF Shape
<1>5. ASSUME NEW j \in Ids \ {i}
      PROVE  {x \in e.lists : x.id = j} = {x \in d.lists : x.id = j}
  BY <1>2
<1>6. ASSUME \A x \in d.lists : x.id = i => x.model = m /\ x.list = d.listed[i], NEW x \in e.lists
      PROVE  x.id # i
  BY <1>1, <1>6 DEF Shape, IsEntry
<1> QED
  BY <1>3, <1>4, <1>5, <1>6 DEF e

LEMMA UnlinkIs ==
  ASSUME NEW d, Good(d), NEW i \in Ids, Found(d, i)
  PROVE  GoneFrom(d, Unlink(d, i), i)
<1> DEFINE t == d.rows[i]
           a == DropState(d, i, t)
           rows == [a.rows EXCEPT ![i] = Absent]
           text == a.text \ {<<t.text, i>>}
           created == a.created \ {<<t.created, i>>}
           b == [a EXCEPT !.rows = rows, !.text = text, !.created = created]
           model == b.model \ {<<t.model, i>>}
           c == [b EXCEPT !.model = model]
           e == Unlist(c, i, t.model)
<1>1. Unlink(d, i) = e
  BY DEF Unlink, Unindex
<1>2. Shape(d) /\ OneEntry(d) /\ t \in Row /\ IndexedAs(d, i, t)
  BY DEF Good, Found, Shape, RowIndexed
<1>3. t.model \in Models
  BY <1>2 DEF Row
<1> HIDE DEF t
<1>4. /\ Shape(a)
      /\ a.rows = d.rows /\ a.text = d.text /\ a.created = d.created /\ a.model = d.model
      /\ a.listed = d.listed /\ a.lists = d.lists /\ a.count = d.count
      /\ a.labile = d.labile \ {<<t.model, i>>}
      /\ a.band = {k \in d.band : ~(k.band = t.st.band /\ k.last = t.st.last /\ k.id = i)}
  BY <1>2, DropStateIs
<1>5. rows \in [Ids -> Row \cup {Absent, Damaged}] /\ rows[i] = Absent
      /\ \A j \in Ids \ {i} : rows[j] = d.rows[j]
  BY <1>4 DEF Shape
<1>6. text = d.text \ {<<t.text, i>>} /\ created = d.created \ {<<t.created, i>>}
  BY <1>4
<1> HIDE DEF a, rows, text, created
<1>7. /\ DOMAIN b = Fields /\ b.rows = rows /\ b.text = text /\ b.created = created
      /\ b.model = a.model /\ b.labile = a.labile /\ b.band = a.band /\ b.count = a.count
      /\ b.listed = a.listed /\ b.lists = a.lists /\ b.next = a.next /\ b.seen = a.seen
      /\ b.cents = a.cents
  BY <1>4 DEF Shape, Fields
<1>8. model = d.model \ {<<t.model, i>>}
  BY <1>4, <1>7
<1> HIDE DEF b, model
<1>9. /\ DOMAIN c = Fields /\ c.rows = rows /\ c.text = text /\ c.created = created
      /\ c.model = model /\ c.labile = a.labile /\ c.band = a.band /\ c.count = a.count
      /\ c.listed = a.listed /\ c.lists = a.lists /\ c.next = a.next /\ c.seen = a.seen
      /\ c.cents = a.cents
  BY <1>7 DEF Fields
<1> HIDE DEF c
<1>10. Shape(c) /\ OneEntry(c)
  BY <1>2, <1>4, <1>5, <1>9 DEF Shape, OneEntry
<1>11. Shape(e) /\ SameRows(c, e)
  BY <1>3, <1>10, UnlistIs
<1>12. /\ OneEntry(e) /\ e.listed[i] = 0
       /\ \A j \in Ids \ {i} : /\ e.listed[j] = d.listed[j]
                               /\ {x \in e.lists : x.id = j} = {x \in d.lists : x.id = j}
       /\ \A x \in e.lists : x.id # i
  <2>1. \A x \in c.lists : x.id = i => x.model = t.model /\ x.list = c.listed[i]
    BY <1>2, <1>4, <1>9 DEF IndexedAs
  <2> QED
    BY <1>3, <1>4, <1>9, <1>10, <2>1, UnlistOther
<1> HIDE DEF e
<1>13. /\ e.rows = rows /\ e.text = d.text \ {<<t.text, i>>}
       /\ e.created = d.created \ {<<t.created, i>>} /\ e.model = d.model \ {<<t.model, i>>}
       /\ e.labile = d.labile \ {<<t.model, i>>} /\ e.count = d.count
       /\ e.band = {k \in d.band : ~(k.band = t.st.band /\ k.last = t.st.last /\ k.id = i)}
  BY <1>4, <1>6, <1>8, <1>9, <1>11 DEF SameRows
<1>14. NotIndexed(e, i)
  <2>1. \A k \in e.text : k[2] # i
    BY <1>2, <1>13 DEF IndexedAs
  <2>2. \A k \in e.created : k[2] # i
    BY <1>2, <1>13 DEF IndexedAs
  <2>3. \A k \in e.model : k[2] # i
    BY <1>2, <1>13 DEF IndexedAs
  <2>4. \A k \in e.labile : k[2] # i
    BY <1>2, <1>13 DEF IndexedAs
  <2>5. ASSUME NEW k \in e.band, k.id = i
        PROVE  FALSE
    <3>1. k \in {x \in d.band : x.id = i}
      BY <1>13, <2>5
    <3>2. k = [band |-> t.st.band, last |-> t.st.last, id |-> i, created |-> t.created]
      BY <1>2, <3>1 DEF IndexedAs
    <3>3. k.band = t.st.band /\ k.last = t.st.last
      BY <3>2
    <3> QED
      BY <1>13, <2>5, <3>3
  <2> QED
    BY <1>12, <2>1, <2>2, <2>3, <2>4, <2>5 DEF NotIndexed
<1>15. ASSUME NEW j \in Ids \ {i}
       PROVE  Untouched(d, e, j)
  <2>1. {k \in e.text : k[2] = j} = {k \in d.text : k[2] = j}
    BY <1>13
  <2>2. {k \in e.created : k[2] = j} = {k \in d.created : k[2] = j}
    BY <1>13
  <2>3. {k \in e.model : k[2] = j} = {k \in d.model : k[2] = j}
    BY <1>13
  <2>4. {k \in e.labile : k[2] = j} = {k \in d.labile : k[2] = j}
    BY <1>13
  <2>5. {k \in e.band : k.id = j} = {k \in d.band : k.id = j}
    BY <1>13
  <2> QED
    BY <1>5, <1>12, <1>13, <2>1, <2>2, <2>3, <2>4, <2>5 DEF Untouched
<1>16. e.rows[i] = Absent
  BY <1>5, <1>13
<1>17. Changes(d, e, i)
  BY <1>11, <1>12, <1>15 DEF Changes
<1> QED
  BY <1>1, <1>13, <1>14, <1>16, <1>17 DEF GoneFrom

LEMMA PurgeIs ==
  ASSUME NEW d, Good(d), NEW i \in Ids, d.rows[i] = Damaged
  PROVE  GoneFrom(d, Purge(d, i), i)
<1> DEFINE named == {m \in Models : <<m, i>> \in d.model}
           out == IF named = {} THEN d ELSE Unlist(d, i, CHOOSE m \in named : TRUE)
           rows == [out.rows EXCEPT ![i] = Absent]
           model == {k \in out.model : k[2] # i}
           labile == {k \in out.labile : k[2] # i}
           text == {k \in out.text : k[2] # i}
           created == {k \in out.created : k[2] # i}
           band == {b \in out.band : b.id # i}
           listed == [out.listed EXCEPT ![i] = 0]
           e == [out EXCEPT !.rows = rows, !.model = model, !.labile = labile, !.text = text,
                            !.created = created, !.band = band, !.listed = listed]
<1>1. Purge(d, i) = e
  BY DEF Purge
<1>2. PICK t \in Row : IndexedAs(d, i, t)
  BY DistinctValues DEF Good, RowIndexed, Found
<1>3. Shape(d) /\ OneEntry(d) /\ t.model \in Models
  BY DEF Good, Row
<1>4. named = {t.model}
  <2>1. \A m : <<m, i>> \in d.model <=> <<m, i>> = <<t.model, i>>
    BY <1>2 DEF IndexedAs
  <2> QED
    BY <1>3, <2>1
<1> HIDE DEF named
<1>5. out = Unlist(d, i, t.model)
  BY <1>4
<1> HIDE DEF out
<1>6. Shape(out) /\ SameRows(d, out)
  BY <1>3, <1>5, UnlistIs
<1>7. /\ OneEntry(out) /\ out.listed[i] = 0
      /\ \A j \in Ids \ {i} : /\ out.listed[j] = d.listed[j]
                              /\ {x \in out.lists : x.id = j} = {x \in d.lists : x.id = j}
      /\ \A x \in out.lists : x.id # i
  <2>1. \A x \in d.lists : x.id = i => x.model = t.model /\ x.list = d.listed[i]
    BY <1>2 DEF IndexedAs
  <2> QED
    BY <1>3, <1>5, <2>1, UnlistOther
<1>8. rows \in [Ids -> Row \cup {Absent, Damaged}] /\ rows[i] = Absent
      /\ \A j \in Ids \ {i} : rows[j] = d.rows[j]
  BY <1>6 DEF Shape, SameRows
<1>9. listed \in [Ids -> Nat] /\ listed[i] = 0 /\ \A j \in Ids \ {i} : listed[j] = out.listed[j]
  BY <1>6 DEF Shape
<1>10. /\ model = {k \in d.model : k[2] # i} /\ labile = {k \in d.labile : k[2] # i}
       /\ text = {k \in d.text : k[2] # i} /\ created = {k \in d.created : k[2] # i}
       /\ band = {b \in d.band : b.id # i}
  BY <1>6 DEF SameRows
<1> HIDE DEF rows, model, labile, text, created, band, listed
<1>11. /\ DOMAIN e = Fields /\ e.rows = rows /\ e.model = model /\ e.labile = labile
       /\ e.text = text /\ e.created = created /\ e.band = band /\ e.listed = listed
       /\ e.lists = out.lists /\ e.count = out.count /\ e.next = out.next
       /\ e.seen = out.seen /\ e.cents = out.cents
  BY <1>6 DEF Shape, Fields
<1> HIDE DEF e
<1>12. Shape(e) /\ OneEntry(e)
  BY <1>6, <1>7, <1>8, <1>9, <1>11 DEF Shape, OneEntry
<1>13. NotIndexed(e, i)
  BY <1>7, <1>9, <1>10, <1>11 DEF NotIndexed
<1>14. ASSUME NEW j \in Ids \ {i}
       PROVE  Untouched(d, e, j)
  <2>1. /\ {k \in e.text : k[2] = j} = {k \in d.text : k[2] = j}
        /\ {k \in e.created : k[2] = j} = {k \in d.created : k[2] = j}
    BY <1>10, <1>11
  <2>2. /\ {k \in e.model : k[2] = j} = {k \in d.model : k[2] = j}
        /\ {k \in e.labile : k[2] = j} = {k \in d.labile : k[2] = j}
    BY <1>10, <1>11
  <2>3. {k \in e.band : k.id = j} = {k \in d.band : k.id = j}
    BY <1>10, <1>11
  <2> QED
    BY <1>7, <1>8, <1>9, <1>11, <2>1, <2>2, <2>3 DEF Untouched
<1>15. e.rows[i] = Absent /\ e.count = d.count
  BY <1>6, <1>8, <1>11 DEF SameRows
<1> QED
  BY <1>1, <1>12, <1>13, <1>14, <1>15 DEF GoneFrom, Changes

LEMMA ClearedIs ==
  ASSUME NEW d, Good(d), NEW i \in Ids
  PROVE  GoneFrom(d, Cleared(d, i), i)
<1>1. CASE Found(d, i)
  BY <1>1, UnlinkIs DEF Cleared
<1>2. CASE d.rows[i] = Damaged
  BY <1>2, PurgeIs DEF Cleared, Found
<1>3. CASE d.rows[i] = Absent
  <2>1. Cleared(d, i) = d
    BY <1>3, DistinctValues DEF Cleared, Found
  <2>2. \A j \in Ids : Untouched(d, d, j)
    BY DEF Untouched
  <2>3. NotIndexed(d, i)
    BY <1>3 DEF Good, RowIndexed, Found
  <2> QED
    BY <1>3, <2>1, <2>2, <2>3 DEF GoneFrom, Changes, Good
<1> QED
  BY <1>1, <1>2, <1>3 DEF Found

-----------------------------------------------------------------------------
(* Putting a row in.                                                       *)

LEMMA DropStateAt ==
  ASSUME NEW d, Shape(d), NEW i, NEW t, IndexedAs(d, i, t)
  PROVE  LET e == DropState(d, i, t)
         IN  /\ \A k \in e.labile : k[2] # i
             /\ \A b \in e.band : b.id # i
             /\ \A j \in Ids \ {i} :
                   /\ {k \in e.labile : k[2] = j} = {k \in d.labile : k[2] = j}
                   /\ {b \in e.band : b.id = j} = {b \in d.band : b.id = j}
<1> DEFINE e == DropState(d, i, t)
<1>1. /\ e.labile = d.labile \ {<<t.model, i>>}
      /\ e.band = {b \in d.band : ~(b.band = t.st.band /\ b.last = t.st.last /\ b.id = i)}
  BY DropStateIs
<1> HIDE DEF e
<1>2. \A k \in e.labile : k[2] # i
  BY <1>1 DEF IndexedAs
<1>3. ASSUME NEW b \in e.band, b.id = i
      PROVE  FALSE
  <2>1. b \in {x \in d.band : x.id = i}
    BY <1>1, <1>3
  <2>2. b = [band |-> t.st.band, last |-> t.st.last, id |-> i, created |-> t.created]
    BY <2>1 DEF IndexedAs
  <2>3. b.band = t.st.band /\ b.last = t.st.last
    BY <2>2
  <2> QED
    BY <1>1, <1>3, <2>3
<1>4. ASSUME NEW j \in Ids \ {i}
      PROVE  {k \in e.labile : k[2] = j} = {k \in d.labile : k[2] = j}
  BY <1>1
<1>5. ASSUME NEW j \in Ids \ {i}
      PROVE  {b \in e.band : b.id = j} = {b \in d.band : b.id = j}
  BY <1>1
<1> QED
  BY <1>2, <1>3, <1>4, <1>5 DEF e

LEMMA PutStateAt ==
  ASSUME NEW d, Shape(d), NEW i \in Ids, NEW t \in Row,
         \A k \in d.labile : k[2] # i, \A b \in d.band : b.id # i
  PROVE  LET e == PutState(d, i, t)
         IN  /\ e.rows[i] = t /\ \A j \in Ids \ {i} : e.rows[j] = d.rows[j]
             /\ {k \in e.labile : k[2] = i} = (IF t.st.con THEN {} ELSE {<<t.model, i>>})
             /\ {b \in e.band : b.id = i} = {[band |-> t.st.band, last |-> t.st.last,
                                              id |-> i, created |-> t.created]}
             /\ \A j \in Ids \ {i} :
                   /\ {k \in e.labile : k[2] = j} = {k \in d.labile : k[2] = j}
                   /\ {b \in e.band : b.id = j} = {b \in d.band : b.id = j}
<1> DEFINE e == PutState(d, i, t)
           key == [band |-> t.st.band, last |-> t.st.last, id |-> i, created |-> t.created]
<1>1. /\ e.rows = [d.rows EXCEPT ![i] = t]
      /\ e.labile = IF t.st.con THEN d.labile ELSE d.labile \cup {<<t.model, i>>}
      /\ e.band = {b \in d.band : ~(b.band = t.st.band /\ b.last = t.st.last /\ b.id = i)}
                    \cup {key}
  BY PutStateIs
<1>2. key.id = i
  OBVIOUS
<1> HIDE DEF e, key
<1>3. e.rows[i] = t /\ \A j \in Ids \ {i} : e.rows[j] = d.rows[j]
  BY <1>1 DEF Shape
<1>4. {k \in e.labile : k[2] = i} = (IF t.st.con THEN {} ELSE {<<t.model, i>>})
  BY <1>1
<1>5. {b \in e.band : b.id = i} = {key}
  BY <1>1, <1>2
<1>6. ASSUME NEW j \in Ids \ {i}
      PROVE  {k \in e.labile : k[2] = j} = {k \in d.labile : k[2] = j}
  BY <1>1
<1>7. ASSUME NEW j \in Ids \ {i}
      PROVE  {b \in e.band : b.id = j} = {b \in d.band : b.id = j}
  BY <1>1, <1>2
<1> QED
  BY <1>3, <1>4, <1>5, <1>6, <1>7 DEF e, key

\* A row whose text, time and state are indexed, and its model and vector not yet.
StatedAs(d, i, t) ==
    /\ Shape(d) /\ OneEntry(d) /\ t \in Row /\ d.rows[i] = t
    /\ {k \in d.text : k[2] = i} = {<<t.text, i>>}
    /\ {k \in d.created : k[2] = i} = {<<t.created, i>>}
    /\ {k \in d.labile : k[2] = i} = (IF t.st.con THEN {} ELSE {<<t.model, i>>})
    /\ {b \in d.band : b.id = i} = {[band |-> t.st.band, last |-> t.st.last,
                                     id |-> i, created |-> t.created]}
    /\ \A k \in d.model : k[2] # i
    /\ d.listed[i] = 0 /\ \A x \in d.lists : x.id # i

\* Row t of id i is in every index, its vector v is filed, and nothing else changed.
Placed(d, e, i, t, v) ==
    /\ Changes(d, e, i)
    /\ e.rows[i] = t /\ Found(e, i) /\ IndexedAs(e, i, t)
    /\ TraceOf(e, i) = WithVec(t, v)
    /\ e.count = d.count
    /\ v # NoVec => \E c \in e.seen[t.model] : c.list = e.listed[i]

Named(d, i, t) == [d EXCEPT !.model = @ \cup {<<t.model, i>>}]

LEMMA NamedIs ==
  ASSUME NEW d, NEW i \in Ids, NEW t, StatedAs(d, i, t)
  PROVE  LET e == Named(d, i, t)
         IN  /\ Shape(e) /\ OneEntry(e)
             /\ e.rows = d.rows /\ e.text = d.text /\ e.created = d.created
             /\ e.labile = d.labile /\ e.band = d.band /\ e.count = d.count
             /\ e.listed = d.listed /\ e.lists = d.lists
             /\ {k \in e.model : k[2] = i} = {<<t.model, i>>}
             /\ \A j \in Ids \ {i} : {k \in e.model : k[2] = j} = {k \in d.model : k[2] = j}
<1> DEFINE model == d.model \cup {<<t.model, i>>}
           e == [d EXCEPT !.model = model]
<1>1. {k \in model : k[2] = i} = {<<t.model, i>>}
  BY DEF StatedAs
<1>2. ASSUME NEW j \in Ids \ {i}
      PROVE  {k \in model : k[2] = j} = {k \in d.model : k[2] = j}
  OBVIOUS
<1> HIDE DEF model
<1>3. /\ DOMAIN e = Fields /\ e.model = model
      /\ e.rows = d.rows /\ e.text = d.text /\ e.created = d.created
      /\ e.labile = d.labile /\ e.band = d.band /\ e.count = d.count
      /\ e.listed = d.listed /\ e.lists = d.lists
      /\ e.next = d.next /\ e.seen = d.seen /\ e.cents = d.cents
  BY DEF StatedAs, Shape, Fields
<1> HIDE DEF e
<1>4. Shape(e) /\ OneEntry(e)
  BY <1>3 DEF StatedAs, Shape, OneEntry
<1>5. Named(d, i, t) = e
  BY DEF Named, e, model
<1> QED
  BY <1>1, <1>2, <1>3, <1>4, <1>5

LEMMA IndexIs ==
  ASSUME NEW d, NEW i \in Ids, NEW t, StatedAs(d, i, t), NEW v \in Vector,
         NEW to, v # NoVec => to \in Nat \ {0}
  PROVE  Placed(d, Index(d, i, t, v, to), i, t, v)
<1> DEFINE named == Named(d, i, t)
<1>1. /\ Shape(named) /\ OneEntry(named)
      /\ named.rows = d.rows /\ named.text = d.text /\ named.created = d.created
      /\ named.labile = d.labile /\ named.band = d.band /\ named.count = d.count
      /\ named.listed = d.listed /\ named.lists = d.lists
      /\ {k \in named.model : k[2] = i} = {<<t.model, i>>}
      /\ \A j \in Ids \ {i} : {k \in named.model : k[2] = j} = {k \in d.model : k[2] = j}
  BY NamedIs
<1>2. Index(d, i, t, v, to) = IF v = NoVec THEN named ELSE Filed(named, i, t, v, to)
  BY DEF Index, Named
<1> HIDE DEF named
<1>3. t \in Row /\ t.model \in Models /\ t \notin {Absent, Damaged}
  BY AbsentIsNoTrace DEF StatedAs, Row
<1>4. CASE v = NoVec
  <2>1. \A j \in Ids \ {i} : Untouched(d, named, j)
    BY <1>1 DEF Untouched
  <2>2. IndexedAs(named, i, t)
    BY <1>1 DEF StatedAs, IndexedAs
  <2>3. Found(named, i)
    BY <1>1, <1>3 DEF StatedAs, Found
  <2>4. TraceOf(named, i) = WithVec(named.rows[i], NoVec)
    BY <1>1, <2>3, TraceWithout DEF StatedAs
  <2> QED
    BY <1>1, <1>2, <1>4, <2>1, <2>2, <2>3, <2>4 DEF Placed, Changes, StatedAs
<1>5. CASE v # NoVec
  <2> DEFINE e == Filed(named, i, t, v, to)
             x == NewEntry(i, t, v, to)
  <2> HIDE DEF x
  <2>0. to \in Nat \ {0}
    BY <1>5
  <2>1. /\ Shape(e) /\ SameRows(named, e)
        /\ e.listed = [named.listed EXCEPT ![i] = to]
        /\ e.lists = {y \in named.lists : ~(y.model = t.model /\ y.list = to /\ y.id = i)} \cup {x}
        /\ \E y \in e.seen[t.model] : y.list = to
    <3>1. Shape(named) /\ t.model \in Models /\ v \in Vecs
      BY <1>1, <1>3, <1>5 DEF Vector
    <3> QED
      BY <2>0, <3>1, FiledIs DEF x
  <2>2. /\ x.id = i /\ x.model = t.model /\ x.list = to /\ x.created = t.created /\ x.vec = v
    BY DEF NewEntry, x
  <2> HIDE DEF e
  <2>3. e.lists = d.lists \cup {x} /\ \A y \in d.lists : y.id # i
    BY <1>1, <2>1 DEF StatedAs
  <2>4. OneEntry(e)
    BY <2>2, <2>3 DEF OneEntry, StatedAs
  <2>5. e.listed[i] = to /\ \A j \in Ids \ {i} : e.listed[j] = d.listed[j]
    BY <1>1, <2>1 DEF Shape
  <2>6. ASSUME NEW j \in Ids \ {i}
        PROVE  Untouched(d, e, j)
    <3>1. {y \in e.lists : y.id = j} = {y \in d.lists : y.id = j}
      BY <2>2, <2>3
    <3> QED
      BY <1>1, <2>1, <2>5, <3>1 DEF Untouched, SameRows
  <2>7. IndexedAs(e, i, t)
    <3>1. \A y \in e.lists : y.id = i => y.model = t.model /\ y.list = e.listed[i] /\ y.created = t.created
      BY <2>2, <2>3, <2>5
    <3>2. \E y \in e.lists : y.id = i
      BY <2>2, <2>3
    <3>3. /\ {k \in e.text : k[2] = i} = {<<t.text, i>>}
          /\ {k \in e.created : k[2] = i} = {<<t.created, i>>}
          /\ {k \in e.labile : k[2] = i} = (IF t.st.con THEN {} ELSE {<<t.model, i>>})
          /\ {b \in e.band : b.id = i} = {[band |-> t.st.band, last |-> t.st.last,
                                           id |-> i, created |-> t.created]}
          /\ {k \in e.model : k[2] = i} = {<<t.model, i>>}
      BY <1>1, <2>1 DEF StatedAs, SameRows
    <3> QED
      BY <3>1, <3>2, <3>3 DEF IndexedAs
  <2>8. e.rows[i] = t /\ Found(e, i)
    BY <1>1, <1>3, <2>1 DEF StatedAs, SameRows, Found
  <2>9. v # Damaged
    BY <1>5, DistinctValues DEF Vector
  <2>10. TraceOf(e, i) = WithVec(t, v)
    BY <2>2, <2>3, <2>4, <2>7, <2>8, <2>9, TraceWith
  <2>11. e.count = d.count
    BY <1>1, <2>1 DEF SameRows
  <2>12. Placed(d, e, i, t, v)
    BY <2>1, <2>4, <2>5, <2>6, <2>7, <2>8, <2>10, <2>11 DEF Placed, Changes
  <2> QED
    BY <1>2, <1>5, <2>12 DEF e
<1> QED
  BY <1>4, <1>5

LEMMA UntouchedTwice ==
  ASSUME NEW d, NEW e, NEW f, NEW j, Untouched(d, e, j), Untouched(e, f, j)
  PROVE  Untouched(d, f, j)
  BY DEF Untouched

LEMMA LinkIs ==
  ASSUME NEW d, Shape(d), OneEntry(d), NEW i \in Ids, NotIndexed(d, i), NEW t \in Row,
         NEW v \in Vector, NEW to, v # NoVec => to \in Nat \ {0}
  PROVE  Placed(d, Link(d, i, t, v, to), i, t, v)
<1> DEFINE stated == PutState(d, i, t)
           text == stated.text \cup {<<t.text, i>>}
           created == stated.created \cup {<<t.created, i>>}
           linked == [stated EXCEPT !.text = text, !.created = created]
           e == Index(linked, i, t, v, to)
<1>1. Link(d, i, t, v, to) = e
  BY DEF Link
<1>2. /\ Shape(stated)
      /\ stated.text = d.text /\ stated.created = d.created /\ stated.model = d.model
      /\ stated.listed = d.listed /\ stated.lists = d.lists /\ stated.count = d.count
  BY PutStateSame
<1>3. /\ stated.rows[i] = t /\ \A j \in Ids \ {i} : stated.rows[j] = d.rows[j]
      /\ {k \in stated.labile : k[2] = i} = (IF t.st.con THEN {} ELSE {<<t.model, i>>})
      /\ {b \in stated.band : b.id = i} = {[band |-> t.st.band, last |-> t.st.last,
                                            id |-> i, created |-> t.created]}
      /\ \A j \in Ids \ {i} :
            /\ {k \in stated.labile : k[2] = j} = {k \in d.labile : k[2] = j}
            /\ {b \in stated.band : b.id = j} = {b \in d.band : b.id = j}
  BY PutStateAt DEF NotIndexed
<1>4. {k \in text : k[2] = i} = {<<t.text, i>>} /\ {k \in created : k[2] = i} = {<<t.created, i>>}
  BY <1>2 DEF NotIndexed
<1>5. ASSUME NEW j \in Ids \ {i}
      PROVE  /\ {k \in text : k[2] = j} = {k \in d.text : k[2] = j}
             /\ {k \in created : k[2] = j} = {k \in d.created : k[2] = j}
  BY <1>2
<1> HIDE DEF stated, text, created
<1>6. /\ DOMAIN linked = Fields /\ linked.text = text /\ linked.created = created
      /\ linked.rows = stated.rows /\ linked.labile = stated.labile /\ linked.band = stated.band
      /\ linked.model = d.model /\ linked.listed = d.listed /\ linked.lists = d.lists
      /\ linked.count = d.count /\ linked.next = stated.next /\ linked.seen = stated.seen
      /\ linked.cents = stated.cents
  BY <1>2 DEF Shape, Fields
<1> HIDE DEF linked
<1>7. Shape(linked) /\ OneEntry(linked)
  BY <1>2, <1>6 DEF Shape, OneEntry
<1>8. StatedAs(linked, i, t)
  BY <1>3, <1>4, <1>6, <1>7 DEF StatedAs, NotIndexed
<1>9. ASSUME NEW j \in Ids \ {i}
      PROVE  Untouched(d, linked, j)
  BY <1>3, <1>5, <1>6 DEF Untouched
<1>10. Placed(linked, e, i, t, v)
  BY <1>8, IndexIs
<1> HIDE DEF e
<1>11. Changes(d, e, i)
  BY <1>9, <1>10, UntouchedTwice DEF Placed, Changes
<1> QED
  BY <1>1, <1>6, <1>10, <1>11 DEF Placed

\* The state of a row rewritten in place.
LEMMA RestateIs ==
  ASSUME NEW d, Good(d), NEW i \in Ids, Found(d, i), NEW t \in Row,
         t.text = d.rows[i].text, t.created = d.rows[i].created, t.model = d.rows[i].model
  PROVE  LET e == PutState(DropState(d, i, d.rows[i]), i, t)
         IN  /\ Changes(d, e, i) /\ Found(e, i) /\ IndexedAs(e, i, t) /\ e.rows[i] = t
             /\ e.lists = d.lists /\ e.listed = d.listed /\ e.count = d.count
<1> DEFINE old == d.rows[i]
           a == DropState(d, i, old)
           e == PutState(a, i, t)
<1>1. Shape(d) /\ OneEntry(d) /\ IndexedAs(d, i, old)
  BY DEF Good, RowIndexed
<1>2. /\ Shape(a)
      /\ a.rows = d.rows /\ a.text = d.text /\ a.created = d.created /\ a.model = d.model
      /\ a.listed = d.listed /\ a.lists = d.lists /\ a.count = d.count
  BY <1>1, DropStateIs
<1>3. /\ \A k \in a.labile : k[2] # i
      /\ \A b \in a.band : b.id # i
      /\ \A j \in Ids \ {i} :
            /\ {k \in a.labile : k[2] = j} = {k \in d.labile : k[2] = j}
            /\ {b \in a.band : b.id = j} = {b \in d.band : b.id = j}
  BY <1>1, DropStateAt
<1> HIDE DEF a
<1>4. /\ Shape(e)
      /\ e.text = a.text /\ e.created = a.created /\ e.model = a.model
      /\ e.listed = a.listed /\ e.lists = a.lists /\ e.count = a.count
  BY <1>2, PutStateSame
<1>5. /\ e.rows[i] = t /\ \A j \in Ids \ {i} : e.rows[j] = a.rows[j]
      /\ {k \in e.labile : k[2] = i} = (IF t.st.con THEN {} ELSE {<<t.model, i>>})
      /\ {b \in e.band : b.id = i} = {[band |-> t.st.band, last |-> t.st.last,
                                       id |-> i, created |-> t.created]}
      /\ \A j \in Ids \ {i} :
            /\ {k \in e.labile : k[2] = j} = {k \in a.labile : k[2] = j}
            /\ {b \in e.band : b.id = j} = {b \in a.band : b.id = j}
  BY <1>2, <1>3, PutStateAt
<1>6. t.text = old.text /\ t.created = old.created /\ t.model = old.model
  OBVIOUS
<1> HIDE DEF e, old
<1>7. Changes(d, e, i)
  <2>1. ASSUME NEW j \in Ids \ {i}
        PROVE  Untouched(d, e, j)
    BY <1>2, <1>3, <1>4, <1>5 DEF Untouched
  <2> QED
    BY <1>1, <1>2, <1>4, <2>1 DEF Changes, OneEntry
<1>8. IndexedAs(e, i, t)
  BY <1>1, <1>2, <1>4, <1>5, <1>6 DEF IndexedAs
<1>9. Found(e, i)
  BY <1>5, AbsentIsNoTrace DEF Found
<1> QED
  BY <1>2, <1>4, <1>5, <1>7, <1>8, <1>9 DEF e, a, old

\* A row indexed anew under another model.
LEMMA ReindexedIs ==
  ASSUME NEW d, Good(d), NEW i \in Ids, Found(d, i), NEW m \in Models, NEW v \in Vector,
         NEW to, v # NoVec => to \in Nat \ {0}
  PROVE  LET old == d.rows[i]
             t == [old EXCEPT !.model = m]
             base == PutState(Unindex(DropState(d, i, old), i, old), i, t)
         IN  /\ Shape(base) /\ t \in Row /\ t.model = m
             /\ Placed(base, Index(base, i, t, v, to), i, t, v)
             /\ Placed(d, Index(base, i, t, v, to), i, t, v)
<1> DEFINE old == d.rows[i]
           t == [old EXCEPT !.model = m]
           a == DropState(d, i, old)
           model == a.model \ {<<old.model, i>>}
           b == [a EXCEPT !.model = model]
           c == Unlist(b, i, old.model)
           base == PutState(c, i, t)
           e == Index(base, i, t, v, to)
<1>1. Shape(d) /\ OneEntry(d) /\ old \in Row /\ IndexedAs(d, i, old)
  BY DEF Good, Found, Shape, RowIndexed
<1>2. old.model \in Models /\ t \in Row /\ t.model = m /\ t.text = old.text
      /\ t.created = old.created /\ t.st = old.st
  BY <1>1 DEF Row
<1>3. c = Unindex(a, i, old)
  BY DEF Unindex
<1> HIDE DEF old, t
<1>4. /\ Shape(a)
      /\ a.rows = d.rows /\ a.text = d.text /\ a.created = d.created /\ a.model = d.model
      /\ a.listed = d.listed /\ a.lists = d.lists /\ a.count = d.count
  BY <1>1, DropStateIs
<1>5. /\ \A k \in a.labile : k[2] # i
      /\ \A x \in a.band : x.id # i
      /\ \A j \in Ids \ {i} :
            /\ {k \in a.labile : k[2] = j} = {k \in d.labile : k[2] = j}
            /\ {x \in a.band : x.id = j} = {x \in d.band : x.id = j}
  BY <1>1, DropStateAt
<1>6. /\ \A k \in model : k[2] # i
      /\ \A j \in Ids \ {i} : {k \in model : k[2] = j} = {k \in d.model : k[2] = j}
  BY <1>1, <1>4 DEF IndexedAs
<1> HIDE DEF a, model
<1>7. /\ DOMAIN b = Fields /\ b.model = model
      /\ b.rows = d.rows /\ b.text = d.text /\ b.created = d.created /\ b.labile = a.labile
      /\ b.band = a.band /\ b.listed = d.listed /\ b.lists = d.lists /\ b.count = d.count
      /\ b.next = a.next /\ b.seen = a.seen /\ b.cents = a.cents
  BY <1>4 DEF Shape, Fields
<1> HIDE DEF b
<1>8. Shape(b) /\ OneEntry(b)
  BY <1>1, <1>4, <1>7 DEF Shape, OneEntry
<1>9. Shape(c) /\ SameRows(b, c)
  BY <1>2, <1>8, UnlistIs
<1>10. /\ OneEntry(c) /\ c.listed[i] = 0
       /\ \A j \in Ids \ {i} : /\ c.listed[j] = d.listed[j]
                               /\ {x \in c.lists : x.id = j} = {x \in d.lists : x.id = j}
       /\ \A x \in c.lists : x.id # i
  <2>1. \A x \in b.lists : x.id = i => x.model = old.model /\ x.list = b.listed[i]
    BY <1>1, <1>7 DEF IndexedAs
  <2> QED
    BY <1>2, <1>7, <1>8, <2>1, UnlistOther
<1> HIDE DEF c
<1>11. /\ Shape(base)
       /\ base.text = c.text /\ base.created = c.created /\ base.model = c.model
       /\ base.listed = c.listed /\ base.lists = c.lists /\ base.count = c.count
  BY <1>2, <1>9, PutStateSame
<1>12. /\ base.rows[i] = t /\ \A j \in Ids \ {i} : base.rows[j] = c.rows[j]
       /\ {k \in base.labile : k[2] = i} = (IF t.st.con THEN {} ELSE {<<t.model, i>>})
       /\ {x \in base.band : x.id = i} = {[band |-> t.st.band, last |-> t.st.last,
                                           id |-> i, created |-> t.created]}
       /\ \A j \in Ids \ {i} :
             /\ {k \in base.labile : k[2] = j} = {k \in c.labile : k[2] = j}
             /\ {x \in base.band : x.id = j} = {x \in c.band : x.id = j}
  <2>1. (\A k \in c.labile : k[2] # i) /\ (\A x \in c.band : x.id # i)
    BY <1>5, <1>7, <1>9 DEF SameRows
  <2> QED
    BY <1>2, <1>9, <2>1, PutStateAt
<1> HIDE DEF base
<1>13. /\ base.text = d.text /\ base.created = d.created /\ base.model = model
       /\ base.count = d.count
  BY <1>7, <1>9, <1>11 DEF SameRows
<1>14. StatedAs(base, i, t)
  <2>1. {k \in base.text : k[2] = i} = {<<t.text, i>>}
    BY <1>1, <1>2, <1>13 DEF IndexedAs
  <2>2. {k \in base.created : k[2] = i} = {<<t.created, i>>}
    BY <1>1, <1>2, <1>13 DEF IndexedAs
  <2>3. OneEntry(base)
    BY <1>10, <1>11 DEF OneEntry
  <2> QED
    BY <1>2, <1>6, <1>10, <1>11, <1>12, <1>13, <2>1, <2>2, <2>3 DEF StatedAs
<1>15. Placed(base, e, i, t, v)
  BY <1>14, IndexIs
<1> HIDE DEF e
<1>16. ASSUME NEW j \in Ids \ {i}
       PROVE  Untouched(d, base, j)
  <2>1. base.rows[j] = d.rows[j]
    BY <1>7, <1>9, <1>12 DEF SameRows
  <2>2. {k \in base.labile : k[2] = j} = {k \in d.labile : k[2] = j}
    BY <1>5, <1>7, <1>9, <1>12 DEF SameRows
  <2>3. {x \in base.band : x.id = j} = {x \in d.band : x.id = j}
    BY <1>5, <1>7, <1>9, <1>12 DEF SameRows
  <2> QED
    BY <1>6, <1>10, <1>11, <1>13, <2>1, <2>2, <2>3 DEF Untouched
<1>17. Placed(d, e, i, t, v)
  <2>1. Changes(d, e, i)
    BY <1>15, <1>16, UntouchedTwice DEF Placed, Changes
  <2> QED
    BY <1>13, <1>15, <2>1 DEF Placed
<1> QED
  BY <1>2, <1>3, <1>11, <1>15, <1>17 DEF e, base, c, t, old, a

-----------------------------------------------------------------------------
(* Dividing a list.                                                        *)

\* A division shows in no row and in no trace a reader gets.
SameTraces(d, e) ==
    /\ Good(e) /\ e.rows = d.rows /\ e.count = d.count
    /\ \A j \in Ids : TraceOf(e, j) = TraceOf(d, j)

LEMMA DividedKeeps ==
  ASSUME NEW d, Good(d), NEW e, NEW moved \in SUBSET d.lists, NEW new \in Nat \ {0},
         Divided(d, e, moved, new)
  PROVE  SameTraces(d, e)
<1> DEFINE At(x) == [x EXCEPT !.list = new]
<1>1. Shape(d) /\ OneEntry(d) /\ Shape(e) /\ SameRows(d, e)
  BY DEF Good, Divided
<1>2. e.lists = (d.lists \ moved) \cup {At(x) : x \in moved}
      /\ \A i \in Ids : e.listed[i] = IF \E x \in moved : x.id = i THEN new ELSE d.listed[i]
  BY DEF Divided
<1>3. ASSUME NEW x \in moved
      PROVE  At(x).id = x.id /\ At(x).model = x.model /\ At(x).created = x.created
             /\ At(x).vec = x.vec /\ At(x).list = new
  BY <1>1 DEF Shape, IsEntry, EntryFields
<1> HIDE DEF At
<1>4. \A y \in e.lists : \/ y \in d.lists \ moved
                         \/ \E x \in moved : y = At(x)
  BY <1>2
<1>5. OneEntry(e)
  BY <1>1, <1>3, <1>4 DEF OneEntry
<1>6. ASSUME NEW j \in Ids
      PROVE  RowIndexed(e, j) /\ TraceOf(e, j) = TraceOf(d, j)
  <2>1. CASE \A x \in moved : x.id # j
    <3>1. {y \in e.lists : y.id = j} = {y \in d.lists : y.id = j}
      BY <1>2, <1>3, <1>4, <2>1
    <3>2. Untouched(d, e, j)
      BY <1>1, <1>2, <2>1, <3>1 DEF Untouched, SameRows
    <3> QED
      BY <3>2, UntouchedStays DEF Good
  <2>2. CASE \E x \in moved : x.id = j
    <3>1. PICK x \in moved : x.id = j
      BY <2>2
    <3>2. e.listed[j] = new /\ At(x) \in e.lists
      BY <1>2, <3>1
    <3>3. \A y \in e.lists : y.id = j => y = At(x)
      BY <1>3, <1>5, <3>1, <3>2 DEF OneEntry
    <3>4. ASSUME NEW t, IndexedAs(d, j, t)
          PROVE  IndexedAs(e, j, t)
      <4>1. x.model = t.model /\ x.created = t.created
        BY <3>1, <3>4 DEF IndexedAs
      <4>2. \A y \in e.lists : y.id = j =>
               y.model = t.model /\ y.list = e.listed[j] /\ y.created = t.created
        BY <1>3, <3>2, <3>3, <4>1
      <4>3. \E y \in e.lists : y.id = j
        BY <1>3, <3>1, <3>2
      <4> QED
        BY <1>1, <3>4, <4>2, <4>3 DEF IndexedAs, SameRows
    <3>5. RowIndexed(d, j) /\ e.rows[j] = d.rows[j] /\ (Found(e, j) <=> Found(d, j))
      BY <1>1 DEF Good, SameRows, Found
    <3>6. CASE Found(d, j)
      <4>1. IndexedAs(d, j, d.rows[j]) /\ IndexedAs(e, j, e.rows[j])
        BY <3>4, <3>5, <3>6 DEF RowIndexed
      <4>2. TraceOf(d, j) = WithVec(d.rows[j], IF x.vec = Damaged THEN NoVec ELSE x.vec)
        BY <1>1, <3>1, <3>6, <4>1, TraceWith
      <4>3. TraceOf(e, j) = WithVec(e.rows[j], IF At(x).vec = Damaged THEN NoVec ELSE At(x).vec)
        BY <1>3, <1>5, <3>1, <3>2, <3>5, <3>6, <4>1, TraceWith
      <4> QED
        BY <1>3, <3>5, <3>6, <4>1, <4>2, <4>3 DEF RowIndexed
    <3>7. CASE ~Found(d, j)
      <4>1. TraceOf(e, j) = TraceOf(d, j)
        BY <3>5, <3>7 DEF TraceOf
      <4>2. d.rows[j] # Absent
        BY <3>1, <3>5, <3>7 DEF RowIndexed, NotIndexed
      <4> QED
        BY <3>4, <3>5, <3>7, <4>1, <4>2 DEF RowIndexed
    <3> QED
      BY <3>6, <3>7
  <2> QED
    BY <2>1, <2>2
<1> QED
  BY <1>1, <1>5, <1>6 DEF SameTraces, Good, SameRows

LEMMA AfterFilingKeeps ==
  ASSUME NEW d, Good(d), NEW i, NEW m \in Models, NEW v,
         v # NoVec => \E c \in d.seen[m] : c.list = d.listed[i],
         NEW e \in AfterFiling(d, i, m, v)
  PROVE  SameTraces(d, e)
<1> DEFINE c == CHOOSE x \in d.seen[m] : x.list = d.listed[i]
<1>1. \/ e = d
      \/ v # NoVec /\ \E far \in SUBSET Vecs : e = Split(d, m, c, far)
  BY DEF AfterFiling
<1>2. SameTraces(d, d)
  BY DEF SameTraces
<1>3. ASSUME v # NoVec, NEW far, e = Split(d, m, c, far)
      PROVE  SameTraces(d, e)
  <2>1. c \in d.seen[m]
    BY <1>3
  <2> HIDE DEF c
  <2>2. \/ Split(d, m, c, far) = d
        \/ \E moved \in SUBSET d.lists, new \in Nat \ {0} :
              Divided(d, Split(d, m, c, far), moved, new)
    BY <2>1, SplitIs DEF Good
  <2> QED
    BY <1>2, <1>3, <2>2, DividedKeeps
<1> QED
  BY <1>1, <1>2, <1>3

-----------------------------------------------------------------------------
(* The writes.                                                             *)

\* The trace of id i is `new` now, and every other is what it was.
Written(d, e, i, new) ==
    /\ Good(e)
    /\ TraceOf(e, i) = new
    /\ \A j \in Ids \ {i} : TraceOf(e, j) = TraceOf(d, j) /\ e.rows[j] = d.rows[j]

LEMMA ChangedIsGood ==
  ASSUME NEW d, Good(d), NEW i \in Ids, NEW e, Changes(d, e, i), RowIndexed(e, i)
  PROVE  Written(d, e, i, TraceOf(e, i))
<1>1. \A j \in Ids \ {i} : RowIndexed(e, j) /\ TraceOf(e, j) = TraceOf(d, j)
  BY UntouchedStays DEF Changes, Good
<1> QED
  BY <1>1 DEF Written, Good, Changes, Untouched

\* A row that is placed, and the list divided if that is due.
LEMMA PlacedAndFiled ==
  ASSUME NEW d, Good(d), NEW c, NEW b, NEW i \in Ids, NEW t \in Row, NEW v,
         Changes(d, b, i), Placed(c, b, i, t, v), NEW e \in AfterFiling(b, i, t.model, v)
  PROVE  Written(d, e, i, WithVec(t, v)) /\ e.count = c.count /\ e.rows[i] = t
<1>1. RowIndexed(b, i)
  BY DEF Placed, RowIndexed
<1>2. Written(d, b, i, WithVec(t, v))
  BY <1>1, ChangedIsGood DEF Placed
<1>3. SameTraces(b, e)
  BY <1>2, AfterFilingKeeps DEF Placed, Written, Row
<1> QED
  BY <1>2, <1>3 DEF Written, SameTraces, Placed

\* The overwrite that leaves the indexes of text, time, model and vector as they are.
LEMMA FastInsertIs ==
  ASSUME NEW d, Good(d), NEW i \in Ids, NEW t \in Row, NEW v \in Vector, FastPath(d, i, t, v)
  PROVE  LET e == PutState(DropState(d, i, d.rows[i]), i, t)
         IN  Written(d, e, i, WithVec(t, v)) /\ e.rows[i] = t /\ e.count = d.count
<1> DEFINE e == PutState(DropState(d, i, d.rows[i]), i, t)
<1>1. /\ Changes(d, e, i) /\ Found(e, i) /\ IndexedAs(e, i, t) /\ e.rows[i] = t
      /\ e.lists = d.lists /\ e.listed = d.listed /\ e.count = d.count
  BY RestateIs DEF FastPath
<1> HIDE DEF e
<1>2. TraceOf(e, i) = WithVec(t, v)
  <2>1. CASE d.listed[i] = 0
    <3>1. v = NoVec
      BY <2>1 DEF FastPath, SameVector
    <3>2. \A x \in e.lists : x.id # i
      BY <1>1, <2>1 DEF IndexedAs, Changes, Shape, IsEntry
    <3> QED
      BY <1>1, <3>1, <3>2, TraceWithout
  <2>2. CASE d.listed[i] # 0
    <3>1. PICK x \in d.lists : x.id = i /\ x.vec = v
      BY <2>2 DEF FastPath, SameVector, Members
    <3>2. TraceOf(e, i) = WithVec(t, IF x.vec = Damaged THEN NoVec ELSE x.vec)
      BY <1>1, <3>1, TraceWith DEF Changes
    <3>3. v # Damaged
      BY DistinctValues DEF Vector
    <3> QED
      BY <3>1, <3>2, <3>3
  <2> QED
    BY <2>1, <2>2
<1>3. RowIndexed(e, i)
  BY <1>1 DEF RowIndexed
<1> QED
  BY <1>1, <1>2, <1>3, ChangedIsGood DEF e

LEMMA CountedIs ==
  ASSUME NEW d, Shape(d), NEW n
  PROVE  LET e == [d EXCEPT !.count = n]
         IN  /\ Shape(e) /\ e.count = n /\ e.rows = d.rows /\ e.listed = d.listed
             /\ e.lists = d.lists /\ e.text = d.text /\ e.created = d.created
             /\ e.model = d.model /\ e.labile = d.labile /\ e.band = d.band
             /\ \A j : Untouched(d, e, j)
<1> DEFINE e == [d EXCEPT !.count = n]
<1>1. /\ DOMAIN e = Fields /\ e.count = n
      /\ e.rows = d.rows /\ e.text = d.text /\ e.created = d.created /\ e.model = d.model
      /\ e.labile = d.labile /\ e.band = d.band /\ e.listed = d.listed /\ e.lists = d.lists
      /\ e.next = d.next /\ e.seen = d.seen /\ e.cents = d.cents
  BY DEF Shape, Fields
<1> HIDE DEF e
<1>2. Shape(e) /\ \A j : Untouched(d, e, j)
  BY <1>1 DEF Shape, Untouched
<1> QED
  BY <1>1, <1>2 DEF e

LEMMA InsertIs ==
  ASSUME Good(tx), NEW i \in Ids, NEW t \in Row, NEW v \in Vector, ApplyInsert(i, t, v)
  PROVE  /\ Written(tx, tx', i, WithVec(t, v)) /\ tx'.rows[i] = t
         /\ tx'.count = IF tx.rows[i] = Absent THEN tx.count + 1 ELSE tx.count
<1>1. CASE FastPath(tx, i, t, v)
  <2>1. tx' = PutState(DropState(tx, i, tx.rows[i]), i, t)
    BY <1>1 DEF ApplyInsert
  <2>2. tx.rows[i] # Absent
    BY <1>1 DEF FastPath, Found
  <2> QED
    BY <1>1, <2>1, <2>2, FastInsertIs
<1>2. CASE ~FastPath(tx, i, t, v)
  <2> DEFINE old == Cleared(tx, i)
             n == IF tx.rows[i] = Absent THEN old.count + 1 ELSE old.count
             base == [old EXCEPT !.count = n]
  <2>1. PICK to \in Targets(base, t.model, v) :
           tx' \in AfterFiling(Link(base, i, t, v, to), i, t.model, v)
    BY <1>2 DEF ApplyInsert
  <2>2. GoneFrom(tx, old, i)
    BY ClearedIs
  <2>3. Shape(old) /\ OneEntry(old) /\ NotIndexed(old, i) /\ old.count = tx.count
        /\ \A j \in Ids \ {i} : Untouched(tx, old, j)
    BY <2>2 DEF GoneFrom, Changes
  <2> HIDE DEF old
  <2>4. /\ Shape(base) /\ base.count = n /\ base.rows = old.rows /\ base.listed = old.listed
        /\ base.lists = old.lists /\ base.text = old.text /\ base.created = old.created
        /\ base.model = old.model /\ base.labile = old.labile /\ base.band = old.band
        /\ \A j : Untouched(old, base, j)
    BY <2>3, CountedIs
  <2>5. n = IF tx.rows[i] = Absent THEN tx.count + 1 ELSE tx.count
    BY <2>3
  <2> HIDE DEF base, n
  <2>6. OneEntry(base) /\ NotIndexed(base, i)
    BY <2>3, <2>4 DEF OneEntry, NotIndexed
  <2>7. t.model \in Models
    BY DEF Row
  <2>8. v # NoVec => to \in Nat \ {0}
    BY <2>4, <2>7, TargetsAreLists
  <2> DEFINE b == Link(base, i, t, v, to)
  <2>9. Placed(base, b, i, t, v)
    BY <2>4, <2>6, <2>8, LinkIs
  <2> HIDE DEF b
  <2>10. ASSUME NEW j \in Ids \ {i}
         PROVE  Untouched(tx, b, j)
    <3>1. Untouched(tx, base, j)
      BY <2>3, <2>4, UntouchedTwice
    <3> QED
      BY <2>9, <3>1, UntouchedTwice DEF Placed, Changes
  <2>11. Changes(tx, b, i)
    BY <2>9, <2>10 DEF Placed, Changes
  <2>12. tx' \in AfterFiling(b, i, t.model, v)
    BY <2>1 DEF b
  <2>13. Written(tx, tx', i, WithVec(t, v)) /\ tx'.count = base.count /\ tx'.rows[i] = t
    BY <2>9, <2>11, <2>12, PlacedAndFiled
  <2> QED
    BY <2>4, <2>5, <2>13
<1> QED
  BY <1>1, <1>2

LEMMA RemoveIs ==
  ASSUME Good(tx), NEW i \in Ids, ApplyRemove(i)
  PROVE  /\ Written(tx, tx', i, Absent) /\ tx'.rows[i] = Absent
         /\ tx'.count = IF tx.rows[i] = Absent THEN tx.count ELSE Less(tx.count, 1)
<1> DEFINE old == Cleared(tx, i)
           n == IF tx.rows[i] # Absent THEN Less(old.count, 1) ELSE old.count
           e == [old EXCEPT !.count = n]
<1>1. tx' = e
  BY DEF ApplyRemove
<1>2. GoneFrom(tx, old, i)
  BY ClearedIs
<1>3. Shape(old) /\ OneEntry(old) /\ NotIndexed(old, i) /\ old.count = tx.count
      /\ old.rows[i] = Absent /\ \A j \in Ids \ {i} : Untouched(tx, old, j)
  BY <1>2 DEF GoneFrom, Changes
<1> HIDE DEF old
<1>4. /\ Shape(e) /\ e.count = n /\ e.rows = old.rows /\ e.listed = old.listed
      /\ e.lists = old.lists /\ e.text = old.text /\ e.created = old.created
      /\ e.model = old.model /\ e.labile = old.labile /\ e.band = old.band
      /\ \A j : Untouched(old, e, j)
  BY <1>3, CountedIs
<1>5. n = IF tx.rows[i] = Absent THEN tx.count ELSE Less(tx.count, 1)
  BY <1>3
<1> HIDE DEF e, n
<1>6. OneEntry(e) /\ NotIndexed(e, i) /\ e.rows[i] = Absent
  BY <1>3, <1>4 DEF OneEntry, NotIndexed
<1>7. Changes(tx, e, i)
  BY <1>3, <1>4, <1>6, UntouchedTwice DEF Changes
<1>8. RowIndexed(e, i) /\ TraceOf(e, i) = Absent
  BY <1>6 DEF RowIndexed, TraceOf, Found
<1>9. Written(tx, e, i, Absent)
  BY <1>7, <1>8, ChangedIsGood
<1> QED
  BY <1>1, <1>4, <1>5, <1>6, <1>9

LEMMA TraceForm ==
  ASSUME NEW d, Good(d), NEW i \in Ids, Found(d, i)
  PROVE  /\ d.rows[i] \in Row /\ IndexedAs(d, i, d.rows[i])
         /\ \E u \in Vector : TraceOf(d, i) = WithVec(d.rows[i], u)
<1>1. d.rows[i] \in Row /\ IndexedAs(d, i, d.rows[i]) /\ OneEntry(d) /\ Shape(d)
  BY DEF Good, Shape, RowIndexed, Found
<1>2. CASE \E x \in d.lists : x.id = i
  <2>1. PICK x \in d.lists : x.id = i
    BY <1>2
  <2>2. TraceOf(d, i) = WithVec(d.rows[i], IF x.vec = Damaged THEN NoVec ELSE x.vec)
    BY <1>1, <2>1, TraceWith
  <2>3. x.vec \in Vecs \cup {Damaged}
    BY <1>1 DEF Shape, IsEntry
  <2> QED
    BY <1>1, <2>2, <2>3 DEF Vector
<1>3. CASE \A x \in d.lists : x.id # i
  BY <1>1, <1>3, TraceWithout DEF Vector
<1> QED
  BY <1>1, <1>2, <1>3

LEMMA StateIs ==
  ASSUME Good(tx), NEW i \in Ids, NEW s \in States, ApplyState(i, s), Found(tx, i)
  PROVE  /\ Written(tx, tx', i, [TraceOf(tx, i) EXCEPT !.st = s])
         /\ tx'.rows[i] # Absent /\ tx'.count = tx.count
<1> DEFINE old == tx.rows[i]
           t == [old EXCEPT !.st = s]
           e == PutState(DropState(tx, i, old), i, t)
<1>1. tx' = e
  BY DEF ApplyState
<1>2. old \in Row
  BY TraceForm
<1> HIDE DEF old
<1>3. t \in Row /\ t.text = old.text /\ t.created = old.created /\ t.model = old.model /\ t.st = s
  BY <1>2 DEF Row
<1> HIDE DEF t
<1>4. /\ Changes(tx, e, i) /\ Found(e, i) /\ IndexedAs(e, i, t) /\ e.rows[i] = t
      /\ e.lists = tx.lists /\ e.listed = tx.listed /\ e.count = tx.count
  BY <1>3, RestateIs DEF old
<1> HIDE DEF e
<1>5. \A u : WithVec(t, u) = [WithVec(old, u) EXCEPT !.st = s]
  BY <1>3 DEF WithVec
<1>6. TraceOf(e, i) = [TraceOf(tx, i) EXCEPT !.st = s]
  <2>1. IndexedAs(tx, i, tx.rows[i]) /\ OneEntry(tx) /\ OneEntry(e)
    BY <1>4, TraceForm DEF Good, Changes
  <2>2. CASE \E x \in tx.lists : x.id = i
    <3>1. PICK x \in tx.lists : x.id = i
      BY <2>2
    <3>2. TraceOf(tx, i) = WithVec(old, IF x.vec = Damaged THEN NoVec ELSE x.vec)
      BY <2>1, <3>1, TraceWith DEF old
    <3>3. TraceOf(e, i) = WithVec(t, IF x.vec = Damaged THEN NoVec ELSE x.vec)
      BY <1>4, <2>1, <3>1, TraceWith
    <3> QED
      BY <1>5, <3>2, <3>3
  <2>3. CASE \A x \in tx.lists : x.id # i
    <3>1. TraceOf(tx, i) = WithVec(old, NoVec)
      BY <2>3, TraceWithout DEF old
    <3>2. TraceOf(e, i) = WithVec(t, NoVec)
      BY <1>4, <2>3, TraceWithout
    <3> QED
      BY <1>5, <3>1, <3>2
  <2> QED
    BY <2>2, <2>3
<1>7. RowIndexed(e, i)
  BY <1>4 DEF RowIndexed
<1>8. e.rows[i] # Absent
  BY <1>4 DEF Found
<1> QED
  BY <1>1, <1>4, <1>6, <1>7, <1>8, ChangedIsGood

LEMMA IndexWriteIs ==
  ASSUME Good(tx), NEW i \in Ids, NEW m \in Models, NEW v \in Vecs, ApplyIndex(i, m, v),
         Found(tx, i)
  PROVE  /\ Written(tx, tx', i, [TraceOf(tx, i) EXCEPT !.model = m, !.vec = v])
         /\ tx'.rows[i] # Absent /\ tx'.count = tx.count
<1> DEFINE old == tx.rows[i]
           t == [old EXCEPT !.model = m]
           base == PutState(Unindex(DropState(tx, i, old), i, old), i, t)
<1>1. PICK to \in Targets(base, m, v) : tx' \in AfterFiling(Index(base, i, t, v, to), i, m, v)
  BY DEF ApplyIndex
<1>2. v # NoVec /\ v \in Vector
  BY DistinctValues DEF Vector
<1>3. Shape(base)
  BY <1>2, ReindexedIs
<1>4. to \in Nat \ {0}
  <2> HIDE DEF base
  <2> QED
    BY <1>2, <1>3, TargetsAreLists
<1> DEFINE b == Index(base, i, t, v, to)
<1>5. t \in Row /\ t.model = m /\ Placed(tx, b, i, t, v)
  BY <1>2, <1>4, ReindexedIs
<1>6. old \in Row /\ \E u \in Vector : TraceOf(tx, i) = WithVec(old, u)
  BY TraceForm
<1> HIDE DEF old
<1>7. WithVec(t, v) = [TraceOf(tx, i) EXCEPT !.model = m, !.vec = v]
  <2>1. PICK u : TraceOf(tx, i) = WithVec(old, u)
    BY <1>6
  <2>2. t.text = old.text /\ t.created = old.created /\ t.st = old.st /\ t.model = m
    BY <1>6 DEF Row
  <2> HIDE DEF t
  <2>3. WithVec(t, v) = [text |-> old.text, created |-> old.created, model |-> m, st |-> old.st,
                         vec |-> v]
    BY <2>2 DEF WithVec
  <2> DEFINE T == TraceOf(tx, i)
             S == [T EXCEPT !.model = m]
  <2>4. T = [text |-> old.text, created |-> old.created, model |-> old.model,
             st |-> old.st, vec |-> u]
    BY <2>1 DEF WithVec
  <2> HIDE DEF T
  <2>5. S = [text |-> old.text, created |-> old.created, model |-> m, st |-> old.st, vec |-> u]
    BY <2>4
  <2>6. [T EXCEPT !.model = m, !.vec = v] = [S EXCEPT !.vec = v]
    OBVIOUS
  <2> HIDE DEF S
  <2>7. [S EXCEPT !.vec = v]
        = [text |-> old.text, created |-> old.created, model |-> m, st |-> old.st, vec |-> v]
    BY <2>5
  <2> QED
    BY <2>3, <2>6, <2>7 DEF T
<1> HIDE DEF t, b
<1>8. tx' \in AfterFiling(b, i, t.model, v)
  BY <1>1, <1>5 DEF b
<1>9. Written(tx, tx', i, WithVec(t, v)) /\ tx'.count = tx.count /\ tx'.rows[i] = t
  BY <1>5, <1>8, PlacedAndFiled DEF Placed
<1>10. t # Absent
  BY <1>5, AbsentIsNoTrace
<1> QED
  BY <1>7, <1>9, <1>10

-----------------------------------------------------------------------------
(* The file.                                                               *)

LEMMA UntouchedIsSame ==
  ASSUME NEW d, Good(d), NEW e, Shape(e), OneEntry(e), e.rows = d.rows, e.count = d.count,
         \A j \in Ids : Untouched(d, e, j)
  PROVE  SameTraces(d, e)
  BY UntouchedStays DEF Good, SameTraces

LEMMA ListsAsideIsSame ==
  ASSUME NEW d, Good(d), NEW e, Shape(e), SameRows(d, e), e.lists = d.lists, e.listed = d.listed
  PROVE  SameTraces(d, e)
<1>1. \A j \in Ids : Untouched(d, e, j)
  BY DEF Untouched, SameRows
<1>2. OneEntry(e)
  BY DEF Good, OneEntry
<1> QED
  BY <1>1, <1>2, UntouchedIsSame DEF SameRows

LEMMA ClosedIs ==
  ASSUME NEW d, Good(d)
  PROVE  SameTraces(d, Closed(d))
<1> DEFINE seen == [m \in Models |-> {}]
           e == [d EXCEPT !.read = {}, !.seen = seen]
<1>1. Closed(d) = e
  BY DEF Closed
<1>2. DOMAIN seen = Models /\ \A m \in Models : seen[m] = {}
  OBVIOUS
<1> HIDE DEF seen
<1>3. /\ DOMAIN e = Fields /\ SameRows(d, e) /\ e.lists = d.lists /\ e.listed = d.listed
      /\ e.next = d.next /\ e.cents = d.cents /\ e.seen = seen
  BY DEF Good, Shape, Fields, SameRows
<1> HIDE DEF e
<1>4. Shape(e)
  BY <1>2, <1>3 DEF Good, Shape, SameRows
<1> QED
  BY <1>1, <1>3, <1>4, ListsAsideIsSame

LEMMA ReadListsIs ==
  ASSUME Good(db), NEW m \in Models, ReadLists(m)
  PROVE  SameTraces(db, db')
<1> DEFINE table == {c \in db.cents : c.model = m}
           read == db.read \cup {m}
           seen == [db.seen EXCEPT ![m] = table]
           e == [db EXCEPT !.read = read, !.seen = seen]
<1>1. db' = e
  BY DEF ReadLists
<1>2. /\ DOMAIN seen = Models
      /\ \A k \in Models : \A c \in seen[k] : DOMAIN c = ListFields /\ c.list \in Nat \ {0}
  BY DEF Good, Shape
<1> HIDE DEF seen, read
<1>3. /\ DOMAIN e = Fields /\ SameRows(db, e) /\ e.lists = db.lists /\ e.listed = db.listed
      /\ e.next = db.next /\ e.cents = db.cents /\ e.seen = seen
  BY DEF Good, Shape, Fields, SameRows
<1> HIDE DEF e
<1>4. Shape(e)
  BY <1>2, <1>3 DEF Good, Shape, SameRows
<1> QED
  BY <1>1, <1>3, <1>4, ListsAsideIsSame

LEMMA RowLostIs ==
  ASSUME NEW d, Good(d), NEW i \in Ids, Found(d, i)
  PROVE  LET e == [d EXCEPT !.rows[i] = Damaged]
         IN  /\ Written(d, e, i, Damaged)
             /\ e.rows[i] = Damaged /\ e.count = d.count
<1> DEFINE rows == [d.rows EXCEPT ![i] = Damaged]
           e == [d EXCEPT !.rows = rows]
<1>1. Shape(d) /\ OneEntry(d) /\ d.rows[i] \in Row /\ IndexedAs(d, i, d.rows[i])
  BY TraceForm DEF Good
<1>2. rows \in [Ids -> Row \cup {Absent, Damaged}] /\ rows[i] = Damaged
      /\ \A j \in Ids \ {i} : rows[j] = d.rows[j]
  BY <1>1 DEF Shape
<1> HIDE DEF rows
<1>3. /\ DOMAIN e = Fields /\ e.rows = rows /\ e.text = d.text /\ e.created = d.created
      /\ e.model = d.model /\ e.labile = d.labile /\ e.band = d.band /\ e.listed = d.listed
      /\ e.lists = d.lists /\ e.count = d.count /\ e.next = d.next /\ e.seen = d.seen
      /\ e.cents = d.cents
  BY <1>1 DEF Shape, Fields
<1> HIDE DEF e
<1>4. Shape(e) /\ OneEntry(e)
  BY <1>1, <1>2, <1>3 DEF Shape, OneEntry
<1>5. \A j \in Ids \ {i} : Untouched(d, e, j)
  BY <1>2, <1>3 DEF Untouched
<1>6. IndexedAs(e, i, d.rows[i])
  BY <1>1, <1>3 DEF IndexedAs
<1>7. RowIndexed(e, i) /\ TraceOf(e, i) = Damaged
  BY <1>1, <1>2, <1>3, <1>6, DistinctValues DEF RowIndexed, TraceOf, Found
<1> QED
  BY <1>2, <1>3, <1>4, <1>5, <1>7, ChangedIsGood DEF Changes, e, rows

LEMMA EntryLostIs ==
  ASSUME NEW d, Good(d), NEW x \in d.lists
  PROVE  LET e == [d EXCEPT !.lists = (@ \ {x}) \cup {[x EXCEPT !.vec = Damaged]}]
         IN  /\ Written(d, e, x.id, IF Found(d, x.id) THEN [TraceOf(d, x.id) EXCEPT !.vec = NoVec]
                                    ELSE TraceOf(d, x.id))
             /\ e.rows = d.rows /\ e.count = d.count
<1> DEFINE i == x.id
           y == [x EXCEPT !.vec = Damaged]
           lists == (d.lists \ {x}) \cup {y}
           e == [d EXCEPT !.lists = lists]
<1>1. Shape(d) /\ OneEntry(d) /\ RowIndexed(d, i) /\ IsEntry(x) /\ i \in Ids
  BY DEF Good, Shape, IsEntry
<1>2. /\ y.id = i /\ y.model = x.model /\ y.list = x.list /\ y.created = x.created
      /\ y.vec = Damaged /\ IsEntry(y)
  BY <1>1 DEF IsEntry, EntryFields
<1> HIDE DEF y
<1>3. \A z \in lists : IsEntry(z)
  BY <1>1, <1>2 DEF Shape
<1>4. /\ \A z \in lists : z.id = i => z = y
      /\ y \in lists
      /\ \A z \in lists, w \in lists : z.id = w.id => z = w
      /\ \A j \in Ids \ {i} : {z \in lists : z.id = j} = {z \in d.lists : z.id = j}
  <2>1. \A z \in d.lists : z.id = i => z = x
    BY <1>1 DEF OneEntry
  <2>2. \A z \in lists : z.id = i => z = y
    BY <2>1
  <2>3. \A z \in lists, w \in lists : z.id = w.id => z = w
    BY <1>1, <1>2, <2>2 DEF OneEntry
  <2>4. ASSUME NEW j \in Ids \ {i}
        PROVE  {z \in lists : z.id = j} = {z \in d.lists : z.id = j}
    BY <1>2
  <2> QED
    BY <2>2, <2>3, <2>4
<1> HIDE DEF lists, i
<1>5. /\ DOMAIN e = Fields /\ e.rows = d.rows /\ e.text = d.text /\ e.created = d.created
      /\ e.model = d.model /\ e.labile = d.labile /\ e.band = d.band /\ e.listed = d.listed
      /\ e.lists = lists /\ e.count = d.count /\ e.next = d.next /\ e.seen = d.seen
      /\ e.cents = d.cents
  BY <1>1 DEF Shape, Fields
<1> HIDE DEF e
<1>6. Shape(e) /\ OneEntry(e)
  BY <1>1, <1>3, <1>4, <1>5 DEF Shape, OneEntry
<1>7. \A j \in Ids \ {i} : Untouched(d, e, j)
  BY <1>4, <1>5 DEF Untouched
<1>8. ASSUME NEW t, IndexedAs(d, i, t)
      PROVE  IndexedAs(e, i, t)
  <2>1. x.model = t.model /\ x.list = d.listed[i] /\ x.created = t.created
    BY <1>8 DEF IndexedAs, i
  <2>2. \A z \in e.lists : z.id = i =>
           z.model = t.model /\ z.list = e.listed[i] /\ z.created = t.created
    BY <1>2, <1>4, <1>5, <2>1
  <2>3. \E z \in e.lists : z.id = i
    BY <1>2, <1>4, <1>5
  <2> QED
    BY <1>5, <1>8, <2>2, <2>3 DEF IndexedAs
<1>9. Found(e, i) <=> Found(d, i)
  BY <1>5 DEF Found
<1>10. CASE Found(d, i)
  <2>1. IndexedAs(d, i, d.rows[i]) /\ IndexedAs(e, i, e.rows[i])
    BY <1>1, <1>5, <1>8, <1>10 DEF RowIndexed
  <2>2. PICK u : TraceOf(d, i) = WithVec(d.rows[i], u)
    BY <1>1, <1>10, TraceForm
  <2>3. TraceOf(e, i) = WithVec(d.rows[i], IF y.vec = Damaged THEN NoVec ELSE y.vec)
    BY <1>2, <1>4, <1>5, <1>6, <1>9, <1>10, <2>1, TraceWith
  <2>4. WithVec(d.rows[i], NoVec) = [WithVec(d.rows[i], u) EXCEPT !.vec = NoVec]
    BY DEF WithVec
  <2>5. TraceOf(e, i) = [TraceOf(d, i) EXCEPT !.vec = NoVec]
    BY <1>2, <2>2, <2>3, <2>4
  <2>6. RowIndexed(e, i)
    BY <1>9, <1>10, <2>1 DEF RowIndexed
  <2>7. Written(d, e, i, TraceOf(e, i))
    BY <1>1, <1>6, <1>7, <2>6, ChangedIsGood DEF Changes
  <2> QED
    BY <1>5, <1>10, <2>5, <2>7 DEF e, lists, y, i
<1>11. CASE ~Found(d, i)
  <2>1. TraceOf(e, i) = TraceOf(d, i)
    BY <1>5, <1>9, <1>11 DEF TraceOf
  <2>2. d.rows[i] # Absent
    BY <1>1, <1>11 DEF RowIndexed, NotIndexed, i
  <2>3. RowIndexed(e, i)
    BY <1>1, <1>5, <1>8, <1>9, <1>11, <2>2 DEF RowIndexed
  <2>4. Written(d, e, i, TraceOf(e, i))
    BY <1>1, <1>6, <1>7, <2>3, ChangedIsGood DEF Changes
  <2> QED
    BY <1>5, <1>11, <2>1, <2>4 DEF e, lists, y, i
<1> QED
  BY <1>10, <1>11

LEMMA CentroidLostIs ==
  ASSUME NEW d, Good(d), NEW c \in d.cents
  PROVE  SameTraces(d, [d EXCEPT !.cents = (@ \ {c}) \cup {[c EXCEPT !.size = 0, !.dim = Damaged]}])
<1> DEFINE lost == [c EXCEPT !.size = 0, !.dim = Damaged]
           cents == (d.cents \ {c}) \cup {lost}
           e == [d EXCEPT !.cents = cents]
<1>1. DOMAIN lost = ListFields /\ lost.list = c.list
  BY DEF Good, Shape, ListFields
<1> HIDE DEF lost
<1>2. \A k \in cents : DOMAIN k = ListFields /\ k.list \in Nat \ {0}
  BY <1>1 DEF Good, Shape
<1> HIDE DEF cents
<1>3. /\ DOMAIN e = Fields /\ SameRows(d, e) /\ e.lists = d.lists /\ e.listed = d.listed
      /\ e.next = d.next /\ e.cents = cents /\ e.seen = d.seen
  BY DEF Good, Shape, Fields, SameRows
<1> HIDE DEF e
<1>4. Shape(e)
  BY <1>2, <1>3 DEF Good, Shape, SameRows
<1> QED
  BY <1>3, <1>4, ListsAsideIsSame DEF e, cents, lost

LEMMA EmptyIs ==
  /\ Good(Empty) /\ Empty.count = 0
  /\ \A i \in Ids : Empty.rows[i] = Absent /\ TraceOf(Empty, i) = Absent
<1> DEFINE d == Empty
<1>1. /\ DOMAIN d = Fields /\ d.rows = [i \in Ids |-> Absent] /\ d.text = {} /\ d.labile = {}
      /\ d.model = {} /\ d.band = {} /\ d.created = {} /\ d.listed = [i \in Ids |-> 0]
      /\ d.lists = {} /\ d.cents = {} /\ d.count = 0 /\ d.next = [m \in Models |-> 0]
      /\ d.seen = [m \in Models |-> {}]
  BY DEF Empty, Fields
<1> HIDE DEF d
<1>2. Shape(d) /\ OneEntry(d)
  BY <1>1 DEF Shape, OneEntry
<1>3. ASSUME NEW i \in Ids
      PROVE  d.rows[i] = Absent /\ TraceOf(d, i) = Absent /\ RowIndexed(d, i)
  BY <1>1 DEF TraceOf, Found, RowIndexed, NotIndexed
<1> QED
  BY <1>1, <1>2, <1>3 DEF Good, d

-----------------------------------------------------------------------------
(* The count of rows.                                                      *)

Live(d) == {i \in Ids : d.rows[i] # Absent}

Counted(d) == IsFiniteSet(Live(d)) /\ d.count = Cardinality(Live(d))

LEMMA SameCount ==
  ASSUME NEW d, Counted(d), NEW e, e.count = d.count,
         \A j \in Ids : e.rows[j] # Absent <=> d.rows[j] # Absent
  PROVE  Counted(e)
<1>1. Live(e) = Live(d)
  BY DEF Live
<1> QED
  BY <1>1 DEF Counted

LEMMA CountUp ==
  ASSUME NEW d, Counted(d), NEW i \in Ids, NEW e, e.rows[i] # Absent,
         \A j \in Ids \ {i} : e.rows[j] = d.rows[j],
         e.count = IF d.rows[i] = Absent THEN d.count + 1 ELSE d.count
  PROVE  Counted(e)
<1>1. Live(e) = Live(d) \cup {i} /\ (i \in Live(d) <=> d.rows[i] # Absent)
  BY DEF Live
<1>2. /\ IsFiniteSet(Live(d) \cup {i})
      /\ Cardinality(Live(d) \cup {i}) = IF i \in Live(d) THEN Cardinality(Live(d))
                                         ELSE Cardinality(Live(d)) + 1
  BY FS_AddElement DEF Counted
<1> QED
  BY <1>1, <1>2 DEF Counted

LEMMA CountDown ==
  ASSUME NEW d, Counted(d), NEW i \in Ids, NEW e, e.rows[i] = Absent,
         \A j \in Ids \ {i} : e.rows[j] = d.rows[j],
         e.count = IF d.rows[i] = Absent THEN d.count ELSE Less(d.count, 1)
  PROVE  Counted(e)
<1>1. Live(e) = Live(d) \ {i} /\ (i \in Live(d) <=> d.rows[i] # Absent)
  BY DEF Live
<1>2. /\ IsFiniteSet(Live(d) \ {i})
      /\ Cardinality(Live(d) \ {i}) = IF i \in Live(d) THEN Cardinality(Live(d)) - 1
                                      ELSE Cardinality(Live(d))
  BY FS_RemoveElement DEF Counted
<1>3. Cardinality(Live(d)) \in Nat /\ Cardinality(Live(d) \ {i}) \in Nat
  BY <1>2, FS_CardinalityType DEF Counted
<1>4. i \in Live(d) => Less(d.count, 1) = d.count - 1
  BY <1>2, <1>3 DEF Counted, Less
<1> QED
  BY <1>1, <1>2, <1>4 DEF Counted

-----------------------------------------------------------------------------
(* The invariant.                                                          *)

Sound(d) == Good(d) /\ Counted(d)

IInv == Sound(db) /\ (tx # NoTx => Sound(tx))

LEMMA EmptyIsSound == Sound(Empty)
<1>1. Live(Empty) = {}
  BY EmptyIs DEF Live
<1> QED
  BY <1>1, EmptyIs, FS_EmptySet DEF Sound, Counted

LEMMA SameIsSound ==
  ASSUME NEW d, Sound(d), NEW e, SameTraces(d, e)
  PROVE  Sound(e)
  BY SameCount DEF Sound, SameTraces

\* The four writes.
WriteOf(i) ==
    \/ \E t \in Row, v \in Vector : ApplyInsert(i, t, v)
    \/ \E s \in States : ApplyState(i, s)
    \/ \E m \in Models, v \in Vecs : ApplyIndex(i, m, v)
    \/ ApplyRemove(i)

LEMMA WriteKeeps ==
  ASSUME IInv, NEW i \in Ids, WriteOf(i)
  PROVE  Sound(tx') /\ db' = db /\ tx # NoTx
<1>1. tx # NoTx /\ db' = db
  BY DEF WriteOf, ApplyInsert, ApplyState, ApplyIndex, ApplyRemove, WriteStep
<1>2. Good(tx) /\ Counted(tx)
  BY <1>1 DEF IInv, Sound
<1>3. ASSUME NEW t \in Row, NEW v \in Vector, ApplyInsert(i, t, v)
      PROVE  Sound(tx')
  <2>1. /\ Written(tx, tx', i, WithVec(t, v)) /\ tx'.rows[i] = t
        /\ tx'.count = IF tx.rows[i] = Absent THEN tx.count + 1 ELSE tx.count
    BY <1>2, <1>3, InsertIs
  <2>2. tx'.rows[i] # Absent
    BY <2>1, AbsentIsNoTrace
  <2>3. Counted(tx')
    BY <1>2, <2>1, <2>2, CountUp DEF Written
  <2> QED
    BY <2>1, <2>3 DEF Written, Sound
<1>4. ASSUME NEW e, Written(tx, e, i, TraceOf(e, i)), e.rows[i] # Absent, Found(tx, i),
             e.count = tx.count
      PROVE  Sound(e)
  <2>1. \A j \in Ids : e.rows[j] # Absent <=> tx.rows[j] # Absent
    BY <1>4 DEF Written, Found
  <2> QED
    BY <1>2, <1>4, <2>1, SameCount DEF Written, Sound
<1>5. ASSUME NEW s \in States, ApplyState(i, s)
      PROVE  Sound(tx')
  <2>1. CASE Found(tx, i)
    <3>1. Written(tx, tx', i, TraceOf(tx', i)) /\ tx'.rows[i] # Absent /\ tx'.count = tx.count
      BY <1>2, <1>5, <2>1, StateIs DEF Written
    <3> QED
      BY <1>4, <2>1, <3>1
  <2>2. CASE ~Found(tx, i)
    BY <1>2, <1>5, <2>2 DEF ApplyState, Sound
  <2> QED
    BY <2>1, <2>2
<1>6. ASSUME NEW m \in Models, NEW v \in Vecs, ApplyIndex(i, m, v)
      PROVE  Sound(tx')
  <2>1. CASE Found(tx, i)
    <3>1. Written(tx, tx', i, TraceOf(tx', i)) /\ tx'.rows[i] # Absent /\ tx'.count = tx.count
      BY <1>2, <1>6, <2>1, IndexWriteIs DEF Written
    <3> QED
      BY <1>4, <2>1, <3>1
  <2>2. CASE ~Found(tx, i)
    BY <1>2, <1>6, <2>2 DEF ApplyIndex, Sound
  <2> QED
    BY <2>1, <2>2
<1>7. CASE ApplyRemove(i)
  <2>1. /\ Written(tx, tx', i, Absent) /\ tx'.rows[i] = Absent
        /\ tx'.count = IF tx.rows[i] = Absent THEN tx.count ELSE Less(tx.count, 1)
    BY <1>2, <1>7, RemoveIs
  <2>2. Counted(tx')
    BY <1>2, <2>1, CountDown DEF Written
  <2>3. Good(tx')
    BY <2>1 DEF Written
  <2> QED
    BY <1>1, <2>2, <2>3 DEF Sound
<1> QED
  BY <1>1, <1>3, <1>5, <1>6, <1>7 DEF WriteOf

\* A damaged file is the closed one, or lacks one value of it.
LEMMA DamageIs ==
  ASSUME Good(db), NEW kind, DamageFile(kind)
  PROVE  /\ tx' = tx /\ tx = NoTx
         /\ \/ SameTraces(db, db')
            \/ \E i \in Ids : /\ Found(db, i)
                              /\ \/ Written(db, db', i, Damaged)
                                 \/ Written(db, db', i, [TraceOf(db, i) EXCEPT !.vec = NoVec])
         /\ db'.count = db.count
         /\ \A j \in Ids : db'.rows[j] # Absent <=> db.rows[j] # Absent
<1> DEFINE d == Closed(db)
<1>1. /\ tx' = tx /\ tx = NoTx
      /\ \/ \E i \in Ids : Found(d, i) /\ db' = [d EXCEPT !.rows[i] = Damaged]
         \/ \E e \in d.lists : db' = [d EXCEPT !.lists = (@ \ {e}) \cup {[e EXCEPT !.vec = Damaged]}]
         \/ \E c \in d.cents :
               db' = [d EXCEPT !.cents = (@ \ {c}) \cup {[c EXCEPT !.size = 0, !.dim = Damaged]}]
  BY DEF DamageFile
<1>2. SameTraces(db, d) /\ Good(d)
  BY ClosedIs DEF SameTraces
<1> HIDE DEF d
<1>3. /\ d.rows = db.rows /\ d.count = db.count /\ \A j \in Ids : TraceOf(d, j) = TraceOf(db, j)
      /\ \A j : Found(d, j) <=> Found(db, j)
  BY <1>2 DEF SameTraces, Found
<1>4. \A i, e, new : Written(d, e, i, new) => Written(db, e, i, new)
  BY <1>3 DEF Written
<1>5. CASE \E i \in Ids : Found(d, i) /\ db' = [d EXCEPT !.rows[i] = Damaged]
  <2>1. PICK i \in Ids : Found(d, i) /\ db' = [d EXCEPT !.rows[i] = Damaged]
    BY <1>5
  <2>2. Written(d, db', i, Damaged) /\ db'.rows[i] = Damaged /\ db'.count = d.count
    BY <1>2, <2>1, RowLostIs
  <2>3. Written(db, db', i, Damaged) /\ Found(db, i)
    BY <1>3, <1>4, <2>1, <2>2
  <2>4. \A j \in Ids : db'.rows[j] # Absent <=> db.rows[j] # Absent
    BY <2>2, <2>3, DistinctValues DEF Written, Found
  <2> QED
    BY <1>1, <1>3, <2>2, <2>3, <2>4
<1>6. CASE \E e \in d.lists : db' = [d EXCEPT !.lists = (@ \ {e}) \cup {[e EXCEPT !.vec = Damaged]}]
  <2>1. PICK x \in d.lists : db' = [d EXCEPT !.lists = (@ \ {x}) \cup {[x EXCEPT !.vec = Damaged]}]
    BY <1>6
  <2>2. /\ Written(d, db', x.id, IF Found(d, x.id) THEN [TraceOf(d, x.id) EXCEPT !.vec = NoVec]
                                 ELSE TraceOf(d, x.id))
        /\ db'.rows = d.rows /\ db'.count = d.count
    BY <1>2, <2>1, EntryLostIs
  <2>3. x.id \in Ids
    BY <1>2 DEF Good, Shape, IsEntry
  <2>4. CASE Found(d, x.id)
    <3>1. Written(db, db', x.id, [TraceOf(db, x.id) EXCEPT !.vec = NoVec]) /\ Found(db, x.id)
      BY <1>3, <1>4, <2>2, <2>3, <2>4
    <3> QED
      BY <1>1, <1>3, <2>2, <2>3, <3>1
  <2>5. CASE ~Found(d, x.id)
    <3>1. SameTraces(db, db')
      BY <1>3, <2>2, <2>5 DEF SameTraces, Written
    <3> QED
      BY <1>1, <1>3, <2>2, <3>1
  <2> QED
    BY <2>4, <2>5
<1>7. CASE \E c \in d.cents :
             db' = [d EXCEPT !.cents = (@ \ {c}) \cup {[c EXCEPT !.size = 0, !.dim = Damaged]}]
  <2>1. SameTraces(d, db')
    <3>1. PICK c \in d.cents :
             db' = [d EXCEPT !.cents = (@ \ {c}) \cup {[c EXCEPT !.size = 0, !.dim = Damaged]}]
      BY <1>7
    <3> QED
      BY <1>2, <3>1, CentroidLostIs
  <2>2. SameTraces(db, db')
    BY <1>3, <2>1 DEF SameTraces
  <2> QED
    BY <1>1, <2>2 DEF SameTraces
<1> QED
  BY <1>1, <1>5, <1>6, <1>7

LEMMA DamageKeeps ==
  ASSUME IInv, NEW kind, DamageFile(kind)
  PROVE  Sound(db') /\ tx' = NoTx
<1>1. Good(db) /\ Counted(db)
  BY DEF IInv, Sound
<1>2. Good(db')
  BY <1>1, DamageIs DEF SameTraces, Written
<1>3. Counted(db')
  BY <1>1, DamageIs, SameCount
<1> QED
  BY <1>1, <1>2, <1>3, DamageIs DEF Sound

LEMMA InitInvariant == Init => IInv
  BY EmptyIsSound DEF Init, IInv

LEMMA NextPreserves ==
  ASSUME IInv, [Next]_vars
  PROVE  IInv'
<1>1. CASE UNCHANGED vars
  BY <1>1 DEF vars, IInv
<1>2. CASE BeginWrite
  BY <1>2 DEF BeginWrite, IInv
<1>3. CASE CommitWrite \/ FailWrite
  BY <1>3 DEF CommitWrite, FailWrite, IInv
<1>4. CASE Reopen
  <2>1. Sound(Closed(db))
    BY ClosedIs, SameIsSound DEF IInv, Sound
  <2> QED
    BY <1>4, <2>1 DEF Reopen, IInv
<1>5. CASE ClearStore
  BY <1>5, EmptyIsSound DEF ClearStore, IInv
<1>6. ASSUME NEW i \in Ids, WriteOf(i)
      PROVE  IInv'
  BY <1>6, WriteKeeps DEF IInv
<1>7. ASSUME NEW m \in Models, ReadLists(m)
      PROVE  IInv'
  <2>1. Sound(db')
    BY <1>7, ReadListsIs, SameIsSound DEF IInv, Sound
  <2> QED
    BY <1>7, <2>1 DEF ReadLists, IInv
<1>8. ASSUME NEW kind, DamageFile(kind)
      PROVE  IInv'
  BY <1>8, DamageKeeps DEF IInv
<1>9. Next => \/ BeginWrite \/ CommitWrite \/ FailWrite \/ Reopen \/ ClearStore
              \/ \E i \in Ids : WriteOf(i)
              \/ \E m \in Models : ReadLists(m)
              \/ \E kind : DamageFile(kind)
  BY DEF Next, WriteOf
<1> QED
  BY <1>1, <1>2, <1>3, <1>4, <1>5, <1>6, <1>7, <1>8, <1>9

LEMMA Invariance == Spec => []IInv
  BY InitInvariant, NextPreserves, PTL DEF Spec

-----------------------------------------------------------------------------
(* The centroids, on file and in memory.                                   *)

\* A centroid of a list that has been numbered.
IsCentroid(c, next) ==
    /\ DOMAIN c = ListFields
    /\ c.model \in Models /\ c.list \in Nat \ {0} /\ c.size \in Nat
    /\ c.list <= next[c.model]

\* One centroid for each list; only a damaged one has no size.
OnFile(cents, next) ==
    /\ \A c \in cents : IsCentroid(c, next) /\ (c.dim = Damaged \/ c.size > 0)
    /\ \A c \in cents, k \in cents : c.model = k.model /\ c.list = k.list => c = k

\* The centroids of model m in memory are those on file, and perhaps lists without members.
InMemory(mine, cents, next, m) ==
    /\ \A c \in mine : IsCentroid(c, next) /\ c.model = m
    /\ \A c \in mine, k \in mine : c.list = k.list => c = k
    /\ {c \in mine : c.size > 0} = {c \in cents : c.model = m}

\* Everything of the tables that lists and centroids depend on.
CentroidsKept(d) ==
    /\ DOMAIN d = Fields
    /\ DOMAIN d.next = Models /\ \A m \in Models : d.next[m] \in Nat
    /\ DOMAIN d.seen = Models /\ d.read \subseteq Models
    /\ IsFiniteSet(d.lists) /\ \A e \in d.lists : DOMAIN e = EntryFields
    /\ OnFile(d.cents, d.next)
    /\ \A m \in d.read : InMemory(d.seen[m], d.cents, d.next, m)

\* Saving one centroid on both sides keeps them alike.
LEMMA SaveKeeps ==
  ASSUME NEW cents, NEW next, NEW m, NEW mine, NEW c, NEW new,
         OnFile(cents, next), InMemory(mine, cents, next, m),
         IsCentroid(c, next), c.model = m,
         \/ new = {x \in mine : x.list # c.list} \cup {c}
         \/ c.size = 0 /\ new = {x \in mine : x.list # c.list}
  PROVE  /\ OnFile(SaveList(cents, c), next)
         /\ InMemory(new, SaveList(cents, c), next, m)
<1> DEFINE saved == SaveList(cents, c)
<1>0. c.size \in Nat /\ (c.size = 0 \/ c.size > 0)
  BY DEF IsCentroid
<1>1. \A x : x \in saved <=> \/ x \in cents /\ ~(x.model = c.model /\ x.list = c.list)
                             \/ c.size # 0 /\ x = c
  BY DEF SaveList
<1> HIDE DEF saved
<1>2. OnFile(saved, next)
  BY <1>0, <1>1 DEF OnFile
<1>3. \A x \in new : x = c \/ (x \in mine /\ x.list # c.list)
  OBVIOUS
<1>4. (\A x \in new : IsCentroid(x, next) /\ x.model = m)
      /\ (\A x \in new, k \in new : x.list = k.list => x = k)
  BY <1>3 DEF InMemory
<1>5. ASSUME NEW x
      PROVE  (x \in new /\ x.size > 0) <=> (x \in saved /\ x.model = m)
  <2>1. (x \in mine /\ x.size > 0) <=> (x \in cents /\ x.model = m)
    BY DEF InMemory
  <2>2. x \in new /\ x.size > 0 <=> \/ x \in mine /\ x.size > 0 /\ x.list # c.list
                                    \/ x = c /\ c.size # 0
    BY <1>0
  <2> QED
    BY <1>1, <2>1, <2>2
<1>6. {x \in new : x.size > 0} = {x \in saved : x.model = m}
  BY <1>5
<1> QED
  BY <1>2, <1>4, <1>6 DEF InMemory, saved

\* The other models are not concerned.
LEMMA SaveElsewhere ==
  ASSUME NEW cents, NEW next, NEW m, NEW mine, NEW c, c.model # m,
         InMemory(mine, cents, next, m)
  PROVE  InMemory(mine, SaveList(cents, c), next, m)
<1>1. {x \in SaveList(cents, c) : x.model = m} = {x \in cents : x.model = m}
  BY DEF SaveList
<1> QED
  BY <1>1 DEF InMemory

LEMMA NextGrows ==
  ASSUME NEW cents, NEW next, NEW later,
         \A m \in Models : next[m] \in Nat /\ later[m] \in Nat /\ next[m] <= later[m]
  PROVE  /\ \A c : IsCentroid(c, next) => IsCentroid(c, later)
         /\ OnFile(cents, next) => OnFile(cents, later)
         /\ \A m, mine : InMemory(mine, cents, next, m) => InMemory(mine, cents, later, m)
<1>1. \A c : IsCentroid(c, next) => IsCentroid(c, later)
  BY DEF IsCentroid
<1> QED
  BY <1>1 DEF OnFile, InMemory

\* The tables a step of lists and centroids does not concern.
SameFiles(d, e) ==
    /\ DOMAIN e = Fields
    /\ e.lists = d.lists /\ e.cents = d.cents /\ e.next = d.next
    /\ e.read = d.read /\ e.seen = d.seen

LEMMA SameFilesKept ==
  ASSUME NEW d, CentroidsKept(d), NEW e, SameFiles(d, e)
  PROVE  CentroidsKept(e)
  BY DEF CentroidsKept, SameFiles

\* The centroids a writer works on.
CentroidsOf(d, m) ==
    IF m \in d.read THEN d.seen[m]
    ELSE LET table == {c \in d.cents : c.model = m}
             lost == {c \in table : c.dim = Damaged}
         IN  (table \ lost) \cup {Rebuilt(d, m, c.list) : c \in lost}

LEMMA ListsOfKept ==
  ASSUME NEW d, CentroidsKept(d), NEW m \in Models
  PROVE  LET e == ListsOf(d, m)
         IN  /\ CentroidsKept(e) /\ m \in e.read /\ e.seen[m] = CentroidsOf(d, m)
             /\ e.lists = d.lists /\ e.next = d.next /\ e.listed = d.listed
             /\ (\A c \in d.cents : c.dim # Damaged) => e.cents = d.cents
<1>1. CASE m \in d.read
  BY <1>1 DEF ListsOf, CentroidsOf
<1>2. CASE m \notin d.read
  <2> DEFINE table == {c \in d.cents : c.model = m}
             lost == {c \in table : c.dim = Damaged}
             fresh == {Rebuilt(d, m, c.list) : c \in lost}
             mine == (table \ lost) \cup fresh
             cents == (d.cents \ lost) \cup {c \in fresh : c.size > 0}
             read == d.read \cup {m}
             seen == [d.seen EXCEPT ![m] = mine]
             e == [d EXCEPT !.cents = cents, !.read = read, !.seen = seen]
  <2>1. ListsOf(d, m) = e
    BY <1>2 DEF ListsOf
  <2>2. mine = CentroidsOf(d, m)
    BY <1>2 DEF CentroidsOf
  <2>3. /\ OnFile(d.cents, d.next)
        /\ \A k \in d.read : InMemory(d.seen[k], d.cents, d.next, k)
        /\ \A k \in Models : d.next[k] \in Nat
    BY DEF CentroidsKept
  <2>4. ASSUME NEW c \in lost
        PROVE  /\ IsCentroid(Rebuilt(d, m, c.list), d.next)
               /\ Rebuilt(d, m, c.list).model = m /\ Rebuilt(d, m, c.list).list = c.list
    <3> DEFINE whole == {x \in Members(d, m, c.list) : x.vec # Damaged}
    <3>1. Cardinality(whole) \in Nat
      <4>1. whole \in SUBSET d.lists
        BY DEF Members
      <4>2. IsFiniteSet(whole)
        BY <4>1, FS_Subset DEF CentroidsKept
      <4> QED
        BY <4>2, FS_CardinalityType
    <3> HIDE DEF whole
    <3>2. Rebuilt(d, m, c.list) =
             [model |-> m, list |-> c.list, size |-> Cardinality(whole),
              dim |-> IF whole = {} THEN NoDim ELSE DimOf[(CHOOSE x \in whole : TRUE).vec]]
      BY DEF Rebuilt, whole
    <3>3. c.list \in Nat \ {0} /\ c.list <= d.next[m]
      BY <2>3 DEF OnFile, IsCentroid
    <3> QED
      BY <3>1, <3>2, <3>3 DEF IsCentroid, ListFields
  <2>5. ASSUME NEW x \in fresh
        PROVE  /\ IsCentroid(x, d.next) /\ x.model = m
               /\ \E c \in lost : x.list = c.list /\ x = Rebuilt(d, m, c.list)
    BY <2>4, <2>5
  <2> HIDE DEF fresh
  <2>6. OnFile(cents, d.next)
    <3>1. \A c \in cents : IsCentroid(c, d.next) /\ (c.dim = Damaged \/ c.size > 0)
      BY <2>3, <2>5 DEF OnFile
    <3>2. ASSUME NEW c \in cents, NEW k \in cents, c.model = k.model, c.list = k.list
          PROVE  c = k
      <4>1. CASE c \in d.cents \ lost /\ k \in d.cents \ lost
        BY <2>3, <3>2, <4>1 DEF OnFile
      <4>2. CASE c \in fresh /\ k \in fresh
        BY <2>5, <3>2, <4>2
      <4>3. CASE c \in d.cents \ lost /\ k \in fresh
        BY <2>3, <2>5, <3>2, <4>3 DEF OnFile
      <4>4. CASE c \in fresh /\ k \in d.cents \ lost
        BY <2>3, <2>5, <3>2, <4>4 DEF OnFile
      <4> QED
        BY <4>1, <4>2, <4>3, <4>4
    <3> QED
      BY <3>1, <3>2 DEF OnFile
  <2>7. InMemory(mine, cents, d.next, m)
    <3>1. \A c \in mine : IsCentroid(c, d.next) /\ c.model = m
      BY <2>3, <2>5 DEF OnFile
    <3>2. ASSUME NEW c \in mine, NEW k \in mine, c.list = k.list
          PROVE  c = k
      <4>1. CASE c \in table \ lost /\ k \in table \ lost
        BY <2>3, <3>2, <4>1 DEF OnFile
      <4>2. CASE c \in fresh /\ k \in fresh
        BY <2>5, <3>2, <4>2
      <4>3. CASE c \in table \ lost /\ k \in fresh
        BY <2>3, <2>5, <3>2, <4>3 DEF OnFile
      <4>4. CASE c \in fresh /\ k \in table \ lost
        BY <2>3, <2>5, <3>2, <4>4 DEF OnFile
      <4> QED
        BY <4>1, <4>2, <4>3, <4>4
    <3>3. ASSUME NEW c
          PROVE  (c \in mine /\ c.size > 0) <=> (c \in cents /\ c.model = m)
      BY <2>3, <2>5 DEF OnFile
    <3>4. {c \in mine : c.size > 0} = {c \in cents : c.model = m}
      BY <3>3
    <3> QED
      BY <3>1, <3>2, <3>4 DEF InMemory
  <2>8. ASSUME NEW k \in d.read
        PROVE  InMemory(d.seen[k], cents, d.next, k)
    <3>1. k # m
      BY <1>2
    <3>2. {c \in cents : c.model = k} = {c \in d.cents : c.model = k}
      BY <2>5, <3>1
    <3> QED
      BY <2>3, <3>2 DEF InMemory
  <2>9. (\A c \in d.cents : c.dim # Damaged) => cents = d.cents
    <3>1. (\A c \in d.cents : c.dim # Damaged) => lost = {} /\ fresh = {}
      BY <2>5
    <3> QED
      BY <3>1
  <2>10. read \subseteq Models /\ m \in read /\ \A k \in read : k = m \/ k \in d.read
    BY DEF CentroidsKept
  <2>11. DOMAIN seen = Models /\ seen[m] = mine /\ \A k \in Models \ {m} : seen[k] = d.seen[k]
    BY DEF CentroidsKept
  <2> HIDE DEF cents, read, seen, mine, table, lost
  <2>12. /\ DOMAIN e = Fields /\ e.cents = cents /\ e.read = read /\ e.seen = seen
         /\ e.lists = d.lists /\ e.next = d.next /\ e.listed = d.listed
    BY DEF CentroidsKept, Fields
  <2> HIDE DEF e
  <2>13. \A k \in read : InMemory(seen[k], cents, d.next, k)
    BY <1>2, <2>7, <2>8, <2>10, <2>11 DEF CentroidsKept
  <2>14. CentroidsKept(e)
    BY <2>6, <2>10, <2>11, <2>12, <2>13 DEF CentroidsKept
  <2> QED
    BY <2>1, <2>2, <2>9, <2>10, <2>11, <2>12, <2>14
<1> QED
  BY <1>1, <1>2

\* The list a writer files a vector in: one of its dimension, or the next number.
MayFile(d, m, v, to) ==
    \/ \E c \in CentroidsOf(d, m) : c.list = to /\ c.dim = DimOf[v]
    \/ to = d.next[m] + 1

LEMMA TargetsMayFile ==
  ASSUME NEW d, CentroidsKept(d), NEW m \in Models, NEW v, v # NoVec, NEW to \in Targets(d, m, v)
  PROVE  MayFile(d, m, v, to)
<1>1. ListsOf(d, m).seen[m] = CentroidsOf(d, m)
  BY ListsOfKept
<1> QED
  BY <1>1 DEF Targets, Fits, MayFile

\* A vector filed: one entry more in list `to`, whose centroid is saved.
FiledAs(d, i, t, v, to, e) ==
    LET b == ListsOf(d, t.model)
    IN  /\ e.lists = {x \in d.lists : ~(x.model = t.model /\ x.list = to /\ x.id = i)}
                        \cup {NewEntry(i, t, v, to)}
        /\ \E c : /\ c.model = t.model /\ c.list = to /\ c.dim = DimOf[v] /\ c.size \in Nat
                  /\ c \in b.seen[t.model] \/ (c.size = 0 /\ to = d.next[t.model] + 1)
                  /\ e.cents = SaveList(b.cents, [c EXCEPT !.size = @ + 1])
                  /\ DOMAIN c = ListFields

LEMMA FiledKept ==
  ASSUME NEW d, CentroidsKept(d), NEW i, NEW t, t.model \in Models, NEW v, NEW to,
         MayFile(d, t.model, v, to)
  PROVE  LET e == Filed(d, i, t, v, to)
         IN  CentroidsKept(e) /\ t.model \in e.read /\ FiledAs(d, i, t, v, to, e)
<1> DEFINE m == t.model
           b == ListsOf(d, m)
           held == {c \in b.seen[m] : c.list = to /\ c.dim = DimOf[v]}
           c == IF held = {}
                THEN [model |-> m, list |-> to, size |-> 0, dim |-> DimOf[v]]
                ELSE CHOOSE x \in held : TRUE
           grown == [c EXCEPT !.size = @ + 1]
           next == [b.next EXCEPT ![m] = IF held = {} THEN to ELSE @]
           lists == {x \in b.lists : ~(x.model = m /\ x.list = to /\ x.id = i)}
                      \cup {NewEntry(i, t, v, to)}
           listed == [b.listed EXCEPT ![i] = to]
           cents == SaveList(b.cents, grown)
           mine == (b.seen[m] \ {c}) \cup {grown}
           seen == [b.seen EXCEPT ![m] = mine]
           e == [b EXCEPT !.next = next, !.lists = lists, !.listed = listed, !.cents = cents,
                          !.seen = seen]
<1>1. Filed(d, i, t, v, to) = e
  BY DEF Filed, NewEntry
<1>2. /\ CentroidsKept(b) /\ m \in b.read /\ b.seen[m] = CentroidsOf(d, m)
      /\ b.lists = d.lists /\ b.next = d.next
  BY ListsOfKept
<1> HIDE DEF b
<1>3. /\ OnFile(b.cents, b.next) /\ InMemory(b.seen[m], b.cents, b.next, m)
      /\ \A k \in b.read : InMemory(b.seen[k], b.cents, b.next, k)
      /\ \A k \in Models : b.next[k] \in Nat
      /\ DOMAIN b.next = Models /\ DOMAIN b.seen = Models /\ b.read \subseteq Models
      /\ DOMAIN b = Fields
      /\ IsFiniteSet(b.lists) /\ \A x \in b.lists : DOMAIN x = EntryFields
  BY <1>2 DEF CentroidsKept
<1>4. held = {} => to = b.next[m] + 1
  BY <1>2 DEF MayFile
<1>5. held # {} => c \in held
  OBVIOUS
<1>6. /\ DOMAIN c = ListFields /\ c.model = m /\ c.list = to /\ c.dim = DimOf[v]
      /\ c.size \in Nat /\ to \in Nat \ {0}
      /\ held = {} => c.size = 0
      /\ held # {} => c \in b.seen[m] /\ to <= b.next[m]
  <2>1. CASE held = {}
    BY <1>3, <1>4, <2>1 DEF ListFields
  <2>2. CASE held # {}
    <3>1. c \in held
      BY <1>5, <2>2
    <3>2. IsCentroid(c, b.next) /\ c.model = m /\ c.list = to /\ c.dim = DimOf[v]
      BY <1>3, <3>1 DEF InMemory
    <3> HIDE DEF c
    <3> QED
      BY <2>2, <3>1, <3>2 DEF IsCentroid
  <2> QED
    BY <2>1, <2>2
<1> HIDE DEF c
<1>7. DOMAIN next = Models /\ \A k \in Models : next[k] \in Nat /\ b.next[k] <= next[k]
  BY <1>3, <1>4, <1>6
<1>8. to <= next[m]
  BY <1>3, <1>6
<1> HIDE DEF next
<1>9. /\ IsCentroid(grown, next) /\ grown.model = m /\ grown.list = to /\ grown.size = c.size + 1
  BY <1>6, <1>8 DEF IsCentroid, ListFields
<1>10. b.seen[m] \ {c} = {x \in b.seen[m] : x.list # to}
  <2>1. CASE held = {}
    <3>1. \A x \in b.seen[m] : x.list \in Nat /\ x.list <= b.next[m]
      BY <1>3 DEF InMemory, IsCentroid
    <3>2. to = b.next[m] + 1 /\ b.next[m] \in Nat
      BY <1>3, <1>4, <2>1
    <3>3. \A x \in b.seen[m] : x.list # to
      BY <3>1, <3>2
    <3> QED
      BY <1>6, <3>3
  <2>2. CASE held # {}
    BY <1>3, <1>6, <2>2 DEF InMemory
  <2> QED
    BY <2>1, <2>2
<1>11. mine = {x \in b.seen[m] : x.list # grown.list} \cup {grown}
  BY <1>9, <1>10
<1> HIDE DEF grown, mine, held
<1>12. /\ OnFile(b.cents, next) /\ InMemory(b.seen[m], b.cents, next, m)
       /\ \A k \in b.read : InMemory(b.seen[k], b.cents, next, k)
  BY <1>3, <1>7, NextGrows
<1>13. OnFile(cents, next) /\ InMemory(mine, cents, next, m)
  BY <1>9, <1>11, <1>12, SaveKeeps
<1>14. \A k \in b.read \ {m} : InMemory(b.seen[k], cents, next, k)
  BY <1>9, <1>12, SaveElsewhere
<1>15. IsFiniteSet(lists)
  <2>1. {x \in b.lists : ~(x.model = m /\ x.list = to /\ x.id = i)} \in SUBSET b.lists
    OBVIOUS
  <2>2. IsFiniteSet({x \in b.lists : ~(x.model = m /\ x.list = to /\ x.id = i)})
    BY <1>3, <2>1, FS_Subset
  <2> QED
    BY <2>2, FS_AddElement
<1>16. \A x \in lists : DOMAIN x = EntryFields
  BY <1>3 DEF NewEntry, EntryFields
<1>17. DOMAIN seen = Models /\ seen[m] = mine /\ \A k \in Models \ {m} : seen[k] = b.seen[k]
  BY <1>3
<1>18. lists = {x \in d.lists : ~(x.model = t.model /\ x.list = to /\ x.id = i)}
                  \cup {NewEntry(i, t, v, to)}
  BY <1>2
<1>19. cents = SaveList(ListsOf(d, m).cents, [c EXCEPT !.size = @ + 1])
  BY DEF b, grown
<1>20. \/ c \in ListsOf(d, m).seen[m]
       \/ c.size = 0 /\ to = d.next[m] + 1
  BY <1>2, <1>4, <1>6 DEF b
<1> HIDE DEF lists, listed, cents, seen
<1>21. /\ DOMAIN e = Fields /\ e.next = next /\ e.lists = lists /\ e.cents = cents
       /\ e.seen = seen /\ e.read = b.read
  BY <1>3 DEF Fields
<1> HIDE DEF e
<1>22. CentroidsKept(e)
  <2>1. \A k \in b.read : InMemory(seen[k], cents, next, k)
    BY <1>3, <1>13, <1>14, <1>17
  <2> QED
    BY <1>3, <1>7, <1>13, <1>15, <1>16, <1>17, <1>21, <2>1 DEF CentroidsKept
<1>23. FiledAs(d, i, t, v, to, e)
  BY <1>6, <1>18, <1>19, <1>20, <1>21 DEF FiledAs
<1> QED
  BY <1>1, <1>2, <1>21, <1>22, <1>23

\* The tables without the entry of i in its list, whose centroid is still to be saved.
Taken(d, i, m) ==
    [d EXCEPT !.listed = [@ EXCEPT ![i] = 0],
              !.lists = {x \in @ : ~(x.model = m /\ x.list = d.listed[i] /\ x.id = i)}]

\* An entry taken out of its list, whose centroid, if there is one, is saved.
UnlistedAs(d, i, m, e) ==
    LET l == d.listed[i]
        b == ListsOf(Taken(d, i, m), m)
    IN  /\ e.lists = {x \in d.lists : ~(x.model = m /\ x.list = l /\ x.id = i)}
        /\ CentroidsKept(b) /\ m \in b.read
        /\ (\A c \in d.cents : c.dim # Damaged) => b.cents = d.cents
        /\ \/ (\A c \in b.seen[m] : c.list # l) /\ e.cents = b.cents
           \/ \E c \in b.seen[m] :
                 c.list = l /\ e.cents = SaveList(b.cents, [c EXCEPT !.size = Less(@, 1)])

LEMMA UnlistKept ==
  ASSUME NEW d, CentroidsKept(d), NEW i, NEW m \in Models
  PROVE  LET e == Unlist(d, i, m)
         IN  /\ CentroidsKept(e)
             /\ IF d.listed[i] = 0 THEN e = d ELSE UnlistedAs(d, i, m, e)
<1>1. CASE d.listed[i] = 0
  BY <1>1 DEF Unlist
<1>2. CASE d.listed[i] # 0
  <2> DEFINE l == d.listed[i]
             listed == [d.listed EXCEPT ![i] = 0]
             lists == {x \in d.lists : ~(x.model = m /\ x.list = l /\ x.id = i)}
             taken == [d EXCEPT !.listed = listed, !.lists = lists]
             b == ListsOf(taken, m)
             held == {c \in b.seen[m] : c.list = l}
             c == CHOOSE x \in held : TRUE
             smaller == [c EXCEPT !.size = Less(@, 1)]
             cents == SaveList(b.cents, smaller)
             mine == (b.seen[m] \ {c}) \cup (IF smaller.size = 0 THEN {} ELSE {smaller})
             seen == [b.seen EXCEPT ![m] = mine]
             f == [b EXCEPT !.cents = cents, !.seen = seen]
  <2>1. Unlist(d, i, m) = IF held = {} THEN b ELSE f
    BY <1>2 DEF Unlist
  <2>2. IsFiniteSet(lists) /\ \A x \in lists : DOMAIN x = EntryFields
    <3>1. lists \in SUBSET d.lists
      OBVIOUS
    <3> QED
      BY <3>1, FS_Subset DEF CentroidsKept
  <2>3. taken = Taken(d, i, m)
    BY DEF Taken
  <2> HIDE DEF listed
  <2>4. lists = {x \in d.lists : ~(x.model = m /\ x.list = d.listed[i] /\ x.id = i)}
    OBVIOUS
  <2> HIDE DEF lists
  <2>5. /\ DOMAIN taken = Fields /\ taken.lists = lists /\ taken.cents = d.cents
        /\ taken.next = d.next /\ taken.read = d.read /\ taken.seen = d.seen
    BY DEF CentroidsKept, Fields
  <2> HIDE DEF taken
  <2>6. CentroidsKept(taken)
    BY <2>2, <2>5 DEF CentroidsKept
  <2>7. /\ CentroidsKept(b) /\ m \in b.read /\ b.lists = lists
        /\ (\A x \in d.cents : x.dim # Damaged) => b.cents = d.cents
    BY <2>5, <2>6, ListsOfKept
  <2>8. b = ListsOf(taken, m)
    OBVIOUS
  <2> HIDE DEF b
  <2>9. /\ OnFile(b.cents, b.next) /\ InMemory(b.seen[m], b.cents, b.next, m)
        /\ \A k \in b.read : InMemory(b.seen[k], b.cents, b.next, k)
        /\ DOMAIN b.seen = Models /\ b.read \subseteq Models /\ DOMAIN b = Fields
    BY <2>7 DEF CentroidsKept
  <2>10. ASSUME held # {}
         PROVE  CentroidsKept(f) /\ f.cents = cents /\ f.lists = lists /\ c \in b.seen[m] /\ c.list = l
    <3>1. c \in held
      BY <2>10
    <3>2. IsCentroid(c, b.next) /\ c.model = m /\ c.list = l /\ c \in b.seen[m]
      BY <2>9, <3>1 DEF InMemory
    <3> HIDE DEF c
    <3>3. IsCentroid(smaller, b.next) /\ smaller.model = m /\ smaller.list = l
      <4>1. Less(c.size, 1) \in Nat
        BY <3>2 DEF IsCentroid, Less
      <4> QED
        BY <3>2, <4>1 DEF IsCentroid, ListFields
    <3>4. b.seen[m] \ {c} = {x \in b.seen[m] : x.list # smaller.list}
      BY <2>9, <3>2, <3>3 DEF InMemory
    <3> HIDE DEF smaller
    <3>5. OnFile(cents, b.next) /\ InMemory(mine, cents, b.next, m)
      BY <2>9, <3>3, <3>4, SaveKeeps
    <3>6. \A k \in b.read \ {m} : InMemory(b.seen[k], cents, b.next, k)
      BY <2>9, <3>3, SaveElsewhere
    <3> HIDE DEF mine, cents
    <3>7. DOMAIN seen = Models /\ seen[m] = mine /\ \A k \in Models \ {m} : seen[k] = b.seen[k]
      BY <2>9
    <3> HIDE DEF seen
    <3>8. /\ DOMAIN f = Fields /\ f.cents = cents /\ f.seen = seen
          /\ f.lists = b.lists /\ f.next = b.next /\ f.read = b.read
      BY <2>9 DEF Fields
    <3> HIDE DEF f
    <3>9. \A k \in b.read : InMemory(seen[k], cents, b.next, k)
      BY <2>9, <3>5, <3>6, <3>7
    <3>10. CentroidsKept(f)
      BY <2>7, <3>5, <3>7, <3>8, <3>9 DEF CentroidsKept
    <3> QED
      BY <2>7, <3>2, <3>8, <3>10
  <2> HIDE DEF f, c
  <2>11. CentroidsKept(Unlist(d, i, m)) /\ Unlist(d, i, m).lists = lists
    BY <2>1, <2>7, <2>10
  <2>12. \/ (\A k \in b.seen[m] : k.list # l) /\ Unlist(d, i, m).cents = b.cents
         \/ \E k \in b.seen[m] :
               k.list = l /\ Unlist(d, i, m).cents = SaveList(b.cents, [k EXCEPT !.size = Less(@, 1)])
    <3>1. CASE held = {}
      BY <2>1, <3>1
    <3>2. CASE held # {}
      BY <2>1, <2>10, <3>2
    <3> QED
      BY <3>1, <3>2
  <2>13. UnlistedAs(d, i, m, Unlist(d, i, m))
    BY <2>3, <2>4, <2>7, <2>8, <2>11, <2>12 DEF UnlistedAs
  <2> QED
    BY <1>2, <2>11, <2>13
<1> QED
  BY <1>1, <1>2

\* A list divided: some of its entries moved to the next list, both centroids saved.
SplitAs(d, m, c, far, e) ==
    LET members == Members(d, m, c.list)
        moved == {x \in members : x.vec \in far}
        new == d.next[m] + 1
        old == [c EXCEPT !.size = Less(@, Cardinality(moved))]
        fresh == [c EXCEPT !.list = new, !.size = Cardinality(moved)]
    IN  /\ moved # {}
        /\ e.lists = (d.lists \ moved) \cup {[x EXCEPT !.list = new] : x \in moved}
        /\ e.cents = SaveList(SaveList(d.cents, old), fresh)

LEMMA SplitKept ==
  ASSUME NEW d, CentroidsKept(d), NEW m \in d.read, NEW c \in d.seen[m], NEW far
  PROVE  LET e == Split(d, m, c, far)
         IN  /\ CentroidsKept(e) /\ IsFiniteSet(Members(d, m, c.list))
             /\ IsCentroid(c, d.next) /\ c.model = m
             /\ e = d \/ SplitAs(d, m, c, far, e)
<1> DEFINE members == Members(d, m, c.list)
           moved == {x \in members : x.vec \in far}
           new == d.next[m] + 1
           old == [c EXCEPT !.size = Less(@, Cardinality(moved))]
           fresh == [c EXCEPT !.list = new, !.size = Cardinality(moved)]
           next == [d.next EXCEPT ![m] = new]
           lists == (d.lists \ moved) \cup {[x EXCEPT !.list = new] : x \in moved}
           listed == [i \in Ids |-> IF \E x \in moved : x.id = i THEN new ELSE d.listed[i]]
           cents == SaveList(SaveList(d.cents, old), fresh)
           mine == (d.seen[m] \ {c}) \cup {old, fresh}
           seen == [d.seen EXCEPT ![m] = mine]
           f == [d EXCEPT !.next = next, !.lists = lists, !.listed = listed,
                          !.cents = cents, !.seen = seen]
<1>1. Split(d, m, c, far) = IF moved = {} \/ moved = members THEN d ELSE f
  BY DEF Split
<1>2. members \in SUBSET d.lists /\ moved \in SUBSET d.lists
  BY DEF Members
<1>3. /\ DOMAIN d = Fields /\ DOMAIN d.next = Models /\ DOMAIN d.seen = Models
      /\ d.read \subseteq Models /\ \A k \in Models : d.next[k] \in Nat
      /\ IsFiniteSet(d.lists) /\ \A x \in d.lists : DOMAIN x = EntryFields
      /\ OnFile(d.cents, d.next)
      /\ \A k \in d.read : InMemory(d.seen[k], d.cents, d.next, k)
  BY DEF CentroidsKept
<1>4. IsFiniteSet(members) /\ IsFiniteSet(moved) /\ Cardinality(moved) \in Nat
  BY <1>2, <1>3, FS_Subset, FS_CardinalityType
<1>5. IsCentroid(c, d.next) /\ c.model = m
  BY <1>3 DEF InMemory
<1>6. /\ DOMAIN next = Models /\ \A k \in Models : next[k] \in Nat /\ d.next[k] <= next[k]
      /\ next[m] = new /\ new \in Nat \ {0} /\ new > d.next[m]
  BY <1>3
<1>7. lists = (d.lists \ moved) \cup {[x EXCEPT !.list = new] : x \in moved}
      /\ cents = SaveList(SaveList(d.cents, old), fresh)
  OBVIOUS
<1>8. IsFiniteSet(lists)
  <2> DEFINE image == {[x EXCEPT !.list = new] : x \in moved}
             g == [x \in moved |-> [x EXCEPT !.list = new]]
  <2>1. g \in Surjection(moved, image)
    BY DEF Surjection
  <2>2. IsFiniteSet(image)
    BY <1>4, <2>1, FS_Surjection
  <2>3. IsFiniteSet(d.lists \ moved)
    BY <1>3, FS_Difference
  <2> QED
    BY <2>2, <2>3, FS_Union
<1>9. \A x \in lists : DOMAIN x = EntryFields
  BY <1>2, <1>3
<1> HIDE DEF members, moved, lists, listed, next, new
<1>10. IsCentroid(old, next) /\ old.model = m /\ old.list = c.list
  <2>1. Less(c.size, Cardinality(moved)) \in Nat
    BY <1>4, <1>5 DEF IsCentroid, Less
  <2>2. c.list <= next[m]
    BY <1>3, <1>5, <1>6 DEF IsCentroid
  <2> QED
    BY <1>5, <2>1, <2>2 DEF IsCentroid, ListFields
<1>11. IsCentroid(fresh, next) /\ fresh.model = m /\ fresh.list = new
  BY <1>3, <1>4, <1>5, <1>6 DEF IsCentroid, ListFields
<1> HIDE DEF old, fresh
<1>12. OnFile(d.cents, next) /\ \A k \in d.read : InMemory(d.seen[k], d.cents, next, k)
  BY <1>3, <1>6, NextGrows
<1> DEFINE half == SaveList(d.cents, old)
           some == (d.seen[m] \ {c}) \cup {old}
<1>13. some = {x \in d.seen[m] : x.list # old.list} \cup {old}
  BY <1>3, <1>10 DEF InMemory
<1>14. OnFile(half, next) /\ InMemory(some, half, next, m)
  <2> HIDE DEF some
  <2> QED
    BY <1>10, <1>12, <1>13, SaveKeeps
<1>15. mine = {x \in some : x.list # fresh.list} \cup {fresh}
  <2>1. \A x \in some : x.list # new
    <3>1. \A x \in d.seen[m] : x.list \in Nat /\ x.list <= d.next[m]
      BY <1>3 DEF InMemory, IsCentroid
    <3> QED
      BY <1>3, <1>6, <1>10, <3>1
  <2> QED
    BY <1>11, <2>1
<1> HIDE DEF half, some, mine
<1>16. OnFile(cents, next) /\ InMemory(mine, cents, next, m)
  BY <1>11, <1>14, <1>15, SaveKeeps DEF half
<1>17. \A k \in d.read \ {m} : InMemory(d.seen[k], cents, next, k)
  <2>1. \A k \in d.read \ {m} : InMemory(d.seen[k], half, next, k)
    BY <1>10, <1>12, SaveElsewhere DEF half
  <2> QED
    BY <1>11, <2>1, SaveElsewhere DEF half
<1> HIDE DEF cents
<1>18. DOMAIN seen = Models /\ seen[m] = mine /\ \A k \in Models \ {m} : seen[k] = d.seen[k]
  BY <1>3
<1> HIDE DEF seen
<1>19. /\ DOMAIN f = Fields /\ f.next = next /\ f.lists = lists /\ f.cents = cents
       /\ f.seen = seen /\ f.read = d.read
  BY <1>3 DEF Fields
<1> HIDE DEF f
<1>20. CentroidsKept(f)
  <2>1. \A k \in d.read : InMemory(seen[k], cents, next, k)
    BY <1>3, <1>16, <1>17, <1>18
  <2> QED
    BY <1>3, <1>6, <1>8, <1>9, <1>16, <1>18, <1>19, <2>1 DEF CentroidsKept
<1>21. moved # {} => SplitAs(d, m, c, far, f)
  BY <1>7, <1>19 DEF SplitAs, members, moved, new, old, fresh
<1> QED
  BY <1>1, <1>4, <1>5, <1>20, <1>21 DEF members

-----------------------------------------------------------------------------
(* The sizes of lists.                                                     *)

In(lists, m, l) == {e \in lists : e.model = m /\ e.list = l}

\* What a centroid says of its list.
Tells(c, lists) ==
    /\ c.dim # Damaged
    /\ c.size = Cardinality(In(lists, c.model, c.list))
    /\ \A e \in In(lists, c.model, c.list) : e.vec # Damaged => DimOf[e.vec] = c.dim

SizesExact(lists, cents) ==
    /\ \A c \in cents : Tells(c, lists)
    /\ \A e \in lists : \E c \in cents : c.model = e.model /\ c.list = e.list

\* One list changed, and its centroid saved.
LEMMA SaveExact ==
  ASSUME NEW lists, NEW cents, SizesExact(lists, cents), NEW c, NEW new, IsFiniteSet(new),
         \A m, l : m # c.model \/ l # c.list => In(new, m, l) = In(lists, m, l),
         Tells(c, new)
  PROVE  SizesExact(new, SaveList(cents, c))
<1>1. ASSUME NEW k \in SaveList(cents, c)
      PROVE  Tells(k, new)
  <2>1. CASE k = c
    BY <2>1
  <2>2. CASE k \in cents /\ ~(k.model = c.model /\ k.list = c.list)
    BY <2>2 DEF SizesExact, Tells
  <2> QED
    BY <2>1, <2>2 DEF SaveList
<1>2. ASSUME NEW e \in new
      PROVE  \E k \in SaveList(cents, c) : k.model = e.model /\ k.list = e.list
  <2>1. CASE e.model = c.model /\ e.list = c.list
    <3>1. In(new, c.model, c.list) \in SUBSET new /\ e \in In(new, c.model, c.list)
      BY <2>1 DEF In
    <3>2. Cardinality(In(new, c.model, c.list)) # 0
      BY <3>1, FS_Subset, FS_EmptySet
    <3> QED
      BY <2>1, <3>2 DEF SaveList, Tells
  <2>2. CASE ~(e.model = c.model /\ e.list = c.list)
    <3>1. e \in In(lists, e.model, e.list)
      BY <2>2 DEF In
    <3>2. PICK k \in cents : k.model = e.model /\ k.list = e.list
      BY <3>1 DEF In, SizesExact
    <3> QED
      BY <2>2, <3>2 DEF SaveList
  <2> QED
    BY <2>1, <2>2
<1> QED
  BY <1>1, <1>2 DEF SizesExact

\* The centroids in memory tell the same.
LEMMA MemoryTells ==
  ASSUME NEW lists, NEW cents, SizesExact(lists, cents), NEW next, OnFile(cents, next),
         NEW m, NEW mine, InMemory(mine, cents, next, m)
  PROVE  /\ \A c \in mine :
               /\ c.size = Cardinality(In(lists, m, c.list))
               /\ \A e \in In(lists, m, c.list) : e.vec # Damaged => DimOf[e.vec] = c.dim
               /\ In(lists, m, c.list) # {} => c \in cents
         /\ \A l : (\A c \in mine : c.list # l) => In(lists, m, l) = {}
<1>1. ASSUME NEW k \in cents, k.model = m
      PROVE  k \in mine /\ k.size > 0
  <2>1. k.size > 0
    BY DEF SizesExact, Tells, OnFile
  <2>2. k \in {c \in mine : c.size > 0}
    BY <1>1 DEF InMemory
  <2> QED
    BY <2>1, <2>2
<1>2. ASSUME NEW l, NEW e \in In(lists, m, l)
      PROVE  \E k \in cents : k.model = m /\ k.list = l
  BY DEF In, SizesExact
<1>3. \A l : (\A c \in mine : c.list # l) => In(lists, m, l) = {}
  BY <1>1, <1>2
<1>4. ASSUME NEW c \in mine
      PROVE  /\ c.size = Cardinality(In(lists, m, c.list))
             /\ \A e \in In(lists, m, c.list) : e.vec # Damaged => DimOf[e.vec] = c.dim
             /\ In(lists, m, c.list) # {} => c \in cents
  <2>0. c.size \in Nat /\ c.model = m
    BY DEF InMemory, IsCentroid
  <2>1. CASE c.size > 0
    <3>1. c \in cents
      BY <2>1 DEF InMemory
    <3> QED
      BY <2>0, <3>1 DEF SizesExact, Tells
  <2>2. CASE c.size = 0
    <3>1. ASSUME NEW k \in cents, k.model = m, k.list = c.list
          PROVE  FALSE
      <4>1. k \in mine /\ k.size > 0
        BY <1>1, <3>1
      <4>2. k = c
        BY <3>1, <4>1 DEF InMemory
      <4> QED
        BY <2>2, <4>1, <4>2
    <3>2. In(lists, m, c.list) = {}
      BY <1>2, <3>1
    <3> QED
      BY <2>2, <3>2, FS_EmptySet
  <2> QED
    BY <2>0, <2>1, <2>2
<1> QED
  BY <1>3, <1>4

LEMMA FiledExact ==
  ASSUME NEW d, CentroidsKept(d), SizesExact(d.lists, d.cents), NEW i, NEW t, t.model \in Models,
         NEW v \in Vecs, NEW to, MayFile(d, t.model, v, to), \A x \in d.lists : x.id # i
  PROVE  LET e == Filed(d, i, t, v, to) IN SizesExact(e.lists, e.cents)
<1> DEFINE m == t.model
           b == ListsOf(d, m)
           e == Filed(d, i, t, v, to)
           y == NewEntry(i, t, v, to)
           here == In(d.lists, m, to)
           new == d.lists \cup {y}
<1>0. FiledAs(d, i, t, v, to, e)
  BY FiledKept
<1> HIDE DEF e
<1>1. e.lists = new
  BY <1>0 DEF FiledAs
<1>2. PICK c : /\ c.model = m /\ c.list = to /\ c.dim = DimOf[v] /\ c.size \in Nat
               /\ \/ c \in b.seen[m]
                  \/ c.size = 0 /\ to = d.next[m] + 1
               /\ e.cents = SaveList(b.cents, [c EXCEPT !.size = @ + 1])
               /\ DOMAIN c = ListFields
  BY <1>0 DEF FiledAs
<1>3. /\ CentroidsKept(b) /\ m \in b.read /\ b.next = d.next /\ b.cents = d.cents
  BY ListsOfKept DEF SizesExact, Tells
<1> HIDE DEF b
<1>4. OnFile(d.cents, d.next) /\ InMemory(b.seen[m], d.cents, d.next, m) /\ d.next[m] \in Nat
  BY <1>3 DEF CentroidsKept
<1>5. /\ \A k \in b.seen[m] :
            /\ k.size = Cardinality(In(d.lists, m, k.list))
            /\ \A x \in In(d.lists, m, k.list) : x.vec # Damaged => DimOf[x.vec] = k.dim
      /\ \A l : (\A k \in b.seen[m] : k.list # l) => In(d.lists, m, l) = {}
  BY <1>4, MemoryTells
<1>6. /\ c.size = Cardinality(here)
      /\ \A x \in here : x.vec # Damaged => DimOf[x.vec] = c.dim
  <2>1. CASE c \in b.seen[m]
    BY <1>2, <1>5, <2>1
  <2>2. CASE c.size = 0 /\ to = d.next[m] + 1
    <3>1. \A k \in b.seen[m] : k.list \in Nat /\ k.list <= d.next[m]
      BY <1>4 DEF InMemory, IsCentroid
    <3>2. \A k \in b.seen[m] : k.list # to
      BY <1>4, <2>2, <3>1
    <3>3. here = {}
      BY <1>5, <3>2
    <3> QED
      BY <2>2, <3>3, FS_EmptySet
  <2> QED
    BY <1>2, <2>1, <2>2
<1>7. y.id = i /\ y.model = m /\ y.list = to /\ y.vec = v
  BY DEF NewEntry
<1> HIDE DEF y
<1>8. /\ In(new, m, to) = here \cup {y} /\ y \notin here
      /\ \A n, l : n # m \/ l # to => In(new, n, l) = In(d.lists, n, l)
  BY <1>7 DEF In
<1>9. IsFiniteSet(here) /\ IsFiniteSet(new)
  <2>1. here \in SUBSET d.lists /\ IsFiniteSet(d.lists)
    BY DEF In, CentroidsKept
  <2> QED
    BY <2>1, FS_Subset, FS_AddElement
<1>10. Cardinality(In(new, m, to)) = c.size + 1
  BY <1>6, <1>8, <1>9, FS_AddElement
<1> DEFINE grown == [c EXCEPT !.size = @ + 1]
<1>11. grown.model = m /\ grown.list = to /\ grown.dim = DimOf[v] /\ grown.size = c.size + 1
  BY <1>2 DEF ListFields
<1> HIDE DEF grown, here, new
<1>12. Tells(grown, new)
  <2>1. DimOf[v] # Damaged
    BY StoreAssumption
  <2> QED
    BY <1>2, <1>6, <1>7, <1>8, <1>10, <1>11, <2>1 DEF Tells
<1>13. SizesExact(new, SaveList(d.cents, grown))
  BY <1>8, <1>9, <1>11, <1>12, SaveExact
<1> QED
  BY <1>1, <1>2, <1>3, <1>13 DEF e, grown

LEMMA UnlistExact ==
  ASSUME NEW d, CentroidsKept(d), SizesExact(d.lists, d.cents), OneEntry(d),
         NEW i, NEW m \in Models,
         \A x \in d.lists : x.id = i => x.model = m /\ x.list = d.listed[i],
         d.listed[i] # 0 => \E x \in d.lists : x.id = i
  PROVE  LET e == Unlist(d, i, m) IN SizesExact(e.lists, e.cents)
<1> DEFINE e == Unlist(d, i, m)
           l == d.listed[i]
           b == ListsOf(Taken(d, i, m), m)
<1>0. IF l = 0 THEN e = d ELSE UnlistedAs(d, i, m, e)
  BY UnlistKept
<1>1. ASSUME l # 0
      PROVE  /\ e.lists = {x \in d.lists : ~(x.model = m /\ x.list = l /\ x.id = i)}
             /\ CentroidsKept(b)
             /\ (\A c \in d.cents : c.dim # Damaged) => b.cents = d.cents
             /\ m \in b.read
             /\ \/ (\A c \in b.seen[m] : c.list # l) /\ e.cents = b.cents
                \/ \E c \in b.seen[m] :
                      c.list = l /\ e.cents = SaveList(b.cents, [c EXCEPT !.size = Less(@, 1)])
  <2> HIDE DEF e
  <2> QED
    BY <1>0, <1>1 DEF UnlistedAs
<1> HIDE DEF e, b
<1>2. CASE l = 0
  BY <1>0, <1>2 DEF e
<1>3. CASE l # 0
  <2>1. PICK y \in d.lists : y.id = i
    BY <1>3
  <2> DEFINE here == In(d.lists, m, l)
             new == d.lists \ {y}
  <2>2. y.model = m /\ y.list = l /\ y \in here
    BY <2>1 DEF In
  <2>3. e.lists = new
    <3>1. \A x \in d.lists : x.id = i <=> x = y
      BY <2>1 DEF OneEntry
    <3> QED
      BY <1>1, <1>3, <2>1, <2>2, <3>1
  <2>4. b.cents = d.cents /\ CentroidsKept(b) /\ m \in b.read
    BY <1>1, <1>3 DEF SizesExact, Tells
  <2>5. OnFile(d.cents, b.next) /\ InMemory(b.seen[m], d.cents, b.next, m)
    BY <2>4 DEF CentroidsKept
  <2>6. /\ \A c \in b.seen[m] :
              /\ c.size = Cardinality(In(d.lists, m, c.list))
              /\ \A x \in In(d.lists, m, c.list) : x.vec # Damaged => DimOf[x.vec] = c.dim
              /\ In(d.lists, m, c.list) # {} => c \in d.cents
        /\ \A k : (\A c \in b.seen[m] : c.list # k) => In(d.lists, m, k) = {}
    BY <2>5, MemoryTells
  <2>7. PICK c \in b.seen[m] :
           c.list = l /\ e.cents = SaveList(b.cents, [c EXCEPT !.size = Less(@, 1)])
    BY <1>1, <1>3, <2>2, <2>6
  <2>8. /\ c.size = Cardinality(here) /\ c \in d.cents
        /\ \A x \in here : x.vec # Damaged => DimOf[x.vec] = c.dim
    BY <2>2, <2>6, <2>7
  <2>9. DOMAIN c = ListFields /\ c.model = m /\ c.dim # Damaged
    BY <2>5, <2>8 DEF InMemory, IsCentroid, SizesExact, Tells
  <2>10. IsFiniteSet(here) /\ IsFiniteSet(new)
    <3>1. here \in SUBSET d.lists /\ new \in SUBSET d.lists /\ IsFiniteSet(d.lists)
      BY DEF In, CentroidsKept
    <3> QED
      BY <3>1, FS_Subset
  <2>11. /\ In(new, m, l) = here \ {y}
         /\ \A n, k : n # m \/ k # l => In(new, n, k) = In(d.lists, n, k)
    BY <2>2 DEF In
  <2>12. /\ Cardinality(here) \in Nat /\ Cardinality(here) # 0
         /\ Cardinality(here \ {y}) = Cardinality(here) - 1
    BY <2>2, <2>10, FS_RemoveElement, FS_CardinalityType, FS_EmptySet
  <2> DEFINE smaller == [c EXCEPT !.size = Less(@, 1)]
  <2>13. /\ smaller.model = m /\ smaller.list = l /\ smaller.dim = c.dim
         /\ smaller.size = Less(c.size, 1)
    BY <2>7, <2>9 DEF ListFields
  <2>14. Less(c.size, 1) = Cardinality(here \ {y})
    BY <2>8, <2>12 DEF Less
  <2> HIDE DEF smaller, here, new
  <2>15. Tells(smaller, new)
    <3>1. \A x \in In(new, m, l) : x.vec # Damaged => DimOf[x.vec] = c.dim
      BY <2>8, <2>11
    <3> QED
      BY <2>9, <2>11, <2>13, <2>14, <3>1 DEF Tells
  <2>16. SizesExact(new, SaveList(d.cents, smaller))
    BY <2>10, <2>11, <2>13, <2>15, SaveExact
  <2> QED
    BY <2>3, <2>4, <2>7, <2>16 DEF e, smaller
<1> QED
  BY <1>2, <1>3

LEMMA SplitExact ==
  ASSUME NEW d, CentroidsKept(d), SizesExact(d.lists, d.cents), OneEntry(d), NEW m \in d.read,
         NEW c \in d.seen[m], NEW far
  PROVE  LET e == Split(d, m, c, far) IN SizesExact(e.lists, e.cents)
<1> DEFINE e == Split(d, m, c, far)
           members == Members(d, m, c.list)
           moved == {x \in members : x.vec \in far}
           new == d.next[m] + 1
           At(x) == [x EXCEPT !.list = new]
           image == {At(x) : x \in moved}
           old == [c EXCEPT !.size = Less(@, Cardinality(moved))]
           fresh == [c EXCEPT !.list = new, !.size = Cardinality(moved)]
           left == d.lists \ moved
           lists == left \cup image
<1>0. e = d \/ SplitAs(d, m, c, far, e)
  BY SplitKept
<1>1. IsFiniteSet(members) /\ IsCentroid(c, d.next) /\ c.model = m
  BY SplitKept
<1> HIDE DEF e
<1>2. CASE e = d
  BY <1>2 DEF e
<1>3. CASE SplitAs(d, m, c, far, e)
  <2>0. /\ moved # {} /\ e.lists = lists
        /\ e.cents = SaveList(SaveList(d.cents, old), fresh)
    BY <1>3 DEF SplitAs
  <2>1. members = In(d.lists, m, c.list)
    BY DEF Members, In
  <2>2. moved \subseteq members /\ members \subseteq d.lists
    BY <2>1 DEF In
  <2>3. /\ OnFile(d.cents, d.next) /\ InMemory(d.seen[m], d.cents, d.next, m)
        /\ IsFiniteSet(d.lists) /\ d.next[m] \in Nat
        /\ \A x \in d.lists : DOMAIN x = EntryFields
    BY <1>1 DEF CentroidsKept, IsCentroid
  <2>4. /\ c.size = Cardinality(members) /\ c \in d.cents
        /\ \A x \in members : x.vec # Damaged => DimOf[x.vec] = c.dim
    <3>1. In(d.lists, m, c.list) # {}
      BY <2>0, <2>1, <2>2
    <3> QED
      BY <2>1, <2>3, <3>1, MemoryTells
  <2>5. c.dim # Damaged /\ DOMAIN c = ListFields
    BY <1>1, <2>4 DEF SizesExact, Tells, IsCentroid
  <2>6. ASSUME NEW x \in d.lists, x.model = m
        PROVE  x.list # new
    <3>1. PICK k \in d.cents : k.model = m /\ k.list = x.list
      BY <2>6 DEF SizesExact
    <3>2. k.list \in Nat /\ k.list <= d.next[m]
      BY <2>3, <3>1 DEF OnFile, IsCentroid
    <3> QED
      BY <2>3, <3>1, <3>2
  <2>7. new # c.list
    BY <2>0, <2>1, <2>2, <2>6 DEF In
  <2>8. ASSUME NEW x \in moved
        PROVE  /\ At(x).model = m /\ At(x).list = new /\ At(x).vec = x.vec
               /\ At(x).id = x.id /\ At(x).created = x.created
               /\ DOMAIN x = EntryFields /\ x.model = m /\ x.list = c.list
    BY <2>1, <2>2, <2>3 DEF In, EntryFields
  <2>9. /\ old.model = m /\ old.list = c.list /\ old.dim = c.dim
        /\ old.size = Less(c.size, Cardinality(moved))
        /\ fresh.model = m /\ fresh.list = new /\ fresh.dim = c.dim
        /\ fresh.size = Cardinality(moved)
    BY <1>1, <2>5 DEF ListFields
  <2>10. IsFiniteSet(moved) /\ Cardinality(moved) \in Nat /\ Cardinality(members) \in Nat
         /\ Cardinality(members \ moved) = Less(Cardinality(members), Cardinality(moved))
    <3>1. IsFiniteSet(moved)
      BY <1>1, <2>2, FS_Subset
    <3>2. /\ Cardinality(moved) <= Cardinality(members)
          /\ Cardinality(moved) \in Nat /\ Cardinality(members) \in Nat
      BY <1>1, <2>2, <3>1, FS_Subset, FS_CardinalityType
    <3>3. Cardinality(members \ moved) = Cardinality(members) - Cardinality(moved)
      <4>1. members \cap moved = moved
        BY <2>2
      <4>2. Cardinality(members \ moved) = Cardinality(members) - Cardinality(members \cap moved)
        <5> HIDE DEF members, moved
        <5> QED
          BY <1>1, FS_Difference
      <4> QED
        BY <4>1, <4>2
    <3> QED
      BY <3>1, <3>2, <3>3 DEF Less
  <2>11. IsFiniteSet(image) /\ Cardinality(image) = Cardinality(moved)
    <3> DEFINE g == [x \in moved |-> At(x)]
    <3>1. ASSUME NEW x \in moved, NEW y \in moved, At(x) = At(y)
          PROVE  x = y
      <4>1. x.id = y.id
        BY <2>8, <3>1
      <4> QED
        BY <2>2, <4>1 DEF OneEntry
    <3> HIDE DEF At
    <3>2. g \in [moved -> image]
      OBVIOUS
    <3>3. g \in Injection(moved, image)
      BY <3>1, <3>2 DEF Injection, IsInjective
    <3>4. g \in Surjection(moved, image)
      BY <3>2 DEF Surjection
    <3>5. ExistsBijection(moved, image)
      BY <3>3, <3>4 DEF ExistsBijection, Bijection
    <3> QED
      BY <2>10, <3>5, FS_Bijection
  <2> HIDE DEF old, fresh, At, new, members, moved
  <2>12. /\ In(left, m, c.list) = members \ moved
         /\ \A n, l : n # m \/ l # c.list => In(left, n, l) = In(d.lists, n, l)
    BY <2>1, <2>8 DEF In
  <2>13. In(left, m, new) = {}
    BY <2>6 DEF In
  <2>14. \A y \in image : y.model = m /\ y.list = new
    BY <2>8
  <2>15. /\ In(lists, m, new) = image
         /\ \A n, l : n # m \/ l # new => In(lists, n, l) = In(left, n, l)
    <3> HIDE DEF image, left
    <3> QED
      BY <2>13, <2>14 DEF In
  <2>16. IsFiniteSet(left) /\ IsFiniteSet(lists)
    BY <2>3, <2>11, FS_Difference, FS_Union
  <2>17. Tells(old, left)
    <3>1. \A x \in members \ moved : x.vec # Damaged => DimOf[x.vec] = c.dim
      BY <2>4
    <3> QED
      BY <2>4, <2>5, <2>9, <2>10, <2>12, <3>1 DEF Tells
  <2>18. SizesExact(left, SaveList(d.cents, old))
    BY <2>9, <2>12, <2>16, <2>17, SaveExact
  <2>19. Tells(fresh, lists)
    <3>1. \A y \in image : y.vec # Damaged => DimOf[y.vec] = c.dim
      BY <2>2, <2>4, <2>8
    <3> QED
      BY <2>5, <2>9, <2>11, <2>15, <3>1 DEF Tells
  <2>20. SizesExact(lists, SaveList(SaveList(d.cents, old), fresh))
    BY <2>9, <2>15, <2>16, <2>18, <2>19, SaveExact
  <2> QED
    BY <2>0, <2>20 DEF e
<1> QED
  BY <1>0, <1>2, <1>3

-----------------------------------------------------------------------------
(* The centroids and sizes through the writes.                             *)

\* `intact`: no centroid entry was ever damaged.
Kept(d, intact) == CentroidsKept(d) /\ (intact => SizesExact(d.lists, d.cents))

LEMMA SameFilesHold ==
  ASSUME NEW d, NEW intact, Kept(d, intact), NEW e, SameFiles(d, e)
  PROVE  Kept(e, intact)
  BY SameFilesKept DEF Kept, SameFiles

LEMMA SameFilesTwice ==
  ASSUME NEW d, NEW e, NEW f, SameFiles(d, e), SameFiles(e, f)
  PROVE  SameFiles(d, f)
  BY DEF SameFiles

LEMMA SameFilesFile ==
  ASSUME NEW d, NEW e, SameFiles(d, e), NEW m, NEW v, NEW to, MayFile(d, m, v, to)
  PROVE  MayFile(e, m, v, to)
<1>1. \A l : Members(e, m, l) = Members(d, m, l)
  BY DEF Members, SameFiles
<1>2. \A l : Rebuilt(e, m, l) = Rebuilt(d, m, l)
  BY <1>1 DEF Rebuilt
<1>3. CentroidsOf(e, m) = CentroidsOf(d, m)
  BY <1>2 DEF CentroidsOf, SameFiles
<1> QED
  BY <1>3 DEF MayFile, SameFiles

LEMMA StateFiles ==
  ASSUME NEW d, DOMAIN d = Fields, NEW i, NEW t
  PROVE  /\ SameFiles(d, DropState(d, i, t)) /\ DropState(d, i, t).listed = d.listed
         /\ SameFiles(d, PutState(d, i, t)) /\ PutState(d, i, t).listed = d.listed
<1>1. SameFiles(d, DropState(d, i, t)) /\ DropState(d, i, t).listed = d.listed
  BY DEF SameFiles, DropState, Fields
<1>2. SameFiles(d, PutState(d, i, t)) /\ PutState(d, i, t).listed = d.listed
  BY DEF SameFiles, PutState, Fields
<1> QED
  BY <1>1, <1>2

\* The entry of id i, if it has one, is in the list the row names.
Listed(d, i, m) ==
    /\ OneEntry(d)
    /\ \A x \in d.lists : x.id = i => x.model = m /\ x.list = d.listed[i]
    /\ d.listed[i] # 0 => \E x \in d.lists : x.id = i

LEMMA UnlistHolds ==
  ASSUME NEW d, NEW intact, Kept(d, intact), NEW i, NEW m \in Models, Listed(d, i, m)
  PROVE  Kept(Unlist(d, i, m), intact)
<1>1. CentroidsKept(Unlist(d, i, m))
  BY UnlistKept DEF Kept
<1>2. intact => SizesExact(Unlist(d, i, m).lists, Unlist(d, i, m).cents)
  BY UnlistExact DEF Kept, Listed
<1> QED
  BY <1>1, <1>2 DEF Kept

\* A row's keys dropped from tables that are not lists, and then its entry.
LEMMA UnindexHolds ==
  ASSUME NEW d, NEW intact, Kept(d, intact), NEW i, NEW t, t.model \in Models,
         Listed(d, i, t.model)
  PROVE  Kept(Unindex(d, i, t), intact)
<1> DEFINE model == d.model \ {<<t.model, i>>}
           e == [d EXCEPT !.model = model]
<1>1. SameFiles(d, e) /\ e.listed = d.listed
  <2> HIDE DEF model
  <2> QED
    BY DEF SameFiles, Kept, CentroidsKept, Fields
<1>2. Unindex(d, i, t) = Unlist(e, i, t.model)
  BY DEF Unindex
<1> HIDE DEF e
<1>3. Listed(e, i, t.model)
  BY <1>1 DEF Listed, OneEntry, SameFiles
<1>4. Kept(e, intact)
  BY <1>1, SameFilesHold
<1> QED
  BY <1>2, <1>3, <1>4, UnlistHolds

LEMMA UnlinkHolds ==
  ASSUME NEW d, Good(d), NEW intact, Kept(d, intact), NEW i \in Ids, Found(d, i)
  PROVE  Kept(Unlink(d, i), intact)
<1> DEFINE t == d.rows[i]
           a == DropState(d, i, t)
           rows == [a.rows EXCEPT ![i] = Absent]
           text == a.text \ {<<t.text, i>>}
           created == a.created \ {<<t.created, i>>}
           b == [a EXCEPT !.rows = rows, !.text = text, !.created = created]
<1>1. Unlink(d, i) = Unindex(b, i, t)
  BY DEF Unlink
<1>2. t.model \in Models /\ Listed(d, i, t.model) /\ DOMAIN d = Fields
  BY DEF Good, Found, Shape, RowIndexed, IndexedAs, Row, Listed
<1> HIDE DEF t
<1>3. SameFiles(d, a) /\ a.listed = d.listed
  BY <1>2, StateFiles
<1> HIDE DEF a, rows, text, created
<1>4. SameFiles(a, b) /\ b.listed = a.listed
  BY <1>3 DEF SameFiles, Fields
<1> HIDE DEF b
<1>5. Kept(b, intact)
  BY <1>3, <1>4, SameFilesHold
<1>6. Listed(b, i, t.model)
  BY <1>2, <1>3, <1>4 DEF Listed, OneEntry, SameFiles
<1> QED
  BY <1>1, <1>2, <1>5, <1>6, UnindexHolds

LEMMA PurgeHolds ==
  ASSUME NEW d, Good(d), NEW intact, Kept(d, intact), NEW i \in Ids, d.rows[i] = Damaged
  PROVE  Kept(Purge(d, i), intact)
<1> DEFINE named == {m \in Models : <<m, i>> \in d.model}
           out == IF named = {} THEN d ELSE Unlist(d, i, CHOOSE m \in named : TRUE)
           rows == [out.rows EXCEPT ![i] = Absent]
           model == {k \in out.model : k[2] # i}
           labile == {k \in out.labile : k[2] # i}
           text == {k \in out.text : k[2] # i}
           created == {k \in out.created : k[2] # i}
           band == {b \in out.band : b.id # i}
           listed == [out.listed EXCEPT ![i] = 0]
           e == [out EXCEPT !.rows = rows, !.model = model, !.labile = labile, !.text = text,
                            !.created = created, !.band = band, !.listed = listed]
<1>1. Purge(d, i) = e
  BY DEF Purge
<1>2. PICK t \in Row : IndexedAs(d, i, t)
  BY DistinctValues DEF Good, RowIndexed, Found
<1>3. t.model \in Models /\ Listed(d, i, t.model)
  BY <1>2 DEF Good, Row, IndexedAs, Listed
<1>4. named = {t.model}
  <2>1. \A m : <<m, i>> \in d.model <=> <<m, i>> = <<t.model, i>>
    BY <1>2 DEF IndexedAs
  <2> QED
    BY <1>3, <2>1
<1> HIDE DEF named
<1>5. out = Unlist(d, i, t.model)
  BY <1>4
<1> HIDE DEF out
<1>6. Kept(out, intact)
  BY <1>3, <1>5, UnlistHolds
<1> HIDE DEF rows, model, labile, text, created, band, listed
<1>7. SameFiles(out, e)
  BY <1>6 DEF Kept, CentroidsKept, SameFiles, Fields
<1> QED
  BY <1>1, <1>6, <1>7, SameFilesHold

LEMMA ClearedHolds ==
  ASSUME NEW d, Good(d), NEW intact, Kept(d, intact), NEW i \in Ids
  PROVE  Kept(Cleared(d, i), intact)
  BY UnlinkHolds, PurgeHolds DEF Cleared

LEMMA CountedHolds ==
  ASSUME NEW d, NEW intact, Kept(d, intact), NEW n
  PROVE  Kept([d EXCEPT !.count = n], intact)
<1>1. SameFiles(d, [d EXCEPT !.count = n])
  BY DEF Kept, CentroidsKept, SameFiles, Fields
<1> QED
  BY <1>1, SameFilesHold

LEMMA IndexHolds ==
  ASSUME NEW d, NEW intact, Kept(d, intact), NEW i, NEW t, t.model \in Models,
         NEW v \in Vector, NEW to, v # NoVec => MayFile(d, t.model, v, to),
         \A x \in d.lists : x.id # i
  PROVE  LET e == Index(d, i, t, v, to)
         IN  Kept(e, intact) /\ (v # NoVec => t.model \in e.read)
<1> DEFINE named == Named(d, i, t)
<1>1. Index(d, i, t, v, to) = IF v = NoVec THEN named ELSE Filed(named, i, t, v, to)
  BY DEF Index, Named
<1>2. SameFiles(d, named)
  <2> DEFINE model == d.model \cup {<<t.model, i>>}
             e == [d EXCEPT !.model = model]
  <2>1. named = e
    BY DEF Named
  <2> HIDE DEF model
  <2>2. SameFiles(d, e)
    BY DEF Kept, CentroidsKept, SameFiles, Fields
  <2> QED
    BY <2>1, <2>2
<1> HIDE DEF named
<1>3. Kept(named, intact) /\ named.lists = d.lists
  BY <1>2, SameFilesHold DEF SameFiles
<1>4. CASE v = NoVec
  BY <1>1, <1>3, <1>4
<1>5. CASE v # NoVec
  <2> DEFINE e == Filed(named, i, t, v, to)
  <2>1. MayFile(named, t.model, v, to) /\ v \in Vecs
    BY <1>2, <1>5, SameFilesFile DEF Vector
  <2>2. CentroidsKept(e) /\ t.model \in e.read
    BY <1>3, <2>1, FiledKept DEF Kept
  <2>3. intact => SizesExact(e.lists, e.cents)
    BY <1>3, <2>1, FiledExact DEF Kept
  <2> HIDE DEF e
  <2> QED
    BY <1>1, <1>5, <2>2, <2>3 DEF Kept, e
<1> QED
  BY <1>4, <1>5

LEMMA LinkHolds ==
  ASSUME NEW d, NEW intact, Kept(d, intact), NEW i, NEW t, t.model \in Models,
         NEW v \in Vector, NEW to, v # NoVec => MayFile(d, t.model, v, to),
         \A x \in d.lists : x.id # i
  PROVE  LET e == Link(d, i, t, v, to)
         IN  Kept(e, intact) /\ (v # NoVec => t.model \in e.read)
<1> DEFINE stated == PutState(d, i, t)
           text == stated.text \cup {<<t.text, i>>}
           created == stated.created \cup {<<t.created, i>>}
           linked == [stated EXCEPT !.text = text, !.created = created]
<1>1. Link(d, i, t, v, to) = Index(linked, i, t, v, to)
  BY DEF Link
<1>2. SameFiles(d, stated)
  BY StateFiles DEF Kept, CentroidsKept
<1> HIDE DEF stated, text, created
<1>3. SameFiles(stated, linked)
  BY <1>2 DEF SameFiles, Fields
<1> HIDE DEF linked
<1>4. SameFiles(d, linked) /\ linked.lists = d.lists
  BY <1>2, <1>3 DEF SameFiles
<1>5. Kept(linked, intact) /\ (v # NoVec => MayFile(linked, t.model, v, to))
  BY <1>4, SameFilesHold, SameFilesFile
<1> QED
  BY <1>1, <1>4, <1>5, IndexHolds

LEMMA AfterFilingHolds ==
  ASSUME NEW d, OneEntry(d), NEW intact, Kept(d, intact), NEW i, NEW m, NEW v,
         v # NoVec => m \in d.read /\ \E c \in d.seen[m] : c.list = d.listed[i],
         NEW e \in AfterFiling(d, i, m, v)
  PROVE  Kept(e, intact)
<1> DEFINE c == CHOOSE x \in d.seen[m] : x.list = d.listed[i]
<1>1. \/ e = d
      \/ v # NoVec /\ \E far \in SUBSET Vecs : e = Split(d, m, c, far)
  BY DEF AfterFiling
<1>2. ASSUME v # NoVec, NEW far, e = Split(d, m, c, far)
      PROVE  Kept(e, intact)
  <2>1. c \in d.seen[m] /\ m \in d.read
    BY <1>2
  <2> HIDE DEF c
  <2>2. CentroidsKept(Split(d, m, c, far))
    BY <2>1, SplitKept DEF Kept
  <2>3. intact => SizesExact(Split(d, m, c, far).lists, Split(d, m, c, far).cents)
    BY <2>1, SplitExact DEF Kept
  <2> QED
    BY <1>2, <2>2, <2>3 DEF Kept
<1> QED
  BY <1>1, <1>2

LEMMA InsertHolds ==
  ASSUME Good(tx), NEW intact, Kept(tx, intact), NEW i \in Ids, NEW t \in Row, NEW v \in Vector,
         ApplyInsert(i, t, v)
  PROVE  Kept(tx', intact)
<1>0. t.model \in Models
  BY DEF Row
<1>1. CASE FastPath(tx, i, t, v)
  <2> DEFINE a == DropState(tx, i, tx.rows[i])
             e == PutState(a, i, t)
  <2>1. tx' = e
    BY <1>1 DEF ApplyInsert
  <2>2. SameFiles(tx, a)
    BY StateFiles DEF Kept, CentroidsKept
  <2> HIDE DEF a
  <2>3. SameFiles(a, e)
    BY <2>2, StateFiles DEF SameFiles
  <2> QED
    BY <2>1, <2>2, <2>3, SameFilesHold
<1>2. CASE ~FastPath(tx, i, t, v)
  <2> DEFINE old == Cleared(tx, i)
             n == IF tx.rows[i] = Absent THEN old.count + 1 ELSE old.count
             base == [old EXCEPT !.count = n]
  <2>1. PICK to \in Targets(base, t.model, v) :
           tx' \in AfterFiling(Link(base, i, t, v, to), i, t.model, v)
    BY <1>2 DEF ApplyInsert
  <2>2. Shape(old) /\ OneEntry(old) /\ NotIndexed(old, i)
    BY ClearedIs DEF GoneFrom, Changes
  <2>3. Kept(old, intact)
    BY ClearedHolds
  <2> HIDE DEF old, n
  <2>4. /\ Shape(base) /\ base.rows = old.rows /\ base.listed = old.listed
        /\ base.lists = old.lists /\ base.text = old.text /\ base.created = old.created
        /\ base.model = old.model /\ base.labile = old.labile /\ base.band = old.band
    BY <2>2, CountedIs
  <2>5. Kept(base, intact)
    BY <2>3, CountedHolds
  <2> HIDE DEF base
  <2>6. OneEntry(base) /\ NotIndexed(base, i)
    BY <2>2, <2>4 DEF OneEntry, NotIndexed
  <2>7. v # NoVec => to \in Nat \ {0} /\ MayFile(base, t.model, v, to)
    BY <1>0, <2>4, <2>5, TargetsAreLists, TargetsMayFile DEF Kept
  <2> DEFINE b == Link(base, i, t, v, to)
  <2>8. Placed(base, b, i, t, v)
    BY <2>4, <2>6, <2>7, LinkIs
  <2>9. Kept(b, intact) /\ (v # NoVec => t.model \in b.read)
    BY <1>0, <2>5, <2>6, <2>7, LinkHolds DEF NotIndexed
  <2> HIDE DEF b
  <2>10. tx' \in AfterFiling(b, i, t.model, v)
    BY <2>1 DEF b
  <2> QED
    BY <2>8, <2>9, <2>10, AfterFilingHolds DEF Placed, Changes
<1> QED
  BY <1>1, <1>2

LEMMA IndexWriteHolds ==
  ASSUME Good(tx), NEW intact, Kept(tx, intact), NEW i \in Ids, NEW m \in Models, NEW v \in Vecs,
         ApplyIndex(i, m, v), Found(tx, i)
  PROVE  Kept(tx', intact)
<1> DEFINE old == tx.rows[i]
           t == [old EXCEPT !.model = m]
           a == DropState(tx, i, old)
           c == Unindex(a, i, old)
           base == PutState(c, i, t)
<1>1. PICK to \in Targets(base, m, v) : tx' \in AfterFiling(Index(base, i, t, v, to), i, m, v)
  BY DEF ApplyIndex
<1>2. v # NoVec /\ v \in Vector
  BY DistinctValues DEF Vector
<1>3. Shape(base)
  BY <1>2, ReindexedIs
<1>4. old.model \in Models /\ Listed(tx, i, old.model)
  BY DEF Good, Found, Shape, RowIndexed, IndexedAs, Row, Listed
<1>5. SameFiles(tx, a) /\ a.listed = tx.listed
  BY StateFiles DEF Kept, CentroidsKept
<1>6. Kept(a, intact) /\ Listed(a, i, old.model)
  BY <1>4, <1>5, SameFilesHold DEF Listed, OneEntry, SameFiles
<1>7. Kept(c, intact)
  <2> HIDE DEF a, old
  <2> QED
    BY <1>4, <1>6, UnindexHolds
<1>8. SameFiles(c, base)
  <2> HIDE DEF c, t
  <2> QED
    BY <1>7, StateFiles DEF Kept, CentroidsKept
<1>9. Kept(base, intact)
  <2> HIDE DEF c, base
  <2> QED
    BY <1>7, <1>8, SameFilesHold
<1>10. to \in Nat \ {0} /\ MayFile(base, m, v, to)
  <2> HIDE DEF base
  <2> QED
    BY <1>2, <1>3, <1>9, TargetsAreLists, TargetsMayFile DEF Kept
<1> DEFINE b == Index(base, i, t, v, to)
<1>11. t.model = m /\ Placed(tx, b, i, t, v)
  BY <1>2, <1>10, ReindexedIs
<1>12. \A x \in base.lists : x.id # i
  <2> DEFINE model == a.model \ {<<old.model, i>>}
             s == [a EXCEPT !.model = model]
  <2>1. c = Unlist(s, i, old.model)
    BY DEF Unindex
  <2>2. Shape(a)
    BY DropStateIs DEF Good
  <2> HIDE DEF a, old
  <2>3. SameFiles(a, s) /\ s.listed = a.listed /\ Shape(s)
    <3> HIDE DEF model
    <3>1. /\ DOMAIN s = Fields /\ s.rows = a.rows /\ s.listed = a.listed /\ s.next = a.next
          /\ s.seen = a.seen /\ s.cents = a.cents /\ s.lists = a.lists /\ s.read = a.read
      BY <2>2 DEF Shape, Fields
    <3> HIDE DEF s
    <3> QED
      BY <2>2, <3>1 DEF Shape, SameFiles
  <2> HIDE DEF s
  <2>4. \A x \in s.lists : x.id = i => x.model = old.model /\ x.list = s.listed[i]
    BY <1>6, <2>3 DEF Listed, SameFiles
  <2>5. OneEntry(s)
    BY <1>6, <2>3 DEF Listed, OneEntry, SameFiles
  <2>6. \A x \in c.lists : x.id # i
    BY <1>4, <2>1, <2>3, <2>4, <2>5, UnlistOther
  <2> QED
    BY <1>8, <2>6 DEF SameFiles
<1>13. Kept(b, intact) /\ m \in b.read
  <2> HIDE DEF base, t
  <2> QED
    BY <1>2, <1>9, <1>10, <1>11, <1>12, IndexHolds
<1>14. tx' \in AfterFiling(b, i, m, v)
  BY <1>1
<1> HIDE DEF b, t
<1> QED
  BY <1>11, <1>13, <1>14, AfterFilingHolds DEF Placed, Changes

LEMMA WriteHolds ==
  ASSUME Good(tx), NEW intact, Kept(tx, intact), NEW i \in Ids, WriteOf(i)
  PROVE  Kept(tx', intact)
<1>1. ASSUME NEW s \in States, ApplyState(i, s)
      PROVE  Kept(tx', intact)
  <2> DEFINE a == DropState(tx, i, tx.rows[i])
             e == PutState(a, i, [tx.rows[i] EXCEPT !.st = s])
  <2>1. tx' = e \/ tx' = tx
    BY <1>1 DEF ApplyState
  <2>2. SameFiles(tx, a)
    BY StateFiles DEF Kept, CentroidsKept
  <2> HIDE DEF a
  <2>3. SameFiles(a, e)
    BY <2>2, StateFiles DEF SameFiles
  <2> QED
    BY <2>1, <2>2, <2>3, SameFilesHold
<1>2. ASSUME NEW m \in Models, NEW v \in Vecs, ApplyIndex(i, m, v)
      PROVE  Kept(tx', intact)
  <2>1. CASE Found(tx, i)
    BY <1>2, <2>1, IndexWriteHolds
  <2>2. CASE ~Found(tx, i)
    BY <1>2, <2>2 DEF ApplyIndex
  <2> QED
    BY <2>1, <2>2
<1>3. CASE ApplyRemove(i)
  BY <1>3, ClearedHolds, CountedHolds DEF ApplyRemove
<1> QED
  BY <1>1, <1>2, <1>3, InsertHolds DEF WriteOf

LEMMA ClosedHolds ==
  ASSUME NEW d, NEW intact, Kept(d, intact)
  PROVE  LET e == Closed(d)
         IN  Kept(e, intact) /\ e.read = {} /\ e.lists = d.lists /\ e.cents = d.cents
             /\ DOMAIN e = Fields
<1> DEFINE seen == [m \in Models |-> {}]
           e == [d EXCEPT !.read = {}, !.seen = seen]
<1>1. Closed(d) = e
  BY DEF Closed
<1>2. DOMAIN seen = Models
  OBVIOUS
<1> HIDE DEF seen
<1>3. /\ DOMAIN e = Fields /\ e.lists = d.lists /\ e.cents = d.cents /\ e.next = d.next
      /\ e.read = {} /\ e.seen = seen
  BY DEF Kept, CentroidsKept, Fields
<1> HIDE DEF e
<1>4. Kept(e, intact)
  BY <1>2, <1>3 DEF Kept, CentroidsKept
<1> QED
  BY <1>1, <1>3, <1>4

LEMMA ReadListsHolds ==
  ASSUME NEW intact, Kept(db, intact), NEW m \in Models, ReadLists(m)
  PROVE  Kept(db', intact)
<1> DEFINE table == {c \in db.cents : c.model = m}
           read == db.read \cup {m}
           seen == [db.seen EXCEPT ![m] = table]
           e == [db EXCEPT !.read = read, !.seen = seen]
<1>1. db' = e /\ \A c \in table : c.dim # Damaged
  BY DEF ReadLists
<1>2. InMemory(table, db.cents, db.next, m)
  BY <1>1 DEF Kept, CentroidsKept, OnFile, InMemory
<1>3. DOMAIN seen = Models /\ seen[m] = table /\ \A k \in Models \ {m} : seen[k] = db.seen[k]
  BY DEF Kept, CentroidsKept
<1>4. read \subseteq Models /\ \A k \in read : k = m \/ k \in db.read
  BY DEF Kept, CentroidsKept
<1> HIDE DEF seen, read, table
<1>5. /\ DOMAIN e = Fields /\ e.lists = db.lists /\ e.cents = db.cents /\ e.next = db.next
      /\ e.read = read /\ e.seen = seen
  BY DEF Kept, CentroidsKept, Fields
<1> HIDE DEF e
<1>6. \A k \in read : InMemory(seen[k], db.cents, db.next, k)
  BY <1>2, <1>3, <1>4 DEF Kept, CentroidsKept
<1>7. Kept(e, intact)
  BY <1>3, <1>4, <1>5, <1>6 DEF Kept, CentroidsKept
<1> QED
  BY <1>1, <1>7

LEMMA EmptyHolds == \A intact : Kept(Empty, intact)
<1> DEFINE d == Empty
<1>1. /\ DOMAIN d = Fields /\ d.lists = {} /\ d.cents = {} /\ d.next = [m \in Models |-> 0]
      /\ d.read = {} /\ d.seen = [m \in Models |-> {}]
  BY DEF Empty, Fields
<1> HIDE DEF d
<1>2. IsFiniteSet(d.lists)
  BY <1>1, FS_EmptySet
<1>3. CentroidsKept(d)
  BY <1>1, <1>2 DEF CentroidsKept, OnFile
<1>4. SizesExact(d.lists, d.cents)
  BY <1>1 DEF SizesExact
<1> QED
  BY <1>3, <1>4 DEF Kept, d

\* The vector of one entry lost: the lists have the members they had.
LEMMA EntryLostHolds ==
  ASSUME NEW d, OneEntry(d), NEW intact, Kept(d, intact), d.read = {}, NEW x \in d.lists
  PROVE  Kept([d EXCEPT !.lists = (@ \ {x}) \cup {[x EXCEPT !.vec = Damaged]}], intact)
<1> DEFINE y == [x EXCEPT !.vec = Damaged]
           lists == (d.lists \ {x}) \cup {y}
           e == [d EXCEPT !.lists = lists]
<1>1. /\ DOMAIN y = EntryFields /\ y.model = x.model /\ y.list = x.list /\ y.id = x.id
      /\ y.vec = Damaged
  BY DEF Kept, CentroidsKept, EntryFields
<1> HIDE DEF y
<1>2. IsFiniteSet(d.lists) /\ IsFiniteSet(lists)
  <2>1. IsFiniteSet(d.lists)
    BY DEF Kept, CentroidsKept
  <2>2. IsFiniteSet(d.lists \ {x})
    BY <2>1, FS_RemoveElement
  <2> QED
    BY <2>1, <2>2, FS_AddElement
<1>3. \A z \in lists : DOMAIN z = EntryFields
  BY <1>1 DEF Kept, CentroidsKept
<1>4. ASSUME NEW m, NEW l
      PROVE  /\ Cardinality(In(lists, m, l)) = Cardinality(In(d.lists, m, l))
             /\ \A z \in In(lists, m, l) : z.vec # Damaged => z \in In(d.lists, m, l)
  <2>1. \A z \in In(lists, m, l) : z.vec # Damaged => z \in In(d.lists, m, l)
    BY <1>1 DEF In
  <2>2. CASE x.model = m /\ x.list = l
    <3> DEFINE old == In(d.lists, m, l)
               rest == old \ {x}
    <3>1. x \in old /\ IsFiniteSet(old)
      <4>1. old \in SUBSET d.lists /\ x \in old
        BY <2>2 DEF In
      <4> QED
        BY <1>2, <4>1, FS_Subset
    <3>2. y \notin rest
      BY <1>1 DEF OneEntry, In
    <3>3. In(lists, m, l) = rest \cup {y}
      BY <1>1, <2>2 DEF In
    <3> HIDE DEF old
    <3>4. IsFiniteSet(rest) /\ Cardinality(rest) = Cardinality(old) - 1 /\ Cardinality(old) \in Nat
      BY <3>1, FS_RemoveElement, FS_CardinalityType
    <3> HIDE DEF rest
    <3>5. Cardinality(rest \cup {y}) = Cardinality(rest) + 1
      BY <3>2, <3>4, FS_AddElement
    <3>6. Cardinality(In(lists, m, l)) = Cardinality(old)
      <4> HIDE DEF lists
      <4> QED
        BY <3>3, <3>4, <3>5
    <3> QED
      BY <2>1, <3>6 DEF old
  <2>3. CASE ~(x.model = m /\ x.list = l)
    <3>1. In(lists, m, l) = In(d.lists, m, l)
      BY <1>1, <2>3 DEF In
    <3> QED
      BY <3>1
  <2> QED
    BY <2>1, <2>2, <2>3
<1>5. \A z \in lists : \E w \in d.lists : w.model = z.model /\ w.list = z.list
  BY <1>1
<1> HIDE DEF lists
<1>6. /\ DOMAIN e = Fields /\ e.lists = lists /\ e.cents = d.cents /\ e.next = d.next
      /\ e.read = {} /\ e.seen = d.seen
  BY DEF Kept, CentroidsKept, Fields
<1> HIDE DEF e
<1>7. CentroidsKept(e)
  BY <1>2, <1>3, <1>6 DEF Kept, CentroidsKept
<1>8. intact => SizesExact(e.lists, e.cents)
  BY <1>4, <1>5, <1>6 DEF Kept, SizesExact, Tells
<1>9. Kept(e, intact)
  BY <1>7, <1>8 DEF Kept
<1> QED
  BY <1>9 DEF e, lists, y

\* A centroid lost: from here on sizes are not claimed.
LEMMA CentroidLostHolds ==
  ASSUME NEW d, CentroidsKept(d), d.read = {}, NEW c \in d.cents
  PROVE  CentroidsKept([d EXCEPT !.cents = (@ \ {c}) \cup {[c EXCEPT !.size = 0, !.dim = Damaged]}])
<1> DEFINE lost == [c EXCEPT !.size = 0, !.dim = Damaged]
           cents == (d.cents \ {c}) \cup {lost}
           e == [d EXCEPT !.cents = cents]
<1>1. IsCentroid(lost, d.next) /\ lost.dim = Damaged /\ lost.model = c.model /\ lost.list = c.list
  BY DEF CentroidsKept, OnFile, IsCentroid, ListFields
<1> HIDE DEF lost
<1>2. OnFile(cents, d.next)
  BY <1>1 DEF CentroidsKept, OnFile
<1> HIDE DEF cents
<1>3. /\ DOMAIN e = Fields /\ e.lists = d.lists /\ e.cents = cents /\ e.next = d.next
      /\ e.read = {} /\ e.seen = d.seen
  BY DEF CentroidsKept, Fields
<1> HIDE DEF e
<1>4. CentroidsKept(e)
  BY <1>2, <1>3 DEF CentroidsKept
<1> QED
  BY <1>4 DEF e, cents, lost

Intact == "centroid" \notin damage

LEMMA DamageHolds ==
  ASSUME Good(db), Kept(db, Intact), NEW kind, DamageFile(kind)
  PROVE  Kept(db', Intact')
<1> DEFINE d == Closed(db)
<1>1. /\ damage' = damage \cup {kind}
      /\ \/ \E i \in Ids : db' = [d EXCEPT !.rows[i] = Damaged]
         \/ \E e \in d.lists : db' = [d EXCEPT !.lists = (@ \ {e}) \cup {[e EXCEPT !.vec = Damaged]}]
         \/ /\ kind = "centroid"
            /\ \E c \in d.cents :
                  db' = [d EXCEPT !.cents = (@ \ {c}) \cup {[c EXCEPT !.size = 0, !.dim = Damaged]}]
  BY DEF DamageFile
<1>2. Kept(d, Intact) /\ d.read = {} /\ OneEntry(d) /\ DOMAIN d = Fields
  BY ClosedHolds DEF Good, OneEntry
<1> HIDE DEF d
<1>3. Intact' => Intact
  BY <1>1 DEF Intact
<1>4. Kept(d, Intact')
  BY <1>2, <1>3 DEF Kept
<1>5. ASSUME NEW i \in Ids, db' = [d EXCEPT !.rows[i] = Damaged]
      PROVE  Kept(db', Intact')
  <2>1. SameFiles(d, db')
    BY <1>2, <1>5 DEF SameFiles, Fields
  <2> QED
    BY <1>4, <2>1, SameFilesHold
<1>6. ASSUME NEW e \in d.lists, db' = [d EXCEPT !.lists = (@ \ {e}) \cup {[e EXCEPT !.vec = Damaged]}]
      PROVE  Kept(db', Intact')
  BY <1>2, <1>4, <1>6, EntryLostHolds
<1>7. ASSUME kind = "centroid", NEW c \in d.cents,
             db' = [d EXCEPT !.cents = (@ \ {c}) \cup {[c EXCEPT !.size = 0, !.dim = Damaged]}]
      PROVE  Kept(db', Intact')
  <2>1. CentroidsKept(db')
    BY <1>2, <1>7, CentroidLostHolds DEF Kept
  <2>2. ~Intact'
    BY <1>1, <1>7 DEF Intact
  <2> QED
    BY <2>1, <2>2 DEF Kept
<1> QED
  BY <1>1, <1>5, <1>6, <1>7

\* What the lists and centroids keep, on top of IInv.
ListsInv == Kept(db, Intact) /\ (tx # NoTx => Kept(tx, Intact))

LEMMA ListsNextPreserves ==
  ASSUME IInv, ListsInv, [Next]_vars
  PROVE  ListsInv'
<1>0. Good(db) /\ (tx # NoTx => Good(tx))
  BY DEF IInv, Sound
<1>1. CASE UNCHANGED vars
  BY <1>1 DEF vars, ListsInv, Intact
<1>2. CASE BeginWrite
  BY <1>2 DEF BeginWrite, ListsInv, Intact
<1>3. CASE CommitWrite \/ FailWrite
  BY <1>3 DEF CommitWrite, FailWrite, ListsInv, Intact
<1>4. CASE Reopen
  <2>1. Kept(Closed(db), Intact)
    BY ClosedHolds DEF ListsInv
  <2> QED
    BY <1>4, <2>1 DEF Reopen, ListsInv, Intact
<1>5. CASE ClearStore
  BY <1>5, EmptyHolds DEF ClearStore, ListsInv
<1>6. ASSUME NEW i \in Ids, WriteOf(i)
      PROVE  ListsInv'
  <2>1. tx # NoTx /\ db' = db /\ damage' = damage
    BY <1>6 DEF WriteOf, ApplyInsert, ApplyState, ApplyIndex, ApplyRemove, WriteStep
  <2>2. Kept(tx', Intact)
    BY <1>0, <1>6, <2>1, WriteHolds DEF ListsInv
  <2> QED
    BY <2>1, <2>2 DEF ListsInv, Intact
<1>7. ASSUME NEW m \in Models, ReadLists(m)
      PROVE  ListsInv'
  <2>1. Kept(db', Intact) /\ tx' = NoTx /\ damage' = damage
    BY <1>7, ReadListsHolds DEF ReadLists, ListsInv
  <2> QED
    BY <2>1 DEF ListsInv, Intact
<1>8. ASSUME NEW kind, DamageFile(kind)
      PROVE  ListsInv'
  <2>1. Kept(db', Intact') /\ tx' = NoTx
    BY <1>0, <1>8, DamageHolds DEF DamageFile, ListsInv
  <2> QED
    BY <2>1 DEF ListsInv
<1>9. Next => \/ BeginWrite \/ CommitWrite \/ FailWrite \/ Reopen \/ ClearStore
              \/ \E i \in Ids : WriteOf(i)
              \/ \E m \in Models : ReadLists(m)
              \/ \E kind : DamageFile(kind)
  BY DEF Next, WriteOf
<1> QED
  BY <1>1, <1>2, <1>3, <1>4, <1>5, <1>6, <1>7, <1>8, <1>9

LEMMA ListsInvariance == Spec => []ListsInv
<1>1. Init => ListsInv
  BY EmptyHolds DEF Init, ListsInv
<1>2. IInv /\ ListsInv /\ [Next]_vars => ListsInv'
  BY ListsNextPreserves
<1> QED
  BY <1>1, <1>2, Invariance, PTL DEF Spec

-----------------------------------------------------------------------------
(* The theorems.                                                           *)

\* Every table that indexes rows names each row once, under its present keys, and nothing
\* of a row that is gone (link, unlink, purge, put_state, drop_state, file, unlist, split).
THEOREM IndexesAreRight == Spec => []IndexesMatchRows
<1>1. IInv => IndexesMatchRows
  BY DEF IInv, Sound, Good, IndexesMatchRows
<1> QED
  BY <1>1, Invariance, PTL

\* The centroids a process keeps in memory are those of the file, through aborts, rebuilt
\* centroids, divided lists and reopenings (shared centroids published with the commit).
THEOREM CacheIsCurrent == Spec => []CentroidCacheCurrent
<1>1. ListsInv => CentroidCacheCurrent
  BY DEF ListsInv, Kept, CentroidsKept, InMemory, CentroidCacheCurrent
<1> QED
  BY <1>1, ListsInvariance, PTL

\* The counts the store keeps instead of reading the rows and the lists are exact.
THEOREM CountersAreExact == Spec => []CountersExact
<1>1. IInv /\ ListsInv => CountersExact
  <2> SUFFICES ASSUME IInv, ListsInv
               PROVE  CountersExact
    OBVIOUS
  <2>1. db.count = Cardinality({i \in Ids : db.rows[i] # Absent})
    BY DEF IInv, Sound, Counted, Live
  <2>2. ASSUME Intact
        PROVE  /\ \A c \in db.cents :
                     LET members == Members(db, c.model, c.list)
                     IN  /\ c.size = Cardinality(members) /\ c.size > 0
                         /\ \A e \in members : e.vec # Damaged => DimOf[e.vec] = c.dim
               /\ \A e \in db.lists : \E c \in db.cents : c.model = e.model /\ c.list = e.list
    <3>1. SizesExact(db.lists, db.cents) /\ OnFile(db.cents, db.next)
      BY <2>2 DEF ListsInv, Kept, CentroidsKept
    <3>2. \A m, l : Members(db, m, l) = In(db.lists, m, l)
      BY DEF Members, In
    <3> QED
      BY <3>1, <3>2 DEF SizesExact, Tells, OnFile
  <2> QED
    BY <2>1, <2>2 DEF CountersExact, Intact
<1> QED
  BY <1>1, Invariance, ListsInvariance, PTL

-----------------------------------------------------------------------------
(* The store implements the map of Storage.                                *)

Map(d) == [i \in Ids |-> TraceOf(d, i)]

LEMMA WrittenIsMapped ==
  ASSUME NEW d, NEW e, NEW i \in Ids, NEW new, Written(d, e, i, new)
  PROVE  Map(e) = [Map(d) EXCEPT ![i] = new]
  BY DEF Map, Written

LEMMA SameIsMapped ==
  ASSUME NEW d, NEW e, SameTraces(d, e)
  PROVE  Map(e) = Map(d)
  BY DEF Map, SameTraces

\* A value that is neither tables nor a map.
Apart == DOMAIN NoTx # Fields /\ DOMAIN NoTx # Ids

LEMMA InitIsMapped == Init => Contract!StorageInit
<1>1. Map(Empty) = [i \in Ids |-> Absent]
  BY EmptyIs DEF Map
<1> QED
  BY <1>1 DEF Init, Contract!StorageInit, Map

LEMMA StepIsMapped ==
  ASSUME Apart, IInv, [Next]_vars
  PROVE  [Contract!StorageNext]_(Contract!storageVars)
<1> DEFINE mem == Map(db)
           work == IF tx = NoTx THEN NoTx ELSE Map(tx)
<1>1. \A d : Map(d) # NoTx
  BY DEF Apart, Map
<1>2. db # NoTx
  BY DEF Apart, IInv, Sound, Good, Shape
<1>3. CASE UNCHANGED vars
  BY <1>3 DEF vars, Contract!storageVars
<1>4. CASE BeginWrite
  BY <1>1, <1>2, <1>4 DEF BeginWrite, Contract!StorageNext, Contract!Begin, Map
<1>5. CASE CommitWrite
  BY <1>1, <1>5 DEF CommitWrite, Contract!StorageNext, Contract!Commit, Map
<1>6. CASE FailWrite
  BY <1>1, <1>6 DEF FailWrite, Contract!StorageNext, Contract!Abandon, Map
<1>7. CASE Reopen
  <2>1. Map(db') = Map(db) /\ tx' = NoTx
    BY <1>7, ClosedIs, SameIsMapped DEF Reopen, IInv, Sound
  <2>2. CASE tx = NoTx
    BY <2>1, <2>2 DEF Map, Contract!storageVars
  <2>3. CASE tx # NoTx
    BY <1>1, <2>1, <2>3 DEF Map, Contract!StorageNext, Contract!Abandon
  <2> QED
    BY <2>2, <2>3
<1>8. CASE ClearStore
  <2>1. Map(db') = [i \in Ids |-> Absent]
    BY <1>8, EmptyIs DEF Map, ClearStore
  <2> QED
    BY <1>8, <2>1 DEF ClearStore, Map, Contract!StorageNext, Contract!Clear
<1>9. ASSUME NEW i \in Ids, WriteOf(i)
      PROVE  [Contract!StorageNext]_(Contract!storageVars)
  <2>1. tx # NoTx /\ tx' # NoTx /\ db' = db /\ Good(tx)
    BY <1>9, WriteKeeps DEF Apart, IInv, Sound, Good, Shape
  <2>2. work = Map(tx) /\ work' = Map(tx') /\ mem' = mem /\ work # NoTx
    BY <1>1, <2>1
  <2>3. Map(tx)[i] = TraceOf(tx, i)
    BY DEF Map
  <2>4. Contract!Holds(Map(tx), i) <=> Found(tx, i)
    <3>1. CASE Found(tx, i)
      <4>1. PICK u \in Vector : TraceOf(tx, i) = WithVec(tx.rows[i], u)
        BY <2>1, <3>1, TraceForm
      <4>2. TraceOf(tx, i) \in Stored
        BY <2>1, <3>1, <4>1, TraceForm DEF WithVec, Stored, Row
      <4> QED
        BY <2>3, <3>1, <4>2, AbsentIsNoTrace DEF Contract!Holds
    <3>2. CASE ~Found(tx, i)
      BY <2>3, <3>2 DEF TraceOf, Found, Contract!Holds
    <3> QED
      BY <3>1, <3>2
  <2>5. ASSUME NEW t \in Row, NEW v \in Vector, ApplyInsert(i, t, v)
        PROVE  Contract!Put(i, WithVec(t, v)) /\ WithVec(t, v) \in Stored
    <3>1. Map(tx') = [Map(tx) EXCEPT ![i] = WithVec(t, v)]
      BY <2>1, <2>5, InsertIs, WrittenIsMapped
    <3>2. WithVec(t, v) \in Stored
      BY DEF WithVec, Stored, Row
    <3> QED
      BY <2>1, <2>2, <2>5, <3>1, <3>2
      DEF Contract!Put, Contract!Asked, Contract!InsertWrite, ApplyInsert, WriteStep,
          InsertWrite, Map
  <2>6. ASSUME NEW s \in States, ApplyState(i, s)
        PROVE  Contract!PutState(i, s)
    <3>1. CASE Found(tx, i)
      <4>1. Map(tx') = [Map(tx) EXCEPT ![i] = [TraceOf(tx, i) EXCEPT !.st = s]]
        <5>1. Written(tx, tx', i, [TraceOf(tx, i) EXCEPT !.st = s])
          BY <2>1, <2>6, <3>1, StateIs
        <5> QED
          BY <5>1 DEF Written, Map
      <4>2. Map(tx') = [Map(tx) EXCEPT ![i].st = s]
        BY <2>3, <4>1
      <4> QED
        BY <2>1, <2>2, <2>4, <2>6, <3>1, <4>2
        DEF Contract!PutState, Contract!Asked, Contract!StateWrite, ApplyState, WriteStep,
            StateWrite, Map
    <3>2. CASE ~Found(tx, i)
      <4>1. tx' = tx
        BY <2>6, <3>2 DEF ApplyState
      <4> QED
        BY <2>1, <2>2, <2>4, <2>6, <3>2, <4>1
        DEF Contract!PutState, Contract!Asked, Contract!StateWrite, ApplyState, WriteStep,
            StateWrite, Map
    <3> QED
      BY <3>1, <3>2
  <2>7. ASSUME NEW m \in Models, NEW v \in Vecs, ApplyIndex(i, m, v)
        PROVE  Contract!PutVector(i, m, v)
    <3>1. CASE Found(tx, i)
      <4>1. Map(tx') = [Map(tx) EXCEPT ![i] = [TraceOf(tx, i) EXCEPT !.model = m, !.vec = v]]
        <5>1. Written(tx, tx', i, [TraceOf(tx, i) EXCEPT !.model = m, !.vec = v])
          BY <2>1, <2>7, <3>1, IndexWriteIs
        <5> QED
          BY <5>1 DEF Written, Map
      <4>2. Map(tx') = [Map(tx) EXCEPT ![i].model = m, ![i].vec = v]
        BY <2>3, <4>1 DEF Map
      <4> QED
        BY <2>1, <2>2, <2>4, <2>7, <3>1, <4>2
        DEF Contract!PutVector, Contract!Asked, Contract!IndexWrite, ApplyIndex, WriteStep,
            IndexWrite, Map
    <3>2. CASE ~Found(tx, i)
      <4>1. tx' = tx
        BY <2>7, <3>2 DEF ApplyIndex
      <4> QED
        BY <2>1, <2>2, <2>4, <2>7, <3>2, <4>1
        DEF Contract!PutVector, Contract!Asked, Contract!IndexWrite, ApplyIndex, WriteStep,
            IndexWrite, Map
    <3> QED
      BY <3>1, <3>2
  <2>8. ASSUME ApplyRemove(i)
        PROVE  Contract!Delete(i)
    <3>1. Map(tx') = [Map(tx) EXCEPT ![i] = Absent]
      <4>1. Written(tx, tx', i, Absent)
        BY <2>1, <2>8, RemoveIs
      <4> QED
        BY <4>1 DEF Written, Map
    <3> QED
      BY <2>1, <2>2, <2>8, <3>1
      DEF Contract!Delete, Contract!Asked, Contract!RemoveWrite, ApplyRemove, WriteStep,
          RemoveWrite, Map
  <2>9. \/ \E t \in Stored : Contract!Put(i, t)
        \/ \E s \in States : Contract!PutState(i, s)
        \/ \E m \in Models, v \in Vecs : Contract!PutVector(i, m, v)
        \/ Contract!Delete(i)
    BY <1>9, <2>5, <2>6, <2>7, <2>8 DEF WriteOf
  <2> QED
    BY <2>9 DEF Contract!StorageNext, Contract!Stored, Stored, Contract!Vector, Vector
<1>10. ASSUME NEW m \in Models, ReadLists(m)
       PROVE  UNCHANGED (Contract!storageVars)
  <2>1. Map(db') = Map(db) /\ tx' = tx /\ tx = NoTx
    BY <1>10, ReadListsIs, SameIsMapped DEF ReadLists, IInv, Sound
  <2> QED
    BY <2>1 DEF Map, Contract!storageVars
<1>11. ASSUME NEW kind, DamageFile(kind)
       PROVE  [Contract!StorageNext]_(Contract!storageVars)
  <2>1. Good(db)
    BY DEF IInv, Sound
  <2>2. tx' = tx /\ tx = NoTx
    BY <1>11, <2>1, DamageIs
  <2>3. CASE SameTraces(db, db')
    <3>1. Map(db') = Map(db)
      BY <2>3, SameIsMapped
    <3> QED
      BY <2>2, <3>1 DEF Map, Contract!storageVars
  <2>4. CASE \E i \in Ids : /\ Found(db, i)
                            /\ \/ Written(db, db', i, Damaged)
                               \/ Written(db, db', i, [TraceOf(db, i) EXCEPT !.vec = NoVec])
    <3>1. PICK i \in Ids : /\ Found(db, i)
                           /\ \/ Written(db, db', i, Damaged)
                              \/ Written(db, db', i, [TraceOf(db, i) EXCEPT !.vec = NoVec])
      BY <2>4
    <3>2. Map(db)[i] = TraceOf(db, i)
      BY DEF Map
    <3>3. \/ Map(db') = [Map(db) EXCEPT ![i] = Damaged]
          \/ Map(db') = [Map(db) EXCEPT ![i] = [TraceOf(db, i) EXCEPT !.vec = NoVec]]
      BY <3>1, WrittenIsMapped
    <3>4. \/ Map(db') = [Map(db) EXCEPT ![i] = Damaged]
          \/ Map(db') = [Map(db) EXCEPT ![i].vec = NoVec]
      BY <3>2, <3>3
    <3>5. Contract!Holds(Map(db), i)
      <4>1. PICK u \in Vector : TraceOf(db, i) = WithVec(db.rows[i], u)
        BY <2>1, <3>1, TraceForm
      <4>2. TraceOf(db, i) \in Stored
        BY <2>1, <3>1, <4>1, TraceForm DEF WithVec, Stored, Row
      <4> QED
        BY <3>2, <4>2, AbsentIsNoTrace DEF Contract!Holds
    <3>6. Contract!Decay(i)
      BY <2>2, <3>4, <3>5 DEF Contract!Decay, Map
    <3> QED
      BY <3>6 DEF Contract!StorageNext
  <2> QED
    BY <1>11, <2>1, <2>3, <2>4, DamageIs
<1>12. Next => \/ BeginWrite \/ CommitWrite \/ FailWrite \/ Reopen \/ ClearStore
               \/ \E i \in Ids : WriteOf(i)
               \/ \E m \in Models : ReadLists(m)
               \/ \E kind : DamageFile(kind)
  BY DEF Next, WriteOf
<1> QED
  BY <1>3, <1>4, <1>5, <1>6, <1>7, <1>8, <1>9, <1>10, <1>11, <1>12

\* The ten tables, the lists and the centroids behave as one atomic map of traces, through
\* aborts, divisions of lists, damaged values and reopenings (src/src/storage.rs).
THEOREM StoreImplementsStorage ==
  ASSUME Apart
  PROVE  Spec => ImplementsStorage
<1>1. Init => Contract!StorageInit
  BY InitIsMapped
<1>2. IInv /\ [Next]_vars => [Contract!StorageNext]_(Contract!storageVars)
  BY StepIsMapped
<1> QED
  BY <1>1, <1>2, Invariance, PTL DEF Spec, ImplementsStorage, Contract!StorageSpec
=============================================================================
