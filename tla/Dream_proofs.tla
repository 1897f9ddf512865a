---------------------------- MODULE Dream_proofs ----------------------------
(***************************************************************************)
(* Theorems about the sleeping engine, for every number of ids, every set  *)
(* of texts, every reach of the cues and every budget.                     *)
(***************************************************************************)
EXTENDS Dream, FiniteSetTheorems, SequenceTheorems, WellFoundedInduction, TLAPS

Rows == [Ids -> Trace \cup {Absent}]

Report ==
    [action : {"keep"}, seed : Ids] \cup
    [action : {"replace"}, absorbed : UNION {[s -> Trace] : s \in SUBSET Ids}, after : SUBSET Nat]

\* The types of the store and the reports.
TypeOK ==
    /\ rows \in Rows /\ before \in Rows
    /\ lastId \in Nat
    /\ reports \in Seq(Report)

\* Ids are given out in order.
NewIdsAreFree == \A i \in Ids : i > lastId => rows[i] = Absent

\* Only a seed whose own cue was embedded waits to be settled.
DreamOK ==
    /\ dream = [queue |-> dream.queue, cued |-> dream.cued, alone |-> dream.alone,
                left |-> dream.left, on |-> dream.on, single |-> dream.single]
    /\ dream.alone \subseteq dream.cued \cap Ids

\* What a verdict absorbed is gone as long as its report is kept, and no two verdicts
\* absorbed the same trace.
Takes(k, i) == reports[k].action = "replace" /\ i \in DOMAIN reports[k].absorbed

AbsorbedIsGone ==
    \A k \in 1 .. Len(reports) : \A i \in Ids :
        Takes(k, i) =>
            /\ rows[i] = Absent /\ i <= lastId
            /\ \A l \in 1 .. Len(reports) : Takes(l, i) => l = k

IInv ==
    /\ TypeOK /\ NewIdsAreFree /\ DreamOK /\ AbsorbedIsGone
    /\ UndoRestoresAll

-----------------------------------------------------------------------------
(* Numbers: what the prover lacks of induction.                            *)

LEMMA LeastNatural ==
  ASSUME NEW T \in SUBSET Nat, T # {}
  PROVE  \E x \in T : \A y \in T : x <= y
<1> DEFINE R == OpToRel(<, Nat)
<1>1. IsWellFoundedOn(R, Nat)
  BY NatLessThanWellFounded
<1>2. \A x, y \in Nat : y < x => <<y, x>> \in R
  BY DEF OpToRel
<1> HIDE DEF R
<1>3. PICK x \in T : \A y \in T : <<y, x>> \notin R
  BY <1>1, WFMin
<1>4. \A y \in T : ~(y < x)
  BY <1>2, <1>3
<1>5. \A y \in T : x <= y
  BY <1>4
<1> QED
  BY <1>5

\* Of finitely many traces one is the newest.
LEMMA NewestExists ==
  ASSUME NEW S, IsFiniteSet(S), S # {}, NEW born, \A i \in S : born[i] \in Nat
  PROVE  \E i \in S : \A j \in S : born[j] <= born[i]
<1> DEFINE Later(i) == {j \in S : born[j] > born[i]}
           T == {Cardinality(Later(i)) : i \in S}
<1>1. \A i \in S : IsFiniteSet(Later(i)) /\ Cardinality(Later(i)) \in Nat
  BY FS_Subset, FS_CardinalityType
<1>2. T \in SUBSET Nat /\ T # {}
  BY <1>1
<1>3. PICK c \in T : \A d \in T : c <= d
  BY <1>2, LeastNatural
<1>4. PICK i \in S : c = Cardinality(Later(i))
  BY <1>3
<1>5. ASSUME NEW j \in S, born[j] > born[i]
      PROVE  FALSE
  <2>1. Later(j) \subseteq Later(i)
    BY <1>5
  <2>2. j \in Later(i) /\ j \notin Later(j)
    BY <1>5
  <2> HIDE DEF Later
  <2>3. Cardinality(Later(j)) < Cardinality(Later(i))
    <3>1. /\ Cardinality(Later(j)) <= Cardinality(Later(i))
          /\ Cardinality(Later(j)) = Cardinality(Later(i)) => Later(j) = Later(i)
      BY <1>1, <2>1, FS_Subset
    <3> QED
      BY <1>1, <2>2, <3>1
  <2> QED
    BY <1>1, <1>3, <1>4, <2>3
<1> QED
  BY <1>5

-----------------------------------------------------------------------------
(* UndoneAll: the recursion has one solution, which takes back the newest  *)
(* report first.                                                           *)

\* f[k] is what r becomes when the newest k reports, of at least n, are taken back.
Back(f, n, r, rs) ==
    /\ f = [k \in 0 .. n |-> f[k]]
    /\ f[0] = r
    /\ \A k \in 1 .. n : f[k] = Undone(f[k - 1], rs[Len(rs) - k + 1])

LEMMA BackExists ==
  ASSUME NEW r, NEW rs
  PROVE  \A n \in Nat : \E f : Back(f, n, r, rs)
<1> DEFINE T == {n \in Nat : ~\E f : Back(f, n, r, rs)}
<1> SUFFICES ASSUME T # {}
             PROVE  FALSE
  OBVIOUS
<1>1. PICK n \in T : \A m \in T : n <= m
  BY LeastNatural
<1>2. n # 0
  <2>1. Back([k \in 0 .. 0 |-> r], 0, r, rs)
    BY DEF Back
  <2> QED
    BY <1>1, <2>1
<1>3. n - 1 \in Nat /\ n - 1 \notin T
  BY <1>1, <1>2
<1>4. PICK f : Back(f, n - 1, r, rs)
  BY <1>3
<1> DEFINE g == [k \in 0 .. n |-> IF k = n THEN Undone(f[n - 1], rs[Len(rs) - n + 1]) ELSE f[k]]
<1>5. Back(g, n, r, rs)
  <2>1. g = [k \in 0 .. n |-> g[k]]
    OBVIOUS
  <2>2. g[0] = r
    BY <1>2, <1>3, <1>4 DEF Back
  <2>3. ASSUME NEW k \in 1 .. n
        PROVE  g[k] = Undone(g[k - 1], rs[Len(rs) - k + 1])
    <3>1. g[k - 1] = f[k - 1]
      BY <1>3
    <3>2. CASE k = n
      BY <1>3, <3>1, <3>2
    <3>3. CASE k # n
      <4>1. k \in 1 .. n - 1 /\ k \in 0 .. n
        BY <1>3, <3>3
      <4>2. g[k] = f[k]
        BY <3>3, <4>1
      <4> HIDE DEF g
      <4> QED
        BY <1>4, <3>1, <4>1, <4>2 DEF Back
    <3> QED
      BY <3>2, <3>3
  <2> HIDE DEF g
  <2> QED
    BY <2>1, <2>2, <2>3 DEF Back
<1> QED
  BY <1>1, <1>5

LEMMA BackIsUnique ==
  ASSUME NEW r, NEW rs, NEW n \in Nat, NEW f, NEW g, Back(f, n, r, rs), Back(g, n, r, rs)
  PROVE  f = g
<1> DEFINE T == {k \in 0 .. n : f[k] # g[k]}
<1>1. T = {}
  <2> SUFFICES ASSUME T # {}
               PROVE  FALSE
    OBVIOUS
  <2>0. T \in SUBSET Nat
    OBVIOUS
  <2>1. PICK k \in T : \A l \in T : k <= l
    BY <2>0, LeastNatural
  <2>2. k \in 1 .. n
    BY <2>1 DEF Back
  <2>3. k - 1 \in 0 .. n /\ k - 1 \notin T
    BY <2>1, <2>2
  <2>4. f[k - 1] = g[k - 1]
    BY <2>3
  <2>5. f[k] = g[k]
    BY <2>2, <2>4 DEF Back
  <2> QED
    BY <2>1, <2>5
<1>2. \A k \in 0 .. n : f[k] = g[k]
  BY <1>1
<1> HIDE DEF T
<1> QED
  BY <1>2 DEF Back

LEMMA UndoneAllIs ==
  ASSUME NEW r, NEW rs \in Seq(Report), NEW f, Back(f, Len(rs), r, rs)
  PROVE  UndoneAll(r, rs) = f[Len(rs)]
<1> DEFINE body(h) == [k \in 0 .. Len(rs) |->
                        IF k = 0 THEN r ELSE Undone(h[k - 1], rs[Len(rs) - k + 1])]
           back == CHOOSE h : h = body(h)
<1>1. UndoneAll(r, rs) = back[Len(rs)]
  BY DEF UndoneAll
<1>2. Len(rs) \in Nat
  OBVIOUS
<1>3. f = body(f)
  <2>1. \A k \in 0 .. Len(rs) :
           f[k] = IF k = 0 THEN r ELSE Undone(f[k - 1], rs[Len(rs) - k + 1])
    <3>1. ASSUME NEW k \in 0 .. Len(rs), k # 0
          PROVE  f[k] = Undone(f[k - 1], rs[Len(rs) - k + 1])
      <4>1. k \in 1 .. Len(rs)
        BY <1>2, <3>1
      <4> QED
        BY <4>1 DEF Back
    <3> QED
      BY <3>1 DEF Back
  <2> QED
    BY <2>1 DEF Back
<1>4. back = body(back)
  BY <1>3
<1> HIDE DEF back
<1>5. Back(back, Len(rs), r, rs)
  BY <1>2, <1>4 DEF Back
<1> QED
  BY <1>1, <1>2, <1>5, BackIsUnique

LEMMA UndoneNothing ==
  ASSUME NEW r
  PROVE  UndoneAll(r, << >>) = r
<1> DEFINE f == [k \in 0 .. 0 |-> r]
<1>1. Back(f, 0, r, << >>)
  BY DEF Back
<1>2. << >> \in Seq(Report) /\ Len(<< >>) = 0
  OBVIOUS
<1> HIDE DEF f
<1>3. UndoneAll(r, << >>) = f[0]
  BY <1>1, <1>2, UndoneAllIs
<1> QED
  BY <1>3 DEF f

LEMMA UndoneNewest ==
  ASSUME NEW r, NEW rs \in Seq(Report), NEW rep \in Report
  PROVE  UndoneAll(r, Append(rs, rep)) = UndoneAll(Undone(r, rep), rs)
<1> DEFINE n == Len(rs)
           all == Append(rs, rep)
<1>1. /\ n \in Nat /\ all \in Seq(Report) /\ Len(all) = n + 1 /\ all[n + 1] = rep
      /\ \A k \in 1 .. n : all[k] = rs[k]
  OBVIOUS
<1> HIDE DEF n, all
<1>2. PICK f : Back(f, n, Undone(r, rep), rs)
  BY <1>1, BackExists
<1> DEFINE g == [k \in 0 .. n + 1 |-> IF k = 0 THEN r ELSE f[k - 1]]
<1>3. Back(g, n + 1, r, all)
  <2>1. g = [k \in 0 .. n + 1 |-> g[k]] /\ g[0] = r
    BY <1>1
  <2>2. ASSUME NEW k \in 1 .. n + 1
        PROVE  g[k] = Undone(g[k - 1], all[Len(all) - k + 1])
    <3>1. g[k] = f[k - 1]
      BY <1>1
    <3>2. CASE k = 1
      <4>1. f[0] = Undone(r, rep) /\ g[0] = r
        BY <1>1, <1>2 DEF Back
      <4>2. all[Len(all) - k + 1] = rep /\ k - 1 = 0
        BY <1>1, <3>2
      <4> HIDE DEF g
      <4> QED
        BY <3>1, <3>2, <4>1, <4>2
    <3>3. CASE k # 1
      <4>1. k - 1 \in 1 .. n /\ k - 1 \in 0 .. n + 1 /\ k - 1 # 0
        BY <1>1, <3>3
      <4>2. g[k - 1] = f[k - 1 - 1]
        BY <4>1
      <4>3. f[k - 1] = Undone(f[k - 1 - 1], rs[n - (k - 1) + 1])
        BY <1>2, <4>1 DEF Back, n
      <4>4. n - (k - 1) + 1 \in 1 .. n /\ Len(all) - k + 1 = n - (k - 1) + 1
        BY <1>1, <4>1
      <4>5. all[Len(all) - k + 1] = rs[n - (k - 1) + 1]
        BY <1>1, <4>4
      <4> HIDE DEF g
      <4> QED
        BY <3>1, <4>2, <4>3, <4>5
    <3> QED
      BY <3>2, <3>3
  <2> HIDE DEF g
  <2> QED
    BY <1>1, <2>1, <2>2 DEF Back
<1>4. UndoneAll(r, all) = g[n + 1]
  BY <1>1, <1>3, UndoneAllIs
<1>5. UndoneAll(Undone(r, rep), rs) = f[n]
  BY <1>2, UndoneAllIs DEF n
<1>6. g[n + 1] = f[n]
  BY <1>1
<1> QED
  BY <1>4, <1>5, <1>6 DEF all

-----------------------------------------------------------------------------
(* One report taken back.                                                  *)

\* r is b, but for the flags of some traces of S.
Differs(r, b, S) == \A i \in Ids : r[i] = b[i] \/ (i \in S /\ r[i] = Consolidated(b, {i}, TRUE)[i])

Settled(t) == [t EXCEPT !.con = TRUE]

Labile(t) == [t EXCEPT !.con = FALSE]

LEMMA FlagSet ==
  ASSUME NEW t \in Trace, NEW flag \in BOOLEAN
  PROVE  [t EXCEPT !.con = flag] =
            [text |-> t.text, born |-> t.born, con |-> flag, vec |-> t.vec]
  BY DEF Trace

\* A trace keeps all but its flag, and the last flag counts.
LEMMA FlagOfTrace ==
  ASSUME NEW t \in Trace
  PROVE  /\ Settled(t) \in Trace /\ Settled(t) # Absent
         /\ Labile(t) \in Trace /\ Labile(t) # Absent
         /\ Settled(Settled(t)) = Settled(t) /\ Labile(Settled(t)) = Labile(t)
<1>1. Settled(t) \in Trace /\ Labile(t) \in Trace
  BY DEF Trace, Settled, Labile
<1>2. ASSUME NEW u \in Trace
      PROVE  /\ Settled(u) = [text |-> u.text, born |-> u.born, con |-> TRUE, vec |-> u.vec]
             /\ Labile(u) = [text |-> u.text, born |-> u.born, con |-> FALSE, vec |-> u.vec]
  BY FlagSet DEF Settled, Labile
<1>3. /\ Settled(t).text = t.text /\ Settled(t).born = t.born /\ Settled(t).vec = t.vec
  BY <1>2
<1>4. Settled(Settled(t)) = Settled(t) /\ Labile(Settled(t)) = Labile(t)
  <2>1. Settled(Settled(t)) = [text |-> t.text, born |-> t.born, con |-> TRUE, vec |-> t.vec]
    BY <1>1, <1>2, <1>3
  <2>2. Labile(Settled(t)) = [text |-> t.text, born |-> t.born, con |-> FALSE, vec |-> t.vec]
    BY <1>1, <1>2, <1>3
  <2> QED
    BY <1>2, <2>1, <2>2
<1> QED
  BY <1>1, <1>4, DreamAssumption

LEMMA SettledAt ==
  ASSUME NEW r, NEW S, NEW i \in Ids
  PROVE  Consolidated(r, S, TRUE)[i] =
            IF i \in S /\ r[i] # Absent THEN Settled(r[i]) ELSE r[i]
  BY DEF Consolidated, Settled

LEMMA LabileAt ==
  ASSUME NEW r, NEW S, NEW i \in Ids
  PROVE  Consolidated(r, S, FALSE)[i] =
            IF i \in S /\ r[i] # Absent THEN Labile(r[i]) ELSE r[i]
  BY DEF Consolidated, Labile

LEMMA ConsolidatedIsRows ==
  ASSUME NEW r \in Rows, NEW S
  PROVE  Consolidated(r, S, TRUE) \in Rows /\ Consolidated(r, S, FALSE) \in Rows
<1>1. ASSUME NEW i \in Ids
      PROVE  /\ Consolidated(r, S, TRUE)[i] \in Trace \cup {Absent}
             /\ Consolidated(r, S, FALSE)[i] \in Trace \cup {Absent}
  <2>1. r[i] = Absent \/ r[i] \in Trace
    BY DEF Rows
  <2>2. /\ Consolidated(r, S, TRUE)[i] \in {r[i], Settled(r[i])}
        /\ Consolidated(r, S, FALSE)[i] \in {r[i], Labile(r[i])}
        /\ r[i] = Absent => /\ Consolidated(r, S, TRUE)[i] = Absent
                           /\ Consolidated(r, S, FALSE)[i] = Absent
    BY SettledAt, LabileAt
  <2> QED
    BY <2>1, <2>2, FlagOfTrace
<1>2. /\ Consolidated(r, S, TRUE) = [i \in Ids |-> Consolidated(r, S, TRUE)[i]]
      /\ Consolidated(r, S, FALSE) = [i \in Ids |-> Consolidated(r, S, FALSE)[i]]
  BY DEF Consolidated
<1> QED
  BY <1>1, <1>2 DEF Rows

LEMMA UndoneIsRows ==
  ASSUME NEW r \in Rows, NEW rep \in Report
  PROVE  Undone(r, rep) \in Rows
<1>1. CASE rep.action = "keep"
  BY <1>1, ConsolidatedIsRows DEF Undone
<1>2. CASE rep.action # "keep"
  <2>1. PICK s \in SUBSET Ids : rep.absorbed \in [s -> Trace]
    BY <1>2 DEF Report
  <2> QED
    BY <1>2, <2>1 DEF Undone, Rows
<1> QED
  BY <1>1, <1>2

LEMMA UndoneDiffers ==
  ASSUME NEW r \in Rows, NEW b \in Rows, NEW S, NEW rep \in Report, Differs(r, b, S)
  PROVE  Differs(Undone(r, rep), Undone(b, rep), S)
<1> DEFINE r2 == Undone(r, rep)
           b2 == Undone(b, rep)
<1>1. r2 \in Rows /\ b2 \in Rows
  BY UndoneIsRows
<1>2. \A i \in Ids : r2[i] = b2[i] \/ (r2[i] = r[i] /\ b2[i] = b[i])
  <2>1. CASE rep.action = "keep"
    <3>1. r2 = Consolidated(r, {rep.seed}, FALSE) /\ b2 = Consolidated(b, {rep.seed}, FALSE)
      BY <2>1 DEF Undone
    <3> HIDE DEF r2, b2
    <3>2. ASSUME NEW i \in Ids
          PROVE  r2[i] = b2[i] \/ (r2[i] = r[i] /\ b2[i] = b[i])
      <4>1. CASE i # rep.seed \/ r[i] = b[i]
        <5>1. CASE i # rep.seed
          <6>1. r2[i] = r[i]
            BY <3>1, <5>1, LabileAt
          <6>2. b2[i] = b[i]
            BY <3>1, <5>1, LabileAt
          <6> QED
            BY <6>1, <6>2
        <5>2. CASE r[i] = b[i] /\ r[i] = Absent
          BY <3>1, <5>2, LabileAt
        <5>3. CASE i = rep.seed /\ r[i] = b[i] /\ r[i] # Absent
          <6>1. r2[i] = Labile(r[i])
            BY <3>1, <5>3, LabileAt
          <6>2. b2[i] = Labile(b[i])
            BY <3>1, <5>3, LabileAt
          <6> QED
            BY <5>3, <6>1, <6>2
        <5> QED
          BY <4>1, <5>1, <5>2, <5>3
      <4>2. CASE i = rep.seed /\ r[i] # b[i]
        <5>1. r[i] = Consolidated(b, {i}, TRUE)[i]
          BY <4>2 DEF Differs
        <5>2. b[i] # Absent /\ r[i] = Settled(b[i])
          BY <4>2, <5>1, SettledAt
        <5>3. b[i] \in Trace
          BY <5>2 DEF Rows
        <5>4. r[i] # Absent
          BY <5>2, <5>3, FlagOfTrace
        <5>5. r2[i] = Labile(r[i]) /\ b2[i] = Labile(b[i])
          BY <3>1, <4>2, <5>2, <5>4, LabileAt
        <5>6. Labile(Settled(b[i])) = Labile(b[i])
          BY <5>3, FlagOfTrace
        <5> QED
          BY <5>2, <5>5, <5>6
      <4> QED
        BY <4>1, <4>2
    <3> QED
      BY <3>2
  <2>2. CASE rep.action # "keep"
    <3>1. ASSUME NEW t, NEW i \in Ids
          PROVE  Undone(t, rep)[i] = IF i \in DOMAIN rep.absorbed THEN rep.absorbed[i]
                                     ELSE IF i \in rep.after THEN Absent ELSE t[i]
      BY <2>2 DEF Undone
    <3>2. ASSUME NEW i \in Ids
          PROVE  r2[i] = b2[i] \/ (r2[i] = r[i] /\ b2[i] = b[i])
      <4>1. CASE i \in DOMAIN rep.absorbed
        BY <3>1, <4>1
      <4>2. CASE i \notin DOMAIN rep.absorbed /\ i \in rep.after
        BY <3>1, <4>2
      <4>3. CASE i \notin DOMAIN rep.absorbed /\ i \notin rep.after
        BY <3>1, <4>3
      <4> QED
        BY <4>1, <4>2, <4>3
    <3> QED
      BY <3>2
  <2> QED
    BY <2>1, <2>2
<1> HIDE DEF r2, b2
<1>3. ASSUME NEW i \in Ids, r2[i] = r[i], b2[i] = b[i]
      PROVE  Consolidated(b2, {i}, TRUE)[i] = Consolidated(b, {i}, TRUE)[i]
  BY <1>3 DEF Consolidated
<1>4. ASSUME NEW i \in Ids
      PROVE  r2[i] = b2[i] \/ (i \in S /\ r2[i] = Consolidated(b2, {i}, TRUE)[i])
  <2>1. CASE r2[i] = r[i] /\ b2[i] = b[i]
    <3>1. Consolidated(b2, {i}, TRUE)[i] = Consolidated(b, {i}, TRUE)[i]
      BY <1>3, <2>1
    <3>2. r[i] = b[i] \/ (i \in S /\ r[i] = Consolidated(b, {i}, TRUE)[i])
      BY DEF Differs
    <3> QED
      BY <2>1, <3>1, <3>2
  <2> QED
    BY <1>2, <2>1
<1>5. Differs(r2, b2, S)
  BY <1>4 DEF Differs
<1> QED
  BY <1>5 DEF r2, b2

\* Taking reports back keeps two stores as close as they are.
LEMMA UndoneAllDiffers ==
  ASSUME NEW r \in Rows, NEW b \in Rows, NEW S, NEW rs \in Seq(Report), Differs(r, b, S)
  PROVE  /\ Differs(UndoneAll(r, rs), UndoneAll(b, rs), S)
         /\ UndoneAll(r, rs) \in Rows /\ UndoneAll(b, rs) \in Rows
<1> DEFINE n == Len(rs)
<1>1. n \in Nat /\ \A k \in 1 .. n : rs[n - k + 1] \in Report
  OBVIOUS
<1>2. PICK f : Back(f, n, r, rs)
  BY <1>1, BackExists
<1>3. PICK g : Back(g, n, b, rs)
  BY <1>1, BackExists
<1> DEFINE Close(k) == f[k] \in Rows /\ g[k] \in Rows /\ Differs(f[k], g[k], S)
           T == {k \in 0 .. n : ~Close(k)}
<1>4. T = {}
  <2> SUFFICES ASSUME T # {}
               PROVE  FALSE
    OBVIOUS
  <2>1. T \in SUBSET Nat
    OBVIOUS
  <2>2. PICK k \in T : \A l \in T : k <= l
    BY <2>1, LeastNatural
  <2>3. Close(0)
    BY <1>2, <1>3 DEF Back
  <2> HIDE DEF Close
  <2>4. k \in 1 .. n
    BY <2>2, <2>3
  <2>5. k - 1 \in 0 .. n /\ k - 1 \notin T
    BY <2>2, <2>4
  <2>6. Close(k - 1)
    BY <2>5
  <2>7. /\ f[k] = Undone(f[k - 1], rs[n - k + 1])
        /\ g[k] = Undone(g[k - 1], rs[n - k + 1])
    BY <1>2, <1>3, <2>4 DEF Back
  <2>8. rs[n - k + 1] \in Report
    BY <1>1, <2>4
  <2>9. Close(k)
    BY <2>6, <2>7, <2>8, UndoneDiffers, UndoneIsRows DEF Close
  <2> QED
    BY <2>2, <2>9
<1>5. Close(n)
  <2> HIDE DEF Close
  <2>1. n \in 0 .. n
    BY <1>1
  <2> QED
    BY <1>4, <2>1
<1> QED
  BY <1>2, <1>3, <1>5, UndoneAllIs

\* What is close to a store that is close is close to it.
LEMMA DiffersAdds ==
  ASSUME NEW a \in Rows, NEW b \in Rows, NEW c \in Rows, NEW S, NEW R,
         Differs(a, b, S), Differs(b, c, R)
  PROVE  Differs(a, c, R \cup S)
<1>1. ASSUME NEW i \in Ids
      PROVE  a[i] = c[i] \/ (i \in R \cup S /\ a[i] = Consolidated(c, {i}, TRUE)[i])
  <2>1. CASE a[i] = b[i]
    BY <2>1 DEF Differs
  <2>2. CASE a[i] # b[i] /\ b[i] = c[i]
    BY <2>2 DEF Differs, Consolidated
  <2>3. CASE a[i] # b[i] /\ b[i] # c[i]
    <3>1. i \in S /\ a[i] = Consolidated(b, {i}, TRUE)[i] /\ b[i] = Consolidated(c, {i}, TRUE)[i]
      BY <2>3 DEF Differs
    <3>2. c[i] # Absent /\ b[i] = Settled(c[i])
      BY <2>3, <3>1, SettledAt
    <3>3. c[i] \in Trace
      BY <3>2 DEF Rows
    <3>4. b[i] # Absent
      BY <3>2, <3>3, FlagOfTrace
    <3>5. a[i] = Settled(b[i])
      BY <3>1, <3>4, SettledAt
    <3>6. a[i] = b[i]
      BY <3>2, <3>3, <3>5, FlagOfTrace
    <3> QED
      BY <2>3, <3>6
  <2> QED
    BY <2>1, <2>2, <2>3
<1> QED
  BY <1>1 DEF Differs

-----------------------------------------------------------------------------
(* The steps.                                                              *)

LEMMA RestoresAsDiffers ==
  UndoRestoresAll <=> Differs(UndoneAll(rows, reports), before, settled)
  BY DEF UndoRestoresAll, Differs

\* Another change to the store ends the promise of the reports.
LEMMA ForgettingPreserves ==
  ASSUME IInv, NEW r \in Rows, Forgetting(r), lastId' \in Nat, DreamOK',
         \A i \in Ids : i > lastId' => r[i] = Absent
  PROVE  IInv'
<1>1. rows' = r /\ before' = r /\ reports' = << >> /\ settled' = {}
  BY DEF Forgetting
<1>2. TypeOK'
  BY <1>1 DEF TypeOK
<1>3. NewIdsAreFree'
  BY <1>1 DEF NewIdsAreFree
<1>4. AbsorbedIsGone'
  BY <1>1 DEF AbsorbedIsGone
<1>5. Differs(r, r, {})
  BY DEF Differs
<1>6. UndoRestoresAll'
  <2>1. UndoneAll(r, << >>) = r
    BY UndoneNothing
  <2>2. Differs(UndoneAll(rows', reports'), before', settled')
    BY <1>1, <1>5, <2>1
  <2> QED
    BY <2>2 DEF UndoRestoresAll, Differs
<1> QED
  BY <1>2, <1>3, <1>4, <1>6 DEF IInv

LEMMA ReindexedIsRows ==
  ASSUME NEW r \in Rows, NEW fresh \in SUBSET Stale(r)
  PROVE  /\ Reindexed(r, fresh) \in Rows
         /\ \A i \in Ids : r[i] = Absent => Reindexed(r, fresh)[i] = Absent
<1>1. ASSUME NEW t \in Trace
      PROVE  [t EXCEPT !.vec = TRUE] \in Trace
  BY DEF Trace
<1>2. \A i \in fresh : i \in Ids /\ r[i] # Absent /\ r[i] \in Trace
  BY DEF Stale, Stored, Rows
<1> QED
  BY <1>1, <1>2 DEF Reindexed, Rows

LEMMA AwakeIsDream ==
  ASSUME NEW q, NEW c, NEW l, NEW o, NEW s,
         dream' = [queue |-> q, cued |-> c, alone |-> {}, left |-> l, on |-> o, single |-> s]
  PROVE  DreamOK'
  BY DEF DreamOK

LEMMA WakingPreserves ==
  ASSUME IInv,
         \/ \E text \in Texts, vec, cued \in BOOLEAN : Remember(text, vec, cued)
         \/ \E i \in Ids : Drop(i) \/ StartSeed(i)
         \/ Reindex \/ StartDream \/ NewEngine
  PROVE  IInv'
<1> USE DEF IInv
<1>1. /\ rows \in Rows /\ lastId \in Nat /\ DreamOK
      /\ \A i \in Ids : i > lastId => rows[i] = Absent
  BY DEF TypeOK, NewIdsAreFree
<1>2. ASSUME NEW text \in Texts, NEW vec \in BOOLEAN, NEW cued \in BOOLEAN,
             Remember(text, vec, cued)
      PROVE  IInv'
  <2>1. PICK con \in BOOLEAN :
          /\ lastId < MaxId /\ lastId' = lastId + 1 /\ dream' = dream
          /\ Forgetting([rows EXCEPT ![lastId + 1] =
               [text |-> text, born |-> StatedAt[lastId + 1], con |-> con, vec |-> vec]])
    BY <1>2 DEF Remember
  <2> DEFINE id == lastId + 1
             t == [text |-> text, born |-> StatedAt[id], con |-> con, vec |-> vec]
             r == [rows EXCEPT ![id] = t]
  <2>2. id \in Ids /\ id \in Nat
    BY <1>1, <2>1, DreamAssumption DEF Ids
  <2>3. t \in Trace
    BY <2>2, DreamAssumption DEF Trace
  <2> HIDE DEF t
  <2>4. r \in Rows
    BY <1>1, <2>2, <2>3 DEF Rows
  <2>5. \A i \in Ids : i > id => r[i] = Absent
    BY <1>1, <2>2 DEF Rows, Ids
  <2>6. Forgetting(r) /\ lastId' = id /\ DreamOK'
    BY <1>1, <2>1 DEF DreamOK, t
  <2> HIDE DEF r, id
  <2> QED
    BY <2>2, <2>4, <2>5, <2>6, ForgettingPreserves
<1>3. ASSUME NEW i \in Ids, Drop(i)
      PROVE  IInv'
  <2> DEFINE r == [rows EXCEPT ![i] = Absent]
  <2>1. r \in Rows /\ \A j \in Ids : j > lastId => r[j] = Absent
    BY <1>1 DEF Rows
  <2>2. Forgetting(r) /\ lastId' = lastId /\ DreamOK'
    BY <1>1, <1>3 DEF Drop, DreamOK
  <2> HIDE DEF r
  <2> QED
    BY <1>1, <2>1, <2>2, ForgettingPreserves
<1>4. ASSUME NEW i \in Ids, StartSeed(i)
      PROVE  IInv'
  <2>1. PICK cued : dream' = [Awake EXCEPT !.queue = <<i>>, !.cued = cued, !.left = 1,
                                           !.on = TRUE, !.single = TRUE]
    BY <1>4 DEF StartSeed
  <2>2. dream' = [queue |-> <<i>>, cued |-> cued, alone |-> {}, left |-> 1, on |-> TRUE,
                  single |-> TRUE]
    BY <2>1 DEF Awake
  <2>3. DreamOK'
    BY <2>2, AwakeIsDream
  <2>4. Forgetting(rows) /\ lastId' = lastId
    BY <1>4 DEF StartSeed
  <2> QED
    BY <1>1, <2>3, <2>4, ForgettingPreserves
<1>5. CASE Reindex
  <2>1. PICK fresh \in SUBSET Stale(rows) : Forgetting(Reindexed(rows, fresh))
    BY <1>5 DEF Reindex
  <2>2. lastId' = lastId /\ DreamOK'
    BY <1>1, <1>5 DEF Reindex, DreamOK
  <2> QED
    BY <1>1, <2>1, <2>2, ReindexedIsRows, ForgettingPreserves
<1>6. CASE StartDream
  <2>1. PICK fresh \in SUBSET Stale(rows) :
          /\ Forgetting(Reindexed(rows, fresh))
          /\ \E q, c : dream' = [Awake EXCEPT !.queue = q, !.cued = c, !.left = Budget,
                                              !.on = TRUE]
    BY <1>6 DEF StartDream
  <2>2. PICK q, c : dream' = [Awake EXCEPT !.queue = q, !.cued = c, !.left = Budget, !.on = TRUE]
    BY <2>1
  <2>3. dream' = [queue |-> q, cued |-> c, alone |-> {}, left |-> Budget, on |-> TRUE,
                  single |-> FALSE]
    BY <2>2 DEF Awake
  <2>4. DreamOK'
    BY <2>3, AwakeIsDream
  <2>5. lastId' = lastId
    BY <1>6 DEF StartDream
  <2> QED
    BY <1>1, <2>1, <2>4, <2>5, ReindexedIsRows, ForgettingPreserves
<1>7. CASE NewEngine
  <2>1. lastId' = lastId + 1 /\ Forgetting(rows) /\ dream' = Awake
    BY <1>7 DEF NewEngine
  <2>2. DreamOK'
    BY <2>1, AwakeIsDream DEF Awake
  <2>3. \A i \in Ids : i > lastId' => rows[i] = Absent
    BY <1>1, <2>1 DEF Ids
  <2> QED
    BY <1>1, <2>1, <2>2, <2>3, ForgettingPreserves
<1> QED
  BY <1>2, <1>3, <1>4, <1>5, <1>6, <1>7

\* Steps that write nothing.
LEMMA LookingPreserves ==
  ASSUME IInv, NEW i \in Ids,
         SkipSeed(i) \/ Alone(i) \/ VerdictFails(i) \/ StoreFails(i) \/ ReadFails(i)
  PROVE  IInv'
<1>1. UNCHANGED <<rows, lastId, reports, before, settled>>
  BY DEF SkipSeed, Alone, VerdictFails, StoreFails, ReadFails
<1>2. DreamOK
  BY DEF IInv
<1>3. dream.alone \subseteq dream.cued \cap Ids
  BY <1>2 DEF DreamOK
<1>4. PICK q, c, a, l, o, s :
        dream = [queue |-> q, cued |-> c, alone |-> a, left |-> l, on |-> o, single |-> s]
  BY <1>2 DEF DreamOK
<1>5. c = dream.cued /\ a = dream.alone
  BY <1>4
<1>6. DreamOK'
  <2>1. CASE SkipSeed(i)
    <3>1. dream' = [queue |-> Tail(q), cued |-> c, alone |-> a, left |-> l, on |-> o, single |-> s]
      BY <1>4, <2>1 DEF SkipSeed, Rest
    <3> QED
      BY <1>3, <1>5, <3>1 DEF DreamOK
  <2>2. CASE Alone(i)
    <3>1. PICK b \in {a, a \cup {i}} :
            /\ b # a => i \in c
            /\ dream' = [queue |-> Tail(q), cued |-> c, alone |-> b, left |-> l, on |-> o,
                         single |-> s]
      BY <1>4, <2>2 DEF Alone, Rest
    <3>2. b \subseteq c \cap Ids
      BY <1>3, <1>5, <3>1
    <3> QED
      BY <3>1, <3>2 DEF DreamOK
  <2>3. CASE VerdictFails(i)
    <3>1. dream' = [queue |-> Tail(q), cued |-> c, alone |-> a, left |-> l - 1, on |-> o,
                    single |-> s]
      BY <1>4, <2>3 DEF VerdictFails, Judged, Rest
    <3> QED
      BY <1>3, <1>5, <3>1 DEF DreamOK
  <2>4. CASE StoreFails(i)
    BY <2>4, AwakeIsDream DEF StoreFails, Awake
  <2>5. CASE ReadFails(i)
    <3>1. dream' = [queue |-> << >>, cued |-> c, alone |-> a, left |-> l, on |-> o, single |-> s]
      BY <1>4, <2>5 DEF ReadFails, Rest
    <3> QED
      BY <1>3, <1>5, <3>1 DEF DreamOK
  <2> QED
    BY <2>1, <2>2, <2>3, <2>4, <2>5
<1> QED
  BY <1>1, <1>6 DEF IInv, TypeOK, NewIdsAreFree, AbsorbedIsGone, Takes, UndoRestoresAll

\* A verdict whose report gives back the store it found keeps the promise of the others.
LEMMA VerdictRestores ==
  ASSUME IInv, NEW rep \in Report, reports' = Append(reports, rep),
         before' = before, settled' = settled, Undone(rows', rep) = rows
  PROVE  UndoRestoresAll'
<1>1. UndoneAll(rows', Append(reports, rep)) = UndoneAll(rows, reports)
  BY UndoneNewest DEF IInv, TypeOK
<1>2. Differs(UndoneAll(rows, reports), before, settled)
  BY RestoresAsDiffers DEF IInv
<1>3. Differs(UndoneAll(rows', reports'), before', settled')
  BY <1>1, <1>2
<1> QED
  BY <1>3 DEF UndoRestoresAll, Differs

LEMMA JudgedIsDream ==
  ASSUME DreamOK, dream' = Judged
  PROVE  DreamOK'
<1>1. PICK q, c, a, l, o, s :
        dream = [queue |-> q, cued |-> c, alone |-> a, left |-> l, on |-> o, single |-> s]
  BY DEF DreamOK
<1>2. dream' = [queue |-> Tail(q), cued |-> c, alone |-> a, left |-> l - 1, on |-> o,
                single |-> s]
  BY <1>1 DEF Judged, Rest
<1>3. a \subseteq c \cap Ids
  BY <1>1 DEF DreamOK
<1> QED
  BY <1>2, <1>3 DEF DreamOK

\* The places of the reports when one more is made.
LEMMA OneMoreReport ==
  ASSUME reports \in Seq(Report), NEW rep \in Report
  PROVE  LET all == Append(reports, rep)
         IN  /\ all \in Seq(Report) /\ Len(all) = Len(reports) + 1 /\ Len(reports) \in Nat
             /\ all[Len(reports) + 1] = rep
             /\ \A k \in 1 .. Len(reports) : all[k] = reports[k]
  OBVIOUS

LEMMA KeepPreserves ==
  ASSUME IInv, NEW i \in Ids, VerdictKeeps(i)
  PROVE  IInv'
<1> DEFINE rep == [action |-> "keep", seed |-> i]
<1>1. /\ rows' = Consolidated(rows, {i}, TRUE) /\ reports' = Append(reports, rep)
      /\ dream' = Judged /\ lastId' = lastId /\ before' = before /\ settled' = settled
      /\ rows[i] # Absent /\ ~rows[i].con
  BY DEF VerdictKeeps, Judge
<1>2. rep \in Report /\ rep.action = "keep" /\ rep.seed = i
  BY DEF Report
<1> HIDE DEF rep
<1>3. /\ rows \in Rows /\ rows' \in Rows /\ rows[i] \in Trace /\ reports \in Seq(Report)
      /\ lastId \in Nat /\ before \in Rows
  BY <1>1, ConsolidatedIsRows DEF IInv, TypeOK, Rows
<1>4. /\ rows'[i] = Settled(rows[i]) /\ rows'[i] # Absent
      /\ \A j \in Ids : j # i => rows'[j] = rows[j]
  <2>1. rows'[i] = Settled(rows[i])
    BY <1>1, SettledAt
  <2>2. \A j \in Ids : j # i => rows'[j] = rows[j]
    BY <1>1, SettledAt
  <2>3. Settled(rows[i]) # Absent
    BY <1>3, FlagOfTrace
  <2> QED
    BY <2>1, <2>2, <2>3
<1>5. Undone(rows', rep) = rows
  <2>1. Undone(rows', rep) = Consolidated(rows', {i}, FALSE)
    BY <1>2 DEF Undone
  <2>2. Labile(rows[i]) = rows[i]
    BY <1>1, <1>3 DEF Labile, Trace
  <2>3. Labile(Settled(rows[i])) = Labile(rows[i])
    BY <1>3, FlagOfTrace
  <2>4. Consolidated(rows', {i}, FALSE)[i] = Labile(rows'[i])
    BY <1>4, LabileAt
  <2>5. \A j \in Ids : j # i => Consolidated(rows', {i}, FALSE)[j] = rows'[j]
    BY LabileAt
  <2>6. \A j \in Ids : Consolidated(rows', {i}, FALSE)[j] = rows[j]
    BY <1>4, <2>2, <2>3, <2>4, <2>5
  <2>7. Consolidated(rows', {i}, FALSE) \in Rows
    BY <1>3, ConsolidatedIsRows
  <2> DEFINE c == Consolidated(rows', {i}, FALSE)
  <2>8. c \in Rows /\ \A j \in Ids : c[j] = rows[j]
    BY <2>6, <2>7
  <2> HIDE DEF c
  <2>9. c = rows
    BY <1>3, <2>8 DEF Rows
  <2> QED
    BY <2>1, <2>9 DEF c
<1>6. UndoRestoresAll'
  BY <1>1, <1>2, <1>5, VerdictRestores
<1>7. TypeOK' /\ DreamOK'
  BY <1>1, <1>2, <1>3, OneMoreReport, JudgedIsDream DEF IInv, TypeOK
<1>8. \A j \in Ids : rows[j] = Absent => rows'[j] = Absent
  BY <1>1, <1>4
<1>9. NewIdsAreFree'
  BY <1>1, <1>8 DEF IInv, NewIdsAreFree
<1>10. AbsorbedIsGone'
  <2>1. ASSUME NEW k \in 1 .. Len(reports'), NEW j \in Ids, Takes(k, j)'
        PROVE  k \in 1 .. Len(reports) /\ Takes(k, j)
    BY <1>1, <1>2, <1>3, <2>1, OneMoreReport DEF Takes
  <2>2. AbsorbedIsGone
    BY DEF IInv
  <2> QED
    BY <1>1, <1>8, <2>1, <2>2 DEF AbsorbedIsGone
<1> QED
  BY <1>6, <1>7, <1>9, <1>10 DEF IInv

\* A replace verdict takes traces that are there and gives as many new ids as it has gists.
LEMMA ReplaceTakes ==
  ASSUME IInv, NEW i \in Ids, VerdictReplaces(i)
  PROVE  \E absorbed \in SUBSET Stored(rows), n \in Nat :
         \E texts \in [1 .. n -> Texts] :
           /\ i \in absorbed /\ n <= MaxId - lastId
           /\ rows' = Replaced(rows, absorbed, texts)
           /\ lastId' = lastId + n
           /\ reports' = Append(reports,
                [action |-> "replace", absorbed |-> [j \in absorbed |-> rows[j]],
                 after |-> lastId + 1 .. lastId + n])
<1>1. i \in Stored(rows)
  BY DEF VerdictReplaces, Judge, Stored
<1>2. PICK others \in Candidates(i, i \in dream.cued) :
      \E absorbed \in {{i} \cup s : s \in SUBSET others} :
      \E n \in 1 .. Least(MaxGists, Least(Cardinality(absorbed), MaxId - lastId)) :
      \E texts \in {f \in [1 .. n -> Texts] : \A j, k \in 1 .. n : f[j] = f[k] => j = k} :
        /\ rows' = Replaced(rows, absorbed, texts)
        /\ lastId' = lastId + n
        /\ reports' = Append(reports,
             [action |-> "replace", absorbed |-> [j \in absorbed |-> rows[j]],
              after |-> lastId + 1 .. lastId + n])
  BY DEF VerdictReplaces
<1>3. PICK s \in SUBSET others : 
      \E n \in 1 .. Least(MaxGists, Least(Cardinality({i} \cup s), MaxId - lastId)) :
      \E texts \in {f \in [1 .. n -> Texts] : \A j, k \in 1 .. n : f[j] = f[k] => j = k} :
        /\ rows' = Replaced(rows, {i} \cup s, texts)
        /\ lastId' = lastId + n
        /\ reports' = Append(reports,
             [action |-> "replace", absorbed |-> [j \in {i} \cup s |-> rows[j]],
              after |-> lastId + 1 .. lastId + n])
  BY <1>2
<1> DEFINE absorbed == {i} \cup s
<1>4. absorbed \in SUBSET Stored(rows) /\ i \in absorbed
  BY <1>1, <1>3 DEF Candidates, Older
<1>5. IsFiniteSet(absorbed) /\ Cardinality(absorbed) \in Nat
  <2>1. Ids = 1 .. MaxId /\ IsFiniteSet(Ids)
    BY DreamAssumption, FS_Interval DEF Ids
  <2>2. absorbed \subseteq Ids
    BY <1>4 DEF Stored
  <2> HIDE DEF absorbed
  <2> QED
    BY <2>1, <2>2, FS_Subset, FS_CardinalityType
<1> HIDE DEF absorbed
<1>6. PICK n \in 1 .. Least(MaxGists, Least(Cardinality(absorbed), MaxId - lastId)) :
      \E texts \in {f \in [1 .. n -> Texts] : \A j, k \in 1 .. n : f[j] = f[k] => j = k} :
        /\ rows' = Replaced(rows, absorbed, texts)
        /\ lastId' = lastId + n
        /\ reports' = Append(reports,
             [action |-> "replace", absorbed |-> [j \in absorbed |-> rows[j]],
              after |-> lastId + 1 .. lastId + n])
  BY <1>3 DEF absorbed
<1>7. n \in Nat /\ n <= MaxId - lastId
  <2>1. MaxId - lastId \in Int /\ MaxGists \in Nat
    BY DreamAssumption DEF IInv, TypeOK
  <2>2. \A a, b \in Int : Least(a, b) \in Int /\ Least(a, b) <= a /\ Least(a, b) <= b
    BY DEF Least
  <2> DEFINE l == Least(Cardinality(absorbed), MaxId - lastId)
             m == Least(MaxGists, l)
  <2>3. l \in Int /\ l <= MaxId - lastId
    BY <1>5, <2>1, <2>2
  <2> HIDE DEF l
  <2>4. m \in Int /\ m <= l
    BY <2>1, <2>2, <2>3
  <2>5. n \in 1 .. m
    BY <1>6 DEF l
  <2> HIDE DEF m
  <2> QED
    BY <2>1, <2>3, <2>4, <2>5
<1> QED
  BY <1>4, <1>6, <1>7

LEMMA ReplacePreserves ==
  ASSUME IInv, NEW i \in Ids, VerdictReplaces(i)
  PROVE  IInv'
<1>0. PICK absorbed \in SUBSET Stored(rows), n \in Nat : \E texts \in [1 .. n -> Texts] :
        /\ i \in absorbed /\ n <= MaxId - lastId
        /\ rows' = Replaced(rows, absorbed, texts)
        /\ lastId' = lastId + n
        /\ reports' = Append(reports,
             [action |-> "replace", absorbed |-> [j \in absorbed |-> rows[j]],
              after |-> lastId + 1 .. lastId + n])
  BY ReplaceTakes
<1>1. PICK texts \in [1 .. n -> Texts] :
        /\ i \in absorbed /\ n <= MaxId - lastId
        /\ rows' = Replaced(rows, absorbed, texts)
        /\ lastId' = lastId + n
        /\ reports' = Append(reports,
             [action |-> "replace", absorbed |-> [j \in absorbed |-> rows[j]],
              after |-> lastId + 1 .. lastId + n])
  BY <1>0
<1> DEFINE rep == [action |-> "replace", absorbed |-> [j \in absorbed |-> rows[j]],
                   after |-> lastId + 1 .. lastId + n]
<1>2. /\ rows \in Rows /\ before \in Rows /\ lastId \in Nat /\ reports \in Seq(Report)
      /\ DreamOK /\ \A j \in Ids : j > lastId => rows[j] = Absent
  BY DEF IInv, TypeOK, NewIdsAreFree
<1>3. before' = before /\ settled' = settled /\ dream' = Judged
  BY DEF VerdictReplaces
<1>4. absorbed \subseteq Ids /\ \A j \in absorbed : rows[j] \in Trace /\ j <= lastId
  <2>1. \A j \in absorbed : j \in Ids /\ rows[j] # Absent
    BY <1>1 DEF Stored
  <2> QED
    BY <1>2, <2>1 DEF Rows, Ids
<1>5. rep \in Report
  <2>1. [j \in absorbed |-> rows[j]] \in [absorbed -> Trace]
    BY <1>4
  <2>2. [j \in absorbed |-> rows[j]] \in UNION {[s -> Trace] : s \in SUBSET Ids}
    BY <1>4, <2>1
  <2>3. lastId + 1 .. lastId + n \in SUBSET Nat
    BY <1>2
  <2> QED
    BY <2>2, <2>3 DEF Report
<1>6. /\ rep.action = "replace" /\ DOMAIN rep.absorbed = absorbed
      /\ \A j \in absorbed : rep.absorbed[j] = rows[j]
      /\ rep.after = lastId + 1 .. lastId + n
      /\ reports' = Append(reports, rep)
  BY <1>1
<1> HIDE DEF rep
<1>7. /\ rows' \in Rows
      /\ \A j \in absorbed : rows'[j] = Absent
      /\ \A j \in Ids \ absorbed : j \notin lastId + 1 .. lastId + n => rows'[j] = rows[j]
  <2>1. IsFiniteSet(absorbed)
    <3>1. IsFiniteSet(Ids)
      BY DreamAssumption, FS_Interval DEF Ids
    <3> QED
      BY <1>4, <3>1, FS_Subset
  <2> DEFINE born == [j \in absorbed |-> rows[j].born]
  <2>2. \A j \in absorbed : born[j] \in Nat
    BY <1>4 DEF Trace
  <2>3. \E k \in absorbed : \A j \in absorbed : born[j] <= born[k]
    <3> HIDE DEF born
    <3> QED
      BY <1>1, <2>1, <2>2, NewestExists
  <2>4. \E k \in absorbed : \A j \in absorbed : rows[j].born <= rows[k].born
    BY <2>3
  <2> DEFINE newest == CHOOSE k \in absorbed : \A j \in absorbed : rows[j].born <= rows[k].born
             gist(k) == [text |-> texts[k], born |-> rows[newest].born, con |-> TRUE, vec |-> TRUE]
  <2>5. newest \in absorbed
    BY <2>4
  <2>6. rows' = [j \in Ids |-> IF j \in absorbed THEN Absent
                              ELSE IF j - lastId \in DOMAIN texts THEN gist(j - lastId)
                              ELSE rows[j]]
    BY <1>1 DEF Replaced
  <2> HIDE DEF newest
  <2>7. \A k \in 1 .. n : gist(k) \in Trace
    BY <1>4, <2>5 DEF Trace
  <2> HIDE DEF gist
  <2>8. \A j \in Ids : j - lastId \in 1 .. n <=> j \in lastId + 1 .. lastId + n
    BY <1>2 DEF Ids
  <2>9. rows' \in Rows
    BY <1>2, <2>6, <2>7 DEF Rows
  <2>10. \A j \in absorbed : rows'[j] = Absent
    BY <1>4, <2>6
  <2>11. \A j \in Ids \ absorbed : j \notin lastId + 1 .. lastId + n => rows'[j] = rows[j]
    BY <2>6, <2>8
  <2> QED
    BY <2>9, <2>10, <2>11
<1>8. Undone(rows', rep) = rows
  <2>1. Undone(rows', rep) = [j \in Ids |-> IF j \in absorbed THEN rep.absorbed[j]
                                           ELSE IF j \in rep.after THEN Absent ELSE rows'[j]]
    BY <1>6 DEF Undone
  <2>2. \A j \in Ids : Undone(rows', rep)[j] = rows[j]
    BY <1>2, <1>6, <1>7, <2>1
  <2>3. Undone(rows', rep) \in Rows
    BY <1>5, <1>7, UndoneIsRows
  <2> DEFINE u == Undone(rows', rep)
  <2>4. u \in Rows /\ \A j \in Ids : u[j] = rows[j]
    BY <2>2, <2>3
  <2> HIDE DEF u
  <2>5. u = rows
    BY <1>2, <2>4 DEF Rows
  <2> QED
    BY <2>5 DEF u
<1>9. UndoRestoresAll'
  BY <1>3, <1>5, <1>6, <1>8, VerdictRestores
<1>10. TypeOK' /\ DreamOK'
  BY <1>1, <1>2, <1>3, <1>5, <1>6, <1>7, OneMoreReport, JudgedIsDream DEF TypeOK
<1>11. NewIdsAreFree'
  <2>1. ASSUME NEW j \in Ids, j > lastId + n
        PROVE  rows'[j] = Absent
    <3>1. j > lastId /\ j \notin lastId + 1 .. lastId + n
      BY <1>2, <2>1 DEF Ids
    <3> QED
      BY <1>2, <1>7, <3>1
  <2> QED
    BY <1>1, <2>1 DEF NewIdsAreFree
<1>12. AbsorbedIsGone'
  <2>1. AbsorbedIsGone
    BY DEF IInv
  <2>2. ASSUME NEW k \in 1 .. Len(reports'), NEW j \in Ids, Takes(k, j)'
        PROVE  \/ k \in 1 .. Len(reports) /\ Takes(k, j)
               \/ k = Len(reports) + 1 /\ j \in absorbed
    BY <1>2, <1>5, <1>6, <2>2, OneMoreReport DEF Takes
  <2>3. \A j \in absorbed : \A k \in 1 .. Len(reports) : ~Takes(k, j)
    BY <1>4, <2>1, DreamAssumption DEF AbsorbedIsGone
  <2>4. ASSUME NEW k \in 1 .. Len(reports'), NEW j \in Ids, Takes(k, j)'
        PROVE  rows'[j] = Absent /\ j <= lastId'
    <3>1. CASE j \in absorbed
      BY <1>1, <1>2, <1>4, <1>7, <3>1 DEF Ids
    <3>2. CASE j \notin absorbed
      <4>1. rows[j] = Absent /\ j <= lastId
        BY <2>1, <2>2, <2>4, <3>2 DEF AbsorbedIsGone
      <4>2. j \notin lastId + 1 .. lastId + n
        BY <1>2, <4>1 DEF Ids
      <4> QED
        BY <1>1, <1>2, <1>7, <3>2, <4>1, <4>2 DEF Ids
    <3> QED
      BY <3>1, <3>2
  <2>5. ASSUME NEW k \in 1 .. Len(reports'), NEW l \in 1 .. Len(reports'), NEW j \in Ids,
               Takes(k, j)', Takes(l, j)'
        PROVE  l = k
    <3>1. CASE j \in absorbed
      BY <2>2, <2>3, <2>5, <3>1
    <3>2. CASE j \notin absorbed
      BY <2>1, <2>2, <2>5, <3>2 DEF AbsorbedIsGone
    <3> QED
      BY <3>1, <3>2
  <2> QED
    BY <2>4, <2>5 DEF AbsorbedIsGone
<1> QED
  BY <1>9, <1>10, <1>11, <1>12 DEF IInv

LEMMA EndPreserves ==
  ASSUME IInv, EndDream
  PROVE  IInv'
<1>1. /\ rows \in Rows /\ before \in Rows /\ reports \in Seq(Report)
      /\ lastId' = lastId /\ reports' = reports /\ before' = before /\ dream' = Awake
      /\ \/ rows' = Consolidated(rows, dream.alone, TRUE) /\ settled' = settled \cup dream.alone
         \/ rows' = rows /\ settled' = settled
  BY DEF EndDream, IInv, TypeOK
<1>2. DreamOK'
  BY <1>1, AwakeIsDream DEF Awake
<1>3. CASE rows' = rows /\ settled' = settled
  BY <1>1, <1>2, <1>3 DEF IInv, TypeOK, NewIdsAreFree, AbsorbedIsGone, Takes, UndoRestoresAll
<1>4. CASE /\ rows' = Consolidated(rows, dream.alone, TRUE)
           /\ settled' = settled \cup dream.alone
  <2>1. rows' \in Rows
    BY <1>1, <1>4, ConsolidatedIsRows
  <2>2. \A i \in Ids : rows[i] = Absent => rows'[i] = Absent
    BY <1>4, SettledAt
  <2>3. TypeOK' /\ NewIdsAreFree' /\ AbsorbedIsGone'
    BY <1>1, <2>1, <2>2 DEF IInv, TypeOK, NewIdsAreFree, AbsorbedIsGone, Takes
  <2>4. Differs(rows', rows, dream.alone)
    <3>1. ASSUME NEW i \in Ids, i \in dream.alone
          PROVE  rows'[i] = Consolidated(rows, {i}, TRUE)[i]
      <4>1. CASE rows[i] = Absent
        <5>1. rows'[i] = Absent /\ Consolidated(rows, {i}, TRUE)[i] = Absent
          BY <1>4, <4>1, SettledAt
        <5> QED
          BY <5>1
      <4>2. CASE rows[i] # Absent
        <5>1. rows'[i] = Settled(rows[i])
          BY <1>4, <3>1, <4>2, SettledAt
        <5>2. Consolidated(rows, {i}, TRUE)[i] = Settled(rows[i])
          BY <4>2, SettledAt
        <5> QED
          BY <5>1, <5>2
      <4> QED
        BY <4>1, <4>2
    <3>2. ASSUME NEW i \in Ids, i \notin dream.alone
          PROVE  rows'[i] = rows[i]
      BY <1>4, <3>2, SettledAt
    <3> QED
      BY <3>1, <3>2 DEF Differs
  <2>5. /\ Differs(UndoneAll(rows', reports), UndoneAll(rows, reports), dream.alone)
        /\ UndoneAll(rows', reports) \in Rows /\ UndoneAll(rows, reports) \in Rows
    BY <1>1, <2>1, <2>4, UndoneAllDiffers
  <2>6. Differs(UndoneAll(rows, reports), before, settled)
    BY RestoresAsDiffers DEF IInv
  <2>7. Differs(UndoneAll(rows', reports'), before', settled')
    BY <1>1, <1>4, <2>5, <2>6, DiffersAdds
  <2>8. UndoRestoresAll'
    BY <2>7 DEF UndoRestoresAll, Differs
  <2> QED
    BY <1>2, <2>3, <2>8 DEF IInv
<1> QED
  BY <1>1, <1>3, <1>4

LEMMA WithoutTheNewest ==
  ASSUME NEW rs \in Seq(Report), rs # << >>
  PROVE  LET n == Len(rs)
             rest == SubSeq(rs, 1, n - 1)
         IN  /\ n \in Nat /\ n # 0 /\ rs[n] \in Report /\ rest \in Seq(Report)
             /\ Len(rest) = n - 1 /\ Append(rest, rs[n]) = rs
             /\ \A k \in 1 .. n - 1 : rest[k] = rs[k]
<1> DEFINE n == Len(rs)
           rest == SubSeq(rs, 1, n - 1)
           all == Append(rest, rs[n])
<1>1. n \in Nat /\ n # 0 /\ rs[n] \in Report /\ \A k \in 1 .. n - 1 : rs[k] \in Report
  OBVIOUS
<1> HIDE DEF n
<1>2. rest \in Seq(Report) /\ Len(rest) = n - 1 /\ \A k \in 1 .. n - 1 : rest[k] = rs[k]
  BY <1>1, SubSeqProperties
<1> HIDE DEF rest
<1>3. /\ all \in Seq(Report) /\ Len(all) = n
      /\ \A k \in 1 .. n - 1 : all[k] = rs[k]
      /\ all[n] = rs[n]
  BY <1>1, <1>2, AppendProperties
<1> HIDE DEF all
<1>4. \A k \in 1 .. n : all[k] = rs[k]
  BY <1>1, <1>3
<1>5. all = rs
  BY <1>3, <1>4, SeqEqual DEF n
<1> QED
  BY <1>1, <1>2, <1>5 DEF n, rest, all

\* What the newest report gives back is there no longer, and no other report holds it.
LEMMA UndoPreserves ==
  ASSUME IInv, Undo
  PROVE  IInv'
<1> DEFINE n == Len(reports)
           rep == reports[n]
<1>1. /\ rows \in Rows /\ before \in Rows /\ reports \in Seq(Report) /\ lastId \in Nat
      /\ reports # << >>
      /\ rows' = Undone(rows, rep) /\ reports' = SubSeq(reports, 1, n - 1)
      /\ lastId' = lastId /\ dream' = dream /\ before' = before /\ settled' = settled
  BY DEF Undo, IInv, TypeOK
<1>2. /\ n \in Nat /\ n # 0 /\ rep \in Report /\ reports' \in Seq(Report)
      /\ Len(reports') = n - 1 /\ Append(reports', rep) = reports
      /\ \A k \in 1 .. n - 1 : reports'[k] = reports[k]
  BY <1>1, WithoutTheNewest
<1> HIDE DEF n, rep
<1>3. TypeOK' /\ DreamOK'
  BY <1>1, <1>2, UndoneIsRows DEF IInv, TypeOK, DreamOK
<1>4. UndoRestoresAll'
  <2>1. UndoneAll(rows, reports) = UndoneAll(rows', reports')
    BY <1>1, <1>2, UndoneNewest
  <2> QED
    BY <1>1, <2>1 DEF IInv, UndoRestoresAll
<1>5. ASSUME NEW j \in Ids, rows[j] = Absent, ~Takes(n, j)
      PROVE  rows'[j] = Absent
  <2>1. CASE rep.action = "keep"
    <3>1. rows' = Consolidated(rows, {rep.seed}, FALSE)
      BY <1>1, <2>1 DEF Undone
    <3> QED
      BY <1>5, <3>1, LabileAt
  <2>2. CASE rep.action # "keep"
    <3>1. j \notin DOMAIN rep.absorbed
      BY <1>2, <1>5, <2>2 DEF Takes, Report, rep
    <3> QED
      BY <1>1, <1>5, <2>2, <3>1 DEF Undone
  <2> QED
    BY <2>1, <2>2
<1>6. AbsorbedIsGone
  BY DEF IInv
<1>7. \A j \in Ids : Takes(n, j) => j <= lastId
  BY <1>2, <1>6 DEF AbsorbedIsGone, n
<1>8. NewIdsAreFree'
  BY <1>1, <1>5, <1>7, DreamAssumption DEF IInv, NewIdsAreFree, Ids
<1>9. AbsorbedIsGone'
  <2>1. ASSUME NEW k \in 1 .. Len(reports'), NEW j \in Ids, Takes(k, j)'
        PROVE  k \in 1 .. Len(reports) /\ k # n /\ Takes(k, j)
    BY <1>2, <2>1 DEF Takes, n
  <2>2. ASSUME NEW k \in 1 .. Len(reports'), NEW j \in Ids, Takes(k, j)'
        PROVE  rows'[j] = Absent /\ j <= lastId'
    <3>1. k \in 1 .. Len(reports) /\ k # n /\ Takes(k, j)
      BY <2>1, <2>2
    <3>2. n \in 1 .. Len(reports)
      BY <1>2 DEF n
    <3>3. rows[j] = Absent /\ j <= lastId /\ ~Takes(n, j)
      BY <1>6, <3>1, <3>2 DEF AbsorbedIsGone
    <3> QED
      BY <1>1, <1>5, <3>3
  <2>3. ASSUME NEW k \in 1 .. Len(reports'), NEW l \in 1 .. Len(reports'), NEW j \in Ids,
               Takes(k, j)', Takes(l, j)'
        PROVE  l = k
    BY <1>6, <2>1, <2>3 DEF AbsorbedIsGone
  <2> QED
    BY <2>2, <2>3 DEF AbsorbedIsGone
<1> QED
  BY <1>3, <1>4, <1>8, <1>9 DEF IInv

LEMMA InitInvariant == Init => IInv
<1> SUFFICES ASSUME Init
             PROVE  IInv
  OBVIOUS
<1>1. /\ rows = [i \in Ids |-> Absent] /\ lastId = 0 /\ dream = Awake /\ reports = << >>
      /\ before = rows /\ settled = {}
  BY DEF Init
<1>2. TypeOK /\ NewIdsAreFree /\ DreamOK /\ AbsorbedIsGone
  BY <1>1 DEF TypeOK, Rows, NewIdsAreFree, DreamOK, Awake, AbsorbedIsGone
<1>3. UndoneAll(rows, reports) = rows
  BY <1>1, UndoneNothing
<1>4. UndoRestoresAll
  BY <1>1, <1>3 DEF UndoRestoresAll
<1> QED
  BY <1>2, <1>4 DEF IInv

LEMMA NextPreserves == IInv /\ [Next]_vars => IInv'
<1> SUFFICES ASSUME IInv, [Next]_vars
             PROVE  IInv'
  OBVIOUS
<1>1. CASE UNCHANGED vars
  BY <1>1 DEF vars, IInv, TypeOK, NewIdsAreFree, DreamOK, AbsorbedIsGone, Takes, UndoRestoresAll
<1>2. CASE Next
  BY <1>2, WakingPreserves, LookingPreserves, KeepPreserves, ReplacePreserves, EndPreserves,
     UndoPreserves DEF Next, DreamStep
<1> QED
  BY <1>1, <1>2

LEMMA Invariance == Spec => []IInv
  BY InitInvariant, NextPreserves, PTL DEF Spec

-----------------------------------------------------------------------------
(* The seeds that wait to be settled.                                      *)

\* A seed waits only while a dream goes on, and was there before the dream's gists.
WaitInDream ==
    /\ ~dream.on => dream.alone = {}
    /\ \A a \in dream.alone : a <= lastId

SInv == WaitInDream /\ SettledReachNothing

LEMMA NoneWaits ==
  ASSUME dream'.alone = {}
  PROVE  SInv'
  BY DEF SInv, WaitInDream, SettledReachNothing

\* A step leaves every trace as a search sees it, takes it away, or is its writing: `new`.
Grown(new) ==
    \A j \in Ids : \/ j \in new
                  \/ rows'[j] = Absent
                  \/ /\ rows[j] # Absent
                     /\ rows'[j].text = rows[j].text
                     /\ rows'[j].born = rows[j].born
                     /\ rows'[j].vec = rows[j].vec

Reported(new) ==
    \A j \in new : /\ lastId < j
                   /\ \E k \in DOMAIN reports' :
                         reports'[k].action = "replace" /\ j \in reports'[k].after

ReportsStay == \A k \in DOMAIN reports : k \in DOMAIN reports' /\ reports'[k] = reports[k]

\* What a waiting seed reaches grows by the gists of a new report only.
LEMMA WaitingPreserves ==
  ASSUME IInv, SInv, dream.on, dream'.alone = dream.alone, dream'.on = dream.on,
         NEW new \in SUBSET Ids, lastId' \in Nat, lastId <= lastId',
         Grown(new), Reported(new), ReportsStay
  PROVE  SInv'
<1>1. \A a \in dream.alone : a \in Ids /\ a <= lastId /\ a \notin new
  BY DreamAssumption DEF IInv, TypeOK, DreamOK, SInv, WaitInDream, Reported, Ids
<1>2. WaitInDream'
  BY <1>1 DEF SInv, WaitInDream, Ids, IInv, TypeOK
<1>3. ASSUME NEW a \in dream.alone, rows'[a] # Absent, NEW j \in Older(rows', a, TRUE)
      PROVE  \E k \in DOMAIN reports' : reports'[k].action = "replace" /\ j \in reports'[k].after
  <2>1. /\ j \in Ids /\ j # a /\ rows'[j] # Absent
        /\ rows'[j].vec /\ rows'[j].born <= rows'[a].born /\ rows'[j].text \in Hits[rows'[a].text]
    BY <1>3 DEF Older, Stored, Reach
  <2>2. CASE j \in new
    BY <2>2 DEF Reported
  <2>3. CASE j \notin new
    <3>1. /\ rows[a] # Absent /\ rows'[a].text = rows[a].text /\ rows'[a].born = rows[a].born
      BY <1>1, <1>3 DEF Grown
    <3>2. /\ rows[j] # Absent /\ rows'[j].text = rows[j].text /\ rows'[j].born = rows[j].born
          /\ rows'[j].vec = rows[j].vec
      BY <2>1, <2>3 DEF Grown
    <3>3. j \in Older(rows, a, TRUE)
      BY <2>1, <3>1, <3>2 DEF Older, Stored, Reach
    <3>4. \E k \in DOMAIN reports : reports[k].action = "replace" /\ j \in reports[k].after
      BY <3>1, <3>3 DEF SInv, SettledReachNothing
    <3> QED
      BY <3>4 DEF ReportsStay
  <2> QED
    BY <2>2, <2>3
<1>4. SettledReachNothing'
  BY <1>3 DEF SettledReachNothing
<1> QED
  BY <1>2, <1>4 DEF SInv

LEMMA DreamingWaits ==
  ASSUME IInv, SInv, NEW i \in Ids, DreamStep(i)
  PROVE  SInv'
<1>1. DreamOK /\ rows \in Rows /\ lastId \in Nat /\ reports \in Seq(Report)
  BY DEF IInv, TypeOK
<1>2. PICK q, c, a, l, o, s :
        dream = [queue |-> q, cued |-> c, alone |-> a, left |-> l, on |-> o, single |-> s]
  BY <1>1 DEF DreamOK
<1>3. dream.on
  BY DEF DreamStep, SkipSeed, Alone, VerdictFails, VerdictKeeps, VerdictReplaces, StoreFails,
         ReadFails, Judge, Take
<1>4. /\ Rest.alone = a /\ Rest.on = o /\ Judged.alone = a /\ Judged.on = o
      /\ [Rest EXCEPT !.queue = << >>].alone = a /\ [Rest EXCEPT !.queue = << >>].on = o
      /\ dream.alone = a /\ dream.on = o
  BY <1>2 DEF Rest, Judged
<1>5. CASE SkipSeed(i) \/ VerdictFails(i) \/ ReadFails(i)
  <2>1. dream'.alone = dream.alone /\ dream'.on = dream.on
    BY <1>4, <1>5 DEF SkipSeed, VerdictFails, ReadFails
  <2>2. rows' = rows /\ lastId' = lastId /\ reports' = reports
    BY <1>5 DEF SkipSeed, VerdictFails, ReadFails
  <2> QED
    BY <2>1, <2>2, <1>3 DEF SInv, WaitInDream, SettledReachNothing
<1>6. CASE Alone(i)
  <2>1. /\ rows' = rows /\ lastId' = lastId /\ reports' = reports
        /\ rows[i] # Absent /\ Older(rows, i, i \in dream.cued) = {}
        /\ dream' = [Rest EXCEPT !.alone = IF i \in dream.cued THEN @ \cup {i} ELSE @]
    BY <1>6 DEF Alone
  <2>2. dream' = [queue |-> Tail(q), cued |-> c, alone |-> IF i \in c THEN a \cup {i} ELSE a,
                  left |-> l, on |-> o, single |-> s]
    BY <1>2, <2>1 DEF Rest
  <2>3. dream'.on = o /\ dream'.alone = IF i \in c THEN a \cup {i} ELSE a
    BY <2>2
  <2>4. i <= lastId
    BY <1>1, <2>1 DEF IInv, NewIdsAreFree, Ids
  <2>5. i \in c => Older(rows, i, TRUE) = {}
    <3>1. dream.cued = c
      BY <1>2
    <3> QED
      BY <2>1, <3>1 DEF Older, Reach
  <2>6. \A b \in dream'.alone : b \in dream.alone \/ (b = i /\ i \in c)
    BY <1>4, <2>3
  <2>7. WaitInDream'
    BY <1>3, <1>4, <2>1, <2>3, <2>4, <2>6 DEF SInv, WaitInDream
  <2>8. ASSUME NEW b \in dream'.alone, rows[b] # Absent, NEW j \in Older(rows, b, TRUE)
        PROVE  \E k \in DOMAIN reports : reports[k].action = "replace" /\ j \in reports[k].after
    <3>1. b \in dream.alone
      BY <2>5, <2>6, <2>8
    <3> QED
      BY <2>8, <3>1 DEF SInv, SettledReachNothing
  <2>9. \A b, j : j \in Older(rows', b, TRUE) => j \in Older(rows, b, TRUE)
    BY <2>1 DEF Older, Stored, Reach
  <2>10. SettledReachNothing'
    BY <2>1, <2>8, <2>9 DEF SettledReachNothing
  <2> QED
    BY <2>7, <2>10 DEF SInv
<1>7. CASE StoreFails(i)
  BY <1>7, NoneWaits DEF StoreFails, Awake
<1>8. CASE VerdictKeeps(i)
  <2>1. /\ rows' = Consolidated(rows, {i}, TRUE) /\ lastId' = lastId /\ dream' = Judged
        /\ reports' = Append(reports, [action |-> "keep", seed |-> i])
    BY <1>8 DEF VerdictKeeps
  <2>2. Grown({})
    <3> SUFFICES ASSUME NEW j \in Ids, rows'[j] # Absent
                 PROVE  /\ rows[j] # Absent
                        /\ rows'[j].text = rows[j].text
                        /\ rows'[j].born = rows[j].born
                        /\ rows'[j].vec = rows[j].vec
      BY DEF Grown
    <3>1. rows[j] = Absent \/ rows[j] \in Trace
      BY <1>1 DEF Rows
    <3>2. rows'[j] \in {rows[j], Settled(rows[j])} /\ (rows[j] = Absent => rows'[j] = Absent)
      BY <2>1, SettledAt
    <3>3. rows[j] \in Trace => /\ Settled(rows[j]).text = rows[j].text
                              /\ Settled(rows[j]).born = rows[j].born
                              /\ Settled(rows[j]).vec = rows[j].vec
      BY DEF Settled, Trace
    <3> QED
      BY <3>1, <3>2, <3>3
  <2>3. ReportsStay
    <3>1. [action |-> "keep", seed |-> i] \in Report
      BY DEF Report
    <3> QED
      BY <1>1, <2>1, <3>1 DEF ReportsStay
  <2>4. Reported({})
    BY DEF Reported
  <2>5. {} \in SUBSET Ids /\ lastId' \in Nat /\ lastId <= lastId'
    BY <1>1, <2>1
  <2>6. dream'.alone = dream.alone /\ dream'.on = dream.on
    BY <1>4, <2>1
  <2> QED
    BY <1>3, <2>2, <2>3, <2>4, <2>5, <2>6, WaitingPreserves
<1>9. CASE VerdictReplaces(i)
  <2>1. PICK absorbed \in SUBSET Stored(rows), n \in Nat : \E texts \in [1 .. n -> Texts] :
          /\ n <= MaxId - lastId
          /\ rows' = Replaced(rows, absorbed, texts)
          /\ lastId' = lastId + n
          /\ reports' = Append(reports,
               [action |-> "replace", absorbed |-> [j \in absorbed |-> rows[j]],
                after |-> lastId + 1 .. lastId + n])
    BY <1>9, ReplaceTakes
  <2>2. PICK texts \in [1 .. n -> Texts] : rows' = Replaced(rows, absorbed, texts)
    BY <2>1
  <2> DEFINE new == lastId + 1 .. lastId + n
             rep == [action |-> "replace", absorbed |-> [j \in absorbed |-> rows[j]], after |-> new]
  <2>3. new \in SUBSET Ids /\ \A j \in new : lastId < j
    BY <1>1, <2>1, DreamAssumption DEF Ids
  <2>4. ASSUME NEW j \in Ids, j \notin new, rows'[j] # Absent
        PROVE  rows'[j] = rows[j]
    <3>1. j - lastId \notin 1 .. n
      BY <1>1, <2>4 DEF Ids
    <3> QED
      BY <2>2, <2>4, <3>1 DEF Replaced
  <2>5. rep.action = "replace" /\ rep.after = new
    OBVIOUS
  <2>6. reports' = Append(reports, rep) /\ dream' = Judged /\ lastId' = lastId + n
    BY <1>9, <2>1 DEF VerdictReplaces
  <2> HIDE DEF rep, new
  <2>7. /\ DOMAIN reports = 1 .. Len(reports) /\ DOMAIN reports' = 1 .. Len(reports) + 1
        /\ Len(reports) \in Nat /\ reports'[Len(reports) + 1] = rep
        /\ \A k \in DOMAIN reports : reports'[k] = reports[k]
    <3>1. reports \in Seq({reports[k] : k \in DOMAIN reports} \cup {rep})
      BY <1>1
    <3> QED
      BY <2>6, <3>1
  <2>8. Len(reports) + 1 \in DOMAIN reports' /\ DOMAIN reports \subseteq DOMAIN reports'
    BY <2>7
  <2>9. Reported(new) /\ ReportsStay
    BY <2>3, <2>5, <2>7, <2>8 DEF Reported, ReportsStay
  <2>10. Grown(new)
    BY <2>4 DEF Grown
  <2>11. lastId' \in Nat /\ lastId <= lastId'
    BY <1>1, <2>1, <2>6
  <2>12. dream'.alone = dream.alone /\ dream'.on = dream.on
    BY <1>4, <2>6
  <2> QED
    BY <1>3, <2>3, <2>9, <2>10, <2>11, <2>12, WaitingPreserves
<1> QED
  BY <1>5, <1>6, <1>7, <1>8, <1>9 DEF DreamStep

LEMMA SeedInvariance == Spec => []SInv
<1>1. Init => SInv
  BY DEF Init, SInv, WaitInDream, SettledReachNothing, Awake
<1>2. IInv /\ SInv /\ [Next]_vars => SInv'
  <2> SUFFICES ASSUME IInv, SInv, [Next]_vars
               PROVE  SInv'
    OBVIOUS
  <2>1. CASE UNCHANGED vars
    BY <2>1 DEF vars, SInv, WaitInDream, SettledReachNothing
  <2>2. CASE \E i \in Ids : DreamStep(i)
    BY <2>2, DreamingWaits
  <2>3. CASE Next /\ ~\E i \in Ids : DreamStep(i)
    <3>1. dream'.alone = {}
      <4>1. \/ dream' = dream /\ ~dream.on
            \/ dream' = Awake
            \/ \E q, c : dream' = [Awake EXCEPT !.queue = q, !.cued = c, !.left = Budget, !.on = TRUE]
            \/ \E q, c : dream' = [Awake EXCEPT !.queue = q, !.cued = c, !.left = 1, !.on = TRUE,
                                             !.single = TRUE]
        <5>1. CASE StartDream
          BY <5>1 DEF StartDream
        <5>2. CASE \E i \in Ids : StartSeed(i)
          BY <5>2 DEF StartSeed
        <5>3. CASE ~StartDream /\ ~\E i \in Ids : StartSeed(i)
          BY <2>3, <5>3 DEF Next, Remember, Drop, Reindex, Undo, EndDream, NewEngine
        <5> QED
          BY <5>1, <5>2, <5>3
      <4>2. dream' = dream /\ ~dream.on => dream'.alone = {}
        BY DEF SInv, WaitInDream
      <4>3. Awake.alone = {}
        BY DEF Awake
      <4>4. \A q, c : [Awake EXCEPT !.queue = q, !.cued = c, !.left = Budget, !.on = TRUE].alone = {}
        BY DEF Awake
      <4>5. \A q, c : [Awake EXCEPT !.queue = q, !.cued = c, !.left = 1, !.on = TRUE,
                                   !.single = TRUE].alone = {}
        BY DEF Awake
      <4> QED
        BY <4>1, <4>2, <4>3, <4>4, <4>5
    <3> QED
      BY <3>1, NoneWaits
  <2> QED
    BY <2>1, <2>2, <2>3
<1> QED
  BY <1>1, <1>2, Invariance, PTL DEF Spec

-----------------------------------------------------------------------------
(* The theorems.                                                           *)

\* At every point, taking back the reports a host holds, newest first, gives the store back
\* as it was, but for the seeds settled without a verdict.
THEOREM UndoGivesBack == Spec => []UndoRestoresAll
<1>1. IInv => UndoRestoresAll
  BY DEF IInv
<1> QED
  BY <1>1, Invariance, PTL

\* No step consolidates a labile trace in place but a keep verdict on it, or the end of a
\* dream in which its own embedded cue reached nothing.
THEOREM SilenceSettlesNothing == Spec => OnlyProofSettles
<1> DEFINE Becomes(i) == rows[i] # Absent /\ rows'[i] # Absent /\ ~rows[i].con /\ rows'[i].con
           Proof(i) == \/ reports' = Append(reports, [action |-> "keep", seed |-> i])
                       \/ i \in dream.alone \cap dream.cued
<1>1. ASSUME IInv, Next, NEW i \in Ids, Becomes(i)
      PROVE  Proof(i)
  <2>1. rows \in Rows /\ DreamOK /\ AbsorbedIsGone /\ reports \in Seq(Report)
    BY <1>1 DEF IInv, TypeOK
  <2>2. ASSUME Becomes(i), rows' = rows
        PROVE  FALSE
    BY <2>2
  <2>3. CASE \E text \in Texts, vec, cued \in BOOLEAN : Remember(text, vec, cued)
    <3>1. PICK t : rows' = [rows EXCEPT ![lastId + 1] = t]
      BY <2>3 DEF Remember, Forgetting
    <3>2. i # lastId + 1
      BY <1>1 DEF IInv, TypeOK, NewIdsAreFree, Ids
    <3> QED
      BY <1>1, <2>1, <3>1, <3>2 DEF Rows
  <2>4. ASSUME NEW j \in Ids, Drop(j)
        PROVE  FALSE
    BY <1>1, <2>1, <2>4 DEF Drop, Forgetting, Rows
  <2>5. ASSUME NEW fresh \in SUBSET Stale(rows), rows' = Reindexed(rows, fresh)
        PROVE  FALSE
    <3>1. rows[i] \in Trace
      BY <1>1, <2>1 DEF Rows
    <3>2. [rows[i] EXCEPT !.vec = TRUE].con = rows[i].con
      BY <3>1 DEF Trace
    <3> QED
      BY <1>1, <2>5, <3>2 DEF Reindexed
  <2>6. CASE Undo
    <3> DEFINE rep == reports[Len(reports)]
    <3>1. rep \in Report /\ rows' = Undone(rows, rep)
      BY <2>1, <2>6 DEF Undo
    <3>2. CASE rep.action = "keep"
      <4>1. rows' = Consolidated(rows, {rep.seed}, FALSE)
        BY <3>1, <3>2 DEF Undone
      <4>2. rows'[i] \in {rows[i], Labile(rows[i])}
        BY <4>1, LabileAt
      <4>3. Labile(rows[i]).con = FALSE
        BY <1>1, <2>1 DEF Labile, Rows, Trace
      <4> QED
        BY <1>1, <4>2, <4>3
    <3>3. CASE rep.action # "keep"
      <4>1. i \notin DOMAIN rep.absorbed
        <5>1. Len(reports) \in 1 .. Len(reports) /\ rep.action = "replace"
          BY <2>1, <2>6, <3>1, <3>3 DEF Undo, Report
        <5> QED
          BY <1>1, <2>1, <5>1 DEF AbsorbedIsGone, Takes
      <4>2. rows'[i] \in {rows[i], Absent}
        BY <3>1, <3>3, <4>1 DEF Undone
      <4> QED
        BY <1>1, <4>2
    <3> QED
      BY <3>2, <3>3
  <2>7. ASSUME NEW j \in Ids, VerdictKeeps(j)
        PROVE  Proof(i)
    <3>1. rows' = Consolidated(rows, {j}, TRUE)
      BY <2>7 DEF VerdictKeeps
    <3>2. i = j
      BY <1>1, <3>1, SettledAt
    <3> QED
      BY <2>7, <3>2 DEF VerdictKeeps
  <2>8. ASSUME NEW j \in Ids, VerdictReplaces(j)
        PROVE  FALSE
    <3>1. PICK absorbed \in SUBSET Stored(rows), n \in Nat : \E texts \in [1 .. n -> Texts] :
            rows' = Replaced(rows, absorbed, texts)
      BY <1>1, <2>8, ReplaceTakes
    <3>2. PICK texts \in [1 .. n -> Texts] : rows' = Replaced(rows, absorbed, texts)
      BY <3>1
    <3>3. i - lastId \notin 1 .. n
      BY <1>1 DEF IInv, TypeOK, NewIdsAreFree, Ids
    <3>4. rows'[i] \in {rows[i], Absent}
      BY <3>2, <3>3 DEF Replaced
    <3> QED
      BY <1>1, <3>4
  <2>9. CASE EndDream
    <3>1. rows' = Consolidated(rows, dream.alone, TRUE)
      BY <1>1, <2>9 DEF EndDream
    <3>2. i \in dream.alone
      BY <1>1, <3>1, SettledAt
    <3> QED
      BY <2>1, <3>2 DEF DreamOK
  <2>10. CASE rows' = rows
    BY <1>1, <2>2, <2>10
  <2>11. \/ \E text \in Texts, vec, cued \in BOOLEAN : Remember(text, vec, cued)
         \/ \E j \in Ids : Drop(j) \/ VerdictKeeps(j) \/ VerdictReplaces(j)
         \/ \E fresh \in SUBSET Stale(rows) : rows' = Reindexed(rows, fresh)
         \/ Undo \/ EndDream \/ rows' = rows
    BY <1>1 DEF Next, DreamStep, SkipSeed, Alone, VerdictFails, StoreFails, ReadFails, Reindex,
                StartDream, StartSeed, NewEngine, Forgetting
  <2> QED
    BY <2>3, <2>4, <2>5, <2>6, <2>7, <2>8, <2>9, <2>10, <2>11
<1>2. IInv /\ [Next]_vars => [\A i \in Ids : Becomes(i) => Proof(i)]_vars
  <2> HIDE DEF Becomes, Proof
  <2>1. IInv /\ Next => \A i \in Ids : Becomes(i) => Proof(i)
    BY <1>1
  <2> QED
    BY <2>1
<1> QED
  BY <1>2, Invariance, PTL DEF Spec, OnlyProofSettles

\* A seed waiting to be settled reaches nothing but the gists of its own dream.
THEOREM WaitingSeedsAreAlone == Spec => []SettledReachNothing
<1>1. SInv => SettledReachNothing
  BY DEF SInv
<1> QED
  BY <1>1, SeedInvariance, PTL

=============================================================================
