--------------------------- MODULE Search_proofs ----------------------------
(***************************************************************************)
(* Theorems about the bounded reads of the engine, for every store: the    *)
(* searches and ordered reads that widen past rows the engine cannot use   *)
(* (Search), and the windows that find the traces to forget (Eviction).    *)
(* They rest on lemmas about the first n of a set in an order.             *)
(***************************************************************************)
EXTENDS Search, Eviction, FiniteSetTheorems, SequenceTheorems, WellFoundedInduction,
        NaturalsInduction, TLAPS

-----------------------------------------------------------------------------
(* The first n of a finite set in a strict order, which is a set of pairs. *)

LEMMA LeastNumber ==
  ASSUME NEW T \in SUBSET Nat, T # {}
  PROVE  \E x \in T : \A y \in T : x <= y
<1> DEFINE R == OpToRel(<, Nat)
<1>1. IsWellFoundedOn(R, Nat)
  BY NatLessThanWellFounded
<1>2. \A x, y \in Nat : y < x => <<y, x>> \in R
  BY DEF OpToRel
<1> HIDE DEF R
<1>3. PICK x \in T : \A y \in T : <<y, x>> \notin R
  BY <1>1, WFMin
<1>4. \A y \in T : ~(y < x)
  BY <1>2, <1>3
<1> QED
  BY <1>4

Orders(B, S) ==
    /\ \A i \in S, j \in S : <<i, j>> \in B => <<j, i>> \notin B
    /\ \A i \in S, j \in S, k \in S : <<i, j>> \in B /\ <<j, k>> \in B => <<i, k>> \in B
    /\ \A i \in S, j \in S : i # j => <<i, j>> \in B \/ <<j, i>> \in B

Earlier(B, S, i) == {j \in S : <<j, i>> \in B}

First(B, S, n) == {i \in S : Cardinality(Earlier(B, S, i)) < n}

LEMMA OrdersPart ==
  ASSUME NEW S, NEW B, Orders(B, S), NEW T \in SUBSET S
  PROVE  Orders(B, T)
  BY DEF Orders

LEMMA BeforeIsFinite ==
  ASSUME NEW S, IsFiniteSet(S), NEW B, NEW i
  PROVE  IsFiniteSet(Earlier(B, S, i)) /\ Cardinality(Earlier(B, S, i)) \in Nat
  BY FS_Subset, FS_CardinalityType DEF Earlier

\* A set with an element more has one more.
LEMMA StrictlyMore ==
  ASSUME NEW S, IsFiniteSet(S), NEW T \in SUBSET S, NEW x \in S, x \notin T
  PROVE  Cardinality(T) < Cardinality(S)
  <1>1. T \subseteq S \ {x}
    OBVIOUS
  <1>2. IsFiniteSet(S \ {x}) /\ Cardinality(S \ {x}) = Cardinality(S) - 1
    BY FS_RemoveElement
  <1>3. Cardinality(T) <= Cardinality(S \ {x})
    BY <1>1, <1>2, FS_Subset
  <1>4. Cardinality(T) \in Nat /\ Cardinality(S) \in Nat
    BY FS_Subset, FS_CardinalityType
  <1> QED
    BY <1>2, <1>3, <1>4

LEMMA LaterHasMore ==
  ASSUME NEW S, IsFiniteSet(S), NEW B, Orders(B, S), NEW i \in S, NEW j \in S, <<i, j>> \in B
  PROVE  Cardinality(Earlier(B, S, i)) < Cardinality(Earlier(B, S, j))
  <1>1. /\ Earlier(B, S, i) \in SUBSET Earlier(B, S, j)
        /\ i \in Earlier(B, S, j) /\ i \notin Earlier(B, S, i)
    BY DEF Earlier, Orders
  <1> QED
    BY <1>1, BeforeIsFinite, StrictlyMore

LEMMA FewerIsEarlier ==
  ASSUME NEW S, IsFiniteSet(S), NEW B, Orders(B, S), NEW i \in S, NEW j \in S,
         Cardinality(Earlier(B, S, i)) < Cardinality(Earlier(B, S, j))
  PROVE  <<i, j>> \in B
  <1>1. Cardinality(Earlier(B, S, i)) \in Nat /\ Cardinality(Earlier(B, S, j)) \in Nat
    BY BeforeIsFinite
  <1>2. i # j /\ <<j, i>> \notin B
    BY <1>1, LaterHasMore
  <1> QED
    BY <1>2 DEF Orders

LEMMA FirstComeFirst ==
  ASSUME NEW S, IsFiniteSet(S), NEW B, Orders(B, S), NEW n \in Nat,
         NEW i \in First(B, S, n), NEW j \in S \ First(B, S, n)
  PROVE  <<i, j>> \in B
  <1>1. Cardinality(Earlier(B, S, i)) \in Nat /\ Cardinality(Earlier(B, S, j)) \in Nat
    BY BeforeIsFinite
  <1>2. Cardinality(Earlier(B, S, i)) < Cardinality(Earlier(B, S, j)) /\ i \in S
    BY <1>1 DEF First
  <1> QED
    BY <1>2, FewerIsEarlier

LEMMA HasEarliest ==
  ASSUME NEW S, IsFiniteSet(S), NEW B, Orders(B, S), NEW T \in SUBSET S, T # {}
  PROVE  \E b \in T : \A i \in T \ {b} : <<b, i>> \in B
  <1> DEFINE counts == {Cardinality(Earlier(B, S, i)) : i \in T}
  <1>1. counts \in SUBSET Nat /\ counts # {}
    BY BeforeIsFinite
  <1>2. PICK c \in counts : \A d \in counts : c <= d
    BY <1>1, LeastNumber
  <1>3. PICK b \in T : c = Cardinality(Earlier(B, S, b))
    BY <1>2
  <1>4. ASSUME NEW i \in T \ {b} PROVE <<b, i>> \in B
    <2>1. Cardinality(Earlier(B, S, b)) <= Cardinality(Earlier(B, S, i))
      BY <1>2, <1>3
    <2>2. <<i, b>> \notin B
      BY <2>1, LaterHasMore, BeforeIsFinite
    <2> QED
      BY <2>2 DEF Orders
  <1> QED
    BY <1>4

\* The first n are n, when there are as many.
LEMMA FirstCount ==
  ASSUME NEW S, IsFiniteSet(S), NEW B, Orders(B, S), NEW n \in Nat, n <= Cardinality(S)
  PROVE  Cardinality(First(B, S, n)) = n
  <1> DEFINE wrong == {m \in Nat : m <= Cardinality(S) /\ Cardinality(First(B, S, m)) # m}
  <1>c. Cardinality(S) \in Nat
    BY FS_CardinalityType
  <1>1. SUFFICES ASSUME wrong # {} PROVE FALSE
    OBVIOUS
  <1>2. PICK m \in wrong : \A k \in wrong : m <= k
    BY <1>1, LeastNumber
  <1>3. First(B, S, 0) = {}
    BY BeforeIsFinite DEF First
  <1>4. m # 0
    BY <1>2, <1>3, FS_EmptySet
  <1> DEFINE k == m - 1
             F == First(B, S, k)
  <1>5. k \in Nat /\ m = k + 1 /\ k < Cardinality(S) /\ Cardinality(F) = k
    BY <1>2, <1>4, <1>c
  <1> HIDE DEF k
  <1>6. F \in SUBSET S /\ IsFiniteSet(F) /\ S \ F # {}
    <2>1. F \in SUBSET S
      BY DEF First
    <2>2. F # S
      BY <1>5
    <2> QED
      BY <2>1, <2>2, FS_Subset
  <1>7. PICK b \in S \ F : \A i \in (S \ F) \ {b} : <<b, i>> \in B
    <2> DEFINE T == S \ F
    <2>1. T \in SUBSET S /\ T # {}
      BY <1>6
    <2> HIDE DEF T
    <2>2. \E b \in T : \A i \in T \ {b} : <<b, i>> \in B
      BY <2>1, HasEarliest
    <2> QED
      BY <2>2 DEF T
  <1>8. Earlier(B, S, b) = F
    <2>1. ASSUME NEW i \in F PROVE i \in Earlier(B, S, b)
      BY <1>5, <1>6, <2>1, FirstComeFirst DEF Earlier
    <2>2. ASSUME NEW i \in Earlier(B, S, b), i \notin F PROVE FALSE
      BY <1>7, <2>2 DEF Earlier, Orders
    <2> QED
      BY <2>1, <2>2
  <1>9. b \in First(B, S, m)
    BY <1>5, <1>8 DEF First
  <1>10. \A i \in F : i \in First(B, S, m)
    BY <1>5, BeforeIsFinite DEF First
  <1>11. ASSUME NEW i \in (S \ F) \ {b} PROVE i \notin First(B, S, m)
    <2>1. Cardinality(Earlier(B, S, b)) < Cardinality(Earlier(B, S, i))
      BY <1>7, LaterHasMore
    <2> QED
      BY <1>5, <1>8, <2>1, BeforeIsFinite DEF First
  <1>12. First(B, S, m) = F \cup {b}
    BY <1>6, <1>9, <1>10, <1>11 DEF First
  <1>13. Cardinality(F \cup {b}) = k + 1
    BY <1>5, <1>6, <1>7, FS_AddElement
  <1> QED
    BY <1>2, <1>5, <1>12, <1>13

\* When there are no more than n, the first n are all.
LEMMA FirstOfFew ==
  ASSUME NEW S, IsFiniteSet(S), NEW B, Orders(B, S), NEW n \in Nat, Cardinality(S) <= n
  PROVE  First(B, S, n) = S
  <1>1. ASSUME NEW i \in S PROVE Cardinality(Earlier(B, S, i)) < Cardinality(S)
    BY <1>1, StrictlyMore DEF Earlier, Orders
  <1>2. Cardinality(S) \in Nat
    BY FS_CardinalityType
  <1> QED
    BY <1>1, <1>2, BeforeIsFinite DEF First

\* When one is left out, there are n, and they all come before it.
LEMMA LeftOut ==
  ASSUME NEW S, IsFiniteSet(S), NEW B, Orders(B, S), NEW n \in Nat,
         NEW i \in S \ First(B, S, n)
  PROVE  /\ Cardinality(First(B, S, n)) = n
         /\ First(B, S, n) \subseteq Earlier(B, S, i)
  <1>1. n <= Cardinality(S)
    BY FirstOfFew, FS_CardinalityType
  <1>2. First(B, S, n) \subseteq Earlier(B, S, i)
    BY FirstComeFirst DEF First, Earlier
  <1> QED
    BY <1>1, <1>2, FirstCount

\* It is enough that n of a part come before it for an element to be left out.
LEMMA LeftOutBy ==
  ASSUME NEW S, IsFiniteSet(S), NEW B, NEW n \in Nat, NEW i \in S, NEW T \in SUBSET S,
         n <= Cardinality(T), \A j \in T : <<j, i>> \in B
  PROVE  i \notin First(B, S, n)
  <1>1. T \in SUBSET Earlier(B, S, i)
    BY DEF Earlier
  <1>2. Cardinality(T) <= Cardinality(Earlier(B, S, i)) /\ Cardinality(T) \in Nat
    BY <1>1, BeforeIsFinite, FS_Subset, FS_CardinalityType
  <1> QED
    BY <1>2, BeforeIsFinite DEF First

\* A larger set leaves out more of a part of it.
LEMMA FirstInPart ==
  ASSUME NEW S, IsFiniteSet(S), NEW B, NEW n \in Nat, NEW T \in SUBSET S,
         NEW i \in First(B, S, n), i \in T
  PROVE  i \in First(B, T, n)
  <1>1. Earlier(B, T, i) \in SUBSET Earlier(B, S, i)
    BY DEF Earlier
  <1>2. Cardinality(Earlier(B, T, i)) <= Cardinality(Earlier(B, S, i))
    BY <1>1, BeforeIsFinite, FS_Subset
  <1>3. IsFiniteSet(T)
    BY FS_Subset
  <1>4. Cardinality(Earlier(B, S, i)) < n
    BY DEF First
  <1> QED
    BY <1>2, <1>3, <1>4, BeforeIsFinite DEF First

\* The first n of a set are those of any part of it that holds them.
LEMMA FirstOfPart ==
  ASSUME NEW S, IsFiniteSet(S), NEW B, Orders(B, S), NEW n \in Nat, NEW T \in SUBSET S,
         First(B, S, n) \subseteq T
  PROVE  First(B, T, n) = First(B, S, n)
  <1>1. \A i \in First(B, S, n) : i \in First(B, T, n)
    BY FirstInPart
  <1>2. ASSUME NEW i \in T \ First(B, S, n) PROVE i \notin First(B, T, n)
    <2>1. /\ Cardinality(First(B, S, n)) = n
          /\ \A j \in First(B, S, n) : <<j, i>> \in B
      BY <1>2, LeftOut DEF Earlier
    <2> QED
      BY <2>1, LeftOutBy, FS_Subset
  <1> QED
    BY <1>1, <1>2 DEF First

-----------------------------------------------------------------------------
(* Greatest and least numbers.                                             *)

LEMMA MaxEquals ==
  ASSUME NEW T \in SUBSET Nat, NEW m \in T, \A x \in T : x <= m
  PROVE  Max(T) = m
  <1>1. m >= m /\ \A x \in T : m >= x
    OBVIOUS
  <1>2. Max(T) \in T /\ \A x \in T : Max(T) >= x
    BY <1>1 DEF Max
  <1>3. Max(T) \in Nat /\ m \in Nat /\ Max(T) <= m /\ m <= Max(T)
    BY <1>2
  <1> QED
    BY <1>3

LEMMA MaxExists ==
  ASSUME NEW n \in Nat, NEW T \in SUBSET (0 .. n), T # {}
  PROVE  Max(T) \in T /\ Max(T) \in Nat /\ \A x \in T : x <= Max(T)
  <1> DEFINE gaps == {n - x : x \in T}
  <1>1. gaps \in SUBSET Nat /\ gaps # {}
    <2>1. \A x \in T : n - x \in Nat
      OBVIOUS
    <2> QED
      BY <2>1
  <1>2. PICK g \in gaps : \A h \in gaps : g <= h
    BY <1>1, LeastNumber
  <1>3. PICK m \in T : g = n - m
    BY <1>2
  <1>4. \A x \in T : x <= m
    BY <1>2, <1>3
  <1> HIDE DEF gaps
  <1>5. Max(T) = m
    BY <1>4, MaxEquals
  <1> QED
    BY <1>4, <1>5

LEMMA MinExists ==
  ASSUME NEW T \in SUBSET Nat, T # {}
  PROVE  Min(T) \in T /\ Min(T) \in Nat /\ \A x \in T : Min(T) <= x
  <1>1. PICK m \in T : \A x \in T : m <= x
    BY LeastNumber
  <1>2. Min(T) \in T /\ \A x \in T : Min(T) <= x
    BY <1>1 DEF Min
  <1> QED
    BY <1>1, <1>2

\* Scaling keeps the order of numbers.
LEMMA ScaleUp ==
  ASSUME NEW a \in Nat, NEW b \in Nat, a <= b, NEW c \in Nat
  PROVE  a * c <= b * c /\ c * a <= c * b /\ a * c \in Nat /\ c * a \in Nat
  <1>1. PICK d \in Nat : b = a + d
    BY b - a \in Nat
  <1>2. b * c = a * c + d * c /\ c * b = c * a + c * d
    BY <1>1
  <1>3. d * c \in Nat /\ c * d \in Nat /\ a * c \in Nat /\ c * a \in Nat
    BY <1>1
  <1> HIDE <1>1
  <1> QED
    BY <1>2, <1>3

-----------------------------------------------------------------------------
(* The scan of the store.                                                  *)

Places == 1 .. Len(entries)

Betters == {p \in Places \X Places : Better(p[1], p[2])}

Stored == entries \in Seq(Entry) /\ Len(entries) <= MaxEntries

\* Those that a scan up to a place could return.
Passed(place) == {i \in 1 .. place - 1 : ~Is(i, {"skipped"})}

LastProbed == Smaller(Len(entries), PROBE_VECTORS)

Probed == Passed(LastProbed + 1)

LEMMA PlacesAreFinite ==
  ASSUME Stored
  PROVE  Len(entries) \in Nat /\ LastProbed \in Nat /\ LastProbed <= Len(entries)
         /\ IsFiniteSet(Places) /\ Cardinality(Places) = Len(entries)
  <1>1. Len(entries) \in Nat
    BY LenProperties DEF Stored
  <1>2. PROBE_VECTORS \in Nat
    BY SearchAssumption
  <1>3. IsFiniteSet(Places) /\ Cardinality(Places) = Len(entries)
    <2> DEFINE n == Len(entries)
    <2>1. n \in Int /\ 1 \in Int /\ n >= 0
      BY <1>1
    <2> HIDE DEF n
    <2>2. IsFiniteSet(1 .. n) /\ Cardinality(1 .. n) = IF 1 > n THEN 0 ELSE n - 1 + 1
      BY <2>1, FS_Interval
    <2> QED
      BY <2>1, <2>2 DEF Places, n
  <1> QED
    BY <1>1, <1>2, <1>3 DEF LastProbed, Smaller

LEMMA BettersOrder ==
  ASSUME Stored
  PROVE  Orders(Betters, Places)
  <1>1. \A i \in Places : entries[i].cos \in Int /\ IdOf[i] \in Int
    <2> TAKE i \in Places
    <2>1. entries[i] \in Entry
      BY ElementOfSeq DEF Stored, Places
    <2>2. i \in 1 .. MaxEntries
      BY PlacesAreFinite, SearchAssumption DEF Stored, Places
    <2>3. entries[i].cos \in Cosines \cup {0}
      BY <2>1 DEF Entry
    <2>4. Cosines \subseteq Int /\ IdOf \in [1 .. MaxEntries -> Int]
      BY SearchAssumption
    <2>5. entries[i].cos \in Int
      <3>1. Cosines \cup {0} \subseteq Int
        BY <2>4
      <3> QED
        BY <2>3, <3>1
    <2>6. IdOf[i] \in Int
      BY <2>2, <2>4
    <2> QED
      BY <2>5, <2>6
  <1>2. \A i \in Places, j \in Places : IdOf[i] = IdOf[j] => i = j
    <2> TAKE i \in Places, j \in Places
    <2>1. i \in 1 .. MaxEntries /\ j \in 1 .. MaxEntries
      BY PlacesAreFinite, SearchAssumption DEF Stored, Places
    <2> QED
      BY <2>1, SearchAssumption
  <1>3. \A i \in Places, j \in Places : <<i, j>> \in Betters <=> Better(i, j)
    BY DEF Betters
  <1>4. ASSUME NEW i \in Places, NEW j \in Places, Better(i, j) PROVE ~Better(j, i)
    BY <1>1, <1>4 DEF Better
  <1>5. ASSUME NEW i \in Places, NEW j \in Places, NEW k \in Places, Better(i, j), Better(j, k)
        PROVE  Better(i, k)
    BY <1>1, <1>5 DEF Better
  <1>6. ASSUME NEW i \in Places, NEW j \in Places, i # j
        PROVE  Better(i, j) \/ Better(j, i)
    BY <1>1, <1>2, <1>6 DEF Better
  <1> QED
    BY <1>3, <1>4, <1>5, <1>6 DEF Orders

LEMMA TopIsFirst ==
  ASSUME Stored, NEW S \in SUBSET Places, NEW n
  PROVE  /\ Top(S, n) = First(Betters, S, n)
         /\ Top(S, n) \subseteq S
         /\ Orders(Betters, S)
         /\ IsFiniteSet(S)
         /\ \A i \in S, j \in S : <<i, j>> \in Betters <=> Better(i, j)
  <1>1. \A i \in S : Earlier(Betters, S, i) = {j \in S : Better(j, i)}
    BY DEF Earlier, Betters
  <1>2. Top(S, n) = First(Betters, S, n) /\ Top(S, n) \subseteq S
    BY <1>1 DEF Top, First
  <1>3. \A i \in S, j \in S : <<i, j>> \in Betters <=> Better(i, j)
    BY DEF Betters
  <1> QED
    BY <1>2, <1>3, BettersOrder, OrdersPart, PlacesAreFinite, FS_Subset

LEMMA WorstIsLast ==
  ASSUME Stored, NEW S \in SUBSET Places, S # {}
  PROVE  Worst(S) \in S /\ \A j \in S \ {Worst(S)} : Better(j, Worst(S))
  <1> DEFINE back == {p \in Places \X Places : Better(p[2], p[1])}
  <1>1. \A i \in Places, j \in Places : <<i, j>> \in back <=> <<j, i>> \in Betters
    BY DEF Betters
  <1>2. Orders(back, S)
    <2> HIDE DEF back
    <2>1. Orders(Betters, S)
      BY TopIsFirst
    <2> QED
      BY <1>1, <2>1 DEF Orders
  <1>3. IsFiniteSet(S)
    BY TopIsFirst
  <1> HIDE DEF back
  <1>4. PICK b \in S : \A i \in S \ {b} : <<b, i>> \in back
    BY <1>2, <1>3, HasEarliest
  <1>5. \A i \in S \ {b} : Better(i, b)
    BY <1>1, <1>4 DEF Betters
  <1> QED
    BY <1>5 DEF Worst

LEMMA PassedNext ==
  ASSUME Stored, NEW place \in Nat, place >= 1, place <= Len(entries)
  PROVE  /\ Passed(place) \subseteq Places /\ place \in Places /\ place \notin Passed(place)
         /\ Passed(place + 1) = IF Is(place, {"skipped"}) THEN Passed(place)
                                ELSE Passed(place) \cup {place}
  <1>1. Len(entries) \in Nat
    BY PlacesAreFinite
  <1>2. 1 .. (place + 1) - 1 = (1 .. place - 1) \cup {place} /\ place \notin 1 .. place - 1
        /\ 1 .. place - 1 \subseteq 1 .. Len(entries) /\ place \in 1 .. Len(entries)
    BY <1>1
  <1> QED
    BY <1>2 DEF Passed, Places

AsGood(S, bar) == {bar} \cup {j \in S : Better(j, bar)}

\* What a scan holds at a place: the best so far, none of which the cuts have lost.
Holds(place, keep, best, bar) ==
    /\ best \subseteq Passed(place)
    /\ Top(Passed(place), keep) \subseteq best
    /\ bar = 0 => best = Passed(place)
    /\ bar # 0 => bar \in Passed(place) /\ keep <= Cardinality(AsGood(Passed(place), bar))

LEMMA HoldsNone ==
  ASSUME NEW keep
  PROVE  Holds(1, keep, {}, 0)
  BY DEF Holds, Passed, Top

LEMMA HoldsNext ==
  ASSUME Stored, NEW place \in Nat, place >= 1, place <= Len(entries), NEW keep \in Nat,
         NEW best, NEW bar \in Nat, Holds(place, keep, best, bar)
  PROVE  Holds(place + 1, keep,
               IF Is(place, {"skipped"}) \/ ~(bar = 0 \/ Better(place, bar)) THEN best
               ELSE best \cup {place},
               bar)
  <1> DEFINE P == Passed(place)
             Q == Passed(place + 1)
  <1>1. /\ P \subseteq Places /\ place \in Places /\ place \notin P
        /\ Q = IF Is(place, {"skipped"}) THEN P ELSE P \cup {place}
    BY PassedNext
  <1>2. /\ best \subseteq P
        /\ Top(P, keep) \subseteq best
        /\ bar = 0 => best = P
        /\ bar # 0 => bar \in P /\ keep <= Cardinality(AsGood(P, bar))
    BY DEF Holds
  <1> HIDE DEF P, Q
  <1>3. CASE Is(place, {"skipped"})
    BY <1>1, <1>3 DEF Q, P, Holds
  <1>4. CASE ~Is(place, {"skipped"})
    <2>1. Q = P \cup {place} /\ Q \subseteq Places
      BY <1>1, <1>4
    <2>2. /\ Top(P, keep) = First(Betters, P, keep) /\ Top(Q, keep) = First(Betters, Q, keep)
          /\ Orders(Betters, P) /\ Orders(Betters, Q) /\ IsFiniteSet(P) /\ IsFiniteSet(Q)
          /\ \A i \in Q, j \in Q : <<i, j>> \in Betters <=> Better(i, j)
      BY <1>1, <2>1, TopIsFirst
    <2>3. Top(Q, keep) \subseteq Top(P, keep) \cup {place}
      <3> SUFFICES ASSUME NEW i \in First(Betters, Q, keep), i # place
                   PROVE  i \in First(Betters, P, keep)
        BY <2>2
      <3>1. i \in P
        BY <2>1 DEF First
      <3> QED
        BY <2>1, <2>2, <3>1, FirstInPart
    <2>4. bar # 0 => bar \in Q /\ keep <= Cardinality(AsGood(Q, bar))
      <3> SUFFICES ASSUME bar # 0 PROVE bar \in Q /\ keep <= Cardinality(AsGood(Q, bar))
        OBVIOUS
      <3>1. AsGood(P, bar) \in SUBSET AsGood(Q, bar) /\ AsGood(Q, bar) \in SUBSET Q /\ bar \in Q
        BY <1>2, <2>1 DEF AsGood
      <3>2. IsFiniteSet(AsGood(Q, bar)) /\ IsFiniteSet(AsGood(P, bar))
        BY <2>2, <3>1, FS_Subset
      <3>3. /\ Cardinality(AsGood(P, bar)) <= Cardinality(AsGood(Q, bar))
            /\ Cardinality(AsGood(P, bar)) \in Nat /\ Cardinality(AsGood(Q, bar)) \in Nat
        BY <3>1, <3>2, FS_Subset, FS_CardinalityType
      <3> QED
        BY <1>2, <3>1, <3>3
    <2>5. CASE bar = 0 \/ Better(place, bar)
      <3>1. /\ best \cup {place} \subseteq Q
            /\ Top(Q, keep) \subseteq best \cup {place}
            /\ bar = 0 => best \cup {place} = Q
        BY <1>2, <2>1, <2>3
      <3>2. Holds(place + 1, keep, best \cup {place}, bar)
        BY <2>4, <3>1 DEF Holds, Q
      <3> QED
        BY <1>4, <2>5, <3>2
    <2>6. CASE bar # 0 /\ ~Better(place, bar)
      <3>1. Better(bar, place) /\ bar \in P
        BY <1>1, <1>2, <2>1, <2>2, <2>6 DEF Orders
      <3>2. AsGood(P, bar) \in SUBSET Q /\ \A j \in AsGood(P, bar) : <<j, place>> \in Betters
        <4>1. \A j \in P : Better(j, bar) => Better(j, place)
          BY <2>1, <2>2, <3>1 DEF Orders
        <4> QED
          BY <2>1, <2>2, <3>1, <4>1 DEF AsGood
      <3>3. place \notin First(Betters, Q, keep)
        BY <1>2, <2>1, <2>2, <2>6, <3>2, LeftOutBy
      <3>4. best \subseteq Q /\ Top(Q, keep) \subseteq best
        BY <1>2, <2>1, <2>2, <2>3, <3>3
      <3>5. Holds(place + 1, keep, best, bar)
        BY <2>4, <2>6, <3>4 DEF Holds, Q
      <3> QED
        BY <1>4, <2>6, <3>5
    <2> QED
      BY <2>5, <2>6
  <1> QED
    BY <1>3, <1>4

LEMMA HoldsCut ==
  ASSUME Stored, NEW place \in Nat, Passed(place) \subseteq Places, NEW keep \in Nat, keep # 0,
         NEW best, NEW bar, Holds(place, keep, best, bar), keep <= Cardinality(best)
  PROVE  /\ Holds(place, keep, Top(best, keep), Worst(Top(best, keep)))
         /\ Worst(Top(best, keep)) # 0
  <1> DEFINE P == Passed(place)
             top == Top(best, keep)
             last == Worst(top)
  <1>1. best \in SUBSET P /\ P \in SUBSET Places /\ Top(P, keep) \subseteq best
    BY DEF Holds
  <1> HIDE DEF P
  <1>2. /\ Top(P, keep) = First(Betters, P, keep) /\ Orders(Betters, P) /\ IsFiniteSet(P)
        /\ top = First(Betters, best, keep) /\ Orders(Betters, best) /\ IsFiniteSet(best)
        /\ top \subseteq best
    BY <1>1, TopIsFirst
  <1>3. top = Top(P, keep)
    BY <1>1, <1>2, FirstOfPart
  <1>4. Cardinality(top) = keep
    BY <1>2, FirstCount
  <1>5. top # {} /\ top \in SUBSET Places
    BY <1>1, <1>2, <1>4, FS_EmptySet
  <1> HIDE DEF top
  <1>6. last \in top /\ \A j \in top \ {last} : Better(j, last)
    BY <1>5, WorstIsLast
  <1> HIDE DEF last
  <1>7. top \in SUBSET AsGood(P, last) /\ AsGood(P, last) \in SUBSET P
    BY <1>1, <1>2, <1>6 DEF AsGood
  <1>8. keep <= Cardinality(AsGood(P, last))
    BY <1>2, <1>4, <1>7, FS_Subset
  <1>9. last # 0
    BY <1>5, <1>6 DEF Places
  <1> QED
    BY <1>1, <1>2, <1>3, <1>6, <1>8, <1>9 DEF Holds, P, top, last

-----------------------------------------------------------------------------
(* Searches.                                                               *)

SearchTypeOK ==
    /\ op \in {"near", "scan", "hits", "find", "done"}
    /\ wanted \in Nat \ {0}
    /\ ask \in Nat
    /\ scan \in [place : Nat, keep : Nat, best : SUBSET Nat, bar : Nat]

ScanIsRight ==
    /\ scan.keep # 0
    /\ scan.place >= 1 /\ scan.place <= LastProbed + 1
    /\ Holds(scan.place, scan.keep, scan.best, scan.bar)

SearchInv ==
    /\ SearchTypeOK
    /\ Stored
    /\ ask >= wanted
    /\ op = "find" => ask <= FindReach
    /\ op = "scan" => ScanIsRight
    /\ op = "hits" => hits = Top(Readable(Probed), ask)

\* What is left of the first n of a set, in a part of it, has the same first k, when it is
\* enough or all of the part.
LEMMA FirstOfKept ==
  ASSUME NEW S, IsFiniteSet(S), NEW B, Orders(B, S), NEW k \in Nat, NEW A \in SUBSET S,
         \A i \in A, j \in S \ A : <<i, j>> \in B,
         k <= Cardinality(A) \/ A = S
  PROVE  First(B, A, k) = First(B, S, k)
  <1>1. CASE A = S
    BY <1>1
  <1>2. CASE k <= Cardinality(A)
    <2>1. ASSUME NEW i \in S \ A PROVE i \notin First(B, S, k)
      <3>1. A \in SUBSET S /\ \A j \in A : <<j, i>> \in B
        BY <2>1
      <3> QED
        BY <1>2, <3>1, LeftOutBy
    <2>2. First(B, S, k) \subseteq A
      BY <2>1 DEF First
    <2> QED
      BY <2>2, FirstOfPart
  <1> QED
    BY <1>1, <1>2

\* The part of the first n that a part of the set holds comes before the rest of that part.
LEMMA KeptComeFirst ==
  ASSUME NEW S, IsFiniteSet(S), NEW B, Orders(B, S), NEW n \in Nat, NEW T \in SUBSET S
  PROVE  \A i \in T \cap First(B, S, n), j \in T \ First(B, S, n) : <<i, j>> \in B
  BY FirstComeFirst

LEMMA ProbedAreFew ==
  ASSUME Stored
  PROVE  /\ Probed \subseteq Places /\ IsFiniteSet(Probed)
         /\ Cardinality(Probed) \in Nat /\ Cardinality(Probed) <= LastProbed
         /\ Readable(Probed) \subseteq Probed
         /\ Good = Usable(Readable(Probed))
  <1> DEFINE n == LastProbed
  <1>1. n \in Nat /\ n <= Len(entries) /\ Len(entries) \in Nat
    BY PlacesAreFinite
  <1> HIDE DEF n
  <1>2. IsFiniteSet(1 .. n) /\ Cardinality(1 .. n) = n
    BY <1>1, FS_Interval
  <1>3. Probed = {i \in 1 .. n : ~Is(i, {"skipped"})}
    <2>1. (n + 1) - 1 = n
      BY <1>1
    <2> QED
      BY <2>1 DEF Probed, Passed, n
  <1>4. Probed \in SUBSET (1 .. n)
    BY <1>3
  <1>5. IsFiniteSet(Probed) /\ Cardinality(Probed) <= n
    BY <1>2, <1>4, FS_Subset
  <1>6. Probed \subseteq Places
    BY <1>1, <1>4 DEF Places
  <1>7. \A i \in 1 .. n : Is(i, {"ok"}) <=>
            ~Is(i, {"skipped"}) /\ ~Is(i, {"gone"}) /\ ~Is(i, {"junk"})
    <2> TAKE i \in 1 .. n
    <2>1. i \in 1 .. Len(entries)
      BY <1>1
    <2>2. entries[i] \in Entry
      BY <2>1, ElementOfSeq DEF Stored
    <2>3. entries[i].kind \in {"ok", "junk", "gone", "skipped"}
      BY <2>2 DEF Entry, Kinds
    <2> QED
      BY <2>3 DEF Is
  <1>8. Good = Usable(Readable(Probed))
    BY <1>3, <1>7 DEF Good, Usable, Readable, LastProbed, n
  <1> QED
    BY <1>5, <1>6, <1>8, FS_CardinalityType DEF Readable, n

\* What the store answers with: the best of the rows that it could return.
LEMMA AnswerIsTop ==
  ASSUME SearchInv, op = "scan", Reached, Cardinality(Kept) >= ask \/ ~Dropped
  PROVE  Top(Kept, ask) = Top(Readable(Probed), ask)
  <1>1. Stored /\ ScanIsRight /\ SearchTypeOK
    BY DEF SearchInv
  <1> DEFINE keep == scan.keep
             best == scan.best
             top == Top(best, keep)
             R == Readable(Probed)
  <1>2. scan.place \in Nat /\ keep \in Nat /\ scan.bar \in Nat /\ ask \in Nat
    BY <1>1 DEF SearchTypeOK
  <1>3. scan.place = LastProbed + 1
    <2>1. LastProbed \in Nat /\ scan.place > LastProbed
      BY <1>1, PlacesAreFinite DEF Reached, LastProbed
    <2> QED
      BY <1>1, <1>2, <2>1 DEF ScanIsRight
  <1>4. /\ best \subseteq Probed /\ Top(Probed, keep) \subseteq best
        /\ scan.bar = 0 => best = Probed
    BY <1>1, <1>3 DEF ScanIsRight, Holds, Probed
  <1>5. /\ Probed \in SUBSET Places /\ best \in SUBSET Places /\ R \in SUBSET Places
        /\ R \in SUBSET Probed
    BY <1>1, <1>4, ProbedAreFew
  <1> HIDE DEF keep, best, R
  <1>6. /\ top = First(Betters, best, keep)
        /\ Top(Probed, keep) = First(Betters, Probed, keep)
        /\ Orders(Betters, Probed) /\ IsFiniteSet(Probed)
        /\ Orders(Betters, best) /\ IsFiniteSet(best)
        /\ Orders(Betters, R) /\ IsFiniteSet(R)
    BY <1>1, <1>5, TopIsFirst
  <1>7. top = First(Betters, Probed, keep)
    BY <1>2, <1>4, <1>6, FirstOfPart
  <1>8. Kept = R \cap First(Betters, Probed, keep)
    <2>1. First(Betters, Probed, keep) \subseteq Probed
      BY DEF First
    <2> QED
      BY <1>7, <2>1 DEF Kept, Readable, R, keep, best
  <1> DEFINE F == First(Betters, Probed, keep)
  <1>9. \A i \in Kept, j \in R \ Kept : <<i, j>> \in Betters
    <2>1. \A i \in R \cap F, j \in R \ F : <<i, j>> \in Betters
      BY <1>2, <1>5, <1>6, KeptComeFirst
    <2> QED
      BY <1>8, <2>1
  <1> HIDE DEF F
  <1>10. ASSUME ~Dropped PROVE Kept = R
    <2>1. best = Probed /\ ~(Cardinality(best) > keep)
      BY <1>4, <1>10 DEF Dropped, best, keep
    <2>2. Cardinality(Probed) <= keep
      BY <1>1, <1>2, <2>1, ProbedAreFew
    <2>3. F = Probed
      BY <1>2, <1>6, <2>2, FirstOfFew DEF F
    <2> QED
      BY <1>5, <1>8, <2>3 DEF F
  <1>11. Kept \in SUBSET R
    BY <1>8
  <1>12. ask <= Cardinality(Kept) \/ Kept = R
    <2>1. CASE ~Dropped
      BY <1>10, <2>1
    <2>2. CASE Cardinality(Kept) >= ask
      <3>1. IsFiniteSet(Kept)
        BY <1>6, <1>11, FS_Subset
      <3>2. Cardinality(Kept) \in Nat
        BY <3>1, FS_CardinalityType
      <3> QED
        BY <1>2, <2>2, <3>2
    <2> QED
      BY <2>1, <2>2
  <1> DEFINE got == Kept
  <1> HIDE DEF got
  <1>13. got \in SUBSET R /\ (ask <= Cardinality(got) \/ got = R)
         /\ \A i \in got, j \in R \ got : <<i, j>> \in Betters
    BY <1>9, <1>11, <1>12 DEF got
  <1>14. First(Betters, got, ask) = First(Betters, R, ask)
    BY <1>2, <1>6, <1>13, FirstOfKept
  <1>15. Top(got, ask) = First(Betters, got, ask) /\ Top(R, ask) = First(Betters, R, ask)
    BY <1>1, <1>5, <1>13, TopIsFirst
  <1> QED
    BY <1>14, <1>15 DEF R, got

LEMMA ReachIsNumber ==
  ASSUME wanted \in Nat \ {0}
  PROVE  FindReach \in Nat /\ wanted <= FindReach
  <1>1. FindFactor \in Nat /\ 1 <= FindFactor /\ JUNK_READ \in Nat
    BY SearchAssumption
  <1>2. 1 * wanted <= FindFactor * wanted
    BY <1>1, ScaleUp
  <1>3. FindFactor * wanted \in Nat
    BY <1>1
  <1> QED
    BY <1>1, <1>2, <1>3 DEF FindReach

LEMMA NearReachIsNumber ==
  ASSUME Stored, wanted \in Nat \ {0}
  PROVE  NearReach \in Nat /\ wanted <= NearReach /\ LastProbed <= NearReach
  <1>1. Len(entries) \in Nat /\ PROBE_VECTORS \in Nat /\ NEAR_REACH_MAX \in Nat
        /\ PROBE_VECTORS < NEAR_REACH_MAX
    BY PlacesAreFinite, SearchAssumption
  <1> QED
    BY <1>1 DEF NearReach, Smaller, LastProbed

LEMMA SearchInitInvariant ==
  ASSUME SearchInit
  PROVE  SearchInv
  <1>1. SearchTypeOK
    BY SearchAssumption DEF SearchInit, SearchTypeOK, Scan
  <1>2. Stored
    <2>1. PICK n \in 0 .. MaxEntries : entries \in [1 .. n -> Entry]
      BY DEF SearchInit, BoundedSeq, SeqOf
    <2>2. n \in Nat /\ n <= MaxEntries
      BY <2>1, SearchAssumption
    <2>3. entries \in Seq(Entry) /\ Len(entries) = n
      <3>1. entries \in Seq(Entry)
        BY <2>1, <2>2, IsASeq
      <3>2. DOMAIN entries = 1 .. n /\ DOMAIN entries = 1 .. Len(entries) /\ Len(entries) \in Nat
        BY <2>1, <3>1, LenProperties
      <3> QED
        BY <2>2, <3>1, <3>2
    <2> QED
      BY <2>2, <2>3 DEF Stored
  <1>3. op \in {"near", "find"} /\ ask = wanted /\ wanted \in Nat \ {0}
    BY SearchAssumption DEF SearchInit
  <1> QED
    BY <1>1, <1>2, <1>3, ReachIsNumber DEF SearchInv

\* An entry is scanned.
LEMMA ScanKeeps ==
  ASSUME SearchInv, ScanEntry
  PROVE  ScanIsRight' /\ SearchTypeOK'
  <1>1. SearchTypeOK /\ Stored /\ ScanIsRight /\ op = "scan" /\ ~Reached
        /\ UNCHANGED <<entries, op, wanted, ask>>
    BY DEF SearchInv, ScanEntry
  <1> DEFINE place == scan.place
             keep == scan.keep
             bar == scan.bar
             best == scan.best
             skips == Is(place, {"skipped"}) \/ ~(bar = 0 \/ Better(place, bar))
             held == IF skips THEN best ELSE best \cup {place}
             cut == ~skips /\ Cardinality(held) >= 2 * keep
  <1>2. scan' = [scan EXCEPT !.place = place + 1,
                             !.best = IF cut THEN Top(held, keep) ELSE held,
                             !.bar = IF cut THEN Worst(Top(held, keep)) ELSE bar]
    BY DEF ScanEntry, CanEnter
  <1>3. /\ place \in Nat /\ keep \in Nat /\ bar \in Nat /\ best \subseteq Nat
        /\ keep # 0 /\ place >= 1 /\ Holds(place, keep, best, bar)
    BY <1>1 DEF SearchTypeOK, ScanIsRight
  <1>4. LastProbed \in Nat /\ place <= LastProbed /\ LastProbed <= Len(entries)
        /\ Len(entries) \in Nat
    BY <1>1, <1>3, PlacesAreFinite DEF Reached, LastProbed
  <1>5. scan'.keep = keep /\ scan'.place = place + 1
        /\ scan'.best = (IF cut THEN Top(held, keep) ELSE held)
        /\ scan'.bar = (IF cut THEN Worst(Top(held, keep)) ELSE bar)
        /\ scan' \in [place : {place + 1}, keep : {keep},
                      best : {IF cut THEN Top(held, keep) ELSE held},
                      bar : {IF cut THEN Worst(Top(held, keep)) ELSE bar}]
    <2> HIDE DEF place, keep, held, cut, bar
    <2>1. scan \in [place : Nat, keep : Nat, best : SUBSET Nat, bar : Nat]
      BY <1>1 DEF SearchTypeOK
    <2> QED
      BY <1>2, <2>1 DEF keep
  <1> HIDE DEF place, keep, bar, best, skips
  <1>6. Holds(place + 1, keep, held, bar)
    <2>1. place <= Len(entries)
      BY <1>3, <1>4
    <2>2. Holds(place + 1, keep,
                IF Is(place, {"skipped"}) \/ ~(bar = 0 \/ Better(place, bar)) THEN best
                ELSE best \cup {place},
                bar)
      BY <1>1, <1>3, <2>1, HoldsNext
    <2> QED
      BY <2>2 DEF skips
  <1>7. Passed(place + 1) \subseteq Places
    <2>1. place <= Len(entries)
      BY <1>3, <1>4
    <2> QED
      BY <1>1, <1>3, <2>1, PassedNext
  <1>8. held \subseteq Passed(place + 1) /\ IsFiniteSet(held)
    <2>1. held \in SUBSET Places
      BY <1>6, <1>7 DEF Holds
    <2> QED
      BY <1>1, <1>6, <2>1, TopIsFirst DEF Holds
  <1> HIDE DEF held
  <1>9. cut => keep <= Cardinality(held)
    BY <1>3, <1>8, FS_CardinalityType
  <1>10. cut => /\ Holds(place + 1, keep, Top(held, keep), Worst(Top(held, keep)))
                /\ Worst(Top(held, keep)) # 0
    BY <1>1, <1>3, <1>6, <1>7, <1>9, HoldsCut
  <1> HIDE DEF cut
  <1>11. Holds(scan'.place, scan'.keep, scan'.best, scan'.bar)
    BY <1>5, <1>6, <1>10
  <1>12. scan'.best \subseteq Passed(place + 1) /\ scan'.bar \in Nat
    BY <1>1, <1>3, <1>5, <1>7, <1>11 DEF Holds, Places
  <1>13. scan' \in [place : Nat, keep : Nat, best : SUBSET Nat, bar : Nat]
    <2>1. scan'.best \subseteq Nat
      BY <1>7, <1>12 DEF Places
    <2> QED
      BY <1>3, <1>5, <1>12, <2>1
  <1>14. Holds(scan.place, scan.keep, scan.best, scan.bar)'
    BY <1>1, <1>11 DEF Holds, Passed, Is, Top, Better, AsGood
  <1>15. LastProbed' = LastProbed
    BY <1>1 DEF LastProbed
  <1>16. ScanIsRight'
    BY <1>3, <1>4, <1>5, <1>14, <1>15 DEF ScanIsRight
  <1>17. SearchTypeOK'
    BY <1>1, <1>13 DEF SearchTypeOK
  <1> QED
    BY <1>16, <1>17

LEMMA WidenKeeps ==
  ASSUME SearchTypeOK, ask >= wanted, NEW reach \in Nat, wanted <= reach, Widen(reach)
  PROVE  ask' \in Nat /\ ask' >= wanted /\ ask' <= reach
  BY DEF SearchTypeOK, Widen, Smaller

LEMMA SearchNextInvariant ==
  ASSUME SearchInv, [SearchNext]_searchVars
  PROVE  SearchInv'
  <1>1. SearchTypeOK /\ Stored /\ ask \in Nat /\ ask >= wanted /\ wanted \in Nat \ {0}
    BY DEF SearchInv, SearchTypeOK
  <1>2. UNCHANGED <<entries, wanted>>
    BY DEF SearchNext, searchVars, BeginScan, ScanEntry, ScanAll, StoreAnswers, NearWidens,
           NearAnswers, FindWidens, FindAnswers, Answer
  <1>3. Stored' /\ FindReach' = FindReach /\ Probed' = Probed /\ LastProbed' = LastProbed
    BY <1>1, <1>2 DEF Stored, FindReach, Probed, Passed, LastProbed, Is
  <1>4. ASSUME NEW keep \in Nat, keep # 0, scan' = Scan(keep)
        PROVE  ScanIsRight'
    <2>1. scan'.place = 1 /\ scan'.keep = keep /\ scan'.best = {} /\ scan'.bar = 0
      BY <1>4 DEF Scan
    <2>2. Holds(scan.place, scan.keep, scan.best, scan.bar)'
      BY <2>1 DEF Holds, Passed, Top
    <2>3. LastProbed \in Nat
      BY <1>1, PlacesAreFinite
    <2> QED
      BY <1>3, <1>4, <2>1, <2>2, <2>3 DEF ScanIsRight
  <1>5. ASSUME NEW keep \in Nat
        PROVE  Scan(keep) \in [place : Nat, keep : Nat, best : SUBSET Nat, bar : Nat]
    BY DEF Scan
  <1>6. CASE BeginScan
    <2>1. op' = "scan" /\ scan' = Scan(ask) /\ ask' = ask
      BY <1>6 DEF BeginScan
    <2>2. ScanIsRight'
      BY <1>1, <1>4, <2>1
    <2> QED
      BY <1>1, <1>2, <1>3, <1>5, <2>1, <2>2 DEF SearchInv, SearchTypeOK
  <1>7. CASE ScanEntry
    <2>1. op' = "scan" /\ ask' = ask /\ ScanIsRight' /\ SearchTypeOK'
      BY <1>7, ScanKeeps DEF ScanEntry
    <2> QED
      BY <1>1, <1>2, <1>3, <2>1 DEF SearchInv
  <1>8. CASE ScanAll
    <2>1. op' = "scan" /\ scan' = Scan(PROBE_VECTORS) /\ ask' = ask
      BY <1>8 DEF ScanAll
    <2>2. PROBE_VECTORS \in Nat /\ PROBE_VECTORS # 0
      BY SearchAssumption
    <2>3. ScanIsRight'
      BY <1>4, <2>1, <2>2
    <2> QED
      BY <1>1, <1>2, <1>3, <1>5, <2>1, <2>2, <2>3 DEF SearchInv, SearchTypeOK
  <1>9. CASE StoreAnswers
    <2>1. op' = "hits" /\ scan' = Scan(0) /\ ask' = ask /\ hits' = Top(Kept, ask)
      BY <1>9 DEF StoreAnswers
    <2>2. hits' = Top(Readable(Probed), ask)
      BY <1>9, <2>1, AnswerIsTop DEF StoreAnswers
    <2>3. (Top(Readable(Probed), ask))' = Top(Readable(Probed), ask)
      BY <1>2, <1>3, <2>1 DEF Top, Readable, Is, Better
    <2>4. SearchTypeOK'
      BY <1>1, <1>2, <1>5, <2>1 DEF SearchTypeOK
    <2> QED
      BY <1>1, <1>2, <1>3, <2>1, <2>2, <2>3, <2>4 DEF SearchInv
  <1>10. CASE NearWidens
    <2>1. op' = "near" /\ scan' = scan /\ Widen(NearReach)
      BY <1>10 DEF NearWidens
    <2>2. ask' \in Nat /\ ask' >= wanted
      BY <1>1, <2>1, NearReachIsNumber, WidenKeeps
    <2> QED
      BY <1>1, <1>2, <1>3, <2>1, <2>2 DEF SearchInv, SearchTypeOK
  <1>11. CASE NearAnswers \/ FindAnswers
    <2>1. op' = "done" /\ scan' = scan /\ ask' = ask
      BY <1>11 DEF NearAnswers, FindAnswers, Answer
    <2> QED
      BY <1>1, <1>2, <1>3, <2>1 DEF SearchInv, SearchTypeOK
  <1>12. CASE FindWidens
    <2>1. op' = "find" /\ scan' = scan /\ Widen(FindReach)
      BY <1>12 DEF FindWidens
    <2>2. ask' \in Nat /\ ask' >= wanted /\ ask' <= FindReach
      BY <1>1, <2>1, ReachIsNumber, WidenKeeps
    <2> QED
      BY <1>1, <1>2, <1>3, <2>1, <2>2 DEF SearchInv, SearchTypeOK
  <1>13. CASE UNCHANGED searchVars
    <2>1. UNCHANGED <<op, ask, scan, hits>>
      BY <1>13 DEF searchVars
    <2>2. (Top(Readable(Probed), ask))' = Top(Readable(Probed), ask)
      BY <1>2, <1>3, <2>1 DEF Top, Readable, Is, Better
    <2>3. ScanIsRight => ScanIsRight'
      BY <1>2, <1>3, <2>1 DEF ScanIsRight, Holds, Passed, Is, Top, Better, AsGood
    <2>4. SearchTypeOK'
      BY <1>1, <1>2, <2>1 DEF SearchTypeOK
    <2> QED
      BY <1>1, <1>2, <1>3, <2>1, <2>2, <2>3, <2>4 DEF SearchInv
  <1> QED
    BY <1>6, <1>7, <1>8, <1>9, <1>10, <1>11, <1>12, <1>13 DEF SearchNext

LEMMA SearchInvariance == SearchSpec => []SearchInv
  <1>1. SearchInit => SearchInv
    BY SearchInitInvariant
  <1>2. SearchInv /\ [SearchNext]_searchVars => SearchInv'
    BY SearchNextInvariant
  <1> QED
    BY <1>1, <1>2, PTL DEF SearchSpec

\* What a similarity search answers with.
AnswerIsExact ==
    /\ result' = Top(Good, wanted)
    /\ \A i \in Good \ result' : kth' # 0 /\ Better(kth', i)

LEMMA NearAnswersExactly ==
  ASSUME SearchInv, NearAnswers
  PROVE  AnswerIsExact
  <1>1. /\ Stored /\ SearchTypeOK /\ ask >= wanted /\ wanted \in Nat /\ wanted # 0 /\ ask \in Nat
        /\ hits = Top(Readable(Probed), ask) /\ Enough(hits, NearReach)
        /\ result' = Top(Usable(hits), wanted)
        /\ kth' = IF Cardinality(Top(Usable(hits), wanted)) = wanted
                  THEN Worst(Top(Usable(hits), wanted)) ELSE 0
    BY DEF SearchInv, SearchTypeOK, NearAnswers, Answer
  <1> DEFINE R == Readable(Probed)
             U == Usable(hits)
             G == Good
             best == Top(U, wanted)
  <1>2. /\ R \in SUBSET Places /\ G = Usable(R) /\ Probed \in SUBSET Places
        /\ R \in SUBSET Probed /\ IsFiniteSet(Probed)
        /\ Cardinality(Probed) \in Nat /\ Cardinality(Probed) <= LastProbed
    BY <1>1, ProbedAreFew
  <1>3. G \in SUBSET R /\ G \in SUBSET Places
    BY <1>2 DEF Usable
  <1> HIDE DEF R, G
  <1>4. /\ hits = First(Betters, R, ask) /\ Orders(Betters, R) /\ IsFiniteSet(R)
        /\ Orders(Betters, G) /\ IsFiniteSet(G)
    BY <1>1, <1>2, <1>3, TopIsFirst DEF R
  <1> DEFINE F == First(Betters, R, ask)
  <1>5. U = G \cap F /\ U \in SUBSET G
    <2>1. F \subseteq R
      BY DEF First
    <2> QED
      BY <1>2, <1>4, <2>1 DEF Usable
  <1>6. \A i \in U, j \in G \ U : <<i, j>> \in Betters
    <2>1. \A i \in G \cap F, j \in G \ F : <<i, j>> \in Betters
      BY <1>1, <1>3, <1>4, KeptComeFirst
    <2> QED
      BY <1>5, <2>1
  <1>7. IsFiniteSet(U) /\ Cardinality(U) \in Nat /\ IsFiniteSet(R) /\ Cardinality(R) \in Nat
        /\ Cardinality(R) <= Cardinality(Probed)
    BY <1>2, <1>4, <1>5, FS_Subset, FS_CardinalityType
  <1>8. ASSUME Cardinality(R) <= ask PROVE U = G
    <2>1. F = R
      BY <1>1, <1>4, <1>8, FirstOfFew
    <2> QED
      BY <1>3, <1>5, <2>1
  <1>9. wanted <= Cardinality(U) \/ U = G
    <2>1. CASE Cardinality(U) >= wanted
      BY <1>1, <1>7, <2>1
    <2>2. CASE Cardinality(hits) < ask
      <3>1. ~(ask <= Cardinality(R))
        <4>1. SUFFICES ASSUME ask <= Cardinality(R) PROVE Cardinality(F) = ask
          BY <1>1, <1>4, <2>2
        <4> QED
          BY <1>1, <1>4, <4>1, FirstCount
      <3> QED
        BY <1>1, <1>7, <1>8, <3>1
    <2>3. CASE ask >= NearReach
      <3>1. NearReach \in Nat /\ LastProbed <= NearReach /\ LastProbed \in Nat
        BY <1>1, NearReachIsNumber, PlacesAreFinite
      <3> QED
        BY <1>1, <1>2, <1>7, <1>8, <2>3, <3>1
    <2> QED
      BY <1>1, <2>1, <2>2, <2>3 DEF Enough
  <1> HIDE DEF F, U
  <1>10. First(Betters, U, wanted) = First(Betters, G, wanted)
    BY <1>1, <1>4, <1>5, <1>6, <1>9, FirstOfKept
  <1>11. /\ best = First(Betters, U, wanted) /\ Top(G, wanted) = First(Betters, G, wanted)
         /\ \A i \in G, j \in G : <<i, j>> \in Betters <=> Better(i, j)
    BY <1>1, <1>3, <1>5, TopIsFirst
  <1>12. best = First(Betters, G, wanted) /\ best \in SUBSET G
    BY <1>10, <1>11 DEF First
  <1>13. result' = best /\ kth' = IF Cardinality(best) = wanted THEN Worst(best) ELSE 0
    BY <1>1 DEF U
  <1> HIDE DEF best
  <1>14. ASSUME NEW i \in G \ best PROVE kth' # 0 /\ Better(kth', i)
    <2>1. Cardinality(best) = wanted /\ best \subseteq Earlier(Betters, G, i)
      BY <1>1, <1>4, <1>12, LeftOut
    <2>2. best # {} /\ best \in SUBSET Places
      BY <1>1, <1>3, <1>12, <2>1, FS_EmptySet
    <2>3. kth' \in best
      BY <1>1, <1>13, <2>1, <2>2, WorstIsLast
    <2>4. Better(kth', i)
      BY <1>11, <1>12, <2>1, <2>3 DEF Earlier
    <2> QED
      BY <2>2, <2>3, <2>4 DEF Places
  <1> QED
    BY <1>10, <1>11, <1>13, <1>14 DEF AnswerIsExact, G, best

\* However many rows that cannot be used or are gone lie nearer, whatever the ties, and
\* wherever the buffer was cut: near of src/src/engine.rs and of src/src/store.rs answer with
\* the best usable rows probed, and with a bound of those left out.
THEOREM SearchIsExact == SearchSpec => NearIsExact
  <1> DEFINE A == op = "hits" /\ op' = "done" => AnswerIsExact
  <1>1. SearchInv /\ [SearchNext]_searchVars => [A]_searchVars
    <2>1. SUFFICES ASSUME SearchInv, [SearchNext]_searchVars, op = "hits", op' = "done"
                   PROVE  NearAnswers
      BY NearAnswersExactly
    <2> QED
      BY <2>1 DEF SearchNext, searchVars, BeginScan, ScanEntry, ScanAll, StoreAnswers,
                  NearWidens, FindWidens, FindAnswers
  <1>2. A <=> (op = "hits" /\ op' = "done" =>
                 /\ result' = Top(Good, wanted)
                 /\ \A i \in Good \ result' : kth' # 0 /\ Better(kth', i))
    BY DEF AnswerIsExact
  <1> HIDE DEF A
  <1> QED
    BY <1>1, <1>2, SearchInvariance, PTL DEF SearchSpec, NearIsExact

-----------------------------------------------------------------------------
(* Ordered reads.                                                          *)

InView == {p \in Places \X Places : p[1] < p[2]}

LEMMA ViewOrders ==
  ASSUME Stored, NEW S \in SUBSET Places, NEW n
  PROVE  Orders(InView, S) /\ IsFiniteSet(S) /\ FirstOf(S, n) = First(InView, S, n)
         /\ \A i \in S, j \in S : <<i, j>> \in InView <=> i < j
  <1>1. \A i \in S, j \in S : <<i, j>> \in InView <=> i < j
    BY DEF InView
  <1>2. S \subseteq Int
    BY DEF Places
  <1>3. Orders(InView, S)
    BY <1>1, <1>2 DEF Orders
  <1>4. \A i \in S : Earlier(InView, S, i) = {j \in S : j < i}
    BY <1>1 DEF Earlier
  <1>5. FirstOf(S, n) = First(InView, S, n)
    BY <1>4 DEF FirstOf, First
  <1> QED
    BY <1>1, <1>3, <1>5, PlacesAreFinite, FS_Subset

ReadIsComplete ==
    \/ result' = FirstOf(Usable(DOMAIN entries), wanted)
    \/ result' = Usable(StoreFind(FindReach)) /\ Cardinality(result') < wanted

LEMMA FindAnswersCompletely ==
  ASSUME SearchInv, FindAnswers, Readable(DOMAIN entries) = DOMAIN entries
  PROVE  ReadIsComplete
  <1>1. /\ Stored /\ wanted \in Nat /\ wanted # 0 /\ ask \in Nat /\ ask <= FindReach
        /\ FindReach \in Nat /\ Enough(StoreFind(ask), FindReach)
        /\ result' = FirstOf(Usable(StoreFind(ask)), wanted)
    BY ReachIsNumber DEF SearchInv, SearchTypeOK, FindAnswers, Answer
  <1>2. DOMAIN entries = Places /\ Len(entries) \in Nat
    BY <1>1, LenProperties DEF Stored, Places
  <1> DEFINE S == StoreFind(ask)
             U == Usable(S)
             V == Usable(Places)
  <1>3. S = {i \in Places : i <= ask} /\ S \in SUBSET Places
    BY <1>2 DEF StoreFind, Readable
  <1>4. U = {i \in V : i <= ask} /\ U \in SUBSET V /\ V \in SUBSET Places
    BY <1>3 DEF Usable
  <1> HIDE DEF S, U, V
  <1>5. /\ Orders(InView, V) /\ IsFiniteSet(V) /\ FirstOf(V, wanted) = First(InView, V, wanted)
        /\ \A i \in V, j \in V : <<i, j>> \in InView <=> i < j
        /\ FirstOf(U, wanted) = First(InView, U, wanted) /\ IsFiniteSet(U) /\ Orders(InView, U)
    BY <1>1, <1>4, ViewOrders
  <1>6. \A i \in U, j \in V \ U : <<i, j>> \in InView
    <2> TAKE i \in U, j \in V \ U
    <2>1. i <= ask /\ ~(j <= ask) /\ i \in V /\ j \in V /\ i \in Int /\ j \in Int
      BY <1>4 DEF Places
    <2> QED
      BY <1>1, <1>5, <2>1
  <1>7. ASSUME wanted <= Cardinality(U) \/ U = V PROVE FirstOf(U, wanted) = FirstOf(V, wanted)
    <2>1. First(InView, U, wanted) = First(InView, V, wanted)
      BY <1>1, <1>4, <1>5, <1>6, <1>7, FirstOfKept
    <2> QED
      BY <1>5, <2>1
  <1>8. Cardinality(U) \in Nat
    BY <1>5, FS_CardinalityType
  <1>9. CASE Cardinality(U) >= wanted
    BY <1>1, <1>2, <1>7, <1>8, <1>9 DEF ReadIsComplete, S, U, V
  <1>10. CASE Cardinality(S) < ask
    <2>1. ASSUME ask < Len(entries) PROVE FALSE
      <3>1. S = 1 .. ask
        BY <1>1, <1>2, <1>3, <2>1 DEF Places
      <3>2. Cardinality(1 .. ask) = ask
        BY <1>1, FS_Interval
      <3> QED
        BY <1>1, <1>10, <3>1, <3>2
    <2>2. U = V
      <3>1. ~(ask < Len(entries))
        BY <2>1
      <3>2. ASSUME NEW i \in Places PROVE i <= ask
        BY <1>1, <1>2, <3>1 DEF Places
      <3> QED
        BY <1>4, <3>2
    <2> QED
      BY <1>1, <1>2, <1>7, <2>2 DEF ReadIsComplete, S, U, V
  <1>11. CASE ask >= FindReach /\ ~(Cardinality(U) >= wanted)
    <2>1. ask = FindReach
      BY <1>1, <1>11
    <2>2. First(InView, U, wanted) = U
      BY <1>1, <1>5, <1>8, <1>11, FirstOfFew
    <2>3. result' = U /\ Cardinality(U) < wanted
      BY <1>1, <1>5, <1>8, <1>11, <2>2 DEF S, U
    <2> QED
      BY <2>1, <2>3 DEF ReadIsComplete, U, S
  <1> QED
    BY <1>1, <1>9, <1>10, <1>11 DEF Enough, S, U

\* An ordered read is never short of rows because others in its way cannot be used, unless
\* there are more of those than its reach (find of src/src/engine.rs).
THEOREM ReadsAreComplete == SearchSpec => FindIsComplete
  <1> DEFINE A == op = "find" /\ op' = "done" /\ Readable(DOMAIN entries) = DOMAIN entries
                    => ReadIsComplete
  <1>1. SearchInv /\ [SearchNext]_searchVars => [A]_searchVars
    <2>1. SUFFICES ASSUME SearchInv, [SearchNext]_searchVars, op = "find", op' = "done"
                   PROVE  FindAnswers
      BY FindAnswersCompletely
    <2> QED
      BY <2>1 DEF SearchNext, searchVars, BeginScan, ScanEntry, ScanAll, StoreAnswers,
                  NearWidens, NearAnswers, FindWidens
  <1>2. A <=> (op = "find" /\ op' = "done" /\ Readable(DOMAIN entries) = DOMAIN entries =>
         \/ result' = FirstOf(Usable(DOMAIN entries), wanted)
         \/ result' = Usable(StoreFind(FindReach)) /\ Cardinality(result') < wanted)
    BY DEF ReadIsComplete
  <1> HIDE DEF A
  <1> QED
    BY <1>1, <1>2, SearchInvariance, PTL DEF SearchSpec, FindIsComplete

-----------------------------------------------------------------------------
(* The windows of an eviction.                                             *)

EvictionTypeOK ==
    /\ rows \in Seq(Row)
    /\ \A i \in DOMAIN rows, j \in DOMAIN rows : i < j => rows[i].idle >= rows[j].idle
    /\ capacity \in Nat /\ capacity <= Len(rows)
    /\ pass \in {"old", "all", "done"}
    /\ limit \in [Bands -> Nat]
    /\ \A b \in Bands : limit[b] >= Excess

\* What a pass chooses from, by the store's own word.
Source == IF pass = "old" THEN Old ELSE Listed

RowOrder == {p \in (DOMAIN rows) \X (DOMAIN rows) : p[1] < p[2]}

BandOf(i) == Band[RowOf(i).stability]

LEMMA TableIsFinite ==
  ASSUME EvictionTypeOK
  PROVE  /\ Len(rows) \in Nat /\ DOMAIN rows = 1 .. Len(rows) /\ IsFiniteSet(DOMAIN rows)
         /\ Excess \in Nat /\ Excess >= 1
         /\ Cap \in Nat /\ Cap >= Excess
  <1>1. Len(rows) \in Nat /\ DOMAIN rows = 1 .. Len(rows)
    BY LenProperties DEF EvictionTypeOK
  <1>2. IsFiniteSet(DOMAIN rows)
    BY <1>1, FS_Interval
  <1>3. Excess \in Nat /\ Excess >= 1
    BY <1>1 DEF EvictionTypeOK, Excess
  <1>4. BAND_CAP \in Nat /\ BAND_DEPTH \in Nat
    BY EvictionAssumption
  <1>5. Cap \in Nat /\ Cap >= Excess
    BY <1>3, <1>4 DEF Cap
  <1> QED
    BY <1>1, <1>2, <1>3, <1>5

LEMMA ClampIsStability ==
  ASSUME NEW s \in Stabilities
  PROVE  Clamp(s) \in Stabilities /\ s \in Nat
  BY EvictionAssumption DEF Clamp

LEMMA ClampGrows ==
  ASSUME NEW s \in Stabilities, NEW t \in Stabilities, s <= t
  PROVE  Clamp(s) <= Clamp(t)
  <1>1. s \in Nat /\ t \in Nat /\ MaxStability \in Nat
    BY EvictionAssumption
  <1> QED
    BY <1>1 DEF Clamp

LEMMA RowHasRank ==
  ASSUME EvictionTypeOK, NEW i \in {0} \cup DOMAIN rows
  PROVE  /\ RowOf(i).stability \in Stabilities /\ RowOf(i).idle \in IdleTimes
         /\ RowOf(i).idle \in Nat
         /\ RankOf(i) \in Int /\ BandOf(i) \in Bands
         /\ i # 0 => RowOf(i) = rows[i]
  <1>1. CASE i = 0
    BY <1>1, EvictionAssumption, ClampIsStability DEF RowOf, New, RankOf, BandOf, Bands
  <1>2. CASE i # 0
    <2>1. i \in DOMAIN rows /\ RowOf(i) = rows[i]
      BY <1>2 DEF RowOf
    <2>2. rows[i] \in Row
      BY <2>1, ElementOfSeq, TableIsFinite DEF EvictionTypeOK
    <2>3. rows[i].stability \in Stabilities /\ rows[i].idle \in IdleTimes
      BY <2>2 DEF Row
    <2> QED
      BY <1>2, <2>1, <2>3, EvictionAssumption, ClampIsStability DEF RankOf, BandOf, Bands
  <1> QED
    BY <1>1, <1>2

LEMMA RowsAreOrdered ==
  ASSUME EvictionTypeOK, NEW S \in SUBSET DOMAIN rows
  PROVE  /\ Orders(RowOrder, S) /\ IsFiniteSet(S)
         /\ \A i \in S, j \in S : <<i, j>> \in RowOrder <=> i < j
  <1>1. \A i \in S, j \in S : <<i, j>> \in RowOrder <=> i < j
    BY DEF RowOrder
  <1>2. S \subseteq Int
    BY TableIsFinite
  <1>3. Orders(RowOrder, S)
    BY <1>1, <1>2 DEF Orders
  <1> QED
    BY <1>1, <1>3, TableIsFinite, FS_Subset

LEMMA WindowIsFirst ==
  ASSUME EvictionTypeOK, NEW b \in Bands
  PROVE  /\ Found(b) \in SUBSET DOMAIN rows
         /\ Window(b) = First(RowOrder, Found(b), limit[b])
         /\ Window(b) \in SUBSET Found(b)
  <1>1. Found(b) \in SUBSET DOMAIN rows
    BY DEF Found
  <1>2. /\ IsFiniteSet(Found(b)) /\ limit[b] \in Nat
        /\ \A i \in Found(b), j \in Found(b) : <<i, j>> \in RowOrder <=> i < j
    BY <1>1, RowsAreOrdered DEF EvictionTypeOK
  <1>3. ASSUME NEW i \in Found(b)
        PROVE  Cardinality({j \in Found(b) : j <= i}) <= limit[b]
                 <=> Cardinality(Earlier(RowOrder, Found(b), i)) < limit[b]
    <2> DEFINE before == Earlier(RowOrder, Found(b), i)
    <2>1. IsFiniteSet(before) /\ Cardinality(before) \in Nat
      BY <1>2, BeforeIsFinite
    <2>2. Found(b) \subseteq Int
      BY <1>1, TableIsFinite
    <2>3. {j \in Found(b) : j <= i} = before \cup {i} /\ i \notin before
      BY <1>2, <2>2 DEF Earlier
    <2> HIDE DEF before
    <2>4. Cardinality(before \cup {i}) = Cardinality(before) + 1
      BY <2>1, <2>3, FS_AddElement
    <2> QED
      BY <1>2, <2>1, <2>3, <2>4 DEF before
  <1>4. Window(b) = First(RowOrder, Found(b), limit[b])
    BY <1>3 DEF Window, First
  <1> QED
    BY <1>1, <1>4 DEF First

LEMMA SourceIsFound ==
  ASSUME EvictionTypeOK
  PROVE  /\ Source \in SUBSET DOMAIN rows /\ IsFiniteSet(Source) /\ Cardinality(Source) \in Nat
         /\ Read \in SUBSET Source /\ IsFiniteSet(Read) /\ Cardinality(Read) \in Nat
         /\ 0 \notin Source
         /\ \A b \in Bands : Found(b) = {i \in Source : BandOf(i) = b}
  <1>1. Source \in SUBSET DOMAIN rows /\ 0 \notin Source
    BY TableIsFinite DEF Source, Old, Listed
  <1>2. \A i \in Source : RowOf(i) = rows[i]
    BY <1>1 DEF RowOf
  <1>3. ASSUME NEW b \in Bands PROVE Found(b) = {i \in Source : BandOf(i) = b}
    <2>1. Source = {i \in DOMAIN rows : rows[i].kind # "lost" /\ (pass = "old" => ~rows[i].young)}
      BY DEF Source, Old, Listed
    <2> QED
      BY <1>2, <2>1 DEF Found, BandOf
  <1>4. Read \in SUBSET Source
    BY <1>3, WindowIsFirst DEF Read
  <1> QED
    BY <1>1, <1>3, <1>4, TableIsFinite, FS_Subset, FS_CardinalityType

\* A row not read lies after a full window of its band.
LEMMA NotRead ==
  ASSUME EvictionTypeOK, NEW j \in Source \ Read
  PROVE  /\ BandOf(j) \in Bands
         /\ IsFull(BandOf(j))
         /\ Window(BandOf(j)) \subseteq Read
         /\ \A i \in Window(BandOf(j)) : i < j /\ BandOf(i) = BandOf(j)
         /\ Excess <= Cardinality(Read)
  <1> DEFINE b == BandOf(j)
  <1>1. j \in DOMAIN rows /\ b \in Bands
    BY SourceIsFound, RowHasRank
  <1> HIDE DEF b
  <1>2. /\ Window(b) = First(RowOrder, Found(b), limit[b]) /\ Window(b) \in SUBSET Found(b)
        /\ Found(b) = {i \in Source : BandOf(i) = b} /\ Found(b) \in SUBSET DOMAIN rows
    BY <1>1, WindowIsFirst, SourceIsFound
  <1>3. /\ Orders(RowOrder, Found(b)) /\ IsFiniteSet(Found(b))
        /\ \A i \in Found(b), k \in Found(b) : <<i, k>> \in RowOrder <=> i < k
    BY <1>2, RowsAreOrdered
  <1>4. Window(b) \in SUBSET Read
    BY <1>1 DEF Read
  <1>5. j \in Found(b) \ Window(b)
    BY <1>2, <1>4 DEF b
  <1>6. limit[b] \in Nat /\ limit[b] >= Excess
    BY <1>1 DEF EvictionTypeOK
  <1>7. /\ Cardinality(Window(b)) = limit[b]
        /\ Window(b) \subseteq Earlier(RowOrder, Found(b), j)
    <2> DEFINE F == Found(b)
               n == limit[b]
    <2>1. j \in F \ First(RowOrder, F, n) /\ Orders(RowOrder, F) /\ IsFiniteSet(F) /\ n \in Nat
      BY <1>2, <1>3, <1>5, <1>6
    <2> HIDE DEF F, n
    <2>2. /\ Cardinality(First(RowOrder, F, n)) = n
          /\ First(RowOrder, F, n) \subseteq Earlier(RowOrder, F, j)
      BY <2>1, LeftOut
    <2> QED
      BY <1>2, <2>2 DEF F, n
  <1>8. \A i \in Window(b) : i < j /\ BandOf(i) = b
    BY <1>2, <1>3, <1>5, <1>7 DEF Earlier
  <1>9. Cardinality(Window(b)) <= Cardinality(Read)
    BY <1>4, SourceIsFound, FS_Subset
  <1>10. Excess <= Cardinality(Read)
    BY <1>6, <1>7, <1>9, SourceIsFound, TableIsFinite
  <1> QED
    BY <1>1, <1>4, <1>7, <1>8, <1>10 DEF b, IsFull

\* It ranks no lower than the bound that the engine takes from the last row of the window.
LEMMA BeyondIsBound ==
  ASSUME EvictionTypeOK, NEW j \in Source \ Read
  PROVE  RankBeyond(BandOf(j)) \in Int /\ RankBeyond(BandOf(j)) <= RankOf(j)
  <1> DEFINE b == BandOf(j)
             window == Window(b)
             low == BandLow(b)
             last == Max(window)
  <1>1. /\ b \in Bands /\ IsFull(b) /\ window \subseteq Read
        /\ \A i \in window : i < j
    BY NotRead
  <1>2. j \in DOMAIN rows /\ Read \subseteq DOMAIN rows /\ j # 0
    BY SourceIsFound
  <1>3. /\ RowOf(j) = rows[j] /\ RowOf(j).stability \in Stabilities
        /\ RowOf(j).idle \in IdleTimes
    BY <1>2, RowHasRank
  <1>4. low \in Stabilities /\ low <= RowOf(j).stability
    <2> DEFINE T == {s \in Stabilities : Band[s] = b}
    <2>1. T \in SUBSET Nat /\ RowOf(j).stability \in T /\ T \in SUBSET Stabilities
      BY <1>3, EvictionAssumption DEF BandOf
    <2> HIDE DEF T
    <2>2. Min(T) \in T /\ \A x \in T : Min(T) <= x
      BY <2>1, MinExists
    <2> QED
      BY <2>1, <2>2 DEF T, BandLow
  <1>5. last \in window
    <2>1. limit[b] \in Nat /\ limit[b] >= Excess /\ Excess \in Nat /\ Excess >= 1
      BY <1>1, TableIsFinite DEF EvictionTypeOK
    <2>2. window # {}
      BY <1>1, <2>1, FS_EmptySet DEF IsFull
    <2> DEFINE n == Len(rows)
    <2>3. window \in SUBSET (0 .. n) /\ n \in Nat
      BY <1>1, <1>2, TableIsFinite
    <2> HIDE DEF window, n
    <2> QED
      BY <2>2, <2>3, MaxExists
  <1> HIDE DEF last
  <1>6. last \in DOMAIN rows /\ last < j
    BY <1>1, <1>2, <1>5
  <1>7. rows[last].idle >= rows[j].idle /\ rows[last].idle \in IdleTimes
    <2>1. RowOf(last) = rows[last] /\ RowOf(last).idle \in IdleTimes
      BY <1>6, RowHasRank, TableIsFinite
    <2> QED
      BY <1>2, <1>6, <2>1 DEF EvictionTypeOK
  <1>8. Max(IdleTimes) \in IdleTimes /\ \A d \in IdleTimes : d <= Max(IdleTimes)
    <2>1. PICK longest \in IdleTimes : \A d \in IdleTimes : d <= longest
      BY EvictionAssumption
    <2>2. IdleTimes \in SUBSET Nat
      BY EvictionAssumption
    <2>3. Max(IdleTimes) = longest
      BY <2>1, <2>2, MaxEquals
    <2> QED
      BY <2>1, <2>3
  <1>9. LastIdle(b) \in IdleTimes /\ rows[j].idle <= LastIdle(b)
    <2>1. LastIdle(b) = IF rows[last].kind = "damaged" THEN Max(IdleTimes) ELSE rows[last].idle
      BY DEF LastIdle, last
    <2>2. rows[j].idle \in IdleTimes /\ rows[j].idle \in Nat /\ rows[last].idle \in Nat
      BY <1>3, <1>7, EvictionAssumption
    <2> QED
      BY <1>7, <1>8, <2>1, <2>2
  <1>10. /\ Clamp(low) \in Stabilities /\ Clamp(RowOf(j).stability) \in Stabilities
         /\ Clamp(low) <= Clamp(RowOf(j).stability)
    BY <1>3, <1>4, ClampIsStability, ClampGrows
  <1> DEFINE s == Clamp(RowOf(j).stability)
             t == Clamp(low)
             d == rows[j].idle
             e == LastIdle(b)
  <1>11. /\ s \in Stabilities /\ t \in Stabilities /\ d \in IdleTimes /\ e \in IdleTimes
         /\ s \in Nat /\ t \in Nat /\ t <= s /\ d <= e
         /\ RankOf(j) = Rank[s][d] /\ RankBeyond(b) = Rank[t][e]
    BY <1>3, <1>9, <1>10, ClampIsStability DEF RankOf, RankBeyond
  <1> HIDE DEF s, t, d, e
  <1>12. Rank[s][d] \in Int /\ Rank[t][e] \in Int /\ Rank[s][d] >= Rank[t][e]
    BY <1>11, EvictionAssumption
  <1> QED
    BY <1>11, <1>12

-----------------------------------------------------------------------------
(* The traces that go.                                                     *)

\* Those forgotten are as weak as the bound that enough of the rows read are at.
LEMMA ForgottenAreWeak ==
  ASSUME EvictionTypeOK, NEW S, IsFiniteSet(S), Read \subseteq S, S \subseteq {0} \cup DOMAIN rows,
         NEW n \in Nat, NEW v \in Weakest(S, n), NEW bound \in Int, NthIsAtMost(n, bound),
         NEW i \in v
  PROVE  IsJunk(i) \/ RankOf(i) <= bound
  <1> DEFINE D == {k \in Read : IsJunk(k) \/ RankOf(k) <= bound}
  <1>1. SUFFICES ASSUME ~IsJunk(i), ~(RankOf(i) <= bound) PROVE FALSE
    OBVIOUS
  <1>2. /\ v \in SUBSET S /\ Cardinality(v) = n /\ IsFiniteSet(v)
        /\ \A k \in v, j \in S \ v : Weaker(k, j)
    BY FS_Subset DEF Weakest, kSubset
  <1>3. \A k \in S : RankOf(k) \in Int
    BY RowHasRank
  <1>4. ASSUME NEW d \in D, d \notin v PROVE FALSE
    <2>1. d \in S /\ (IsJunk(d) \/ RankOf(d) <= bound)
      BY <1>4
    <2>2. Weaker(i, d)
      BY <1>2, <1>4, <2>1
    <2>3. ~IsJunk(d) /\ RankOf(i) <= RankOf(d)
      BY <1>1, <2>2 DEF Weaker
    <2> QED
      BY <1>1, <1>2, <1>3, <2>1, <2>3
  <1>5. D \in SUBSET v /\ i \notin D
    BY <1>1, <1>4
  <1>6. Cardinality(D) >= n
    BY DEF NthIsAtMost
  <1> HIDE DEF D
  <1>7. Cardinality(D) < Cardinality(v)
    BY <1>2, <1>5, StrictlyMore
  <1>8. Cardinality(D) \in Nat
    BY <1>2, <1>5, FS_Subset, FS_CardinalityType
  <1> QED
    BY <1>2, <1>6, <1>7, <1>8

\* How one forgotten may be stronger than one spared.
Excused(i, j) ==
    \/ IsJunk(i) \/ IsJunk(j)
    \/ RankOf(i) <= RankOf(j)
    \/ RankOf(i) <= DEAD
    \/ Cardinality({k \in Candidates \ {0} :
             Band[rows[k].stability] = Band[RowOf(j).stability] /\ k < j}) >= Cap

LEMMA UnreadIsExcused ==
  ASSUME EvictionTypeOK, ToGrow = {}, Source = Candidates \ {0},
         NEW S, IsFiniteSet(S), Read \subseteq S, S \subseteq {0} \cup DOMAIN rows,
         NEW v \in Weakest(S, Excess), NEW i \in v, NEW j \in Source \ Read
  PROVE  Excused(i, j)
  <1> DEFINE b == BandOf(j)
             before == {k \in Candidates \ {0} :
                          Band[rows[k].stability] = Band[RowOf(j).stability] /\ k < j}
  <1>1. /\ b \in Bands /\ IsFull(b) /\ Window(b) \subseteq Read
        /\ \A k \in Window(b) : k < j /\ BandOf(k) = b
        /\ Excess <= Cardinality(Read)
    BY NotRead
  <1>2. /\ Excess \in Nat /\ Cap \in Nat /\ Cardinality(Read) \in Nat /\ limit[b] \in Nat
        /\ Read \in SUBSET Source /\ IsFiniteSet(Source) /\ DEAD \in Int
        /\ RankBeyond(b) \in Int /\ RankBeyond(b) <= RankOf(j)
    BY <1>1, TableIsFinite, SourceIsFound, BeyondIsBound, EvictionAssumption DEF EvictionTypeOK
  <1>3. i \in S /\ j \in {0} \cup DOMAIN rows
    BY SourceIsFound DEF Weakest, kSubset
  <1>4. RankOf(i) \in Int /\ RankOf(j) \in Int
    BY <1>3, RowHasRank
  <1>5. \/ NthIsAtMost(Excess, DEAD)
        \/ NthIsAtMost(Excess, RankBeyond(b) - 1)
        \/ ~(limit[b] < Cap)
    <2>1. ~(Cardinality(Read) < Excess)
      BY <1>1, <1>2
    <2> QED
      BY <1>1, <2>1 DEF ToGrow
  <1>6. CASE NthIsAtMost(Excess, DEAD)
    <2>1. IsJunk(i) \/ RankOf(i) <= DEAD
      BY <1>2, <1>6, ForgottenAreWeak
    <2> QED
      BY <2>1 DEF Excused
  <1>7. CASE NthIsAtMost(Excess, RankBeyond(b) - 1)
    <2> DEFINE bound == RankBeyond(b) - 1
    <2>1. bound \in Int /\ NthIsAtMost(Excess, bound)
      BY <1>2, <1>7
    <2>2. bound <= RankOf(j)
      BY <1>2, <1>4
    <2> HIDE DEF bound
    <2>3. IsJunk(i) \/ RankOf(i) <= bound
      BY <1>2, <2>1, ForgottenAreWeak
    <2>4. IsJunk(i) \/ RankOf(i) <= RankOf(j)
      BY <1>4, <2>1, <2>2, <2>3
    <2> QED
      BY <2>4 DEF Excused
  <1>8. CASE ~(limit[b] < Cap)
    <2>1. Window(b) \in SUBSET before /\ before \in SUBSET Source
      <3>1. \A k \in Window(b) : k \in Source /\ RowOf(k) = rows[k]
        BY <1>1, <1>2, SourceIsFound DEF RowOf
      <3> QED
        BY <1>1, <3>1 DEF BandOf
    <2> HIDE DEF before
    <2>2. Cardinality(Window(b)) <= Cardinality(before) /\ Cardinality(before) \in Nat
      BY <1>2, <2>1, FS_Subset, FS_CardinalityType
    <2>3. Cardinality(before) >= Cap
      BY <1>1, <1>2, <1>8, <2>2 DEF IsFull
    <2> QED
      BY <2>3 DEF Excused, before
  <1> QED
    BY <1>5, <1>6, <1>7, <1>8

LEMMA ReadIsExcused ==
  ASSUME NEW S, NEW n, NEW v \in Weakest(S, n), NEW i \in v, NEW j \in S \ v
  PROVE  Excused(i, j)
  <1>1. Weaker(i, j)
    BY DEF Weakest
  <1> QED
    BY <1>1 DEF Weaker, Excused

LEMMA LesserOfTwo ==
  ASSUME NEW a \in Nat, NEW b \in Nat
  PROVE  Min({a, b}) = IF a <= b THEN a ELSE b
  <1>1. {a, b} \in SUBSET Nat /\ {a, b} # {}
    OBVIOUS
  <1>2. Min({a, b}) \in {a, b} /\ \A x \in {a, b} : Min({a, b}) <= x
    BY <1>1, MinExists
  <1> QED
    BY <1>2

\* The victims are right: as many as must go, of those that may, and the weakest.
AreRight(v) ==
    /\ v \subseteq Candidates /\ Cardinality(v) = Min({Excess, Cardinality(Candidates)})
    /\ \A i \in v, j \in Candidates \ v : Excused(i, j)

LEMMA OldAreRight ==
  ASSUME EvictionTypeOK, pass = "old", ~Flood, FinishOld
  PROVE  AreRight(victims')
  <1>1. /\ ToGrow = {} /\ Cardinality(Read) >= Excess /\ victims' \in Weakest(Read, Excess)
        /\ Source = Old
    BY DEF FinishOld, Source
  <1>2. /\ Read \in SUBSET Old /\ IsFiniteSet(Old) /\ IsFiniteSet(Read) /\ Excess \in Nat
        /\ Cardinality(Read) \in Nat /\ Cardinality(Old) \in Nat
        /\ Read \subseteq {0} \cup DOMAIN rows /\ 0 \notin Old
    BY <1>1, SourceIsFound, TableIsFinite
  <1>3. Cardinality(Read) <= Cardinality(Old)
    BY <1>2, FS_Subset
  <1>4. Candidates = Old /\ Source = Candidates \ {0}
    BY <1>1, <1>2, <1>3 DEF Candidates
  <1>5. Min({Excess, Cardinality(Candidates)}) = Excess
    <2>1. Min({Excess, Cardinality(Old)}) = IF Excess <= Cardinality(Old) THEN Excess
                                            ELSE Cardinality(Old)
      BY <1>2, LesserOfTwo
    <2>2. Excess <= Cardinality(Old)
      BY <1>1, <1>2, <1>3
    <2> QED
      BY <1>4, <2>1, <2>2
  <1>6. victims' \in SUBSET Read /\ Cardinality(victims') = Excess
    BY <1>1 DEF Weakest, kSubset
  <1>7. ASSUME NEW i \in victims', NEW j \in Candidates \ victims' PROVE Excused(i, j)
    <2>1. CASE j \in Read
      BY <1>1, <2>1, ReadIsExcused
    <2>2. CASE j \notin Read
      <3>1. j \in Source \ Read
        BY <1>1, <1>4, <2>2
      <3> QED
        BY <1>1, <1>2, <1>4, <3>1, UnreadIsExcused
    <2> QED
      BY <2>1, <2>2
  <1> QED
    BY <1>2, <1>4, <1>5, <1>6, <1>7 DEF AreRight

LEMMA AllAreRight ==
  ASSUME EvictionTypeOK, pass = "all", Flood \/ Cardinality(Old) < Excess, FinishAll
  PROVE  AreRight(victims')
  <1> DEFINE S == Read \cup {0}
             n == Min({Excess, Cardinality(Read) + 1})
  <1>1. ToGrow = {} /\ victims' \in Weakest(S, n) /\ Source = Listed
        /\ Candidates = {0} \cup Listed
    BY DEF FinishAll, Source, Candidates
  <1>2. /\ Read \in SUBSET Source /\ IsFiniteSet(Source) /\ IsFiniteSet(Read) /\ Excess \in Nat
        /\ Cardinality(Read) \in Nat /\ Cardinality(Source) \in Nat
        /\ Source \in SUBSET DOMAIN rows /\ 0 \notin Source
    BY SourceIsFound, TableIsFinite
  <1>3. /\ IsFiniteSet(S) /\ Cardinality(S) = Cardinality(Read) + 1
        /\ Cardinality(Candidates) = Cardinality(Source) + 1
        /\ Read \subseteq S /\ S \subseteq {0} \cup DOMAIN rows /\ S \subseteq Candidates
    <2>1. IsFiniteSet(S) /\ Cardinality(S) = Cardinality(Read) + 1
      BY <1>2, FS_AddElement
    <2>2. Candidates = Source \cup {0}
      BY <1>1
    <2>3. Cardinality(Candidates) = Cardinality(Source) + 1
      BY <1>2, <2>2, FS_AddElement
    <2> QED
      BY <1>2, <2>1, <2>2, <2>3
  <1>4. Source = Candidates \ {0}
    BY <1>1, <1>2
  <1>5. Cardinality(Read) <= Cardinality(Source)
    BY <1>2, FS_Subset
  <1>6. Source # Read => Excess <= Cardinality(Read)
    BY <1>2, NotRead
  <1>7. n = Min({Excess, Cardinality(Candidates)}) /\ (Source # Read => n = Excess)
    <2>1. n = IF Excess <= Cardinality(Read) + 1 THEN Excess ELSE Cardinality(Read) + 1
      BY <1>2, LesserOfTwo
    <2>2. Min({Excess, Cardinality(Candidates)}) =
            IF Excess <= Cardinality(Source) + 1 THEN Excess ELSE Cardinality(Source) + 1
      BY <1>2, <1>3, LesserOfTwo
    <2> HIDE DEF n
    <2> QED
      BY <1>2, <1>5, <1>6, <2>1, <2>2
  <1> HIDE DEF S, n
  <1>8. victims' \in SUBSET S /\ Cardinality(victims') = n
    BY <1>1 DEF Weakest, kSubset
  <1>9. ASSUME NEW i \in victims', NEW j \in Candidates \ victims' PROVE Excused(i, j)
    <2>1. CASE j \in S
      BY <1>1, <2>1, ReadIsExcused
    <2>2. CASE j \notin S
      <3>1. j \in Source \ Read /\ victims' \in Weakest(S, Excess)
        BY <1>1, <1>4, <1>7, <2>2 DEF S
      <3> QED
        BY <1>1, <1>3, <1>4, <3>1, UnreadIsExcused
    <2> QED
      BY <2>1, <2>2
  <1> QED
    BY <1>3, <1>7, <1>8, <1>9 DEF AreRight

-----------------------------------------------------------------------------
(* The two passes of an eviction.                                          *)

EvictionInv ==
    /\ EvictionTypeOK
    /\ pass = "old" => ~Flood
    /\ pass = "all" => Flood \/ Cardinality(Old) < Excess
    /\ pass = "done" => AreRight(victims)

LEMMA LimitsAreEnough ==
  ASSUME rows \in Seq(Row), capacity \in Nat, capacity <= Len(rows)
  PROVE  /\ FirstLimits \in [Bands -> Nat]
         /\ \A b \in Bands : FirstLimits[b] >= Excess
  <1>1. Excess \in Nat /\ BAND_DEPTH \in Nat
    BY LenProperties, EvictionAssumption DEF Excess
  <1> QED
    BY <1>1 DEF FirstLimits

LEMMA EvictionInitInvariant ==
  ASSUME EvictionInit
  PROVE  EvictionInv
  <1>1. PICK n \in 1 .. MaxRows : rows \in [1 .. n -> Row]
    BY DEF EvictionInit, Tables
  <1>2. n \in Nat
    BY <1>1, EvictionAssumption
  <1>3. rows \in Seq(Row) /\ Len(rows) \in Nat
    BY <1>1, <1>2, IsASeq, LenProperties
  <1>4. \A i \in DOMAIN rows, j \in DOMAIN rows : i < j => rows[i].idle >= rows[j].idle
    BY DEF EvictionInit, Tables
  <1>5. capacity \in Nat /\ capacity <= Len(rows)
    BY <1>3 DEF EvictionInit
  <1>6. limit \in [Bands -> Nat] /\ \A b \in Bands : limit[b] >= Excess
    BY <1>3, <1>5, LimitsAreEnough DEF EvictionInit
  <1>7. pass = IF Flood THEN "all" ELSE "old"
    BY DEF EvictionInit, StartingPass
  <1> QED
    BY <1>3, <1>4, <1>5, <1>6, <1>7 DEF EvictionInv, EvictionTypeOK

LEMMA SameTable ==
  ASSUME UNCHANGED <<rows, capacity>>
  PROVE  Excess' = Excess /\ Flood' = Flood /\ Old' = Old /\ Listed' = Listed /\ Bands' = Bands
         /\ Candidates' = Candidates /\ Cap' = Cap
  BY DEF Excess, Flood, Old, Listed, Bands, Candidates, Cap

LEMMA VictimsStayRight ==
  ASSUME UNCHANGED <<rows, capacity>>, AreRight(victims')
  PROVE  AreRight(victims)'
  <1>1. \A i, j : Excused(i, j)' <=> Excused(i, j)
    BY SameTable DEF Excused, IsJunk, RankOf, RowOf
  <1> QED
    BY <1>1, SameTable DEF AreRight

LEMMA EvictionNextInvariant ==
  ASSUME EvictionInv, [EvictionNext]_evictionVars
  PROVE  EvictionInv'
  <1>1. UNCHANGED <<rows, capacity>>
    BY DEF EvictionNext, evictionVars, Grow, FinishOld, ReadAll, FinishAll
  <1>2. Excess' = Excess /\ Flood' = Flood /\ Old' = Old /\ Bands' = Bands
    BY <1>1, SameTable
  <1>3. EvictionTypeOK /\ Excess \in Nat /\ Cap \in Nat /\ Cap >= Excess
    BY TableIsFinite DEF EvictionInv
  <1>4. ASSUME limit' \in [Bands -> Nat], \A b \in Bands : limit'[b] >= Excess,
               pass' \in {"old", "all", "done"}
        PROVE  EvictionTypeOK'
    BY <1>1, <1>2, <1>3, <1>4 DEF EvictionTypeOK
  <1>5. CASE Grow
    <2>1. pass' = pass /\ pass # "done"
      BY <1>5 DEF Grow
    <2>2. \A b \in Bands : limit[b] \in Nat /\ limit[b] >= Excess
      BY <1>3 DEF EvictionTypeOK
    <2>3. limit' = [b \in Bands |->
                      IF b \notin ToGrow THEN limit[b]
                      ELSE IF 4 * limit[b] < Cap THEN 4 * limit[b] ELSE Cap]
      BY <1>5 DEF Grow
    <2>4. limit' \in [Bands -> Nat] /\ \A b \in Bands : limit'[b] >= Excess
      <3> SUFFICES ASSUME NEW b \in Bands
                   PROVE  limit'[b] \in Nat /\ limit'[b] >= Excess
        BY <2>3
      <3>1. \/ limit'[b] = limit[b] \/ limit'[b] = 4 * limit[b] \/ limit'[b] = Cap
        BY <2>3
      <3> DEFINE n == limit[b]
      <3>2. n \in Nat /\ n >= Excess
        BY <2>2
      <3> HIDE DEF n
      <3>3. 4 * n \in Nat /\ 4 * n >= Excess
        BY <1>3, <3>2
      <3> QED
        BY <1>3, <3>1, <3>2, <3>3 DEF n
    <2>5. EvictionTypeOK'
      BY <1>3, <1>4, <2>1, <2>4 DEF EvictionTypeOK
    <2> QED
      BY <1>2, <2>1, <2>5 DEF EvictionInv
  <1>6. CASE FinishOld
    <2>1. pass = "old" /\ pass' = "done" /\ limit' = limit /\ ~Flood
      BY <1>6 DEF FinishOld, EvictionInv
    <2>2. AreRight(victims')
      BY <1>3, <1>6, <2>1, OldAreRight
    <2>3. AreRight(victims)'
      BY <1>1, <2>2, VictimsStayRight
    <2>4. EvictionTypeOK'
      BY <1>3, <1>4, <2>1 DEF EvictionTypeOK
    <2> QED
      BY <2>1, <2>3, <2>4 DEF EvictionInv
  <1>7. CASE ReadAll
    <2>1. pass = "old" /\ pass' = "all" /\ limit' = FirstLimits /\ Cardinality(Read) < Excess
      BY <1>7 DEF ReadAll
    <2>2. FirstLimits \in [Bands -> Nat] /\ \A b \in Bands : FirstLimits[b] >= Excess
      BY <1>3, LimitsAreEnough DEF EvictionTypeOK
    <2>3. Source = Old /\ Read \in SUBSET Source /\ Cardinality(Read) \in Nat
      BY <1>3, <2>1, SourceIsFound DEF Source
    <2>4. Read = Old
      <3>1. ASSUME NEW j \in Source \ Read PROVE FALSE
        BY <1>3, <2>1, <2>3, <3>1, NotRead
      <3> QED
        BY <2>3, <3>1
    <2>5. EvictionTypeOK'
      BY <1>4, <2>1, <2>2
    <2> QED
      BY <1>2, <2>1, <2>4, <2>5 DEF EvictionInv
  <1>8. CASE FinishAll
    <2>1. pass = "all" /\ pass' = "done" /\ limit' = limit
          /\ (Flood \/ Cardinality(Old) < Excess)
      BY <1>8 DEF FinishAll, EvictionInv
    <2>2. AreRight(victims')
      BY <1>3, <1>8, <2>1, AllAreRight
    <2>3. AreRight(victims)'
      BY <1>1, <2>2, VictimsStayRight
    <2>4. EvictionTypeOK'
      BY <1>3, <1>4, <2>1 DEF EvictionTypeOK
    <2> QED
      BY <2>1, <2>3, <2>4 DEF EvictionInv
  <1>9. CASE UNCHANGED evictionVars
    <2>1. pass' = pass /\ limit' = limit /\ victims' = victims
      BY <1>9 DEF evictionVars
    <2>2. EvictionTypeOK'
      BY <1>3, <1>4, <2>1 DEF EvictionTypeOK
    <2>3. pass = "done" => AreRight(victims)'
      BY <1>1, <2>1, VictimsStayRight DEF EvictionInv
    <2> QED
      BY <1>2, <2>1, <2>2, <2>3 DEF EvictionInv
  <1> QED
    BY <1>5, <1>6, <1>7, <1>8, <1>9 DEF EvictionNext

LEMMA EvictionInvariance == EvictionSpec => []EvictionInv
  <1>1. EvictionInit => EvictionInv
    BY EvictionInitInvariant
  <1>2. EvictionInv /\ [EvictionNext]_evictionVars => EvictionInv'
    BY EvictionNextInvariant
  <1> QED
    BY <1>1, <1>2, PTL DEF EvictionSpec

\* For every store, capacity and mix of rows that cannot be used: as many go as must, out of
\* those that may (victims of src/src/engine.rs).
THEOREM RightVictims == EvictionSpec => []RightOnesGo
  <1>1. EvictionInv => RightOnesGo
    BY DEF EvictionInv, AreRight, RightOnesGo, Done
  <1> QED
    BY <1>1, EvictionInvariance, PTL

\* And they are the weakest, though the engine read no further than windows of every band: for
\* every rank that grows with the stability and falls with the time since the last recall.
THEOREM WeakestVictims == EvictionSpec => []WeakestGo
  <1>1. EvictionInv => WeakestGo
    BY DEF EvictionInv, AreRight, WeakestGo, Done, Excused
  <1> QED
    BY <1>1, EvictionInvariance, PTL

=============================================================================
