--------------------------- MODULE Recall_proofs ----------------------------
(***************************************************************************)
(* Theorems about what a recall finds and injects, for every number of     *)
(* traces and cues and every setting: the pool, the diversified picks and  *)
(* the pack (Recall), and the local dates it shows them with (Calendar).   *)
(***************************************************************************)
EXTENDS Recall, Calendar, Search_proofs

-----------------------------------------------------------------------------
(* Scores and floors.                                                      *)

Measured ==
    /\ cosine \in [Cues -> [Traces -> CosineRange]]
    /\ weight \in [Traces -> Weights]

LEMMA BestExists ==
  ASSUME Measured, NEW t \in Traces
  PROVE  /\ BestCosine(t) \in CosineRange
         /\ \E q \in Cues : BestCosine(t) = cosine[q][t]
         /\ \A q \in Cues : cosine[q][t] <= BestCosine(t)
  <1> DEFINE T == {cosine[q][t] : q \in Cues}
  <1>1. T \in SUBSET (0 .. MaxCosine) /\ T # {} /\ MaxCosine \in Nat
    BY RecallAssumption DEF Measured, CosineRange
  <1> HIDE DEF T
  <1>2. Max(T) \in T /\ \A x \in T : x <= Max(T)
    BY <1>1, MaxExists
  <1> QED
    BY <1>1, <1>2 DEF T, BestCosine, CosineRange

\* A trace scores at most its activation.
LEMMA ScoreBounds ==
  ASSUME Measured, NEW t \in Traces
  PROVE  /\ Score(t) \in Nat /\ Activation(BestCosine(t)) \in Nat
         /\ Score(t) <= Activation(BestCosine(t))
         /\ Score(t) <= FullWeight * MaxCosine
  <1>1. /\ BestCosine(t) \in Nat /\ BestCosine(t) <= MaxCosine /\ MaxCosine \in Nat
        /\ weight[t] \in Nat /\ weight[t] <= FullWeight /\ FullWeight \in Nat
    <2>1. BestCosine(t) \in 0 .. MaxCosine /\ MaxCosine \in Nat /\ FullWeight \in Nat
      BY BestExists, RecallAssumption DEF CosineRange
    <2>2. weight[t] \in 1 .. FullWeight
      BY RecallAssumption DEF Measured
    <2> QED
      BY <2>1, <2>2
  <1>2. weight[t] * BestCosine(t) <= FullWeight * BestCosine(t)
    BY <1>1, ScaleUp
  <1>3. FullWeight * BestCosine(t) <= FullWeight * MaxCosine
    BY <1>1, ScaleUp
  <1>4. /\ Score(t) = weight[t] * BestCosine(t)
        /\ Activation(BestCosine(t)) = FullWeight * BestCosine(t)
    BY <1>1 DEF Score, Activation
  <1>5. weight[t] * BestCosine(t) \in Nat /\ FullWeight * BestCosine(t) \in Nat
        /\ FullWeight * MaxCosine \in Nat
    BY <1>1
  <1> QED
    BY <1>2, <1>3, <1>4, <1>5

LEMMA TopExists ==
  ASSUME Measured, NEW S \in SUBSET Traces
  PROVE  /\ TopScore(S) \in Nat
         /\ \A t \in S : Score(t) <= TopScore(S)
         /\ TopScore(S) = 0 \/ \E t \in S : Score(t) = TopScore(S)
  <1> DEFINE T == {0} \cup {Score(t) : t \in S}
             n == FullWeight * MaxCosine
  <1>1. n \in Nat
    BY RecallAssumption
  <1>2. \A t \in S : Score(t) \in 0 .. n
    BY <1>1, ScoreBounds
  <1> HIDE DEF n
  <1>3. T \in SUBSET (0 .. n) /\ T # {}
    BY <1>1, <1>2
  <1> HIDE DEF T
  <1>4. Max(T) \in T /\ Max(T) \in Nat /\ \A x \in T : x <= Max(T)
    BY <1>1, <1>3, MaxExists
  <1>5. TopScore(S) = Max(T)
    BY DEF T, TopScore
  <1> QED
    BY <1>4, <1>5 DEF T

\* The floor: what a score needs, and what it means to miss it.
LEMMA FloorMonotone ==
  ASSUME NEW a \in Nat, NEW b \in Nat, NEW m \in Nat, NEW n \in Nat,
         a <= b, n <= m, ReachesFloor(a, m)
  PROVE  ReachesFloor(b, n)
  <1>1. /\ RelativeDen \in Nat /\ RelativeNum \in Nat /\ MinScore \in Nat
    BY RecallAssumption
  <1>2. RelativeDen * a <= RelativeDen * b /\ RelativeNum * n <= RelativeNum * m
        /\ RelativeDen * a \in Nat /\ RelativeNum * n \in Nat
    BY <1>1, ScaleUp
  <1>3. RelativeDen * b \in Nat /\ RelativeNum * m \in Nat
    BY <1>1
  <1>4. a >= MinScore /\ RelativeDen * a >= RelativeNum * m
    BY DEF ReachesFloor
  <1>5. b >= MinScore /\ RelativeDen * b >= RelativeNum * n
    BY <1>1, <1>2, <1>3, <1>4
  <1> QED
    BY <1>5 DEF ReachesFloor

LEMMA MissesFloor ==
  ASSUME NEW a \in Nat, NEW m \in Nat, ~ReachesFloor(a, m)
  PROVE  a < MinScore \/ a < m
  <1>1. /\ RelativeDen \in Nat /\ RelativeNum \in Nat /\ RelativeNum <= RelativeDen
        /\ MinScore \in Nat
    BY RecallAssumption
  <1>2. SUFFICES ASSUME a >= MinScore, a >= m PROVE FALSE
    BY <1>1
  <1>3. RelativeNum * m <= RelativeDen * m /\ RelativeDen * m <= RelativeDen * a
        /\ RelativeNum * m \in Nat /\ RelativeDen * m \in Nat
    BY <1>1, <1>2, ScaleUp
  <1>4. RelativeDen * a \in Nat
    BY <1>1
  <1>5. RelativeDen * a >= RelativeNum * m
    BY <1>3, <1>4
  <1> QED
    BY <1>2, <1>5 DEF ReachesFloor

\* A part of the traces clears the same ones as the whole, when what it leaves out misses
\* the floor of a score that the part reaches.
LEMMA ClearSame ==
  ASSUME Measured, NEW S \in SUBSET Traces, NEW P \in SUBSET S, NEW m \in Nat,
         m >= MinScore /\ m # 0 => \E t \in P : Score(t) >= m,
         \A t \in S \ P : ~ReachesFloor(Score(t), m)
  PROVE  Clear(P) = Clear(S)
  <1>1. /\ TopScore(P) \in Nat /\ TopScore(S) \in Nat /\ MinScore \in Nat
        /\ \A t \in P : Score(t) <= TopScore(P)
        /\ \A t \in S : Score(t) <= TopScore(S)
        /\ TopScore(P) = 0 \/ \E t \in P : Score(t) = TopScore(P)
        /\ TopScore(S) = 0 \/ \E t \in S : Score(t) = TopScore(S)
    BY TopExists, RecallAssumption
  <1>2. \A t \in S : Score(t) \in Nat
    BY ScoreBounds
  <1>3. TopScore(P) <= TopScore(S)
    BY <1>1, <1>2
  <1>4. \A t \in S \ P : Score(t) < MinScore \/ Score(t) < m
    BY <1>2, MissesFloor
  <1>5. CASE m >= MinScore
    <2>1. m <= TopScore(P)
      BY <1>1, <1>2, <1>5
    <2>2. TopScore(P) = TopScore(S)
      BY <1>1, <1>2, <1>3, <1>4, <1>5, <2>1
    <2>3. \A t \in S \ P : ~ReachesFloor(Score(t), TopScore(S))
      BY <1>1, <1>2, <2>1, <2>2, FloorMonotone
    <2> QED
      BY <2>2, <2>3 DEF Clear
  <1>6. CASE m < MinScore
    <2>1. \A t \in S \ P : Score(t) < MinScore
      BY <1>1, <1>2, <1>4, <1>6
    <2>2. CASE TopScore(P) = TopScore(S)
      <3>1. \A t \in S \ P : ~ReachesFloor(Score(t), TopScore(S))
        BY <1>1, <1>2, <2>1 DEF ReachesFloor
      <3> QED
        BY <2>2, <3>1 DEF Clear
    <2>3. CASE TopScore(P) # TopScore(S)
      <3>1. \A t \in S : Score(t) < MinScore
        BY <1>1, <1>2, <1>3, <2>1, <2>3
      <3>2. \A t \in S, top \in {TopScore(P), TopScore(S)} : ~ReachesFloor(Score(t), top)
        BY <1>1, <1>2, <3>1 DEF ReachesFloor
      <3> QED
        BY <3>2 DEF Clear
    <2> QED
      BY <2>2, <2>3
  <1> QED
    BY <1>1, <1>5, <1>6

-----------------------------------------------------------------------------
(* What the searches of a recall find.                                     *)

Nearness(q) == {p \in Traces \X Traces : Nearer(q, p[1], p[2])}

FoundBy(q, cosines) == {t \in Traces : cosine[q][t] \in cosines}

LEMMA TracesAreNumbers ==
  /\ Traces \in SUBSET Nat /\ IsFiniteSet(Traces) /\ Cardinality(Traces) \in Nat
  /\ K \in Nat /\ K # 0
  <1>1. IsFiniteSet(Traces) /\ Cardinality(Traces) \in Nat
    BY RecallAssumption, FS_CardinalityType
  <1>2. Traces = 1 .. Cardinality(Traces)
    BY RecallAssumption
  <1>3. PoolFactor \in Nat /\ PoolFactor # 0 /\ InjectN \in Nat /\ InjectN # 0
    BY RecallAssumption
  <1> QED
    BY <1>1, <1>2, <1>3 DEF K

LEMMA NearnessOrders ==
  ASSUME Measured, NEW q \in Cues
  PROVE  Orders(Nearness(q), Traces)
  <1>1. \A t \in Traces : t \in Nat /\ cosine[q][t] \in Nat
    BY TracesAreNumbers, RecallAssumption DEF Measured, CosineRange
  <1>2. \A t \in Traces, u \in Traces : <<t, u>> \in Nearness(q) <=> Nearer(q, t, u)
    BY DEF Nearness
  <1>3. ASSUME NEW t \in Traces, NEW u \in Traces, Nearer(q, t, u) PROVE ~Nearer(q, u, t)
    BY <1>1, <1>3 DEF Nearer
  <1>4. ASSUME NEW t \in Traces, NEW u \in Traces, NEW v \in Traces,
               Nearer(q, t, u), Nearer(q, u, v)
        PROVE  Nearer(q, t, v)
    BY <1>1, <1>4 DEF Nearer
  <1>5. ASSUME NEW t \in Traces, NEW u \in Traces, t # u
        PROVE  Nearer(q, t, u) \/ Nearer(q, u, t)
    BY <1>1, <1>5 DEF Nearer
  <1> QED
    BY <1>2, <1>3, <1>4, <1>5 DEF Orders

LEMMA NearIsFirst ==
  ASSUME Measured, NEW q \in Cues, NEW cosines, NEW k \in Nat
  PROVE  /\ Near(q, cosines, k) = First(Nearness(q), FoundBy(q, cosines), k)
         /\ Orders(Nearness(q), FoundBy(q, cosines))
         /\ IsFiniteSet(FoundBy(q, cosines))
         /\ Cardinality(FoundBy(q, cosines)) <= Cardinality(Traces)
  <1> DEFINE found == FoundBy(q, cosines)
  <1>1. found \in SUBSET Traces
    BY DEF FoundBy
  <1>2. \A t \in found : Earlier(Nearness(q), found, t) = {u \in found : Nearer(q, u, t)}
    BY <1>1 DEF Earlier, Nearness
  <1>3. Near(q, cosines, k) = First(Nearness(q), found, k)
    BY <1>2 DEF Near, FoundBy, First
  <1> QED
    BY <1>1, <1>3, NearnessOrders, OrdersPart, TracesAreNumbers, FS_Subset

\* A trace that a cue finds but does not return is no nearer than any that it returns.
LEMMA NotReturned ==
  ASSUME Measured, NEW q \in Cues, NEW cosines, NEW k \in Nat, k # 0,
         NEW t \in FoundBy(q, cosines), t \notin Near(q, cosines, k)
  PROVE  /\ k < Cardinality(Traces)
         /\ \E m \in Kths(cosines, k) : cosine[q][t] <= m
  <1> DEFINE near == Near(q, cosines, k)
             found == FoundBy(q, cosines)
             B == Nearness(q)
  <1>1. /\ near = First(B, found, k) /\ Orders(B, found) /\ IsFiniteSet(found)
        /\ Cardinality(found) <= Cardinality(Traces)
    BY NearIsFirst
  <1>n. Cardinality(found) \in Nat /\ Cardinality(Traces) \in Nat
    BY <1>1, FS_CardinalityType, TracesAreNumbers
  <1> HIDE DEF B
  <1>2. Cardinality(near) = k /\ near \subseteq Earlier(B, found, t)
    BY <1>1, LeftOut
  <1>3. k < Cardinality(Traces)
    <2>1. ~(Cardinality(found) <= k)
      BY <1>1, FirstOfFew
    <2> QED
      BY <1>1, <1>n, <2>1
  <1>4. \A u \in near : u \in Traces /\ Nearer(q, u, t)
    BY <1>2 DEF Earlier, Nearness, B, FoundBy
  <1>5. \A u \in Traces : cosine[q][u] \in Nat
    BY RecallAssumption DEF Measured, CosineRange
  <1>6. near # {}
    BY <1>2, FS_EmptySet
  <1> DEFINE values == {cosine[q][u] : u \in near}
  <1> HIDE DEF near, found
  <1>7. values \in SUBSET Nat /\ values # {}
    BY <1>4, <1>5, <1>6
  <1> HIDE DEF values
  <1>8. Min(values) \in values
    BY <1>7, MinExists
  <1>9. t \in Traces
    BY DEF FoundBy
  <1>10. cosine[q][t] <= Min(values)
    BY <1>4, <1>5, <1>8, <1>9 DEF Nearer, values
  <1>11. Min(values) \in Kths(cosines, k)
    BY <1>2 DEF Kths, values, near
  <1> QED
    BY <1>3, <1>10, <1>11

LEMMA KthsAreCosines ==
  ASSUME Measured, NEW cosines, NEW k \in Nat, k # 0
  PROVE  Kths(cosines, k) \in SUBSET CosineRange
  <1> SUFFICES ASSUME NEW q \in Cues, Cardinality(Near(q, cosines, k)) = k
               PROVE  Min({cosine[q][t] : t \in Near(q, cosines, k)}) \in CosineRange
    BY DEF Kths
  <1> DEFINE values == {cosine[q][t] : t \in Near(q, cosines, k)}
  <1>1. Near(q, cosines, k) # {} /\ Near(q, cosines, k) \subseteq Traces
    BY FS_EmptySet DEF Near
  <1>2. values \in SUBSET CosineRange /\ values # {}
    BY <1>1 DEF Measured
  <1> HIDE DEF values
  <1>3. values \in SUBSET Nat
    BY <1>2, RecallAssumption DEF CosineRange
  <1>4. Min(values) \in values
    BY <1>2, <1>3, MinExists
  <1> QED
    BY <1>2, <1>4 DEF values

-----------------------------------------------------------------------------
(* The pool.                                                               *)

Findable == {t \in Traces : Activation(BestCosine(t)) >= MinScore}

FirstHits == Hits(FirstCosines, K)

FloorCosines(top) == {c \in CosineRange : ReachesFloor(Activation(c), top)}

LEMMA ActivationGrows ==
  ASSUME NEW a \in CosineRange, NEW b \in CosineRange, a <= b
  PROVE  Activation(a) \in Nat /\ Activation(b) \in Nat /\ Activation(a) <= Activation(b)
  <1>1. a \in Nat /\ b \in Nat /\ FullWeight \in Nat
    BY RecallAssumption DEF CosineRange
  <1>2. FullWeight * a <= FullWeight * b /\ FullWeight * a \in Nat /\ FullWeight * b \in Nat
    BY <1>1, ScaleUp
  <1> QED
    BY <1>2 DEF Activation

LEMMA HitsAreFindable ==
  ASSUME Measured
  PROVE  FirstHits \subseteq Findable
  <1> SUFFICES ASSUME NEW q \in Cues, NEW t \in Near(q, FirstCosines, K) PROVE t \in Findable
    BY DEF FirstHits, Hits
  <1>1. t \in Traces /\ cosine[q][t] \in FirstCosines
    BY DEF Near
  <1>2. /\ cosine[q][t] \in CosineRange /\ BestCosine(t) \in CosineRange
        /\ cosine[q][t] <= BestCosine(t) /\ Activation(cosine[q][t]) >= MinScore
    BY <1>1, BestExists DEF FirstCosines
  <1>3. Activation(BestCosine(t)) >= MinScore
    BY <1>2, ActivationGrows, RecallAssumption
  <1> QED
    BY <1>1, <1>3 DEF Findable

\* When the first searches say so, they have found all that clears the floor.
LEMMA FirstPassIsExact ==
  ASSUME Measured, AllSeen(FirstHits, Kths(FirstCosines, K))
  PROVE  Clear(FirstHits) = TruePool
  <1> DEFINE top == TopScore(FirstHits)
             kths == Kths(FirstCosines, K)
  <1>1. FirstHits \in SUBSET Findable /\ Findable \in SUBSET Traces
    BY HitsAreFindable DEF Findable
  <1>2. top \in Nat /\ (top = 0 \/ \E t \in FirstHits : Score(t) = top)
    BY <1>1, TopExists
  <1>3. ASSUME NEW t \in Findable \ FirstHits PROVE ~ReachesFloor(Score(t), top)
    <2>1. t \in Traces /\ Activation(BestCosine(t)) >= MinScore
      BY <1>3 DEF Findable
    <2>2. PICK q \in Cues : BestCosine(t) = cosine[q][t]
      BY <2>1, BestExists
    <2>3. BestCosine(t) \in CosineRange
      BY <2>1, BestExists
    <2>4. t \in FoundBy(q, FirstCosines)
      BY <2>1, <2>2, <2>3 DEF FoundBy, FirstCosines
    <2>5. t \notin Near(q, FirstCosines, K)
      BY <1>3 DEF FirstHits, Hits
    <2>6. /\ K < Cardinality(Traces)
          /\ \E m \in kths : cosine[q][t] <= m
      BY <2>4, <2>5, NotReturned, TracesAreNumbers
    <2>7. kths \in SUBSET (0 .. MaxCosine) /\ MaxCosine \in Nat
      BY KthsAreCosines, TracesAreNumbers, RecallAssumption DEF CosineRange
    <2> HIDE DEF kths
    <2>8. Max(kths) \in kths /\ Max(kths) \in Nat /\ \A m \in kths : m <= Max(kths)
      BY <2>6, <2>7, MaxExists
    <2>9. Max(kths) \in CosineRange /\ BestCosine(t) <= Max(kths)
      BY <2>2, <2>3, <2>6, <2>7, <2>8 DEF CosineRange
    <2>10. /\ Activation(Max(kths)) \in Nat
           /\ Activation(BestCosine(t)) <= Activation(Max(kths))
      BY <2>3, <2>9, ActivationGrows
    <2>11. ~ReachesFloor(Activation(Max(kths)), top)
      BY <2>6, TracesAreNumbers DEF AllSeen, kths
    <2>12. Score(t) \in Nat /\ Activation(BestCosine(t)) \in Nat
           /\ Score(t) <= Activation(Max(kths))
      BY <2>1, <2>10, ScoreBounds
    <2> HIDE DEF top
    <2> QED
      BY <1>2, <2>10, <2>11, <2>12, FloorMonotone
  <1> HIDE DEF top
  <1>4. Clear(FirstHits) = Clear(Findable)
    BY <1>1, <1>2, <1>3, ClearSame
  <1> QED
    BY <1>4 DEF TruePool, Findable

\* The second searches find every trace whose best cosine could clear the floor.
LEMMA SecondHits ==
  ASSUME Measured, NEW top \in Nat
  PROVE  Hits(FloorCosines(top), Max({K, Cardinality(Traces)})) =
            {t \in Traces : ReachesFloor(Activation(BestCosine(t)), top)}
  <1> DEFINE k == Max({K, Cardinality(Traces)})
             cosines == FloorCosines(top)
  <1>1. k \in Nat /\ Cardinality(Traces) <= k /\ Cardinality(Traces) \in Nat
    <2> DEFINE T == {K, Cardinality(Traces)}
               n == K + Cardinality(Traces)
    <2>1. n \in Nat /\ T \in SUBSET (0 .. n) /\ T # {}
      BY TracesAreNumbers
    <2> HIDE DEF T, n
    <2>2. Max(T) \in Nat /\ \A x \in T : x <= Max(T)
      BY <2>1, MaxExists
    <2> QED
      BY <2>2, TracesAreNumbers DEF T
  <1> HIDE DEF k
  <1>2. ASSUME NEW q \in Cues PROVE Near(q, cosines, k) = FoundBy(q, cosines)
    <2>1. /\ Near(q, cosines, k) = First(Nearness(q), FoundBy(q, cosines), k)
          /\ Orders(Nearness(q), FoundBy(q, cosines)) /\ IsFiniteSet(FoundBy(q, cosines))
          /\ Cardinality(FoundBy(q, cosines)) <= Cardinality(Traces)
      BY <1>1, NearIsFirst
    <2>2. Cardinality(FoundBy(q, cosines)) <= k
      BY <1>1, <2>1, FS_CardinalityType
    <2> QED
      BY <1>1, <2>1, <2>2, FirstOfFew
  <1>3. Hits(cosines, k) = UNION {FoundBy(q, cosines) : q \in Cues}
    BY <1>2 DEF Hits
  <1>4. ASSUME NEW q \in Cues, NEW t \in FoundBy(q, cosines)
        PROVE  t \in Traces /\ ReachesFloor(Activation(BestCosine(t)), top)
    <2>1. /\ t \in Traces /\ cosine[q][t] \in CosineRange
          /\ ReachesFloor(Activation(cosine[q][t]), top)
      BY <1>4 DEF FoundBy, FloorCosines
    <2>2. BestCosine(t) \in CosineRange /\ cosine[q][t] <= BestCosine(t)
      BY <2>1, BestExists
    <2> QED
      BY <2>1, <2>2, ActivationGrows, FloorMonotone
  <1>5. ASSUME NEW t \in Traces, ReachesFloor(Activation(BestCosine(t)), top)
        PROVE  \E q \in Cues : t \in FoundBy(q, cosines)
    <2>1. PICK q \in Cues : BestCosine(t) = cosine[q][t]
      BY BestExists
    <2>2. BestCosine(t) \in cosines
      BY <1>5, BestExists DEF FloorCosines
    <2> QED
      BY <2>1, <2>2 DEF FoundBy
  <1> QED
    BY <1>3, <1>4, <1>5 DEF k

LEMMA SecondPassIsExact ==
  ASSUME Measured
  PROVE  Clear(Hits(FloorCosines(TopScore(FirstHits)), Max({K, Cardinality(Traces)})))
            = TruePool
  <1> DEFINE top == TopScore(FirstHits)
             seen == {t \in Traces : ReachesFloor(Activation(BestCosine(t)), top)}
  <1>1. FirstHits \in SUBSET Findable /\ Findable \in SUBSET Traces
    BY HitsAreFindable DEF Findable
  <1>2. top \in Nat /\ (top = 0 \/ \E t \in FirstHits : Score(t) = top)
    BY <1>1, TopExists
  <1>3. seen \in SUBSET Findable
    BY DEF Findable, ReachesFloor
  <1> HIDE DEF top
  <1>4. ASSUME top >= MinScore, top # 0 PROVE \E t \in seen : Score(t) >= top
    <2>1. PICK t \in FirstHits : Score(t) = top
      BY <1>2, <1>4
    <2>2. t \in Traces /\ Activation(BestCosine(t)) \in Nat
          /\ top <= Activation(BestCosine(t))
      BY <1>1, <2>1, ScoreBounds
    <2>3. RelativeDen \in Nat /\ RelativeNum \in Nat /\ RelativeNum <= RelativeDen
      BY RecallAssumption
    <2>4. RelativeNum * top <= RelativeDen * top /\ RelativeDen * top \in Nat
          /\ RelativeNum * top \in Nat
      BY <1>2, <2>3, ScaleUp
    <2>5. ReachesFloor(top, top)
      BY <1>4, <2>4 DEF ReachesFloor
    <2>6. t \in seen
      BY <1>2, <2>2, <2>5, FloorMonotone
    <2> QED
      BY <1>2, <2>1, <2>6
  <1>5. ASSUME NEW t \in Findable \ seen PROVE ~ReachesFloor(Score(t), top)
    <2>1. t \in Traces /\ ~ReachesFloor(Activation(BestCosine(t)), top)
      BY <1>1, <1>5
    <2> QED
      BY <1>2, <2>1, ScoreBounds, FloorMonotone
  <1>6. Hits(FloorCosines(top), Max({K, Cardinality(Traces)})) = seen
    BY <1>2, SecondHits
  <1> HIDE DEF seen
  <1>7. Clear(seen) = Clear(Findable)
    BY <1>1, <1>2, <1>3, <1>4, <1>5, ClearSame
  <1> QED
    BY <1>6, <1>7 DEF TruePool, Findable, top

-----------------------------------------------------------------------------
(* The length of a pack.                                                   *)

Sizes(f, lines) ==
    f = [n \in 0 .. Len(lines) |-> IF n = 0 THEN 0 ELSE f[n - 1] + LineLength[lines[n]]]

LEMMA LengthIsLastSize ==
  ASSUME NEW lines \in Seq(Traces)
  PROVE  \E f : Sizes(f, lines) /\ LengthOf(lines) = f[Len(lines)]
  <1> DEFINE unsized == {n \in Nat : \E s \in Seq(Traces) : Len(s) = n /\ ~ \E f : Sizes(f, s)}
  <1>1. ASSUME unsized # {} PROVE FALSE
    <2>1. PICK n \in unsized : \A m \in unsized : n <= m
      BY <1>1, LeastNumber
    <2>2. PICK s \in Seq(Traces) : Len(s) = n /\ ~ \E f : Sizes(f, s)
      BY <2>1
    <2>3. CASE n = 0
      <3> DEFINE f == [k \in 0 .. 0 |-> 0]
      <3>1. Sizes(f, s)
        BY <2>2, <2>3 DEF Sizes
      <3> QED
        BY <2>2, <3>1
    <2>4. CASE n # 0
      <3> DEFINE front == [i \in 1 .. n - 1 |-> s[i]]
      <3>1. n - 1 \in Nat /\ n \in Nat /\ n - 1 < n
        BY <2>1, <2>4
      <3>2. \A i \in 1 .. n - 1 : s[i] \in Traces
        BY <2>2, <3>1, ElementOfSeq
      <3>3. front \in Seq(Traces) /\ Len(front) = n - 1 /\ \A i \in 1 .. n - 1 : front[i] = s[i]
        BY <3>1, <3>2, IsASeq, LenProperties
      <3> HIDE DEF front
      <3>4. PICK g : Sizes(g, front)
        BY <2>1, <3>1, <3>3
      <3> DEFINE f == [k \in 0 .. n |-> IF k = n THEN g[n - 1] + LineLength[s[n]] ELSE g[k]]
      <3>5. \A k \in 0 .. n - 1 : g[k] = IF k = 0 THEN 0 ELSE g[k - 1] + LineLength[s[k]]
        BY <3>1, <3>3, <3>4 DEF Sizes
      <3>6. ASSUME NEW k \in 0 .. n
            PROVE  f[k] = IF k = 0 THEN 0 ELSE f[k - 1] + LineLength[s[k]]
        BY <2>4, <3>1, <3>5
      <3>7. f = [k \in 0 .. n |-> IF k = 0 THEN 0 ELSE f[k - 1] + LineLength[s[k]]]
        BY <3>6
      <3> QED
        BY <2>2, <3>7 DEF Sizes
    <2> QED
      BY <2>3, <2>4
  <1>2. Len(lines) \in Nat
    BY LenProperties
  <1>3. \E f : Sizes(f, lines)
    BY <1>1, <1>2
  <1> QED
    BY <1>3 DEF Sizes, LengthOf

LEMMA LengthOfNone == LengthOf(<<>>) = 0
  <1>1. PICK f : Sizes(f, <<>>) /\ LengthOf(<<>>) = f[Len(<<>>)]
    BY EmptySeq, LengthIsLastSize
  <1> QED
    BY <1>1 DEF Sizes

LEMMA LengthOfAppend ==
  ASSUME NEW lines \in Seq(Traces), NEW t \in Traces
  PROVE  LengthOf(Append(lines, t)) = LengthOf(lines) + LineLength[t]
  <1> DEFINE more == Append(lines, t)
             n == Len(lines)
  <1>1. /\ more \in Seq(Traces) /\ Len(more) = n + 1 /\ n \in Nat /\ more[n + 1] = t
        /\ \A i \in 1 .. n : more[i] = lines[i]
    BY AppendProperties, LenProperties
  <1> HIDE DEF more
  <1>2. PICK g : Sizes(g, lines) /\ LengthOf(lines) = g[n]
    BY LengthIsLastSize
  <1>3. PICK f : Sizes(f, more) /\ LengthOf(more) = f[n + 1]
    BY <1>1, LengthIsLastSize
  <1> HIDE DEF n
  <1>4. /\ \A k \in 0 .. n : g[k] = IF k = 0 THEN 0 ELSE g[k - 1] + LineLength[lines[k]]
        /\ \A k \in 0 .. n + 1 : f[k] = IF k = 0 THEN 0 ELSE f[k - 1] + LineLength[more[k]]
    BY <1>1, <1>2, <1>3 DEF Sizes, n
  <1> DEFINE apart == {k \in Nat : k <= n /\ f[k] # g[k]}
  <1>5. ASSUME apart # {} PROVE FALSE
    <2>1. PICK k \in apart : \A m \in apart : k <= m
      BY <1>5, LeastNumber
    <2>2. k # 0
      BY <1>1, <1>4, <2>1
    <2>3. k - 1 \in Nat /\ k - 1 <= n /\ ~(k <= k - 1) /\ k \in 1 .. n
      BY <1>1, <2>1, <2>2
    <2>4. f[k - 1] = g[k - 1]
      BY <2>1, <2>3
    <2>5. f[k] = f[k - 1] + LineLength[more[k]] /\ g[k] = g[k - 1] + LineLength[lines[k]]
      BY <1>1, <1>4, <2>2, <2>3
    <2> QED
      BY <1>1, <2>1, <2>3, <2>4, <2>5
  <1>6. f[n] = g[n]
    BY <1>1, <1>5
  <1>7. f[n + 1] = f[n] + LineLength[t]
    <2>1. n + 1 \in 0 .. n + 1 /\ n + 1 # 0 /\ n + 1 - 1 = n
      BY <1>1
    <2> QED
      BY <1>1, <1>4, <2>1
  <1> QED
    BY <1>2, <1>3, <1>6, <1>7 DEF more

-----------------------------------------------------------------------------
(* The pool of a recall.                                                   *)

PoolInv ==
    /\ Measured
    /\ pool \subseteq Traces
    /\ phase = "second" => pool = FirstHits
    /\ PoolIsExact

LEMMA SameMeasures ==
  ASSUME Measured, UNCHANGED <<cosine, weight>>
  PROVE  /\ Measured' /\ FirstHits' = FirstHits /\ TruePool' = TruePool
         /\ \A t : Score(t)' = Score(t)
  <1>1. Measured'
    BY DEF Measured
  <1>2. FirstHits' = FirstHits
    BY DEF FirstHits, Hits, Near, Nearer
  <1>3. \A t : BestCosine(t)' = BestCosine(t)
    BY DEF BestCosine
  <1>4. \A t : Score(t)' = Score(t)
    BY <1>3 DEF Score
  <1>5. TruePool' = TruePool
    BY <1>3, <1>4 DEF TruePool, Clear, TopScore
  <1> QED
    BY <1>1, <1>2, <1>4, <1>5

LEMMA ClearIsPart ==
  ASSUME NEW S
  PROVE  Clear(S) \subseteq S
  BY DEF Clear

LEMMA HitsAreTraces ==
  ASSUME NEW cosines, NEW k
  PROVE  Hits(cosines, k) \subseteq Traces
  BY DEF Hits, Near

LEMMA PoolInit ==
  ASSUME Init
  PROVE  PoolInv
  BY DEF Init, PoolInv, Measured, PoolIsExact

LEMMA PoolNext ==
  ASSUME PoolInv, [Next]_vars
  PROVE  PoolInv'
  <1>1. Measured /\ UNCHANGED <<cosine, weight>>
    BY DEF PoolInv, Next, vars, Offline, FirstPass, SecondPass, Pick, Finish
  <1>2. Measured' /\ FirstHits' = FirstHits /\ TruePool' = TruePool
    BY <1>1, SameMeasures
  <1>3. SUFFICES /\ pool' \subseteq Traces
                 /\ phase' = "second" => pool' = FirstHits
                 /\ phase' \in {"pick", "done"} => pool' = TruePool
    BY <1>2 DEF PoolInv, PoolIsExact
  <1>4. /\ pool \subseteq Traces
        /\ phase = "second" => pool = FirstHits
        /\ phase \in {"pick", "done"} => pool = TruePool
    BY DEF PoolInv, PoolIsExact
  <1>5. CASE FirstPass
    <2>1. FirstHits \subseteq Traces /\ Clear(FirstHits) \subseteq FirstHits
      BY HitsAreTraces, ClearIsPart DEF FirstHits
    <2>2. CASE AllSeen(FirstHits, Kths(FirstCosines, K))
      <3>1. Clear(FirstHits) = TruePool
        BY <1>1, <2>2, FirstPassIsExact
      <3>2. phase' = "pick" /\ pool' = Clear(FirstHits)
        BY <1>5, <2>2 DEF FirstPass, FirstHits
      <3> QED
        BY <2>1, <3>1, <3>2
    <2>3. CASE ~AllSeen(FirstHits, Kths(FirstCosines, K))
      <3>1. phase' = "second" /\ pool' = FirstHits
        BY <1>5, <2>3 DEF FirstPass, FirstHits
      <3> QED
        BY <2>1, <3>1
    <2> QED
      BY <2>2, <2>3
  <1>6. CASE SecondPass
    <2> DEFINE seen == Hits(FloorCosines(TopScore(FirstHits)), Max({K, Cardinality(Traces)}))
    <2>1. pool = FirstHits
      BY <1>4, <1>6 DEF SecondPass
    <2>2. phase' = "pick" /\ pool' = Clear(seen)
      BY <1>6, <2>1 DEF SecondPass, FloorCosines
    <2>3. Clear(seen) = TruePool
      BY <1>1, SecondPassIsExact
    <2>4. seen \subseteq Traces
      BY HitsAreTraces
    <2> HIDE DEF seen
    <2>5. Clear(seen) \subseteq seen
      BY ClearIsPart
    <2> QED
      BY <2>2, <2>3, <2>4, <2>5
  <1>7. CASE Offline
    BY <1>4, <1>7 DEF Offline
  <1>8. CASE Pick
    BY <1>4, <1>8 DEF Pick
  <1>9. CASE Finish
    BY <1>4, <1>9 DEF Finish
  <1>10. CASE UNCHANGED vars
    BY <1>4, <1>10 DEF vars
  <1> QED
    BY <1>5, <1>6, <1>7, <1>8, <1>9, <1>10 DEF Next

LEMMA PoolInvariance == Spec => []PoolInv
  <1>1. Init => PoolInv
    BY PoolInit
  <1>2. PoolInv /\ [Next]_vars => PoolInv'
    BY PoolNext
  <1> QED
    BY <1>1, <1>2, PTL DEF Spec

\* The pool is what a search over every trace would keep, though each cue returned only its
\* nearest: whatever the cosines, the weights and the floors (pool of src/src/engine.rs).
THEOREM PoolIsWhole == Spec => []PoolIsExact
  <1>1. PoolInv => PoolIsExact
    BY DEF PoolInv
  <1> QED
    BY <1>1, PoolInvariance, PTL

-----------------------------------------------------------------------------
(* The picks of a recall.                                                  *)

\* The likeness of a trace to the picked ones, and what maxSim says of it.
Likenesses(t) == {0} \cup {Similarity[t][u] : u \in InSeq(picked)}

Likest(t) ==
    /\ maxSim[t] \in Likenesses(t)
    /\ \A x \in Likenesses(t) : x <= maxSim[t]

PickInv ==
    /\ PoolInv
    /\ picked \in Seq(Traces)
    /\ phase \in {"start", "second"} => picked = <<>>
    /\ maxSim \in [Traces -> Nat]
    /\ \A t \in Traces : Likest(t)

LEMMA InSeqIsPart ==
  ASSUME NEW S, NEW s \in Seq(S)
  PROVE  InSeq(s) \subseteq S
  BY ElementOfSeq, LenProperties DEF InSeq

LEMMA InSeqAppend ==
  ASSUME NEW S, NEW s \in Seq(S), NEW t \in S
  PROVE  /\ Append(s, t) \in Seq(S) /\ Len(Append(s, t)) = Len(s) + 1
         /\ Append(s, t)[Len(s) + 1] = t
         /\ \A i \in 1 .. Len(s) : Append(s, t)[i] = s[i]
         /\ InSeq(Append(s, t)) = InSeq(s) \cup {t}
  <1>1. /\ Append(s, t) \in Seq(S) /\ Len(Append(s, t)) = Len(s) + 1
        /\ Append(s, t)[Len(s) + 1] = t
        /\ \A i \in 1 .. Len(s) : Append(s, t)[i] = s[i]
        /\ DOMAIN Append(s, t) = 1 .. Len(s) + 1 /\ DOMAIN s = 1 .. Len(s) /\ Len(s) \in Nat
    BY AppendProperties, LenProperties
  <1> DEFINE more == Append(s, t)
             n == Len(s)
  <1>2. /\ DOMAIN more = (1 .. n) \cup {n + 1} /\ DOMAIN s = 1 .. n
        /\ more[n + 1] = t
        /\ \A i \in 1 .. n : more[i] = s[i]
    BY <1>1
  <1> HIDE DEF more, n
  <1>3. InSeq(more) = InSeq(s) \cup {t}
    BY <1>2 DEF InSeq
  <1> QED
    BY <1>1, <1>3 DEF more

LEMMA LikenessesAreNumbers ==
  ASSUME PickInv, NEW t \in Traces
  PROVE  Likenesses(t) \subseteq Nat
  BY InSeqIsPart, RecallAssumption DEF PickInv, Likenesses

LEMMA LikestIsMax ==
  ASSUME PickInv, NEW t \in Traces
  PROVE  maxSim[t] = Max({0} \cup {Similarity[t][u] : u \in InSeq(picked)})
  <1>1. Likenesses(t) \in SUBSET Nat
    BY LikenessesAreNumbers
  <1>2. maxSim[t] \in Likenesses(t) /\ \A x \in Likenesses(t) : x <= maxSim[t]
    BY DEF PickInv, Likest
  <1>3. Max(Likenesses(t)) = maxSim[t]
    BY <1>1, <1>2, MaxEquals
  <1> QED
    BY <1>3 DEF Likenesses

LEMMA EmptyInSeq == InSeq(<<>>) = {}
  BY DEF InSeq

LEMMA PickInit ==
  ASSUME Init
  PROVE  PickInv
  <1>1. /\ picked = <<>> /\ maxSim = [t \in Traces |-> 0] /\ PoolInv
    BY PoolInit DEF Init
  <1>2. \A t \in Traces : Likest(t)
    BY <1>1, EmptyInSeq DEF Likest, Likenesses
  <1> QED
    BY <1>1, <1>2, EmptySeq DEF PickInv

\* A pick takes the most valuable of those left, and brings the likenesses up to date.
LEMMA PickKeeps ==
  ASSUME PickInv, Pick
  PROVE  /\ picked' \in Seq(Traces) /\ maxSim' \in [Traces -> Nat]
         /\ \A t \in Traces : Likest(t)'
  <1>1. PICK t \in Traces :
          /\ picked' = Append(picked, t)
          /\ maxSim' = [u \in Traces |->
                IF maxSim[u] < Similarity[u][t] THEN Similarity[u][t] ELSE maxSim[u]]
    BY DEF Pick
  <1>2. picked' \in Seq(Traces) /\ InSeq(picked') = InSeq(picked) \cup {t}
    BY <1>1, InSeqAppend DEF PickInv
  <1>3. \A u \in Traces : maxSim[u] \in Nat /\ Similarity[u][t] \in Nat
    BY RecallAssumption DEF PickInv
  <1>4. maxSim' \in [Traces -> Nat]
    BY <1>1, <1>3
  <1>5. ASSUME NEW u \in Traces PROVE Likest(u)'
    <2>1. Likenesses(u)' = Likenesses(u) \cup {Similarity[u][t]}
      BY <1>2 DEF Likenesses
    <2>2. Likenesses(u) \subseteq Nat
      BY LikenessesAreNumbers
    <2>3. maxSim[u] \in Likenesses(u) /\ \A x \in Likenesses(u) : x <= maxSim[u]
      BY DEF PickInv, Likest
    <2>4. maxSim'[u] = IF maxSim[u] < Similarity[u][t] THEN Similarity[u][t] ELSE maxSim[u]
      BY <1>1
    <2> DEFINE now == Likenesses(u)
               next == Likenesses(u)'
    <2>5. next = now \cup {Similarity[u][t]} /\ now \subseteq Nat
          /\ maxSim[u] \in now /\ \A x \in now : x <= maxSim[u]
      BY <2>1, <2>2, <2>3
    <2> HIDE DEF now, next
    <2> DEFINE old == maxSim[u]
               new == Similarity[u][t]
    <2>n. old \in Nat /\ new \in Nat /\ maxSim'[u] = IF old < new THEN new ELSE old
      BY <1>3, <2>4
    <2>m. next = now \cup {new} /\ now \subseteq Nat /\ old \in now /\ \A x \in now : x <= old
      BY <2>5
    <2> HIDE DEF old, new
    <2>6. maxSim'[u] \in next /\ \A x \in next : x <= maxSim'[u]
      BY <2>n, <2>m
    <2> QED
      BY <2>6 DEF Likest, next
  <1> QED
    BY <1>2, <1>4, <1>5

LEMMA PickNext ==
  ASSUME PickInv, [Next]_vars
  PROVE  PickInv'
  <1>1. PoolInv'
    BY PoolNext DEF PickInv
  <1>2. CASE Pick
    <2>1. phase' = "pick"
      BY <1>2 DEF Pick
    <2> QED
      BY <1>1, <1>2, <2>1, PickKeeps DEF PickInv
  <1>3. CASE UNCHANGED <<picked, maxSim>> /\ (phase' = phase \/ phase' \notin {"start", "second"} \/ phase = "start")
    <2>1. \A t \in Traces : Likest(t)'
      BY <1>3 DEF PickInv, Likest, Likenesses
    <2> QED
      BY <1>1, <1>3, <2>1 DEF PickInv
  <1>4. CASE Offline \/ FirstPass \/ SecondPass \/ Finish \/ UNCHANGED vars
    <2>1. UNCHANGED <<picked, maxSim>>
      BY <1>4 DEF Offline, FirstPass, SecondPass, Finish, vars
    <2>2. phase' = phase \/ phase' \notin {"start", "second"} \/ phase = "start"
      BY <1>4 DEF Offline, FirstPass, SecondPass, Finish, vars
    <2> QED
      BY <1>3, <2>1, <2>2
  <1> QED
    BY <1>2, <1>4 DEF Next

LEMMA PickInvariance == Spec => []PickInv
  <1>1. Init => PickInv
    BY PickInit
  <1>2. PickInv /\ [Next]_vars => PickInv'
    BY PickNext
  <1> QED
    BY <1>1, <1>2, PTL DEF Spec

Worth(t) == Score(t) - MmrLambda * Max({0} \cup {Similarity[t][u] : u \in InSeq(picked)})

LEMMA PickIsFavourite ==
  ASSUME PickInv, Pick
  PROVE  \A t \in pool \ InSeq(picked) : Worth(picked'[Len(picked')]) >= Worth(t)
  <1>1. PICK t \in Traces : Favourite(t) /\ picked' = Append(picked, t)
    BY DEF Pick
  <1>2. picked'[Len(picked')] = t
    BY <1>1, InSeqAppend DEF PickInv
  <1>3. \A u \in Traces : Worth(u) = Value(u) /\ Value(u) \in Int
    <2> TAKE u \in Traces
    <2>1. Worth(u) = Value(u)
      BY LikestIsMax DEF Worth, Value
    <2>2. Score(u) \in Nat
      BY ScoreBounds DEF PickInv, PoolInv
    <2>3. MmrLambda * maxSim[u] \in Nat
      <3>1. MmrLambda \in Nat /\ maxSim[u] \in Nat
        BY RecallAssumption DEF PickInv
      <3> QED
        BY <3>1
    <2> QED
      BY <2>1, <2>2, <2>3 DEF Value
  <1>4. \A u \in Alive : Value(t) > Value(u) \/ Value(t) = Value(u)
    BY <1>1 DEF Favourite
  <1>5. Alive = pool \ InSeq(picked) /\ pool \subseteq Traces
    BY DEF Alive, PickInv, PoolInv
  <1> QED
    BY <1>2, <1>3, <1>4, <1>5

\* Whatever the likenesses, every pick is worth most of what is left, less its likeness to
\* the nearest of all picked before it (mmr of src/src/engine.rs, which keeps that likeness
\* up to date one pick at a time).
THEOREM PicksAreDiverse == Spec => PickIsDiverse
  <1> DEFINE A == picked' # picked =>
                    \A t \in pool \ InSeq(picked) : Worth(picked'[Len(picked')]) >= Worth(t)
  <1>1. PickInv /\ [Next]_vars => [A]_vars
    <2>1. SUFFICES ASSUME PickInv, [Next]_vars, picked' # picked PROVE Pick
      BY PickIsFavourite
    <2> QED
      BY <2>1 DEF Next, vars, Offline, FirstPass, SecondPass, Finish
  <1>2. A => (picked' # picked =>
         LET worth(t) == Score(t) - MmrLambda *
                 Max({0} \cup {Similarity[t][u] : u \in InSeq(picked)})
             last == picked'[Len(picked')]
         IN  \A t \in pool \ InSeq(picked) : worth(last) >= worth(t))
    BY DEF Worth
  <1> HIDE DEF A
  <1> QED
    BY <1>1, <1>2, PickInvariance, PTL DEF Spec, PickIsDiverse

-----------------------------------------------------------------------------
(* The pack of a recall.                                                   *)

LeftOutForRoom(t) == used + LineLength[t] > Budget

PackInv ==
    /\ PickInv
    /\ recalled \in Seq(Traces)
    /\ used \in Nat /\ used = LengthOf(recalled)
    /\ used <= Budget \/ Len(recalled) = 1
    /\ picked = <<>> <=> recalled = <<>>
    /\ recalled # <<>> => recalled[1] = picked[1]
    /\ \A t \in InSeq(picked) \ InSeq(recalled) : LeftOutForRoom(t)
    /\ phase = "done" => pool = {} \/ picked # <<>>

LEMMA LinesAreNumbers ==
  ASSUME NEW t \in Traces
  PROVE  LineLength[t] \in Nat /\ Budget \in Nat /\ LengthOf(recalled)' = LengthOf(recalled')
  BY RecallAssumption DEF LengthOf

LEMMA PackInit ==
  ASSUME Init
  PROVE  PackInv
  <1>1. picked = <<>> /\ recalled = <<>> /\ used = 0 /\ phase = "start"
    BY DEF Init
  <1> QED
    BY <1>1, PickInit, LengthOfNone, EmptySeq, EmptyInSeq, RecallAssumption DEF PackInv

LEMMA NotEmpty ==
  ASSUME NEW S, NEW s \in Seq(S), NEW t \in S
  PROVE  Append(s, t) # <<>> /\ (s # <<>> => Append(s, t)[1] = s[1])
         /\ (s = <<>> => Append(s, t)[1] = t /\ Len(Append(s, t)) = 1)
  BY AppendProperties, EmptySeq, LenProperties

LEMMA PackPicks ==
  ASSUME PackInv, Pick
  PROVE  PackInv'
  <1>1. PICK t \in Traces : Pack(t) /\ picked' = Append(picked, t)
    BY DEF Pick
  <1>2. PickInv'
    BY PickNext DEF PackInv, Next
  <1>3. phase' = "pick"
    BY DEF Pick
  <1>4. /\ picked \in Seq(Traces) /\ recalled \in Seq(Traces)
        /\ used \in Nat /\ LineLength[t] \in Nat /\ Budget \in Nat
        /\ \A u \in Traces : LineLength[u] \in Nat
        /\ InSeq(picked) \subseteq Traces
    BY LinesAreNumbers, InSeqIsPart DEF PackInv, PickInv
  <1>5. /\ picked' # <<>> /\ InSeq(picked') = InSeq(picked) \cup {t}
        /\ picked # <<>> => picked'[1] = picked[1]
        /\ picked = <<>> => picked'[1] = t
    BY <1>1, <1>4, NotEmpty, InSeqAppend
  <1>6. LengthOf(recalled)' = LengthOf(recalled')
    BY LinesAreNumbers
  <1>7. CASE Fits(t)
    <2>1. recalled' = Append(recalled, t) /\ used' = used + LineLength[t]
      BY <1>1, <1>7 DEF Pack
    <2>2. /\ recalled' \in Seq(Traces) /\ recalled' # <<>>
          /\ InSeq(recalled') = InSeq(recalled) \cup {t}
          /\ recalled # <<>> => recalled'[1] = recalled[1]
          /\ recalled = <<>> => recalled'[1] = t /\ Len(recalled') = 1
      BY <1>4, <2>1, NotEmpty, InSeqAppend
    <2>3. used' \in Nat /\ used' = LengthOf(recalled)'
      BY <1>4, <1>6, <2>1, LengthOfAppend DEF PackInv
    <2>4. used' <= Budget \/ Len(recalled') = 1
      BY <1>7, <2>1, <2>2 DEF Fits
    <2>5. recalled'[1] = picked'[1]
      BY <1>5, <2>2 DEF PackInv
    <2>6. \A u \in InSeq(picked') \ InSeq(recalled') : used' + LineLength[u] > Budget
      <3> TAKE u \in InSeq(picked') \ InSeq(recalled')
      <3>1. u \in InSeq(picked) \ InSeq(recalled) /\ u \in Traces
        BY <1>4, <1>5, <2>2
      <3>2. used + LineLength[u] > Budget
        BY <3>1 DEF PackInv, LeftOutForRoom
      <3>3. LineLength[u] \in Nat
        BY <1>4, <3>1
      <3> QED
        BY <1>4, <2>1, <3>2, <3>3
    <2> QED
      BY <1>2, <1>3, <1>5, <2>2, <2>3, <2>4, <2>5, <2>6 DEF PackInv, LeftOutForRoom
  <1>8. CASE ~Fits(t)
    <2>1. recalled' = recalled /\ used' = used
      BY <1>1, <1>8 DEF Pack
    <2>2. recalled # <<>> /\ used + LineLength[t] > Budget
      BY <1>4, <1>8 DEF Fits
    <2>3. used' = LengthOf(recalled)'
      BY <1>6, <2>1 DEF PackInv
    <2>4. \A u \in InSeq(picked') \ InSeq(recalled') : used' + LineLength[u] > Budget
      BY <1>5, <2>1, <2>2 DEF PackInv, LeftOutForRoom
    <2>5. recalled'[1] = picked'[1]
      BY <1>5, <2>1, <2>2 DEF PackInv
    <2>6. used' <= Budget \/ Len(recalled') = 1
      BY <2>1 DEF PackInv
    <2> QED
      BY <1>2, <1>3, <1>4, <1>5, <2>1, <2>2, <2>3, <2>4, <2>5, <2>6 DEF PackInv, LeftOutForRoom
  <1> QED
    BY <1>7, <1>8

LEMMA PackNext ==
  ASSUME PackInv, [Next]_vars
  PROVE  PackInv'
  <1>1. PickInv'
    BY PickNext DEF PackInv
  <1>2. CASE Pick
    BY <1>2, PackPicks
  <1>3. CASE Offline \/ FirstPass \/ SecondPass \/ Finish \/ UNCHANGED vars
    <2>1. UNCHANGED <<picked, recalled, used>>
      BY <1>3 DEF Offline, FirstPass, SecondPass, Finish, vars
    <2>2. LengthOf(recalled)' = LengthOf(recalled)
      BY <2>1 DEF LengthOf
    <2>3. \A t \in InSeq(picked') \ InSeq(recalled') : LeftOutForRoom(t)'
      BY <2>1 DEF PackInv, LeftOutForRoom
    <2>4. phase' = "done" => pool' = {} \/ picked # <<>>
      <3>1. CASE Finish
        <4>1. Alive = {} \/ ~(Len(picked) < InjectN)
          BY <3>1 DEF Finish, More
        <4>2. picked = <<>> => Alive = pool /\ Len(picked) < InjectN
          BY EmptyInSeq, EmptySeq, RecallAssumption DEF Alive
        <4> QED
          BY <3>1, <4>1, <4>2 DEF Finish
      <3>2. CASE ~Finish
        <4>1. phase' = "done" => phase = "done" /\ pool' = pool
          BY <1>3, <3>2 DEF Offline, FirstPass, SecondPass, vars
        <4> QED
          BY <4>1 DEF PackInv
      <3> QED
        BY <3>1, <3>2
    <2> QED
      BY <1>1, <2>1, <2>2, <2>3, <2>4 DEF PackInv
  <1> QED
    BY <1>2, <1>3 DEF Next

LEMMA PackInvariance == Spec => []PackInv
  <1>1. Init => PackInv
    BY PackInit
  <1>2. PackInv /\ [Next]_vars => PackInv'
    BY PackNext
  <1> QED
    BY <1>1, <1>2, PTL DEF Spec

\* The pack never passes the budget but for a single line, holds the best trace whenever one
\* was found, and leaves a picked one out only for want of room, whatever the lengths of the
\* lines (select of src/src/engine.rs).
THEOREM PackUsesItsRoom == Spec => []PackIsUsed
  <1>1. PackInv => PackIsUsed
    <2>1. SUFFICES ASSUME PackInv, phase = "done" PROVE PackIsUsed
      BY DEF PackIsUsed
    <2>2. /\ used = LengthOf(recalled)
          /\ used <= Budget \/ Len(recalled) = 1
          /\ pool # {} => recalled # <<>> /\ recalled[1] = picked[1]
          /\ \A t \in InSeq(picked) \ InSeq(recalled) : used + LineLength[t] > Budget
      BY <2>1 DEF PackInv, LeftOutForRoom
    <2> QED
      BY <2>2 DEF PackIsUsed
  <1> QED
    BY <1>1, PackInvariance, PTL

-----------------------------------------------------------------------------
(* Local dates, for every day, however far, every second of it and every   *)
(* offset of less than a day.  A day is first placed in its era, then in a *)
(* year that begins in March, then in a month.                             *)

\* The year of its era that day doe of an era lies in, and the day of that year.
YearOf(doe) == (doe - doe \div 1460 + doe \div 36524 - doe \div 146096) \div 365
DayOf(doe) == doe - (365 * YearOf(doe) + YearOf(doe) \div 4 - YearOf(doe) \div 100)

\* A year that begins in March holds the leap day of the year after.
LongYear(y) == (y + 1) % 4 = 0 /\ ((y + 1) % 100 = 0 => (y + 1) % 400 = 0)

LEMMA YearBounds ==
  ASSUME NEW doe \in Int, 0 <= doe, doe < 146097
  PROVE  /\ YearOf(doe) \in Int /\ 0 <= YearOf(doe) /\ YearOf(doe) < 400
         /\ DayOf(doe) \in Int /\ 0 <= DayOf(doe) /\ DayOf(doe) < 366
         /\ DayOf(doe) = 365 => LongYear(YearOf(doe))
<1>1. /\ YearOf(doe) \in Int /\ 0 <= YearOf(doe) /\ YearOf(doe) < 400
      /\ DayOf(doe) \in Int /\ 0 <= DayOf(doe) /\ DayOf(doe) < 366
  BY DEF YearOf, DayOf
<1>2. ASSUME DayOf(doe) = 365 PROVE LongYear(YearOf(doe))
  BY <1>2, SMTT(30) DEF YearOf, DayOf, LongYear
<1> QED
  BY <1>1, <1>2

LEMMA NextInYear ==
  ASSUME NEW doe \in Int, 0 <= doe, doe < 146096
  PROVE  IF DayOf(doe) = 365 \/ (DayOf(doe) = 364 /\ ~LongYear(YearOf(doe)))
         THEN YearOf(doe + 1) = YearOf(doe) + 1 /\ DayOf(doe + 1) = 0
         ELSE YearOf(doe + 1) = YearOf(doe) /\ DayOf(doe + 1) = DayOf(doe) + 1
<1>1. CASE DayOf(doe) = 365
  BY <1>1, SMTT(30) DEF YearOf, DayOf, LongYear
<1>2. CASE DayOf(doe) = 364 /\ ~LongYear(YearOf(doe))
  BY <1>2, SMTT(30) DEF YearOf, DayOf, LongYear
<1>3. CASE DayOf(doe) = 364 /\ LongYear(YearOf(doe))
  BY <1>3, SMTT(30) DEF YearOf, DayOf, LongYear
<1>4. CASE DayOf(doe) < 364
  BY <1>4, SMTT(30) DEF YearOf, DayOf, LongYear
<1> QED
  BY <1>1, <1>2, <1>3, <1>4, YearBounds

\* The month, and the day of the month, of day doy of a year.
MonthOf(doy) == IF (5 * doy + 2) \div 153 < 10 THEN (5 * doy + 2) \div 153 + 3
                                              ELSE (5 * doy + 2) \div 153 - 9
DateOf(doy) == doy - (153 * ((5 * doy + 2) \div 153) + 2) \div 5 + 1

\* The length of a month in a year whose February has `february` days.
Length(m, february) == IF m = 2 THEN february ELSE IF m \in {4, 6, 9, 11} THEN 30 ELSE 31

LEMMA MonthBounds ==
  ASSUME NEW doy \in Int, 0 <= doy, doy < 366
  PROVE  /\ MonthOf(doy) \in 1 .. 12 /\ DateOf(doy) \in 1 .. 31
         /\ MonthOf(doy) > 2 <=> doy < 306
         /\ DateOf(doy) <= Length(MonthOf(doy), 29)
         /\ doy < 365 => DateOf(doy) <= Length(MonthOf(doy), 28)
         /\ doy = 365 <=> MonthOf(doy) = 2 /\ DateOf(doy) = 29
         /\ doy = 364 <=> MonthOf(doy) = 2 /\ DateOf(doy) = 28
         /\ doy = 305 <=> MonthOf(doy) = 12 /\ DateOf(doy) = 31
  BY SMTT(30) DEF MonthOf, DateOf, Length

LEMMA NextInMonth ==
  ASSUME NEW doy \in Int, 0 <= doy, doy < 364
  PROVE  IF DateOf(doy) < Length(MonthOf(doy), 28)
         THEN MonthOf(doy + 1) = MonthOf(doy) /\ DateOf(doy + 1) = DateOf(doy) + 1
         ELSE /\ MonthOf(doy + 1) = IF MonthOf(doy) < 12 THEN MonthOf(doy) + 1 ELSE 1
              /\ DateOf(doy + 1) = 1
  BY SMTT(30) DEF MonthOf, DateOf, Length

LEMMA LeapDay == MonthOf(365) = 2 /\ DateOf(365) = 29
  BY DEF MonthOf, DateOf

EraOf(n) == (n + 719468) \div 146097
DayOfEra(n) == (n + 719468) % 146097

\* The date of the day doy of the year y since an era's first March.
DateIn(era, y, doy) ==
    [y |-> y + era * 400 + (IF MonthOf(doy) <= 2 THEN 1 ELSE 0),
     m |-> MonthOf(doy), d |-> DateOf(doy)]

LEMMA CivilIs ==
  ASSUME NEW n
  PROVE  Civil(n) = DateIn(EraOf(n), YearOf(DayOfEra(n)), DayOf(DayOfEra(n)))
  BY DEF Civil, DateIn, EraOf, DayOfEra, YearOf, DayOf, MonthOf, DateOf

LEMMA EraBounds ==
  ASSUME NEW n \in Int
  PROVE  /\ EraOf(n) \in Int /\ DayOfEra(n) \in Int
         /\ 0 <= DayOfEra(n) /\ DayOfEra(n) < 146097
         /\ IF DayOfEra(n) = 146096
            THEN EraOf(n + 1) = EraOf(n) + 1 /\ DayOfEra(n + 1) = 0
            ELSE EraOf(n + 1) = EraOf(n) /\ DayOfEra(n + 1) = DayOfEra(n) + 1
  BY DEF EraOf, DayOfEra

LEMMA LeapRepeats ==
  ASSUME NEW era \in Int, NEW y \in Int
  PROVE  IsLeap(y + era * 400 + 1) <=> LongYear(y)
<1>1. (y + era * 400 + 1) % 4 = (y + 1) % 4
  OBVIOUS
<1>2. (y + era * 400 + 1) % 100 = (y + 1) % 100
  OBVIOUS
<1>3. (y + era * 400 + 1) % 400 = (y + 1) % 400
  OBVIOUS
<1> QED
  BY <1>1, <1>2, <1>3 DEF IsLeap, LongYear

\* A day that does not end its year in March: the next day is in the same one.
LEMMA AfterInYear ==
  ASSUME NEW era \in Int, NEW y \in Int, NEW doy \in Int, 0 <= doy, doy < 365,
         doy = 364 => LongYear(y)
  PROVE  DateIn(era, y, doy + 1) = After(DateIn(era, y, doy))
<1> DEFINE p == DateIn(era, y, doy)
<1>1. /\ p.y = y + era * 400 + (IF MonthOf(doy) <= 2 THEN 1 ELSE 0)
      /\ p.m = MonthOf(doy) /\ p.d = DateOf(doy)
  BY DEF DateIn
<1>2. /\ MonthOf(doy) \in 1 .. 12 /\ DateOf(doy) \in 1 .. 31
      /\ MonthOf(doy) > 2 <=> doy < 306
  BY MonthBounds
<1>3. p.m = 2 => (IsLeap(p.y) <=> LongYear(y))
  BY <1>1, LeapRepeats
<1>4. DaysIn(p.y, p.m) = Length(p.m, IF LongYear(y) THEN 29 ELSE 28)
  BY <1>1, <1>2, <1>3 DEF DaysIn, Length
<1>5. CASE doy = 364
  <2>1. p.m = 2 /\ p.d = 28 /\ DaysIn(p.y, p.m) = 29
    BY <1>1, <1>4, <1>5, MonthBounds DEF Length
  <2>2. MonthOf(doy + 1) = 2 /\ DateOf(doy + 1) = 29
    BY <1>5, LeapDay
  <2> QED
    BY <1>1, <2>1, <2>2 DEF After, DateIn
<1>6. CASE doy < 364
  <2>1. p.d < DaysIn(p.y, p.m) <=> p.d < Length(p.m, 28)
    <3>1. ~(p.m = 2 /\ p.d = 28)
      BY <1>1, <1>6, MonthBounds
    <3>2. p.m = 2 => p.d <= 28
      <4>1. p.d <= Length(p.m, 28)
        BY <1>1, <1>6, MonthBounds
      <4> QED
        BY <4>1 DEF Length
    <3> QED
      BY <1>1, <1>2, <1>4, <3>1, <3>2 DEF Length
  <2>2. CASE p.d < Length(p.m, 28)
    <3>1. MonthOf(doy + 1) = p.m /\ DateOf(doy + 1) = p.d + 1
      BY <1>1, <1>6, <2>2, NextInMonth
    <3> QED
      BY <1>1, <2>1, <2>2, <3>1 DEF After, DateIn
  <2>3. CASE ~(p.d < Length(p.m, 28))
    <3>1. MonthOf(doy + 1) = (IF p.m < 12 THEN p.m + 1 ELSE 1) /\ DateOf(doy + 1) = 1
      BY <1>1, <1>6, <2>3, NextInMonth
    <3>2. p.m # 2
      BY <1>1, <1>2, <1>6, <2>3, NextInMonth, MonthBounds DEF Length
    <3>3. CASE p.m < 12
      BY <1>1, <1>2, <2>1, <2>3, <3>1, <3>2, <3>3 DEF After, DateIn
    <3>4. CASE p.m = 12
      BY <1>1, <1>2, <2>1, <2>3, <3>1, <3>4 DEF After, DateIn
    <3> QED
      BY <1>1, <1>2, <3>3, <3>4
  <2> QED
    BY <2>2, <2>3
<1> QED
  BY <1>5, <1>6

MarchFirst(y) == [y |-> y, m |-> 3, d |-> 1]

LEMMA YearBegins ==
  ASSUME NEW era, NEW y, y + era * 400 \in Int
  PROVE  DateIn(era, y, 0) = MarchFirst(y + era * 400)
<1>1. MonthOf(0) = 3 /\ DateOf(0) = 1
  BY DEF MonthOf, DateOf
<1> QED
  BY <1>1 DEF DateIn, MarchFirst

\* The last of February, and the first of March after it.
LastDayOf(y) == IF LongYear(y) THEN 365 ELSE 364

LEMMA AfterYear ==
  ASSUME NEW era \in Int, NEW y \in Int
  PROVE  After(DateIn(era, y, LastDayOf(y))) = MarchFirst(y + era * 400 + 1)
<1> DEFINE p == DateIn(era, y, LastDayOf(y))
<1>1. LastDayOf(y) \in {364, 365}
  BY DEF LastDayOf
<1>2. MonthOf(LastDayOf(y)) = 2 /\ DateOf(LastDayOf(y)) = IF LongYear(y) THEN 29 ELSE 28
  BY <1>1, MonthBounds DEF LastDayOf
<1>3. p = [y |-> y + era * 400 + 1, m |-> 2, d |-> IF LongYear(y) THEN 29 ELSE 28]
  BY <1>2 DEF DateIn
<1>4. DaysIn(p.y, p.m) = p.d
  BY <1>3, LeapRepeats DEF DaysIn
<1> QED
  BY <1>3, <1>4 DEF After, MarchFirst

LEMMA EraEnds == YearOf(146096) = 399 /\ DayOf(146096) = 365 /\ YearOf(0) = 0 /\ DayOf(0) = 0
                 /\ LastDayOf(399) = 365
  BY DEF YearOf, DayOf, LongYear, LastDayOf

LEMMA CivilAdvances ==
  ASSUME NEW n \in Int
  PROVE  CivilIsRight(n)
<1> SUFFICES Civil(n + 1) = After(Civil(n))
  BY DEF CivilIsRight
<1> DEFINE era == EraOf(n)
           doe == DayOfEra(n)
           next == DayOfEra(n + 1)
<1>1. /\ era \in Int /\ doe \in Int /\ 0 <= doe /\ doe < 146097
      /\ IF doe = 146096 THEN EraOf(n + 1) = era + 1 /\ next = 0
                         ELSE EraOf(n + 1) = era /\ next = doe + 1
  BY EraBounds
<1>2. Civil(n) = DateIn(era, YearOf(doe), DayOf(doe))
  BY CivilIs
<1>3. Civil(n + 1) = DateIn(EraOf(n + 1), YearOf(next), DayOf(next))
  BY CivilIs
<1> HIDE DEF era, doe, next
<1>4. CASE doe = 146096
  <2>1. Civil(n) = DateIn(era, 399, 365)
    BY <1>2, <1>4, EraEnds
  <2>2. Civil(n + 1) = DateIn(era + 1, 0, 0)
    BY <1>1, <1>3, <1>4, EraEnds
  <2>3. DateIn(era + 1, 0, 0) = MarchFirst(0 + (era + 1) * 400)
    BY <1>1, YearBegins
  <2>4. After(DateIn(era, 399, 365)) = MarchFirst(399 + era * 400 + 1)
    BY <1>1, EraEnds, AfterYear
  <2>5. 0 + (era + 1) * 400 = 399 + era * 400 + 1
    BY <1>1
  <2> QED
    BY <2>1, <2>2, <2>3, <2>4, <2>5
<1>5. CASE doe < 146096
  <2> DEFINE y == YearOf(doe)
             doy == DayOf(doe)
  <2>1. Civil(n + 1) = DateIn(era, YearOf(doe + 1), DayOf(doe + 1))
    BY <1>1, <1>3, <1>5
  <2>2. y \in Int /\ doy \in Int /\ 0 <= doy /\ doy < 366 /\ (doy = 365 => LongYear(y))
    BY <1>1, YearBounds
  <2>3. IF doy = 365 \/ (doy = 364 /\ ~LongYear(y))
        THEN YearOf(doe + 1) = y + 1 /\ DayOf(doe + 1) = 0
        ELSE YearOf(doe + 1) = y /\ DayOf(doe + 1) = doy + 1
    BY <1>1, <1>5, NextInYear
  <2> HIDE DEF y, doy
  <2>4. CASE doy = LastDayOf(y)
    <3>1. YearOf(doe + 1) = y + 1 /\ DayOf(doe + 1) = 0
      BY <2>3, <2>4 DEF LastDayOf
    <3>2. DateIn(era, y + 1, 0) = MarchFirst((y + 1) + era * 400)
      BY <1>1, <2>2, YearBegins
    <3>3. After(DateIn(era, y, doy)) = MarchFirst(y + era * 400 + 1)
      BY <1>1, <2>2, <2>4, AfterYear
    <3>4. (y + 1) + era * 400 = y + era * 400 + 1
      BY <1>1, <2>2
    <3> QED
      BY <1>2, <2>1, <3>1, <3>2, <3>3, <3>4 DEF y, doy
  <2>5. CASE doy # LastDayOf(y)
    <3>1. doy < 365 /\ (doy = 364 => LongYear(y))
      BY <2>2, <2>5 DEF LastDayOf
    <3>2. YearOf(doe + 1) = y /\ DayOf(doe + 1) = doy + 1
      BY <2>2, <2>3, <3>1
    <3>3. DateIn(era, y, doy + 1) = After(DateIn(era, y, doy))
      BY <1>1, <2>2, <3>1, AfterInYear
    <3> QED
      BY <1>2, <2>1, <3>2, <3>3 DEF y, doy
  <2> QED
    BY <2>4, <2>5
<1> QED
  BY <1>1, <1>4, <1>5

\* A date of the calendar.
IsDate(p) ==
    /\ p = [y |-> p.y, m |-> p.m, d |-> p.d]
    /\ p.y \in Int /\ p.m \in 1 .. 12 /\ p.d \in Int
    /\ 1 <= p.d /\ p.d <= DaysIn(p.y, p.m)

LEMMA CivilIsDate ==
  ASSUME NEW n \in Int
  PROVE  IsDate(Civil(n))
<1> DEFINE era == EraOf(n)
           y == YearOf(DayOfEra(n))
           doy == DayOf(DayOfEra(n))
           p == Civil(n)
<1>1. era \in Int /\ DayOfEra(n) \in Int /\ 0 <= DayOfEra(n) /\ DayOfEra(n) < 146097
  BY EraBounds
<1>2. y \in Int /\ doy \in Int /\ 0 <= doy /\ doy < 366 /\ (doy = 365 => LongYear(y))
  BY <1>1, YearBounds
<1>3. p = DateIn(era, y, doy)
  BY CivilIs
<1> HIDE DEF era, y, doy, p
<1>4. /\ p.y = y + era * 400 + (IF MonthOf(doy) <= 2 THEN 1 ELSE 0)
      /\ p.m = MonthOf(doy) /\ p.d = DateOf(doy) /\ p = [y |-> p.y, m |-> p.m, d |-> p.d]
  BY <1>3 DEF DateIn
<1>5. p.m \in 1 .. 12 /\ p.d \in 1 .. 31 /\ p.y \in Int
  BY <1>1, <1>2, <1>4, MonthBounds
<1>6. p.d <= DaysIn(p.y, p.m)
  <2>1. CASE doy = 365
    <3>1. p.m = 2 /\ p.d = 29
      BY <1>2, <1>4, <2>1, MonthBounds
    <3>2. IsLeap(p.y)
      BY <1>1, <1>2, <1>4, <2>1, <3>1, LeapRepeats
    <3> QED
      BY <3>1, <3>2 DEF DaysIn
  <2>2. CASE doy < 365
    <3>1. p.d <= Length(p.m, 28)
      BY <1>2, <1>4, <2>2, MonthBounds
    <3> QED
      BY <1>5, <3>1 DEF DaysIn, Length
  <2> QED
    BY <1>2, <2>1, <2>2
<1> QED
  BY <1>4, <1>5, <1>6 DEF IsDate, p

LEMMA BeforeAfter ==
  ASSUME NEW p, IsDate(p)
  PROVE  Before(After(p)) = p
<1>1. CASE p.d < DaysIn(p.y, p.m)
  <2>1. After(p) = [y |-> p.y, m |-> p.m, d |-> p.d + 1]
    BY <1>1 DEF IsDate, After
  <2>2. Before(After(p)) = [y |-> p.y, m |-> p.m, d |-> p.d + 1 - 1]
    BY <2>1 DEF IsDate, Before
  <2> QED
    BY <2>2 DEF IsDate
<1>2. CASE ~(p.d < DaysIn(p.y, p.m)) /\ p.m < 12
  <2>1. After(p) = [y |-> p.y, m |-> p.m + 1, d |-> 1] /\ p.d = DaysIn(p.y, p.m)
    <3>1. DaysIn(p.y, p.m) \in Int
      BY DEF DaysIn
    <3> QED
      BY <1>2, <3>1 DEF IsDate, After
  <2> QED
    BY <1>2, <2>1 DEF IsDate, Before
<1>3. CASE ~(p.d < DaysIn(p.y, p.m)) /\ p.m = 12
  <2>1. DaysIn(p.y, p.m) = 31
    BY <1>3 DEF DaysIn
  <2>2. After(p) = [y |-> p.y + 1, m |-> 1, d |-> 1] /\ p.d = 31
    BY <1>3, <2>1 DEF IsDate, After
  <2> QED
    BY <1>3, <2>2 DEF IsDate, Before
<1> QED
  BY <1>1, <1>2, <1>3 DEF IsDate

LEMMA YesterdayIs ==
  ASSUME NEW n \in Int
  PROVE  Civil(n - 1) = Before(Civil(n))
<1>1. Civil((n - 1) + 1) = After(Civil(n - 1)) /\ IsDate(Civil(n - 1))
  BY CivilAdvances, CivilIsDate DEF CivilIsRight
<1>2. (n - 1) + 1 = n
  OBVIOUS
<1> QED
  BY <1>1, <1>2, BeforeAfter

-----------------------------------------------------------------------------
(* Time zones.                                                             *)

\* An offset of less than a day survives its field, to the minute.
LEMMA OffsetSurvives ==
  ASSUME NEW o \in Int, -86399 <= o, o <= 86399
  PROVE  ParseOffset(FmtOffset(o)) = 60 * (IF o < 0 THEN -((-o) \div 60) ELSE o \div 60)
<1>1. ASSUME NEW a \in Int, 0 <= a, a <= 86399
      PROVE  /\ ~(a \div 3600 > 23 \/ (a % 3600) \div 60 > 59)
             /\ (a \div 3600) * 3600 + ((a % 3600) \div 60) * 60 = 60 * (a \div 60)
  BY <1>1
<1>2. CASE o < 0
  BY <1>1, <1>2 DEF ParseOffset, FmtOffset
<1>3. CASE o >= 0
  BY <1>1, <1>3 DEF ParseOffset, FmtOffset
<1> QED
  BY <1>2, <1>3

LEMMA ClockIs ==
  ASSUME NEW s \in Int, NEW d \in Int, 0 <= s, s < 86400, NEW o \in Int, -1440 < o, o < 1440
  PROVE  LET local == s + 60 * o
             sod == local % 86400
             shown == s \div 60 + o
             clock == (sod \div 3600) * 60 + (sod % 3600) \div 60
         IN  /\ shown < 0 => d + local \div 86400 = d - 1 /\ clock = shown + 1440
             /\ 0 <= shown /\ shown < 1440 => d + local \div 86400 = d /\ clock = shown
             /\ shown >= 1440 => d + local \div 86400 = d + 1 /\ clock = shown - 1440
  BY SMTT(30)

-----------------------------------------------------------------------------
(* Theorems.                                                               *)

\* civil_from_days agrees with the calendar on every day, however far before or after 1970:
\* it is right about the first, and from each day it goes to the next as the calendar does.
THEOREM DatesAreRight == Civil(0) = Epoch /\ \A n \in Int : CivilIsRight(n) /\ IsDate(Civil(n))
<1>1. Civil(0) = Epoch
  BY DEF Civil, Epoch
<1> QED
  BY <1>1, CivilAdvances, CivilIsDate

\* fmt_local gives the local date and time for every second of every day and every offset of
\* less than a day.
THEOREM LocalTimesAreRight ==
  ASSUME NEW day \in Int, NEW sod \in Int, 0 <= sod, sod < 86400,
         NEW offset \in Int, -86400 < offset, offset < 86400
  PROVE  LocalIsRight(day, sod, offset)
<1> DEFINE o == IF offset < 0 THEN -((-offset) \div 60) ELSE offset \div 60
           local == sod + 60 * o
           rest == local % 86400
           shown == sod \div 60 + o
           there == Local(day, sod, offset)
<1>1. -86399 <= offset /\ offset <= 86399
  OBVIOUS
<1>2. o \in Int /\ -1440 < o /\ o < 1440
  BY <1>1
<1>3. ParseOffset(FmtOffset(offset)) = 60 * o
  BY <1>1, OffsetSurvives
<1>4. /\ there.date = Civil(day + local \div 86400)
      /\ there.hour = rest \div 3600 /\ there.minute = (rest % 3600) \div 60
  BY <1>3 DEF Local
<1>5. Shown(sod, offset) = shown
  BY DEF Shown
<1>6. Civil(day - 1) = Before(Civil(day)) /\ Civil(day + 1) = After(Civil(day))
  BY YesterdayIs, CivilAdvances DEF CivilIsRight
<1> HIDE DEF o, there
<1>7. /\ shown < 0 => day + local \div 86400 = day - 1
                      /\ (rest \div 3600) * 60 + (rest % 3600) \div 60 = shown + 1440
      /\ 0 <= shown /\ shown < 1440 => day + local \div 86400 = day
                      /\ (rest \div 3600) * 60 + (rest % 3600) \div 60 = shown
      /\ shown >= 1440 => day + local \div 86400 = day + 1
                      /\ (rest \div 3600) * 60 + (rest % 3600) \div 60 = shown - 1440
  BY <1>2, ClockIs
<1> HIDE DEF local, rest, shown
<1> QED
  BY <1>4, <1>5, <1>6, <1>7 DEF there, LocalIsRight

=============================================================================
