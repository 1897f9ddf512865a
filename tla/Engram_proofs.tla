--------------------------- MODULE Engram_proofs ---------------------------
(***************************************************************************)
(* Proofs about the waking engine, for every number of ids, texts, clock   *)
(* readings, every capacity, grace period and daily limit: Spec implies    *)
(* every invariant and action property that the run of MCEngram checks.    *)
(***************************************************************************)
EXTENDS Engram, FiniteSetTheorems, TLAPS

-----------------------------------------------------------------------------
(* The inductive invariant.                                                *)

\* What is stored is finite, though the ids are not: the counts of `victims` are numbers.
LiveIsFinite == IsFiniteSet(Live)

\* A trace with an open citation window has not been credited yet.
OpenIsUnspent == \A i \in Ids : boosts[i] <= 1 /\ (i \in exposures => boosts[i] = 0)

\* Inserts land in the order of the clock.
LandedInOrder ==
    \A j, k \in DOMAIN landed : landed[j] <= clock /\ (j <= k => landed[j] <= landed[k])

\* Pruning forgets no insert of the last day: write_times holds them all.
WindowComplete == \A k \in DOMAIN landed : landed[k] + Day >= clock => k \in writeTimes

IInv ==
    /\ TypeOK
    /\ LiveIsFinite
    /\ ExposuresAreLive
    /\ OpenIsUnspent
    /\ LandedInOrder
    /\ WindowComplete
    /\ RateHolds

-----------------------------------------------------------------------------
(* Commits.                                                                *)

\* A commit of traces leaves a finite store of traces, closes windows and opens none, and
\* every row whose window it leaves open is the row it was.
LEMMA CommitKeeps ==
    ASSUME TypeOK, ExposuresAreLive, NEW gone, NEW put, Commit(gone, put),
           \A i \in DOMAIN put : put[i] \in Trace
    PROVE  /\ rows' \in [Ids -> Trace \cup {Absent}]
           /\ exposures' \subseteq exposures
           /\ \A i \in exposures' : rows'[i] = rows[i]
           /\ ExposuresAreLive'
           /\ Live' \subseteq Live \cup DOMAIN put
<1>1. rows' \in [Ids -> Trace \cup {Absent}]
  BY DEF TypeOK, Commit
<1>2. exposures' \subseteq exposures
  BY DEF Commit
<1>3. \A i \in exposures' : rows'[i] = rows[i]
  BY DEF TypeOK, Commit
<1>4. ExposuresAreLive'
  BY <1>2, <1>3 DEF ExposuresAreLive, Usable, Live
<1>5. Live' \subseteq Live \cup DOMAIN put
  BY DEF Live, Commit
<1>6. QED
  BY <1>1, <1>2, <1>3, <1>4, <1>5

\* A commit that writes finitely many traces, and touches neither the clock nor the writes
\* counted nor the credits, keeps the invariant.
LEMMA CommitPreserves ==
    ASSUME IInv, NEW gone, NEW put, Commit(gone, put),
           \A i \in DOMAIN put : put[i] \in Trace, IsFiniteSet(DOMAIN put),
           UNCHANGED <<clock, writeTimes, landed, boosts>>
    PROVE  IInv'
<1>1. /\ rows' \in [Ids -> Trace \cup {Absent}]
      /\ exposures' \subseteq exposures
      /\ ExposuresAreLive'
      /\ Live' \subseteq Live \cup DOMAIN put
  BY CommitKeeps DEF IInv
<1>2. TypeOK'
  BY <1>1 DEF IInv, TypeOK
<1>3. LiveIsFinite'
  <2>1. IsFiniteSet(Live \cup DOMAIN put)
    BY FS_Union DEF IInv, LiveIsFinite
  <2>2. QED
    BY <1>1, <2>1, FS_Subset DEF LiveIsFinite
<1>4. OpenIsUnspent' /\ LandedInOrder' /\ WindowComplete' /\ RateHolds'
  BY <1>1 DEF IInv, OpenIsUnspent, LandedInOrder, WindowComplete, RateHolds
<1>5. QED
  BY <1>1, <1>2, <1>3, <1>4 DEF IInv

-----------------------------------------------------------------------------
(* The rate limit.                                                         *)

LEMMA PrunedIsFinite ==
    ASSUME TypeOK
    PROVE  IsFiniteSet(Pruned(clock)) /\ Cardinality(Pruned(clock)) \in Nat
<1>1. Pruned(clock) \subseteq 1 .. Len(landed)
  BY DEF TypeOK, Pruned
<1>2. Len(landed) \in Int
  BY DEF TypeOK
<1>3. IsFiniteSet(1 .. Len(landed))
  BY <1>2, FS_Interval
<1>4. QED
  BY <1>1, <1>3, FS_Subset, FS_CardinalityType

\* When fewer than WritesPerDay writes are counted, the WritesPerDay-th last insert is more
\* than a day old: all the inserts since an insert of the last day are counted.
LEMMA RoomInTheWindow ==
    ASSUME IInv, Cardinality(Pruned(clock)) < WritesPerDay,
           NEW k \in DOMAIN landed, k + WritesPerDay = Len(landed) + 1
    PROVE  clock > landed[k] + Day
<1> SUFFICES ASSUME landed[k] + Day >= clock
             PROVE  FALSE
  BY EngramAssumption DEF IInv, TypeOK, Clock
<1>1. k .. Len(landed) \subseteq Pruned(clock)
  <2> SUFFICES ASSUME NEW j \in k .. Len(landed)
               PROVE  j \in Pruned(clock)
    OBVIOUS
  <2>1. j \in DOMAIN landed
    BY DEF IInv, TypeOK
  <2>2. landed[k] \in Nat /\ landed[j] \in Nat /\ clock \in Nat /\ Day \in Nat
    BY <2>1, EngramAssumption DEF IInv, TypeOK, Clock
  <2>3. landed[k] <= landed[j] /\ landed[j] <= clock
    BY <2>1 DEF IInv, LandedInOrder
  <2>4. landed[j] + Day >= clock /\ landed[j] <= clock + Day
    BY <2>2, <2>3
  <2>5. j \in writeTimes
    BY <2>1, <2>4 DEF IInv, WindowComplete
  <2>6. QED
    BY <2>4, <2>5 DEF Pruned
<1>2. Cardinality(k .. Len(landed)) = WritesPerDay
  <2>1. k \in Int /\ Len(landed) \in Int /\ k <= Len(landed) /\ WritesPerDay \in Nat
    BY EngramAssumption DEF IInv, TypeOK
  <2>2. Cardinality(k .. Len(landed)) = Len(landed) - k + 1
    BY <2>1, FS_Interval
  <2>3. QED
    BY <2>1, <2>2
<1>3. Cardinality(k .. Len(landed)) <= Cardinality(Pruned(clock))
  BY <1>1, PrunedIsFinite, FS_Subset DEF IInv
<1>4. QED
  BY <1>2, <1>3, PrunedIsFinite, EngramAssumption DEF IInv

LEMMA RememberPreserves ==
    ASSUME IInv, NEW text \in Texts, Remember(text)
    PROVE  IInv'
<1> PICK id \in Ids \ Live, vec \in BOOLEAN :
           \E v \in Victims(id) :
              /\ Commit(v, [i \in {id} |-> Fresh(text, vec)])
              /\ writeTimes' = Pruned(clock) \cup {Len(landed) + 1}
              /\ landed' = Append(landed, clock)
  BY DEF Remember
<1> DEFINE put == [i \in {id} |-> Fresh(text, vec)]
<1> PICK v \in Victims(id) : Commit(v, put)
  OBVIOUS
<1>1. UNCHANGED <<clock, boosts>> /\ Cardinality(Pruned(clock)) < WritesPerDay
  BY DEF Remember
<1>2. landed' = Append(landed, clock) /\ writeTimes' = Pruned(clock) \cup {Len(landed) + 1}
  OBVIOUS
<1>3. \A i \in DOMAIN put : put[i] \in Trace
  BY DEF IInv, TypeOK, Trace, Fresh
<1>4. /\ rows' \in [Ids -> Trace \cup {Absent}]
      /\ exposures' \subseteq exposures
      /\ ExposuresAreLive'
      /\ Live' \subseteq Live \cup DOMAIN put
  <2> HIDE DEF put
  <2> QED BY <1>3, CommitKeeps DEF IInv
<1>5. /\ clock \in Clock /\ Clock \subseteq Nat /\ Day \in Nat /\ WritesPerDay \in Nat
      /\ landed \in Seq(Clock) /\ Len(landed) \in Nat /\ DOMAIN landed = 1 .. Len(landed)
      /\ \A k \in DOMAIN landed : landed[k] \in Nat
  BY EngramAssumption DEF IInv, TypeOK, Clock
<1>6. /\ landed' \in Seq(Clock)
      /\ Len(landed') = Len(landed) + 1
      /\ DOMAIN landed' = 1 .. Len(landed) + 1
      /\ \A k \in DOMAIN landed : landed'[k] = landed[k]
      /\ landed'[Len(landed) + 1] = clock
  BY <1>2, <1>5
<1>7. TypeOK'
  BY <1>1, <1>2, <1>4, <1>5, <1>6 DEF IInv, TypeOK, Pruned
<1>8. LiveIsFinite'
  <2>1. IsFiniteSet(Live \cup {id})
    BY FS_AddElement DEF IInv, LiveIsFinite
  <2>2. QED
    BY <1>4, <2>1, FS_Subset DEF LiveIsFinite
<1>9. OpenIsUnspent'
  BY <1>1, <1>4 DEF IInv, OpenIsUnspent
<1>10. LandedInOrder'
  BY <1>1, <1>5, <1>6 DEF IInv, LandedInOrder, TypeOK
<1>11. WindowComplete'
  <2> SUFFICES ASSUME NEW k \in DOMAIN landed', landed'[k] + Day >= clock
               PROVE  k \in writeTimes'
    BY <1>1 DEF WindowComplete
  <2>1. CASE k = Len(landed) + 1
    BY <2>1, <1>2
  <2>2. CASE k \in DOMAIN landed
    <3>1. landed[k] + Day >= clock /\ k \in writeTimes
      BY <2>2, <1>6 DEF IInv, WindowComplete
    <3>2. landed[k] <= clock + Day
      <4>1. landed[k] \in Nat /\ landed[k] <= clock
        BY <2>2, <1>5 DEF IInv, LandedInOrder
      <4>2. QED
        BY <4>1, <1>5
    <3>3. QED
      BY <3>1, <3>2, <1>2 DEF Pruned
  <2>3. QED
    BY <2>1, <2>2, <1>5, <1>6
<1>12. RateHolds'
  <2> SUFFICES ASSUME NEW k \in 1 .. Len(landed) + 1, k + WritesPerDay <= Len(landed) + 1
               PROVE  landed'[k + WritesPerDay] > landed'[k] + Day
    BY <1>6 DEF RateHolds
  <2>1. WritesPerDay > 0
    BY <1>1, <1>5, PrunedIsFinite DEF IInv
  <2>2. k \in DOMAIN landed
    BY <2>1, <1>5
  <2>3. CASE k + WritesPerDay <= Len(landed)
    <3>1. k + WritesPerDay \in DOMAIN landed
      BY <2>3, <2>2, <1>5
    <3>2. landed[k + WritesPerDay] > landed[k] + Day
      BY <2>2, <2>3, <1>5 DEF IInv, RateHolds
    <3>3. QED
      BY <3>1, <3>2, <2>2, <1>6
  <2>4. CASE k + WritesPerDay = Len(landed) + 1
    <3>1. clock > landed[k] + Day
      BY <2>2, <2>4, <1>1, RoomInTheWindow
    <3>2. QED
      BY <3>1, <2>2, <2>4, <1>6
  <2>5. k + WritesPerDay <= Len(landed) \/ k + WritesPerDay = Len(landed) + 1
    BY <2>2, <1>5
  <2>6. QED
    BY <2>3, <2>4, <2>5
<1>13. QED
  BY <1>4, <1>7, <1>8, <1>9, <1>10, <1>11, <1>12 DEF IInv

-----------------------------------------------------------------------------
(* The other steps.                                                        *)

LEMMA DroppedPreserves ==
    ASSUME IInv, NEW text \in Texts, RememberDropped(text)
    PROVE  IInv'
<1>1. UNCHANGED <<rows, clock, exposures, landed, boosts>> /\ writeTimes' = Pruned(clock)
  BY DEF RememberDropped
<1>2. TypeOK' /\ LiveIsFinite' /\ ExposuresAreLive' /\ OpenIsUnspent' /\ LandedInOrder' /\ RateHolds'
  BY <1>1 DEF IInv, TypeOK, LiveIsFinite, ExposuresAreLive, OpenIsUnspent, LandedInOrder,
              RateHolds, Pruned, Live, Usable
<1>3. WindowComplete'
  <2> SUFFICES ASSUME NEW k \in DOMAIN landed, landed[k] + Day >= clock
               PROVE  k \in Pruned(clock)
    BY <1>1 DEF WindowComplete
  <2>1. landed[k] \in Nat /\ clock \in Nat /\ Day \in Nat
    BY EngramAssumption DEF IInv, TypeOK, Clock
  <2>2. landed[k] <= clock + Day
    BY <2>1 DEF IInv, LandedInOrder
  <2>3. QED
    BY <2>2 DEF IInv, WindowComplete, Pruned
<1>4. QED
  BY <1>2, <1>3 DEF IInv

LEMMA RecallPreserves ==
    ASSUME IInv, NEW inject \in SUBSET Indexed, Recall(inject)
    PROVE  IInv'
<1>1. /\ UNCHANGED <<rows, clock, writeTimes, landed>>
      /\ exposures' = inject
      /\ boosts' = [i \in Ids |-> 0]
  BY DEF Recall
<1>2. inject \subseteq Usable /\ inject \subseteq Ids
  BY DEF Indexed, Usable, Live
<1>3. QED
  BY <1>1, <1>2 DEF IInv, TypeOK, LiveIsFinite, ExposuresAreLive, OpenIsUnspent, LandedInOrder,
                    WindowComplete, RateHolds, Live, Usable

LEMMA CitePreserves ==
    ASSUME IInv, NEW cited, Cite(cited)
    PROVE  IInv'
<1> DEFINE credited == cited \cap exposures \cap Usable
<1>1. /\ UNCHANGED <<rows, clock, writeTimes, landed>>
      /\ exposures' = exposures \ credited
      /\ boosts' = [i \in Ids |-> IF i \in credited THEN boosts[i] + 1 ELSE boosts[i]]
  BY DEF Cite
<1>2. TypeOK' /\ OpenIsUnspent'
  BY <1>1 DEF IInv, TypeOK, OpenIsUnspent
<1>3. LiveIsFinite' /\ ExposuresAreLive' /\ LandedInOrder' /\ WindowComplete' /\ RateHolds'
  BY <1>1 DEF IInv, LiveIsFinite, ExposuresAreLive, LandedInOrder, WindowComplete, RateHolds,
              Live, Usable
<1>4. QED
  BY <1>2, <1>3 DEF IInv

LEMMA ForgetPreserves ==
    ASSUME IInv, NEW i \in Ids, Forget(i)
    PROVE  IInv'
<1> DEFINE put == [j \in {} |-> Absent]
<1>1. Commit({i}, put) /\ UNCHANGED <<clock, writeTimes, landed, boosts>>
  BY DEF Forget
<1>2. DOMAIN put = {} /\ IsFiniteSet(DOMAIN put)
  BY FS_EmptySet
<1> HIDE DEF put
<1>3. QED
  BY <1>1, <1>2, CommitPreserves

LEMMA ConsolidatePreserves ==
    ASSUME IInv, NEW absorbed \in SUBSET Indexed, NEW texts \in SUBSET Texts,
           Consolidate(absorbed, texts)
    PROVE  IInv'
<1> PICK newest \in absorbed, ids \in SUBSET (Ids \ Live) :
           \E textOf \in Bijection(ids, texts) :
              Commit(absorbed, [i \in ids |-> [text |-> textOf[i],
                                               born |-> rows[newest].born, vec |-> TRUE]])
  BY DEF Consolidate
<1> PICK textOf \in Bijection(ids, texts) :
           Commit(absorbed, [i \in ids |-> [text |-> textOf[i],
                                            born |-> rows[newest].born, vec |-> TRUE]])
  OBVIOUS
<1> DEFINE put == [i \in ids |-> [text |-> textOf[i], born |-> rows[newest].born, vec |-> TRUE]]
<1>1. Commit(absorbed, put) /\ UNCHANGED <<clock, writeTimes, landed, boosts>>
  BY DEF Consolidate
<1>2. rows[newest] \in Trace
  BY DEF IInv, TypeOK, Indexed, Usable, Live
<1>3. DOMAIN put = ids /\ \A i \in DOMAIN put : put[i] \in Trace
  <2>1. \A i \in ids : textOf[i] \in Texts
    BY DEF Bijection, Injection
  <2>2. QED
    BY <1>2, <2>1 DEF Trace
<1>4. IsFiniteSet(ids)
  <2>1. IsFiniteSet(texts)
    BY DEF Consolidate
  <2>2. textOf \in Injection(ids, texts)
    BY DEF Bijection
  <2>3. QED
    BY <2>1, <2>2, FS_Injection
<1> HIDE DEF put
<1>5. QED
  BY <1>1, <1>3, <1>4, CommitPreserves

LEMMA ApplyPreserves ==
    ASSUME IInv, NEW gone, NEW put \in Batches, Apply(gone, put)
    PROVE  IInv'
<1>1. Commit(gone, put) /\ UNCHANGED <<clock, writeTimes, landed, boosts>>
  BY DEF Apply
<1>2. IsFiniteSet(DOMAIN put) /\ \A i \in DOMAIN put : put[i] \in Trace
  BY EngramAssumption
<1>3. QED
  BY <1>1, <1>2, CommitPreserves

LEMMA ReindexPreserves ==
    ASSUME IInv, NEW batch \in SUBSET (Usable \ Indexed), Reindex(batch)
    PROVE  IInv'
<1>1. /\ rows' = [i \in Ids |-> IF i \in batch THEN [rows[i] EXCEPT !.vec = TRUE] ELSE rows[i]]
      /\ UNCHANGED <<clock, writeTimes, exposures, landed, boosts>>
  BY DEF Reindex
<1>2. \A i \in batch : rows[i] \in Trace
  BY DEF IInv, TypeOK, Usable, Live
<1>3. \A i \in Ids : /\ rows'[i] \in Trace \cup {Absent}
                     /\ rows'[i] = Absent <=> rows[i] = Absent
                     /\ i \in Live => rows'[i].text = rows[i].text
  BY <1>1, <1>2, EngramAssumption DEF IInv, TypeOK, Trace, Live
<1>4. Live' = Live /\ Usable' = Usable
  BY <1>3 DEF Live, Usable
<1>5. TypeOK' /\ ExposuresAreLive' /\ LiveIsFinite'
  BY <1>1, <1>3, <1>4 DEF IInv, TypeOK, ExposuresAreLive, LiveIsFinite
<1>6. OpenIsUnspent' /\ LandedInOrder' /\ WindowComplete' /\ RateHolds'
  BY <1>1 DEF IInv, OpenIsUnspent, LandedInOrder, WindowComplete, RateHolds
<1>7. QED
  BY <1>5, <1>6 DEF IInv

\* A process with no history: nothing landed, nothing exposed.
LEMMA FreshProcess ==
    ASSUME IInv, rows' \in [Ids -> Trace \cup {Absent}], Live' \subseteq Live, clock' = clock,
           writeTimes' = {}, exposures' = {}, landed' = <<>>,
           boosts' = boosts \/ boosts' = [i \in Ids |-> 0]
    PROVE  IInv'
<1>1. landed' \in Seq(Clock) /\ DOMAIN landed' = {} /\ Len(landed') = 0
  OBVIOUS
<1>2. TypeOK'
  BY <1>1 DEF IInv, TypeOK, Clock
<1>3. LiveIsFinite'
  BY FS_Subset DEF IInv, LiveIsFinite
<1>4. ExposuresAreLive' /\ OpenIsUnspent' /\ LandedInOrder' /\ WindowComplete'
  BY <1>1 DEF IInv, TypeOK, ExposuresAreLive, OpenIsUnspent, LandedInOrder, WindowComplete
<1>5. RateHolds'
  BY <1>1 DEF RateHolds
<1>6. QED
  BY <1>2, <1>3, <1>4, <1>5 DEF IInv

LEMMA ResetPreserves ==
    ASSUME IInv, Reset
    PROVE  IInv'
<1>1. rows' \in [Ids -> Trace \cup {Absent}] /\ Live' \subseteq Live
  BY DEF Reset, Live
<1>2. QED
  BY <1>1, FreshProcess DEF Reset

LEMMA RestartPreserves ==
    ASSUME IInv, Restart
    PROVE  IInv'
<1> DEFINE stale == [i \in Ids |-> IF rows[i] = Absent THEN Absent
                                   ELSE [rows[i] EXCEPT !.vec = FALSE]]
<1>1. rows' = rows \/ rows' = stale
  BY DEF Restart
<1>2. \A i \in Ids : /\ stale[i] \in Trace \cup {Absent}
                     /\ rows[i] = Absent => stale[i] = Absent
  BY DEF IInv, TypeOK, Trace
<1>3. stale \in [Ids -> Trace \cup {Absent}]
  BY <1>2
<1>4. rows' \in [Ids -> Trace \cup {Absent}]
  BY <1>1, <1>3 DEF IInv, TypeOK
<1>5. Live' \subseteq Live
  BY <1>1, <1>2 DEF Live
<1>6. QED
  BY <1>4, <1>5, FreshProcess DEF Restart

LEMMA TickPreserves ==
    ASSUME IInv, Tick
    PROVE  IInv'
<1>1. /\ UNCHANGED <<rows, writeTimes, exposures, landed, boosts>>
      /\ clock' = clock + 1 /\ clock \in Nat /\ clock' \in Clock /\ Day \in Nat
      /\ \A k \in DOMAIN landed : landed[k] \in Nat
  BY EngramAssumption DEF IInv, TypeOK, Tick, Clock
<1>2. TypeOK' /\ LiveIsFinite' /\ ExposuresAreLive' /\ OpenIsUnspent' /\ RateHolds'
  BY <1>1 DEF IInv, TypeOK, LiveIsFinite, ExposuresAreLive, OpenIsUnspent, RateHolds, Live, Usable
<1>3. LandedInOrder' /\ WindowComplete'
  BY <1>1 DEF IInv, LandedInOrder, WindowComplete
<1>4. QED
  BY <1>2, <1>3 DEF IInv

-----------------------------------------------------------------------------
(* The invariant holds in every reachable state.                           *)

LEMMA InitEstablishes == Init => IInv
<1> SUFFICES ASSUME Init PROVE IInv
  OBVIOUS
<1>1. Live = {}
  BY DEF Init, Live
<1>2. landed \in Seq(Clock) /\ DOMAIN landed = {} /\ Len(landed) = 0
  BY DEF Init
<1>3. TypeOK
  BY <1>2, EngramAssumption DEF Init, TypeOK, Clock
<1>4. LiveIsFinite
  BY <1>1, FS_EmptySet DEF LiveIsFinite
<1>5. ExposuresAreLive /\ OpenIsUnspent /\ LandedInOrder /\ WindowComplete
  BY <1>2 DEF Init, ExposuresAreLive, OpenIsUnspent, LandedInOrder, WindowComplete
<1>6. RateHolds
  BY <1>2 DEF RateHolds
<1>7. QED
  BY <1>3, <1>4, <1>5, <1>6 DEF IInv

LEMMA NextPreserves == IInv /\ [Next]_vars => IInv'
<1> SUFFICES ASSUME IInv, [Next]_vars PROVE IInv'
  OBVIOUS
<1>1. ASSUME NEW text \in Texts, RememberDropped(text) PROVE IInv'
  BY <1>1, DroppedPreserves
<1>2. ASSUME NEW text \in Texts, Remember(text) PROVE IInv'
  BY <1>2, RememberPreserves
<1>3. ASSUME NEW inject \in SUBSET Indexed, Recall(inject) PROVE IInv'
  BY <1>3, RecallPreserves
<1>4. ASSUME NEW cited \in SUBSET exposures, Cite(cited) PROVE IInv'
  BY <1>4, CitePreserves
<1>5. ASSUME NEW i \in Ids, Forget(i) PROVE IInv'
  BY <1>5, ForgetPreserves
<1>6. ASSUME NEW absorbed \in SUBSET Indexed, NEW texts \in SUBSET Texts,
             Consolidate(absorbed, texts)
      PROVE  IInv'
  BY <1>6, ConsolidatePreserves
<1>7. ASSUME NEW gone \in SUBSET Live, NEW put \in Batches, Apply(gone, put) PROVE IInv'
  BY <1>7, ApplyPreserves
<1>8. ASSUME NEW batch \in SUBSET (Usable \ Indexed), Reindex(batch) PROVE IInv'
  BY <1>8, ReindexPreserves
<1>9. CASE Reset
  BY <1>9, ResetPreserves
<1>10. CASE Restart
  BY <1>10, RestartPreserves
<1>11. CASE Tick
  BY <1>11, TickPreserves
<1>12. CASE UNCHANGED vars
  BY <1>12 DEF vars, IInv, TypeOK, LiveIsFinite, ExposuresAreLive, OpenIsUnspent, LandedInOrder,
               WindowComplete, RateHolds, Live, Usable
<1>13. QED
  BY <1>1, <1>2, <1>3, <1>4, <1>5, <1>6, <1>7, <1>8, <1>9, <1>10, <1>11, <1>12 DEF Next

\* The inductive invariant holds throughout.
THEOREM Invariance == Spec => []IInv
BY InitEstablishes, NextPreserves, PTL DEF Spec

\* The engine's variables keep their types.
THEOREM TypeCorrect == Spec => []TypeOK
<1>1. IInv => TypeOK
  BY DEF IInv
<1>2. QED
  BY <1>1, Invariance, PTL

\* A citation window is open only for a stored, usable trace.
THEOREM WindowsAreLive == Spec => []ExposuresAreLive
<1>1. IInv => ExposuresAreLive
  BY DEF IInv
<1>2. QED
  BY <1>1, Invariance, PTL

\* A trace is credited at most once per recall, however often replies quote it.
THEOREM CreditedOnce == Spec => []CitedOncePerRecall
<1>1. IInv => CitedOncePerRecall
  BY DEF IInv, OpenIsUnspent, CitedOncePerRecall
<1>2. QED
  BY <1>1, Invariance, PTL

\* WritesPerDay + 1 successive inserts of one process span more than a day.
THEOREM RateIsLimited == Spec => []RateHolds
<1>1. IInv => RateHolds
  BY DEF IInv
<1>2. QED
  BY <1>1, Invariance, PTL

-----------------------------------------------------------------------------
(* What a step may not do.                                                 *)

\* While an id stays exposed, the row under it stays the trace that was injected.
LEMMA ExposedRowStays ==
    ASSUME IInv, [Next]_vars, NEW i \in exposures, i \in exposures'
    PROVE  rows'[i].text = rows[i].text /\ rows'[i].born = rows[i].born
<1> DEFINE Same == rows'[i].text = rows[i].text /\ rows'[i].born = rows[i].born
<1>0. i \in Ids /\ rows[i] \in Trace
  BY DEF IInv, TypeOK, ExposuresAreLive, Usable, Live
<1>1. ASSUME NEW gone, NEW put, Commit(gone, put) PROVE Same
  BY <1>0, <1>1 DEF Commit
<1>2. ASSUME NEW text \in Texts, Remember(text) PROVE Same
  BY <1>1, <1>2 DEF Remember
<1>3. ASSUME NEW j \in Ids, Forget(j) PROVE Same
  BY <1>1, <1>3 DEF Forget
<1>4. ASSUME NEW absorbed, NEW texts, Consolidate(absorbed, texts) PROVE Same
  BY <1>1, <1>4 DEF Consolidate
<1>5. ASSUME NEW gone, NEW put, Apply(gone, put) PROVE Same
  BY <1>1, <1>5 DEF Apply
<1>6. ASSUME NEW batch, Reindex(batch) PROVE Same
  BY <1>0, <1>6 DEF Reindex, Trace
<1>7. ASSUME rows' = rows PROVE Same
  BY <1>7
<1>8. ASSUME exposures' = {} PROVE FALSE
  BY <1>8
<1>9. QED
  BY <1>2, <1>3, <1>4, <1>5, <1>6, <1>7, <1>8
     DEF Next, RememberDropped, Recall, Cite, Reset, Restart, Tick, vars

\* A later trace under an exposed id never inherits the earlier one's citation window.
THEOREM ExposureIsOfOneTrace == Spec => ExposureNamesOneTrace
<1>1. IInv /\ [Next]_vars =>
        [\A i \in exposures \cap exposures' :
            rows'[i].text = rows[i].text /\ rows'[i].born = rows[i].born]_vars
  BY ExposedRowStays
<1>2. QED
  BY <1>1, Invariance, PTL DEF Spec, ExposureNamesOneTrace

-----------------------------------------------------------------------------
(* Eviction.                                                               *)

LEMMA ExcessIsNatural ==
    ASSUME LiveIsFinite
    PROVE  /\ Cardinality(Live) \in Nat /\ Excess \in Nat
           /\ Cardinality(Live) + 1 <= Capacity + Excess
           /\ Excess <= Cardinality(Live) + 1
  BY FS_CardinalityType, EngramAssumption DEF LiveIsFinite, Excess, Less

\* There are always enough traces to choose from, and the choice takes the whole excess.
LEMMA VictimsMakeRoom ==
    ASSUME LiveIsFinite, NEW id \in Ids \ Live, NEW v \in Victims(id)
    PROVE  v \subseteq Live \cup {id} /\ Cardinality(v) = Excess
<1> DEFINE old == {i \in Live : PastGrace(rows[i].born)}
           pool == Pool(id, Excess)
<1>1. IsFiniteSet(Live \cup {id}) /\ Cardinality(Live \cup {id}) = Cardinality(Live) + 1
  BY FS_AddElement DEF LiveIsFinite
<1>2. pool = Live \cup {id} \/ (pool \subseteq Live /\ ~(Cardinality(pool) < Excess))
  BY DEF Pool
<1>3. IsFiniteSet(pool) /\ Cardinality(pool) \in Nat
  BY <1>1, <1>2, FS_Subset, FS_CardinalityType DEF LiveIsFinite
<1>4. Excess <= Cardinality(pool)
  BY <1>1, <1>2, <1>3, ExcessIsNatural
<1>5. v \subseteq pool /\ Cardinality(v) = Least(Excess, Cardinality(pool))
  BY DEF Victims
<1>6. QED
  BY <1>2, <1>3, <1>4, <1>5, ExcessIsNatural DEF Least

\* Only `remember` lands an insert.
LEMMA OnlyRememberLands ==
    ASSUME IInv, Next, AnInsertLands
    PROVE  \E text \in Texts : Remember(text)
<1>1. Len(landed) \in Nat /\ Len(<<>>) = 0
  BY DEF IInv, TypeOK
<1>2. landed' # landed /\ landed' # <<>>
  BY <1>1 DEF AnInsertLands
<1>3. QED
  BY <1>2 DEF Next, RememberDropped, Recall, Cite, Forget, Consolidate, Apply, Reindex,
              Reset, Restart, Tick

\* What an insert leaves: the new id and the rows there were, but for its victims.
LEMMA LiveAfterInsert ==
    ASSUME IInv, Next, AnInsertLands
    PROVE  \E id \in Ids \ Live : \E v \in Victims(id) : Live' = (Live \cup {id}) \ v
<1> PICK text \in Texts : Remember(text)
  BY OnlyRememberLands
<1> PICK id \in Ids \ Live, vec \in BOOLEAN :
           \E v \in Victims(id) : Commit(v, [i \in {id} |-> Fresh(text, vec)])
  BY DEF Remember
<1> PICK v \in Victims(id) : Commit(v, [i \in {id} |-> Fresh(text, vec)])
  OBVIOUS
<1>1. Fresh(text, vec) # Absent
  BY EngramAssumption DEF IInv, TypeOK, Fresh, Trace
<1>2. \A i \in Ids : i \in Live' <=> i \in (Live \cup {id}) \ v
  BY <1>1 DEF Commit, Live
<1>3. Live' = (Live \cup {id}) \ v
  BY <1>2 DEF Live
<1>4. QED
  BY <1>3

\* The whole excess goes, so an insert leaves the store within its capacity.
LEMMA InsertMakesRoom ==
    ASSUME IInv, Next, AnInsertLands
    PROVE  Cardinality(Live') <= Capacity
<1> PICK id \in Ids \ Live : \E v \in Victims(id) : Live' = (Live \cup {id}) \ v
  BY LiveAfterInsert
<1> PICK v \in Victims(id) : Live' = (Live \cup {id}) \ v
  OBVIOUS
<1>1. IsFiniteSet(Live \cup {id}) /\ Cardinality(Live \cup {id}) = Cardinality(Live) + 1
  BY FS_AddElement DEF IInv, LiveIsFinite
<1>2. v \subseteq Live \cup {id} /\ Cardinality(v) = Excess
  BY VictimsMakeRoom DEF IInv
<1>3. (Live \cup {id}) \cap v = v
  BY <1>2
<1> DEFINE left == (Live \cup {id}) \ v
<1>4. Cardinality(left) = Cardinality(Live) + 1 - Excess
  <2>1. Cardinality(left) = Cardinality(Live \cup {id}) - Cardinality((Live \cup {id}) \cap v)
    BY <1>1, FS_Difference
  <2>2. Cardinality((Live \cup {id}) \cap v) = Excess
    BY <1>2, <1>3, Zenon
  <2>3. QED
    BY <2>1, <2>2, <1>1, ExcessIsNatural DEF IInv
<1> HIDE DEF left
<1>5. Cardinality(left) <= Capacity
  BY <1>4, ExcessIsNatural, EngramAssumption DEF IInv
<1>6. QED
  BY <1>5 DEF left

\* Whatever took the store over its capacity, the next insert brings it back within it.
THEOREM InsertAlwaysFits == Spec => InsertFits
<1>1. IInv /\ [Next]_vars => [AnInsertLands => Cardinality(Live') <= Capacity]_vars
  BY InsertMakesRoom
<1>2. QED
  BY <1>1, Invariance, PTL DEF Spec, InsertFits

\* While the young traces keep to their share, the older ones are enough to choose from.
LEMMA VictimsRespectGrace ==
    ASSUME IInv, NEW id \in Ids \ Live, NEW v \in Victims(id),
           NEW old, old = {i \in Live : PastGrace(rows[i].born)},
           Cardinality(Live \ old) + (IF GracePeriod > 0 THEN 1 ELSE 0) <= YoungShare
    PROVE  v \subseteq old
<1>1. /\ IsFiniteSet(Live \ old) /\ Cardinality(Live \ old) \in Nat
      /\ IsFiniteSet(old) /\ Cardinality(old) \in Nat
      /\ IsFiniteSet(Live) /\ Cardinality(Live) \in Nat
  BY FS_Subset, FS_CardinalityType DEF IInv, LiveIsFinite
<1>2. Cardinality(Live \ old) = Cardinality(Live) - Cardinality(old)
  <2>1. Live \cap old = old
    OBVIOUS
  <2>2. Cardinality(Live \ old) = Cardinality(Live) - Cardinality(Live \cap old)
    BY <1>1, FS_Difference
  <2>3. Cardinality(Live \cap old) = Cardinality(old)
    BY <2>1, Zenon
  <2>4. QED
    BY <2>2, <2>3
<1>3. ~(Cardinality(old) < Excess)
  <2>1. Excess = 0 \/ Excess = Cardinality(Live) + 1 - Capacity
    BY <1>1, EngramAssumption DEF Excess, Less
  <2>2. QED
    BY <1>1, <1>2, <2>1, EngramAssumption
<1>4. PastGrace(clock) <=> ~(GracePeriod > 0)
  BY EngramAssumption DEF IInv, TypeOK, Clock, PastGrace
<1>5. Least(Cardinality(Live \ old), YoungShare + 1) + (IF PastGrace(clock) THEN 0 ELSE 1)
        <= YoungShare
  <2>1. Least(Cardinality(Live \ old), YoungShare + 1) = Cardinality(Live \ old)
    BY <1>1, EngramAssumption DEF Least
  <2>2. QED
    BY <2>1, <1>4, <1>1, EngramAssumption
<1>6. Pool(id, Excess) = old
  BY <1>5, <1>3 DEF Pool
<1>7. QED
  BY <1>6 DEF Victims

\* Whatever the store holds and however far over its capacity it is, an insert takes a trace
\* inside its grace period only in a flood of young ones.
THEOREM GraceIsRespected == Spec => GraceRespected
<1> DEFINE Old == {i \in Live : PastGrace(rows[i].born)}
           Gone == Live \ Live'
           OwnVictim == Live' \subseteq Live
           Young == Cardinality(Live \ Old) + (IF GracePeriod > 0 THEN 1 ELSE 0)
           Respected ==
             ~(Gone \subseteq Old) \/ (OwnVictim /\ GracePeriod > 0) => Young > YoungShare
<1>1. ASSUME IInv, Next, AnInsertLands
      PROVE  Respected
  <2> PICK id \in Ids \ Live : \E v \in Victims(id) : Live' = (Live \cup {id}) \ v
    BY <1>1, LiveAfterInsert
  <2> PICK v \in Victims(id) : Live' = (Live \cup {id}) \ v
    OBVIOUS
  <2>1. Young <= YoungShare => v \subseteq Old
    BY <1>1, VictimsRespectGrace
  <2>2. Gone = v \cap Live /\ (OwnVictim => id \in v) /\ Old \subseteq Live /\ id \notin Old
    OBVIOUS
  <2>3. Young \in Nat /\ YoungShare \in Nat
    <3>1. IsFiniteSet(Live \ Old)
      BY <1>1, FS_Subset DEF IInv, LiveIsFinite
    <3>2. QED
      BY <3>1, FS_CardinalityType, EngramAssumption
  <2> HIDE DEF Old, Young
  <2>4. QED
    BY <2>1, <2>2, <2>3
<1>2. IInv /\ [Next]_vars => [AnInsertLands => Respected]_vars
  BY <1>1
<1>3. QED
  BY <1>2, Invariance, PTL DEF Spec, GraceRespected
=============================================================================
