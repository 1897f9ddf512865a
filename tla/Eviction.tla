------------------------------ MODULE Eviction ------------------------------
(***************************************************************************)
(* How an insert over the capacity finds the traces to forget (victims in  *)
(* src/src/engine.rs).  The rank of a trace changes with time, so no index *)
(* orders by it; the store orders each stability band by the last recall,  *)
(* and the engine reads the head of every band, then reads on in each band *)
(* whose next row could still be among the weakest.  A pass over the       *)
(* traces past their grace comes first, then perhaps one over all.         *)
(*                                                                         *)
(* Rows are listed in the order of the index, longest unrecalled first;    *)
(* their rank is a number that grows with the stability and falls with the *)
(* time since the last recall.                                             *)
(***************************************************************************)
EXTENDS Integers, Sequences, FiniteSets, FiniteSetsExt

CONSTANTS
    Stabilities,    \* stabilities in use, and those of rows
    Band,           \* the band of each
    Rank,           \* log2 strength, of a stability and an idle time
    IdleTimes,
    MaxRows,        \* bound: rows in the store before the insert
    MaxExcess,      \* bound: how far the insert takes the store over its capacity
    ShareDivisor,   \* the young share is capacity / 10
    MaxStability,   \* cfg.max_stability
    NewStability,   \* of the trace to insert
    GracePeriod,    \* cfg.grace_period
    BAND_DEPTH, BAND_CAP, DEAD

Clamp(s) == IF s < MaxStability THEN s ELSE MaxStability

\* The least stability a row of a band can have.
BandLow(b) == Min({s \in Stabilities : Band[s] = b})

ASSUME EvictionAssumption ==
    /\ Stabilities \subseteq Nat
    /\ MaxStability \in Stabilities /\ NewStability \in Stabilities
    /\ IdleTimes \subseteq Nat /\ 0 \in IdleTimes
    /\ \E longest \in IdleTimes : \A d \in IdleTimes : d <= longest
    /\ Rank \in [Stabilities -> [IdleTimes -> Int]]
    /\ MaxRows \in Nat /\ MaxExcess \in Nat /\ GracePeriod \in Nat
    /\ BAND_DEPTH \in Nat /\ BAND_CAP \in Nat /\ DEAD \in Int
    /\ ShareDivisor \in Nat \ {0, 1}
    /\ \A s \in Stabilities, t \in Stabilities : s < t => Band[s] <= Band[t]
    /\ \A s \in Stabilities, t \in Stabilities, d \in IdleTimes, e \in IdleTimes :
          s >= t /\ d <= e => Rank[s][d] >= Rank[t][e]

VARIABLES
    rows,       \* the store: rows in the order of their last recall
    capacity,   \* cfg.capacity: at least 1, and less than the rows and the new one
    pass,       \* "old": traces past their grace; "all"; "done"
    limit,      \* rows asked for in each band
    victims     \* what is forgotten: positions of rows, and 0 for the new trace

evictionVars == <<rows, capacity, pass, limit, victims>>

Bands == {Band[s] : s \in Stabilities}

\* A row is usable; or junk that the engine cannot use; or damaged: the store finds it in
\* its place in the indexes and reads it as a row without text, recalled at time 0; or lost:
\* a storage outside the engine's control counts it and does not list it.
\* A trace was recalled last when it was created, or later.
Row == {r \in [stability : Stabilities, idle : IdleTimes, young : BOOLEAN,
               kind : {"usable", "junk", "damaged", "lost"}] :
           /\ r.young => r.idle < GracePeriod
           /\ r.kind = "lost" => r.idle = 0 /\ r.stability = NewStability}

\* The stores, by decreasing idle time.
Tables ==
    {t \in UNION {[1 .. n -> Row] : n \in 1 .. MaxRows} :
        \A i \in DOMAIN t, j \in DOMAIN t : i < j => t[i].idle >= t[j].idle}

New == [stability |-> NewStability, idle |-> 0, young |-> GracePeriod > 0,
        kind |-> "usable"]

RowOf(i) == IF i = 0 THEN New ELSE rows[i]

\* The rank of a row as `checked` reads it, with its stability clamped.
RankOf(i) == Rank[Clamp(RowOf(i).stability)][RowOf(i).idle]

Excess == Len(rows) + 1 - capacity

Cap == IF BAND_CAP > Excess + BAND_DEPTH THEN BAND_CAP ELSE Excess + BAND_DEPTH

-----------------------------------------------------------------------------
(* Reading.                                                                *)

\* What the store finds in a band, in this pass.
Found(b) == {i \in DOMAIN rows : /\ Band[rows[i].stability] = b
                                 /\ rows[i].kind # "lost"
                                 /\ pass = "old" => ~rows[i].young}

\* The first rows of it, up to the limit.
Window(b) == {i \in Found(b) : Cardinality({j \in Found(b) : j <= i}) <= limit[b]}

IsFull(b) == Cardinality(Window(b)) = limit[b]

Read == UNION {Window(b) : b \in Bands}

IsJunk(i) == RowOf(i).kind \in {"junk", "damaged"}

\* i may come before j: junk ranks below everything.
Weaker(i, j) == IsJunk(i) \/ (~IsJunk(j) /\ RankOf(i) <= RankOf(j))

\* The n weakest of a set of rows, in each way ties can fall.
Weakest(S, n) ==
    {v \in kSubset(n, S) : \A i \in v, j \in S \ v : Weaker(i, j)}

\* The last of the n weakest read is at or below the bound: an unusable row always is.
NthIsAtMost(n, bound) ==
    Cardinality({i \in Read : IsJunk(i) \/ RankOf(i) <= bound}) >= n

\* The last row read of a band is a lower bound on how recently the next was recalled.
LastRank(b) == RankOf(Max(Window(b)))   \* mutant: no row beyond ranks below the last one

\* The time since the last row of a window was recalled, as that row states it.
LastIdle(b) ==
    LET last == rows[Max(Window(b))]
    IN  IF last.kind = "damaged" THEN Max(IdleTimes) ELSE last.idle

\* No row beyond the window of band b ranks below this.
RankBeyond(b) == Rank[Clamp(BandLow(b))][LastIdle(b)]

\* Bands a row among the weakest might lie further down in.
ToGrow ==
    IF Cardinality(Read) < Excess \/ NthIsAtMost(Excess, DEAD) THEN {}
    ELSE {b \in Bands : /\ IsFull(b) /\ limit[b] < Cap
                        /\ ~NthIsAtMost(Excess, RankBeyond(b) - 1)}

-----------------------------------------------------------------------------
(* The two passes.                                                         *)

FirstLimits == [b \in Bands |-> Excess + BAND_DEPTH]

\* The young ones, the new trace included, exceed their share: no trace is protected.
Flood == Cardinality({i \in DOMAIN rows : rows[i].young}) + (IF New.young THEN 1 ELSE 0)
             > capacity \div ShareDivisor

\* One round of the loop: every window that may hide a weak row is read again, four times
\* as long.
Grow ==
    /\ pass # "done" /\ ToGrow # {}
    /\ limit' = [b \in Bands |->
                   IF b \notin ToGrow THEN limit[b]
                   ELSE IF 4 * limit[b] < Cap THEN 4 * limit[b] ELSE Cap]
    /\ UNCHANGED <<rows, capacity, pass, victims>>

FinishShort ==                  \* mutant: too few old traces, and no second pass
    /\ pass = "old" /\ ToGrow = {}
    /\ pass' = "done"
    /\ victims' \in Weakest(Read, Min({Excess, Cardinality(Read)}))
    /\ UNCHANGED <<rows, capacity, limit>>

\* The first pass read enough.
FinishOld ==
    /\ pass = "old" /\ ToGrow = {}
    /\ Cardinality(Read) >= Excess
    /\ pass' = "done"
    /\ victims' \in Weakest(Read, Excess)
    /\ UNCHANGED <<rows, capacity, limit>>

\* It did not: all traces are candidates.
ReadAll ==
    /\ pass = "old" /\ ToGrow = {}
    /\ Cardinality(Read) < Excess
    /\ pass' = "all" /\ limit' = FirstLimits
    /\ UNCHANGED <<rows, capacity, victims>>

\* The new trace may be its own victim.
FinishAll ==
    /\ pass = "all" /\ ToGrow = {}
    /\ pass' = "done"
    /\ victims' \in Weakest(Read \cup {0}, Min({Excess, Cardinality(Read) + 1}))
    /\ UNCHANGED <<rows, capacity, limit>>

StartingPass == IF Flood THEN "all" ELSE "old"

EvictionInit ==
    /\ rows \in Tables
    /\ capacity \in {c \in 1 .. Len(rows) : Len(rows) + 1 - c <= MaxExcess}
    /\ pass = StartingPass
    /\ limit = FirstLimits
    /\ victims = {}

EvictionNext == Grow \/ FinishOld \/ ReadAll \/ FinishAll

EvictionSpec == EvictionInit /\ [][EvictionNext]_evictionVars

-----------------------------------------------------------------------------
(* Properties.                                                             *)

Done == pass = "done"

Listed == {i \in DOMAIN rows : rows[i].kind # "lost"}

Old == {i \in Listed : ~rows[i].young}

\* The traces eviction may choose from: those past their grace, or every one when the young
\* ones flood the store or too few are past it.
Candidates == IF Flood \/ Cardinality(Old) < Excess THEN {0} \cup Listed ELSE Old

\* As many traces go as are over the capacity, or as are listed, and out of those that may
\* go (the doc of victims).
RightOnesGo ==
    Done => /\ victims \subseteq Candidates
            /\ Cardinality(victims) = Min({Excess, Cardinality(Candidates)})

\* No usable trace is spared that is weaker than one forgotten, though no window may have
\* reached it: only among dead traces, and beyond BAND_CAP rows of one band.
WeakestGo ==
    Done =>
        \A i \in victims, j \in Candidates \ victims :
            \/ IsJunk(i) \/ IsJunk(j)
            \/ RankOf(i) <= RankOf(j)
            \/ RankOf(i) <= DEAD
            \/ Cardinality({k \in Candidates \ {0} :
                     Band[rows[k].stability] = Band[RowOf(j).stability] /\ k < j}) >= Cap

=============================================================================
