------------------------------- MODULE Recall -------------------------------
(***************************************************************************)
(* What a recall injects (select, pool, scored, floor and mmr of           *)
(* src/src/engine.rs): each cue finds its nearest traces, a second pass    *)
(* reads further when an unseen trace could clear the floor, and the pool  *)
(* is diversified and packed into a budget.  A search returns exactly the  *)
(* nearest usable traces (Search).                                         *)
(*                                                                         *)
(* A cosine stands for the activation it gives, a whole number, and a      *)
(* trace's weight over the full weight for alpha + (1 - alpha) R, which    *)
(* its strength sets.  The query has cues and the store holds traces.      *)
(***************************************************************************)
EXTENDS Integers, Sequences, FiniteSets, FiniteSetsExt

CONSTANTS
    Traces,         \* positions 1 .. n, in the order of the ids
    Cues,           \* parts of the query
    MaxCosine,
    Weights, FullWeight,
    Similarity,     \* of the vectors of two traces
    LineLength,     \* of each trace in the pack
    InjectN,        \* cfg.inject_n
    PoolFactor,     \* 4
    MinScore,       \* cfg.min_score
    RelativeNum, RelativeDen,   \* cfg.relative_score
    MmrLambda,      \* cfg.mmr_lambda
    Budget          \* cfg.budget_chars

ASSUME RecallAssumption ==
    /\ IsFiniteSet(Traces) /\ Traces = 1 .. Cardinality(Traces)
    /\ Traces # {} /\ Cues # {}
    /\ MaxCosine \in Nat /\ FullWeight \in Nat
    /\ Weights \subseteq 1 .. FullWeight
    /\ LineLength \in [Traces -> Nat \ {0}]
    /\ Similarity \in [Traces -> [Traces -> Nat]]
    /\ \A t \in Traces, u \in Traces : Similarity[t][u] = Similarity[u][t]
    /\ InjectN \in Nat \ {0} /\ PoolFactor \in Nat \ {0}
    /\ MinScore \in Nat /\ MmrLambda \in Nat /\ Budget \in Nat
    /\ RelativeDen \in Nat \ {0} /\ RelativeNum \in 0 .. RelativeDen

CosineRange == 0 .. MaxCosine

VARIABLES
    cosine,     \* of each trace to each cue
    weight,     \* of each trace
    phase,      \* "start", "second", "pick", "done" or "offline"
    pool,       \* candidates, then those that clear the floor
    maxSim,     \* of each trace to the nearest picked one
    picked,     \* traces mmr has selected, in order
    recalled,   \* those of them that fit in the pack
    used        \* the length of the pack

vars == <<cosine, weight, phase, pool, maxSim, picked, recalled, used>>

-----------------------------------------------------------------------------
(* Scores.                                                                 *)

Activation(c) == FullWeight * c

BestCosine(t) == Max({cosine[q][t] : q \in Cues})

Score(t) == BestCosine(t) * weight[t]

TopScore(S) == Max({0} \cup {Score(t) : t \in S})

\* Reaches the floor that the best score sets: absolute, and relative to it.
ReachesFloor(score, top) == score >= MinScore /\ RelativeDen * score >= RelativeNum * top

Clear(S) == LET top == TopScore(S) IN {t \in S : ReachesFloor(Score(t), top)}

-----------------------------------------------------------------------------
(* The pool.                                                               *)

Nearer(q, t, u) == cosine[q][t] > cosine[q][u] \/ (cosine[q][t] = cosine[q][u] /\ t < u)

\* The k nearest of a cue with one of the cosines.
Near(q, cosines, k) ==
    LET found == {t \in Traces : cosine[q][t] \in cosines}
    IN  {t \in found : Cardinality({u \in found : Nearer(q, u, t)}) < k}

Hits(cosines, k) == UNION {Near(q, cosines, k) : q \in Cues}

\* The cosine of the k-th hit, for each cue that returned k.
Kths(cosines, k) ==
    {Min({cosine[q][t] : t \in Near(q, cosines, k)}) :
        q \in {p \in Cues : Cardinality(Near(p, cosines, k)) = k}}

K == PoolFactor * InjectN

\* Below min_score no trace is read: its score is at most its activation.
FirstCosines == {c \in CosineRange : Activation(c) >= MinScore}

SeenByOneCue(S, kths) ==        \* mutant: takes the cue that saw furthest for all of them
    kths = {} \/ ~ReachesFloor(Activation(Min(kths)), TopScore(S)) \/ K >= Cardinality(Traces)

\* No trace that was not returned could clear the floor.
AllSeen(S, kths) ==
    kths = {} \/ ~ReachesFloor(Activation(Max(kths)), TopScore(S)) \/ K >= Cardinality(Traces)

\* The embedder fails, or answers with another count or dimension: nothing to cue with.
Offline ==
    /\ phase = "start"
    /\ phase' = "offline"
    /\ UNCHANGED <<cosine, weight, pool, maxSim, picked, recalled, used>>

FirstPass ==
    LET hits == Hits(FirstCosines, K)
    IN  /\ phase = "start"
        /\ IF AllSeen(hits, Kths(FirstCosines, K))
           THEN phase' = "pick" /\ pool' = Clear(hits)
           ELSE phase' = "second" /\ pool' = hits
        /\ UNCHANGED <<cosine, weight, maxSim, picked, recalled, used>>

\* Every trace at or above the cosine that the floor of the first pass needs.
SecondPass ==
    LET top == TopScore(pool)
        hits == Hits({c \in CosineRange : ReachesFloor(Activation(c), top)},
                     Max({K, Cardinality(Traces)}))
    IN  /\ phase = "second"
        /\ phase' = "pick" /\ pool' = Clear(hits)
        /\ UNCHANGED <<cosine, weight, maxSim, picked, recalled, used>>

-----------------------------------------------------------------------------
(* Diversifying and packing.                                               *)

InSeq(s) == {s[i] : i \in DOMAIN s}

Alive == pool \ InSeq(picked)

More == Alive # {} /\ Len(picked) < InjectN

Value(t) == Score(t) - MmrLambda * maxSim[t]

\* The most valuable, the first in id order where several are.
Favourite(t) ==
    /\ t \in Alive
    /\ \A u \in Alive : Value(t) > Value(u) \/ (Value(t) = Value(u) /\ t <= u)

FitsAlways(t) == used + LineLength[t] <= Budget     \* mutant: the first line may not fit either

\* A line over the budget is left out, unless it is the first.
Fits(t) == recalled = <<>> \/ used + LineLength[t] <= Budget

Pack(t) ==
    IF Fits(t) THEN recalled' = Append(recalled, t) /\ used' = used + LineLength[t]
    ELSE UNCHANGED <<recalled, used>>

PickForgetful ==                \* mutant: only the last pick is kept away from
    /\ phase = "pick" /\ More
    /\ \E t \in Traces : /\ Favourite(t) /\ Pack(t)
                         /\ picked' = Append(picked, t)
                         /\ maxSim' = [u \in Traces |-> Similarity[u][t]]
    /\ UNCHANGED <<cosine, weight, phase, pool>>

Pick ==
    /\ phase = "pick" /\ More
    /\ \E t \in Traces :
          /\ Favourite(t) /\ Pack(t)
          /\ picked' = Append(picked, t)
          /\ maxSim' = [u \in Traces |->
                 IF maxSim[u] < Similarity[u][t] THEN Similarity[u][t] ELSE maxSim[u]]
    /\ UNCHANGED <<cosine, weight, phase, pool>>

Finish ==
    /\ phase = "pick" /\ ~More
    /\ phase' = "done"
    /\ UNCHANGED <<cosine, weight, pool, maxSim, picked, recalled, used>>

Init ==
    /\ cosine \in [Cues -> [Traces -> CosineRange]]
    /\ weight \in [Traces -> Weights]
    /\ phase = "start"
    /\ pool = {}
    /\ maxSim = [t \in Traces |-> 0]
    /\ picked = <<>> /\ recalled = <<>> /\ used = 0

Next == Offline \/ FirstPass \/ SecondPass \/ Pick \/ Finish

Spec == Init /\ [][Next]_vars

-----------------------------------------------------------------------------
(* Properties.                                                             *)

\* The length of a pack of these lines.
LengthOf(lines) ==
    LET size[n \in 0 .. Len(lines)] ==
            IF n = 0 THEN 0 ELSE size[n - 1] + LineLength[lines[n]]
    IN  size[Len(lines)]

\* What a search over every trace would keep.
TruePool == Clear({t \in Traces : Activation(BestCosine(t)) >= MinScore})

\* The pool holds every trace that clears the floor and no other, though at most two bounded
\* searches per cue were made, each ranking by cosine and not by score (the doc of pool).
PoolIsExact == phase \in {"pick", "done"} => pool = TruePool

\* The last trace picked had the best score less its likeness to the nearest of all those
\* picked before it (the doc of mmr): near duplicates of any of them wait their turn.
PickIsDiverse ==
    [][picked' # picked =>
         LET worth(t) == Score(t) - MmrLambda *
                 Max({0} \cup {Similarity[t][u] : u \in InSeq(picked)})
             last == picked'[Len(picked')]
         IN  \A t \in pool \ InSeq(picked) : worth(last) >= worth(t)]_vars

\* The pack stays within the budget unless its one line is over it, a recall that found a
\* trace injects the best one, and a line is only left out for want of room (select).
PackIsUsed ==
    phase = "done" =>
        LET size == LengthOf(recalled) IN
        /\ size <= Budget \/ Len(recalled) = 1
        /\ pool # {} => recalled # <<>> /\ recalled[1] = picked[1]
        /\ \A t \in InSeq(picked) \ InSeq(recalled) : size + LineLength[t] > Budget

=============================================================================
