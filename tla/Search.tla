------------------------------- MODULE Search -------------------------------
(***************************************************************************)
(* A search through the rows the engine cannot trust: the bundled store's  *)
(* near (src/src/store.rs), which scans the vectors of the nearest lists   *)
(* and keeps the best, skipping rows it cannot find; the engine's near,    *)
(* which asks for more while rows it cannot use take the places of others; *)
(* and the engine's find over an ordered view, which widens the same way   *)
(* (src/src/engine.rs).                                                    *)
(*                                                                         *)
(* An entry is named by its place in the scan, lists with the nearest      *)
(* centroids first, and in an ordered view by its place in the view.       *)
(***************************************************************************)
EXTENDS Naturals, FiniteSets, SequencesExt

CONSTANTS
    Cosines,        \* cosines at or above min_cos
    IdOf,           \* the order of the ids of entries, which breaks ties
    MaxEntries,     \* bound: entries in the store
    MaxWanted,      \* bound: hits asked for
    PROBE_VECTORS,
    NEAR_REACH_MAX,
    JUNK_READ,
    FindFactor      \* 8: rows read per row asked for

ASSUME SearchAssumption ==
    /\ Cosines \subseteq Int
    /\ IdOf \in [1 .. MaxEntries -> Int]
    /\ MaxEntries \in Nat /\ MaxWanted \in Nat
    /\ PROBE_VECTORS \in Nat \ {0} /\ NEAR_REACH_MAX \in Nat
    /\ PROBE_VECTORS < NEAR_REACH_MAX
    /\ JUNK_READ \in Nat /\ FindFactor \in Nat \ {0}
    /\ \A i \in 1 .. MaxEntries, j \in 1 .. MaxEntries : IdOf[i] = IdOf[j] => i = j

VARIABLES
    entries,    \* the store
    op,         \* "near", "scan", "hits", "find" or "done"
    wanted,     \* k, or the limit
    ask,        \* what the store is asked for in this round
    scan,       \* the scan: the next place, hits to keep, the best and the bar so far
    hits,       \* what the store's near returned
    result,     \* entries returned
    kth         \* the last hit when there may be more, or 0

searchVars == <<entries, op, wanted, ask, scan, hits, result, kth>>

\* A usable row; one the engine cannot use, which a row that cannot be decoded is read as;
\* an id without a row, in a file damaged or edited; an entry that near passes over: below
\* min_cos, stated too late, or with a damaged vector.
Kinds == {"ok", "junk", "gone", "skipped"}

Entry == [cos : Cosines, kind : Kinds \ {"skipped"}] \cup [cos : {0}, kind : {"skipped"}]

Is(i, kinds) == entries[i].kind \in kinds

Smaller(a, b) == IF a < b THEN a ELSE b

-----------------------------------------------------------------------------
(* The store.                                                              *)

\* Hits are ordered by cosine, and by id where it is the same.
Better(i, j) ==
    \/ entries[i].cos > entries[j].cos
    \/ entries[i].cos = entries[j].cos /\ IdOf[i] < IdOf[j]

\* The n best of a set.
Top(S, n) == {i \in S : Cardinality({j \in S : Better(j, i)}) < n}

Worst(S) == CHOOSE i \in S : \A j \in S \ {i} : Better(j, i)

\* A scan stops after PROBE_VECTORS vectors.
Reached == scan.place > Smaller(Len(entries), PROBE_VECTORS)

Scan(keep) == [place |-> 1, keep |-> keep, best |-> {}, bar |-> 0]

\* rows: ids without a row are left out.
Readable(S) == {i \in S : ~Is(i, {"gone"})}

BeginScan ==
    /\ op = "near"
    /\ op' = "scan" /\ scan' = Scan(ask)
    /\ UNCHANGED <<entries, wanted, ask, hits, result, kth>>

\* Only a hit that can still enter the best is copied: one better than the bar.
CanEnter(i) == scan.bar = 0 \/ Better(i, scan.bar)

\* The buffer is cut back to the best whenever it doubles, which sets the bar.
ScanEntry ==
    /\ op = "scan" /\ ~Reached
    /\ LET best == scan.best \cup {scan.place}
       IN  scan' = [scan EXCEPT
             !.place = @ + 1,
             !.best = IF Is(scan.place, {"skipped"}) \/ ~CanEnter(scan.place) THEN @
                      ELSE IF Cardinality(best) >= 2 * scan.keep THEN Top(best, scan.keep)
                      ELSE best,
             !.bar = IF Is(scan.place, {"skipped"}) \/ ~CanEnter(scan.place) THEN @
                     ELSE IF Cardinality(best) >= 2 * scan.keep THEN Worst(Top(best, scan.keep))
                     ELSE @]
    /\ UNCHANGED <<entries, op, wanted, ask, hits, result, kth>>

DroppedAtTheEnd == Cardinality(scan.best) > scan.keep   \* mutant: forgets the cuts

\* Whether the scan left out hits that might take the place of an id without a row.
Dropped == Cardinality(scan.best) > scan.keep \/ scan.bar # 0

Kept == Readable(Top(scan.best, scan.keep))

ScanAll ==                      \* ids without a row leave too few hits: all are kept
    /\ op = "scan" /\ Reached
    /\ Cardinality(Kept) < ask /\ Dropped
    /\ scan' = Scan(PROBE_VECTORS)
    /\ UNCHANGED <<entries, op, wanted, ask, hits, result, kth>>

StoreAnswers ==
    /\ op = "scan" /\ Reached
    /\ Cardinality(Kept) >= ask \/ ~Dropped
    /\ op' = "hits" /\ hits' = Top(Kept, ask) /\ scan' = Scan(0)
    /\ UNCHANGED <<entries, wanted, ask, result, kth>>

\* The store's find: the rows of the first n ids of the view.
StoreFind(n) == Readable({i \in DOMAIN entries : i <= n})

-----------------------------------------------------------------------------
(* The engine.                                                             *)

Usable(S) == {i \in S : ~Is(i, {"junk"})}

EnoughWhenUsableRunOut(got, reach) ==  \* mutant: unusable rows count as the store's end
    Cardinality(Usable(got)) >= wanted \/ Cardinality(Usable(got)) < ask \/ ask >= reach

\* No wider read is made: there are enough, the store has no more, or too much was read.
Enough(got, reach) ==
    Cardinality(Usable(got)) >= wanted \/ Cardinality(got) < ask \/ ask >= reach

NearReach ==
    LET most == Smaller(Len(entries), NEAR_REACH_MAX) IN IF most < wanted THEN wanted ELSE most

FindReach == FindFactor * wanted + JUNK_READ

AskAgain(reach) == ask' = ask /\ reach > 0      \* mutant: the same is asked again

Widen(reach) == ask' = Smaller(2 * ask, reach)

Answer(S, last) ==
    /\ op' = "done" /\ result' = S /\ kth' = last /\ hits' = {}
    /\ UNCHANGED <<entries, wanted, ask, scan>>

NearWidens ==
    /\ op = "hits" /\ ~Enough(hits, NearReach)
    /\ Widen(NearReach)
    /\ op' = "near" /\ hits' = {}
    /\ UNCHANGED <<entries, wanted, scan, result, kth>>

\* The k best, and the k-th when there may be more.
NearAnswers ==
    LET best == Top(Usable(hits), wanted)
    IN  /\ op = "hits" /\ Enough(hits, NearReach)
        /\ Answer(best, IF Cardinality(best) = wanted THEN Worst(best) ELSE 0)

FindWidens ==
    /\ op = "find" /\ ~Enough(StoreFind(ask), FindReach)
    /\ Widen(FindReach)
    /\ UNCHANGED <<entries, op, wanted, scan, hits, result, kth>>

FirstOf(S, n) == {i \in S : Cardinality({j \in S : j < i}) < n}

FindAnswers ==
    /\ op = "find" /\ Enough(StoreFind(ask), FindReach)
    /\ Answer(FirstOf(Usable(StoreFind(ask)), wanted), 0)

SearchInit ==
    /\ entries \in BoundedSeq(Entry, MaxEntries)
    /\ op \in {"near", "find"}
    /\ wanted \in 1 .. MaxWanted
    /\ ask = wanted
    /\ scan = Scan(0)
    /\ hits = {} /\ result = {} /\ kth = 0

SearchNext ==
    \/ BeginScan \/ ScanEntry \/ ScanAll \/ StoreAnswers
    \/ NearWidens \/ NearAnswers
    \/ FindWidens \/ FindAnswers

SearchSpec == SearchInit /\ [][SearchNext]_searchVars /\ WF_searchVars(SearchNext)

-----------------------------------------------------------------------------
(* Properties.                                                             *)

\* The usable rows among those a similarity search probes.
Good == {i \in 1 .. Smaller(Len(entries), PROBE_VECTORS) : Is(i, {"ok"})}

\* A similarity search returns exactly the best of the usable rows it probed: junk and
\* ids without rows nearer than the real answer never hide it, nor do ties or the cuts of
\* the buffer.  And the k-th cosine it returns bounds every usable row it left out: without
\* one it left out none, which is how a caller knows how far it has seen (both near).
NearIsExact ==
    [][op = "hits" /\ op' = "done" =>
         /\ result' = Top(Good, wanted)
         /\ \A i \in Good \ result' : kth' # 0 /\ Better(kth', i)]_searchVars

\* An ordered read of a store whose ids all have rows returns the first usable rows of the
\* view, unless more rows than the reach are in the way (find: no "first N" is ever answered
\* from junk alone).
FindIsComplete ==
    [][op = "find" /\ op' = "done" /\ Readable(DOMAIN entries) = DOMAIN entries =>
         \/ result' = FirstOf(Usable(DOMAIN entries), wanted)
         \/ result' = Usable(StoreFind(FindReach)) /\ Cardinality(result') < wanted]_searchVars

\* However many rows are unusable or gone, the search ends.
SearchEnds == <>(op = "done")
=============================================================================
