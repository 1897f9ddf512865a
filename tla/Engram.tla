------------------------------- MODULE Engram -------------------------------
(***************************************************************************)
(* The waking engine (src/src/engine.rs): remember, recall, cite, forget,  *)
(* and the commits of the dream, of undo and of a synchronising host, over *)
(* a storage that is an atomic map (Store implements that map).  What a    *)
(* state write strengthens is left out: no property here depends on how    *)
(* strong a trace is, so which of the evictable traces are the weakest,    *)
(* and which traces a query reaches, are choices.  An operation that fails *)
(* before it changes anything is a stuttering step.                        *)
(***************************************************************************)
EXTENDS Naturals, Sequences, FiniteSets, Functions

CONSTANTS
    Ids,            \* trace ids
    Texts,          \* usable propositions
    Junk,           \* a text that cleans to nothing: a row the engine cannot use
    Absent,         \* no row has this id
    Capacity,       \* cfg.capacity
    YoungShare,     \* cfg.capacity / 10: young traces protected at once
    GracePeriod,    \* cfg.grace_period
    WritesPerDay,   \* cfg.writes_per_day
    Day,            \* 86 400 seconds, in the model's time unit
    InjectN,        \* cfg.inject_n
    Batches,        \* bound: what undo and hosts write: functions from ids to traces
    MaxClock        \* bound: the last time of the model

VARIABLES
    rows,        \* the storage: rows[i] is a trace or Absent
    clock,       \* what Engram::now reads
    writeTimes,  \* write_times, each entry named by the insert it dates: a position in landed
    exposures,   \* the ids the last recall injected and no one has cited
    landed,      \* when each insert of this process landed
    boosts       \* history: citations each id was credited since the last recall

vars == <<rows, clock, writeTimes, exposures, landed, boosts>>

Clock == 0 .. MaxClock

Trace == [text : Texts \cup {Junk}, born : Clock, vec : BOOLEAN]

ASSUME EngramAssumption ==
    /\ Junk \notin Texts
    /\ Absent \notin Trace
    /\ Capacity \in Nat \ {0}
    /\ YoungShare \in Nat /\ YoungShare < Capacity
    /\ GracePeriod \in Nat
    /\ WritesPerDay \in Nat
    /\ Day \in Nat
    /\ InjectN \in Nat
    /\ MaxClock \in Nat
    /\ \A put \in Batches :
          /\ IsFiniteSet(DOMAIN put) /\ DOMAIN put \subseteq Ids
          /\ \A i \in DOMAIN put : put[i] \in Trace

-----------------------------------------------------------------------------
(* Reading.                                                                *)

Live == {i \in Ids : rows[i] # Absent}

\* The rows that pass `checked`.
Usable == {i \in Live : rows[i].text # Junk}

\* The rows a similarity search returns under the current model.
Indexed == {i \in Usable : rows[i].vec}

PastGrace(born) == born + GracePeriod <= clock

Less(a, b) == IF a > b THEN a - b ELSE 0

Least(a, b) == IF a < b THEN a ELSE b

-----------------------------------------------------------------------------
(* Committing.                                                             *)

CommitKeepsRewritten(gone, put) ==  \* mutant: only a removal ends a citation window
    /\ rows' = [i \in Ids |-> IF i \in gone THEN Absent
                              ELSE IF i \in DOMAIN put THEN put[i] ELSE rows[i]]
    /\ exposures' = exposures \ gone

\* One atomic write that inserts the traces of `put` and removes the ids of `gone`.  Every
\* trace it removes or rewrites loses its citation window.
Commit(gone, put) ==
    /\ rows' = [i \in Ids |-> IF i \in gone THEN Absent
                              ELSE IF i \in DOMAIN put THEN put[i] ELSE rows[i]]
    /\ exposures' = exposures \ (gone \cup DOMAIN put)

-----------------------------------------------------------------------------
(* Remembering.                                                            *)

\* write_times.retain: an entry more than a day from now, either way, no longer counts.
Pruned(now) == {k \in writeTimes : landed[k] + Day >= now /\ landed[k] <= now + Day}

PoolIgnoringGrace(id, excess) == Live \cup {id}     \* mutant: no grace period

\* The traces an insert under `id` chooses its victims from: those past their grace, or
\* every trace, the new one included, when the young ones flood the store or too few are
\* past it.
Pool(id, excess) ==
    LET old == {i \in Live : PastGrace(rows[i].born)}
        young == Least(Cardinality(Live \ old), YoungShare + 1)
                   + (IF PastGrace(clock) THEN 0 ELSE 1)
        heads == IF young <= YoungShare THEN old ELSE {}
    IN  IF Cardinality(heads) < excess THEN Live \cup {id} ELSE heads

\* The traces over the capacity once the new one is there.
Excess == Less(Cardinality(Live) + 1, Capacity)

VictimsUncounted(id) ==             \* mutant: the total leaves out the new trace
    LET excess == Less(Cardinality(Live), Capacity)
    IN  {v \in SUBSET Pool(id, excess) : Cardinality(v) = excess}

\* The sets of traces that may be forgotten to make room: as many as exceed the capacity,
\* whichever the windows of Eviction find the weakest.
Victims(id) ==
    LET pool == Pool(id, Excess)
    IN  {v \in SUBSET pool : Cardinality(v) = Least(Excess, Cardinality(pool))}

\* A text some usable trace has is rehearsed, not inserted.
Duplicate(text) == \E i \in Usable : rows[i].text = text

\* The new trace, indexed unless the embedder failed.
Fresh(text, vec) == [text |-> text, born |-> clock, vec |-> vec]

RememberDropped(text) ==            \* rate limited, or failed after the prune
    /\ ~Duplicate(text)
    /\ writeTimes' = Pruned(clock)
    /\ UNCHANGED <<rows, clock, exposures, landed, boosts>>

RememberUncounted(text) ==          \* mutant: a write that evicts costs no slot
    /\ ~Duplicate(text)
    /\ Cardinality(Pruned(clock)) < WritesPerDay
    /\ \E id \in Ids \ Live, vec \in BOOLEAN :
       \E v \in Victims(id) :
         /\ Commit(v, [i \in {id} |-> Fresh(text, vec)])
         /\ writeTimes' = IF v = {} THEN Pruned(clock) \cup {Len(landed) + 1}
                          ELSE Pruned(clock)
         /\ landed' = Append(landed, clock)
    /\ UNCHANGED <<clock, boosts>>

\* A new trace under an id no row has; it may be its own victim.  The write is counted once
\* it has landed.
Remember(text) ==
    /\ ~Duplicate(text)
    /\ Cardinality(Pruned(clock)) < WritesPerDay
    /\ \E id \in Ids \ Live, vec \in BOOLEAN :
       \E v \in Victims(id) :
         /\ Commit(v, [i \in {id} |-> Fresh(text, vec)])
         /\ writeTimes' = Pruned(clock) \cup {Len(landed) + 1}
         /\ landed' = Append(landed, clock)
    /\ UNCHANGED <<clock, boosts>>

-----------------------------------------------------------------------------
(* Recalling, citing, forgetting.                                          *)

\* A recall ends the previous citation window whatever follows; it opens one for the traces
\* it injected.  Offline, finding nothing or failing, it injects none.
Recall(inject) ==
    /\ inject \subseteq Indexed
    /\ Cardinality(inject) <= InjectN
    /\ exposures' = inject
    /\ boosts' = [i \in Ids |-> 0]
    /\ UNCHANGED <<rows, clock, writeTimes, landed>>

CiteKeepsWindow(cited) ==           \* mutant: a citation is not spent
    LET credited == cited \cap exposures \cap Usable
    IN  /\ credited # {}
        /\ boosts' = [i \in Ids |-> IF i \in credited THEN boosts[i] + 1 ELSE boosts[i]]
        /\ UNCHANGED <<rows, clock, writeTimes, exposures, landed>>

\* A reply cites some ids: those exposed and still stored are credited, once, and spent.
Cite(cited) ==
    LET credited == cited \cap exposures \cap Usable
    IN  /\ credited # {}
        /\ boosts' = [i \in Ids |-> IF i \in credited THEN boosts[i] + 1 ELSE boosts[i]]
        /\ exposures' = exposures \ credited
        /\ UNCHANGED <<rows, clock, writeTimes, landed>>

ForgetBehindTheEngine(i) ==         \* mutant: the row is removed without the commit's care
    /\ i \in Live
    /\ rows' = [rows EXCEPT ![i] = Absent]
    /\ UNCHANGED <<exposures, clock, writeTimes, landed, boosts>>

\* By id, so a row the engine cannot use can be removed too.
Forget(i) ==
    /\ i \in Live
    /\ Commit({i}, [j \in {} |-> Absent])
    /\ UNCHANGED <<clock, writeTimes, landed, boosts>>

-----------------------------------------------------------------------------
(* Commits made by the dream, by undo and by a host.                       *)

\* A replace verdict: the absorbed traces give way to at most as many gists, stated when
\* the newest of them was.
Consolidate(absorbed, texts) ==
    /\ absorbed # {} /\ absorbed \subseteq Indexed
    /\ texts # {} /\ IsFiniteSet(texts) /\ Cardinality(texts) <= Cardinality(absorbed)
    /\ \E newest \in absorbed, ids \in SUBSET (Ids \ Live) :
         /\ \A i \in absorbed : rows[i].born <= rows[newest].born
         /\ \E textOf \in Bijection(ids, texts) :
              Commit(absorbed, [i \in ids |-> [text |-> textOf[i],
                                               born |-> rows[newest].born, vec |-> TRUE]])
    /\ UNCHANGED <<clock, writeTimes, landed, boosts>>

\* Undo of a replace (gists out, absorbed traces back under their ids) and a host's sync
\* (any rows, unusable ones among them): past the capacity if need be.
Apply(gone, put) ==
    /\ gone \cap DOMAIN put = {}
    /\ Commit(gone, put)
    /\ UNCHANGED <<clock, writeTimes, landed, boosts>>

\* Stale traces get a vector; the embedder may refuse some.
Reindex(batch) ==
    /\ batch # {} /\ batch \subseteq Usable \ Indexed
    /\ rows' = [i \in Ids |-> IF i \in batch THEN [rows[i] EXCEPT !.vec = TRUE] ELSE rows[i]]
    /\ UNCHANGED <<clock, writeTimes, exposures, landed, boosts>>

-----------------------------------------------------------------------------
(* The process.                                                            *)

Reset ==
    /\ rows' = [i \in Ids |-> Absent]
    /\ writeTimes' = {}
    /\ exposures' = {}
    /\ landed' = <<>>
    /\ UNCHANGED <<clock, boosts>>

\* A new engine over the same storage, perhaps with another embedding model.
Restart ==
    /\ \E sameModel \in BOOLEAN :
         rows' = IF sameModel THEN rows
                 ELSE [i \in Ids |-> IF rows[i] = Absent THEN Absent
                                     ELSE [rows[i] EXCEPT !.vec = FALSE]]
    /\ writeTimes' = {}
    /\ exposures' = {}
    /\ landed' = <<>>
    /\ boosts' = [i \in Ids |-> 0]
    /\ UNCHANGED clock

Tick ==
    /\ clock < MaxClock
    /\ clock' = clock + 1
    /\ UNCHANGED <<rows, writeTimes, exposures, landed, boosts>>

Init ==
    /\ rows = [i \in Ids |-> Absent]
    /\ clock = 0
    /\ writeTimes = {}
    /\ exposures = {}
    /\ landed = <<>>
    /\ boosts = [i \in Ids |-> 0]

Next ==
    \/ \E text \in Texts : RememberDropped(text) \/ Remember(text)
    \/ \E inject \in SUBSET Indexed : Recall(inject)
    \/ \E cited \in SUBSET exposures : Cite(cited)      \* other ids in a reply change nothing
    \/ \E i \in Ids : Forget(i)
    \/ \E absorbed \in SUBSET Indexed, texts \in SUBSET Texts : Consolidate(absorbed, texts)
    \/ \E gone \in SUBSET Live, put \in Batches : Apply(gone, put)
    \/ \E batch \in SUBSET (Usable \ Indexed) : Reindex(batch)
    \/ Reset \/ Restart \/ Tick

Spec == Init /\ [][Next]_vars

-----------------------------------------------------------------------------
(* Properties.                                                             *)

TypeOK ==
    /\ rows \in [Ids -> Trace \cup {Absent}]
    /\ clock \in Clock
    /\ writeTimes \subseteq DOMAIN landed
    /\ exposures \subseteq Ids
    /\ landed \in Seq(Clock)
    /\ boosts \in [Ids -> Nat]

\* A citation window is open only for a stored trace the engine can use and search for:
\* removal, eviction, absorption by a dream or a rewrite by a host ends it (commit).
ExposuresAreLive == exposures \subseteq Usable

\* While an id stays exposed, the row under it stays the trace that was injected: a later
\* trace under the same id (ids can repeat) never inherits the earlier one's boost (commit).
ExposureNamesOneTrace ==
    [][\A i \in exposures \cap exposures' :
          rows'[i].text = rows[i].text /\ rows'[i].born = rows[i].born]_vars

\* However often its line is quoted, and in however many replies, a trace is credited with
\* one use per recall (cite: spent once the write has landed).
CitedOncePerRecall == \A i \in Ids : boosts[i] <= 1

\* Any WritesPerDay + 1 inserts that landed in one process span more than a day, failed
\* writes and rehearsals costing nothing (remember: the sliding window of write_times).
RateHolds ==
    \A k \in 1 .. Len(landed) :
        k + WritesPerDay <= Len(landed) => landed[k + WritesPerDay] > landed[k] + Day

AnInsertLands == Len(landed') = Len(landed) + 1

\* An insert leaves the store within its capacity, however far undo, a host's sync or
\* a lowered limit had taken it over (victims: the whole excess goes, not one trace).
InsertFits == [][AnInsertLands => Cardinality(Live') <= Capacity]_vars

\* An insert forgets a trace inside its grace period, the new one included, only when the
\* young ones exceed their share of the capacity: when they do not, enough older ones always
\* exist, however many must go (victims).
GraceRespected ==
    [][AnInsertLands =>
         LET old == {i \in Live : PastGrace(rows[i].born)}
             gone == Live \ Live'
             ownVictim == Live' \subseteq Live
             young == Cardinality(Live \ old) + (IF GracePeriod > 0 THEN 1 ELSE 0)
         IN  ~(gone \subseteq old) \/ (ownVictim /\ GracePeriod > 0) => young > YoungShare]_vars
=============================================================================
