------------------------------- MODULE Dream -------------------------------
(***************************************************************************)
(* The sleeping engine (src/src/engine.rs, dream .. gists): the cyclic     *)
(* queue of labile traces, the adjudication of each seed's cluster, the    *)
(* settling of seeds that reactivate nothing, and undo.  Every verdict is  *)
(* one commit, so a dream is a sequence of steps that a crash or a failing *)
(* store may end at any point.  Ids are numbers: a new id sorts after      *)
(* every earlier one, as ULIDs do.  Reports of errors change nothing and   *)
(* are not kept.                                                           *)
(***************************************************************************)
EXTENDS Integers, Sequences, FiniteSets

CONSTANTS
    MaxId,          \* bound: ids a behaviour may use
    Texts,
    Hits,           \* Hits[x]: the texts the cue of a trace with text x reaches
    Nears,          \* Nears[x]: the texts the vector of text x reaches (theta_related)
    StatedAt,       \* StatedAt[i]: created_at of the trace remembered under id i
    Budget,         \* cfg.dream_budget: verdicts in one dream
    SeedsPerBudget, \* SEEDS_PER_BUDGET
    MaxMembers,     \* cfg.dream_max_members
    MaxGists,       \* bound: gists in one verdict
    Absent

VARIABLES
    rows,       \* the storage
    lastId,     \* the newest id given out
    cursor,     \* Engram::cursor, 0 for ""
    dream,      \* the running dream, or Awake
    reports,    \* the verdicts applied since the last change made by anything else
    before,     \* history: the rows when `reports` was empty
    settled     \* history: seeds settled without a verdict since then

vars == <<rows, lastId, cursor, dream, reports, before, settled>>

Ids == 1 .. MaxId

Trace == [text : Texts, born : Nat, con : BOOLEAN, vec : BOOLEAN]

ASSUME DreamAssumption ==
    /\ MaxId \in Nat /\ Budget \in Nat \ {0} /\ SeedsPerBudget \in Nat \ {0}
    /\ MaxMembers \in Nat \ {0, 1} /\ MaxGists \in Nat
    /\ Hits \in [Texts -> SUBSET Texts] /\ Nears \in [Texts -> SUBSET Texts]
    /\ StatedAt \in [Ids -> Nat]
    /\ \A i, j \in Ids : i <= j => StatedAt[i] <= StatedAt[j]
    /\ Absent \notin Trace

\* queue: seeds not examined yet.  cued: those whose cue could be embedded.  alone: the
\* seeds met so far that reactivate nothing.  left: verdicts still allowed.
\* single: dream_seed, which leaves the cursor where it is.
Awake == [queue |-> <<>>, cued |-> {}, alone |-> {}, left |-> 0, on |-> FALSE, single |-> FALSE]

Least(a, b) == IF a < b THEN a ELSE b

-----------------------------------------------------------------------------
(* Queue and search.                                                       *)

Stored(r) == {i \in Ids : r[i] # Absent}

\* View::Labile under the current model.
InQueue(r, i) == r[i] # Absent /\ ~r[i].con /\ r[i].vec

QueueFromStart(r, n) ==             \* mutant: every dream starts at the head
    LET open == {i \in Ids : InQueue(r, i)}
        place(i) == Cardinality({j \in open : j <= i})
        size == Least(n, Cardinality(open))
    IN  [k \in 1 .. size |-> CHOOSE i \in open : place(i) = k]

\* The n seeds after the cursor, then those up to it: the queue is a cycle.
Queue(r, n) ==
    LET open == {i \in Ids : InQueue(r, i)}
        turn(i) == IF i > cursor THEN i ELSE i + MaxId
        place(i) == Cardinality({j \in open : turn(j) <= turn(i)})
        size == Least(n, Cardinality(open))
    IN  [k \in 1 .. size |-> CHOOSE i \in open : place(i) = k]

\* What the query of a trace with this text reaches: its cue, or its own vector when the cue
\* was not embedded.
Reach(text, cued) == IF cued THEN Hits[text] ELSE Nears[text]

\* The indexed traces, not stated after the seed, that its query reaches.
Older(r, i, cued) ==
    {j \in Stored(r) \ {i} : r[j].vec /\ r[j].born <= r[i].born /\ r[j].text \in Reach(r[i].text, cued)}

\* The clusters a search may return: the nearest, MaxMembers with the seed.
Candidates(i, cued) ==
    LET all == Older(rows, i, cued)
    IN  {c \in SUBSET all : Cardinality(c) = Least(MaxMembers - 1, Cardinality(all))}

-----------------------------------------------------------------------------
(* The store as dreams, verdicts and undo change it.                       *)

Consolidated(r, ids, flag) ==
    [i \in Ids |-> IF i \in ids /\ r[i] # Absent THEN [r[i] EXCEPT !.con = flag] ELSE r[i]]

\* The gists of a replace, texts[k] under the k-th new id, stated when the newest absorbed
\* trace was.
Replaced(r, absorbed, texts) ==
    LET newest == CHOOSE i \in absorbed : \A j \in absorbed : r[j].born <= r[i].born
        gist(k) == [text |-> texts[k], born |-> r[newest].born, con |-> TRUE, vec |-> TRUE]
    IN  [i \in Ids |-> IF i \in absorbed THEN Absent
                       ELSE IF i - lastId \in DOMAIN texts THEN gist(i - lastId)
                       ELSE r[i]]

\* One report taken back: a replace in one commit, a keep by its flag.
Undone(r, report) ==
    IF report.action = "keep" THEN Consolidated(r, {report.seed}, FALSE)
    ELSE [i \in Ids |-> IF i \in DOMAIN report.absorbed THEN report.absorbed[i]
                        ELSE IF i \in report.after THEN Absent
                        ELSE r[i]]

UndoneOldestFirst(r, rs) ==         \* mutant: reports taken back in the order they were made
    LET back[k \in 0 .. Len(rs)] ==
            IF k = 0 THEN r ELSE Undone(back[k - 1], rs[k])
    IN  back[Len(rs)]

\* undo_all: newest first.
UndoneAll(r, rs) ==
    LET back[k \in 0 .. Len(rs)] ==
            IF k = 0 THEN r ELSE Undone(back[k - 1], rs[Len(rs) - k + 1])
    IN  back[Len(rs)]

-----------------------------------------------------------------------------
(* Awake.                                                                  *)

Forgetting(r) ==
    /\ rows' = r
    /\ reports' = <<>>
    /\ before' = r
    /\ settled' = {}

\* remember: a new trace is labile unless its cue was embedded, reaches nothing, and no
\* stale trace could be what it reaches.  Without a vector it is stale itself.
Remember(text, vec, cued) ==
    /\ ~dream.on
    /\ lastId < MaxId
    /\ \A i \in Stored(rows) : rows[i].text # text
    /\ LET near == {i \in Stored(rows) : rows[i].vec /\ rows[i].text \in Reach(text, cued)}
           con == vec /\ cued /\ near = {} /\ \A i \in Stored(rows) : rows[i].vec
           id == lastId + 1
       IN  /\ Forgetting([rows EXCEPT ![id] =
                    [text |-> text, born |-> StatedAt[id], con |-> con, vec |-> vec]])
           /\ lastId' = id
    /\ UNCHANGED <<cursor, dream>>

\* Eviction or forget.
Drop(i) ==
    /\ ~dream.on
    /\ i \in Stored(rows)
    /\ Forgetting([rows EXCEPT ![i] = Absent])
    /\ UNCHANGED <<lastId, cursor, dream>>

Reindexed(r, fresh) == [i \in Ids |-> IF i \in fresh THEN [r[i] EXCEPT !.vec = TRUE] ELSE r[i]]

Stale(r) == {i \in Stored(r) : ~r[i].vec}

\* reindex: of the stale traces, those the embedder accepts and a commit kept; alone, or in
\* a dream that a failing store ended before its first seed.
Reindex ==
    /\ ~dream.on
    /\ \E fresh \in SUBSET Stale(rows) : fresh # {} /\ Forgetting(Reindexed(rows, fresh))
    /\ UNCHANGED <<lastId, cursor, dream>>

\* undo, newest report first; a failed commit leaves report and rows for another try.
Undo ==
    /\ ~dream.on
    /\ reports # <<>>
    /\ rows' = Undone(rows, reports[Len(reports)])
    /\ reports' = SubSeq(reports, 1, Len(reports) - 1)
    /\ UNCHANGED <<lastId, cursor, dream, before, settled>>

-----------------------------------------------------------------------------
(* Dreaming.                                                               *)

\* A dream begins with a re-index of the stale traces the embedder accepts; then the
\* seeds are read and their cues embedded, all at once.
StartDream ==
    /\ ~dream.on
    /\ \E fresh \in SUBSET Stale(rows) :
         LET r == Reindexed(rows, fresh)
             queue == Queue(r, SeedsPerBudget * Budget)
         IN  /\ Forgetting(r)
             /\ \E cued \in SUBSET {queue[k] : k \in DOMAIN queue} :
                  dream' = [Awake EXCEPT !.queue = queue, !.cued = cued,
                                         !.left = Budget, !.on = TRUE]
    /\ UNCHANGED <<lastId, cursor>>

\* dream_seed: one seed the host names, outside the queue.
StartSeed(i) ==
    /\ ~dream.on
    /\ InQueue(rows, i)
    /\ Forgetting(rows)
    /\ \E cued \in SUBSET {i} :
         dream' = [Awake EXCEPT !.queue = <<i>>, !.cued = cued, !.left = 1,
                                !.on = TRUE, !.single = TRUE]
    /\ UNCHANGED <<lastId, cursor>>

\* The next seed is taken and the cursor moves to it, whatever becomes of it.
Take(i) ==
    /\ dream.on /\ dream.left > 0 /\ dream.queue # <<>>
    /\ i = Head(dream.queue)
    /\ cursor' = IF dream.single THEN cursor ELSE i

Rest == [dream EXCEPT !.queue = Tail(@)]

\* An earlier verdict absorbed or consolidated the seed.
SkipSeed(i) ==
    /\ Take(i)
    /\ rows[i] # Absent => rows[i].con
    /\ dream' = Rest
    /\ UNCHANGED <<rows, lastId, reports, before, settled>>

AloneUncued(i) ==                   \* mutant: a fallback search counts as a proof
    /\ Take(i)
    /\ rows[i] # Absent /\ ~rows[i].con
    /\ Older(rows, i, i \in dream.cued) = {}
    /\ dream' = [Rest EXCEPT !.alone = @ \cup {i}]
    /\ UNCHANGED <<rows, lastId, reports, before, settled>>

\* The seed reactivates nothing.  It is settled at the end of the dream if its own cue said
\* so; a fallback search proves nothing.
Alone(i) ==
    /\ Take(i)
    /\ rows[i] # Absent /\ ~rows[i].con
    /\ Older(rows, i, i \in dream.cued) = {}
    /\ dream' = [Rest EXCEPT !.alone = IF i \in dream.cued THEN @ \cup {i} ELSE @]
    /\ UNCHANGED <<rows, lastId, reports, before, settled>>

\* A seed whose cluster goes to the adjudicator.
Judge(i) ==
    /\ Take(i)
    /\ rows[i] # Absent /\ ~rows[i].con
    /\ Older(rows, i, i \in dream.cued) # {}

Judged == [Rest EXCEPT !.left = @ - 1]

\* The adjudicator or the embedder failed: nothing changes.
VerdictFails(i) ==
    /\ Judge(i)
    /\ dream' = Judged
    /\ UNCHANGED <<rows, lastId, reports, before, settled>>

\* Keep, said so or because the gists are too many or unrelated.
VerdictKeeps(i) ==
    /\ Judge(i)
    /\ rows' = Consolidated(rows, {i}, TRUE)
    /\ reports' = Append(reports, [action |-> "keep", seed |-> i])
    /\ dream' = Judged
    /\ UNCHANGED <<lastId, before, settled>>

\* The seed and the candidates the verdict names give way to at most as many gists.
VerdictReplaces(i) ==
    /\ Judge(i)
    /\ \E others \in Candidates(i, i \in dream.cued) :
       \E absorbed \in {{i} \cup s : s \in SUBSET others} :
       \E n \in 1 .. Least(MaxGists, Least(Cardinality(absorbed), MaxId - lastId)) :
       \E texts \in {f \in [1 .. n -> Texts] : \A j, k \in 1 .. n : f[j] = f[k] => j = k} :
         /\ rows' = Replaced(rows, absorbed, texts)
         /\ lastId' = lastId + n
         /\ reports' = Append(reports,
                [action |-> "replace", absorbed |-> [j \in absorbed |-> rows[j]],
                 after |-> lastId + 1 .. lastId + n])
    /\ dream' = Judged
    /\ UNCHANGED <<before, settled>>

\* The store refused a verdict: the dream ends at once, nothing more is written.
StoreFails(i) ==
    /\ Judge(i)
    /\ dream' = Awake
    /\ UNCHANGED <<rows, lastId, reports, before, settled>>

\* A seed could not be read: the dream ends, but what it found alone is still settled.
ReadFails(i) ==
    /\ Take(i)
    /\ dream' = [Rest EXCEPT !.queue = <<>>]
    /\ UNCHANGED <<rows, lastId, reports, before, settled>>

\* The seeds found alone are settled in one write, which may fail; a seed that a later
\* verdict absorbed is not there to settle.
EndDream ==
    /\ dream.on
    /\ dream.queue = <<>> \/ dream.left = 0
    /\ \/ /\ rows' = Consolidated(rows, dream.alone, TRUE)
          /\ settled' = settled \cup dream.alone
       \/ UNCHANGED <<rows, settled>>
    /\ dream' = Awake
    /\ UNCHANGED <<lastId, cursor, reports, before>>

\* A crash, or a restart: a new engine, whose host may or may not have kept the cursor.
\* Bound: it uses up an id, so there are at most MaxId.
NewEngine ==
    /\ lastId < MaxId
    /\ lastId' = lastId + 1
    /\ dream' = Awake
    /\ cursor' \in {cursor, 0}
    /\ Forgetting(rows)

Init ==
    /\ rows = [i \in Ids |-> Absent]
    /\ lastId = 0
    /\ cursor = 0
    /\ dream = Awake
    /\ reports = <<>>
    /\ before = rows
    /\ settled = {}

DreamStep(i) ==
    \/ SkipSeed(i) \/ Alone(i) \/ VerdictFails(i) \/ VerdictKeeps(i)
    \/ VerdictReplaces(i) \/ StoreFails(i) \/ ReadFails(i)

Next ==
    \/ \E text \in Texts, vec, cued \in BOOLEAN : Remember(text, vec, cued)
    \/ \E i \in Ids : Drop(i) \/ StartSeed(i) \/ DreamStep(i)
    \/ Reindex \/ Undo \/ StartDream \/ EndDream \/ NewEngine

\* The host keeps dreaming, whatever else it asks for in between, and a dream it started
\* goes on: dream() is one call, and the adjudicator and the store answer or fail.
Fairness ==
    /\ SF_vars(StartDream)
    /\ WF_vars(EndDream \/ \E i \in Ids : DreamStep(i))

Spec == Init /\ [][Next]_vars /\ Fairness

-----------------------------------------------------------------------------
(* Properties.                                                             *)

\* Whatever a dream applied, and wherever a failing store, a failing adjudicator or its
\* budget ended it, taking its reports back newest first restores every trace as it was,
\* but for the flag of the seeds settled without a verdict (undo_all).
UndoRestoresAll ==
    LET back == UndoneAll(rows, reports)
    IN  \A i \in Ids :
           \/ back[i] = before[i]
           \/ i \in settled /\ back[i] = Consolidated(before, {i}, TRUE)[i]

\* A seed waiting to be settled reactivates no trace it could have been judged against: all
\* its cue reaches by now are gists this very dream wrote after the seed was met.
SettledReachNothing ==
    \A i \in dream.alone :
        rows[i] # Absent =>
            \A j \in Older(rows, i, TRUE) :
                \E k \in DOMAIN reports : reports[k].action = "replace" /\ j \in reports[k].after

\* Silence never settles a seed: a labile trace is consolidated in place only by a keep
\* verdict on it or by its own embedded cue having reached nothing in this dream.
OnlyProofSettles ==
    [][\A i \in Ids :
          rows[i] # Absent /\ rows'[i] # Absent /\ ~rows[i].con /\ rows'[i].con =>
              \/ reports' = Append(reports, [action |-> "keep", seed |-> i])
              \/ i \in dream.alone \cap dream.cued]_vars

\* Every labile indexed trace is met again and again, as long as it stays in the queue: a
\* seed no verdict can settle never starves the ones behind it (seeds, cursor).
QueueIsServed == \A i \in Ids : []<>(cursor = i \/ ~InQueue(rows, i))
=============================================================================
