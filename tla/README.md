# A TLA+ verification of the long-term memory engine

This directory holds TLA+ models of the engine in `src/src/` (crate `engram`) and
of the runner in `src/bench/src/` (crate `ltm`), the TLC configurations that check
them on small instances, and proofs checked by TLAPS. Paths below are relative to
the repository's root as `src/`.

## The system

| part | source | state it keeps | operations |
|---|---|---|---|
| engine, awake | `src/src/engine.rs` | write times of the last day, the last recall's exposures, two cursors | remember, recall, cite, forget, apply, reindex, reset, checkpoint/restore |
| engine, dreaming | `src/src/engine.rs` (903–1143) | the dream cursor; a dream's reports | dream, dream_seed, undo, undo_all |
| storage contract | `src/src/storage.rs`, `guard.rs` | a map of traces | find, count, near, write, clear |
| bundled store | `src/src/store.rs` | ten redb tables, centroids in memory | the contract, open |
| session and turn | `src/bench/src/session.rs`, `turn.rs`, `cli.rs` | turn log (a second file), turn counter | open, wipe, run_turn, dream |
| Claude client | `src/bench/src/claude.rs`, `llm.rs` | answer cache, pending prompts, a failure latch | converse, extract, adjudicate |
| embedder | `src/bench/src/llama.rs`, `lib.rs` | a worker thread | embed_queries, embed_documents |
| helpers | `src/src/text.rs`, `time.rs`, `json.rs`, `vector.rs`, `id.rs` | none | pure functions |
| benchmarks, seeds, settings | `src/bench/src/bench/`, `seed.rs`, `settings.rs` | none of their own | measurements |

**How they interact.** A turn (`turn.rs`) recalls, hands the injected traces to the
language model, executes the save and delete tools it calls, may extract facts
afterwards, and cites. Each of these is an engine call; the engine turns each into
reads and *one* atomic `write` of its storage. The engine is called by one owner at
a time (`&mut self`), so what interleaves is not threads but *operations*: a host's
sync, undo, forget, a dream and the turns come in any order, every call may fail at
the store or the embedder, and the process may end between any two commits. The
store is one file, the turn log another, and their commits are separate.

**What makes each part correct, and what is hard about it.**

* *Store*: nine tables stand beside the table of rows and most of them index it, and the similarity lists have
  centroids both on disk and in memory. Every write has to undo exactly what earlier
  writes put into each table; transactions abort half way; files lose values.
* *Engine, awake*: a citation window (exposures) outlives the recall that opened
  it while any other operation may remove, rewrite or replace the rows it names. The
  daily limit slides. Eviction must make room under floods, shortages and excess.
* *Engine, dreaming*: verdicts are applied one commit at a time while the queue was
  read, and the cues were embedded, at the start. Later verdicts absorb earlier gists.
  Seeds that reactivate nothing are settled at the end, from what was found earlier.
* *Retrieval and eviction*: both read only a part of the store and must still be right
  about all of it: windows of the bands, the nearest lists, a bounded buffer, a first
  pass ranked by another order than the score, rows among them that cannot be used.
* *Session*: two files with a commit each, wiped and reopened by processes that may
  stop anywhere.
* *Claude client*: two files rewritten whole, from a copy in memory that may be old, by
  a process that may stop anywhere; a child process behind three bounded pipes, three
  threads and a deadline, and perhaps a grandchild that keeps the pipes.
* *Embedder*: one worker thread serves every session through one batch, which an error
  may leave half full; it must end with the last handle and not before.

The hazards these come from are listed with their lines in `PROJECT.json`.

## The modules

| module | models | composed with |
|---|---|---|
| `Trace` | the trace and its row, over small sets of texts, times, models, vectors, states | used by Storage and Store |
| `Storage` | **abstract**: an atomic map of traces; a batch holds exactly the writes it was asked for | implemented by Store |
| `Store` | the redb store: tables, lists, centroids, transactions, damage | `INSTANCE Storage` (refinement) |
| `Engram` | the waking engine over an atomic map | rests on Storage's contract |
| `Engram_proofs` | theorems about Engram | extends Engram |
| `Eviction` | how `victims` reads the bands and which traces go | looks inside `Engram`'s choice of victims |
| `Search` | the store's `near`, the engine's `near` and `find` over rows it cannot trust | the searches `Engram`, `Dream` and `Recall` rest on |
| `Recall` | `select`: the two-pass pool, the floor, mmr, packing | looks inside `Engram`'s `Recall`, rests on Search |
| `Dream` | the dreaming engine over an atomic map | rests on Storage's contract |
| `Session` | turns, the turn log, starting, wiping, stopping | sees the engine as what its calls do to the set of live ids |
| `Claude` | `ask`: cache, pending prompts, retries, latch, atomic saves | one CLI call is one step |
| `CliRun` | `run`: the child, its pipes, the threads, the deadline | looks inside `Claude`'s CLI call |
| `LlamaWorker` | the worker thread, its channel and batch, the cache of handles | |
| `Calendar` | dates and local times of `time.rs`, as arithmetic beside the calendar | |
| `Dream_proofs`, `LlamaWorker_proofs`, `Session_proofs`, `Store_proofs` | theorems about these modules | each extends its module; `Store_proofs` has the refinement of Storage |
| `Claude_proofs` | theorems about Claude and CliRun | extends both |
| `Search_proofs` | theorems about Search and Eviction, and lemmas about the first `n` of an order | extends both |
| `Recall_proofs` | theorems about Recall and Calendar | extends both, and Search_proofs for its lemmas |
| `MC...` | instances for TLC | |

`Search`, `Eviction` and `CliRun` name their specifications `SearchSpec`, `EvictionSpec` and
`RunSpec`, so that a module of proofs can extend two components at once.

Correspondence of state and actions:

* **Store.** `db` is the committed tables plus the centroids shared in memory
  (`db.read`: the models whose centroids are there, `db.seen`: the lists). `tx` is the
  open transaction's copy of both (`Tx` with its `touched` lists), `batch` the writes it
  has applied, which are also the writes the abstract batch was asked for. `BeginWrite`,
  `ApplyInsert`, `ApplyState`, `ApplyIndex`, `ApplyRemove`, `CommitWrite`, `FailWrite`
  together are `Store::write` with `Tx::apply`; every helper (`Link`, `Unlink`,
  `Purge`, `Filed` for `list`, `Unlist`, `Split`, `ListsOf`, `Rebuilt`...) is the method
  of the same purpose. `ReadLists` is the reader's `lists_of`. `Reopen` is a new
  process; `DamageFile` loses one value of a kind while the file is closed. The order
  of the calls inside a method is kept, because one of the findings depends on it.
  Cosines are not modelled: which list a vector goes to, and which vectors a split
  moves, are choices among those of the right dimension.
* **Engram.** `rows` is the storage; `exposures` the citation window; `writeTimes` the
  positions, in the sequence `landed` of the process's inserts, of the writes still
  counted in `write_times`. `Commit` is `Engram::commit`. `Remember` is an insert with
  its evictions (`Victims`, `Pool`, `Excess` are `victims`), `RememberDropped` a call
  that pruned `write_times` and then was rate limited or failed; a rehearsal only
  strengthens, which no variable shows. `Consolidate` is a replace verdict, `Apply`
  an undo or a host's sync. How strong a trace is and what a query reaches are
  choices, so every property holds for any scores and any embedder.
  `boosts` is a history variable: citations credited since the last recall.
* **Dream.** `dream` is the local state of one `dream()` call: the queue read at the
  start, which cues were embedded, the seeds found alone, the verdicts left. `Hits` is what
  the cue of a text reaches and `Nears` what its own vector does, which is searched when the
  cue could not be embedded. Ids are
  numbers, as ULIDs sort. `reports`, `before` and `settled` are the reports a host can
  still undo, what undoing them must give back, and the seeds settled since then; any
  other change to the store (`Forgetting`) ends that promise.
* **Session.** `phase` walks through `with_parts` (open, or delete files, reset, clear)
  and `run_turn` (recall, tools, extraction, cite, log). `disk` is the turn table, `torn`
  its rows that cannot be read, `log`/`turn` the session's copies, `current` the running
  turn. A turn stands for its entry, so a log is a set of turn numbers: every entry is
  logged under its own number, and the table lists them in order. `Exit` is the end of
  the process at any point, a crash included; `cli.rs` ends on the first error. `Tear` makes
  a row unreadable. Two variables are history: `unlogged`, the turns of this process whose
  changes to the store the log does not hold, and `forgotten`, that some process opened
  this log and could read no row of it.
* **Eviction.** The rows are listed in the order of the index, `pass` is which of the two
  reads is going on (those past their grace, or all), `limit` the window of each band.
  `Grow` is one round of the loop, `RankBeyond` the bound that ends it. Ranks come from a
  table that is monotone in stability and idle time. A row is usable, junk (the engine's
  `checked` refuses it), damaged (the store lists it and reads it as a row without text,
  recalled at time 0) or counted but not listed.
* **Search.** An entry is named by its place in the scan; `scan` is the buffer of
  `Store::near` with its cuts and its bar, `ask` what the engine asks for in this round,
  `kth` the bound it returns. The initial states are all stores, so a run tries every
  placing of ties, junk and missing rows.
* **Recall.** The initial states are all cosines and weights. `FirstPass` and
  `SecondPass` are `pool`, `Pick` one round of `mmr` together with the packing of that
  line, `maxSim` the running maximum the code keeps.
* **Claude.** `cache` is the map in memory, `disk` the two files, `tmp` the sibling file
  of `write_atomic`, `call` where the running `ask` stands. An entry is the prompt it
  was made for; the comparison in `ask` is with the exact prompt while maps are keyed by
  a hash two prompts may share. `Stop` is the end of the process anywhere, `Damage` the
  loss of a file. `OthersWrite` is anybody else who writes one of the files, whole and with
  any contents: a merge of answered prompts, a pruned cache, a save of another process. It
  may happen at any moment, since nothing locks the files. Two variables are history:
  `known`, the prompts whose answers were saved to or read from the cache file, and
  `unseen`, the keys that others wrote in a file since the client took its copy of it.
* **CliRun.** `child` is what the child is doing, `pipe` how full each pipe is, `left`,
  `wrote` and `got` count chunks. `holder` is a process that inherited the pipes. `failed`
  (history) are the calls whose errors the code drops: a read of an output (`DrainFails`,
  which also stands for a drain that panicked), the kill and the wait after a deadline
  (`KillFails`, `ReapFails`).
* **LlamaWorker.** `inbox` is the channel, `batch` what the llama.cpp batch holds, the
  rest the locals of the worker's loop; `n_tokens` is the batch's own count of what it holds,
  beside the `toks` by which the loop decides. The embedding of a sequence is the set of texts
  put into it, so mixing texts is visible. `Replace` is the moment other settings take the
  cached handle's place, after their own model has loaded; the worker loaded then is not
  followed.
* **Calendar.** `Civil`, `FmtOffset`, `ParseOffset` and `Local` are `civil_from_days`,
  `fmt_offset`, `parse_offset` and `fmt_local` as arithmetic on integers. `DaysIn`, `After`
  and `Before` are the calendar everybody knows. A field of an offset is a sign, hours and
  minutes; how it is written down, and what malformed text does beyond counting as no
  offset, is left out.

## The runs

| run | question | states | time |
|---|---|---|---|
| `store` | do the tables, counts, lists and centroids agree, and is the store the atomic map? | 206,040 | about 40 s |
| `store_centroid` | can a vector end up in a list that no centroid names? (yes) | stops at the violation | seconds |
| `engram` | windows, limits and eviction of the waking engine | 90,827 | about 75 s |
| `eviction` | do the bounded windows find the weakest traces? | 129,194 | about 10 s |
| `search` | are bounded reads exact in spite of rows that cannot be used? | 682,068 | about 30 s |
| `recall` | does a recall find all that clears the floor, and pack it right? | 707,231 | about 25 s |
| `dream` | undo, settling and fairness of the queue | 101,593 | about 20 s |
| `session` | turn log against store, limits of a turn | 338,405 | about 10 s |
| `claude` | answers, files and pending prompts across crashes, damage, collisions and other writers | 303,152 | about 45 s |
| `cli_run` | does one CLI run end, whole, without a stall or a child left behind? | 495,936 | about 50 s |
| `cli_run_held` | does it also end while another process keeps the pipes? (no) | stops at the violation | seconds |
| `llama_worker` | own vectors, calls that end, a thread that ends | 42,536 | about 15 s |

**Properties of `store`.** `IndexesMatchRows`: every index names each row exactly once,
under its present keys, and nothing of a gone row. `CountersExact`: the stored count,
which eviction trusts, is the number of rows, unreadable ones too, and list sizes and
dimensions are exact as long as no centroid was damaged.
`CentroidCacheCurrent`: the centroids in memory are the file's, after aborts too.
`ImplementsStorage`: every step is a step of `Storage` or a stutter, with the map
"the row and the vector filed for it" (`TraceOf`, which is `Store::rows`). The abstract
batch keeps the writes it was asked for, and the mapping takes them from the transaction, so
the traces stored are those the caller named, each under its id.

**Properties of `engram`.** `ExposuresAreLive`, `ExposureNamesOneTrace`,
`CitedOncePerRecall` are about citation windows; `RateHolds` says any
`writes_per_day + 1` inserts of a process span more than a day; `InsertFits` and
`GraceRespected` are the two promises of eviction. When the young ones keep to their
share, enough older ones always exist, because an insert removes at most what is over
the capacity: the doc's "or too few older traces exist" arises only in a storage that
counts rows it does not list (which `Eviction` has).

**Properties of `eviction`, `search`, `recall`.** These compare an algorithm that reads
part of the store with a definition that reads all of it. `RightOnesGo`: as many go as
must, and only those that may. `WeakestGo`: no spared usable trace is weaker than one
that went, except where the code itself stops (dead traces, `BAND_CAP` rows).
`NearIsExact`: a similarity search returns the best of the usable rows it probed, and
its bound covers every one it left out. `FindIsComplete`: an ordered read returns the
first usable rows, or all within its reach. `SearchEnds`: the widening ends (liveness).
`PoolIsExact`: two bounded searches per cue find exactly what a search of the whole
store would keep. `PackIsUsed` and `PickIsDiverse`: mmr and the packing of the lines.

**Properties of `dream`.** `UndoRestoresAll`: at every point, undoing the reports newest
first restores the store but for the flags of seeds settled without a verdict.
`SettledReachNothing` and `OnlyProofSettles`: silence, failure and fallback searches
never settle a seed. `QueueIsServed` (liveness): every labile trace is examined again
and again while it stays in the queue.

**Properties of `session`.** `SavesWithinLimit` about one turn, failed ones included;
`LogIsWindow`, `MemoryMirrorsLog`, `TurnsAreNotOverwritten`, `LagsByOneTurn` about the
log. With unreadable rows the first and the third hold as long as every process that opened
the log could read at least one row of it; what happens otherwise is among the
disagreements below.

**Properties of `claude` and `cli_run`.** `ExactAnswers`: never the answer to another
prompt. `FilesAreWhole`: no file is ever half written. `OnlyUnseenAreLost`: an ask takes
nothing out of either file but what others wrote there since the client took its copy (the
cache file: since it was opened or last saved; the pending file: between the read and the
rename of one save). `AsksOnce`: a saved answer is never paid for twice, unless others took
it out, the cache was damaged or its key is shared.
`AskReturns`: an ask ends. `OutputIsWhole`: a run that returns the output has all of it,
unless a read failed. `NoChildLeft`: every way out has waited for the child, unless the wait
itself failed. `NeverStalls`: no pipe holds the
child for ever, even if the deadline never comes. `RunEnds`: with a clock, a kill that works
and no process that keeps the pipes, the run and all its threads end.

**Properties of `llama_worker`.** `OwnVectors`: a successful call has one embedding per
text, each of that text alone. `DecodesFit`: llama.cpp never gets more tokens or
sequences than the context was made for. `EveryCallEnds`, `WorkerIsFreed` (liveness).

### Bounds, and why they are enough

* `MCStore`: two ids, texts, times, usable vectors of two dimensions, one real model
  and the empty one, lists that divide at two members (`LIST_MAX` = 1), three list
  numbers, one write per transaction and one kind of damage. Two ids give a list that
  is divided, a list that is emptied and a removal beside a survivor; transactions of
  one write still abort between the change and the commit, and several follow one
  another over the same cache. Larger batches only concatenate the same table steps.
* `MCEngram`: four ids over a capacity of two, so undo and sync go over the capacity
  by two; grace period, day and clock of a few units, so traces are inside and past
  grace and the window slides; two writes a day. Unusable rows come from `Apply`.
* `MCDream`: four ids, a budget of two verdicts and four seeds, clusters of three,
  two gists. A gist is absorbed by a later verdict of the same dream, a seed is
  absorbed while waiting, the queue is longer than a dream can serve.
* `MCSession`: three memories, a log of three turns, six turns, three tool calls,
  two saves per turn. The window slides, restarts happen on both sides of it, and the
  newest row, some rows or all of them become unreadable.

* `MCEviction`: three rows and the new one, at most two over the capacity, two bands,
  windows that start with `excess` rows and one more and may grow to three (`BAND_DEPTH` 1,
  `BAND_CAP` 3), ranks that clamp the stability: every window can stop short, and every row
  can be junk, damaged, young or not listed.
* `MCSearch`: up to five entries, two cosines (so ties) and vectors that are skipped, at
  most two hits wanted, scans that stop after four vectors and a widening that ends at five
  (`PROBE_VECTORS`, `NEAR_REACH_MAX`): the buffer is cut, the scan is repeated, and the
  reach ends before the store does.
* `MCRecall`: four traces, two cues, cosines from 0 to 2, two weights, three lines wanted
  from a first pass of three traces per cue, a budget of three characters' worth of lines
  and one line longer than it: the first pass can miss the best score, which the second
  must find, and a long line is skipped for a shorter one.
* `MCClaude`: three prompts, two of them with the same key, three retries as in the code;
  others write any map whose entries lie under their own keys.
* `MCCliRun`: an input and outputs of three chunks and pipes of two: either side can block
  more than once. `MCCliRunHeld` has two and one, the least with which it can block at all.
* `MCLlamaWorker`: two clients, jobs of up to three texts, one text of more tokens than
  a batch: batches are cut by tokens, by sequences and by the end of the job.

Ids are interchangeable in `MCStore`, `MCEngram` and `MCSession` (symmetry); in
`MCDream` they are ordered and liveness is checked, so no symmetry is used. Runs
with `CHECK_DEADLOCK FALSE` stop at their bounds on ids, clock or list numbers.

### Fairness

`Store`, `Engram`, `Session`, `Eviction` and `Recall` assume none. *Dream*: a dream that began goes on (`WF` on its steps): it is
one synchronous call, and adjudicator, embedder and store return or fail, all of which
are steps. The host keeps calling `dream` (`SF` on `StartDream`, since the host may be
in the middle of other operations again and again): the queue is a promise about
repeated dreams, not about one. Without it nothing would be served, and the engine
starts no dream by itself. Nothing is assumed of verdicts: they may fail for ever.

*Claude*: `WF` on the steps of an ask, which is one synchronous call; every outcome of a
step is another step. *CliRun*: `WF` on the caller and on each of the three threads,
which the operating system schedules; nothing of the child, of the deadline or of a
process that keeps the pipes. `RunEnds` states the last two as its premises, and
`cli_run_held` (`TimedSpec`) assumes the clock only. *LlamaWorker*: `WF` on the worker's
loop. *Search*: `WF` on its steps, all of one synchronous call.

## The proofs

`Engram_proofs` proves, for every set of ids, capacity, grace period, limit, clock and
set of foreign commits that satisfy `EngramAssumption`:

| theorem | states |
|---|---|
| `TypeCorrect` | `TypeOK` |
| `WindowsAreLive` | `ExposuresAreLive` |
| `CreditedOnce` | `CitedOncePerRecall` |
| `RateIsLimited` | `RateHolds` |
| `ExposureIsOfOneTrace` | `ExposureNamesOneTrace` |
| `InsertAlwaysFits` | `InsertFits` |
| `GraceIsRespected` | `GraceRespected` |

`EngramAssumption` is what the code's configuration guarantees (`Config::validate`:
a capacity of at least one) and the types of the model's values.

The inductive invariant `IInv` is stated at the head of the module:

* `RateHolds` is not inductive: it speaks of landed inserts, while a step looks only at
  the pruned `write_times`. `WindowComplete` adds that every insert of the last day is
  still counted, and `LandedInOrder` that inserts landed in the order of the clock.
  When an insert is allowed, fewer than `writes_per_day` positions are counted, so the
  insert `writes_per_day` before it is not among them and is more than a day old
  (`RoomInTheWindow`).
* `CitedOncePerRecall` needs `OpenIsUnspent`: an id that is still exposed has not been
  credited yet.
* `ExposuresAreLive` is kept by every commit because `Commit` closes the window of all
  it removes or rewrites (`CommitKeeps`, `CommitPreserves`); re-indexing and
  strengthening change neither text nor birth.
* `LiveIsFinite` makes cardinalities meaningful; the ids themselves may be infinite.

The action properties follow from `IInv` and lemmas about eviction:
`VictimsMakeRoom` (every choice of victims is a set of exactly `Excess` traces of the store or the new one),
`VictimsRespectGrace`, and `OnlyRememberLands`, which says that no other action
lands an insert. There is one lemma per action, and `NextPreserves` only combines them.

`Claude_proofs` proves, for all prompts, keys and retries:

| theorem | states |
|---|---|
| `TypeCorrect` | `TypeOK` |
| `AnswersAreExact` | `ExactAnswers` |
| `FilesStayWhole` | `FilesAreWhole` |
| `MemoryCovers` | `MemoryCoversFile` |
| `OnlyUnseenLost` | `OnlyUnseenAreLost` |
| `AskedOnce` | `AsksOnce` |

None of them assumes anything about who writes the files and when.

Its `IInv` follows an ask through a save: what it writes is the map in memory
(`SavesTheCache`), or covers the pending file (`SavesAllPending`) but for what others wrote
there since it was read, and what it renames is
what it wrote (`RenamesWholeFiles`). That a save of the cache loses only what is unseen then
needs `MemoryCoversFile`: an open client's map has every key of the file but the unseen ones.
`AsksOnce` speaks of the whole past, through the history variable `known`. The invariant it
needs is
`KnownIsRemembered`: a known answer is in the file, and in the map of a client that is
open, or another prompt has taken its key there.

The same module proves of `CliRun`, for prompts, pipes and outputs of every size:

| theorem | states |
|---|---|
| `OutputsAreWhole` | `OutputIsWhole` |
| `ChildIsReaped` | `NoChildLeft` |

`OutputIsWhole` speaks of the moment `run` returns; that nothing is missing then follows
from the whole run: chunks written are read or in the pipe (`NothingIsLost`), a drain of
which no read fails ends
only after an empty pipe nobody can write to (`EndIsFinal`), and the caller returns only
after the joins (`JoinedHasEnded`) and those only after the wait (`WaitedFor`).

`LlamaWorker_proofs` proves, for all clients and texts and every size of jobs and batches:

| theorem | states |
|---|---|
| `VectorsAreOwn` | `OwnVectors` |
| `BatchFits` | `DecodesFit` |
| `OneJobPerClient` | a waiting client has exactly one job, in the channel or with the worker |

A vector is right because a job starts with an empty batch, also after an error in the one
before (`StartsEmpty`), because what the batch holds are texts of this job under their own
sequence (`HoldsOwnTexts`), and because the reply goes to the one client that waits for it
(`OneJobEach`, `RepliesRight`). A decode fits because the loop's own count and the batch's
agree while it works on a job and both are cleared together (`CountsAgree`); the loop never
asks the batch how much is in it.

`Session_proofs` proves, for all memories, limits and lengths of the log:

| theorem | states |
|---|---|
| `TurnsSaveWithinLimit` | `SavesWithinLimit` |
| `LogLagsByOneTurn` | `LagsByOneTurn` |
| `LogHoldsItsWindow` | `LogIsWindow` |
| `MemoryIsTheLog` | `MemoryMirrorsLog` |
| `TurnsAreKept` | `TurnsAreNotOverwritten` |

`SavesWithinLimit` needs to know where in a turn its saves came from: from calls
(`Conversed`) or from what the extraction was still allowed (`ExtractionFits`); a turn that
failed leaves nothing to the next (`BetweenTurns`). The three about the log rest on
`MemoryKnows` and `LogFollows`. The first says that a process has in memory every row among
the newest that can be read, and that its counter is the last of these. The second says
that, while no process found nothing to read, the file is the window of some last turn,
perhaps one after the counter (its row is unreadable), and the counter lies in that window.
So the next turn falls on a row nobody can read, or is the one after the last, and the cut
leaves a window again. A process that found a file it could not read at all counts from 1,
and then only the first of the two holds.

`Dream_proofs` proves, for every number of ids, every set of texts, every reach of the cues
and every budget:

| theorem | states |
|---|---|
| `UndoGivesBack` | `UndoRestoresAll` |
| `SilenceSettlesNothing` | `OnlyProofSettles` |
| `WaitingSeedsAreAlone` | `SettledReachNothing` |

`UndoRestoresAll` undoes a whole sequence of reports, so one verdict more has to be shown to
cancel its own effect and nothing else: the gists it wrote have ids nobody else has
(`NewIdsAreFree`), and what it absorbed is gone from the store until it is given back
(`AbsorbedIsGone`). `SettledReachNothing` rests on `WaitInDream`: only a dream that is
going on has seeds that wait. What would be an induction on ids is taken from the
well-foundedness of the naturals (`LeastNatural`).

`Store_proofs` proves, for all ids, texts, times, models, states and vectors, every
dimension and `LIST_MAX`, batches and damage of any length:

| theorem | states |
|---|---|
| `IndexesAreRight` | `IndexesMatchRows` |
| `CountersAreExact` | `CountersExact`: the count of rows, and the sizes and dimensions of lists |
| `CacheIsCurrent` | `CentroidCacheCurrent` |
| `StoreImplementsStorage` | `ImplementsStorage` |

`IInv` says of the committed tables, and of the open transaction's copy, that they are
`Sound`: `Good` (every row is under its present keys in every index and nowhere else,
`RowIndexed`; an id is filed in one list at most, `OneEntry`) and `Counted`. Of each method
of `Tx` a lemma says what it changes for the id it is about and that it leaves every other
id `Untouched`; a division of a list moves entries of many ids but changes only the list
they are in. `ListsInv` describes the lists on top of that: `CentroidsKept` (a list has one
centroid at most, its number has been given out, and for a model that was read the
centroids in memory that have members are those of the table) and, as long as no centroid
entry was damaged, `SizesExact`. Every change of a list saves its centroid on both sides
(`SaveKeeps`) after exactly one list changed (`SaveExact`); that a divided list's new number
is free follows from `next` being at least every number in use. The rebuilding of a lost
centroid keeps the first part and may break the second, which is the disagreement
`store_centroid` shows. The refinement then follows case by case: a write is a step on the abstract
working copy, a commit or a failure ends it, damage is a step of `Decay` or a stutter, and
so are reading and rebuilding lists. It assumes `Apart`: the value that stands for "no
transaction" is none of the tables, as in the run, where it is a model value.

`Search_proofs` proves of `Search`, for stores and searches of every size:

| theorem | states |
|---|---|
| `SearchIsExact` | `NearIsExact` |
| `ReadsAreComplete` | `FindIsComplete` |

An answer is described as the first `n` of a set under a strict total order (`First`): those
with fewer than `n` before them. Three facts about it carry the proofs: `n` of them exist if
the set has as many, what is left out comes after all of them, and a part of the set that
comes before all the rest and has enough has the same first `n` (`FirstOfKept`). The
invariant of the scan is `Holds`: the buffer contains the best `keep` of what was passed,
and once a bar is set, `keep` of those are at least as good as the bar, so a vector it turns
away was none of them. The bound that an answer carries follows from what the widening
last asked for.

Of `Eviction` it proves, for tables, bands, windows and ranks of every size:

| theorem | states |
|---|---|
| `RightVictims` | `RightOnesGo` |
| `WeakestVictims` | `WeakestGo` |

`EvictionInv` says why a pass is going on (a flood, or too few old ones). A row that was not
read lies in its band after a window that did not grow. The window is as long as
`BAND_CAP` lets it be, or all that go are dead, or they rank below `RankBeyond` and the row
itself does not, because its stability is at least the least of the band and it was idle no longer
than the last row of the window (`UnreadIsExcused`).

`Recall_proofs` proves of `Recall`, for all cosines, weights, likenesses, lengths and budgets:

| theorem | states |
|---|---|
| `PoolIsWhole` | `PoolIsExact` |
| `PicksAreDiverse` | `PickIsDiverse` |
| `PackUsesItsRoom` | `PackIsUsed` |

A trace scores at most its activation, activation grows with the cosine, and the floor rises
with the best score. So what the first searches leave out, of an activation that misses the
floor of a score they reached, cannot clear the floor and cannot raise it
(`FirstPassIsExact`); and the second searches, which ask for every cosine that could reach
that floor, leave out nothing (`SecondPassIsExact`). `PickInv` says that `maxSim`, kept by one
comparison per pick, is the greatest likeness to any picked trace. `PackInv` says that the
room used is the sum of the lines, and that every picked line which was left out has no
room; the room only shrinks, so it still has none at the end.

The same module proves of `Calendar`, for every day, however far before or after 1970:

| theorem | states |
|---|---|
| `DatesAreRight` | day 0 is 1970-01-01, each day has a date of the calendar, and the next day the date after it |
| `LocalTimesAreRight` | `fmt_local` gives the date and time a clock shows there, for every second and every offset of less than a day |

A day is placed in its era of 400 years, then in a year that begins in March, then in a
month; `CivilAdvances` follows a day across the end of each. There is nothing to explore,
so no run is made of this module.

**Only model-checked.** Every safety and action property of the runs is stated by one of
these theorems. What stays with TLC is liveness (`QueueIsServed`, `SearchEnds`, `AskReturns`,
`NeverStalls`, `RunEnds`, `EveryCallEnds`, `WorkerIsFreed`), which is out of the prover's
reach, as are ENABLED and what a recursive definition computes for every input.

## Disagreements found

`store_centroid`: `Tx::unlist` takes the vector's entry out of its list *before* asking
for the model's lists. If the list's centroid entry is damaged and the centroids are
not in memory, they are rebuilt at that moment, from the members without the removed
one, and then the size is decremented for it once more. A list of two ends with size
0: its centroid is dropped and the other vector is never found by `near` again, though
its row still says it is indexed. The code's comments say "the members are all still
there" (`src/src/store.rs:409`) and that a damaged list "is skipped until a write
rebuilds it" (`src/src/store.rs:211`).

`cli_run_held`: the doc of `CLI_TIMEOUT` calls it the longest one CLI call may take
(`src/bench/src/claude.rs:32`), and on a timeout `run` takes care not to wait for a
process that may hold the pipes (`:180-181`). After a normal exit it joins the writer
and the drains without a limit (`:189-190`), and the same process holds it for ever.

Five more were met while modelling; no run is kept for them:

* The module doc says pending prompts can be answered by any client and merged into the
  cache (`src/bench/src/claude.rs:7-8`). A client that is open never reads the file again
  and writes its own map over it with its next live answer (`:243-244`), so what was merged
  in the meantime is gone. In `Claude` this is `Open`, `OthersWrite`, `CliAnswers` and the
  save up to `Rename`, and it is what `unseen` keeps account of in `OnlyUnseenAreLost`.
* The cut of `TurnLog::save` is a key range because "turns are consecutive"
  (`src/bench/src/session.rs:31-32`). A process that can read none of the newest
  `max_turn_log` rows counts from 0 (`:49-53`, `:112`) and logs turn 1 beside the old rows,
  which the cut does not reach. The process after it reads the newest rows again, which are
  still the old ones, and writes its own turn 1 over the first. In `Session` this is a `Tear`
  of every row that `Open` would load, and it is what sets `forgotten`.
* An `ask` that fails returns "prompt queued in <file>" (`src/bench/src/claude.rs:255`)
  although `save` only prints that its write failed (`:159-161`). In `Claude` both the
  step `Rename` and the step `SaveFails` lead to the phase `queued`.
* A row the engine cannot use "dies first" (`src/src/engine.rs:579-580`) only if it lies in
  a window: one further down its band outlives usable traces. `WeakestGo` is therefore
  about usable rows.
* The doc of `Offline` says recall "falls back to recency" (`src/bench/src/lib.rs:150-151`).
  `select` returns nothing when the embedder fails (`src/src/engine.rs:671-673`), which is
  `Offline` in `Recall`.

## Not modelled, and limits of what is

* Scores, strengths and bands are whole numbers, given by monotone tables; rounding of
  floats, the forgetting curve and what a recall adds to a stability are not modelled.
* The clock of `Engram` never goes back; `remember` has code for a clock that does.
* `checkpoint` and `restore`: their doc has a host take the state before an operation and
  publish the new one after its commit (`src/src/engine.rs:146-147`). An operation whose
  commit fails is then taken back whole, a stuttering step of `Engram`. A host that
  restores an older state may lose a write of the limit or name a trace that is gone;
  nothing in the repository does so.
* `Guarded`, which trims the answers of a storage outside the engine: it changes no state,
  and `Search` and `Eviction` start from rows that no answer is trusted about.
* `Session` sees the engine through the set of live ids; `max_turn_log` = 0 is allowed
  by the model, but the instance uses 3.
* The one-time migration of the text index when a file of an older version is opened
  (`src/src/store.rs:180-194`). It rebuilds the index from the rows that can be decoded, so
  a damaged row ends without its text entry; `IndexesMatchRows` and `IndexesAreRight` are
  about files written by this version only.
* redb's own atomicity is assumed: a commit is there or not. Durability is `eventual`;
  losing the last commits in a crash looks like their failing. This is an argument, not
  something a run shows: the model has no step that takes back a commit.
* Two processes that save the same file at the same moment share its sibling `.tmp` file
  (`src/bench/src/lib.rs:37-38`); `OthersWrite` changes a file in one step.
* `write_atomic` syncs the sibling file and renames it (`src/bench/src/lib.rs:34-44`); both
  are taken at their word, and the directory is not synced, so a rename may be undone by
  losing power. That looks like a stop before the rename.
* Prompts, parsing of answers and formatting; cleaning, cutting and splitting of texts
  (`text.rs`), JSON, ids, vector arithmetic, the detection of the local offset: pure
  functions whose results the modules enumerate. Seeds, settings and benchmarks:
  data, parsing and measurements, without a state of their own.

## What could follow

* What the liveness properties rest on, as theorems: a measure that every step of a search,
  an ask or a run makes smaller.
* The pure text functions: citations found in an answer, cues of a text, cleaning.
* `Guarded` in front of a storage that answers wrongly, and a clock that steps back
  together with `checkpoint` and `restore`.
