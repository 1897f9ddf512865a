------------------------------ MODULE Session ------------------------------
(***************************************************************************)
(* The runner (src/bench/src/session.rs, turn.rs) as `ltm run` drives it:  *)
(* a turn recalls, converses with the save and delete tools, falls back to *)
(* extraction, cites, and only then is logged.  Store and turn log are two *)
(* files with a commit each, so a crash, a failing commit or an            *)
(* interrupted wipe may separate them, and rows of the log may turn out    *)
(* unreadable.  The engine is seen through what its calls may do to the    *)
(* set of live memories.                                                   *)
(***************************************************************************)
EXTENDS Integers, FiniteSets, FiniteSetsExt

CONSTANTS
    Memories,     \* ids of traces
    Keep,         \* glob.max_turn_log
    MaxWrites,    \* glob.max_writes_per_turn
    ToolFallback, \* glob.tool_fallback
    MaxTurn,      \* bound: turn numbers
    MaxCalls      \* bound: tool calls in one turn, texts in one extraction

ASSUME SessionAssumption ==
    /\ Keep \in Nat /\ MaxWrites \in Nat /\ MaxTurn \in Nat /\ MaxCalls \in Nat
    /\ ToolFallback \in BOOLEAN

VARIABLES
    store,    \* ids of the live traces
    disk,     \* the turn numbers in the turn log's file
    torn,     \* those of them whose row cannot be read
    phase,    \* where the process is
    turn,     \* Session::turn
    log,      \* Session::log, the turn numbers of its entries
    current,  \* the turn being run
    unlogged, \* history: turns of this process that changed the store and are not in the log
    forgotten \* history: a process could read no row of this log, though it had some

vars == <<store, disk, torn, phase, turn, log, current, unlogged, forgotten>>

Phases == {"off", "deleted", "emptied", "idle", "conversing", "extracting", "answered"}

\* shown: the injected ids.  calls: tool calls so far.  saved: events that inserted or
\* reinforced.  left: extracted texts still to be remembered.
NoTurn == [shown |-> {}, calls |-> 0, saved |-> 0, failed |-> FALSE, left |-> 0]

-----------------------------------------------------------------------------
(* The turn log.                                                           *)

SavedShort(rows, t) == {r \in rows \cup {t} : r >= t - Keep}   \* mutant: the cut is exclusive

\* TurnLog::save: the row goes in, and all rows up to turn - keep go out.
Saved(rows, t) == {r \in rows \cup {t} : r > t - Keep}

\* The newest Keep of some turns.
Newest(turns) == {t \in turns : Cardinality({u \in turns : u > t}) < Keep}

\* TurnLog::load: the newest Keep rows, of which the unreadable ones are skipped.
Loaded(rows, bad) == Newest(rows) \ bad

LastTurnByLength(entries) == Cardinality(entries)    \* mutant: as many turns as the log has rows

\* The turn a new process counts on from.
LastTurn(entries) == IF entries = {} THEN 0 ELSE Max(entries)

-----------------------------------------------------------------------------
(* Starting and stopping.                                                  *)

\* A process over what is there.
Open ==
    /\ phase = "off"
    /\ phase' = "idle"
    /\ log' = Loaded(disk, torn)
    /\ turn' = LastTurn(log')
    /\ forgotten' = (forgotten \/ (log' = {} /\ disk # {}))
    /\ UNCHANGED <<store, disk, torn, current, unlogged>>

\* --reset: the files are deleted, either of which may fail unnoticed ...
WipeFiles ==
    /\ phase = "off"
    /\ phase' = "deleted"
    /\ store' \in {store, {}}
    /\ disk' \in {disk, {}}
    /\ torn' = torn \cap disk'
    /\ forgotten' = (forgotten /\ disk' # {})
    /\ UNCHANGED <<turn, log, current, unlogged>>

\* ... so the store is cleared ...
WipeStore ==
    /\ phase = "deleted"
    /\ phase' = "emptied"
    /\ store' = {}
    /\ UNCHANGED <<disk, torn, turn, log, current, unlogged, forgotten>>

WipeLogTrustsDelete ==              \* mutant: no clear after the delete
    /\ phase = "emptied"
    /\ phase' = "idle"
    /\ log' = {}
    /\ turn' = 0
    /\ UNCHANGED <<store, disk, torn, current, unlogged, forgotten>>

\* ... and the turn log after it.
WipeLog ==
    /\ phase = "emptied"
    /\ phase' = "idle"
    /\ disk' = {} /\ torn' = {} /\ forgotten' = FALSE
    /\ log' = {}
    /\ turn' = 0
    /\ UNCHANGED <<store, current, unlogged>>

\* The process ends: done, killed, or on the first error any call returns.
Exit ==
    /\ phase # "off"
    /\ phase' = "off"
    /\ turn' = 0
    /\ log' = {}
    /\ current' = NoTurn
    /\ unlogged' = {}
    /\ UNCHANGED <<store, disk, torn, forgotten>>

\* A row of the log cannot be read any more.
Tear(t) ==
    /\ torn' = torn \cup {t}
    /\ UNCHANGED <<store, disk, phase, turn, log, current, unlogged, forgotten>>

-----------------------------------------------------------------------------
(* A turn.                                                                 *)

\* A recall strengthens what it shows; a failed one shows nothing.
Recall ==
    /\ phase = "idle" /\ turn < MaxTurn
    /\ phase' = "conversing"
    /\ \E shown \in SUBSET store :
         /\ current' = [NoTurn EXCEPT !.shown = shown]
         /\ unlogged' = IF shown = {} THEN unlogged ELSE unlogged \cup {turn + 1}
    /\ UNCHANGED <<store, disk, torn, turn, log, forgotten>>

\* The engine's remember: inserted with its evictions, or reinforced; it may as well reject
\* the text, hit the daily limit or fail, and then writes nothing and counts nothing.
Remembered(m, evicted) ==
    /\ store' = (store \cup {m}) \ evicted
    /\ unlogged' = unlogged \cup {turn + 1}

\* What goes to make room for a new trace, itself included.
Evictions(m) == IF m \in store THEN {{}} ELSE SUBSET (store \cup {m})

Call == phase = "conversing" /\ current.calls < MaxCalls

\* save_memory with a cue, below the turn's limit.
Save(m) ==
    /\ Call
    /\ current.saved < MaxWrites
    /\ \E evicted \in Evictions(m) : Remembered(m, evicted)
    /\ current' = [current EXCEPT !.calls = @ + 1, !.saved = @ + 1]
    /\ UNCHANGED <<disk, torn, phase, turn, log, forgotten>>

\* delete_memory of an injected id that is still there.
Delete(m) ==
    /\ Call
    /\ m \in current.shown \cap store
    /\ store' = store \ {m}
    /\ unlogged' = unlogged \cup {turn + 1}
    /\ current' = [current EXCEPT !.calls = @ + 1]
    /\ UNCHANGED <<disk, torn, phase, turn, log, forgotten>>

\* A call that changes nothing: over the limit, without a cue, an id that was not injected
\* or is gone, an unknown tool, or refused by the engine.
CallInVain ==
    /\ Call
    /\ current' = [current EXCEPT !.calls = @ + 1]
    /\ UNCHANGED <<store, disk, torn, phase, turn, log, unlogged, forgotten>>

AnswerTopsUp(failed) ==             \* mutant: extraction unless the limit is reached
    /\ phase = "conversing"
    /\ failed => current.calls = 0
    /\ phase' = "extracting"
    /\ \E n \in 0 .. MaxCalls :
         current' = [current EXCEPT !.failed = failed,
                        !.left = IF ~failed /\ current.saved < MaxWrites /\ ToolFallback
                                 THEN Min({n, MaxWrites}) ELSE 0]
    /\ UNCHANGED <<store, disk, torn, turn, log, unlogged, forgotten>>

\* The model answered; one that could not be reached called no tool.  A turn that saved
\* nothing asks for texts to remember and takes at most MaxWrites of them.
Answer(failed) ==
    /\ phase = "conversing"
    /\ failed => current.calls = 0
    /\ phase' = "extracting"
    /\ \E n \in 0 .. MaxCalls :
         current' = [current EXCEPT !.failed = failed,
                        !.left = IF ~failed /\ current.saved = 0 /\ ToolFallback
                                 THEN Min({n, MaxWrites}) ELSE 0]
    /\ UNCHANGED <<store, disk, torn, turn, log, unlogged, forgotten>>

\* One extracted text is remembered, or in vain.
Fallback ==
    /\ phase = "extracting" /\ current.left > 0
    /\ \/ /\ \E m \in Memories : \E evicted \in Evictions(m) : Remembered(m, evicted)
          /\ current' = [current EXCEPT !.left = @ - 1, !.saved = @ + 1]
       \/ /\ current' = [current EXCEPT !.left = @ - 1]
          /\ UNCHANGED <<store, unlogged>>
    /\ UNCHANGED <<disk, torn, phase, turn, log, forgotten>>

\* Citing strengthens the injected memories the answer names; failing, it goes unnoticed.
Cite ==
    /\ phase = "extracting" /\ current.left = 0
    /\ phase' = "answered"
    /\ \E cited \in SUBSET (current.shown \cap store) :
         unlogged' = IF cited = {} THEN unlogged ELSE unlogged \cup {turn + 1}
    /\ UNCHANGED <<store, disk, torn, turn, log, current, forgotten>>

\* The row of the turn in hand is committed.
RowWritten ==
    /\ disk' = Saved(disk, turn + 1)
    /\ torn' = (torn \ {turn + 1}) \cap disk'

\* The turn is logged: on disk, then in memory, after all that is there.
LogTurn ==
    /\ phase = "answered"
    /\ phase' = "idle"
    /\ turn' = turn + 1
    /\ RowWritten
    /\ log' = Newest(log \cup {turn'})
    /\ current' = NoTurn
    /\ unlogged' = unlogged \ {turn'}
    /\ UNCHANGED <<store, forgotten>>

LogFailsSilently ==                 \* mutant: the error of the save is dropped
    /\ phase = "answered"
    /\ phase' = "idle"
    /\ turn' = turn + 1
    /\ current' = NoTurn
    /\ UNCHANGED <<store, disk, torn, log, unlogged, forgotten>>

\* The log's commit fails, written or not, and the error ends the process.
LogFails ==
    /\ phase = "answered"
    /\ RowWritten \/ UNCHANGED <<disk, torn>>
    /\ phase' = "off"
    /\ turn' = 0
    /\ log' = {}
    /\ current' = NoTurn
    /\ unlogged' = {}
    /\ UNCHANGED <<store, forgotten>>

\* --dream: verdicts replace memories by at most as many gists.  No turn, no log.
Dream ==
    /\ phase = "idle"
    /\ \E gone \in SUBSET store : \E gists \in SUBSET (Memories \ store) :
         /\ Cardinality(gists) <= Cardinality(gone)
         /\ store' = (store \ gone) \cup gists
    /\ UNCHANGED <<disk, torn, phase, turn, log, current, unlogged, forgotten>>

Init ==
    /\ store = {} /\ disk = {} /\ torn = {} /\ unlogged = {} /\ forgotten = FALSE
    /\ phase = "off" /\ turn = 0 /\ log = {} /\ current = NoTurn

Next ==
    \/ Open \/ WipeFiles \/ WipeStore \/ WipeLog \/ Exit
    \/ Recall \/ CallInVain \/ Fallback \/ Cite \/ LogTurn \/ LogFails \/ Dream
    \/ \E m \in Memories : Save(m) \/ Delete(m)
    \/ \E failed \in BOOLEAN : Answer(failed)
    \/ \E t \in disk \ torn : Tear(t)

Spec == Init /\ [][Next]_vars

-----------------------------------------------------------------------------
(* Properties.                                                             *)

\* The tools and the extraction together save at most max_writes_per_turn memories in one
\* turn: the extraction's take(max_writes) is only safe because nothing was saved before.
\* A turn whose converse failed saves none, and does not ask the unreachable model again.
SavesWithinLimit ==
    /\ current.saved <= MaxWrites
    /\ current.failed => current.saved = 0 /\ current.left = 0

\* Through crashes, failing saves and half-done wipes, and with unreadable rows in it, the
\* file holds consecutive turns, at most the newest Keep and, once there have been as many,
\* exactly those: only then may TurnLog::save cut by a key range.  It does as long as every
\* process that opened the log could read a row of it, and counted on from there.
LogIsWindow ==
    disk # {} /\ ~forgotten => LET last == Max(disk)
                               IN  disk = {t \in 1 .. last : t > last - Keep}

\* Between turns the log in memory has every turn the next process will read, the turn
\* counter is its last turn, and where no row is unreadable it is the log on disk, however
\* the process came by them: loaded, wiped or counted.
MemoryMirrorsLog ==
    phase = "idle" =>
        /\ Loaded(disk, torn) \subseteq log
        /\ Keep > 0 => turn = LastTurn(log)
        /\ torn = {} /\ ~forgotten => log = disk

\* The numbers of logged turns only grow: no turn is logged over a readable one, not by the
\* process that retries a turn its predecessor never logged (Session::with_parts, turn),
\* as long as no process found a log of which it could read nothing.
TurnsAreNotOverwritten ==
    [][phase = "answered" /\ phase' = "idle" /\ ~forgotten =>
           \A t \in disk \ torn : t < turn']_vars

\* The log lags the store by at most one turn of the running process, the one in hand
\* (TurnLog): no later turn touches the store before it is logged.
LagsByOneTurn == unlogged \subseteq {turn + 1}
=============================================================================
