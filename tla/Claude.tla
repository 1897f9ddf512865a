------------------------------- MODULE Claude -------------------------------
(***************************************************************************)
(* The Claude client (bench/src/claude.rs): ask, with its answer cache on  *)
(* disk and in memory, the file of pending prompts, the retries of         *)
(* llm.rs and the latch that stops asking a dead CLI; save through         *)
(* write_atomic; and what happens around it: the process stops anywhere,   *)
(* files get damaged, and others write them: they answer pending prompts    *)
(* and merge them into the cache file, prune it, or are another process of *)
(* this program.  One CLI call is one step here; CliRun looks inside it.   *)
(*                                                                         *)
(* A map from keys to entries is [Keys -> Prompts \cup {None}]: an entry   *)
(* names the exact prompt it was made for (model and system included) and, *)
(* in the cache, holds the answer to that prompt.                          *)
(***************************************************************************)
EXTENDS Naturals

CONSTANTS
    Prompts,        \* (model, system, prompt) triples
    Keys,           \* 64-bit hashes
    KeyOf,          \* key(): two prompts may share a key
    None,           \* no entry
    Half,           \* a file somebody began to write
    Damaged,        \* a file that is no JSON object
    MaxRetries      \* MAX_RETRIES

ASSUME ClaudeAssumption ==
    /\ KeyOf \in [Prompts -> Keys]
    /\ None \notin Prompts
    /\ MaxRetries \in Nat
    /\ Half # Damaged
    /\ {Half, Damaged} \cap [Keys -> Prompts \cup {None}] = {}

VARIABLES
    up,         \* a client is open
    cache,      \* ClaudeCode.cache
    latched,    \* ClaudeCode.cli_error is set
    call,       \* the ask in progress, or what the last one returned
    disk,       \* the file of the cache and that of the pending prompts: a map, Half or Damaged
    tmp,        \* the sibling .tmp file of the save in progress, or what an earlier one left
    known,      \* history: prompts whose answer this client saved to the cache file or read there
    unseen      \* history: keys others wrote in a file since this client copied it

vars == <<up, cache, latched, call, disk, tmp, known, unseen>>

Map == [Keys -> Prompts \cup {None}]

Empty == [k \in Keys |-> None]

Files == {"cache", "pending"}

\* Where an ask stands.  "ask": the CLI runs; "queue": it failed; "write", "rename": a save.
Phases == {"idle", "ask", "queue", "write", "rename", "answered", "queued", "unqueued"}

Call == [phase : Phases, prompt : Prompts \cup {None}, attempt : 0 .. MaxRetries,
         file : Files, map : Map, answer : Prompts \cup {None}]

Idle == [phase |-> "idle", prompt |-> None, attempt |-> 0,
         file |-> "cache", map |-> Empty, answer |-> None]

Put(map, p) == [map EXCEPT ![KeyOf[p]] = p]

-----------------------------------------------------------------------------
(* Opening and closing.                                                    *)

\* load_map: a file that cannot be read is moved aside, as if it were missing.
Loaded(file) == IF file \in Map THEN file ELSE Empty

OpenWithoutReading ==           \* mutant: the cache is read when it is next written
    /\ ~up
    /\ up' = TRUE
    /\ cache' = Empty
    /\ latched' = FALSE
    /\ call' = Idle
    /\ UNCHANGED <<disk, tmp, known, unseen>>

\* Prompts whose answers a map holds.
Held(map) == {p \in Prompts : map[KeyOf[p]] = p}

\* ClaudeCode::new.  It fails, and nothing is open, when a damaged cache cannot be moved.
Open ==
    /\ ~up
    /\ up' = TRUE
    /\ cache' = Loaded(disk["cache"])
    /\ disk' = [disk EXCEPT !["cache"] = Loaded(@)]
    /\ known' = known \cup Held(Loaded(disk["cache"]))
    /\ latched' = FALSE
    /\ call' = Idle
    /\ UNCHANGED <<tmp, unseen>>

\* A save that does not reach its rename leaves the sibling file behind.  The next one empties
\* it first (File::create), so it is all the same how far this one got.
LeftOver == IF tmp = None THEN None ELSE Half

\* The process ends: between two asks, or anywhere inside one.
Stop ==
    /\ up
    /\ up' = FALSE
    /\ cache' = Empty
    /\ latched' = FALSE
    /\ call' = Idle
    /\ unseen' = [file \in Files |-> {}]
    /\ tmp' = LeftOver
    /\ UNCHANGED <<disk, known>>

-----------------------------------------------------------------------------
(* Asking.                                                                 *)

Returned == call.phase \in {"idle", "answered", "queued", "unqueued"}

HitOfAnyPrompt(p) == cache[KeyOf[p]] # None     \* mutant: the key alone decides

\* A 64-bit key can collide: an entry answers only the exact prompt it was made for.
Hit(p) == cache[KeyOf[p]] = p

\* The cached answer, a latched failure, or the first attempt at a live one.
Ask(p) ==
    /\ up /\ Returned
    /\ call' = IF Hit(p) THEN [Idle EXCEPT !.phase = "answered", !.prompt = p,
                                           !.answer = cache[KeyOf[p]]]
               ELSE [Idle EXCEPT !.phase = IF latched THEN "queue" ELSE "ask", !.prompt = p]
    /\ UNCHANGED <<up, cache, latched, disk, tmp, known, unseen>>

CliAnswersUnsaved ==            \* mutant: a live answer is not kept in memory
    /\ call.phase = "ask"
    /\ call' = [call EXCEPT !.phase = "write", !.attempt = 0, !.file = "cache",
                            !.map = Put(Empty, call.prompt), !.answer = call.prompt]
    /\ UNCHANGED <<up, cache, latched, disk, tmp, known, unseen>>

\* A live answer goes into the cache, then to its file.
CliAnswers ==
    /\ call.phase = "ask"
    /\ cache' = Put(cache, call.prompt)
    /\ call' = [call EXCEPT !.phase = "write", !.attempt = 0, !.file = "cache",
                            !.map = cache', !.answer = call.prompt]
    /\ UNCHANGED <<up, latched, disk, tmp, known, unseen>>

CliBusyForEver ==               \* mutant: the retries never run out
    /\ call.phase = "ask"
    /\ call' = [call EXCEPT !.attempt = (@ + 1) % (MaxRetries + 1)]
    /\ UNCHANGED <<up, cache, latched, disk, tmp, known, unseen>>

CliBusyOnceMore ==              \* mutant: one retry too many
    /\ call.phase = "ask"
    /\ call' = IF call.attempt <= MaxRetries THEN [call EXCEPT !.attempt = @ + 1]
               ELSE [call EXCEPT !.phase = "queue"]
    /\ UNCHANGED <<up, cache, latched, disk, tmp, known, unseen>>

\* An overload, a timeout, an empty body: again, until the retries are spent.
CliBusy ==
    /\ call.phase = "ask"
    /\ call' = IF call.attempt < MaxRetries THEN [call EXCEPT !.attempt = @ + 1]
               ELSE [call EXCEPT !.phase = "queue", !.attempt = 0]
    /\ UNCHANGED <<up, cache, latched, disk, tmp, known, unseen>>

\* Not installed, not signed in, no such model: no later ask of this client calls the CLI.
CliFails ==
    /\ call.phase = "ask"
    /\ latched' = TRUE
    /\ call' = [call EXCEPT !.phase = "queue", !.attempt = 0]
    /\ UNCHANGED <<up, cache, disk, tmp, known, unseen>>

-----------------------------------------------------------------------------
(* The prompt is queued.                                                   *)

QueueWithoutReading ==          \* mutant: the file is written with this prompt alone
    /\ call.phase = "queue"
    /\ call' = [call EXCEPT !.phase = "write", !.file = "pending",
                            !.map = Put(Empty, call.prompt)]
    /\ unseen' = [unseen EXCEPT !["pending"] = {}]
    /\ UNCHANGED <<up, cache, latched, disk, tmp, known>>

\* The pending prompts are read from the file, a damaged one is moved aside.
Queue ==
    /\ call.phase = "queue"
    /\ disk' = [disk EXCEPT !["pending"] = Loaded(@)]
    /\ call' = [call EXCEPT !.phase = "write", !.file = "pending",
                            !.map = Put(disk'["pending"], call.prompt)]
    /\ unseen' = [unseen EXCEPT !["pending"] = {}]
    /\ UNCHANGED <<up, cache, latched, tmp, known>>

\* A damaged one that cannot be moved aside: an error that says so.
CannotQueue ==
    /\ call.phase = "queue" /\ disk["pending"] \notin Map
    /\ call' = [call EXCEPT !.phase = "unqueued"]
    /\ UNCHANGED <<up, cache, latched, disk, tmp, known, unseen>>

-----------------------------------------------------------------------------
(* Saving: write_atomic writes a sibling file and renames it.              *)

\* What ask returns once the save is over, whether it succeeded or not.
SaveEnds ==
    call' = [Idle EXCEPT !.phase = IF call.file = "cache" THEN "answered" ELSE "queued",
                         !.prompt = call.prompt, !.answer = call.answer]

BeginWrite ==
    /\ call.phase = "write" /\ tmp # Half
    /\ tmp' = Half
    /\ UNCHANGED <<up, cache, latched, call, disk, known, unseen>>

RenameEarly ==                  \* mutant: renamed before all is written
    /\ call.phase = "write" /\ tmp = Half
    /\ disk' = [disk EXCEPT ![call.file] = tmp]
    /\ tmp' = call.map
    /\ call' = [call EXCEPT !.phase = "rename"]
    /\ UNCHANGED <<up, cache, latched, known, unseen>>

FinishWrite ==
    /\ call.phase = "write" /\ tmp = Half
    /\ tmp' = call.map
    /\ call' = [call EXCEPT !.phase = "rename"]
    /\ UNCHANGED <<up, cache, latched, disk, known, unseen>>

Rename ==
    /\ call.phase = "rename"
    /\ disk' = [disk EXCEPT ![call.file] = tmp]
    /\ known' = IF call.file = "cache" THEN known \cup Held(tmp) ELSE known
    /\ unseen' = [unseen EXCEPT ![call.file] = {}]
    /\ tmp' = None
    /\ SaveEnds
    /\ UNCHANGED <<up, cache, latched>>

\* A save that fails prints a line, and nothing else.
SaveFails ==
    /\ call.phase \in {"write", "rename"}
    /\ SaveEnds
    /\ tmp' = LeftOver
    /\ UNCHANGED <<up, cache, latched, disk, known, unseen>>

-----------------------------------------------------------------------------
(* The rest of the world.                                                  *)

\* A file gets damaged; what it held is only in the copy that is set aside.
Damage(file) ==
    /\ disk[file] \in Map
    /\ disk' = [disk EXCEPT ![file] = Damaged]
    /\ known' = IF file = "cache" THEN {} ELSE known
    /\ UNCHANGED <<up, cache, latched, call, tmp, unseen>>

\* The client will write this file from a copy it has taken: the cache since it was opened,
\* the pending prompts while it saves them.
HasCopy(file) == IF file = "cache" THEN up
                 ELSE call.phase \in {"write", "rename"} /\ call.file = "pending"

\* Maps that hold every entry under its own key.
Keyed == {map \in Map : \A k \in Keys : map[k] # None => KeyOf[map[k]] = k}

\* Somebody else writes a file whole: answers merged into it, entries pruned, or a save of
\* another process.  Nothing locks the files.  (Two processes that save one file at the same
\* moment would share its sibling file too; that is left out.)
OthersWrite(file, map) ==
    /\ disk' = [disk EXCEPT ![file] = map]
    /\ known' = IF file = "cache" THEN known \cap Held(map) ELSE known
    /\ unseen' = [unseen EXCEPT ![file] =
          IF HasCopy(file)
          THEN @ \cup {k \in Keys : map[k] # None /\ map[k] # Loaded(disk[file])[k]}
          ELSE @]
    /\ UNCHANGED <<up, cache, latched, call, tmp>>

-----------------------------------------------------------------------------
Init ==
    /\ up = FALSE
    /\ cache = Empty
    /\ latched = FALSE
    /\ call = Idle
    /\ disk = [file \in Files |-> Empty]
    /\ tmp = None
    /\ known = {}
    /\ unseen = [file \in Files |-> {}]

\* What an ask goes through until it returns.
Step ==
    \/ CliAnswers \/ CliBusy \/ CliFails
    \/ Queue \/ CannotQueue
    \/ BeginWrite \/ FinishWrite \/ Rename \/ SaveFails

Next ==
    \/ Open \/ Stop
    \/ \E p \in Prompts : Ask(p)
    \/ Step
    \/ \E file \in Files : Damage(file)
    \/ \E file \in Files, map \in Keyed : OthersWrite(file, map)

\* An ask is one synchronous call: it goes on, whatever its steps come to.
Spec == Init /\ [][Next]_vars /\ WF_vars(Step)

-----------------------------------------------------------------------------
(* Properties.                                                             *)

TypeOK ==
    /\ up \in BOOLEAN /\ latched \in BOOLEAN
    /\ cache \in Map
    /\ call \in Call
    /\ disk \in [Files -> Map \cup {Half, Damaged}]
    /\ tmp \in Map \cup {Half, None}
    /\ known \subseteq Prompts
    /\ unseen \in [Files -> SUBSET Keys]

\* No caller is ever given the answer to another prompt, whichever prompts share a key and
\* whoever wrote the cache file (the exact comparison in ask).
ExactAnswers == call.phase = "answered" => call.answer = call.prompt

\* Wherever the process stops, each file is the old one or the new one, never half of one
\* (write_atomic).
FilesAreWhole == \A file \in Files : disk[file] # Half

\* The keys a step takes out of a file that is a map before it and after it.
Lost(file) ==
    {k \in Keys : /\ disk[file] \in Map /\ disk[file][k] # None
                  /\ disk'[file] \in Map /\ disk'[file][k] = None}

\* An ask takes nothing out of a file but what others wrote there behind its back: in the
\* cache file since the client opened it or last saved it, in that of the pending prompts
\* between the read and the rename.  A client writes its whole map over the cache file, and
\* reads the pending file before it adds to it (new, ask, save).
OnlyUnseenAreLost == [][call' # call => \A file \in Files : Lost(file) \subseteq unseen[file]]_vars

Shared(p) == \E q \in Prompts \ {p} : KeyOf[q] = KeyOf[p]

\* A prompt whose answer was saved is not put to the model again, in this process or a later
\* one, unless others took the answer out, the cache was damaged or the prompt shares its key.
AsksOnce ==
    [][call'.phase = "ask" /\ Returned => (call'.prompt \in known => Shared(call'.prompt))]_vars

\* However long the model is overloaded, an ask comes to an end.
AskReturns == ~Returned ~> Returned
=============================================================================
