---------------------------- MODULE Claude_proofs ----------------------------
(***************************************************************************)
(* Theorems about the Claude client, for every set of prompts and keys,    *)
(* every way keys collide and every number of retries, and about one run   *)
(* of the CLI (CliRun).                                                    *)
(***************************************************************************)
EXTENDS Claude, CliRun, TLAPS

\* A save of the cache writes the cache, and its prompt is the one it answers.
SavesTheCache ==
    call.phase \in {"write", "rename"} /\ call.file = "cache" =>
        call.map = cache /\ call.answer = call.prompt

\* A save of the pending prompts covers the file it overwrites, but for what others wrote
\* there since it was read.
SavesAllPending ==
    call.phase \in {"write", "rename"} /\ call.file = "pending" /\ disk["pending"] \in Map =>
        \A k \in Keys \ unseen["pending"] : disk["pending"][k] # None => call.map[k] # None

\* Only a finished temporary file is renamed.
RenamesWholeFiles == call.phase = "rename" => tmp = call.map

\* An ask is about a prompt, and only an open client asks.
AsksAPrompt ==
    /\ call.phase # "idle" => call.prompt \in Prompts
    /\ ~up => call.phase = "idle"

\* An open client knows every key of the cache file that others have not written since.
MemoryCoversFile ==
    up /\ disk["cache"] \in Map =>
        \A k \in Keys \ unseen["cache"] : disk["cache"][k] # None => cache[k] # None

IInv ==
    /\ TypeOK
    /\ ExactAnswers
    /\ FilesAreWhole
    /\ SavesTheCache
    /\ SavesAllPending
    /\ RenamesWholeFiles
    /\ AsksAPrompt

-----------------------------------------------------------------------------
(* What Put, Loaded and Empty return.                                      *)

LEMMA EmptyIsMap == Empty \in Map
  BY DEF Empty, Map

LEMMA IdleIsCall == Idle \in Call
  BY EmptyIsMap, ClaudeAssumption DEF Idle, Call, Phases, Files

LEMMA SaveEndsIsCall == call \in Call /\ SaveEnds => call' \in Call
  BY IdleIsCall DEF SaveEnds, Call, Phases

LEMMA NoAttempt == 0 \in 0 .. MaxRetries
  BY ClaudeAssumption

LEMMA PutIsMap ==
  ASSUME NEW map \in Map, NEW p \in Prompts
  PROVE  /\ Put(map, p) \in Map
         /\ Put(map, p)[KeyOf[p]] = p
         /\ \A k \in Keys : map[k] # None => Put(map, p)[k] # None
  BY ClaudeAssumption DEF Put, Map

LEMMA LoadedIsMap ==
  ASSUME NEW file
  PROVE  /\ Loaded(file) \in Map
         /\ file \in Map => Loaded(file) = file
  BY EmptyIsMap DEF Loaded

LEMMA DamagedIsNoMap == Damaged \notin Map /\ Half \notin Map /\ Half # Damaged
  BY ClaudeAssumption DEF Map

-----------------------------------------------------------------------------
(* The invariant.                                                          *)

LEMMA InitInvariant == Init => IInv
  <1> SUFFICES ASSUME Init PROVE IInv
    OBVIOUS
  <1> USE DEF Init
  <1>1. TypeOK
    BY EmptyIsMap, IdleIsCall DEF TypeOK, Files
  <1>2. FilesAreWhole
    BY EmptyIsMap, DamagedIsNoMap DEF FilesAreWhole, Files
  <1>3. ExactAnswers /\ SavesTheCache /\ SavesAllPending /\ RenamesWholeFiles /\ AsksAPrompt
    BY DEF Idle, ExactAnswers, SavesTheCache, SavesAllPending, RenamesWholeFiles, AsksAPrompt
  <1> QED
    BY <1>1, <1>2, <1>3 DEF IInv

\* The parts of the invariant that speak of the ask in progress.
AskInv == ExactAnswers /\ SavesTheCache /\ SavesAllPending /\ RenamesWholeFiles /\ AsksAPrompt

LEMMA NextInvariant == IInv /\ [Next]_vars => IInv'
  <1> SUFFICES ASSUME IInv, [Next]_vars PROVE IInv'
    OBVIOUS
  <1> USE DEF IInv
  <1>t. /\ call \in Call /\ cache \in Map /\ tmp \in Map \cup {Half, None}
        /\ disk \in [Files -> Map \cup {Half, Damaged}]
        /\ disk["cache"] # Half /\ disk["pending"] # Half
        /\ "cache" \in Files /\ "pending" \in Files
    BY DEF TypeOK, FilesAreWhole, Files
  <1>1. CASE Open
    <2>1. TypeOK'
      BY <1>1, LoadedIsMap, IdleIsCall DEF Open, TypeOK, Files, Held
    <2>2. FilesAreWhole'
      BY <1>1, <1>t, LoadedIsMap, DamagedIsNoMap DEF Open, FilesAreWhole, Files
    <2>3. AskInv'
      BY <1>1 DEF Open, Idle, AskInv, ExactAnswers, SavesTheCache, SavesAllPending,
                  RenamesWholeFiles, AsksAPrompt
    <2> QED
      BY <2>1, <2>2, <2>3 DEF AskInv
  <1>2. CASE Stop
    <2>1. TypeOK' /\ FilesAreWhole'
      BY <1>2, EmptyIsMap, IdleIsCall DEF Stop, LeftOver, TypeOK, FilesAreWhole
    <2>2. AskInv'
      BY <1>2 DEF Stop, Idle, AskInv, ExactAnswers, SavesTheCache, SavesAllPending,
                  RenamesWholeFiles, AsksAPrompt
    <2> QED
      BY <2>1, <2>2 DEF AskInv
  <1>3. ASSUME NEW p \in Prompts, Ask(p) PROVE IInv'
    <2>1. call' \in Call
      BY <1>3, IdleIsCall, ClaudeAssumption DEF Ask, Idle, Call, Phases, Hit, Map, TypeOK
    <2>2. TypeOK' /\ FilesAreWhole'
      BY <1>3, <2>1 DEF Ask, TypeOK, FilesAreWhole
    <2>3. AskInv'
      BY <1>3 DEF Ask, Hit, Idle, AskInv, ExactAnswers, SavesTheCache, SavesAllPending,
                  RenamesWholeFiles, AsksAPrompt
    <2> QED
      BY <2>1, <2>2, <2>3 DEF AskInv
  <1>4. CASE CliAnswers
    <2>0. call.prompt \in Prompts
      BY <1>4 DEF CliAnswers, AsksAPrompt
    <2>1. cache' \in Map
      BY <1>4, <1>t, <2>0, PutIsMap DEF CliAnswers
    <2>2. call' = [call EXCEPT !.phase = "write", !.attempt = 0, !.file = "cache",
                               !.map = cache', !.answer = call.prompt]
      BY <1>4 DEF CliAnswers
    <2>3. call' \in Call
      BY <1>t, <2>0, <2>1, <2>2, NoAttempt DEF Call, Phases, Files
    <2>4. TypeOK' /\ FilesAreWhole'
      BY <1>4, <2>1, <2>3 DEF CliAnswers, TypeOK, FilesAreWhole
    <2>5. AskInv'
      BY <1>4, <1>t, <2>0, <2>2 DEF CliAnswers, AskInv, ExactAnswers, SavesTheCache,
           SavesAllPending, RenamesWholeFiles, AsksAPrompt, Call
    <2> QED
      BY <2>4, <2>5 DEF AskInv
  <1>5. CASE CliBusy
    <2>1. call' \in Call
      <3>1. CASE call.attempt < MaxRetries
        <4>1. call.attempt + 1 \in 0 .. MaxRetries
          BY <1>t, <3>1, ClaudeAssumption DEF Call
        <4> QED
          BY <1>5, <1>t, <3>1, <4>1 DEF CliBusy, Call
      <3>2. CASE ~(call.attempt < MaxRetries)
        BY <1>5, <1>t, <3>2, NoAttempt DEF CliBusy, Call, Phases
      <3> QED
        BY <3>1, <3>2
    <2>2. TypeOK' /\ FilesAreWhole'
      BY <1>5, <2>1 DEF CliBusy, TypeOK, FilesAreWhole
    <2>3. AskInv'
      BY <1>5, <1>t DEF CliBusy, AskInv, ExactAnswers, SavesTheCache, SavesAllPending,
           RenamesWholeFiles, AsksAPrompt, Call
    <2> QED
      BY <2>2, <2>3 DEF AskInv
  <1>6. CASE CliFails
    <2>1. call' \in Call
      BY <1>6, <1>t, NoAttempt DEF CliFails, Call, Phases
    <2>2. TypeOK' /\ FilesAreWhole'
      BY <1>6, <2>1 DEF CliFails, TypeOK, FilesAreWhole
    <2>3. AskInv'
      BY <1>6, <1>t DEF CliFails, AskInv, ExactAnswers, SavesTheCache, SavesAllPending,
           RenamesWholeFiles, AsksAPrompt, Call
    <2> QED
      BY <2>2, <2>3 DEF AskInv
  <1>7. CASE Queue
    <2>0. call.prompt \in Prompts
      BY <1>7 DEF Queue, AsksAPrompt
    <2>1. disk'["pending"] = Loaded(disk["pending"]) /\ disk'["cache"] = disk["cache"] /\ disk'["pending"] \in Map
      BY <1>7, <1>t, LoadedIsMap DEF Queue
    <2>2. call' = [call EXCEPT !.phase = "write", !.file = "pending",
                               !.map = Put(disk'["pending"], call.prompt)]
      BY <1>7 DEF Queue
    <2>3. call' \in Call
      BY <1>t, <2>0, <2>1, <2>2, PutIsMap DEF Call, Phases, Files
    <2>4. TypeOK'
      BY <1>7, <1>t, <2>1, <2>3 DEF Queue, TypeOK, Files
    <2>5. FilesAreWhole'
      BY <1>t, <2>1, DamagedIsNoMap DEF FilesAreWhole, Files
    <2>6. AskInv'
      <3>1. SavesAllPending'
        BY <1>t, <2>0, <2>1, <2>2, PutIsMap DEF SavesAllPending, Call
      <3> QED
        BY <1>7, <1>t, <2>0, <2>2, <3>1 DEF Queue, AskInv, ExactAnswers, SavesTheCache,
             RenamesWholeFiles, AsksAPrompt, Call
    <2> QED
      BY <2>4, <2>5, <2>6 DEF AskInv
  <1>8. CASE CannotQueue
    <2>1. call' \in Call
      BY <1>8, <1>t DEF CannotQueue, Call, Phases
    <2>2. TypeOK' /\ FilesAreWhole'
      BY <1>8, <2>1 DEF CannotQueue, TypeOK, FilesAreWhole
    <2>3. AskInv'
      BY <1>8, <1>t DEF CannotQueue, AskInv, ExactAnswers, SavesTheCache, SavesAllPending,
           RenamesWholeFiles, AsksAPrompt, Call
    <2> QED
      BY <2>2, <2>3 DEF AskInv
  <1>9. CASE BeginWrite
    BY <1>9 DEF BeginWrite, TypeOK, FilesAreWhole, ExactAnswers, SavesTheCache,
                SavesAllPending, RenamesWholeFiles, AsksAPrompt
  <1>10. CASE FinishWrite
    <2>1. call' = [call EXCEPT !.phase = "rename"] /\ tmp' = call.map
      BY <1>10 DEF FinishWrite
    <2>2. call' \in Call /\ tmp' \in Map
      BY <1>t, <2>1 DEF Call, Phases
    <2>3. TypeOK' /\ FilesAreWhole'
      BY <1>10, <2>2 DEF FinishWrite, TypeOK, FilesAreWhole
    <2>4. AskInv'
      BY <1>10, <1>t, <2>1 DEF FinishWrite, AskInv, ExactAnswers, SavesTheCache,
           SavesAllPending, RenamesWholeFiles, AsksAPrompt, Call
    <2> QED
      BY <2>3, <2>4 DEF AskInv
  <1>11. CASE Rename
    <2>1. tmp = call.map /\ tmp \in Map /\ call.file \in Files
      BY <1>11, <1>t DEF Rename, RenamesWholeFiles, Call
    <2>2. disk' = [disk EXCEPT ![call.file] = tmp]
      BY <1>11 DEF Rename
    <2>3. call' \in Call
      BY <1>11, <1>t, SaveEndsIsCall DEF Rename
    <2>4. TypeOK'
      BY <1>11, <1>t, <2>1, <2>2, <2>3 DEF Rename, TypeOK, Held
    <2>5. FilesAreWhole'
      BY <1>t, <2>1, <2>2, DamagedIsNoMap DEF FilesAreWhole, Files
    <2>6. AskInv'
      BY <1>11, <1>t DEF Rename, SaveEnds, Idle, AskInv, ExactAnswers, SavesTheCache,
           SavesAllPending, RenamesWholeFiles, AsksAPrompt, Call
    <2> QED
      BY <2>4, <2>5, <2>6 DEF AskInv
  <1>12. CASE SaveFails
    <2>1. call' \in Call
      BY <1>12, <1>t, SaveEndsIsCall DEF SaveFails
    <2>2. TypeOK' /\ FilesAreWhole'
      BY <1>12, <2>1 DEF SaveFails, LeftOver, TypeOK, FilesAreWhole
    <2>3. AskInv'
      BY <1>12, <1>t DEF SaveFails, SaveEnds, Idle, AskInv, ExactAnswers, SavesTheCache,
           SavesAllPending, RenamesWholeFiles, AsksAPrompt, Call
    <2> QED
      BY <2>2, <2>3 DEF AskInv
  <1>13. ASSUME NEW file \in Files, Damage(file) PROVE IInv'
    <2>1. disk' = [disk EXCEPT ![file] = Damaged]
      BY <1>13 DEF Damage
    <2>2. TypeOK'
      BY <1>13, <1>t, <2>1 DEF Damage, TypeOK
    <2>3. FilesAreWhole'
      BY <1>t, <2>1, DamagedIsNoMap DEF FilesAreWhole, Files
    <2>4. AskInv'
      BY <1>13, <1>t, <2>1, DamagedIsNoMap DEF Damage, AskInv, ExactAnswers, SavesTheCache,
           SavesAllPending, RenamesWholeFiles, AsksAPrompt, Files
    <2> QED
      BY <2>2, <2>3, <2>4 DEF AskInv
  <1>14. ASSUME NEW file \in Files, NEW map \in Keyed, OthersWrite(file, map) PROVE IInv'
    <2>1. map \in Map /\ disk' = [disk EXCEPT ![file] = map]
      BY <1>14 DEF OthersWrite, Keyed
    <2>2. unseen' \in [Files -> SUBSET Keys] /\ known' \subseteq Prompts
      BY <1>14 DEF OthersWrite, TypeOK
    <2>3. TypeOK'
      BY <1>14, <1>t, <2>1, <2>2 DEF OthersWrite, TypeOK
    <2>4. FilesAreWhole'
      BY <1>t, <2>1, DamagedIsNoMap DEF FilesAreWhole, Files
    <2>5. SavesAllPending'
      <3>1. CASE file = "cache"
        BY <1>14, <1>t, <3>1 DEF OthersWrite, SavesAllPending, TypeOK
      <3>2. CASE file = "pending"
        <4> SUFFICES ASSUME call.phase \in {"write", "rename"}, call.file = "pending",
                            NEW k \in Keys \ unseen'["pending"], map[k] # None
                     PROVE  call.map[k] # None
          BY <1>14, <1>t, <2>1, <3>2 DEF OthersWrite, SavesAllPending
        <4>1. unseen'["pending"] = unseen["pending"] \cup
                {j \in Keys : map[j] # None /\ map[j] # Loaded(disk["pending"])[j]}
          BY <1>14, <1>t, <3>2 DEF OthersWrite, HasCopy, TypeOK
        <4>2. k \notin unseen["pending"] /\ map[k] = Loaded(disk["pending"])[k]
          BY <4>1
        <4>3. disk["pending"] \in Map
          BY <4>2 DEF Loaded, Empty
        <4> QED
          BY <4>2, <4>3, LoadedIsMap DEF SavesAllPending
      <3> QED
        BY <3>1, <3>2 DEF Files
    <2>6. AskInv'
      BY <1>14, <2>5 DEF OthersWrite, AskInv, ExactAnswers, SavesTheCache, RenamesWholeFiles,
           AsksAPrompt
    <2> QED
      BY <2>3, <2>4, <2>6 DEF AskInv
  <1>15. CASE UNCHANGED vars
    BY <1>15 DEF vars, TypeOK, FilesAreWhole, ExactAnswers, SavesTheCache, SavesAllPending,
                 RenamesWholeFiles, AsksAPrompt
  <1> QED
    BY <1>1, <1>2, <1>3, <1>4, <1>5, <1>6, <1>7, <1>8, <1>9, <1>10, <1>11, <1>12, <1>13,
       <1>14, <1>15 DEF Next, Step

LEMMA Invariance == Spec => []IInv
  BY InitInvariant, NextInvariant, PTL DEF Spec

-----------------------------------------------------------------------------
(* The theorems.                                                           *)

\* The client's state is always well formed: an ask never makes more than MaxRetries retries,
\* and memory and files hold what they should (ask, retry, save).
THEOREM TypeCorrect == Spec => []TypeOK
  BY Invariance, PTL DEF IInv

\* However keys collide and whoever writes the files, no ask returns the answer to another
\* prompt (the exact comparison in ask).
THEOREM AnswersAreExact == Spec => []ExactAnswers
  BY Invariance, PTL DEF IInv

\* Wherever the process stops, no file is half written (write_atomic).
THEOREM FilesStayWhole == Spec => []FilesAreWhole
  BY Invariance, PTL DEF IInv

-----------------------------------------------------------------------------
(* What an ask may take out of the files.                                  *)

LEMMA NextCovers == IInv /\ MemoryCoversFile /\ [Next]_vars => MemoryCoversFile'
  <1> SUFFICES ASSUME IInv, MemoryCoversFile, [Next]_vars, up', disk'["cache"] \in Map,
                      NEW k \in Keys \ unseen'["cache"], disk'["cache"][k] # None
               PROVE  cache'[k] # None
    BY DEF MemoryCoversFile
  <1>t. /\ disk \in [Files -> Map \cup {Half, Damaged}] /\ cache \in Map
        /\ "cache" \in Files /\ "pending" \in Files /\ unseen \in [Files -> SUBSET Keys]
    BY DEF IInv, TypeOK, Files
  <1>1. CASE /\ disk'["cache"] = disk["cache"] /\ cache' = cache /\ up' = up
             /\ unseen'["cache"] = unseen["cache"]
    BY <1>1 DEF MemoryCoversFile
  <1>2. CASE Open
    BY <1>2, <1>t DEF Open
  <1>3. CASE CliAnswers
    <2>1. call.prompt \in Prompts
      BY <1>3 DEF CliAnswers, IInv, AsksAPrompt
    <2>2. cache[k] # None
      BY <1>3 DEF CliAnswers, MemoryCoversFile
    <2> QED
      BY <1>3, <1>t, <2>1, <2>2, PutIsMap DEF CliAnswers
  <1>4. CASE Rename
    <2>1. CASE call.file = "cache"
      BY <1>4, <1>t, <2>1 DEF Rename, IInv, RenamesWholeFiles, SavesTheCache
    <2>2. CASE call.file = "pending"
      BY <1>1, <1>4, <1>t, <2>2 DEF Rename
    <2> QED
      BY <1>4, <2>1, <2>2 DEF IInv, TypeOK, Call, Files
  <1>5. ASSUME NEW file \in Files, Damage(file) PROVE cache'[k] # None
    BY <1>1, <1>5, <1>t, DamagedIsNoMap DEF Damage, Files
  <1>6. CASE Queue
    BY <1>1, <1>6, <1>t DEF Queue
  <1>7. ASSUME NEW file \in Files, NEW map \in Keyed, OthersWrite(file, map)
        PROVE  cache'[k] # None
    <2>1. CASE file = "pending"
      BY <1>1, <1>7, <1>t, <2>1 DEF OthersWrite
    <2>2. CASE file = "cache"
      <3>1. up /\ cache' = cache /\ map[k] # None
        BY <1>7, <1>t, <2>2 DEF OthersWrite
      <3>2. unseen'["cache"] = unseen["cache"] \cup
              {j \in Keys : map[j] # None /\ map[j] # Loaded(disk["cache"])[j]}
        BY <1>7, <1>t, <2>2, <3>1 DEF OthersWrite, HasCopy
      <3>3. k \notin unseen["cache"] /\ map[k] = Loaded(disk["cache"])[k]
        BY <3>1, <3>2
      <3>4. disk["cache"] \in Map
        BY <3>1, <3>3 DEF Loaded, Empty
      <3> QED
        BY <3>1, <3>3, <3>4, LoadedIsMap DEF MemoryCoversFile
    <2> QED
      BY <2>1, <2>2 DEF Files
  <1> QED
    BY <1>1, <1>2, <1>3, <1>4, <1>5, <1>6, <1>7 DEF Next, Step, vars, Stop, Ask, CliBusy,
       CliFails, CannotQueue, BeginWrite, FinishWrite, SaveFails

\* An open client knows every answer of the cache file but those that others have written
\* there since it opened it or last saved it, whatever stops, fails or is damaged: its memory
\* goes stale in no other way (new, ask, save).
THEOREM MemoryCovers == Spec => []MemoryCoversFile
  <1>1. Init => MemoryCoversFile
    BY DEF Init, MemoryCoversFile
  <1> QED
    BY <1>1, NextCovers, Invariance, PTL DEF Spec

LEMMA StepKeepsPending ==
  ASSUME IInv, [Next]_vars, call' # call
  PROVE  Lost("pending") \subseteq unseen["pending"]
  <1> SUFFICES ASSUME disk["pending"] \in Map, disk'["pending"] \in Map,
                      NEW k \in Keys \ unseen["pending"], disk["pending"][k] # None
               PROVE  disk'["pending"][k] # None
    BY DEF Lost
  <1>t. /\ disk \in [Files -> Map \cup {Half, Damaged}]
        /\ "cache" \in Files /\ "pending" \in Files
    BY DEF IInv, TypeOK, Files
  <1>1. CASE disk'["pending"] = disk["pending"]
    BY <1>1
  <1>2. CASE Rename
    BY <1>2, <1>t DEF Rename, IInv, RenamesWholeFiles, SavesAllPending, TypeOK, Call, Files
  <1>3. CASE Queue
    BY <1>3, <1>t, LoadedIsMap DEF Queue
  <1>4. CASE Open
    BY <1>1, <1>4, <1>t DEF Open
  <1> QED
    BY <1>1, <1>2, <1>3, <1>4 DEF Next, Step, vars, Stop, Ask, CliAnswers, CliBusy, CliFails,
       CannotQueue, BeginWrite, FinishWrite, SaveFails, Damage, OthersWrite

LEMMA StepKeepsAnswers ==
  ASSUME IInv, MemoryCoversFile, [Next]_vars, call' # call
  PROVE  Lost("cache") \subseteq unseen["cache"]
  <1> SUFFICES ASSUME disk["cache"] \in Map, disk'["cache"] \in Map,
                      NEW k \in Keys \ unseen["cache"], disk["cache"][k] # None
               PROVE  disk'["cache"][k] # None
    BY DEF Lost
  <1>t. /\ disk \in [Files -> Map \cup {Half, Damaged}]
        /\ "cache" \in Files /\ "pending" \in Files
    BY DEF IInv, TypeOK, Files
  <1>1. CASE disk'["cache"] = disk["cache"]
    BY <1>1
  <1>2. CASE Rename
    <2>1. cache[k] # None
      BY <1>2 DEF Rename, IInv, AsksAPrompt, TypeOK, MemoryCoversFile
    <2>2. CASE call.file = "cache"
      BY <1>2, <1>t, <2>1, <2>2 DEF Rename, IInv, RenamesWholeFiles, SavesTheCache
    <2>3. CASE call.file = "pending"
      BY <1>1, <1>2, <1>t, <2>3 DEF Rename
    <2> QED
      BY <2>2, <2>3 DEF IInv, TypeOK, Call, Files
  <1>3. CASE Open
    BY <1>3, <1>t, LoadedIsMap DEF Open
  <1>4. CASE Queue
    BY <1>1, <1>4, <1>t DEF Queue
  <1> QED
    BY <1>1, <1>2, <1>3, <1>4 DEF Next, Step, vars, Stop, Ask, CliAnswers, CliBusy, CliFails,
       CannotQueue, BeginWrite, FinishWrite, SaveFails, Damage, OthersWrite

\* Whoever else writes the two files and whenever, an ask takes an entry out of them only if
\* others wrote it since the client opened the cache or last saved it, or, in the file of
\* the pending prompts, between the read and the rename; crashes, failed saves and damage
\* lose nothing more (new, ask, save).
THEOREM OnlyUnseenLost == Spec => OnlyUnseenAreLost
  <1>1. ASSUME IInv, MemoryCoversFile, [Next]_vars, call' # call
        PROVE  \A file \in Files : Lost(file) \subseteq unseen[file]
    BY <1>1, StepKeepsAnswers, StepKeepsPending DEF Files
  <1>2. IInv /\ MemoryCoversFile /\ [Next]_vars =>
            [call' # call => \A file \in Files : Lost(file) \subseteq unseen[file]]_vars
    BY <1>1
  <1> QED
    BY <1>2, Invariance, MemoryCovers, PTL DEF Spec, OnlyUnseenAreLost

\* A prompt that has its key to itself, once answered into the file, is in it and in the
\* memory of an open client.
Remembers(p) ==
    /\ disk["cache"] \in Map /\ disk["cache"][KeyOf[p]] = p
    /\ up => cache[KeyOf[p]] = p

KnownIsRemembered == \A p \in known : Shared(p) \/ Remembers(p)

\* A prompt put into a map replaces no other that has its key to itself.
LEMMA PutKeeps ==
  ASSUME NEW map \in Map, NEW p \in Prompts, NEW q \in Prompts, ~Shared(p),
         map[KeyOf[p]] = p \/ p = q
  PROVE  Put(map, q)[KeyOf[p]] = p
  BY ClaudeAssumption DEF Put, Map, Shared

LEMMA NextRemembers ==
  ASSUME IInv, KnownIsRemembered, [Next]_vars
  PROVE  KnownIsRemembered'
  <1> SUFFICES ASSUME NEW p \in known', ~Shared(p) PROVE Remembers(p)'
    BY DEF KnownIsRemembered, Shared
  <1>t. /\ disk \in [Files -> Map \cup {Half, Damaged}] /\ cache \in Map
        /\ "cache" \in Files /\ "pending" \in Files /\ known \subseteq Prompts
    BY DEF IInv, TypeOK, Files
  <1>k. p \in known => p \in Prompts /\ Remembers(p)
    BY <1>t DEF KnownIsRemembered
  <1>1. CASE disk'["cache"] = disk["cache"] /\ cache' = cache /\ (up' => up) /\ known' = known
    BY <1>1, <1>k DEF Remembers
  <1>2. CASE Open
    BY <1>2, <1>t, <1>k, LoadedIsMap DEF Open, Remembers, Held
  <1>3. CASE Stop
    BY <1>3, <1>k DEF Stop, Remembers
  <1>4. CASE CliAnswers
    <2>1. call.prompt \in Prompts /\ up
      BY <1>4 DEF CliAnswers, IInv, AsksAPrompt
    <2>2. cache'[KeyOf[p]] = p
      BY <1>4, <1>t, <1>k, <2>1, PutKeeps DEF CliAnswers, Remembers
    <2> QED
      BY <1>4, <1>k, <2>2 DEF CliAnswers, Remembers
  <1>5. CASE Rename
    <2>1. CASE call.file = "cache"
      <3>1. disk'["cache"] = cache /\ cache' = cache /\ up' = up /\ up
        BY <1>5, <1>t, <2>1 DEF Rename, IInv, RenamesWholeFiles, SavesTheCache, AsksAPrompt
      <3>2. p \in known \/ cache[KeyOf[p]] = p
        BY <1>5, <2>1 DEF Rename, Held, IInv, RenamesWholeFiles, SavesTheCache
      <3> QED
        BY <1>t, <1>k, <3>1, <3>2 DEF Remembers
    <2>2. CASE call.file = "pending"
      BY <1>1, <1>5, <1>t, <2>2 DEF Rename
    <2> QED
      BY <1>5, <2>1, <2>2 DEF IInv, TypeOK, Call, Files
  <1>6. ASSUME NEW file \in Files, Damage(file) PROVE Remembers(p)'
    BY <1>1, <1>6, <1>t DEF Damage, Files
  <1>7. CASE Queue
    BY <1>1, <1>7, <1>t DEF Queue
  <1>8. ASSUME NEW file \in Files, NEW map \in Keyed, OthersWrite(file, map)
        PROVE  Remembers(p)'
    <2>1. CASE file = "pending"
      BY <1>1, <1>8, <1>t, <2>1 DEF OthersWrite
    <2>2. CASE file = "cache"
      BY <1>8, <1>t, <1>k, <2>2 DEF OthersWrite, Keyed, Held, Remembers
    <2> QED
      BY <2>1, <2>2 DEF Files
  <1>9. ASSUME \/ UNCHANGED vars \/ \E q \in Prompts : Ask(q)
               \/ CliBusy \/ CliFails \/ CannotQueue \/ BeginWrite \/ FinishWrite \/ SaveFails
        PROVE  Remembers(p)'
    <2>1. disk' = disk /\ cache' = cache /\ up' = up /\ known' = known
      BY <1>9 DEF vars, Ask, CliBusy, CliFails, CannotQueue, BeginWrite, FinishWrite, SaveFails
    <2> QED
      BY <1>1, <2>1
  <1> QED
    BY <1>2, <1>3, <1>4, <1>5, <1>6, <1>7, <1>8, <1>9 DEF Next, Step

LEMMA KnownInvariance == Spec => []KnownIsRemembered
  <1>1. Init => KnownIsRemembered
    BY DEF Init, KnownIsRemembered
  <1>2. IInv /\ KnownIsRemembered /\ [Next]_vars => KnownIsRemembered'
    BY NextRemembers
  <1> QED
    BY <1>1, <1>2, Invariance, PTL DEF Spec

\* A prompt whose answer was saved is not put to the model again, by this client or a later
\* one, whatever crashed or failed in between and whatever else others write to the cache
\* file: unless they took it out, the cache was damaged, or the prompt shares its key.
THEOREM AskedOnce == Spec => AsksOnce
  <1>1. ASSUME IInv, KnownIsRemembered, [Next]_vars, call'.phase = "ask", Returned,
               call'.prompt \in known
        PROVE  Shared(call'.prompt)
    <2>1. PICK p \in Prompts : Ask(p)
      BY <1>1 DEF Returned, Next, Step, vars, Open, Stop, OthersWrite, Damage, Idle, CliAnswers,
         CliBusy, CliFails, Queue, CannotQueue, BeginWrite, FinishWrite, Rename, SaveFails
    <2>2. up /\ ~Hit(p) /\ call'.prompt = p
      BY <1>1, <2>1 DEF Ask, Idle
    <2> QED
      BY <1>1, <2>2 DEF KnownIsRemembered, Remembers, Hit
  <1>2. IInv /\ KnownIsRemembered /\ [Next]_vars =>
            [call'.phase = "ask" /\ Returned =>
                (call'.prompt \in known => Shared(call'.prompt))]_vars
    BY <1>1
  <1> QED
    BY <1>2, Invariance, KnownInvariance, PTL DEF Spec, AsksOnce

-----------------------------------------------------------------------------
(* One run of the CLI, for prompts, pipes and outputs of every size.       *)

\* The types of the run's state.
RunTypeOK ==
    /\ caller \in {Polling, "kill", "wait", "output", "timeout"} \cup Joining
    /\ holder \in BOOLEAN
    /\ child \in Living \cup {"exited", "reaped"}
    /\ pipe \in [Pipes -> Nat]
    /\ wrote \in [Outputs -> Nat] /\ got \in [Outputs -> Nat]
    /\ ended \subseteq Outputs

\* What was written was read, or is in the pipe, unless a read failed.
NothingIsLost == \A o \in Outputs \ failed : wrote[o] = got[o] + pipe[o]

\* A drain has seen the end only of an output that is empty and that nobody can write, or
\* has failed.
EndIsFinal == \A o \in ended : pipe[o] = 0 /\ (Hangup \/ o \in failed)

\* The caller has waited for the child before it joins a thread or returns, but where the
\* wait after a kill failed.
WaitedFor ==
    /\ caller \in Joining \cup {"output"} => child = "reaped"
    /\ caller = "timeout" => child = "reaped" \/ "wait" \in failed

\* The drains the caller has joined have seen the end.
JoinedHasEnded ==
    /\ caller = "joinStderr" => "stdout" \in ended
    /\ caller = "output" => ended = Outputs

RunInv == RunTypeOK /\ NothingIsLost /\ EndIsFinal /\ WaitedFor /\ JoinedHasEnded

-----------------------------------------------------------------------------
(* The steps.                                                              *)

LEMMA RunInitInvariant == RunInit => RunInv
  BY DEF RunInit, RunInv, RunTypeOK, NothingIsLost, EndIsFinal, WaitedFor, JoinedHasEnded,
         Polling, Joining, Living, Calls, Pipes, Outputs, RunReturned

\* The steps of the child and of whoever shares its pipes.
LEMMA ChildKeeps ==
  ASSUME RunInv,
         \/ \E c \in Calls : ChildCalls(c)
         \/ ChildReads \/ ChildExits
         \/ \E o \in Outputs : ChildWrites(o) \/ HolderWrites(o)
         \/ HolderEnds
  PROVE  RunInv'
  <1> USE DEF RunInv, RunTypeOK, NothingIsLost, EndIsFinal, WaitedFor, JoinedHasEnded
  <1>1. ASSUME NEW c \in Calls, ChildCalls(c) PROVE RunInv'
    BY <1>1 DEF ChildCalls, Living, Hangup, Gone, Joining, RunReturned
  <1>2. CASE ChildReads
    BY <1>2 DEF ChildReads, Living, Hangup, Gone, Joining, RunReturned, Pipes, Outputs
  <1>3. CASE ChildExits
    BY <1>3 DEF ChildExits, Living, Hangup, Gone, Joining, RunReturned
  <1>4. ASSUME NEW o \in Outputs, ChildWrites(o) PROVE RunInv'
    <2>0. child = o /\ child' = "running" /\ ended \subseteq failed
      BY <1>4 DEF ChildWrites, Hangup, Gone, Outputs
    <2>1. CASE Broken(o)
      BY <1>4, <2>0, <2>1 DEF ChildWrites, Broken, Living, Hangup, Gone, Joining, RunReturned,
         Outputs
    <2>2. CASE Write(o)
      BY <1>4, <2>0, <2>2 DEF ChildWrites, Write, Living, Hangup, Gone, Joining, RunReturned,
         Pipes, Outputs
    <2> QED
      BY <1>4, <2>1, <2>2 DEF ChildWrites
  <1>5. ASSUME NEW o \in Outputs, HolderWrites(o) PROVE RunInv'
    <2>1. ended \subseteq failed
      BY <1>5 DEF HolderWrites, Hangup
    <2> QED
      BY <1>5, <2>1 DEF HolderWrites, Write, Joining, RunReturned, Pipes, Outputs
  <1>6. CASE HolderEnds
    BY <1>6 DEF HolderEnds, Hangup, Gone, RunReturned
  <1> QED
    BY <1>1, <1>2, <1>3, <1>4, <1>5, <1>6

\* The steps of the three threads.
LEMMA ThreadKeeps ==
  ASSUME RunInv, WriterStep \/ \E o \in Outputs : Drain(o) \/ DrainFails(o)
  PROVE  RunInv'
  <1> USE DEF RunInv, RunTypeOK, NothingIsLost, EndIsFinal, WaitedFor, JoinedHasEnded
  <1>1. CASE WriterStep
    BY <1>1 DEF WriterStep, Hangup, Gone, RunReturned, Pipes, Outputs
  <1>2. ASSUME NEW o \in Outputs, Drain(o) PROVE RunInv'
    <2>1. CASE pipe[o] = 0
      <3>1. /\ Hangup /\ ended' = ended \cup {o}
            /\ UNCHANGED <<caller, child, holder, pipe, wrote, got, failed>>
        BY <1>2, <2>1 DEF Drain
      <3>2. EndIsFinal'
        BY <2>1, <3>1 DEF Hangup, Gone
      <3>3. JoinedHasEnded'
        BY <3>1, <1>2
      <3> QED
        BY <3>1, <3>2, <3>3 DEF RunReturned
    <2>2. CASE pipe[o] > 0
      <3>1. /\ pipe' = [pipe EXCEPT ![o] = @ - 1] /\ got' = [got EXCEPT ![o] = @ + 1]
            /\ UNCHANGED <<caller, child, holder, wrote, ended, failed>>
        BY <1>2, <2>2 DEF Drain
      <3>2. o \in Pipes /\ Outputs \subseteq Pipes
        BY DEF Pipes
      <3>3. pipe' \in [Pipes -> Nat] /\ got' \in [Outputs -> Nat]
        BY <2>2, <3>1, <3>2
      <3>4. NothingIsLost'
        BY <2>2, <3>1, <3>2
      <3>5. EndIsFinal'
        BY <2>2, <3>1, <3>2 DEF Hangup, Gone
      <3> QED
        BY <3>1, <3>3, <3>4, <3>5 DEF RunReturned
    <2> QED
      BY <2>1, <2>2, <1>2 DEF Pipes
  <1>3. ASSUME NEW o \in Outputs, DrainFails(o) PROVE RunInv'
    BY <1>3 DEF DrainFails, Hangup, Gone, RunReturned, Joining, Pipes, Outputs
  <1> QED
    BY <1>1, <1>2, <1>3

\* The steps of the caller.
LEMMA CallerKeeps ==
  ASSUME RunInv, Expire \/ WaitFails \/ KillFails \/ ReapFails \/ Caller
  PROVE  RunInv'
  <1> USE DEF RunInv, RunTypeOK, NothingIsLost, EndIsFinal, WaitedFor, JoinedHasEnded,
              Hangup, Gone, RunReturned, Joining, Polling
  <1>1. CASE Expire \/ WaitFails \/ GiveUp \/ KillFails \/ ReapFails
    BY <1>1 DEF Expire, WaitFails, GiveUp, KillFails, ReapFails
  <1>2. CASE SeeExit
    BY <1>2 DEF SeeExit
  <1>3. CASE Kill
    BY <1>3 DEF Kill
  <1>4. CASE Reap
    BY <1>4 DEF Reap
  <1>5. CASE Join
    BY <1>5 DEF Join, Outputs
  <1> QED
    BY <1>1, <1>2, <1>3, <1>4, <1>5 DEF Caller

LEMMA RunNextInvariant == RunInv /\ [RunNext]_runVars => RunInv'
  <1> SUFFICES ASSUME RunInv, [RunNext]_runVars PROVE RunInv'
    OBVIOUS
  <1>1. CASE UNCHANGED runVars
    BY <1>1 DEF runVars, RunInv, RunTypeOK, NothingIsLost, EndIsFinal, WaitedFor, JoinedHasEnded,
                Hangup, Gone, RunReturned
  <1>2. CASE RunNext
    BY <1>2, ChildKeeps, ThreadKeeps, CallerKeeps DEF RunNext
  <1> QED
    BY <1>1, <1>2

LEMMA RunInvariance == RunSpec => []RunInv
  BY RunInitInvariant, RunNextInvariant, PTL DEF RunSpec

-----------------------------------------------------------------------------
(* The theorems.                                                           *)

\* Whatever the child writes, and whoever else writes to its pipes, an output that run
\* returns is complete unless a read of it failed (the drains are joined before the output
\* is built).
THEOREM OutputsAreWhole == RunSpec => []OutputIsWhole
  <1>1. RunInv => OutputIsWhole
    BY DEF RunInv, RunTypeOK, NothingIsLost, EndIsFinal, JoinedHasEnded, OutputIsWhole, Pipes, Outputs
  <1> QED
    BY <1>1, RunInvariance, PTL

\* Whichever way run returns, on an exit, a timeout or a failing poll, and even if the kill
\* failed, it has waited for the child, unless that wait itself failed (try_wait, kill, wait).
THEOREM ChildIsReaped == RunSpec => []NoChildLeft
  <1>1. RunInv => NoChildLeft
    BY DEF RunInv, WaitedFor, NoChildLeft, RunReturned
  <1> QED
    BY <1>1, RunInvariance, PTL

=============================================================================
