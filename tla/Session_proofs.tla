---------------------------- MODULE Session_proofs ----------------------------
(***************************************************************************)
(* Theorems about the runner's turns, for every set of memories, every     *)
(* limit and every length of the log.                                      *)
(***************************************************************************)
EXTENDS Session, FiniteSetTheorems, WellFoundedInduction, TLAPS

\* The types of the turn in hand and of the store.
Turn == [shown : SUBSET Memories, calls : Nat, saved : Nat, failed : BOOLEAN, left : Nat]

TypeOK == store \subseteq Memories /\ phase \in Phases /\ current \in Turn

\* Between turns nothing of a turn is left over, and every turn that touched the store
\* is logged.
BetweenTurns ==
    phase \in {"off", "deleted", "emptied", "idle"} => current = NoTurn /\ unlogged = {}

\* While the model is called no extraction runs, and each save is one of its calls.
Conversed ==
    phase = "conversing" =>
        current.left = 0 /\ ~current.failed /\ current.saved <= current.calls

\* What the extraction may still save fits under the limit.
ExtractionFits == phase = "extracting" => current.saved + current.left <= MaxWrites

Running == phase \in {"idle", "conversing", "extracting", "answered"}

\* The turn log: rows have numbers from 1 up to some bound.
LogTypeOK ==
    /\ turn \in Nat
    /\ \E b \in Nat : disk \subseteq 1 .. b /\ log \subseteq 1 .. b

\* A process has in memory every turn that can be read, the turn counter is its newest, and
\* it holds no more than Keep.
MemoryKnows ==
    Running => /\ Loaded(disk, torn) \subseteq log
               /\ log \subseteq 1 .. turn
               /\ Keep > 0 /\ turn > 0 => turn \in log
               /\ IsFiniteSet(log) /\ Cardinality(log) <= Keep

\* The turns a log holds after the turn `last`.
Window(last) == {t \in 1 .. last : t > last - Keep}

\* Unless a process could read nothing of it, the file holds the window of some last turn,
\* and a process counts from a turn in it that is none of the unreadable newest ones.
LogFollows ==
    ~forgotten =>
        \E last \in Nat :
            /\ disk = Window(last)
            /\ Running => /\ turn <= last
                          /\ turn = last \/ turn > last - Keep
                          /\ \A t \in disk \ torn : t <= turn

IInv ==
    /\ TypeOK /\ BetweenTurns /\ Conversed /\ ExtractionFits
    /\ SavesWithinLimit /\ LagsByOneTurn

-----------------------------------------------------------------------------
(* Windows of turns.                                                       *)

LEMMA LeastIs ==
  ASSUME NEW a \in Nat, NEW b \in Nat
  PROVE  Min({a, b}) = IF a <= b THEN a ELSE b
<1>1. \E x \in {a, b} : \A y \in {a, b} : x =< y
  <2>1. CASE a <= b
    BY <2>1
  <2>2. CASE ~(a <= b)
    BY <2>2
  <2> QED
    BY <2>1, <2>2
<1>2. Min({a, b}) \in {a, b} /\ \A y \in {a, b} : Min({a, b}) =< y
  BY <1>1 DEF Min
<1> QED
  BY <1>2

LEMMA LeastOf ==
  ASSUME NEW T, T \subseteq Nat, T # {}
  PROVE  \E x \in T : \A y \in T : x <= y
<1> DEFINE R == OpToRel(<, Nat)
<1>1. IsWellFoundedOn(R, Nat)
  BY NatLessThanWellFounded
<1>2. \A x, y \in Nat : y < x => <<y, x>> \in R
  BY DEF OpToRel
<1> HIDE DEF R
<1>3. PICK x \in T : \A y \in T : ~(<<y, x>> \in R)
  BY <1>1, WFMin
<1>4. \A y \in T : ~(y < x)
  BY <1>2, <1>3
<1> QED
  BY <1>4

\* Some turns that are not without bound have a last one.
LEMMA LastOf ==
  ASSUME NEW b \in Nat, NEW T, T \subseteq 1 .. b, T # {}
  PROVE  /\ LastTurn(T) \in T
         /\ \A t \in T : t <= LastTurn(T)
<1> DEFINE D == {d \in Nat : b - d \in T}
<1>1. D \subseteq Nat /\ D # {}
  <2>1. PICK t \in T : t \in 1 .. b
    OBVIOUS
  <2>2. b - t \in Nat /\ b - (b - t) = t
    BY <2>1
  <2> QED
    BY <2>1, <2>2
<1>2. PICK d \in D : \A e \in D : d <= e
  <2> HIDE DEF D
  <2> QED
    BY <1>1, LeastOf
<1>3. d \in Nat /\ b - d \in T
  BY <1>2
<1>4. ASSUME NEW y \in T
      PROVE  b - d >= y
  <2>1. y \in 1 .. b
    OBVIOUS
  <2>2. b - y \in Nat /\ b - (b - y) = y
    BY <2>1
  <2>3. b - y \in D
    BY <2>2
  <2>4. d <= b - y
    BY <1>2, <2>3
  <2> QED
    BY <1>3, <2>1, <2>4
<1>5. Max(T) \in T /\ \A y \in T : Max(T) >= y
  BY <1>3, <1>4 DEF Max
<1>6. \A y \in T : y \in Int
  OBVIOUS
<1> QED
  BY <1>5, <1>6 DEF LastTurn

LEMMA FiniteTurns ==
  ASSUME NEW b \in Nat, NEW T, T \subseteq 1 .. b
  PROVE  IsFiniteSet(T) /\ Cardinality(T) \in Nat
<1>1. IsFiniteSet(1 .. b)
  BY FS_Interval
<1> QED
  BY <1>1, FS_Subset, FS_CardinalityType

\* The newest Keep are no more than Keep.
LEMMA NewestAreFew ==
  ASSUME NEW b \in Nat, NEW T, T \subseteq 1 .. b
  PROVE  Newest(T) \subseteq T /\ IsFiniteSet(Newest(T)) /\ Cardinality(Newest(T)) <= Keep
<1>0. Newest(T) \subseteq T
  BY DEF Newest
<1>1. Newest(T) \subseteq 1 .. b /\ IsFiniteSet(Newest(T)) /\ Cardinality(Newest(T)) \in Nat
  BY <1>0, FiniteTurns
<1>2. CASE Newest(T) = {}
  BY <1>0, <1>1, <1>2, FS_EmptySet, SessionAssumption
<1>3. CASE Newest(T) # {}
  <2>0. Newest(T) \subseteq Nat
    BY <1>1
  <2>1. PICK x \in Newest(T) : \A y \in Newest(T) : x <= y
    BY <1>3, <2>0, LeastOf
  <2> DEFINE Above == {u \in T : u > x}
  <2>2. Cardinality(Above) < Keep
    BY <2>1 DEF Newest
  <2>3. Newest(T) \ {x} \subseteq Above
    <3>1. ASSUME NEW y \in Newest(T), y # x
          PROVE  y > x
      BY <2>0, <2>1, <3>1
    <3> QED
      BY <1>0, <3>1
  <2>4. IsFiniteSet(Above) /\ Cardinality(Above) \in Nat
    BY FiniteTurns
  <2> HIDE DEF Above
  <2>5. Cardinality(Newest(T) \ {x}) <= Cardinality(Above)
    BY <2>3, <2>4, FS_Subset
  <2>6. Cardinality(Newest(T) \ {x}) = Cardinality(Newest(T)) - 1
    BY <1>1, <2>1, FS_RemoveElement
  <2> QED
    BY <1>0, <1>1, <2>2, <2>4, <2>5, <2>6, SessionAssumption
<1> QED
  BY <1>2, <1>3

\* What lies less than Keep turns before the last one is among the newest.
LEMMA NearTheLast ==
  ASSUME NEW b \in Nat, NEW T, T \subseteq 1 .. b, NEW t \in T, t > b - Keep
  PROVE  t \in Newest(T)
<1> DEFINE Above == {u \in T : u > t}
<1>1. IsFiniteSet(t + 1 .. b) /\ Cardinality(t + 1 .. b) = b - t
  <2>1. t \in 1 .. b
    OBVIOUS
  <2>2. /\ IsFiniteSet(t + 1 .. b)
        /\ Cardinality(t + 1 .. b) = IF t + 1 > b THEN 0 ELSE b - (t + 1) + 1
    BY <2>1, FS_Interval
  <2> QED
    BY <2>1, <2>2
<1>2. Above \subseteq t + 1 .. b
  <2>1. t \in 1 .. b /\ \A u \in T : u \in 1 .. b
    OBVIOUS
  <2>2. ASSUME NEW u \in Above
        PROVE  u \in t + 1 .. b
    BY <2>1, <2>2
  <2> QED
    BY <2>2
<1>3. Cardinality(Above) <= b - t /\ Cardinality(Above) \in Nat
  BY <1>1, <1>2, FS_Subset, FS_CardinalityType
<1>4. Cardinality(Above) < Keep
  BY <1>3, SessionAssumption
<1> QED
  BY <1>4 DEF Newest

\* A process that opens a window reads all that can be read.
LEMMA WindowIsLoaded ==
  ASSUME NEW last \in Nat, NEW bad
  PROVE  Loaded(Window(last), bad) = Window(last) \ bad
<1>1. Window(last) \subseteq 1 .. last
  BY DEF Window
<1>2. \A t \in Window(last) : t \in Newest(Window(last))
  BY <1>1, NearTheLast DEF Window
<1>3. Newest(Window(last)) \subseteq Window(last)
  BY <1>1, NewestAreFew
<1> QED
  BY <1>2, <1>3 DEF Loaded

\* A window has Keep turns, or all there were.
LEMMA WindowSize ==
  ASSUME NEW last \in Nat
  PROVE  /\ IsFiniteSet(Window(last))
         /\ Cardinality(Window(last)) = IF Keep <= last THEN Keep ELSE last
<1>1. CASE Keep <= last
  <2>1. Window(last) = last - Keep + 1 .. last
    BY <1>1, SessionAssumption DEF Window
  <2> QED
    BY <1>1, <2>1, FS_Interval, SessionAssumption
<1>2. CASE ~(Keep <= last)
  <2>1. Window(last) = 1 .. last
    BY <1>2, SessionAssumption DEF Window
  <2> QED
    BY <1>2, <2>1, FS_Interval, SessionAssumption
<1> QED
  BY <1>1, <1>2, SessionAssumption

LEMMA EmptyWindow == Window(0) = {}
  BY DEF Window

-----------------------------------------------------------------------------
(* The steps.                                                              *)

LEMMA InitInvariant == Init => IInv
  BY SessionAssumption
  DEF Init, IInv, Phases, TypeOK, BetweenTurns, Conversed, ExtractionFits,
      SavesWithinLimit, LagsByOneTurn, NoTurn, Turn

LEMMA StartingPreserves ==
  ASSUME IInv,
         \/ Open \/ WipeFiles \/ WipeStore \/ WipeLog \/ Exit \/ Dream
         \/ \E t \in disk \ torn : Tear(t)
  PROVE  IInv'
<1> USE SessionAssumption
    DEF IInv, TypeOK, Phases, BetweenTurns, Conversed, ExtractionFits, SavesWithinLimit,
        LagsByOneTurn, NoTurn, Turn
<1>1. CASE Open
  BY <1>1 DEF Open
<1>2. CASE WipeFiles
  BY <1>2 DEF WipeFiles
<1>3. CASE WipeStore
  BY <1>3 DEF WipeStore
<1>4. CASE WipeLog
  BY <1>4 DEF WipeLog
<1>5. CASE Exit
  BY <1>5 DEF Exit
<1>6. CASE Dream
  BY <1>6 DEF Dream
<1>7. CASE \E t \in disk \ torn : Tear(t)
  BY <1>7 DEF Tear
<1> QED
  BY <1>1, <1>2, <1>3, <1>4, <1>5, <1>6, <1>7

\* What an update of a turn leaves alone.
LEMMA TurnFields ==
  ASSUME NEW t \in Turn
  PROVE  /\ t.shown \subseteq Memories /\ t.calls \in Nat /\ t.saved \in Nat
         /\ t.failed \in BOOLEAN /\ t.left \in Nat
         /\ t = [shown |-> t.shown, calls |-> t.calls, saved |-> t.saved,
                 failed |-> t.failed, left |-> t.left]
  BY DEF Turn

LEMMA TurnOf ==
  ASSUME NEW s \in SUBSET Memories, NEW c \in Nat, NEW n \in Nat, NEW f \in BOOLEAN,
         NEW l \in Nat
  PROVE  [shown |-> s, calls |-> c, saved |-> n, failed |-> f, left |-> l] \in Turn
  BY DEF Turn

LEMMA RecallPreserves ==
  ASSUME IInv, Recall
  PROVE  IInv'
<1>1. PICK shown \in SUBSET store : current' = [NoTurn EXCEPT !.shown = shown]
  BY DEF Recall
<1>2. current' = [shown |-> shown, calls |-> 0, saved |-> 0, failed |-> FALSE, left |-> 0]
  BY <1>1 DEF NoTurn
<1>3. /\ current'.calls = 0 /\ current'.saved = 0 /\ current'.failed = FALSE
      /\ current'.left = 0
  BY <1>2
<1>4. TypeOK'
  <2>1. store' \subseteq Memories /\ phase' \in Phases /\ shown \in SUBSET Memories
    BY DEF Recall, IInv, TypeOK, Phases
  <2>2. current' \in Turn
    BY <1>2, <2>1, TurnOf
  <2> QED
    BY <2>1, <2>2 DEF TypeOK
<1>5. BetweenTurns' /\ ExtractionFits'
  BY DEF Recall, BetweenTurns, ExtractionFits
<1>6. Conversed' /\ SavesWithinLimit'
  BY <1>3, SessionAssumption DEF Conversed, SavesWithinLimit
<1>7. LagsByOneTurn'
  BY DEF Recall, IInv, LagsByOneTurn
<1> QED
  BY <1>4, <1>5, <1>6, <1>7 DEF IInv

\* A tool call counts, and saves at most one memory if the limit is not reached.
LEMMA CallPreserves ==
  ASSUME IInv, Call,
         NEW n \in {0, 1}, n = 1 => current.saved < MaxWrites,
         current' = [shown |-> current.shown, calls |-> current.calls + 1,
                     saved |-> current.saved + n, failed |-> current.failed,
                     left |-> current.left],
         store' \subseteq Memories, phase' = phase, turn' = turn,
         unlogged' \subseteq unlogged \cup {turn + 1}
  PROVE  IInv'
<1>1. /\ current'.calls = current.calls + 1 /\ current'.saved = current.saved + n
      /\ current'.failed = current.failed /\ current'.left = current.left
  OBVIOUS
<1>2. current \in Turn
  BY DEF IInv, TypeOK
<1>3. TypeOK'
  <2>1. /\ current.shown \in SUBSET Memories /\ current.calls + 1 \in Nat
        /\ current.saved + n \in Nat /\ current.failed \in BOOLEAN /\ current.left \in Nat
    BY <1>2, TurnFields
  <2>2. current' \in Turn
    BY <2>1, TurnOf
  <2> QED
    BY <2>2 DEF IInv, TypeOK
<1>4. phase = "conversing" /\ phase' = "conversing"
  BY DEF Call
<1>5. BetweenTurns' /\ ExtractionFits'
  BY <1>4 DEF BetweenTurns, ExtractionFits
<1>6. current.left = 0 /\ ~current.failed /\ current.saved <= current.calls
  BY <1>4 DEF IInv, Conversed
<1>7. Conversed' /\ SavesWithinLimit'
  BY <1>1, <1>2, <1>6, TurnFields, SessionAssumption DEF IInv, Conversed, SavesWithinLimit
<1>8. LagsByOneTurn'
  BY DEF IInv, LagsByOneTurn
<1> QED
  BY <1>3, <1>5, <1>7, <1>8 DEF IInv

LEMMA SavePreserves ==
  ASSUME IInv, NEW m \in Memories, Save(m)
  PROVE  IInv'
<1>1. current = [shown |-> current.shown, calls |-> current.calls, saved |-> current.saved,
                 failed |-> current.failed, left |-> current.left]
  BY TurnFields DEF IInv, TypeOK
<1>2. current' = [shown |-> current.shown, calls |-> current.calls + 1,
                  saved |-> current.saved + 1, failed |-> current.failed,
                  left |-> current.left]
  BY <1>1 DEF Save
<1> QED
  BY <1>2, CallPreserves DEF IInv, TypeOK, Save, Remembered

LEMMA IdleCallPreserves ==
  ASSUME IInv, CallInVain \/ \E m \in Memories : Delete(m)
  PROVE  IInv'
<1>1. current = [shown |-> current.shown, calls |-> current.calls, saved |-> current.saved,
                 failed |-> current.failed, left |-> current.left]
  BY TurnFields DEF IInv, TypeOK
<1>2. current.saved + 0 = current.saved
  BY TurnFields DEF IInv, TypeOK
<1>3. current' = [shown |-> current.shown, calls |-> current.calls + 1,
                  saved |-> current.saved + 0, failed |-> current.failed,
                  left |-> current.left]
  BY <1>1, <1>2 DEF CallInVain, Delete
<1>4. /\ Call /\ store' \subseteq Memories /\ phase' = phase /\ turn' = turn
      /\ unlogged' \subseteq unlogged \cup {turn + 1}
  BY DEF IInv, TypeOK, CallInVain, Delete
<1> QED
  BY <1>3, <1>4, CallPreserves

\* The extraction starts with nothing saved, and takes at most MaxWrites texts.
LEMMA AnswerPreserves ==
  ASSUME IInv, NEW failed \in BOOLEAN, Answer(failed)
  PROVE  IInv'
<1>1. PICK n \in 0 .. MaxCalls :
        current' = [current EXCEPT !.failed = failed,
                       !.left = IF ~failed /\ current.saved = 0 /\ ToolFallback
                                THEN Min({n, MaxWrites}) ELSE 0]
  BY DEF Answer
<1>2. Min({n, MaxWrites}) \in Nat /\ Min({n, MaxWrites}) <= MaxWrites
  BY LeastIs, SessionAssumption
<1>3. current \in Turn
  BY DEF IInv, TypeOK
<1>4. failed => current.saved = 0
  BY <1>3, TurnFields DEF Answer, IInv, Conversed
<1>5. PICK l \in Nat :
        /\ current' = [shown |-> current.shown, calls |-> current.calls,
                       saved |-> current.saved, failed |-> failed, left |-> l]
        /\ l # 0 => ~failed /\ current.saved = 0 /\ l <= MaxWrites
  <2>1. current = [shown |-> current.shown, calls |-> current.calls, saved |-> current.saved,
                   failed |-> current.failed, left |-> current.left]
    BY <1>3, TurnFields
  <2>2. CASE ~failed /\ current.saved = 0 /\ ToolFallback
    BY <1>1, <1>2, <2>1, <2>2
  <2>3. CASE ~(~failed /\ current.saved = 0 /\ ToolFallback)
    BY <1>1, <2>1, <2>3
  <2> QED
    BY <2>2, <2>3
<1>6. /\ current'.saved = current.saved /\ current'.failed = failed /\ current'.left = l
  BY <1>5
<1>7. TypeOK'
  <2>1. current' \in Turn
    BY <1>3, <1>5, TurnFields, TurnOf
  <2> QED
    BY <2>1 DEF IInv, TypeOK, Answer, Phases
<1>8. ExtractionFits' /\ SavesWithinLimit'
  BY <1>3, <1>4, <1>5, <1>6, TurnFields, SessionAssumption
  DEF IInv, ExtractionFits, SavesWithinLimit
<1>9. BetweenTurns' /\ Conversed' /\ LagsByOneTurn'
  BY DEF IInv, Answer, BetweenTurns, Conversed, LagsByOneTurn
<1> QED
  BY <1>7, <1>8, <1>9 DEF IInv

\* An extracted text is one less to remember and at most one more saved.
LEMMA FallbackPreserves ==
  ASSUME IInv, Fallback
  PROVE  IInv'
<1>1. /\ current.left > 0 /\ phase = "extracting" /\ phase' = "extracting"
      /\ turn' = turn
  BY DEF Fallback
<1>2. current \in Turn
  BY DEF IInv, TypeOK
<1>3. PICK n \in {0, 1} : current' = [shown |-> current.shown, calls |-> current.calls,
                                      saved |-> current.saved + n,
                                      failed |-> current.failed, left |-> current.left - 1]
  <2>1. current = [shown |-> current.shown, calls |-> current.calls, saved |-> current.saved,
                   failed |-> current.failed, left |-> current.left]
    BY <1>2, TurnFields
  <2>2. current.saved + 0 = current.saved
    BY <1>2, TurnFields
  <2>3. CASE current' = [current EXCEPT !.left = @ - 1, !.saved = @ + 1]
    BY <2>1, <2>3
  <2>4. CASE current' = [current EXCEPT !.left = @ - 1]
    BY <2>1, <2>2, <2>4
  <2> QED
    BY <2>3, <2>4 DEF Fallback
<1>4. /\ current'.saved = current.saved + n /\ current'.failed = current.failed
      /\ current'.left = current.left - 1
  BY <1>3
<1>5. store' \subseteq Memories /\ unlogged' \subseteq unlogged \cup {turn + 1}
  BY DEF IInv, TypeOK, Fallback, Remembered
<1>6. TypeOK'
  <2>1. /\ current.shown \in SUBSET Memories /\ current.calls \in Nat
        /\ current.saved + n \in Nat /\ current.failed \in BOOLEAN
        /\ current.left - 1 \in Nat
    BY <1>1, <1>2, TurnFields
  <2>2. current' \in Turn
    BY <1>3, <2>1, TurnOf
  <2> QED
    BY <1>1, <1>5, <2>2 DEF IInv, TypeOK
<1>7. ~current.failed /\ current.saved + current.left <= MaxWrites
  BY <1>1 DEF IInv, SavesWithinLimit, ExtractionFits
<1>8. ExtractionFits' /\ SavesWithinLimit'
  BY <1>1, <1>2, <1>4, <1>7, TurnFields, SessionAssumption
  DEF ExtractionFits, SavesWithinLimit
<1>9. BetweenTurns' /\ Conversed' /\ LagsByOneTurn'
  BY <1>1, <1>5 DEF IInv, BetweenTurns, Conversed, LagsByOneTurn
<1> QED
  BY <1>6, <1>8, <1>9 DEF IInv

LEMMA CitePreserves ==
  ASSUME IInv, Cite
  PROVE  IInv'
  BY DEF Cite, IInv, TypeOK, Phases, BetweenTurns, Conversed, ExtractionFits,
         SavesWithinLimit, LagsByOneTurn

\* A logged turn is over, as one is whose process ended.
LEMMA LoggingPreserves ==
  ASSUME IInv, LogTurn \/ LogFails
  PROVE  IInv'
<1>1. /\ current' = NoTurn /\ unlogged' = {} /\ phase' \in {"idle", "off"}
      /\ store' \subseteq Memories
  BY DEF IInv, TypeOK, LagsByOneTurn, LogTurn, LogFails
<1>2. TypeOK'
  BY <1>1 DEF TypeOK, Turn, NoTurn, Phases
<1>3. BetweenTurns' /\ Conversed' /\ ExtractionFits' /\ LagsByOneTurn'
  BY <1>1 DEF BetweenTurns, Conversed, ExtractionFits, LagsByOneTurn
<1>4. SavesWithinLimit'
  BY <1>1, SessionAssumption DEF SavesWithinLimit, NoTurn
<1> QED
  BY <1>2, <1>3, <1>4 DEF IInv

\* What a step does to the turn log.
LogUntouched ==
    /\ disk' = disk /\ forgotten' = forgotten /\ torn \subseteq torn'
    /\ Running' => Running /\ turn' = turn /\ log' = log
    /\ turn' = 0 \/ turn' = turn
    /\ log' = {} \/ log' = log

LEMMA OtherSteps ==
  ASSUME [Next]_vars
  PROVE  LogUntouched \/ Open \/ WipeFiles \/ WipeLog \/ LogTurn \/ LogFails
<1>1. CASE UNCHANGED vars
  BY <1>1 DEF vars, LogUntouched, Running
<1>2. CASE WipeStore \/ Exit
  BY <1>2 DEF WipeStore, Exit, LogUntouched, Running
<1>3. CASE Recall \/ CallInVain \/ Fallback \/ Cite \/ Dream
  BY <1>3 DEF Recall, CallInVain, Call, Fallback, Cite, Dream, LogUntouched, Running
<1>4. CASE \/ \E m \in Memories : Save(m) \/ Delete(m)
           \/ \E failed \in BOOLEAN : Answer(failed)
  BY <1>4 DEF Save, Delete, Call, Answer, LogUntouched, Running
<1>5. CASE \E t \in disk \ torn : Tear(t)
  BY <1>5 DEF Tear, LogUntouched, Running
<1> QED
  BY <1>1, <1>2, <1>3, <1>4, <1>5 DEF Next

LogInv == LogTypeOK /\ MemoryKnows /\ LogFollows

\* The steps that leave the log alone.
LEMMA UntouchedPreserves ==
  ASSUME LogInv, LogUntouched
  PROVE  LogInv'
<1>1. LogTypeOK'
  <2>1. PICK b \in Nat : disk \subseteq 1 .. b /\ log \subseteq 1 .. b
    BY DEF LogInv, LogTypeOK
  <2>2. disk' \subseteq 1 .. b /\ log' \subseteq 1 .. b
    BY <2>1 DEF LogUntouched
  <2>3. turn' \in Nat
    BY DEF LogInv, LogTypeOK, LogUntouched
  <2> QED
    BY <2>2, <2>3 DEF LogTypeOK
<1>2. MemoryKnows'
  BY DEF LogInv, LogUntouched, MemoryKnows, Loaded
<1>3. LogFollows'
  <2> SUFFICES ASSUME ~forgotten'
               PROVE  LogFollows'
    BY DEF LogFollows
  <2>1. PICK last \in Nat :
          /\ disk = Window(last)
          /\ Running => /\ turn <= last /\ (turn = last \/ turn > last - Keep)
                        /\ \A t \in disk \ torn : t <= turn
    BY DEF LogInv, LogUntouched, LogFollows
  <2> QED
    BY <2>1 DEF LogUntouched, LogFollows
<1> QED
  BY <1>1, <1>2, <1>3 DEF LogInv

\* A new process reads the log.
LEMMA OpenPreserves ==
  ASSUME LogInv, Open
  PROVE  LogInv'
<1>1. PICK b \in Nat : disk \subseteq 1 .. b
  BY DEF LogInv, LogTypeOK
<1>2. /\ log' = Loaded(disk, torn) /\ turn' = LastTurn(log') /\ Running'
      /\ disk' = disk /\ torn' = torn
      /\ forgotten' = (forgotten \/ (log' = {} /\ disk # {}))
  BY DEF Open, Running
<1>3. log' \subseteq disk /\ IsFiniteSet(log') /\ Cardinality(log') <= Keep
  <2>1. /\ Newest(disk) \subseteq disk /\ IsFiniteSet(Newest(disk))
        /\ Cardinality(Newest(disk)) <= Keep
    BY <1>1, NewestAreFew
  <2>2. log' \in SUBSET Newest(disk)
    BY <1>2 DEF Loaded
  <2>3. IsFiniteSet(log') /\ Cardinality(log') <= Cardinality(Newest(disk))
    BY <2>1, <2>2, FS_Subset
  <2>4. Cardinality(log') \in Nat /\ Cardinality(Newest(disk)) \in Nat
    BY <2>1, <2>3, FS_CardinalityType
  <2> QED
    BY <2>1, <2>2, <2>3, <2>4, SessionAssumption
<1>4. /\ log' = {} => turn' = 0
      /\ log' # {} => turn' \in log' /\ \A t \in log' : t <= turn'
  <2>1. CASE log' = {}
    BY <1>2, <2>1 DEF LastTurn
  <2>2. CASE log' # {}
    BY <1>1, <1>2, <1>3, <2>2, LastOf
  <2> QED
    BY <2>1, <2>2
<1>5. turn' \in Nat /\ log' \subseteq 1 .. turn'
  <2>1. \A t \in log' : t \in Nat /\ 1 <= t
    BY <1>1, <1>3
  <2>2. turn' \in Nat
    BY <1>4, <2>1
  <2>3. ASSUME NEW t \in log'
        PROVE  t \in 1 .. turn'
    BY <1>4, <2>1, <2>2
  <2> QED
    BY <2>2, <2>3
<1>6. LogTypeOK'
  BY <1>1, <1>2, <1>3, <1>5 DEF LogTypeOK
<1>7. MemoryKnows'
  BY <1>2, <1>3, <1>4, <1>5 DEF MemoryKnows
<1>8. LogFollows'
  <2> SUFFICES ASSUME ~forgotten'
               PROVE  LogFollows'
    BY DEF LogFollows
  <2>1. PICK last \in Nat : disk = Window(last)
    BY <1>2 DEF LogInv, LogFollows
  <2>2. log' = disk \ torn
    BY <1>2, <2>1, WindowIsLoaded
  <2>3. CASE log' = {}
    <3>1. disk' = Window(0) /\ turn' = 0
      BY <1>2, <1>4, <2>3, EmptyWindow
    <3> QED
      BY <1>2, <2>2, <2>3, <3>1 DEF LogFollows
  <2>4. CASE log' # {}
    <3>1. turn' \in Window(last) /\ \A t \in disk' \ torn' : t <= turn'
      BY <1>2, <1>4, <2>1, <2>2, <2>4
    <3>2. turn' <= last /\ turn' > last - Keep
      BY <3>1 DEF Window
    <3> QED
      BY <1>2, <2>1, <3>1, <3>2 DEF LogFollows
  <2> QED
    BY <2>3, <2>4
<1> QED
  BY <1>6, <1>7, <1>8 DEF LogInv

\* A wipe leaves the window or nothing of it.
LEMMA WipePreserves ==
  ASSUME LogInv, WipeFiles \/ WipeLog
  PROVE  LogInv'
<1>1. PICK b \in Nat : disk \subseteq 1 .. b /\ log \subseteq 1 .. b
  BY DEF LogInv, LogTypeOK
<1>2. CASE WipeFiles
  <2>1. disk' \in {disk, {}} /\ log' = log /\ turn' = turn /\ ~Running'
        /\ forgotten' = (forgotten /\ disk' # {})
    BY <1>2 DEF WipeFiles, Running
  <2>2. LogTypeOK' /\ MemoryKnows'
    BY <1>1, <2>1 DEF LogInv, LogTypeOK, MemoryKnows
  <2>3. LogFollows'
    <3> SUFFICES ASSUME ~forgotten'
                 PROVE  \E last \in Nat : disk' = Window(last)
      BY <2>1 DEF LogFollows
    <3>1. CASE disk' = {}
      BY <3>1, EmptyWindow
    <3>2. CASE disk' # {}
      BY <2>1, <3>2 DEF LogInv, LogFollows
    <3> QED
      BY <3>1, <3>2
  <2> QED
    BY <2>2, <2>3 DEF LogInv
<1>3. CASE WipeLog
  <2>1. disk' = {} /\ log' = {} /\ turn' = 0 /\ torn' = {}
    BY <1>3 DEF WipeLog
  <2>2. LogTypeOK'
    BY <1>1, <2>1 DEF LogTypeOK
  <2>3. MemoryKnows'
    BY <2>1, FS_EmptySet, SessionAssumption DEF MemoryKnows, Loaded, Newest
  <2>4. LogFollows'
    BY <2>1, EmptyWindow, SessionAssumption DEF LogFollows
  <2> QED
    BY <2>2, <2>3, <2>4 DEF LogInv
<1> QED
  BY <1>2, <1>3

\* The window after a turn is logged: it slides by one, or the turn takes the place of an
\* unreadable one in it.
LEMMA WindowAfterTurn ==
  ASSUME LogFollows, ~forgotten, Running, turn \in Nat, RowWritten
  PROVE  \E last \in Nat :
           /\ disk' = Window(last)
           /\ turn + 1 <= last /\ (turn + 1 = last \/ turn + 1 > last - Keep)
           /\ \A t \in disk' \ torn' : t <= turn + 1
<1>1. PICK last \in Nat :
        /\ disk = Window(last)
        /\ turn <= last /\ (turn = last \/ turn > last - Keep)
        /\ \A t \in disk \ torn : t <= turn
  BY DEF LogFollows
<1>2. /\ disk' = {r \in disk \cup {turn + 1} : r > (turn + 1) - Keep}
      /\ torn' = (torn \ {turn + 1}) \cap disk'
  BY DEF RowWritten, Saved
<1>3. \A t \in disk' \ torn' : t <= turn + 1
  <2>1. ASSUME NEW t \in disk' \ torn', t # turn + 1
        PROVE  t <= turn + 1
    <3>1. t \in disk \ torn
      BY <1>2, <2>1
    <3>2. t \in Int /\ t <= turn
      BY <1>1, <3>1 DEF Window
    <3> QED
      BY <3>2
  <2> QED
    BY <2>1
<1>4. CASE turn = last
  <2>1. disk' = Window(turn + 1)
    BY <1>1, <1>2, <1>4, SessionAssumption DEF Window
  <2> QED
    BY <1>3, <2>1
<1>5. CASE turn # last
  <2>1. turn + 1 <= last /\ turn + 1 > last - Keep
    BY <1>1, <1>5, SessionAssumption
  <2>2. disk' = Window(last)
    BY <1>1, <1>2, <2>1, SessionAssumption DEF Window
  <2> QED
    BY <1>3, <2>1, <2>2
<1> QED
  BY <1>4, <1>5

\* Logging a turn keeps in memory what can be read of the file.
LEMMA LogTurnPreserves ==
  ASSUME LogInv, LogTurn
  PROVE  LogInv'
<1>1. PICK b \in Nat : disk \subseteq 1 .. b /\ log \subseteq 1 .. b
  BY DEF LogInv, LogTypeOK
<1>2. PICK n \in Nat : n = turn + 1
  BY DEF LogInv, LogTypeOK
<1>3. /\ turn' = n /\ turn \in Nat /\ Running /\ Running'
      /\ disk' = {r \in disk \cup {n} : r > n - Keep}
      /\ torn' = (torn \ {n}) \cap disk'
      /\ log' = Newest(log \cup {n})
      /\ forgotten' = forgotten /\ RowWritten
  BY <1>2 DEF LogTurn, RowWritten, Saved, Running, LogInv, LogTypeOK
<1>4. /\ Loaded(disk, torn) \subseteq log /\ log \subseteq 1 .. turn
  BY <1>3 DEF LogInv, MemoryKnows
<1>5. log \cup {n} \subseteq 1 .. n
  BY <1>2, <1>3, <1>4
<1>6. /\ log' \subseteq 1 .. n /\ IsFiniteSet(log') /\ Cardinality(log') <= Keep
  BY <1>3, <1>5, NewestAreFew
<1>7. LogTypeOK'
  <2>1. PICK c \in Nat : c >= b /\ c >= n
    BY <1>2
  <2>2. 1 .. b \subseteq 1 .. c /\ 1 .. n \subseteq 1 .. c /\ n \in 1 .. c
    BY <1>2, <1>3, <2>1
  <2>3. disk' \subseteq 1 .. c /\ log' \subseteq 1 .. c
    BY <1>1, <1>3, <1>6, <2>2
  <2> QED
    BY <1>3, <2>3 DEF LogTypeOK
<1>8. Keep > 0 => n \in log'
  BY <1>2, <1>3, <1>5, NearTheLast, SessionAssumption
<1>9. Loaded(disk', torn') \subseteq log'
  <2> SUFFICES ASSUME NEW r \in Newest(disk'), r \notin torn'
               PROVE  r \in log'
    BY DEF Loaded
  <2>1. r \in disk' /\ r > n - Keep
    BY <1>3 DEF Newest
  <2>2. r \in log \cup {n}
    <3>1. CASE r = n
      BY <3>1
    <3>2. CASE r # n
      <4>1. r \in disk /\ r \notin torn
        BY <1>3, <2>1, <3>2
      <4> DEFINE Old == {u \in disk : u > r}
                 New == {u \in disk' : u > r}
      <4>2. Old \subseteq New
        <5>1. ASSUME NEW u \in Old
              PROVE  u \in disk'
          <6>1. u \in disk /\ u \in Int /\ r \in Int /\ u > r
            BY <1>1, <4>1
          <6>2. u > n - Keep
            BY <2>1, <6>1, SessionAssumption
          <6> QED
            BY <1>3, <6>1, <6>2
        <5> QED
          BY <5>1
      <4>3. IsFiniteSet(New) /\ Cardinality(New) \in Nat
        <5>1. PICK c \in Nat : disk' \subseteq 1 .. c
          BY <1>7 DEF LogTypeOK
        <5> QED
          BY <5>1, FiniteTurns
      <4>4. Cardinality(Old) <= Cardinality(New) /\ Cardinality(Old) \in Nat
        BY <1>1, <4>2, <4>3, FS_Subset, FS_CardinalityType
      <4>5. Cardinality(New) < Keep
        BY DEF Newest
      <4>6. Cardinality(Old) < Keep
        BY <4>3, <4>4, <4>5, SessionAssumption
      <4>7. r \in Newest(disk)
        BY <4>1, <4>6 DEF Newest
      <4> QED
        BY <1>4, <4>1, <4>7 DEF Loaded
    <3> QED
      BY <3>1, <3>2
  <2> QED
    BY <1>2, <1>3, <1>5, <2>1, <2>2, NearTheLast
<1>10. MemoryKnows'
  BY <1>3, <1>6, <1>8, <1>9 DEF MemoryKnows
<1>11. LogFollows'
  <2> SUFFICES ASSUME ~forgotten'
               PROVE  LogFollows'
    BY DEF LogFollows
  <2>1. \E last \in Nat :
           /\ disk' = Window(last)
           /\ turn + 1 <= last /\ (turn + 1 = last \/ turn + 1 > last - Keep)
           /\ \A t \in disk' \ torn' : t <= turn + 1
    BY <1>3, WindowAfterTurn DEF LogInv
  <2> QED
    BY <1>2, <1>3, <2>1 DEF LogFollows
<1> QED
  BY <1>7, <1>10, <1>11 DEF LogInv

\* A process that could not log its turn is gone, and the row written or not.
LEMMA LogFailsPreserves ==
  ASSUME LogInv, LogFails
  PROVE  LogInv'
<1>1. PICK b \in Nat : disk \subseteq 1 .. b /\ log \subseteq 1 .. b
  BY DEF LogInv, LogTypeOK
<1>2. /\ turn \in Nat /\ turn' = 0 /\ log' = {} /\ ~Running' /\ Running
      /\ forgotten' = forgotten
      /\ RowWritten \/ UNCHANGED <<disk, torn>>
  BY DEF LogFails, Running, LogInv, LogTypeOK
<1>3. LogTypeOK'
  <2>1. PICK c \in Nat : c >= b /\ c >= turn + 1
    BY <1>2
  <2>2. 1 .. b \subseteq 1 .. c /\ turn + 1 \in 1 .. c
    BY <1>2, <2>1
  <2>3. disk' \subseteq disk \cup {turn + 1}
    BY <1>2 DEF RowWritten, Saved
  <2>4. disk' \subseteq 1 .. c
    BY <1>1, <2>2, <2>3
  <2> QED
    BY <1>2, <2>4 DEF LogTypeOK
<1>4. MemoryKnows'
  BY <1>2 DEF MemoryKnows
<1>5. LogFollows'
  <2>1. CASE RowWritten
    BY <1>2, <2>1, WindowAfterTurn DEF LogInv, LogFollows
  <2>2. CASE UNCHANGED <<disk, torn>>
    BY <1>2, <2>2 DEF LogInv, LogFollows
  <2> QED
    BY <1>2, <2>1, <2>2
<1> QED
  BY <1>3, <1>4, <1>5 DEF LogInv

LEMMA NextPreserves == IInv /\ [Next]_vars => IInv'
<1> SUFFICES ASSUME IInv, [Next]_vars
             PROVE  IInv'
  OBVIOUS
<1>1. CASE UNCHANGED vars
  BY <1>1 DEF vars, IInv, TypeOK, BetweenTurns, Conversed, ExtractionFits,
              SavesWithinLimit, LagsByOneTurn
<1> QED
  BY <1>1, StartingPreserves, RecallPreserves, SavePreserves, IdleCallPreserves,
     AnswerPreserves, FallbackPreserves, CitePreserves, LoggingPreserves DEF Next

LEMMA Invariance == Spec => []IInv
  BY InitInvariant, NextPreserves, PTL DEF Spec

LEMMA LogInvariance == Spec => []LogInv
<1>1. Init => LogInv
  <2> SUFFICES ASSUME Init
               PROVE  LogInv
    OBVIOUS
  <2>1. ~Running /\ disk = {} /\ log = {} /\ turn = 0
    BY DEF Init, Running
  <2>2. LogTypeOK
    BY <2>1 DEF LogTypeOK
  <2> QED
    BY <2>1, <2>2, EmptyWindow DEF LogInv, MemoryKnows, LogFollows
<1>2. LogInv /\ [Next]_vars => LogInv'
  BY OtherSteps, UntouchedPreserves, OpenPreserves, WipePreserves, LogTurnPreserves,
     LogFailsPreserves
<1> QED
  BY <1>1, <1>2, PTL DEF Spec

-----------------------------------------------------------------------------
(* The theorems.                                                           *)

\* No turn saves more than max_writes_per_turn memories, tools and extraction together, and
\* one whose converse failed saves none.
THEOREM TurnsSaveWithinLimit == Spec => []SavesWithinLimit
<1>1. IInv => SavesWithinLimit
  BY DEF IInv
<1> QED
  BY <1>1, Invariance, PTL

\* The store is ahead of the log by the turn in hand at most.
THEOREM LogLagsByOneTurn == Spec => []LagsByOneTurn
<1>1. IInv => LagsByOneTurn
  BY DEF IInv
<1> QED
  BY <1>1, Invariance, PTL

\* The file of the turn log holds the newest turns and no others, whatever saves, crashes,
\* wipes and unreadable rows came before, unless a process found nothing it could read.
THEOREM LogHoldsItsWindow == Spec => []LogIsWindow
<1>1. LogInv => LogIsWindow
  <2> SUFFICES ASSUME LogInv, disk # {}, ~forgotten
               PROVE  disk = {t \in 1 .. Max(disk) : t > Max(disk) - Keep}
    BY DEF LogIsWindow
  <2>1. PICK last \in Nat : disk = Window(last)
    BY DEF LogInv, LogFollows
  <2>2. last \in disk /\ \A t \in disk : t \in Int /\ last >= t
    BY <2>1, SessionAssumption DEF Window
  <2>3. Max(disk) = last
    <3> DEFINE m == Max(disk)
    <3>1. m \in disk /\ \A t \in disk : m >= t
      BY <2>2 DEF Max
    <3> HIDE DEF m
    <3>2. m \in Int /\ m >= last /\ last >= m
      BY <2>2, <3>1
    <3> QED
      BY <3>2 DEF m
  <2> QED
    BY <2>1, <2>3 DEF Window
<1> QED
  BY <1>1, LogInvariance, PTL

\* Between turns the log in memory has all that can be read of the one on disk, and is that
\* one where every row can be read.
THEOREM MemoryIsTheLog == Spec => []MemoryMirrorsLog
<1>1. LogInv => MemoryMirrorsLog
  <2> SUFFICES ASSUME LogInv, phase = "idle"
               PROVE  /\ Loaded(disk, torn) \subseteq log
                      /\ Keep > 0 => turn = LastTurn(log)
                      /\ torn = {} /\ ~forgotten => log = disk
    BY DEF MemoryMirrorsLog
  <2>1. /\ Loaded(disk, torn) \subseteq log /\ log \subseteq 1 .. turn
        /\ Keep > 0 /\ turn > 0 => turn \in log
        /\ IsFiniteSet(log) /\ Cardinality(log) <= Keep /\ turn \in Nat
    BY DEF LogInv, LogTypeOK, MemoryKnows, Running
  <2>2. ASSUME Keep > 0
        PROVE  turn = LastTurn(log)
    <3>1. CASE log = {}
      BY <2>1, <2>2, <3>1 DEF LastTurn
    <3>2. CASE log # {}
      <4>1. LastTurn(log) \in log /\ \A t \in log : t <= LastTurn(log)
        BY <2>1, <3>2, LastOf
      <4>2. LastTurn(log) \in 1 .. turn
        BY <2>1, <4>1
      <4>3. turn \in log /\ LastTurn(log) <= turn /\ LastTurn(log) \in Nat
        BY <2>1, <2>2, <4>2
      <4> QED
        BY <2>1, <4>1, <4>3
    <3> QED
      BY <3>1, <3>2
  <2>3. ASSUME torn = {}, ~forgotten
        PROVE  log = disk
    <3>1. PICK last \in Nat : disk = Window(last) /\ turn <= last
      BY <2>3 DEF LogInv, LogFollows, Running
    <3>2. disk \subseteq log
      BY <2>1, <2>3, <3>1, WindowIsLoaded
    <3>3. IsFiniteSet(disk) /\ Cardinality(disk) = IF Keep <= last THEN Keep ELSE last
      BY <3>1, WindowSize
    <3>4. CASE Keep <= last
      <4>1. Cardinality(disk) <= Cardinality(log) /\ Cardinality(log) \in Nat
        BY <2>1, <3>2, FS_Subset, FS_CardinalityType
      <4>2. Cardinality(disk) = Cardinality(log)
        BY <2>1, <3>3, <3>4, <4>1, SessionAssumption
      <4> QED
        BY <2>1, <3>2, <4>2, FS_Subset
    <3>5. CASE ~(Keep <= last)
      <4>1. disk = 1 .. last
        BY <3>1, <3>5, SessionAssumption DEF Window
      <4>2. 1 .. turn \subseteq 1 .. last
        BY <2>1, <3>1
      <4> QED
        BY <2>1, <3>2, <4>1, <4>2
    <3> QED
      BY <3>4, <3>5
  <2> QED
    BY <2>1, <2>2, <2>3
<1> QED
  BY <1>1, LogInvariance, PTL

\* No turn is logged over another that can be read, unless a process found nothing it could
\* read.
THEOREM TurnsAreKept == Spec => TurnsAreNotOverwritten
<1>1. LogInv /\ [Next]_vars =>
        [phase = "answered" /\ phase' = "idle" /\ ~forgotten =>
             \A t \in disk \ torn : t < turn']_vars
  <2> SUFFICES ASSUME LogInv, Next, phase = "answered", phase' = "idle", ~forgotten,
                      NEW t \in disk \ torn
               PROVE  t < turn'
    OBVIOUS
  <2>1. t <= turn /\ turn \in Nat /\ t \in Int
    BY DEF LogInv, LogTypeOK, LogFollows, Running, Window
  <2>2. turn' = turn + 1
    BY DEF Next, Open, WipeFiles, WipeStore, WipeLog, Exit, Recall, CallInVain, Call, Fallback,
           Cite, LogTurn, LogFails, Dream, Save, Delete, Answer, Tear
  <2> QED
    BY <2>1, <2>2
<1> QED
  BY <1>1, LogInvariance, PTL DEF Spec, TurnsAreNotOverwritten

=============================================================================
