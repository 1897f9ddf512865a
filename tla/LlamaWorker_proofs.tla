-------------------------- MODULE LlamaWorker_proofs --------------------------
(***************************************************************************)
(* Theorems about the llama.cpp embedder, for every set of clients and     *)
(* texts and every size of jobs and batches.                               *)
(***************************************************************************)
EXTENDS LlamaWorker, SequenceTheorems, TLAPS

Calls == [at : {"idle", "waiting", "error", "vectors"}, texts : Seq(Texts),
          vectors : Seq(SUBSET Texts)]

\* The types of the embedder's state.
TypeOK ==
    /\ calls \in [Clients -> Calls]
    /\ inbox \in Seq(Clients)
    /\ job \in Clients
    /\ added \in Nat /\ seqs \in Nat
    /\ batch \in Seq([seq : Nat, text : Texts])
    /\ out \in Seq(SUBSET Texts)
    /\ result \in [at : {"error", "vectors"}, vectors : Seq(SUBSET Texts)]

Busy == worker \in {"working", "replying"}

\* A client that waits has one job, in the channel or with the worker; no other has any.
OneJobEach ==
    /\ \A i \in 1 .. Len(inbox) : calls[inbox[i]].at = "waiting"
    /\ \A i \in 1 .. Len(inbox), j \in 1 .. Len(inbox) : inbox[i] = inbox[j] => i = j
    /\ Busy => /\ calls[job].at = "waiting"
               /\ \A i \in 1 .. Len(inbox) : inbox[i] # job

\* The vectors of some texts: one for each, in order.
Right(vectors, texts) ==
    /\ Len(vectors) = Len(texts)
    /\ \A i \in 1 .. Len(texts) : vectors[i] = {texts[i]}

\* Between two jobs nothing is left of the one before.
StartsEmpty ==
    worker \in {"none", "loading", "idle"} =>
        batch = <<>> /\ added = 0 /\ seqs = 0 /\ out = <<>>

\* During a job the embeddings made and the sequences in the batch are its texts so far.
HoldsOwnTexts ==
    worker = "working" =>
        /\ added = Len(out) + seqs /\ added <= Len(TextsOf(job))
        /\ Len(batch) = seqs
        /\ \A i \in 1 .. seqs :
              batch[i].seq = i - 1 /\ batch[i].text = TextsOf(job)[Len(out) + i]
        /\ \A i \in 1 .. Len(out) : out[i] = {TextsOf(job)[i]}

RepliesRight ==
    worker = "replying" =>
        batch = <<>> /\ (result.at = "vectors" => Right(result.vectors, TextsOf(job)))

ReturnedRight ==
    \A c \in Clients : calls[c].at = "vectors" => Right(calls[c].vectors, calls[c].texts)

IInv == TypeOK /\ OneJobEach /\ StartsEmpty /\ HoldsOwnTexts /\ RepliesRight /\ ReturnedRight

-----------------------------------------------------------------------------
(* Clients and handles.                                                    *)

LEMMA IdleIsCall == Idle \in Calls
  BY EmptySeq DEF Idle, Calls

LEMMA JobsAreSequences == \A texts \in Jobs : texts \in Seq(Texts)
  BY SeqDef, LlamaAssumption DEF Jobs, BoundedSeq, SeqOf

LEMMA InitInvariant == Init => IInv
  BY IdleIsCall, EmptySeq DEF Init, IInv, TypeOK, OneJobEach, StartsEmpty, HoldsOwnTexts,
     RepliesRight, ReturnedRight, Busy, Idle, NoResult

\* Handles come and go, and so do loads that fail, without a word to the worker.
LEMMA HandlesKeep ==
  ASSUME IInv,
         StartLoad \/ LoadFails \/ Loaded \/ Replace \/ \E c \in Clients : Attach(c)
  PROVE  IInv'
  <1>1. UNCHANGED <<calls, inbox, job, added, batch, seqs, out, result>>
    BY DEF StartLoad, LoadFails, Loaded, Replace, Attach, progress
  <1>2. \/ worker' = worker
        \/ worker \in {"none", "loading"} /\ worker' \in {"none", "loading", "idle"}
    BY DEF StartLoad, LoadFails, Loaded, Replace, Attach
  <1>3. TypeOK' /\ ReturnedRight'
    BY <1>1 DEF IInv, TypeOK, ReturnedRight
  <1>4. Busy' => Busy /\ worker' = worker
    BY <1>2 DEF Busy
  <1>5. OneJobEach'
    BY <1>1, <1>4 DEF IInv, OneJobEach
  <1>6. StartsEmpty'
    BY <1>1, <1>2 DEF IInv, StartsEmpty
  <1>7. HoldsOwnTexts' /\ RepliesRight'
    BY <1>1, <1>2 DEF IInv, HoldsOwnTexts, RepliesRight, TextsOf
  <1> QED
    BY <1>3, <1>5, <1>6, <1>7 DEF IInv

\* A client that does not wait returns or loses what it had.
LEMMA IdleClientKeeps ==
  ASSUME IInv, NEW c \in Clients, calls[c].at # "waiting", NEW call \in Calls,
         call.at \in {"idle", "error"}, calls' = [calls EXCEPT ![c] = call],
         UNCHANGED <<inbox, worker, job, added, batch, seqs, out, result>>
  PROVE  IInv'
  <1>1. TypeOK'
    BY DEF IInv, TypeOK
  <1>2. \A i \in 1 .. Len(inbox) : inbox[i] \in Clients /\ inbox[i] # c
    BY ElementOfSeq DEF IInv, TypeOK, OneJobEach
  <1>3. Busy => job # c
    BY DEF IInv, OneJobEach
  <1>4. OneJobEach'
    BY <1>2, <1>3 DEF IInv, TypeOK, OneJobEach, Busy
  <1>5. HoldsOwnTexts' /\ RepliesRight'
    BY <1>3 DEF IInv, TypeOK, HoldsOwnTexts, RepliesRight, Busy, TextsOf
  <1>6. StartsEmpty' /\ ReturnedRight'
    BY DEF IInv, TypeOK, StartsEmpty, ReturnedRight
  <1> QED
    BY <1>1, <1>4, <1>5, <1>6 DEF IInv

LEMMA DropKeeps ==
  ASSUME IInv, NEW c \in Clients, Drop(c)
  PROVE  IInv'
  <1>1. Idle.at = "idle"
    BY DEF Idle
  <1> QED
    BY <1>1, IdleIsCall, IdleClientKeeps DEF Drop, progress

LEMMA EmbedKeeps ==
  ASSUME IInv, NEW c \in Clients, NEW texts \in Jobs, Embed(c, texts)
  PROVE  IInv'
  <1>1. CASE worker = "ended"
    <2>1. [Idle EXCEPT !.at = "error"] \in Calls /\ [Idle EXCEPT !.at = "error"].at = "error"
      BY IdleIsCall DEF Idle, Calls
    <2> QED
      BY <1>1, <2>1, IdleClientKeeps DEF Embed, progress
  <1>2. CASE worker # "ended"
    <2> DEFINE call == [Idle EXCEPT !.at = "waiting", !.texts = texts]
    <2>1. /\ calls[c].at # "waiting" /\ calls' = [calls EXCEPT ![c] = call]
          /\ inbox' = Append(inbox, c)
          /\ UNCHANGED <<worker, job, added, batch, seqs, out, result>>
      BY <1>2 DEF Embed, progress
    <2>2. call \in Calls /\ call.at = "waiting"
      BY JobsAreSequences, EmptySeq DEF Idle, Calls
    <2> HIDE DEF call
    <2>3. /\ inbox' \in Seq(Clients) /\ Len(inbox') = Len(inbox) + 1
          /\ \A i \in 1 .. Len(inbox) : inbox'[i] = inbox[i]
          /\ inbox'[Len(inbox) + 1] = c
          /\ Len(inbox) \in Nat
      BY <2>1, AppendProperties, LenProperties DEF IInv, TypeOK
    <2>4. TypeOK'
      BY <2>1, <2>2, <2>3 DEF IInv, TypeOK
    <2>5. \A i \in 1 .. Len(inbox) : inbox[i] \in Clients /\ inbox[i] # c
      BY <2>1, ElementOfSeq DEF IInv, TypeOK, OneJobEach
    <2>6. Busy => job # c
      BY <2>1 DEF IInv, OneJobEach
    <2>7. OneJobEach'
      <3>1. \A i \in 1 .. Len(inbox') : i \in 1 .. Len(inbox) \/ i = Len(inbox) + 1
        BY <2>3
      <3>2. \A i \in 1 .. Len(inbox') : calls'[inbox'[i]].at = "waiting"
        BY <2>1, <2>2, <2>3, <2>5, <3>1 DEF IInv, TypeOK, OneJobEach
      <3>3. \A i \in 1 .. Len(inbox'), j \in 1 .. Len(inbox') : inbox'[i] = inbox'[j] => i = j
        BY <2>3, <2>5, <3>1 DEF IInv, OneJobEach
      <3>4. Busy' => /\ calls'[job'].at = "waiting"
                     /\ \A i \in 1 .. Len(inbox') : inbox'[i] # job'
        BY <2>1, <2>3, <2>6, <3>1 DEF IInv, TypeOK, OneJobEach, Busy
      <3> QED
        BY <3>2, <3>3, <3>4 DEF OneJobEach
    <2>8. HoldsOwnTexts' /\ RepliesRight'
      BY <2>1, <2>6 DEF IInv, TypeOK, HoldsOwnTexts, RepliesRight, Busy, TextsOf
    <2>9. StartsEmpty' /\ ReturnedRight'
      BY <2>1, <2>2 DEF IInv, TypeOK, StartsEmpty, ReturnedRight
    <2> QED
      BY <2>4, <2>7, <2>8, <2>9 DEF IInv
  <1> QED
    BY <1>1, <1>2

-----------------------------------------------------------------------------
(* The worker.                                                             *)

LEMMA TakeKeeps ==
  ASSUME IInv, Take
  PROVE  IInv'
  <1>1. /\ inbox \in Seq(Clients) /\ inbox # <<>> /\ job' = Head(inbox)
        /\ inbox' = Tail(inbox) /\ worker = "idle" /\ worker' = "working"
        /\ UNCHANGED <<calls, added, batch, seqs, out, result>>
    BY DEF Take, IInv, TypeOK
  <1>2. /\ Len(inbox) \in Nat /\ 1 \in 1 .. Len(inbox) /\ job' = inbox[1] /\ job' \in Clients
        /\ inbox' \in Seq(Clients) /\ Len(inbox') = Len(inbox) - 1
        /\ \A i \in 1 .. Len(inbox') : inbox'[i] = inbox[i + 1]
    BY <1>1, HeadTailProperties, LenProperties, EmptySeq
  <1>3. TypeOK' /\ ReturnedRight'
    BY <1>1, <1>2 DEF IInv, TypeOK, ReturnedRight
  <1>4. OneJobEach'
    <2>1. \A i \in 1 .. Len(inbox') : i + 1 \in 1 .. Len(inbox) /\ i + 1 # 1
      BY <1>2
    <2>2. \A i \in 1 .. Len(inbox') : calls'[inbox'[i]].at = "waiting"
      BY <1>1, <1>2, <2>1 DEF IInv, OneJobEach
    <2>3. \A i \in 1 .. Len(inbox'), j \in 1 .. Len(inbox') : inbox'[i] = inbox'[j] => i = j
      <3> SUFFICES ASSUME NEW i \in 1 .. Len(inbox'), NEW j \in 1 .. Len(inbox'),
                          inbox'[i] = inbox'[j]
                   PROVE  i = j
        OBVIOUS
      <3>1. inbox[i + 1] = inbox[j + 1]
        BY <1>2
      <3>2. i + 1 = j + 1
        BY <2>1, <3>1 DEF IInv, OneJobEach
      <3> QED
        BY <1>2, <3>2
    <2>4. calls'[job'].at = "waiting" /\ \A i \in 1 .. Len(inbox') : inbox'[i] # job'
      BY <1>1, <1>2, <2>1 DEF IInv, OneJobEach
    <2> QED
      BY <2>2, <2>3, <2>4 DEF OneJobEach
  <1>5. HoldsOwnTexts'
    <2>1. batch' = <<>> /\ added' = 0 /\ seqs' = 0 /\ out' = <<>>
      BY <1>1 DEF IInv, StartsEmpty
    <2>2. TextsOf(job)' \in Seq(Texts)
      BY <1>1, <1>2 DEF IInv, TypeOK, Calls, TextsOf
    <2> QED
      BY <2>1, <2>2, LenProperties DEF HoldsOwnTexts
  <1>6. StartsEmpty' /\ RepliesRight'
    BY <1>1 DEF StartsEmpty, RepliesRight
  <1> QED
    BY <1>3, <1>4, <1>5, <1>6 DEF IInv

LEMMA AddKeeps ==
  ASSUME IInv, Add
  PROVE  IInv'
  <1> DEFINE texts == TextsOf(job)
             run == [seq |-> seqs, text |-> NextText]
  <1>1. /\ worker = "working" /\ added < Len(texts) /\ batch' = Append(batch, run)
        /\ seqs' = seqs + 1 /\ added' = added + 1
        /\ UNCHANGED <<calls, inbox, worker, job, out, result>>
    BY DEF Add, More
  <1>2. texts \in Seq(Texts) /\ Len(texts) \in Nat /\ added \in Nat /\ seqs \in Nat
    BY LenProperties DEF IInv, TypeOK, Calls, TextsOf
  <1>3. NextText = texts[added + 1] /\ NextText \in Texts
    BY <1>1, <1>2, ElementOfSeq DEF NextText
  <1>4. run \in [seq : Nat, text : Texts] /\ run.seq = seqs /\ run.text = texts[added + 1]
    BY <1>2, <1>3
  <1> HIDE DEF run
  <1>5. /\ Len(batch) = seqs /\ added = Len(out) + seqs /\ Len(out) \in Nat
        /\ \A i \in 1 .. seqs : batch[i].seq = i - 1 /\ batch[i].text = texts[Len(out) + i]
    BY <1>1, LenProperties DEF IInv, TypeOK, HoldsOwnTexts
  <1>6. /\ batch' \in Seq([seq : Nat, text : Texts]) /\ Len(batch') = seqs + 1
        /\ \A i \in 1 .. seqs : batch'[i] = batch[i]
        /\ batch'[seqs + 1] = run
    <2> DEFINE Runs == [seq : Nat, text : Texts]
    <2>1. batch \in Seq(Runs) /\ run \in Runs
      BY <1>4 DEF IInv, TypeOK
    <2> HIDE DEF Runs
    <2>2. /\ Append(batch, run) \in Seq(Runs) /\ Len(Append(batch, run)) = Len(batch) + 1
          /\ \A i \in 1 .. Len(batch) : Append(batch, run)[i] = batch[i]
          /\ Append(batch, run)[Len(batch) + 1] = run
      BY <2>1, AppendProperties
    <2> QED
      BY <1>1, <1>5, <2>2 DEF Runs
  <1>7. TypeOK'
    BY <1>1, <1>2, <1>6 DEF IInv, TypeOK
  <1>8. TextsOf(job)' = texts
    BY <1>1 DEF TextsOf
  <1>9. \A i \in 1 .. seqs' : batch'[i].seq = i - 1 /\ batch'[i].text = texts[Len(out) + i]
    <2> TAKE i \in 1 .. seqs'
    <2>1. CASE i \in 1 .. seqs
      BY <1>5, <1>6, <2>1
    <2>2. CASE i = seqs + 1
      <3>1. added + 1 = Len(out) + i
        BY <1>2, <1>5, <2>2
      <3> QED
        BY <1>2, <1>4, <1>6, <2>2, <3>1
    <2>3. seqs \in Nat /\ i \in 1 .. seqs + 1
      BY <1>1, <1>2
    <2>4. i \in 1 .. seqs \/ i = seqs + 1
      BY <2>3
    <2> QED
      BY <2>1, <2>2, <2>4
  <1>10. HoldsOwnTexts'
    <2>1. added' = Len(out') + seqs' /\ added' <= Len(texts) /\ Len(batch') = seqs'
      BY <1>1, <1>2, <1>5, <1>6
    <2>2. \A i \in 1 .. Len(out') : out'[i] = {texts[i]}
      BY <1>1 DEF IInv, HoldsOwnTexts
    <2> HIDE DEF texts
    <2> QED
      BY <1>1, <1>8, <1>9, <2>1, <2>2 DEF HoldsOwnTexts
  <1>11. OneJobEach' /\ ReturnedRight' /\ StartsEmpty' /\ RepliesRight'
    BY <1>1 DEF IInv, OneJobEach, ReturnedRight, StartsEmpty, RepliesRight, Busy
  <1> QED
    BY <1>7, <1>10, <1>11 DEF IInv

LEMMA DecodeKeeps ==
  ASSUME IInv, Decode
  PROVE  IInv'
  <1> DEFINE texts == TextsOf(job)
             new == [s \in 1 .. seqs |-> Embedding(s - 1)]
  <1>1. /\ worker = "working" /\ out' = out \o new /\ batch' = <<>> /\ seqs' = 0
        /\ UNCHANGED <<calls, inbox, worker, job, added, result>>
    BY DEF Decode, Due
  <1>2. /\ added = Len(out) + seqs /\ added <= Len(texts) /\ Len(batch) = seqs
        /\ \A i \in 1 .. seqs : batch[i].seq = i - 1 /\ batch[i].text = texts[Len(out) + i]
        /\ \A i \in 1 .. Len(out) : out[i] = {texts[i]}
    BY <1>1 DEF IInv, HoldsOwnTexts
  <1>3. texts \in Seq(Texts) /\ Len(texts) \in Nat /\ Len(out) \in Nat /\ seqs \in Nat
        /\ added \in Nat /\ out \in Seq(SUBSET Texts)
        /\ batch \in Seq([seq : Nat, text : Texts])
    BY LenProperties DEF IInv, TypeOK, Calls, TextsOf
  <1>4. \A s \in 1 .. seqs : Embedding(s - 1) = {texts[Len(out) + s]}
    <2> TAKE s \in 1 .. seqs
    <2>1. DOMAIN batch = 1 .. seqs
      BY <1>2, <1>3, LenProperties
    <2>2. \A j \in DOMAIN batch : batch[j].seq = s - 1 <=> j = s
      BY <1>2, <1>3, <2>1
    <2>3. {j \in DOMAIN batch : batch[j].seq = s - 1} = {s}
      BY <2>1, <2>2
    <2>4. Embedding(s - 1) = {batch[s].text}
      BY <2>3 DEF Embedding
    <2> QED
      BY <1>2, <2>4
  <1>5. \A s \in 1 .. seqs : texts[Len(out) + s] \in Texts
    <2> TAKE s \in 1 .. seqs
    <2>1. Len(out) + s \in 1 .. Len(texts)
      BY <1>2, <1>3
    <2> HIDE DEF texts
    <2> QED
      BY <1>3, <2>1, ElementOfSeq
  <1>6. new \in Seq(SUBSET Texts) /\ Len(new) = seqs
    <2>1. \A s \in 1 .. seqs : Embedding(s - 1) \in SUBSET Texts
      BY <1>4, <1>5
    <2> QED
      BY <1>3, <2>1, IsASeq, LenProperties
  <1>7. \A s \in 1 .. seqs : new[s] = {texts[Len(out) + s]}
    BY <1>4
  <1> HIDE DEF new, texts
  <1>8. /\ out' \in Seq(SUBSET Texts) /\ Len(out') = Len(out) + seqs
        /\ \A i \in 1 .. Len(out') : out'[i] = IF i <= Len(out) THEN out[i] ELSE new[i - Len(out)]
    <2> DEFINE Sets == SUBSET Texts
    <2>1. out \in Seq(Sets) /\ new \in Seq(Sets)
      BY <1>3, <1>6
    <2> HIDE DEF Sets
    <2>2. /\ out \o new \in Seq(Sets) /\ Len(out \o new) = Len(out) + Len(new)
          /\ \A i \in 1 .. Len(out) + Len(new) :
                (out \o new)[i] = IF i <= Len(out) THEN out[i] ELSE new[i - Len(out)]
      BY <2>1, ConcatProperties
    <2> QED
      BY <1>1, <1>6, <2>2 DEF Sets
  <1>9. TypeOK'
    BY <1>1, <1>8, EmptySeq DEF IInv, TypeOK
  <1>10. TextsOf(job)' = texts
    BY <1>1 DEF TextsOf, texts
  <1>11. \A i \in 1 .. Len(out') : out'[i] = {texts[i]}
    <2> TAKE i \in 1 .. Len(out')
    <2>1. CASE i <= Len(out)
      <3>1. i \in 1 .. Len(out)
        BY <1>3, <1>8, <2>1
      <3> QED
        BY <1>2, <1>8, <2>1, <3>1
    <2>2. CASE i > Len(out)
      <3>1. i \in Nat /\ Len(out) \in Nat
        BY <1>3
      <3>2. i - Len(out) \in 1 .. seqs /\ Len(out) + (i - Len(out)) = i
        BY <1>3, <1>8, <2>2, <3>1
      <3>3. out'[i] = new[i - Len(out)]
        BY <1>8, <2>2, <3>1
      <3>4. new[i - Len(out)] = {texts[Len(out) + (i - Len(out))]}
        BY <1>7, <3>2
      <3> QED
        BY <3>2, <3>3, <3>4
    <2> QED
      BY <1>3, <2>1, <2>2
  <1>12. HoldsOwnTexts'
    <2>1. /\ added' = Len(out') + seqs' /\ added' <= Len(texts)
          /\ Len(batch') = seqs' /\ 1 .. seqs' = {}
      BY <1>1, <1>2, <1>3, <1>8, EmptySeq
    <2> QED
      BY <1>1, <1>10, <1>11, <2>1 DEF HoldsOwnTexts
  <1>13. OneJobEach' /\ ReturnedRight' /\ StartsEmpty' /\ RepliesRight'
    BY <1>1 DEF IInv, OneJobEach, ReturnedRight, StartsEmpty, RepliesRight, Busy
  <1> QED
    BY <1>9, <1>12, <1>13 DEF IInv

LEMMA FailKeeps ==
  ASSUME IInv, Fail
  PROVE  IInv'
  <1>1. /\ worker = "working" /\ worker' = "replying" /\ batch' = <<>> /\ result' = NoResult
        /\ UNCHANGED <<calls, inbox, job, added, seqs, out>>
    BY DEF Fail
  <1>2. TypeOK'
    BY <1>1, EmptySeq DEF IInv, TypeOK, NoResult
  <1>3. OneJobEach' /\ ReturnedRight'
    BY <1>1 DEF IInv, OneJobEach, ReturnedRight, Busy
  <1>4. StartsEmpty' /\ HoldsOwnTexts' /\ RepliesRight'
    BY <1>1 DEF StartsEmpty, HoldsOwnTexts, RepliesRight, NoResult
  <1> QED
    BY <1>2, <1>3, <1>4 DEF IInv

LEMMA FinishKeeps ==
  ASSUME IInv, Finish
  PROVE  IInv'
  <1>1. /\ worker = "working" /\ worker' = "replying" /\ seqs = 0
        /\ added \geq Len(TextsOf(job))
        /\ result' = [at |-> "vectors", vectors |-> out]
        /\ UNCHANGED <<calls, inbox, job, added, batch, seqs, out>>
    <2>1. Len(TextsOf(job)) \in Nat /\ added \in Nat
      BY LenProperties DEF IInv, TypeOK, Calls, TextsOf
    <2> QED
      BY <2>1 DEF Finish, More
  <1>2. TypeOK'
    BY <1>1 DEF IInv, TypeOK
  <1>3. OneJobEach' /\ ReturnedRight'
    BY <1>1 DEF IInv, OneJobEach, ReturnedRight, Busy
  <1>4. /\ Len(TextsOf(job)) = Len(out) /\ Len(batch) = 0
        /\ \A i \in 1 .. Len(out) : out[i] = {TextsOf(job)[i]}
    <2>1. Len(TextsOf(job)) \in Nat /\ added \in Nat /\ Len(out) \in Nat
      BY LenProperties DEF IInv, TypeOK, Calls, TextsOf
    <2> QED
      BY <1>1, <2>1 DEF IInv, HoldsOwnTexts
  <1>5. batch = <<>>
    BY <1>4, EmptySeq DEF IInv, TypeOK
  <1>6. RepliesRight'
    BY <1>1, <1>4, <1>5 DEF RepliesRight, Right, TextsOf
  <1>7. StartsEmpty' /\ HoldsOwnTexts'
    BY <1>1 DEF StartsEmpty, HoldsOwnTexts
  <1> QED
    BY <1>2, <1>3, <1>6, <1>7 DEF IInv

LEMMA ReplyKeeps ==
  ASSUME IInv, Reply
  PROVE  IInv'
  <1> DEFINE call == [calls[job] EXCEPT !.at = result.at, !.vectors = result.vectors]
  <1>1. /\ worker = "replying" /\ worker' = "idle" /\ calls' = [calls EXCEPT ![job] = call]
        /\ added' = 0 /\ seqs' = 0 /\ out' = <<>> /\ result' = NoResult
        /\ UNCHANGED <<inbox, job, batch>>
    BY DEF Reply
  <1>2. /\ call \in Calls /\ call.at = result.at /\ call.vectors = result.vectors
        /\ call.texts = TextsOf(job) /\ job \in Clients
    BY DEF IInv, TypeOK, Calls, TextsOf
  <1> HIDE DEF call
  <1>3. TypeOK'
    BY <1>1, <1>2, EmptySeq DEF IInv, TypeOK, NoResult
  <1>4. \A i \in 1 .. Len(inbox) : inbox[i] \in Clients /\ inbox[i] # job
    BY <1>1, ElementOfSeq DEF IInv, TypeOK, OneJobEach, Busy
  <1>5. OneJobEach'
    BY <1>1, <1>4 DEF IInv, TypeOK, OneJobEach, Busy
  <1>6. ReturnedRight'
    BY <1>1, <1>2 DEF IInv, TypeOK, ReturnedRight, RepliesRight
  <1>7. StartsEmpty' /\ HoldsOwnTexts' /\ RepliesRight'
    BY <1>1 DEF IInv, StartsEmpty, HoldsOwnTexts, RepliesRight
  <1> QED
    BY <1>3, <1>5, <1>6, <1>7 DEF IInv

LEMMA DieKeeps ==
  ASSUME IInv, Die
  PROVE  IInv'
  <1>1. /\ worker' = "ended" /\ inbox' = <<>> /\ batch' = <<>>
        /\ added' = 0 /\ seqs' = 0 /\ out' = <<>> /\ UNCHANGED <<job, result>>
        /\ calls' = [c \in Clients |-> IF calls[c].at = "waiting"
                                       THEN [Idle EXCEPT !.at = "error"] ELSE calls[c]]
    BY DEF Die
  <1>2. [Idle EXCEPT !.at = "error"] \in Calls /\ [Idle EXCEPT !.at = "error"].at = "error"
    BY IdleIsCall DEF Idle, Calls
  <1>3. TypeOK'
    BY <1>1, <1>2, EmptySeq DEF IInv, TypeOK
  <1>4. OneJobEach' /\ StartsEmpty' /\ HoldsOwnTexts' /\ RepliesRight'
    BY <1>1, EmptySeq DEF OneJobEach, StartsEmpty, HoldsOwnTexts, RepliesRight, Busy
  <1>5. ReturnedRight'
    BY <1>1, <1>2 DEF IInv, ReturnedRight
  <1> QED
    BY <1>3, <1>4, <1>5 DEF IInv

LEMMA NextInvariant == IInv /\ [Next]_vars => IInv'
  <1> SUFFICES ASSUME IInv, [Next]_vars PROVE IInv'
    OBVIOUS
  <1>1. CASE UNCHANGED vars
    BY <1>1 DEF vars, IInv, TypeOK, OneJobEach, StartsEmpty, HoldsOwnTexts, RepliesRight,
                ReturnedRight, Busy, TextsOf
  <1>2. CASE WorkerEnds
    BY <1>2 DEF WorkerEnds, progress, IInv, TypeOK, OneJobEach, StartsEmpty, HoldsOwnTexts,
                RepliesRight, ReturnedRight, Busy
  <1> QED
    BY <1>1, <1>2, HandlesKeep, DropKeeps, EmbedKeeps, TakeKeeps, AddKeeps, DecodeKeeps,
       FailKeeps, FinishKeeps, ReplyKeeps, DieKeeps DEF Next, Work

LEMMA Invariance == Spec => []IInv
  BY InitInvariant, NextInvariant, PTL DEF Spec

-----------------------------------------------------------------------------
(* What llama.cpp is given.                                                *)

\* The job's own counts are the batch's: nothing of the job before is still in it.
CountsAgree ==
    /\ toks \in Nat /\ n_tokens \in Nat
    /\ worker \in {"none", "loading", "idle"} => toks = 0
    /\ worker = "working" => /\ n_tokens = toks /\ toks <= N_BATCH /\ seqs <= N_SEQ
                             /\ (seqs = 0 => toks = 0)
    /\ worker # "working" => n_tokens = 0 /\ batch = <<>>

LEMMA LengthFits == \A t \in Texts : Length(t) \in 1 .. N_BATCH
  BY LlamaAssumption DEF Length

LEMMA NextTextIsText ==
  ASSUME IInv, worker = "working", More
  PROVE  NextText \in Texts
  <1>1. TextsOf(job) \in Seq(Texts) /\ Len(TextsOf(job)) \in Nat /\ added \in Nat
    BY LenProperties DEF IInv, TypeOK, Calls, TextsOf
  <1> QED
    BY <1>1, ElementOfSeq DEF More, NextText

LEMMA CountsStep ==
  ASSUME IInv, IInv', CountsAgree, [Next]_vars
  PROVE  CountsAgree'
  <1> USE DEF CountsAgree
  <1>1. CASE UNCHANGED vars
    BY <1>1 DEF vars
  <1>2. CASE StartLoad \/ LoadFails \/ Loaded \/ Replace
    BY <1>2 DEF StartLoad, LoadFails, Loaded, Replace, progress
  <1>3. ASSUME NEW c \in Clients, Attach(c) \/ Drop(c) \/ \E texts \in Jobs : Embed(c, texts)
        PROVE  CountsAgree'
    BY <1>3 DEF Attach, Drop, Embed, progress
  <1>4. CASE Take
    BY <1>4, LlamaAssumption DEF Take, IInv, StartsEmpty
  <1>5. CASE WorkerEnds
    BY <1>5 DEF WorkerEnds, progress
  <1>6. CASE Add
    <2>1. Length(NextText) \in 1 .. N_BATCH /\ seqs \in Nat
      BY <1>6, NextTextIsText, LengthFits DEF Add, IInv, TypeOK
    <2> QED
      BY <1>6, <2>1, LlamaAssumption DEF Add, Fits
  <1>7. CASE Decode
    BY <1>7, LlamaAssumption DEF Decode, Due
  <1>8. CASE Fail
    BY <1>8 DEF Fail
  <1>9. CASE Finish
    <2>1. batch' = <<>>
      BY <1>9 DEF IInv, RepliesRight, Finish
    <2> QED
      BY <1>9, <2>1 DEF Finish
  <1>10. CASE Reply
    BY <1>10 DEF Reply
  <1>11. CASE Die
    BY <1>11 DEF Die
  <1> QED
    BY <1>1, <1>2, <1>3, <1>4, <1>5, <1>6, <1>7, <1>8, <1>9, <1>10, <1>11 DEF Next, Work

LEMMA CountsInvariance == Spec => []CountsAgree
  <1>1. Init => CountsAgree
    BY DEF Init, CountsAgree
  <1> QED
    BY <1>1, CountsStep, Invariance, PTL DEF Spec

-----------------------------------------------------------------------------
(* The theorems.                                                           *)

\* However the texts of a job are cut into batches, and whatever failed in it or before it,
\* a call that succeeds returns the embeddings of its own texts, in order, one for each
\* (the worker's loop and the reply channel of each job).
THEOREM VectorsAreOwn == Spec => []OwnVectors
  <1>1. IInv => OwnVectors
    <2> SUFFICES ASSUME IInv, NEW c \in Clients, calls[c].at = "vectors"
                 PROVE  calls[c].vectors =
                            [i \in DOMAIN calls[c].texts |-> {calls[c].texts[i]}]
      BY DEF OwnVectors
    <2>1. calls[c].vectors \in Seq(SUBSET Texts) /\ calls[c].texts \in Seq(Texts)
      BY DEF IInv, TypeOK, Calls
    <2>2. Right(calls[c].vectors, calls[c].texts)
      BY DEF IInv, ReturnedRight
    <2>3. /\ DOMAIN calls[c].vectors = 1 .. Len(calls[c].vectors)
          /\ DOMAIN calls[c].texts = 1 .. Len(calls[c].texts)
          /\ calls[c].vectors = [i \in DOMAIN calls[c].vectors |-> calls[c].vectors[i]]
      BY <2>1, LenProperties, SeqDef
    <2> QED
      BY <2>2, <2>3 DEF Right
  <1> QED
    BY <1>1, Invariance, PTL

\* llama.cpp is never handed more tokens or sequences than its context was made for, whatever
\* the texts and whatever failed: a failed job leaves nothing in the batch for the next to
\* add to (the fitting test counts the job's own texts, the batch counts all it holds).
THEOREM BatchFits == Spec => []DecodesFit
  <1>1. IInv /\ CountsAgree => DecodesFit
    <2> SUFFICES ASSUME IInv, CountsAgree PROVE DecodesFit
      OBVIOUS
    <2>1. CASE worker = "working"
      BY <2>1 DEF IInv, HoldsOwnTexts, CountsAgree, DecodesFit
    <2>2. CASE worker # "working"
      BY <2>2, LlamaAssumption DEF CountsAgree, DecodesFit
    <2> QED
      BY <2>1, <2>2
  <1> QED
    BY <1>1, Invariance, CountsInvariance, PTL

\* A client that waits has exactly one job under way: none is answered twice, or with the
\* reply to another call of its own (embed waits for its reply).
THEOREM OneJobPerClient == Spec => []OneJobEach
  BY Invariance, PTL DEF IInv
=============================================================================
