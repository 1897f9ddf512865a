----------------------------- MODULE LlamaWorker -----------------------------
(***************************************************************************)
(* The llama.cpp embedder (bench/src/llama.rs): a worker thread owns the   *)
(* model, and handles talk to it over a channel.  The worker takes one job *)
(* at a time, packs its texts into a batch as sequences, decodes the batch *)
(* when the next text does not fit, and replies.  Any call of llama.cpp    *)
(* may fail, and the worker may die.  One handle is kept in the process's  *)
(* cache (embedder in bench/src/lib.rs) and others are cloned from it.     *)
(*                                                                         *)
(* The embedding of a sequence is the set of texts that were put into it:  *)
(* the right one is the set of one text.                                   *)
(***************************************************************************)
EXTENDS Naturals, Sequences, SequencesExt

CONSTANTS
    Clients,    \* owners of a handle
    Texts,
    TokensOf,   \* how many tokens each text has
    MaxTexts,   \* bound: texts in one job
    N_BATCH,    \* tokens per sequence and per decode
    N_SEQ       \* sequences per decode

ASSUME LlamaAssumption ==
    /\ TokensOf \in [Texts -> Nat \ {0}]
    /\ MaxTexts \in Nat
    /\ N_BATCH \in Nat \ {0} /\ N_SEQ \in Nat \ {0}

VARIABLES
    cached,     \* "none", "loading", or the state of the handle in the process's cache
    handles,    \* the clients that hold a handle
    calls,      \* what each client is at: idle, waiting, or what its last call returned
    inbox,      \* the channel: clients whose jobs wait, in order
    worker,     \* "none", "loading", "idle", "working", "replying" or "ended"
    job,        \* the client whose job is worked on (the rest is of that job, but for batch)
    added,      \* texts of the job added so far
    batch,      \* what the batch holds: the sequence and the text of each run of tokens
    n_tokens,   \* how many tokens that is, as the batch counts them
    seqs,       \* sequences the job has in the batch
    toks,       \* tokens the job has in the batch
    out,        \* embeddings so far
    result      \* what will be replied

vars == <<cached, handles, calls, inbox, worker, job, added, batch, n_tokens, seqs, toks, out, result>>
progress == <<job, added, batch, n_tokens, seqs, toks, out, result>>

Jobs == BoundedSeq(Texts, MaxTexts)

Length(t) == IF TokensOf[t] > N_BATCH THEN N_BATCH ELSE TokensOf[t]     \* truncate

Idle == [at |-> "idle", texts |-> <<>>, vectors |-> <<>>]

NoResult == [at |-> "error", vectors |-> <<>>]

TextsOf(c) == calls[c].texts

-----------------------------------------------------------------------------
(* Loading, sharing and dropping handles.                                  *)

\* Nothing cached: a worker starts to load the model.
StartLoad ==
    /\ cached = "none" /\ worker = "none"
    /\ cached' = "loading" /\ worker' = "loading"
    /\ UNCHANGED <<handles, calls, inbox, progress>>

\* The model or its context cannot be made, or the thread died on it: nothing is cached.
LoadFails ==
    /\ worker = "loading"
    /\ worker' = "none" /\ cached' = "none"
    /\ UNCHANGED <<handles, calls, inbox, progress>>

Loaded ==
    /\ worker = "loading"
    /\ worker' = "idle" /\ cached' = "handle"
    /\ UNCHANGED <<handles, calls, inbox, progress>>

\* A session clones the cached handle.
Attach(c) ==
    /\ cached = "handle" /\ c \notin handles
    /\ handles' = handles \cup {c}
    /\ UNCHANGED <<cached, calls, inbox, worker, progress>>

\* A session is rebuilt or dropped, between its calls.
Drop(c) ==
    /\ c \in handles /\ calls[c].at # "waiting"
    /\ handles' = handles \ {c}
    /\ calls' = [calls EXCEPT ![c] = Idle]
    /\ UNCHANGED <<cached, inbox, worker, progress>>

\* Other settings replace the cached handle, once their own model has loaded (if it does
\* not load, the old handle stays and nothing changes here).  The worker loaded then is
\* another one of the same kind; this module follows the first.
Replace ==
    /\ cached = "handle"
    /\ cached' = "replaced"
    /\ UNCHANGED <<handles, calls, inbox, worker, progress>>

-----------------------------------------------------------------------------
(* A call: embed sends a job with a reply channel of its own and waits.    *)

Embed(c, texts) ==
    /\ c \in handles /\ calls[c].at # "waiting"
    /\ IF worker = "ended"
       THEN /\ calls' = [calls EXCEPT ![c] = [Idle EXCEPT !.at = "error"]]
            /\ UNCHANGED inbox
       ELSE /\ calls' = [calls EXCEPT ![c] = [Idle EXCEPT !.at = "waiting", !.texts = texts]]
            /\ inbox' = Append(inbox, c)
    /\ UNCHANGED <<cached, handles, worker, progress>>

-----------------------------------------------------------------------------
(* The worker.                                                             *)

Take ==
    /\ worker = "idle" /\ inbox # <<>>
    /\ worker' = "working"
    /\ job' = Head(inbox) /\ inbox' = Tail(inbox)
    /\ UNCHANGED <<cached, handles, calls, added, batch, n_tokens, seqs, toks, out, result>>

HoldsASender ==                 \* mutant: the thread keeps a handle of its own
    /\ worker = "idle" /\ inbox = <<>> /\ handles = {} /\ cached = "none"
    /\ worker' = "ended"
    /\ UNCHANGED <<cached, handles, calls, inbox, progress>>

\* Every handle is gone and the channel is empty: the loop ends.
WorkerEnds ==
    /\ worker = "idle" /\ inbox = <<>> /\ handles = {} /\ cached = "replaced"
    /\ worker' = "ended"
    /\ UNCHANGED <<cached, handles, calls, inbox, progress>>

More == added < Len(TextsOf(job))

NextText == TextsOf(job)[added + 1]

FitsTokensOnly == toks + Length(NextText) <= N_BATCH       \* mutant: sequences are not counted

Fits == toks + Length(NextText) <= N_BATCH /\ seqs # N_SEQ

Add ==
    /\ worker = "working" /\ More /\ Fits
    /\ batch' = Append(batch, [seq |-> seqs, text |-> NextText])
    /\ n_tokens' = n_tokens + Length(NextText)
    /\ seqs' = seqs + 1
    /\ toks' = toks + Length(NextText)
    /\ added' = added + 1
    /\ UNCHANGED <<cached, handles, calls, inbox, worker, job, out, result>>

Embedding(s) == {batch[i].text : i \in {j \in DOMAIN batch : batch[j].seq = s}}

\* The decode is due: the next text does not fit, or there is none and the batch has some.
Due == worker = "working" /\ IF More THEN ~Fits ELSE seqs > 0

\* Decode, and the embedding of every sequence of the job.
Decode ==
    /\ Due
    /\ out' = out \o [s \in 1 .. seqs |-> Embedding(s - 1)]
    /\ batch' = <<>> /\ n_tokens' = 0 /\ seqs' = 0 /\ toks' = 0
    /\ UNCHANGED <<cached, handles, calls, inbox, worker, job, added, result>>

FailAndKeep ==                  \* mutant: an error leaves the batch as it is
    /\ worker = "working" /\ (More \/ seqs > 0)
    /\ worker' = "replying"
    /\ result' = NoResult
    /\ UNCHANGED <<cached, handles, calls, inbox, job, added, batch, n_tokens, seqs, toks, out>>

\* An add, a decode or reading an embedding fails: the batch is cleared.
Fail ==
    /\ worker = "working" /\ (More \/ seqs > 0)
    /\ worker' = "replying"
    /\ batch' = <<>> /\ n_tokens' = 0
    /\ result' = NoResult
    /\ UNCHANGED <<cached, handles, calls, inbox, job, added, seqs, toks, out>>

FinishEarly ==                  \* mutant: the last batch is not decoded
    /\ worker = "working" /\ ~More
    /\ worker' = "replying"
    /\ result' = [at |-> "vectors", vectors |-> out]
    /\ UNCHANGED <<cached, handles, calls, inbox, job, added, batch, n_tokens, seqs, toks, out>>

Finish ==
    /\ worker = "working" /\ ~More /\ seqs = 0
    /\ worker' = "replying"
    /\ result' = [at |-> "vectors", vectors |-> out]
    /\ UNCHANGED <<cached, handles, calls, inbox, job, added, batch, n_tokens, seqs, toks, out>>

\* The reply goes to the client whose job it was.
Reply ==
    /\ worker = "replying"
    /\ worker' = "idle"
    /\ calls' = [calls EXCEPT ![job] = [@ EXCEPT !.at = result.at, !.vectors = result.vectors]]
    /\ added' = 0 /\ seqs' = 0 /\ toks' = 0 /\ out' = <<>> /\ result' = NoResult
    /\ UNCHANGED <<cached, handles, inbox, job, batch, n_tokens>>

DieSilently ==                  \* mutant: those in the queue are not told
    /\ worker \in {"idle", "working"}
    /\ worker' = "ended"
    /\ inbox' = <<>> /\ batch' = <<>> /\ n_tokens' = 0
    /\ added' = 0 /\ seqs' = 0 /\ toks' = 0 /\ out' = <<>>
    /\ UNCHANGED <<cached, handles, calls, job, result>>

\* The worker dies: the channel and every reply sender in it are dropped, which ends the
\* calls that wait on them.
Die ==
    /\ worker \in {"idle", "working"}
    /\ worker' = "ended"
    /\ inbox' = <<>>
    /\ calls' = [c \in Clients |-> IF calls[c].at = "waiting" THEN [Idle EXCEPT !.at = "error"]
                                   ELSE calls[c]]
    /\ batch' = <<>> /\ n_tokens' = 0 /\ added' = 0 /\ seqs' = 0 /\ toks' = 0 /\ out' = <<>>
    /\ UNCHANGED <<cached, handles, job, result>>

-----------------------------------------------------------------------------
Init ==
    /\ cached = "none"
    /\ handles = {}
    /\ calls = [c \in Clients |-> Idle]
    /\ inbox = <<>>
    /\ worker = "none"
    /\ job \in Clients
    /\ added = 0 /\ n_tokens = 0 /\ seqs = 0 /\ toks = 0
    /\ batch = <<>> /\ out = <<>>
    /\ result = NoResult

Work == Take \/ WorkerEnds \/ Add \/ Decode \/ Fail \/ Finish \/ Reply

Next ==
    \/ StartLoad \/ LoadFails \/ Loaded \/ Replace
    \/ \E c \in Clients : Attach(c) \/ Drop(c) \/ \E texts \in Jobs : Embed(c, texts)
    \/ Work \/ Die

\* The worker thread runs as long as it lives.
Spec == Init /\ [][Next]_vars /\ WF_vars(Work)

-----------------------------------------------------------------------------
(* Properties.                                                             *)

\* A successful call returns one embedding per text, in order, each of that text alone:
\* however texts were batched, and whatever failed in this job or the one before it.
OwnVectors ==
    \A c \in Clients : calls[c].at = "vectors" =>
        calls[c].vectors = [i \in DOMAIN calls[c].texts |-> {calls[c].texts[i]}]

\* llama.cpp is never given more than the context was made for: tokens and sequences,
\* counting what a batch may still hold of another job.
DecodesFit == n_tokens <= N_BATCH /\ Len(batch) <= N_SEQ

\* Every call returns, in the order of the channel at the latest when the worker dies.
EveryCallEnds == \A c \in Clients : calls[c].at = "waiting" ~> calls[c].at # "waiting"

\* When the last handle is gone the worker thread ends, and the model is freed.
WorkerIsFreed ==
    (cached = "replaced" /\ handles = {} /\ worker \in {"idle", "working", "replying"}) ~>
        worker = "ended"
=============================================================================
