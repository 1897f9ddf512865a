------------------------------- MODULE CliRun -------------------------------
(***************************************************************************)
(* One run of the CLI (run in bench/src/claude.rs): the caller polls the   *)
(* child until it exits or the time is up, while one thread feeds its      *)
(* standard input and two drain its outputs through pipes of bounded size. *)
(* The child does as it likes; a process it started may hold the pipes     *)
(* when it is gone (the .cmd shim's node).  Data is counted in chunks.     *)
(***************************************************************************)
EXTENDS Naturals

CONSTANTS
    Input,      \* chunks of the prompt
    Capacity,   \* chunks a pipe holds
    MaxOutput   \* bound: chunks written to one output

ASSUME CliRunAssumption == Input \in Nat /\ Capacity \in Nat \ {0} /\ MaxOutput \in Nat

VARIABLES
    caller,     \* where run stands
    expired,    \* the deadline has passed
    child,      \* what the child does
    holder,     \* another process holds the child's ends of the pipes
    left,       \* chunks the writer has not written yet
    writer,     \* the writer thread
    pipe,       \* chunks in each pipe
    wrote,      \* chunks ever written to each output
    got,        \* chunks each drain has read
    ended,      \* the drains that have seen the end of their output
    failed      \* history: the calls to the system that failed unnoticed

runVars == <<caller, expired, child, holder, left, writer, pipe, wrote, got, ended, failed>>

Outputs == {"stdout", "stderr"}

Pipes == Outputs \cup {"stdin"}

\* A child runs, is in a call on one of its pipes, has exited, or was waited for.
Calls == {"read", "stdout", "stderr"}
Living == Calls \cup {"running"}
Gone == child \in {"exited", "reaped"}

\* "poll": the loop; "kill", "wait": the time was up; "joinWriter" and on: the child exited.
Polling == "poll"
Joining == {"joinWriter", "joinStdout", "joinStderr"}
RunReturned == caller \in {"output", "timeout"}

-----------------------------------------------------------------------------
(* The child, and whoever shares its pipes.                                *)

\* The next thing the child does; it may also never do anything again.
ChildCalls(c) ==
    /\ child = "running"
    /\ c \in Outputs => wrote[c] < MaxOutput
    /\ child' = c
    /\ UNCHANGED <<caller, expired, holder, left, writer, pipe, wrote, got, ended, failed>>

\* A read returns a chunk, or the end of the input once the writer has closed it.
ChildReads ==
    /\ child = "read"
    /\ \/ pipe["stdin"] > 0 /\ pipe' = [pipe EXCEPT !["stdin"] = @ - 1]
       \/ pipe["stdin"] = 0 /\ writer # "writing" /\ UNCHANGED pipe
    /\ child' = "running"
    /\ UNCHANGED <<caller, expired, holder, left, writer, wrote, got, ended, failed>>

Write(o) ==
    /\ wrote[o] < MaxOutput /\ pipe[o] < Capacity /\ o \notin failed
    /\ pipe' = [pipe EXCEPT ![o] = @ + 1]
    /\ wrote' = [wrote EXCEPT ![o] = @ + 1]

\* A drain that failed has closed its end: a write fails at once.
Broken(o) == o \in failed /\ UNCHANGED <<pipe, wrote>>

ChildWrites(o) ==
    /\ child = o
    /\ Write(o) \/ Broken(o)
    /\ child' = "running"
    /\ UNCHANGED <<caller, expired, holder, left, writer, got, ended, failed>>

ChildExits ==
    /\ child = "running"
    /\ child' = "exited"
    /\ UNCHANGED <<caller, expired, holder, left, writer, pipe, wrote, got, ended, failed>>

HolderWrites(o) ==
    /\ holder
    /\ Write(o)
    /\ UNCHANGED <<caller, expired, child, holder, left, writer, got, ended, failed>>

HolderEnds ==
    /\ holder
    /\ holder' = FALSE
    /\ UNCHANGED <<caller, expired, child, left, writer, pipe, wrote, got, ended, failed>>

-----------------------------------------------------------------------------
(* The threads.                                                            *)

\* No process has the other end of the pipes open.
Hangup == Gone /\ ~holder

WriterIgnoresHangup ==          \* mutant: a broken pipe is not noticed
    /\ writer = "writing"
    /\ \/ /\ left = 0
          /\ writer' = "done"
          /\ UNCHANGED <<left, pipe>>
       \/ /\ left > 0 /\ pipe["stdin"] < Capacity
          /\ left' = left - 1
          /\ pipe' = [pipe EXCEPT !["stdin"] = @ + 1]
          /\ UNCHANGED writer
    /\ UNCHANGED <<caller, expired, child, holder, wrote, got, ended, failed>>

\* write_all: a chunk at a time, until all is written or nobody can read it any more.
WriterStep ==
    /\ writer = "writing"
    /\ \/ /\ left = 0
          /\ writer' = "done"
          /\ UNCHANGED <<left, pipe>>
       \/ /\ left > 0 /\ ~Hangup /\ pipe["stdin"] < Capacity
          /\ left' = left - 1
          /\ pipe' = [pipe EXCEPT !["stdin"] = @ + 1]
          /\ UNCHANGED writer
       \/ /\ left > 0 /\ Hangup
          /\ writer' = "broken"
          /\ UNCHANGED <<left, pipe>>
    /\ UNCHANGED <<caller, expired, child, holder, wrote, got, ended, failed>>

DrainAfterWriting(o) ==         \* mutant: one thread writes the input, then reads
    /\ o \notin ended /\ writer # "writing"
    /\ \/ /\ pipe[o] > 0
          /\ pipe' = [pipe EXCEPT ![o] = @ - 1]
          /\ got' = [got EXCEPT ![o] = @ + 1]
          /\ UNCHANGED ended
       \/ /\ pipe[o] = 0 /\ Hangup
          /\ ended' = ended \cup {o}
          /\ UNCHANGED <<pipe, got>>
    /\ UNCHANGED <<caller, expired, child, holder, left, writer, wrote, failed>>

\* read_to_end: what is there, until nobody can write any more.
Drain(o) ==
    /\ o \notin ended
    /\ \/ /\ pipe[o] > 0
          /\ pipe' = [pipe EXCEPT ![o] = @ - 1]
          /\ got' = [got EXCEPT ![o] = @ + 1]
          /\ UNCHANGED ended
       \/ /\ pipe[o] = 0 /\ Hangup
          /\ ended' = ended \cup {o}
          /\ UNCHANGED <<pipe, got>>
    /\ UNCHANGED <<caller, expired, child, holder, left, writer, wrote, failed>>

\* A read fails or the thread panics: what it has read passes for the whole output.
DrainFails(o) ==
    /\ o \notin ended
    /\ ended' = ended \cup {o}
    /\ failed' = failed \cup {o}
    /\ pipe' = [pipe EXCEPT ![o] = 0]
    /\ UNCHANGED <<caller, expired, child, holder, left, writer, wrote, got>>

-----------------------------------------------------------------------------
(* The caller.                                                             *)

Expire ==
    /\ caller = Polling /\ ~expired
    /\ expired' = TRUE
    /\ UNCHANGED <<caller, child, holder, left, writer, pipe, wrote, got, ended, failed>>

\* try_wait sees the exit first, even when the time is up as well.
SeeExit ==
    /\ caller = Polling /\ child = "exited"
    /\ child' = "reaped"
    /\ caller' = "joinWriter"
    /\ UNCHANGED <<expired, holder, left, writer, pipe, wrote, got, ended, failed>>

\* The time is up.
GiveUp ==
    /\ caller = Polling /\ child # "exited" /\ expired
    /\ caller' = "kill"
    /\ UNCHANGED <<expired, child, holder, left, writer, pipe, wrote, got, ended, failed>>

\* try_wait fails: treated as a timeout.
WaitFails ==
    /\ caller = Polling
    /\ caller' = "kill"
    /\ UNCHANGED <<expired, child, holder, left, writer, pipe, wrote, got, ended, failed>>

\* The kill reaches a child that may have exited since it was polled.
Kill ==
    /\ caller = "kill"
    /\ child' = "exited"
    /\ caller' = "wait"
    /\ UNCHANGED <<expired, holder, left, writer, pipe, wrote, got, ended, failed>>

\* The kill fails unnoticed: the child goes on.
KillFails ==
    /\ caller = "kill"
    /\ caller' = "wait"
    /\ failed' = failed \cup {"kill"}
    /\ UNCHANGED <<expired, child, holder, left, writer, pipe, wrote, got, ended>>

ReturnUnreaped ==               \* mutant: the killed child is not waited for
    /\ caller = "wait"
    /\ caller' = "timeout"
    /\ UNCHANGED <<expired, child, holder, left, writer, pipe, wrote, got, ended, failed>>

\* The pipe threads are left to finish on their own.
Reap ==
    /\ caller = "wait" /\ child = "exited"
    /\ child' = "reaped"
    /\ caller' = "timeout"
    /\ UNCHANGED <<expired, holder, left, writer, pipe, wrote, got, ended, failed>>

\* The wait fails unnoticed.
ReapFails ==
    /\ caller = "wait"
    /\ caller' = "timeout"
    /\ failed' = failed \cup {"wait"}
    /\ UNCHANGED <<expired, child, holder, left, writer, pipe, wrote, got, ended>>

ReturnAtExit ==                 \* mutant: the drains are not joined
    /\ caller \in Joining
    /\ caller' = "output"
    /\ UNCHANGED <<expired, child, holder, left, writer, pipe, wrote, got, ended, failed>>

\* After an exit each thread is joined in turn, without a limit of time.
Join ==
    /\ \/ caller = "joinWriter" /\ writer # "writing" /\ caller' = "joinStdout"
       \/ caller = "joinStdout" /\ "stdout" \in ended /\ caller' = "joinStderr"
       \/ caller = "joinStderr" /\ "stderr" \in ended /\ caller' = "output"
    /\ UNCHANGED <<expired, child, holder, left, writer, pipe, wrote, got, ended, failed>>

-----------------------------------------------------------------------------
RunInit ==
    /\ caller = Polling
    /\ expired = FALSE
    /\ child = "running"
    /\ holder \in BOOLEAN
    /\ left = Input
    /\ writer = "writing"
    /\ pipe = [p \in Pipes |-> 0]
    /\ wrote = [o \in Outputs |-> 0]
    /\ got = [o \in Outputs |-> 0]
    /\ ended = {}
    /\ failed = {}

Caller == SeeExit \/ GiveUp \/ Kill \/ Reap \/ Join

RunNext ==
    \/ \E c \in Calls : ChildCalls(c)
    \/ ChildReads \/ ChildExits
    \/ \E o \in Outputs : ChildWrites(o) \/ HolderWrites(o) \/ Drain(o) \/ DrainFails(o)
    \/ HolderEnds
    \/ WriterStep
    \/ Expire \/ WaitFails \/ KillFails \/ ReapFails \/ Caller

\* The threads run.  Nothing is assumed of the child, nor that the time ever runs out; what
\* fails in the system need not fail.
RunSpec ==
    /\ RunInit /\ [][RunNext]_runVars
    /\ WF_runVars(Caller) /\ WF_runVars(WriterStep) /\ \A o \in Outputs : WF_runVars(Drain(o))

\* The clock also runs.
TimedSpec == RunSpec /\ WF_runVars(Expire)

-----------------------------------------------------------------------------
(* Properties.                                                             *)

\* What run returns holds every chunk that was or ever will be written to an output, unless
\* the system failed a read of it (drain drops the error).
OutputIsWhole == caller = "output" => \A o \in Outputs \ failed : got[o] = wrote[o]

\* run never leaves a child behind, running or unreaped, whichever way it returns, a failing
\* poll and a failing kill included; only a wait that fails can leave one.
NoChildLeft == RunReturned => child = "reaped" \/ "wait" \in failed

\* The child is stuck in a call on a pipe until the caller's side moves.
Stalled ==
    \/ child = "read" /\ pipe["stdin"] = 0 /\ writer = "writing"
    \/ \E o \in Outputs : child = o /\ pipe[o] = Capacity

\* A CLI that writes more than a pipe buffer cannot stall, and one that reads is fed, even
\* if the deadline never comes (every pipe is served by its own thread).
NeverStalls == Stalled ~> ~Stalled

\* One run ends, if the system refuses nothing.
CallEnds == [](failed = {}) => <>RunReturned

\* If the clock runs, the kill does not fail and no other process keeps the pipes for ever,
\* run returns whatever the child does, and every thread ends, those a timeout leaves behind
\* included.
RunEnds ==
    [] ("kill" \notin failed) /\ WF_runVars(Expire) /\ WF_runVars(HolderEnds) =>
        <>(RunReturned /\ writer # "writing" /\ ended = Outputs)

=============================================================================
