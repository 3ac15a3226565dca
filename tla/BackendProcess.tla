--------------------------- MODULE BackendProcess ---------------------------
(***************************************************************************)
(* run_backend_process and execute_backend (wrela-compiler,                *)
(* local_build.rs): the private backend runs as a child with three pipes,  *)
(* a writer thread for the request, a bounded reader thread for each       *)
(* output, and a main thread that polls for cancellation, overflow, the    *)
(* timeout and the child's exit, in this order.                            *)
(*                                                                         *)
(* Bytes are counted, not looked at; a pipe holds PipeBytes of them.  The  *)
(* child reads, writes and exits as it likes.  It is alone on its pipes:   *)
(* when it is gone the readers see the end of the stream.                  *)
(***************************************************************************)
EXTENDS Integers

CONSTANTS
    Request,    \* bytes of the request frame
    Limit,      \* Limit[s]: the bytes retained of stream s
    MaxOutput,  \* bound on what the child writes to one stream
    PipeBytes

Streams == {"stdout", "stderr"}

VARIABLES
    child,      \* "running", "success", "failure" or "killed"
    cancelled, expired,
    toWrite,    \* bytes of the request the writer has left
    stdin,      \* bytes in the request pipe
    writer,     \* "writing", "failed" (write_failed is set) or "done"
    out,        \* out[s]: written by the child, in the pipe, read, and the reader's state
    overflow,   \* output_overflow
    main,       \* "poll", "join" (the child exited), "abort" or "returned"
    outcome,    \* what run_backend_process returns
    private     \* the private directory exists

vars == <<child, cancelled, expired, toWrite, stdin, writer, out, overflow, main,
          outcome, private>>

Lesser(a, b) == IF a < b THEN a ELSE b

Init ==
    /\ child = "running"
    /\ cancelled = FALSE
    /\ expired = FALSE
    /\ toWrite = Request
    /\ stdin = 0
    /\ writer = "writing"
    /\ out = [s \in Streams |-> [made |-> 0, pipe |-> 0, total |-> 0, open |-> TRUE]]
    /\ overflow = FALSE
    /\ main = "poll"
    /\ outcome = "None"
    /\ private = TRUE

\* The writer thread.
WriteRequest ==
    /\ writer = "writing"
    /\ IF toWrite = 0
       THEN writer' = "done" /\ UNCHANGED <<toWrite, stdin>>
       ELSE IF child # "running"
       THEN writer' = "failed" /\ UNCHANGED <<toWrite, stdin>>
       ELSE /\ stdin < PipeBytes
            /\ toWrite' = toWrite - 1
            /\ stdin' = stdin + 1
            /\ UNCHANGED writer
    /\ UNCHANGED <<child, cancelled, expired, out, overflow, main, outcome, private>>

\* What read_bounded_pipe keeps of stream s.
Retained(s) == Lesser(out[s].total, Limit[s])

\* Mutant: the stream has overflowed once the buffer is full.
Overflowing_AtLimit(s, total) == total >= Limit[s]

\* read_bounded_pipe: the bytes no longer fit.
Overflowing(s, total) == total > Limit[s]

\* Mutant: only the retained bytes are counted.
Counted_Retained(s, n) == Lesser(out[s].total + n, Limit[s])

\* The bytes read so far, retained or not.
Counted(s, n) == out[s].total + n

\* read_bounded_pipe takes what is there, also beyond the limit.
ReadStream(s) ==
    /\ out[s].open
    /\ out[s].pipe > 0
    /\ \E n \in 1 .. out[s].pipe :
          /\ out' = [out EXCEPT ![s].pipe = @ - n, ![s].total = Counted(s, n)]
          /\ overflow' = (overflow \/ Overflowing(s, Counted(s, n)))
    /\ UNCHANGED <<child, cancelled, expired, toWrite, stdin, writer, main, outcome, private>>

\* read_bounded_pipe sees the end of the stream and returns.
StreamEnds(s) ==
    /\ out[s].open
    /\ out[s].pipe = 0
    /\ child # "running"
    /\ out' = [out EXCEPT ![s].open = FALSE]
    /\ UNCHANGED <<child, cancelled, expired, toWrite, stdin, writer, overflow, main,
                   outcome, private>>

\* Mutant: the readers are not waited for.
Joined_WriterOnly == writer # "writing"

\* The three threads have ended.
Joined == writer # "writing" /\ \A s \in Streams : ~out[s].open

\* Mutant: the child is left to itself when its output overflows.
Killed_Unless(reason) == IF reason = "overflow" THEN child ELSE "killed"

\* kill_and_wait.
Killed(reason) == "killed"

Abort(reason) ==
    /\ child' = IF child = "running" THEN Killed(reason) ELSE child
    /\ main' = "abort"
    /\ outcome' = reason

\* One turn of the main loop.
Poll ==
    /\ main = "poll"
    /\ \/ cancelled /\ Abort("cancelled")
       \/ ~cancelled /\ overflow /\ Abort("overflow")
       \/ ~cancelled /\ ~overflow /\ expired /\ Abort("timeout")
       \/ /\ ~cancelled /\ ~overflow /\ ~expired
          /\ child # "running"
          /\ main' = "join"
          /\ UNCHANGED <<child, outcome>>
    /\ UNCHANGED <<cancelled, expired, toWrite, stdin, writer, out, overflow, private>>

\* Mutant: the flag is looked at in the loop only.
FinalOutcome_NoOverflow == IF writer = "failed" THEN "write failed" ELSE "Ok"

\* What the joined threads left behind.
FinalOutcome ==
    IF writer = "failed" THEN "write failed"
    ELSE IF overflow THEN "overflow"
    ELSE "Ok"

\* The threads are joined and run_backend_process returns.
Join ==
    /\ main \in {"join", "abort"}
    /\ Joined
    /\ main' = "returned"
    /\ outcome' = IF main = "join" THEN FinalOutcome ELSE outcome
    /\ UNCHANGED <<child, cancelled, expired, toWrite, stdin, writer, out, overflow, private>>

\* execute_backend accepts the answer of a successful child that wrote no
\* diagnostics, and every way out drops the PrivateDirectory.
Finish ==
    /\ main = "returned"
    /\ private
    /\ private' = FALSE
    /\ outcome' = IF outcome # "Ok" THEN outcome
                  ELSE IF child # "success" \/ Retained("stderr") # 0 THEN "backend failed"
                  ELSE "accepted"
    /\ UNCHANGED <<child, cancelled, expired, toWrite, stdin, writer, out, overflow, main>>

\* The backend: reads, writes and exits.
ChildReads ==
    /\ child = "running"
    /\ stdin > 0
    /\ stdin' = stdin - 1
    /\ UNCHANGED <<child, cancelled, expired, toWrite, writer, out, overflow, main,
                   outcome, private>>

ChildWrites(s) ==
    /\ child = "running"
    /\ out[s].made < MaxOutput
    /\ out[s].pipe < PipeBytes
    /\ out' = [out EXCEPT ![s].made = @ + 1, ![s].pipe = @ + 1]
    /\ UNCHANGED <<child, cancelled, expired, toWrite, stdin, writer, overflow, main,
                   outcome, private>>

ChildExits ==
    /\ child = "running"
    /\ child' \in {"success", "failure"}
    /\ UNCHANGED <<cancelled, expired, toWrite, stdin, writer, out, overflow, main,
                   outcome, private>>

\* The command is cancelled; fifteen minutes pass.
Cancel ==
    /\ ~cancelled
    /\ cancelled' = TRUE
    /\ UNCHANGED <<child, expired, toWrite, stdin, writer, out, overflow, main, outcome,
                   private>>

Expire ==
    /\ ~expired
    /\ expired' = TRUE
    /\ UNCHANGED <<child, cancelled, toWrite, stdin, writer, out, overflow, main, outcome,
                   private>>

Next ==
    \/ WriteRequest \/ Poll \/ Join \/ Finish
    \/ \E s \in Streams : ReadStream(s) \/ StreamEnds(s) \/ ChildWrites(s)
    \/ ChildReads \/ ChildExits \/ Cancel \/ Expire

Spec == Init /\ [][Next]_vars

---------------------------------------------------------------------------
(* Properties                                                              *)

Outcomes == {"None", "cancelled", "overflow", "timeout", "write failed", "Ok",
             "backend failed", "accepted"}

\* Every variable keeps its type, and bytes are neither lost nor invented.
BackendTypeOK ==
    /\ child \in {"running", "success", "failure", "killed"}
    /\ writer \in {"writing", "failed", "done"}
    /\ main \in {"poll", "join", "abort", "returned"}
    /\ outcome \in Outcomes
    /\ toWrite \in 0 .. Request
    /\ stdin \in 0 .. PipeBytes
    /\ \A s \in Streams :
          /\ out[s].pipe \in 0 .. PipeBytes
          /\ out[s].made = out[s].pipe + out[s].total

\* An answer is used only when every byte the backend wrote was kept, the
\* whole request went out and the backend ended by itself: an overflow that
\* the reader reports after the child has exited is not missed.
AcceptedIsComplete ==
    outcome \in {"Ok", "accepted"} =>
        /\ \A s \in Streams : Retained(s) = out[s].made
        /\ toWrite = 0
        /\ child \in {"success", "failure"}

\* An output of exactly the permitted length is not refused.
OverflowIsReal ==
    overflow => \E s \in Streams : out[s].made > Limit[s]

\* The private directory goes only when the backend and every thread that may
\* use it are gone.
DirectoryOutlivesChild ==
    ~private =>
        /\ child # "running"
        /\ writer # "writing"
        /\ \A s \in Streams : ~out[s].open
=============================================================================
