---------------------------- MODULE LocalExecutor ----------------------------
(***************************************************************************)
(* run_program of the local executor (wrela-test-runner, local.rs): the    *)
(* calling thread polls the QEMU child, two reader threads collect its     *)
(* stdout and stderr, and all three share one byte budget (reserve_output) *)
(* and a flag saying that it was exceeded.  Bytes are counted, not named.  *)
(***************************************************************************)
EXTENDS Naturals

CONSTANTS
    Limit,     \* maximum_output_bytes
    Buffer,    \* the most bytes one read returns
    Timeout,   \* timeout_ns, in ticks
    MaxWritten,  \* bound: bytes the child writes to one stream
    MaxClock     \* bound: ticks the clock runs

ASSUME ExecutorAssumption ==
    /\ Limit \in Nat /\ Buffer \in Nat \ {0}
    /\ Timeout \in Nat /\ MaxWritten \in Nat /\ MaxClock \in Nat

Streams == {"stdout", "stderr"}

VARIABLES
    now,        \* ticks since start (Instant::now)
    child,      \* "running", "exited" or "killed"
    written,    \* bytes the child has written to each stream
    pipe,       \* bytes written and not yet read
    reader,     \* program counter of each reader thread
    chunk,      \* bytes of the read a reader is accounting for
    observed,   \* the value of total a reader last saw
    retained,   \* bytes each reader keeps as output
    total,      \* the shared AtomicU64
    exceeded,   \* the shared AtomicBool
    main,       \* program counter of run_program
    cancelled,  \* the caller has cancelled
    timedOut,   \* the deadline ended the wait
    result      \* what run_program and the duration check of run_all return

childVars == <<child, written>>
readerVars == <<reader, chunk, observed, retained>>
vars == <<now, childVars, pipe, readerVars, total, exceeded, main, cancelled,
          timedOut, result>>

Init ==
    /\ now = 0
    /\ child = "running"
    /\ written = [s \in Streams |-> 0]
    /\ pipe = [s \in Streams |-> 0]
    /\ reader = [s \in Streams |-> "unborn"]
    /\ chunk = [s \in Streams |-> 0]
    /\ observed = [s \in Streams |-> 0]
    /\ retained = [s \in Streams |-> 0]
    /\ total = 0
    /\ exceeded = FALSE
    /\ main = "spawnStdout"
    /\ cancelled = FALSE
    /\ timedOut = FALSE
    /\ result = "none"

-----------------------------------------------------------------------------
(* The child, the clock and the caller *)

\* A stream whose reader has returned is closed: the child cannot write to it.
ChildWrite(s, n) ==
    /\ child = "running"
    /\ reader[s] # "done"
    /\ written[s] + n <= MaxWritten
    /\ written' = [written EXCEPT ![s] = @ + n]
    /\ pipe' = [pipe EXCEPT ![s] = @ + n]
    /\ UNCHANGED <<now, child, readerVars, total, exceeded, main, cancelled,
                   timedOut, result>>

ChildExit ==
    /\ child = "running"
    /\ child' = "exited"
    /\ UNCHANGED <<now, written, pipe, readerVars, total, exceeded, main,
                   cancelled, timedOut, result>>

Tick ==
    /\ now < MaxClock
    /\ now' = now + 1
    /\ UNCHANGED <<childVars, pipe, readerVars, total, exceeded, main,
                   cancelled, timedOut, result>>

Cancel ==
    /\ ~cancelled
    /\ result = "none"
    /\ cancelled' = TRUE
    /\ UNCHANGED <<now, childVars, pipe, readerVars, total, exceeded, main,
                   timedOut, result>>

-----------------------------------------------------------------------------
(* A reader thread: spawn_reader and reserve_output *)

ReaderUnchanged == UNCHANGED <<now, childVars, main, cancelled, timedOut, result>>

\* Mutant: one read takes the whole pipe.
ReaderRead_Everything(s) ==
    /\ reader[s] = "read"
    /\ pipe[s] > 0
    /\ pipe' = [pipe EXCEPT ![s] = 0]
    /\ chunk' = [chunk EXCEPT ![s] = pipe[s]]
    /\ reader' = [reader EXCEPT ![s] = "load"]
    /\ UNCHANGED <<observed, retained, total, exceeded>>
    /\ ReaderUnchanged

ReaderRead(s) ==
    /\ reader[s] = "read"
    /\ \E n \in 1..Buffer :
          /\ n <= pipe[s]
          /\ pipe' = [pipe EXCEPT ![s] = @ - n]
          /\ chunk' = [chunk EXCEPT ![s] = n]
    /\ reader' = [reader EXCEPT ![s] = "load"]
    /\ UNCHANGED <<observed, retained, total, exceeded>>
    /\ ReaderUnchanged

\* read returns 0 when the child is gone and the pipe is drained.
ReaderEof(s) ==
    /\ reader[s] = "read"
    /\ child # "running"
    /\ pipe[s] = 0
    /\ reader' = [reader EXCEPT ![s] = "done"]
    /\ UNCHANGED <<pipe, chunk, observed, retained, total, exceeded>>
    /\ ReaderUnchanged

ReaderLoad(s) ==
    /\ reader[s] = "load"
    /\ observed' = [observed EXCEPT ![s] = total]
    /\ reader' = [reader EXCEPT ![s] = "swap"]
    /\ UNCHANGED <<pipe, chunk, retained, total, exceeded>>
    /\ ReaderUnchanged

OverBudget(s) == observed[s] + chunk[s] > Limit

ReaderOver(s) ==
    /\ reader[s] = "swap"
    /\ OverBudget(s)
    /\ reader' = [reader EXCEPT ![s] = "exceed"]
    /\ UNCHANGED <<pipe, chunk, observed, retained, total, exceeded>>
    /\ ReaderUnchanged

\* Mutant: a store instead of the compare-exchange.
ReaderReserve_Store(s) ==
    /\ reader[s] = "swap"
    /\ ~OverBudget(s)
    /\ total' = observed[s] + chunk[s]
    /\ reader' = [reader EXCEPT ![s] = "append"]
    /\ UNCHANGED <<pipe, chunk, observed, retained, exceeded>>
    /\ ReaderUnchanged

ReaderReserve(s) ==
    /\ reader[s] = "swap"
    /\ ~OverBudget(s)
    /\ total = observed[s]
    /\ total' = observed[s] + chunk[s]
    /\ reader' = [reader EXCEPT ![s] = "append"]
    /\ UNCHANGED <<pipe, chunk, observed, retained, exceeded>>
    /\ ReaderUnchanged

\* compare_exchange_weak fails: another reader got in first, or spuriously.
ReaderRetry(s) ==
    /\ reader[s] = "swap"
    /\ ~OverBudget(s)
    /\ observed' = [observed EXCEPT ![s] = total]
    /\ UNCHANGED <<reader, pipe, chunk, retained, total, exceeded>>
    /\ ReaderUnchanged

ReaderExceed(s) ==
    /\ reader[s] = "exceed"
    /\ exceeded' = TRUE
    /\ reader' = [reader EXCEPT ![s] = "done"]
    /\ UNCHANGED <<pipe, chunk, observed, retained, total>>
    /\ ReaderUnchanged

ReaderAppend(s) ==
    /\ reader[s] = "append"
    /\ retained' = [retained EXCEPT ![s] = @ + chunk[s]]
    /\ chunk' = [chunk EXCEPT ![s] = 0]
    /\ reader' = [reader EXCEPT ![s] = "read"]
    /\ UNCHANGED <<pipe, observed, total, exceeded>>
    /\ ReaderUnchanged

ReaderStep(s) ==
    \/ ReaderRead(s) \/ ReaderEof(s) \/ ReaderLoad(s) \/ ReaderOver(s)
    \/ ReaderReserve(s) \/ ReaderExceed(s) \/ ReaderAppend(s)

-----------------------------------------------------------------------------
(* run_program *)

MainUnchanged ==
    UNCHANGED <<now, written, pipe, chunk, observed, retained, total, exceeded,
                cancelled>>

Continue(at, next) ==
    /\ main = at
    /\ main' = next
    /\ MainUnchanged
    /\ UNCHANGED <<child, reader, timedOut, result>>

\* terminate: a child that has already ended keeps its status.
Terminated == IF child = "running" THEN "killed" ELSE child

SpawnReader(at, s, next) ==
    /\ main = at
    /\ reader' = [reader EXCEPT ![s] = "read"]
    /\ main' = next
    /\ MainUnchanged
    /\ UNCHANGED <<child, timedOut, result>>

\* The thread cannot be created: the child is terminated, a reader that
\* already runs is joined and the error returned.
SpawnFails(at) ==
    /\ main = at
    /\ child' = Terminated
    /\ main' = "abortSpawn"
    /\ MainUnchanged
    /\ UNCHANGED <<reader, timedOut, result>>

MainStart ==
    \/ SpawnReader("spawnStdout", "stdout", "spawnStderr")
    \/ SpawnReader("spawnStderr", "stderr", "cancel")
    \/ SpawnFails("spawnStdout")
    \/ SpawnFails("spawnStderr")

\* Mutant: the child is not terminated.
AbortWith_NoKill(next) ==
    /\ main' = next
    /\ MainUnchanged
    /\ UNCHANGED <<child, reader, timedOut, result>>

\* Cancellation and an exceeded budget terminate the child, then both readers
\* are joined.
AbortWith(next) ==
    /\ child' = Terminated
    /\ main' = next
    /\ MainUnchanged
    /\ UNCHANGED <<reader, timedOut, result>>

MainCancel ==
    \/ main = "cancel" /\ cancelled /\ AbortWith("abortCancelled")
    \/ ~cancelled /\ Continue("cancel", "limit")

MainLimit ==
    \/ main = "limit" /\ exceeded /\ AbortWith("abortLimit")
    \/ ~exceeded /\ Continue("limit", "wait")

MainTryWait ==
    \/ child # "running" /\ Continue("wait", "join")
    \/ child = "running" /\ Continue("wait", "deadline")

MainDeadline ==
    \/ /\ main = "deadline"
       /\ now >= Timeout
       /\ child' = Terminated
       /\ timedOut' = TRUE
       /\ main' = "join"
       /\ MainUnchanged
       /\ UNCHANGED <<reader, result>>
    \/ now < Timeout /\ Continue("deadline", "cancel")

ReadersJoined == \A s \in Streams : reader[s] \in {"unborn", "done"}

Return(at, value) ==
    /\ main = at
    /\ ReadersJoined
    /\ main' = "returned"
    /\ result' = value
    /\ MainUnchanged
    /\ UNCHANGED <<child, reader, timedOut>>

\* Mutant: the flag is not read again after the join.
MainReturn_NoRecheck ==
    \/ Return("abortSpawn", "spawn error")
    \/ Return("abortCancelled", "cancelled")
    \/ Return("abortLimit", "output limit")
    \/ Return("join", IF now > Timeout THEN "timeout overrun" ELSE "output")

\* After the join the flag is read once more; run_all then refuses output
\* whose duration exceeds the timeout.
MainReturn ==
    \/ Return("abortSpawn", "spawn error")
    \/ Return("abortCancelled", "cancelled")
    \/ Return("abortLimit", "output limit")
    \/ Return("join", IF exceeded THEN "output limit"
                      ELSE IF now > Timeout THEN "timeout overrun"
                      ELSE "output")

MainStep ==
    MainStart \/ MainCancel \/ MainLimit \/ MainTryWait \/ MainDeadline \/ MainReturn

Next ==
    \/ \E s \in Streams, n \in 1..Buffer : ChildWrite(s, n)
    \/ ChildExit
    \/ Tick
    \/ Cancel
    \/ \E s \in Streams : ReaderStep(s) \/ ReaderRetry(s)
    \/ MainStep

\* Threads are scheduled and time passes; a swap that keeps being possible
\* succeeds in the end.  Nothing is assumed of the child or the caller.
Fairness ==
    /\ WF_vars(Tick)
    /\ WF_vars(MainStep)
    /\ \A s \in Streams :
          /\ WF_vars(ReaderStep(s))
          /\ WF_vars(ReaderRetry(s))
          /\ SF_vars(ReaderReserve(s))

Spec == Init /\ [][Next]_vars /\ Fairness

-----------------------------------------------------------------------------
(* Properties *)

ReaderStates == {"unborn", "read", "load", "swap", "append", "exceed", "done"}

MainStates ==
    {"spawnStdout", "spawnStderr", "cancel", "limit", "wait", "deadline", "join",
     "abortSpawn", "abortCancelled", "abortLimit", "returned"}

Results ==
    {"none", "output", "output limit", "timeout overrun", "cancelled", "spawn error"}

\* The types; a read of spawn_reader never takes more than its buffer.
ExecutorTypeOK ==
    /\ now \in Nat
    /\ child \in {"running", "exited", "killed"}
    /\ written \in [Streams -> Nat]
    /\ pipe \in [Streams -> Nat]
    /\ reader \in [Streams -> ReaderStates]
    /\ chunk \in [Streams -> 0..Buffer]
    /\ observed \in [Streams -> Nat]
    /\ retained \in [Streams -> Nat]
    /\ total \in Nat
    /\ exceeded \in BOOLEAN
    /\ main \in MainStates
    /\ cancelled \in BOOLEAN
    /\ timedOut \in BOOLEAN
    /\ result \in Results

\* Bytes a reader has reserved and not yet kept.
Reserved(s) == IF reader[s] = "append" THEN chunk[s] ELSE 0

\* Both readers together never keep more than the budget, however their
\* reservations interleave: every kept byte was reserved exactly once.
BudgetKept ==
    /\ retained["stdout"] + Reserved("stdout")
         + retained["stderr"] + Reserved("stderr") = total
    /\ total <= Limit

\* Output that is returned is everything the child wrote: an exceeded budget
\* is never missed, whatever the order of the last reads and the exit.
OutputComplete ==
    result = "output" => \A s \in Streams : retained[s] = written[s]

\* run_program returns only when the child has ended and no reader is left.
NothingLeftBehind ==
    result # "none" =>
        /\ child # "running"
        /\ \A s \in Streams : reader[s] \in {"unborn", "done"}

-----------------------------------------------------------------------------
(* The inductive invariant: what each reader has accounted for, and what   *)
(* the position of run_program says about the readers and the child.       *)

\* Every byte written is kept, held as a chunk or still in the pipe; a reader
\* that is done has kept everything, or the budget is exceeded.
ReaderFlow ==
    \A s \in Streams :
        /\ reader[s] \in {"unborn", "read"} => chunk[s] = 0
        /\ reader[s] # "done" => written[s] = retained[s] + chunk[s] + pipe[s]
        /\ reader[s] = "done" => exceeded \/ written[s] = retained[s]

Ending == {"join", "abortSpawn", "abortCancelled", "abortLimit", "returned"}

CallFlow ==
    /\ main = "spawnStdout" => reader["stdout"] = "unborn"
    /\ main \in {"spawnStdout", "spawnStderr"} => reader["stderr"] = "unborn"
    /\ main \notin {"spawnStdout", "abortSpawn", "returned"} =>
          reader["stdout"] # "unborn"
    /\ main \notin {"spawnStdout", "spawnStderr", "abortSpawn", "returned"} =>
          reader["stderr"] # "unborn"
    /\ main \in Ending => child # "running"
    /\ main # "returned" => result = "none"
    /\ main = "returned" => ReadersJoined
    /\ result = "output" => ~exceeded /\ \A s \in Streams : reader[s] = "done"

\* The type, the budget and the two flows together are inductive: spawn_reader,
\* reserve_output and run_program each preserve all of them.
ExecutorInv == ExecutorTypeOK /\ BudgetKept /\ ReaderFlow /\ CallFlow
=============================================================================
