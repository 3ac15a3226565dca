--------------------------- MODULE ScenarioSession ---------------------------
(***************************************************************************)
(* InteractiveSession and drive_scenario (wrela-test-runner, local.rs):    *)
(* the calling thread walks the steps of a declared scenario while a       *)
(* reader thread hands over the serial output of the running QEMU through  *)
(* a bounded channel and a writer thread feeds its serial input.           *)
(*                                                                         *)
(* Output is a sequence of tokens; an expectation names one.  The budget   *)
(* shared with the stderr reader is the subject of module LocalExecutor,   *)
(* here the reader simply fails after OutputLimit tokens.                  *)
(***************************************************************************)
EXTENDS Naturals, Sequences

CONSTANTS
    Tokens,       \* what the guest may print
    Rejected,     \* the tokens at which the live frame observer fails
    Scenario,     \* <<"send">>, <<"expect", token>>, <<"exit", status or "any">>
    Capacity,     \* STREAM_CHANNEL_CHUNKS
    OutputLimit,  \* maximum_output_bytes
    MaxOutput     \* bound: tokens the guest prints

ASSUME SessionAssumption ==
    /\ Capacity \in Nat \ {0} /\ OutputLimit \in Nat /\ MaxOutput \in Nat
    /\ Rejected \subseteq Tokens
    /\ Scenario \in Seq({<<"send">>} \cup ({"expect"} \X Tokens) \cup
                        ({"exit"} \X {"exited", "failed", "any"}))

VARIABLES
    child,         \* "running", "exited" (code 0), "failed" or "killed"
    written,       \* everything the guest printed
    read,          \* how many tokens the reader has taken from the pipe
    reader,        \* "read", "send" (holds a chunk) or "done" (sender dropped)
    channel,       \* the chunks between reader and session
    exceeded,      \* the shared flag
    stdout,        \* what the session has received
    stdoutClosed,  \* the session saw the channel disconnected
    status,        \* the session saw the child's exit
    floor,         \* observation_floor: where the next match may start
    step,          \* index of the current scenario step
    begun,         \* the current step has been entered
    input,         \* serial input: "idle", "queued", "acknowledged", "failed"
    main,          \* program counter of the calling thread
    timedOut,      \* the session ends because of a timeout
    expired,       \* the global timeout has passed
    result         \* "none", "output" or an error

outputVars == <<child, written, read, reader, channel, exceeded>>
sessionVars == <<stdout, stdoutClosed, status, floor, step, begun>>
vars == <<outputVars, sessionVars, input, main, timedOut, expired, result>>

Init ==
    /\ child = "running" /\ written = <<>> /\ read = 0
    /\ reader = "read" /\ channel = <<>> /\ exceeded = FALSE
    /\ stdout = <<>> /\ stdoutClosed = FALSE /\ status = FALSE
    /\ floor = 0 /\ step = 1 /\ begun = FALSE
    /\ input = "idle" /\ main = "pump" /\ timedOut = FALSE
    /\ expired = FALSE /\ result = "none"

-----------------------------------------------------------------------------
(* The guest, the clock, the reader and the writer thread *)

GuestPrints(t) ==
    /\ child = "running"
    /\ reader # "done"
    /\ Len(written) < MaxOutput
    /\ written' = Append(written, t)
    /\ UNCHANGED <<child, read, reader, channel, exceeded, sessionVars, input,
                   main, timedOut, expired, result>>

GuestExits(code) ==
    /\ child = "running"
    /\ child' = code
    /\ UNCHANGED <<written, read, reader, channel, exceeded, sessionVars, input,
                   main, timedOut, expired, result>>

Expire ==
    /\ ~expired
    /\ expired' = TRUE
    /\ UNCHANGED <<outputVars, sessionVars, input, main, timedOut, result>>

ReaderReads ==
    /\ reader = "read"
    /\ read < Len(written)
    /\ IF read < OutputLimit
       THEN reader' = "send" /\ UNCHANGED exceeded
       ELSE reader' = "done" /\ exceeded' = TRUE
    /\ read' = read + 1
    /\ UNCHANGED <<child, written, channel, sessionVars, input, main, timedOut,
                   expired, result>>

\* Mutant: the channel takes every chunk at once.
ReaderSends_Unbounded ==
    /\ reader = "send"
    /\ channel' = Append(channel, written[read])
    /\ reader' = "read"
    /\ UNCHANGED <<child, written, read, exceeded, sessionVars, input, main,
                   timedOut, expired, result>>

\* The channel is bounded: a full one holds the reader up.
ReaderSends ==
    /\ reader = "send"
    /\ Len(channel) < Capacity
    /\ channel' = Append(channel, written[read])
    /\ reader' = "read"
    /\ UNCHANGED <<child, written, read, exceeded, sessionVars, input, main,
                   timedOut, expired, result>>

ReaderEof ==
    /\ reader = "read"
    /\ child # "running"
    /\ read = Len(written)
    /\ reader' = "done"
    /\ UNCHANGED <<child, written, read, channel, exceeded, sessionVars, input,
                   main, timedOut, expired, result>>

\* The writer thread hands the input over and acknowledges it, or fails when
\* the child is gone; a running guest may leave it blocked for ever.
WriterDelivers ==
    /\ input = "queued"
    /\ child = "running"
    /\ input' = "acknowledged"
    /\ UNCHANGED <<outputVars, sessionVars, main, timedOut, expired, result>>

WriterFails ==
    /\ input = "queued"
    /\ child # "running"
    /\ input' = "failed"
    /\ UNCHANGED <<outputVars, sessionVars, main, timedOut, expired, result>>

-----------------------------------------------------------------------------
(* pump: drain the channel, check the budget, then ask for the exit status *)

Goto(next) == main' = next

\* A received chunk goes to the output and through the frame observer.
Receive ==
    /\ main \in {"pump", "drain"}
    /\ channel # <<>>
    /\ stdout' = Append(stdout, Head(channel))
    /\ channel' = Tail(channel)
    /\ Goto(IF Head(channel) \in Rejected THEN "abortObserver" ELSE main)
    /\ UNCHANGED <<child, written, read, reader, exceeded, stdoutClosed, status,
                   floor, step, begun, input, timedOut, expired, result>>

\* Every pump starts by asking the caller whether to go on.
PumpCancelled ==
    /\ main \in {"pump", "drain"}
    /\ Goto("abortCancelled")
    /\ UNCHANGED <<outputVars, sessionVars, input, timedOut, expired, result>>

PumpEmpty ==
    /\ main = "pump"
    /\ channel = <<>>
    /\ stdoutClosed' = (reader = "done")
    /\ Goto("poll")
    /\ UNCHANGED <<outputVars, stdout, status, floor, step, begun, input,
                   timedOut, expired, result>>

PumpPoll ==
    /\ main = "poll"
    /\ IF exceeded
       THEN Goto("abortOutputLimit") /\ UNCHANGED status
       ELSE Goto("judge") /\ status' = (status \/ child # "running")
    /\ UNCHANGED <<outputVars, stdout, stdoutClosed, floor, step, begun, input,
                   timedOut, expired, result>>

-----------------------------------------------------------------------------
(* The steps of the scenario, judged after each pump *)

Current == IF step <= Len(Scenario) THEN Scenario[step] ELSE <<"finalExit">>

Judging(kind) == main = "judge" /\ Current[1] = kind

JudgeUnchanged ==
    UNCHANGED <<outputVars, stdout, stdoutClosed, status, expired, result>>

BeginStep ==
    /\ main = "judge"
    /\ Current[1] \in {"send", "expect", "exit"}
    /\ ~begun
    /\ IF Current[1] = "send"
       THEN /\ floor' = Len(stdout)
            /\ IF status THEN Goto("abortExited") /\ UNCHANGED <<begun, input>>
               ELSE Goto("pump") /\ begun' = TRUE /\ input' = "queued"
       ELSE Goto("pump") /\ begun' = TRUE /\ UNCHANGED <<floor, input>>
    /\ UNCHANGED <<step, timedOut>>
    /\ JudgeUnchanged

Complete ==
    /\ step' = step + 1
    /\ begun' = FALSE
    /\ Goto("pump")
    /\ UNCHANGED timedOut

KeepWaiting ==
    /\ ~expired
    /\ Goto("pump")
    /\ UNCHANGED <<step, begun, floor, input, timedOut>>

\* The step or the global timeout has passed; steps have timeouts of their own.
TimeOut ==
    /\ timedOut' = TRUE
    /\ Goto("finish")
    /\ UNCHANGED <<step, begun, floor, input>>

Abort(why) ==
    /\ Goto(why)
    /\ UNCHANGED <<step, begun, floor, input, timedOut>>

JudgeSend ==
    /\ Judging("send") /\ begun
    /\ \/ input = "acknowledged" /\ Complete /\ input' = "idle" /\ UNCHANGED floor
       \/ input = "failed" /\ Abort("abortWriteFailed")
       \/ input = "queued" /\ status /\ Abort("abortExited")
       \/ input = "queued" /\ ~status /\ KeepWaiting
       \/ input = "queued" /\ ~status /\ expired /\ TimeOut
    /\ JudgeUnchanged

\* The positions at or after the floor where the expected token was received.
Matches == {i \in (floor + 1)..Len(stdout) : stdout[i] = Current[2]}

FirstMatch == CHOOSE i \in Matches : \A j \in Matches : i <= j

\* Mutant: output before the floor counts as a match.
JudgeExpect_AnyMatch ==
    /\ Judging("expect") /\ begun
    /\ \/ /\ \E i \in 1..Len(stdout) : stdout[i] = Current[2]
          /\ Complete /\ UNCHANGED <<floor, input>>
       \/ Matches = {} /\ status /\ Abort("abortExited")
       \/ Matches = {} /\ ~status /\ (KeepWaiting \/ TimeOut)
    /\ JudgeUnchanged

JudgeExpect ==
    /\ Judging("expect") /\ begun
    /\ \/ Matches # {} /\ Complete /\ floor' = FirstMatch /\ UNCHANGED input
       \/ Matches = {} /\ status /\ Abort("abortExited")
       \/ Matches = {} /\ ~status /\ (KeepWaiting \/ TimeOut)
    /\ JudgeUnchanged

JudgeExit ==
    /\ Judging("exit") /\ begun
    /\ \/ status /\ Current[2] \in {"any", child} /\ Complete /\ UNCHANGED <<floor, input>>
       \/ status /\ Current[2] \notin {"any", child} /\ Abort("abortExitCode")
       \/ ~status /\ (KeepWaiting \/ TimeOut)
    /\ JudgeUnchanged

\* wait_for_final_exit, once every step is complete.
JudgeFinalExit ==
    /\ Judging("finalExit")
    /\ \/ status /\ Goto("finish") /\ UNCHANGED <<step, begun, floor, input, timedOut>>
       \/ ~status /\ KeepWaiting
       \/ ~status /\ expired /\ TimeOut
    /\ JudgeUnchanged

-----------------------------------------------------------------------------
(* finish and abort *)

Terminated == IF child = "running" THEN "killed" ELSE child

\* Mutant: a timed-out child is not terminated.
FinishTerminate_NoWait ==
    /\ main = "finish"
    /\ status' = TRUE
    /\ Goto("drain")
    /\ UNCHANGED <<outputVars, stdout, stdoutClosed, floor, step, begun, input,
                   timedOut, expired, result>>

FinishTerminate ==
    /\ main = "finish"
    /\ child' = IF timedOut /\ ~status THEN Terminated ELSE child
    /\ status' = TRUE
    /\ Goto("drain")
    /\ UNCHANGED <<written, read, reader, channel, exceeded, stdout, stdoutClosed,
                   floor, step, begun, input, timedOut, expired, result>>

\* Mutant: the session does not wait for the reader.
Finish_NoDrain ==
    /\ main = "drain"
    /\ channel = <<>>
    /\ Goto("returned")
    /\ result' = "output"
    /\ UNCHANGED <<outputVars, sessionVars, input, timedOut, expired>>

\* drain_after_exit pumps until the channel is disconnected; then the writer
\* and the readers are joined.
Finish ==
    /\ main = "drain"
    /\ channel = <<>>
    /\ reader = "done"
    /\ input # "queued"
    /\ IF exceeded
       THEN Goto("abortOutputLimit") /\ UNCHANGED result
       ELSE Goto("returned") /\ result' = "output"
    /\ stdoutClosed' = TRUE
    /\ UNCHANGED <<outputVars, stdout, status, floor, step, begun, input,
                   timedOut, expired>>

AbortStates ==
    {"abortOutputLimit", "abortExited", "abortWriteFailed", "abortObserver",
     "abortCancelled", "abortExitCode"}

\* Mutant: abort leaves the child running.
AbortTerminate_NoKill ==
    /\ main \in AbortStates
    /\ ~status
    /\ status' = TRUE
    /\ UNCHANGED <<outputVars, stdout, stdoutClosed, floor, step, begun, input,
                   main, timedOut, expired, result>>

\* abort terminates the child and throws away what the reader still sends.
AbortTerminate ==
    /\ main \in AbortStates
    /\ ~status
    /\ child' = Terminated
    /\ status' = TRUE
    /\ UNCHANGED <<written, read, reader, channel, exceeded, stdout, stdoutClosed,
                   floor, step, begun, input, main, timedOut, expired, result>>

AbortDiscard ==
    /\ main \in AbortStates
    /\ status
    /\ channel # <<>>
    /\ channel' = Tail(channel)
    /\ UNCHANGED <<child, written, read, reader, exceeded, sessionVars, input,
                   main, timedOut, expired, result>>

AbortReturn ==
    /\ main \in AbortStates
    /\ status
    /\ channel = <<>>
    /\ reader = "done"
    /\ input # "queued"
    /\ stdoutClosed' = TRUE
    /\ result' = main
    /\ Goto("returned")
    /\ UNCHANGED <<outputVars, stdout, status, floor, step, begun,
                   input, timedOut, expired>>

-----------------------------------------------------------------------------
ReaderStep == ReaderReads \/ ReaderSends \/ ReaderEof

MainStep ==
    \/ Receive \/ PumpEmpty \/ PumpPoll
    \/ BeginStep \/ JudgeSend \/ JudgeExpect \/ JudgeExit \/ JudgeFinalExit
    \/ FinishTerminate \/ Finish
    \/ AbortTerminate \/ AbortDiscard \/ AbortReturn

Next ==
    \/ \E t \in Tokens : GuestPrints(t)
    \/ \E code \in {"exited", "failed"} : GuestExits(code)
    \/ Expire
    \/ ReaderStep
    \/ WriterDelivers \/ WriterFails
    \/ PumpCancelled
    \/ MainStep

\* Threads are scheduled and time passes; the guest may do nothing at all and
\* may never take its serial input, and the caller need not cancel.
Spec == /\ Init /\ [][Next]_vars
        /\ WF_vars(MainStep) /\ WF_vars(ReaderStep) /\ WF_vars(WriterFails)
        /\ WF_vars(Expire)

-----------------------------------------------------------------------------
(* Properties *)

IsPrefixOf(s, t) == Len(s) <= Len(t) /\ s = SubSeq(t, 1, Len(s))

\* The types; the session holds a prefix of what the guest printed, the
\* channel of spawn_stream_reader never holds more than its capacity, and no
\* step looks for a match beyond the received output.
SessionTypeOK ==
    /\ child \in {"running", "exited", "failed", "killed"}
    /\ IsPrefixOf(stdout, written)
    /\ read \in 0..Len(written)
    /\ reader \in {"read", "send", "done"}
    /\ Len(channel) <= Capacity
    /\ floor \in 0..Len(stdout)
    /\ step \in 1..(Len(Scenario) + 1)
    /\ {begun, exceeded, stdoutClosed, status, timedOut, expired} \subseteq BOOLEAN
    /\ input \in {"idle", "queued", "acknowledged", "failed"}
    /\ result \in {"none", "output"} \cup AbortStates

\* Returned output is everything the guest printed, in order, although the
\* reader may still hold a chunk when the exit is seen.
SessionOutputComplete == result = "output" => stdout = written

\* The steps of the scenario before step n that expect output.
Expectations(n) == {i \in 1..(n - 1) : Scenario[i][1] = "expect"}

\* The expectations before step n were met in their order by the first m tokens.
MetWithin(n, m) ==
    \E at \in [Expectations(n) -> 1..m] :
        /\ \A i \in Expectations(n) : stdout[at[i]] = Scenario[i][2]
        /\ \A i, j \in Expectations(n) : i < j => at[i] < at[j]

\* A session that ends without a timeout or error met its expectations one
\* after the other: each on output after the previous one.
ExpectationsMet ==
    (result = "output" /\ ~timedOut) => MetWithin(Len(Scenario) + 1, Len(stdout))

\* Whichever way the session ends (finish, a timeout, any abort), the child has
\* ended and neither the reader nor the writer thread is left running.
SessionLeavesNothing ==
    result # "none" =>
        child # "running" /\ reader = "done" /\ input # "queued"

\* The three together: what the session holds is what the guest printed, the
\* output it returns is complete, and nothing outlives it.
SessionInv == SessionTypeOK /\ SessionOutputComplete /\ SessionLeavesNothing

\* The session always returns: the reader blocked on a full channel, a guest
\* that never exits or never reads cannot hold it up.
SessionReturns == <>(result # "none")
=============================================================================
