---------------------------- MODULE GuestRuntime ----------------------------
(***************************************************************************)
(* The test entry points of the target runtime (runtime.S): what a test    *)
(* image may put on the serial line and how it ends.  The caller is        *)
(* generated code; here it may call any entry point with any event, so     *)
(* what holds rests on the checks of the runtime alone.  Module TestRun    *)
(* also puts the generated harness in its place.                           *)
(*                                                                         *)
(* A frame is one step: the bytes are the subject of module SlipLink.  The *)
(* entry points mask interrupts, so a call of test_emit is one step too;   *)
(* the two paths that send several frames take one step per frame, because *)
(* the serial line may stall and the host may stop the guest in between.   *)
(***************************************************************************)
EXTENDS TestEvents

CONSTANTS
    CallCounts,    \* the test counts generated code may report
    EventCapacity  \* ProtocolLimits::standard().events, compiled into runtime.S

ASSUME CapacityAssumption ==
    /\ EventCapacity \in Nat
    /\ CallCounts \subseteq Nat
    /\ None \notin Nat \X {0, 1}

VARIABLES
    runtimeState,     \* .Lruntime_state: "cold", "entered", "exiting", "fatal"
    sequence,         \* .Ltest_sequence
    declared,         \* .Ltest_declared_count
    started,          \* .Ltest_started_count
    completedPassed,  \* .Ltest_completed_passed
    active,           \* .Ltest_active and .Ltest_active_id: the test or None
    testTerminal,     \* .Ltest_terminal with the passed and failed counts
    sending,          \* the frames a failing path has still to send
    status,           \* what the last call returned to the generated code
    wire,             \* the complete frames on the serial line
    partial           \* the line ends in an incomplete frame

guestVars == <<runtimeState, sequence, declared, started, completedPassed,
               active, testTerminal, sending, status, wire, partial>>

\* Everything but the fate of the processor, the call and the line.
lifecycle == <<sequence, declared, started, completedPassed, active, testTerminal>>

GuestInit ==
    /\ runtimeState = "cold"
    /\ sequence = 0
    /\ declared = 0
    /\ started = 0
    /\ completedPassed = 0
    /\ active = None
    /\ testTerminal = None
    /\ sending = <<>>
    /\ status = "ok"
    /\ wire = <<>>
    /\ partial = FALSE

\* Generated code runs: nothing has diverted it into a noreturn path.
Callable == runtimeState \in {"cold", "entered"} /\ sending = <<>>

-----------------------------------------------------------------------------
(* image_enter resets the state once; a second call is refused. *)
ImageEnter ==
    /\ Callable
    /\ IF runtimeState = "cold"
       THEN /\ runtimeState' = "entered"
            /\ sequence' = 0 /\ declared' = 0 /\ started' = 0
            /\ completedPassed' = 0 /\ active' = None /\ testTerminal' = None
            /\ status' = "ok"
       ELSE /\ status' = "refused"
            /\ UNCHANGED <<runtimeState, lifecycle>>
    /\ UNCHANGED <<sending, wire, partial>>

-----------------------------------------------------------------------------
(* test_emit *)

\* Mutant: TestFinished may carry a failing outcome.
EmitChecks_AnyOutcome(e) ==
    CASE e.kind = "RunStarted" -> sequence = 0 /\ active = None /\ e.count # 0
      [] e.kind = "TestStarted" -> active = None /\ started < declared
      [] e.kind = "TestFinished" -> active = e.test
      [] e.kind = "RunFinished" -> /\ active = None
                                   /\ e.failed = 0
                                   /\ e.passed = completedPassed
                                   /\ completedPassed = started
                                   /\ completedPassed = declared
      [] OTHER -> FALSE

\* The lifecycle checks of test_emit: it is the authority for passing runs
\* only, and knows one active test.
EmitChecks(e) ==
    CASE e.kind = "RunStarted" -> sequence = 0 /\ active = None /\ e.count # 0
      [] e.kind = "TestStarted" -> active = None /\ started < declared
      [] e.kind = "TestFinished" -> e.outcome = "Passed" /\ active = e.test
      [] e.kind = "RunFinished" -> /\ active = None
                                   /\ e.failed = 0
                                   /\ e.passed = completedPassed
                                   /\ completedPassed = started
                                   /\ completedPassed = declared
      [] OTHER -> FALSE

\* Mutant: the sequence number is not compared.
EmitAccepts_AnySequence(e) ==
    /\ runtimeState = "entered"
    /\ testTerminal = None
    /\ sequence < EventCapacity
    /\ EmitChecks(e)

\* Mutant: the event limit is not checked.
EmitAccepts_NoLimit(e) ==
    /\ runtimeState = "entered"
    /\ testTerminal = None
    /\ e.seq = sequence
    /\ EmitChecks(e)

EmitAccepts(e) ==
    /\ runtimeState = "entered"
    /\ testTerminal = None
    /\ e.seq = sequence
    /\ sequence < EventCapacity
    /\ EmitChecks(e)

\* The frame went out: the sequence advances and the lifecycle is committed.
EmitCommit(e) ==
    /\ sequence' = sequence + 1
    /\ declared' = IF e.kind = "RunStarted" THEN e.count ELSE declared
    /\ started' = CASE e.kind = "RunStarted" -> 0
                    [] e.kind = "TestStarted" -> started + 1
                    [] OTHER -> started
    /\ completedPassed' = CASE e.kind = "RunStarted" -> 0
                            [] e.kind = "TestFinished" -> completedPassed + 1
                            [] OTHER -> completedPassed
    /\ active' = CASE e.kind = "TestStarted" -> e.test
                   [] e.kind = "TestFinished" -> None
                   [] OTHER -> active
    /\ testTerminal' = IF e.kind = "RunFinished" THEN <<e.passed, e.failed>>
                       ELSE testTerminal

TestEmit(e) ==
    /\ Callable
    /\ EmitAccepts(e)
    /\ EmitCommit(e)
    /\ wire' = Append(wire, e)
    /\ status' = "ok"
    /\ UNCHANGED <<runtimeState, sending, partial>>

TestEmitRefused(e) ==
    /\ Callable
    /\ ~EmitAccepts(e)
    /\ status' = "refused"
    /\ UNCHANGED <<runtimeState, lifecycle, sending, wire, partial>>

\* .Lslip_send gave up waiting for the line inside the frame.
TestEmitTimeout(e) ==
    /\ Callable
    /\ EmitAccepts(e)
    /\ status' = "timeout"
    /\ partial' = TRUE
    /\ UNCHANGED <<runtimeState, lifecycle, sending, wire>>

-----------------------------------------------------------------------------
(* The noreturn paths *)

\* .Lfatal_mark_and_halt: the processor waits for ever.
Halt ==
    /\ runtimeState' = "fatal"
    /\ sending' = <<>>
    /\ UNCHANGED <<lifecycle, status, wire, partial>>

AssertionFrames(m) ==
    <<AssertionFailed(sequence, active, m),
      TestFinished(sequence + 1, active, "Failed", TerminalMessage(m)),
      RunFinished(sequence + 2, completedPassed, 1)>>

AssertionReportable ==
    /\ runtimeState = "entered"
    /\ active # None
    /\ testTerminal = None
    /\ sequence + 2 < EventCapacity
    /\ declared = 1
    /\ started = 1
    /\ completedPassed = 0
    /\ sequence = 2

\* test_assertion_fail with optional message m: reports the failing test, or
\* halts when it cannot complete the report (fatal code 0x504).
TestAssertionFail(m) ==
    /\ Callable
    /\ IF AssertionReportable
       THEN /\ sending' = AssertionFrames(m)
            /\ UNCHANGED <<runtimeState, lifecycle, status, wire, partial>>
       ELSE Halt

\* Mutant: the fault path reports the test as passed.
FatalFrames_Passed ==
    <<TestFinished(sequence, active, "Passed", None),
      RunFinished(sequence + 1, completedPassed + 1, 0)>>

\* Mutant: the fault path reports an assertion failure.
FatalFrames_Failed ==
    <<TestFinished(sequence, active, "Failed", DefaultMessage),
      RunFinished(sequence + 1, 0, 1)>>

FatalFrames ==
    <<TestFinished(sequence, active, "LanguageFatal", None),
      RunFinished(sequence + 1, 0, 1)>>

FatalReportable ==
    /\ runtimeState = "entered"
    /\ active # None
    /\ testTerminal = None
    /\ sequence + 1 < EventCapacity

\* wrela_rt_v2_fatal: a shift fault (codes 5 and 6) of an active test is
\* reported, any other fatal error halts.
Fatal(shiftFault) ==
    /\ Callable
    /\ IF shiftFault /\ FatalReportable
       THEN /\ sending' = FatalFrames
            /\ UNCHANGED <<runtimeState, lifecycle, status, wire, partial>>
       ELSE Halt

\* The next frame of a failing path goes out; the last one commits the
\* terminal state and enters test_finish(1), which exits the image.
SendFailureFrame ==
    /\ sending # <<>>
    /\ wire' = Append(wire, Head(sending))
    /\ sending' = Tail(sending)
    /\ IF Tail(sending) # <<>>
       THEN UNCHANGED <<runtimeState, lifecycle>>
       ELSE /\ sequence' = Head(sending).seq + 1
            /\ active' = None
            /\ testTerminal' = <<Head(sending).passed, 1>>
            /\ runtimeState' = "exiting"
            /\ UNCHANGED <<declared, started, completedPassed>>
    /\ UNCHANGED <<status, partial>>

SendFailureTimeout ==
    /\ sending # <<>>
    /\ runtimeState' = "fatal"
    /\ sending' = <<>>
    /\ partial' = TRUE
    /\ UNCHANGED <<lifecycle, status, wire>>

\* test_finish: the aggregate outcome (0 passed, 1 failed) must agree with the
\* terminal event already sent; image_exit then asks the firmware to reset.
FinishAgrees(outcome) ==
    /\ runtimeState = "entered"
    /\ outcome \in {0, 1}
    /\ testTerminal # None
    /\ (outcome = 0) = (testTerminal[2] = 0)

\* Mutant: the outcome is not compared with the terminal event.
TestFinish_Unchecked(outcome) ==
    /\ Callable
    /\ runtimeState' = "exiting"
    /\ UNCHANGED <<lifecycle, sending, status, wire, partial>>

TestFinish(outcome) ==
    /\ Callable
    /\ IF FinishAgrees(outcome)
       THEN /\ runtimeState' = "exiting"
            /\ UNCHANGED <<lifecycle, sending, status, wire, partial>>
       ELSE Halt

\* ResetSystem returned although it must not: image_exit halts (0x102).
ResetReturned ==
    /\ runtimeState = "exiting"
    /\ Halt

-----------------------------------------------------------------------------
\* Any call with any event; generated code stops at the first call that does
\* not return EFI_SUCCESS.
GuestCall ==
    /\ status = "ok"
    /\ \/ ImageEnter
       \/ \E q \in {sequence, sequence + 1} : \E e \in EventsAt(q, CallCounts, {}) :
             TestEmit(e) \/ TestEmitRefused(e) \/ TestEmitTimeout(e)
       \/ \E m \in {None, UserMessage} : TestAssertionFail(m)
       \/ \E shiftFault \in BOOLEAN : Fatal(shiftFault)
       \/ \E outcome \in 0..2 : TestFinish(outcome)

-----------------------------------------------------------------------------
(* Properties *)

\* The types; .Ltest_sequence never passes the compiled event limit and the
\* terminal state records at most one failure.
GuestTypeOK ==
    /\ runtimeState \in {"cold", "entered", "exiting", "fatal"}
    /\ sequence \in 0..EventCapacity
    /\ declared \in Nat /\ started \in Nat /\ completedPassed \in Nat
    /\ active \in Tests \union {None}
    /\ testTerminal = None \/ testTerminal \in Nat \X {0, 1}
    /\ status \in {"ok", "refused", "timeout"}
    /\ partial \in BOOLEAN

\* The line carries a gap-free numbered stream that fits the event limit: no
\* retry, abandoned failing path or refused call repeats or skips a number.
WireDense ==
    /\ Len(wire) <= EventCapacity
    /\ \A i \in DOMAIN wire : wire[i].seq = i - 1

\* Whatever generated code does, a terminal event that reports success says
\* how many tests the line shows started and passed, no test is left running,
\* and nothing follows it.
SuccessIsEarned ==
    \A i \in DOMAIN wire :
        (IsKind(wire, i, "RunFinished") /\ wire[i].failed = 0) =>
            /\ i = Len(wire)
            /\ Passes(wire) = Ends(wire)
            /\ Cardinality(Starts(wire)) = wire[i].passed
            /\ Cardinality(Passes(wire)) = wire[i].passed

\* A test that ends in failure is announced as the last of its run: only the
\* failing terminal event follows.
FailureIsFinal ==
    \A i \in Ends(wire) \ Passes(wire) :
        \A j \in DOMAIN wire :
            j > i => j = i + 1 /\ IsKind(wire, j, "RunFinished") /\ wire[j].failed = 1

\* The image asks for the reset only after a terminal event is completely on
\* the line, with nothing incomplete behind it.
ExitAfterTerminal ==
    runtimeState = "exiting" =>
        /\ ~partial
        /\ wire # <<>>
        /\ IsKind(wire, Len(wire), "RunFinished")

\* What the checks of the runtime guarantee of its own line, whoever calls it:
\* numbered without gaps, success earned, failure final, reset only after a
\* terminal event.
GuestInv ==
    GuestTypeOK /\ WireDense /\ SuccessIsEarned /\ FailureIsFinal /\ ExitAfterTerminal
=============================================================================
