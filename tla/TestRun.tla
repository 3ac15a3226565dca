------------------------------- MODULE TestRun -------------------------------
(***************************************************************************)
(* One full-image test run from end to end: code in the guest calls the    *)
(* runtime (GuestRuntime), which reports over the serial line, QEMU ends   *)
(* or is stopped, and the host (HostReport) turns the output into a        *)
(* report.  The code is the generated harness, or any code at all; or the  *)
(* line itself carries anything.  The frame layer is a channel that        *)
(* delivers complete frames (module FrameChannel, which SlipLink           *)
(* implements).                                                            *)
(***************************************************************************)
EXTENDS GuestRuntime, HostReport

CONSTANT
    Faults   \* the ways a test body may end other than returning

ASSUME FaultsAssumption ==
    Faults \subseteq {"assertion", "shift", "fatal", "hang"}

VARIABLES
    origin,   \* who makes the events: "harness", any "code", or a free "line"
    pc,       \* where the generated harness is
    test,     \* the test it is about to call, calls or has called
    truth,    \* history: how the body of each test really ended
    qemu      \* "running", or how the process ended and its exit code

harnessVars == <<origin, pc, test, truth>>
vars == <<guestVars, hostVars, harnessVars, qemu>>

Running == [state |-> "running", exit |-> None]
Ended(state, exit) == [state |-> state, exit |-> exit]

Init ==
    /\ origin \in {"harness", "code", "line"}
    /\ GuestInit
    /\ HostInit
    /\ pc = "enter"
    /\ test = 1
    /\ truth = [t \in PlannedTests |-> None]
    /\ qemu = Running

GuestAlive == origin # "line" /\ qemu = Running
GuestEnded == origin # "line" /\ qemu # Running

-----------------------------------------------------------------------------
(* The generated harness (encode_generated_harness): RunStarted, then for  *)
(* each test TestStarted, the body and TestFinished(Passed), RunFinished   *)
(* and test_finish(0).  The frames are encoded at compile time with their  *)
(* sequence numbers.                                                       *)

HarnessEvent ==
    CASE pc = "run" -> RunStarted(0, planned)
      [] pc = "start" -> TestStarted(2 * test - 1, test)
      [] pc = "finish" -> TestFinished(2 * test, test, "Passed", None)
      [] pc = "summary" -> RunFinished(2 * planned + 1, planned, 0)

AfterEvent ==
    CASE pc = "run" -> pc' = "start" /\ UNCHANGED test
      [] pc = "start" -> pc' = "body" /\ UNCHANGED test
      [] pc = "finish" -> IF test = planned
                          THEN pc' = "summary" /\ UNCHANGED test
                          ELSE pc' = "start" /\ test' = test + 1
      [] pc = "summary" -> pc' = "exit" /\ UNCHANGED test

HarnessEnter ==
    /\ GuestAlive /\ origin = "harness"
    /\ pc = "enter"
    /\ ImageEnter
    /\ pc' = "run"
    /\ UNCHANGED <<origin, test, truth, qemu, hostVars>>

\* Mutant: a call that failed is made again.
HarnessEmit_Retries ==
    /\ GuestAlive
    /\ pc \in {"run", "start", "finish", "summary"}
    /\ \/ TestEmit(HarnessEvent) /\ AfterEvent
       \/ /\ TestEmitRefused(HarnessEvent) \/ TestEmitTimeout(HarnessEvent)
          /\ UNCHANGED <<pc, test>>
    /\ UNCHANGED <<origin, truth, qemu, hostVars>>

\* A call that does not return EFI_SUCCESS makes the harness return it: the
\* firmware regains control and QEMU keeps running.
HarnessEmit ==
    /\ GuestAlive
    /\ pc \in {"run", "start", "finish", "summary"}
    /\ \/ TestEmit(HarnessEvent) /\ AfterEvent
       \/ /\ TestEmitRefused(HarnessEvent) \/ TestEmitTimeout(HarnessEvent)
          /\ pc' = "returned"
          /\ UNCHANGED test
    /\ UNCHANGED <<origin, truth, qemu, hostVars>>

HarnessFinish ==
    /\ GuestAlive
    /\ pc = "exit"
    /\ TestFinish(0)
    /\ pc' = "returned"
    /\ UNCHANGED <<origin, test, truth, qemu, hostVars>>

-----------------------------------------------------------------------------
(* The body of a test *)

BodyEnds(outcome, next) ==
    /\ GuestAlive
    /\ pc = "body"
    /\ truth' = [truth EXCEPT ![test] = outcome]
    /\ pc' = next
    /\ UNCHANGED <<origin, test, qemu, hostVars>>

BodyReturns ==
    BodyEnds("Passed", "finish") /\ UNCHANGED guestVars

\* Only a selection of exactly one test may contain assertions.
BodyAsserts ==
    /\ "assertion" \in Faults
    /\ planned = 1
    /\ BodyEnds("Failed", "returned")
    /\ \E m \in {None, UserMessage} : TestAssertionFail(m)

BodyShiftFault ==
    /\ "shift" \in Faults
    /\ BodyEnds("LanguageFatal", "returned")
    /\ Fatal(TRUE)

BodyFatal ==
    /\ "fatal" \in Faults
    /\ BodyEnds("Halted", "returned")
    /\ Fatal(FALSE)

BodyHangs ==
    /\ "hang" \in Faults
    /\ BodyEnds("Hung", "returned")
    /\ UNCHANGED guestVars

FailurePath ==
    /\ GuestAlive
    /\ SendFailureFrame \/ SendFailureTimeout
    /\ UNCHANGED <<harnessVars, qemu, hostVars>>

-----------------------------------------------------------------------------
(* QEMU and the local executor *)

\* ResetSystem ends QEMU with exit code 0, for failed runs too.
QemuShutdown ==
    /\ GuestAlive
    /\ runtimeState = "exiting"
    /\ qemu' = Ended("exited", 0)
    /\ UNCHANGED <<guestVars, harnessVars, hostVars>>

ResetFails ==
    /\ GuestAlive
    /\ ResetReturned
    /\ UNCHANGED <<harnessVars, qemu, hostVars>>

\* QEMU dies, or the executor's deadline passes and it kills QEMU; either may
\* fall inside a frame while the runtime is still sending.
QemuStops(ended) ==
    /\ GuestAlive
    /\ qemu' = ended
    /\ partial' \in {partial, partial \/ runtimeState = "entered"}
    /\ UNCHANGED <<runtimeState, lifecycle, sending, status, wire>>
    /\ UNCHANGED <<harnessVars, hostVars>>

QemuCrash == QemuStops(Ended("exited", 1))

ExecutorTimeout == QemuStops(Ended("killed", None))

-----------------------------------------------------------------------------
(* The host reads the output once the process has ended *)

HostDecode ==
    /\ GuestEnded
    /\ Len(events) < Len(wire)
    /\ LET e == wire[Len(events) + 1] IN HostObserve(e) \/ HostReject(e)
    /\ UNCHANGED <<guestVars, harnessVars, qemu>>

\* Mutant: only output that ends in a whole frame is judged.
HostConclude_WholeFrames ==
    /\ GuestEnded
    /\ ~partial
    /\ Len(events) = Len(wire)
    /\ HostSummarize(qemu.exit, qemu.state = "killed", partial, FALSE)
    /\ UNCHANGED <<guestVars, harnessVars, qemu>>

\* A process stopped at its deadline took at least the timeout; run_all
\* refuses output that took longer.
HostConclude ==
    /\ GuestEnded
    /\ Len(events) = Len(wire)
    /\ \E overran \in (IF qemu.state = "killed" THEN BOOLEAN ELSE {FALSE}) :
          HostSummarize(qemu.exit, qemu.state = "killed", partial, overran)
    /\ UNCHANGED <<guestVars, harnessVars, qemu>>

HostIsCancelled ==
    /\ HostCancel
    /\ UNCHANGED <<guestVars, harnessVars, qemu>>

-----------------------------------------------------------------------------
(* The other origins of events *)

\* Code that is not the harness: it may make any call of the runtime.
AnyCode ==
    /\ GuestAlive /\ origin = "code"
    /\ GuestCall
    /\ UNCHANGED <<harnessVars, qemu, hostVars>>

\* A line without a runtime behind it.
AnyLine ==
    /\ origin = "line"
    /\ HostNext
    /\ UNCHANGED <<guestVars, harnessVars, qemu>>

HarnessStep == HarnessEnter \/ HarnessEmit \/ HarnessFinish
BodyStep == BodyReturns \/ BodyAsserts \/ BodyShiftFault \/ BodyFatal \/ BodyHangs
GuestStep == HarnessStep \/ BodyStep \/ FailurePath \/ QemuShutdown \/ ResetFails
HostStep == HostDecode \/ HostConclude

Next ==
    \/ GuestStep
    \/ QemuCrash
    \/ ExecutorTimeout
    \/ HostStep
    \/ HostIsCancelled
    \/ AnyCode
    \/ AnyLine

\* The executor polls its deadline and the host passes are loops, so neither
\* is delayed for ever; nothing is assumed of the guest.
Spec == Init /\ [][Next]_vars /\ WF_vars(ExecutorTimeout) /\ WF_vars(HostStep)

-----------------------------------------------------------------------------
(* Properties *)

\* A report that passes describes a run in which every body returned.
NoFalsePass ==
    (origin = "harness" /\ ReportPassed(verdict)) =>
        \A t \in PlannedTests : truth[t] = "Passed"

\* Every case of a report, with or without an infrastructure failure, is how
\* the test really ended.
CasesAreTrue ==
    (origin = "harness" /\ verdict.kind = "report") =>
        \A t \in DOMAIN verdict.cases : verdict.cases[t][1] = truth[t]

\* A run the guest ended by itself is reported completely: the host accepts
\* its stream and every test has its case, passed or failed.
CompletedRunReported ==
    (qemu.exit = 0 /\ verdict.kind # "undecided") =>
        \/ verdict = Failure("cancelled")
        \/ verdict.kind = "report" /\ verdict.infra = None

\* What was complete on the line when QEMU was stopped is a prefix the host
\* accepts: a crash or a timeout never turns into a protocol error.
PrefixAccepted ==
    verdict.kind = "error" =>
        verdict.why \in {"cancelled", "timeoutOverrun",
                         "terminalBeforeFailure"}

\* A run in which every body returned and the guest shut down is reported as
\* passed: no check of the host is too strict for the generated stream.
PassingRunPasses ==
    /\ qemu.exit = 0
    /\ \A t \in PlannedTests : truth[t] = "Passed"
    /\ verdict \notin {Undecided, Failure("cancelled")}
    => ReportPassed(verdict)

\* The host is never too strict for what the harness and the runtime send: a
\* passing run passes and, for the selection of one test that may fail by an
\* assertion, every end of the guest is reported as what it was.  With more
\* tests a shift fault after the first one sends totals the host refuses.
RunsAreReported ==
    origin = "harness" =>
        /\ PassingRunPasses
        /\ planned = 1 => CompletedRunReported /\ PrefixAccepted

\* Every run of a guest is decided, whatever the guest does.
Decided == (origin # "line") => <>(verdict.kind # "undecided")
=============================================================================
