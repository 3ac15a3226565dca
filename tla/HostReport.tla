----------------------------- MODULE HostReport -----------------------------
(***************************************************************************)
(* How the host turns the serial events of one image group into a report.  *)
(* Four passes of the code look at the same decoded events and must agree: *)
(*                                                                         *)
(*   - decode_and_verify_stream with StreamState::observe                  *)
(*     (wrela-test-protocol) accepts the stream event by event;            *)
(*   - validate_decoded_group_prefix (wrela-test-runner) compares it with  *)
(*     the planned group;                                                  *)
(*   - collect_cases and summarize (harness.rs) extract the cases and      *)
(*     classify an infrastructure failure;                                 *)
(*   - validate_image_events (wrela-test-model) checks the sealed report   *)
(*     again, with its own state per test.                                 *)
(*                                                                         *)
(* Each pass is a loop over the events that keeps its own state, so the    *)
(* model advances all of them together, one event per step.  Here the      *)
(* events come from any source; module TestRun also feeds those of the     *)
(* guest.                                                                  *)
(***************************************************************************)
EXTENDS TestEvents

CONSTANTS
    MaxPlanned,  \* bound: the most tests of a group
    Counts,      \* the test counts a free line carries
    Ticks,       \* the heartbeat times
    EventLimit   \* group.maximum_events, which is ProtocolLimits.events

ASSUME PlannedAssumption == MaxPlanned \in Nat \ {0} /\ 1..MaxPlanned \subseteq Tests

\* None is none of the values that an optional field may hold.
ASSUME OptionAssumption ==
    /\ Counts \subseteq Nat /\ Ticks \subseteq Nat /\ EventLimit \in Nat
    /\ None \notin Nat
    /\ None \notin Nat \X Nat
    /\ None \notin Outcomes \X {None, DefaultMessage, UserMessage}
    /\ None \notin Tests \X {None, DefaultMessage, UserMessage}
    /\ None \notin {"BootTimeout", "RuntimeTimeout", "Crashed", "ProtocolFailure"}

VARIABLES
    planned,    \* number of tests of the group; their ids are 1..planned
    events,     \* the decoded events (decode_and_verify_stream)
    stream,     \* StreamState
    prefixOk,   \* validate_decoded_group_prefix has not failed
    collected,  \* collect_cases: the outcome of each planned test
    terminal,   \* collect_cases: the counts of RunFinished
    sealing,    \* validate_image_events: EventTestState and its counters
    verdict     \* Undecided, an error, or the sealed result

hostVars == <<planned, events, stream, prefixOk, collected, terminal, sealing, verdict>>

PlannedTests == 1..planned

Undecided == [kind |-> "undecided"]
Failure(why) == [kind |-> "error", why |-> why]
Report(cases, infra) == [kind |-> "report", cases |-> cases, infra |-> infra]

-----------------------------------------------------------------------------
(* StreamState::observe *)

NewStream ==
    [declared |-> None, tests |-> [t \in Tests |-> "Absent"],
     started |-> 0, finished |-> 0, passed |-> 0, failed |-> 0,
     languageFatal |-> FALSE, pending |-> None, lastHeartbeat |-> None,
     terminal |-> FALSE]

RequireActive(s, t) == s.tests[t] = "Active"

\* Mutant: events may follow a language fault.
InOrder_FatalContinues(s, e) ==
    /\ s.declared # None
    /\ ~s.terminal
    /\ s.pending # None =>
          /\ e.kind = "TestFinished"
          /\ e.outcome = "Failed"
          /\ <<e.test, e.message>> = s.pending

\* Mutant: any end of the asserting test is taken.
InOrder_LooseAssertion(s, e) ==
    /\ s.declared # None
    /\ ~s.terminal
    /\ s.languageFatal => e.kind = "RunFinished"
    /\ s.pending # None => e.kind = "TestFinished" /\ e.test = s.pending[1]

\* The checks common to every event but RunStarted.
InOrder(s, e) ==
    /\ s.declared # None
    /\ ~s.terminal
    /\ s.languageFatal => e.kind = "RunFinished"
    /\ s.pending # None =>
          /\ e.kind = "TestFinished"
          /\ e.outcome = "Failed"
          /\ <<e.test, e.message>> = s.pending

\* Mutant: the two totals are exchanged.
RunFinishedFits_Swapped(s, e) ==
    /\ s.started = s.declared
    /\ s.finished = s.declared
    /\ s.passed = e.failed
    /\ s.failed = e.passed

RunFinishedFits(s, e) ==
    /\ s.started = s.declared
    /\ s.finished = s.declared
    /\ s.passed = e.passed
    /\ s.failed = e.failed
    /\ e.passed + e.failed = s.declared

\* observe returns Ok; checked_stream_count is the bound on finished.
Observes(s, e) ==
    \/ /\ e.kind = "RunStarted"
       /\ s.declared = None
       /\ e.seq = 0
       /\ e.count <= EventLimit
    \/ /\ e.kind # "RunStarted"
       /\ InOrder(s, e)
       /\ CASE e.kind = "TestStarted" -> /\ s.started + 1 <= s.declared
                                         /\ s.tests[e.test] = "Absent"
            [] e.kind = "Log" -> e.test # None => RequireActive(s, e.test)
            [] e.kind = "AssertionFailed" -> RequireActive(s, e.test)
            [] e.kind = "TestFinished" -> /\ RequireActive(s, e.test)
                                          /\ s.finished + 1 <= s.declared
            [] e.kind = "Heartbeat" ->
                   s.lastHeartbeat # None => s.lastHeartbeat < e.ticks
            [] e.kind = "RunFinished" -> RunFinishedFits(s, e)

\* Mutant: a start is not counted.
Observed_StartNotCounted(s, e) ==
    CASE e.kind = "RunStarted" -> [s EXCEPT !.declared = e.count]
      [] e.kind = "TestStarted" -> [s EXCEPT !.tests[e.test] = "Active"]
      [] e.kind = "Log" -> s
      [] e.kind = "AssertionFailed" ->
             [s EXCEPT !.pending = <<e.test, TerminalMessage(e.message)>>]
      [] e.kind = "TestFinished" ->
             [s EXCEPT !.tests[e.test] = "Finished",
                       !.finished = @ + 1,
                       !.passed = IF e.outcome = "Passed" THEN @ + 1 ELSE @,
                       !.failed = IF e.outcome = "Passed" THEN @ ELSE @ + 1,
                       !.languageFatal = @ \/ e.outcome = "LanguageFatal",
                       !.pending = None]
      [] e.kind = "Heartbeat" -> [s EXCEPT !.lastHeartbeat = e.ticks]
      [] e.kind = "RunFinished" -> [s EXCEPT !.terminal = TRUE]

\* The state observe leaves behind.
Observed(s, e) ==
    CASE e.kind = "RunStarted" -> [s EXCEPT !.declared = e.count]
      [] e.kind = "TestStarted" -> [s EXCEPT !.started = @ + 1,
                                             !.tests[e.test] = "Active"]
      [] e.kind = "Log" -> s
      [] e.kind = "AssertionFailed" ->
             [s EXCEPT !.pending = <<e.test, TerminalMessage(e.message)>>]
      [] e.kind = "TestFinished" ->
             [s EXCEPT !.tests[e.test] = "Finished",
                       !.finished = @ + 1,
                       !.passed = IF e.outcome = "Passed" THEN @ + 1 ELSE @,
                       !.failed = IF e.outcome = "Passed" THEN @ ELSE @ + 1,
                       !.languageFatal = @ \/ e.outcome = "LanguageFatal",
                       !.pending = None]
      [] e.kind = "Heartbeat" -> [s EXCEPT !.lastHeartbeat = e.ticks]
      [] e.kind = "RunFinished" -> [s EXCEPT !.terminal = TRUE]

\* Mutant: the event limit is one short.
Decodes_EarlyLimit(e) ==
    /\ Len(events) + 1 < EventLimit
    /\ e.seq = Len(events)
    /\ Observes(stream, e)

\* decode_and_verify_stream accepts e as its next event (validate_event too).
Decodes(e) ==
    /\ Len(events) < EventLimit
    /\ e.seq = Len(events)
    /\ e.kind = "RunFinished" => e.passed + e.failed <= EventLimit
    /\ Observes(stream, e)

-----------------------------------------------------------------------------
(* validate_decoded_group_prefix and collect_cases *)

PrefixFits(e) ==
    CASE e.kind = "RunStarted" -> e.count = planned
      [] e.kind \in {"TestStarted", "AssertionFailed", "TestFinished"} ->
             e.test \in PlannedTests
      [] e.kind = "Log" -> e.test \in PlannedTests \union {None}
      [] OTHER -> TRUE

\* The outcome a case is given is the outcome with its message (guest_outcome).
GuestOutcome(e) == <<e.outcome, e.message>>

Collect(e) ==
    IF e.kind = "TestFinished" /\ e.test \in PlannedTests
    THEN [collected EXCEPT ![e.test] = GuestOutcome(e)]
    ELSE collected

\* The tests up to the first unfinished one: the cases of the result.
CompletedPrefix ==
    {t \in PlannedTests : \A u \in 1..t : collected[u] # None}

NonPrefixCompletion ==
    \E t \in PlannedTests \ CompletedPrefix : collected[t] # None

-----------------------------------------------------------------------------
(* validate_image_events *)

NewSealing ==
    [ok |-> TRUE, states |-> [t \in PlannedTests |-> <<"Pending">>],
     active |-> 0, finished |-> 0, terminal |-> None,
     languageFatal |-> FALSE, lastHeartbeat |-> None]

Asserted(g) == {t \in PlannedTests : g.states[t][1] = "Asserted"}

SealInOrder(g, e) ==
    /\ g.languageFatal => e.kind = "RunFinished"
    /\ \A t \in Asserted(g) :
          /\ e.kind = "TestFinished"
          /\ e.test = t
          /\ e.outcome = "Failed"
          /\ e.message = g.states[t][2]

\* e, the event at this index, is valid; an event's test is a planned one.
SealAccepts(g, e, index) ==
    /\ e.seq = index
    /\ SealInOrder(g, e)
    /\ CASE e.kind = "RunStarted" -> index = 0 /\ e.count = planned
         [] e.kind = "TestStarted" -> /\ index # 0
                                      /\ g.terminal = None
                                      /\ g.states[e.test] = <<"Pending">>
         [] e.kind = "Log" -> /\ g.terminal = None
                              /\ IF e.test = None THEN index # 0
                                 ELSE g.states[e.test] = <<"Active">>
         [] e.kind = "AssertionFailed" -> /\ g.terminal = None
                                          /\ g.states[e.test] = <<"Active">>
         [] e.kind = "TestFinished" ->
                /\ g.terminal = None
                /\ \/ g.states[e.test] = <<"Active">>
                   \/ /\ e.outcome = "Failed"
                      /\ g.states[e.test] = <<"Asserted", e.message>>
         [] e.kind = "Heartbeat" -> /\ index # 0
                                    /\ g.terminal = None
                                    /\ g.lastHeartbeat # None =>
                                          g.lastHeartbeat < e.ticks
         [] e.kind = "RunFinished" -> g.terminal = None /\ g.active = 0

Sealed(g, e) ==
    CASE e.kind = "TestStarted" -> [g EXCEPT !.states[e.test] = <<"Active">>,
                                             !.active = @ + 1]
      [] e.kind = "AssertionFailed" ->
             [g EXCEPT !.states[e.test] =
                           <<"Asserted", TerminalMessage(e.message)>>]
      [] e.kind = "TestFinished" ->
             [g EXCEPT !.states[e.test] = <<"Finished", <<e.outcome, e.message>>>>,
                       !.languageFatal = e.outcome = "LanguageFatal",
                       !.active = @ - 1,
                       !.finished = @ + 1]
      [] e.kind = "Heartbeat" -> [g EXCEPT !.lastHeartbeat = e.ticks]
      [] e.kind = "RunFinished" -> [g EXCEPT !.terminal = <<e.passed, e.failed>>]
      [] OTHER -> g

SealNext(g, e, index) ==
    IF g.ok /\ PrefixFits(e) /\ SealAccepts(g, e, index)
    THEN Sealed(g, e)
    ELSE [g EXCEPT !.ok = FALSE]

\* The checks after the loop, against the result being sealed.
SealsResult(g, cases, infra) ==
    /\ events = <<>> => infra # None /\ cases = {}
    /\ g.ok
    /\ g.terminal # None => infra = None /\ events[Len(events)].kind = "RunFinished"
    /\ \A t \in cases : g.states[t] = <<"Finished", collected[t]>>
    /\ IF infra # None
       THEN g.terminal = None /\ g.finished = Cardinality(cases)
       ELSE LET passed == Cardinality({t \in cases : collected[t][1] = "Passed"})
            IN  /\ cases = PlannedTests
                /\ g.terminal = <<passed, planned - passed>>
                /\ g.finished = planned

-----------------------------------------------------------------------------
(* summarize, and the checks of run_all around it *)

Infrastructure(exit, timedOut) ==
    IF timedOut THEN IF events = <<>> THEN "BootTimeout" ELSE "RuntimeTimeout"
    ELSE IF exit # 0 THEN "Crashed"
    ELSE IF terminal = None THEN "ProtocolFailure"
    ELSE None

\* The verdict for output with this exit code; truncated output ends in a
\* frame without its closing END, overran output took longer than the timeout.
Summary(exit, timedOut, truncated, overran) ==
    LET infra == Infrastructure(exit, timedOut)
        cases == CompletedPrefix
    IN  IF overran THEN Failure("timeoutOverrun")
        ELSE IF truncated /\ ~timedOut /\ exit = 0 THEN Failure("truncatedFrame")
        ELSE IF ~prefixOk THEN Failure("unplannedEvent")
        ELSE IF NonPrefixCompletion THEN Failure("nonPrefixCompletion")
        ELSE IF terminal # None /\ (timedOut \/ exit # 0)
             THEN Failure("terminalBeforeFailure")
        ELSE IF ~SealsResult(sealing, cases, infra) THEN Failure("unsealable")
        ELSE Report([t \in cases |-> collected[t]], infra)

\* Mutant: an infrastructure failure is not looked at.
ReportPassed_CasesOnly(v) ==
    /\ v.kind = "report"
    /\ \A t \in DOMAIN v.cases : v.cases[t][1] = "Passed"

\* TestReport::passed, which decides whether the test command succeeds.
ReportPassed(v) ==
    /\ v.kind = "report"
    /\ v.infra = None
    /\ \A t \in DOMAIN v.cases : v.cases[t][1] = "Passed"

-----------------------------------------------------------------------------
HostInit ==
    /\ planned \in 1..MaxPlanned
    /\ events = <<>>
    /\ stream = NewStream
    /\ prefixOk = TRUE
    /\ collected = [t \in PlannedTests |-> None]
    /\ terminal = None
    /\ sealing = NewSealing
    /\ verdict = Undecided

\* The next event of the output is decoded and read by every pass.
HostObserve(e) ==
    /\ verdict = Undecided
    /\ Decodes(e)
    /\ events' = Append(events, e)
    /\ stream' = Observed(stream, e)
    /\ prefixOk' = (prefixOk /\ PrefixFits(e))
    /\ collected' = Collect(e)
    /\ terminal' = IF e.kind = "RunFinished" THEN <<e.passed, e.failed>> ELSE terminal
    /\ sealing' = SealNext(sealing, e, Len(events))
    /\ UNCHANGED <<planned, verdict>>

\* decode_and_verify_stream fails: the run has no report.
HostReject(e) ==
    /\ verdict = Undecided
    /\ ~Decodes(e)
    /\ verdict' = Failure("protocol")
    /\ UNCHANGED <<planned, events, stream, prefixOk, collected, terminal, sealing>>

HostSummarize(exit, timedOut, truncated, overran) ==
    /\ verdict = Undecided
    /\ verdict' = Summary(exit, timedOut, truncated, overran)
    /\ UNCHANGED <<planned, events, stream, prefixOk, collected, terminal, sealing>>

\* is_cancelled is polled in every pass.
HostCancel ==
    /\ verdict = Undecided
    /\ verdict' = Failure("cancelled")
    /\ UNCHANGED <<planned, events, stream, prefixOk, collected, terminal, sealing>>

\* Exit codes: 0, another code, or None for a process ended by a signal.
ExitCodes == {0, 1, None}

\* The passes over output of any origin.
HostNext ==
    \/ \E q \in {Len(events), 0} : \E e \in EventsAt(q, Counts, Ticks) :
          HostObserve(e) \/ HostReject(e)
    \/ \E exit \in ExitCodes, timedOut, truncated, overran \in BOOLEAN :
          HostSummarize(exit, timedOut, truncated, overran)
    \/ HostCancel

-----------------------------------------------------------------------------
(* Properties *)

\* Every pass keeps a state of its type; in particular the counters of
\* StreamState never exceed the declared count.
HostTypeOK ==
    /\ Len(events) <= EventLimit
    /\ stream.finished <= stream.started
    /\ stream.declared # None => stream.started <= stream.declared
    /\ stream.passed + stream.failed = stream.finished
    /\ collected \in [PlannedTests -> {None} \union
                        (Outcomes \X {None, DefaultMessage, UserMessage})]
    /\ sealing.active \in 0..planned
    /\ verdict.kind \in {"undecided", "error", "report"}

\* StreamState::observe accepts exactly the events that keep the stream a
\* prefix of a well-formed run: nothing malformed gets in, nothing well formed
\* is turned away.
StreamExact ==
    \A e \in EventsAt(Len(events), Counts, Ticks) :
        Decodes(e) <=> WellFormed(Append(events, e), EventLimit)

\* The two independent validators agree: what decoding, the group check and
\* summarize let through is never refused when the report is sealed.
SummaryAlwaysSeals ==
    verdict.kind = "error" => verdict.why # "unsealable"

\* A report that counts as passed rests on a complete stream in which every
\* planned test started and finished with Passed before the terminal event.
PassedMeansEveryTestPassed ==
    ReportPassed(verdict) =>
        /\ events # <<>>
        /\ events[Len(events)] = RunFinished(Len(events) - 1, planned, 0)
        /\ \A t \in PlannedTests :
              \E i, j \in DOMAIN events :
                  /\ i < j
                  /\ events[i] = TestStarted(i - 1, t)
                  /\ events[j] = TestFinished(j - 1, t, "Passed", None)

\* The passes of the host fit together, whatever the line carries: their states
\* keep their types, the second validator never refuses what the first let
\* through, and a passing report rests on a complete stream.
HostInv == HostTypeOK /\ SummaryAlwaysSeals /\ PassedMeansEveryTestPassed
=============================================================================
