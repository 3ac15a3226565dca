---------------------------- MODULE TestRunProofs ----------------------------
(***************************************************************************)
(* Proofs about a test run from end to end, for any number of tests and    *)
(* any event limit: what the runtime lets onto the line, whoever calls it  *)
(* (GuestInv), that a report tells how the tests really ended              *)
(* (CasesAreTrue, NoFalsePass), that the host's decoder accepts exactly    *)
(* the well-formed streams (StreamExact), that its passes agree about      *)
(* whatever the line carries (HostInv) and that the host is not too strict *)
(* for the generated harness (RunsAreReported).                            *)
(***************************************************************************)
EXTENDS TestRun, FiniteSetTheorems, SequenceTheorems, TLAPS

-----------------------------------------------------------------------------
(* Events and the positions of a stream.                                   *)

Messages == {None, DefaultMessage, UserMessage}

Event ==
    [seq : Nat, kind : {"RunStarted"}, count : Nat]
    \cup [seq : Nat, kind : {"TestStarted"}, test : Tests]
    \cup [seq : Nat, kind : {"Log"}, test : Tests \cup {None}]
    \cup [seq : Nat, kind : {"AssertionFailed"}, test : Tests, message : Messages]
    \cup [seq : Nat, kind : {"TestFinished"}, test : Tests, outcome : {"Failed"},
          message : Messages]
    \cup [seq : Nat, kind : {"TestFinished"}, test : Tests, outcome : Outcomes \ {"Failed"},
          message : {None}]
    \cup [seq : Nat, kind : {"RunFinished"}, passed : Nat, failed : Nat]

\* The fields of the events that the runtime and the harness send.
LEMMA EventFields ==
    ASSUME NEW e \in Event
    PROVE  /\ e.seq \in Nat
           /\ e.kind \in {"RunStarted", "TestStarted", "Log", "AssertionFailed",
                          "TestFinished", "RunFinished"}
           /\ e.kind = "RunStarted" => e.count \in Nat
           /\ e.kind = "TestStarted" => e.test \in Tests
           /\ e.kind = "TestFinished" => e.test \in Tests /\ e.outcome \in Outcomes
           /\ e.kind = "RunFinished" => e.passed \in Nat /\ e.failed \in Nat
BY DEF Event, Outcomes

\* The events that generated code may hand to test_emit.
LEMMA CallEvents ==
    ASSUME NEW q \in Nat, NEW e \in EventsAt(q, CallCounts, {})
    PROVE  e \in Event
BY CapacityAssumption DEF EventsAt, Event, RunStarted, TestStarted, Log, Heartbeat,
   AssertionFailed, TestFinished, RunFinished, Messages, Outcomes

\* A frame more on the line.
LEMMA LineGrows ==
    ASSUME NEW S, NEW s \in Seq(S), NEW e \in S
    PROVE  /\ Append(s, e) \in Seq(S)
           /\ Len(Append(s, e)) = Len(s) + 1
           /\ DOMAIN Append(s, e) = 1 .. (Len(s) + 1) /\ DOMAIN s = 1 .. Len(s)
           /\ Len(s) \in Nat
           /\ \A i \in 1 .. Len(s) : Append(s, e)[i] = s[i]
           /\ Append(s, e)[Len(s) + 1] = e
OBVIOUS

\* ... and the positions at which tests start, end and pass.
LEMMA MarksGrow ==
    ASSUME NEW S, NEW s \in Seq(S), NEW e \in S
    PROVE  LET n == Len(s) + 1
               l == Append(s, e)
           IN  /\ Starts(l) = IF e.kind = "TestStarted" THEN Starts(s) \cup {n} ELSE Starts(s)
               /\ Ends(l) = IF e.kind = "TestFinished" THEN Ends(s) \cup {n} ELSE Ends(s)
               /\ Passes(l) = IF e.kind = "TestFinished" /\ e.outcome = "Passed"
                              THEN Passes(s) \cup {n} ELSE Passes(s)
               /\ n \notin Starts(s) \cup Ends(s) \cup Passes(s)
<1> DEFINE n == Len(s) + 1
           l == Append(s, e)
<1>1. /\ DOMAIN l = DOMAIN s \cup {n} /\ n \notin DOMAIN s
      /\ l[n] = e /\ \A i \in DOMAIN s : l[i] = s[i]
  BY LineGrows
<1> HIDE DEF n, l
<1>2. Starts(l) = IF e.kind = "TestStarted" THEN Starts(s) \cup {n} ELSE Starts(s)
  BY <1>1 DEF Starts, IsKind
<1>3. Ends(l) = IF e.kind = "TestFinished" THEN Ends(s) \cup {n} ELSE Ends(s)
  BY <1>1 DEF Ends, IsKind
<1>4. Passes(l) = IF e.kind = "TestFinished" /\ e.outcome = "Passed"
                  THEN Passes(s) \cup {n} ELSE Passes(s)
  BY <1>1, <1>3 DEF Passes, Ends
<1>5. n \notin Starts(s) \cup Ends(s) \cup Passes(s)
  BY <1>1 DEF Starts, Ends, Passes
<1> QED
  BY <1>2, <1>3, <1>4, <1>5 DEF n, l

\* The number of tests that start, end and pass.
LEMMA MarksFinite ==
    ASSUME NEW S, NEW s \in Seq(S)
    PROVE  /\ IsFiniteSet(Starts(s)) /\ IsFiniteSet(Passes(s)) /\ IsFiniteSet(Ends(s))
           /\ Cardinality(Starts(s)) \in Nat /\ Cardinality(Passes(s)) \in Nat
           /\ Cardinality(Ends(s)) \in Nat
<1>1. IsFiniteSet(1 .. Len(s)) /\ DOMAIN s = 1 .. Len(s)
  BY FS_Interval
<1>2. /\ Starts(s) \subseteq 1 .. Len(s) /\ Passes(s) \subseteq 1 .. Len(s)
      /\ Ends(s) \subseteq 1 .. Len(s)
  BY <1>1 DEF Starts, Passes, Ends
<1>3. IsFiniteSet(Starts(s)) /\ IsFiniteSet(Passes(s)) /\ IsFiniteSet(Ends(s))
  BY <1>1, <1>2, FS_Subset
<1> QED
  BY <1>3, FS_CardinalityType

LEMMA MarksCount ==
    ASSUME NEW S, NEW s \in Seq(S), NEW e \in S
    PROVE  LET l == Append(s, e) IN
           /\ Cardinality(Starts(l)) =
                 IF e.kind = "TestStarted" THEN Cardinality(Starts(s)) + 1
                 ELSE Cardinality(Starts(s))
           /\ Cardinality(Passes(l)) =
                 IF e.kind = "TestFinished" /\ e.outcome = "Passed"
                 THEN Cardinality(Passes(s)) + 1 ELSE Cardinality(Passes(s))
           /\ Cardinality(Ends(l)) =
                 IF e.kind = "TestFinished" THEN Cardinality(Ends(s)) + 1
                 ELSE Cardinality(Ends(s))
<1>1. IsFiniteSet(Starts(s)) /\ IsFiniteSet(Passes(s)) /\ IsFiniteSet(Ends(s))
  BY MarksFinite
<1>2. Len(s) + 1 \notin Starts(s) /\ Len(s) + 1 \notin Passes(s) /\ Len(s) + 1 \notin Ends(s)
  BY MarksGrow
<1>3. /\ Cardinality(Starts(s) \cup {Len(s) + 1}) = Cardinality(Starts(s)) + 1
      /\ Cardinality(Ends(s) \cup {Len(s) + 1}) = Cardinality(Ends(s)) + 1
      /\ Cardinality(Passes(s) \cup {Len(s) + 1}) = Cardinality(Passes(s)) + 1
  BY <1>1, <1>2, FS_AddElement
<1>4. Cardinality(Starts(Append(s, e))) =
        IF e.kind = "TestStarted" THEN Cardinality(Starts(s)) + 1 ELSE Cardinality(Starts(s))
  BY <1>3, MarksGrow
<1>5. Cardinality(Passes(Append(s, e))) =
        IF e.kind = "TestFinished" /\ e.outcome = "Passed"
        THEN Cardinality(Passes(s)) + 1 ELSE Cardinality(Passes(s))
  BY <1>3, MarksGrow
<1>6. Cardinality(Ends(Append(s, e))) =
        IF e.kind = "TestFinished" THEN Cardinality(Ends(s)) + 1 ELSE Cardinality(Ends(s))
  BY <1>3, MarksGrow
<1> QED
  BY <1>4, <1>5, <1>6

-----------------------------------------------------------------------------
(* The runtime.                                                            *)

\* No test on the line has failed.
NoneFailed == Ends(wire) = Passes(wire)

\* No terminal event is on the line.
NoTerminal == \A i \in DOMAIN wire : wire[i].kind # "RunFinished"

GuestTypes ==
    /\ runtimeState \in {"cold", "entered", "exiting", "fatal"}
    /\ sequence \in Nat /\ declared \in Nat /\ started \in Nat /\ completedPassed \in Nat
    /\ active \in Tests \cup {None}
    /\ testTerminal = None \/ testTerminal \in Nat \X {0, 1}
    /\ status \in {"ok", "refused", "timeout"}
    /\ wire \in Seq(Event) /\ sending \in Seq(Event)
    /\ partial \in BOOLEAN

\* The line is numbered without gaps and goes on with what is to be sent.
Numbered ==
    /\ \A i \in DOMAIN wire : wire[i].seq = i - 1
    /\ \A i \in DOMAIN sending : sending[i].seq = Len(wire) + i - 1
    /\ Len(wire) + Len(sending) <= EventCapacity
    /\ sequence <= EventCapacity

\* What a failing path has still to send: the failed end of the test, preceded
\* by its assertion, and the failing terminal event.
FailingPath ==
    sending # <<>> =>
        /\ runtimeState = "entered" /\ testTerminal = None /\ NoTerminal
        /\ Len(sending) \in 1 .. 3
        /\ sending[Len(sending)].kind = "RunFinished"
        /\ sending[Len(sending)].failed = 1
        /\ Len(sending) = 2 => /\ sending[1].kind = "TestFinished"
                               /\ sending[1].outcome # "Passed"
        /\ Len(sending) = 3 => /\ sending[1].kind = "AssertionFailed"
                               /\ sending[2].kind = "TestFinished"
                               /\ sending[2].outcome # "Passed"
        /\ Len(sending) # 1 => NoneFailed

\* While generated code runs, the counters of the runtime are those of the line.
Counted ==
    (runtimeState = "entered" /\ sending = <<>>) =>
        /\ Len(wire) = sequence
        /\ NoneFailed
        /\ Cardinality(Starts(wire)) = started
        /\ Cardinality(Passes(wire)) = completedPassed
        /\ testTerminal = None => NoTerminal
        /\ testTerminal # None => wire # <<>> /\ wire[Len(wire)].kind = "RunFinished"

\* Before image_enter nothing is on the line; a reset follows a terminal event.
EntryAndExit ==
    /\ runtimeState = "cold" => wire = <<>>
    /\ runtimeState # "entered" => sending = <<>>
    /\ runtimeState = "exiting" =>
          ~partial /\ wire # <<>> /\ wire[Len(wire)].kind = "RunFinished"

\* A failed test is followed by nothing but the failing terminal event.
FailedLast ==
    \A i \in Ends(wire) \ Passes(wire) :
        \/ i = Len(wire)
        \/ /\ i + 1 = Len(wire)
           /\ wire[Len(wire)].kind = "RunFinished" /\ wire[Len(wire)].failed = 1
           /\ runtimeState \in {"exiting", "fatal"}

\* A frame was cut off only when the caller has stopped, or the processor has.
CutOff ==
    (GuestAlive /\ partial) =>
        /\ sending = <<>>
        /\ \/ runtimeState = "fatal"
           \/ /\ runtimeState = "entered"
              /\ origin = "harness" => pc = "returned"
              /\ origin = "code" => status # "ok"

LineFlow ==
    /\ GuestTypes /\ Numbered /\ FailingPath /\ Counted /\ EntryAndExit
    /\ SuccessIsEarned /\ FailedLast

GuestFlow == LineFlow /\ CutOff

-----------------------------------------------------------------------------
(* The harness and the report.                                             *)

\* The frames that end a test say how it ended.
FramesTrue(s) ==
    \A i \in DOMAIN s : s[i].kind = "TestFinished" =>
        s[i].test \in PlannedTests /\ truth[s[i].test] = s[i].outcome

\* The harness calls the tests in their order, reports one as passed when its
\* body has returned, and the runtime knows which test the body belongs to.
HarnessTrue ==
    origin = "harness" =>
        /\ test \in PlannedTests /\ truth \in [PlannedTests -> Outcomes \cup
                                                  {None, "Halted", "Hung"}]
        /\ pc \in {"enter", "run", "start", "body"} =>
              \A t \in PlannedTests : t >= test => truth[t] = None
        /\ pc = "finish" =>
              /\ truth[test] = "Passed"
              /\ \A t \in PlannedTests : t > test => truth[t] = None
        /\ pc = "body" => active = test
        /\ sending # <<>> => pc = "returned"
        /\ FramesTrue(wire) /\ FramesTrue(sending)

\* What the host has collected, and what a report says, is how a test ended.
ReportTrue ==
    origin = "harness" =>
        /\ events \in Seq(Event) /\ DOMAIN collected = PlannedTests
        /\ \A t \in PlannedTests : collected[t] # None =>
              truth[t] \in Outcomes /\ collected[t][1] = truth[t]
        /\ verdict.kind = "report" =>
              /\ DOMAIN verdict.cases \subseteq PlannedTests
              /\ \A t \in DOMAIN verdict.cases :
                    collected[t] # None /\ verdict.cases[t] = collected[t]
              /\ verdict.infra = None => DOMAIN verdict.cases = PlannedTests

TruthFlow ==
    /\ planned \in 1 .. MaxPlanned
    /\ origin # "harness" => pc = "enter"
    /\ HarnessTrue
    /\ ReportTrue

RunFlow == GuestFlow /\ TruthFlow

-----------------------------------------------------------------------------
(* What one call of the runtime does to the line.                          *)

\* A step that leaves line and counters alone.
LEMMA LineKept ==
    ASSUME LineFlow, UNCHANGED <<lifecycle, sending, wire>>,
           runtimeState' = runtimeState \/
              (runtimeState' = "fatal" /\ sending = <<>>),
           status' \in {"ok", "refused", "timeout"}, partial' \in BOOLEAN,
           partial' = partial \/ runtimeState = "entered"
    PROVE  LineFlow'
<1> USE DEF LineFlow, lifecycle
<1>1. GuestTypes' /\ Numbered'
  BY DEF GuestTypes, Numbered
<1>2. FailingPath' /\ Counted'
  BY DEF FailingPath, Counted, NoTerminal, NoneFailed
<1>3. EntryAndExit'
  BY DEF EntryAndExit
<1>4. SuccessIsEarned' /\ FailedLast'
  BY DEF SuccessIsEarned, FailedLast
<1> QED
  BY <1>1, <1>2, <1>3, <1>4

\* image_enter.
LEMMA ImageEnterKeeps ==
    ASSUME LineFlow, ImageEnter
    PROVE  LineFlow'
<1>1. CASE runtimeState = "cold"
  <2>1. /\ wire = <<>> /\ wire' = <<>> /\ sending' = <<>> /\ runtimeState' = "entered"
        /\ sequence' = 0 /\ declared' = 0 /\ started' = 0 /\ completedPassed' = 0
        /\ active' = None /\ testTerminal' = None /\ status' = "ok" /\ partial' = partial
        /\ sending = <<>>
    BY <1>1 DEF ImageEnter, Callable, LineFlow, EntryAndExit
  <2>2. Starts(wire') = {} /\ Ends(wire') = {} /\ Passes(wire') = {} /\ DOMAIN wire' = {}
    BY <2>1 DEF Starts, Ends, Passes
  <2>3. Cardinality({}) = 0
    BY FS_EmptySet
  <2>4. GuestTypes' /\ Numbered'
    BY <2>1, CapacityAssumption DEF LineFlow, GuestTypes, Numbered
  <2>5. FailingPath' /\ Counted' /\ EntryAndExit' /\ SuccessIsEarned' /\ FailedLast'
    BY <2>1, <2>2, <2>3 DEF FailingPath, Counted, EntryAndExit, SuccessIsEarned, FailedLast,
       NoneFailed, NoTerminal
  <2> QED
    BY <2>4, <2>5 DEF LineFlow
<1>2. CASE runtimeState # "cold"
  BY <1>2, LineKept DEF ImageEnter, LineFlow, GuestTypes
<1> QED
  BY <1>1, <1>2

\* test_emit refuses an event, or the line stalls inside its frame.
LEMMA EmitFailsKeeps ==
    ASSUME LineFlow, NEW e, TestEmitRefused(e) \/ TestEmitTimeout(e)
    PROVE  LineFlow'
BY LineKept DEF TestEmitRefused, TestEmitTimeout, EmitAccepts, LineFlow, GuestTypes

\* test_emit sends an event.
LEMMA TestEmitKeeps ==
    ASSUME LineFlow, NEW e \in Event, TestEmit(e)
    PROVE  LineFlow'
<1> DEFINE n == Len(wire) + 1
<1>0. /\ GuestTypes /\ Counted /\ Numbered /\ wire \in Seq(Event) /\ Len(wire) \in Nat
      /\ DOMAIN wire = 1 .. Len(wire)
  BY DEF LineFlow, GuestTypes
<1>1. /\ runtimeState = "entered" /\ sending = <<>> /\ testTerminal = None
      /\ e.seq = sequence /\ sequence < EventCapacity /\ EmitChecks(e) /\ EmitCommit(e)
      /\ wire' = Append(wire, e) /\ status' = "ok"
      /\ UNCHANGED <<runtimeState, sending, partial>>
  BY DEF TestEmit, Callable, EmitAccepts
<1>2. /\ Len(wire) = sequence /\ NoneFailed /\ NoTerminal
      /\ Cardinality(Starts(wire)) = started /\ Cardinality(Passes(wire)) = completedPassed
  BY <1>0, <1>1 DEF Counted
<1>3. /\ wire' \in Seq(Event) /\ Len(wire') = n /\ DOMAIN wire' = 1 .. n
      /\ \A i \in 1 .. Len(wire) : wire'[i] = wire[i]
      /\ wire'[n] = e
  BY <1>0, <1>1, LineGrows
<1>4. \A i \in 1 .. n : i = n \/ i \in 1 .. Len(wire)
  BY <1>0
<1>5. /\ e.kind \in {"RunStarted", "TestStarted", "TestFinished", "RunFinished"}
      /\ e.kind = "TestFinished" => e.outcome = "Passed"
      /\ e.kind = "RunStarted" => sequence = 0
      /\ e.kind = "RunFinished" => /\ e.failed = 0 /\ e.passed = completedPassed
                                   /\ completedPassed = started
  BY <1>1 DEF EmitChecks
<1>6. /\ sequence' = sequence + 1
      /\ declared' = IF e.kind = "RunStarted" THEN e.count ELSE declared
      /\ started' = IF e.kind = "RunStarted" THEN 0
                    ELSE IF e.kind = "TestStarted" THEN started + 1 ELSE started
      /\ completedPassed' = IF e.kind = "RunStarted" THEN 0
                            ELSE IF e.kind = "TestFinished" THEN completedPassed + 1
                            ELSE completedPassed
      /\ active' = IF e.kind = "TestStarted" THEN e.test
                   ELSE IF e.kind = "TestFinished" THEN None ELSE active
      /\ testTerminal' = IF e.kind = "RunFinished" THEN <<e.passed, e.failed>>
                         ELSE testTerminal
  BY <1>1 DEF EmitCommit
<1>7. GuestTypes'
  BY <1>0, <1>1, <1>3, <1>5, <1>6, EventFields DEF GuestTypes
<1>8. Numbered'
  <2>1. sequence' <= EventCapacity /\ Len(wire') <= EventCapacity /\ Len(sending') = 0
        /\ DOMAIN sending' = {}
    BY <1>0, <1>1, <1>2, <1>3, <1>6, CapacityAssumption DEF GuestTypes
  <2>2. \A i \in DOMAIN wire' : wire'[i].seq = i - 1
    <3>1. wire'[n].seq = n - 1
      BY <1>0, <1>1, <1>2, <1>3
    <3> QED
      BY <1>0, <1>3, <1>4, <3>1 DEF Numbered
  <2> QED
    BY <1>3, <2>1, <2>2 DEF Numbered
<1>9. /\ Starts(wire') = IF e.kind = "TestStarted" THEN Starts(wire) \cup {n} ELSE Starts(wire)
      /\ Ends(wire') = IF e.kind = "TestFinished" THEN Ends(wire) \cup {n} ELSE Ends(wire)
      /\ Passes(wire') = IF e.kind = "TestFinished" THEN Passes(wire) \cup {n}
                         ELSE Passes(wire)
  BY <1>0, <1>1, <1>5, MarksGrow
<1>10. /\ Cardinality(Starts(wire')) =
             IF e.kind = "TestStarted" THEN started + 1 ELSE started
       /\ Cardinality(Passes(wire')) =
             IF e.kind = "TestFinished" THEN completedPassed + 1 ELSE completedPassed
  BY <1>0, <1>1, <1>2, <1>5, MarksCount
<1> HIDE DEF n
<1>11. NoneFailed'
  BY <1>2, <1>9 DEF NoneFailed
<1>12. e.kind # "RunFinished" => NoTerminal'
  BY <1>0, <1>2, <1>3, <1>4 DEF NoTerminal
<1>13. Counted'
  <2>1. e.kind = "RunStarted" => started = 0 /\ completedPassed = 0
    <3> SUFFICES ASSUME e.kind = "RunStarted" PROVE started = 0 /\ completedPassed = 0
      OBVIOUS
    <3>1. Len(wire) = 0
      BY <1>2, <1>5
    <3>2. Starts(wire) = {} /\ Passes(wire) = {}
      BY <1>0, <3>1 DEF Starts, Passes, Ends
    <3> QED
      BY <1>2, <3>2, FS_EmptySet
  <2>2. started' = Cardinality(Starts(wire')) /\ completedPassed' = Cardinality(Passes(wire'))
    BY <1>6, <1>10, <2>1
  <2>3. Len(wire') = sequence'
    BY <1>2, <1>3, <1>6 DEF n
  <2>4. testTerminal' = None => NoTerminal'
    <3>1. e.kind = "RunFinished" => testTerminal' # None
      BY <1>5, <1>6, EventFields, CapacityAssumption
    <3> QED
      BY <1>12, <3>1
  <2>5. testTerminal' # None => wire' # <<>> /\ wire'[Len(wire')].kind = "RunFinished"
    BY <1>0, <1>1, <1>3, <1>6 DEF n
  <2> QED
    BY <1>11, <2>2, <2>3, <2>4, <2>5 DEF Counted
<1>14. FailingPath' /\ EntryAndExit'
  BY <1>1 DEF FailingPath, EntryAndExit
<1>15. SuccessIsEarned'
  <2> SUFFICES ASSUME NEW i \in DOMAIN wire', wire'[i].kind = "RunFinished"
               PROVE  /\ i = Len(wire') /\ Passes(wire') = Ends(wire')
                      /\ Cardinality(Starts(wire')) = wire'[i].passed
                      /\ Cardinality(Passes(wire')) = wire'[i].passed
    BY DEF SuccessIsEarned, IsKind
  <2>1. i = n
    BY <1>0, <1>2, <1>3, <1>4 DEF NoTerminal
  <2>2. e.kind = "RunFinished" /\ wire'[i] = e
    BY <1>3, <2>1
  <2> QED
    BY <1>3, <1>5, <1>10, <1>11, <2>1, <2>2 DEF NoneFailed
<1>16. FailedLast'
  BY <1>11 DEF FailedLast, NoneFailed
<1> QED
  BY <1>7, <1>8, <1>13, <1>14, <1>15, <1>16 DEF LineFlow

\* A path that cannot report halts.
LEMMA HaltKeeps ==
    ASSUME LineFlow, Halt, sending = <<>>
    PROVE  LineFlow'
BY LineKept DEF Halt, LineFlow, GuestTypes

\* A failing path takes up its frames.
LEMMA PathStarts ==
    ASSUME LineFlow, Callable, runtimeState = "entered", testTerminal = None,
           NEW s \in Seq(Event), sending' = s,
           UNCHANGED <<runtimeState, lifecycle, status, wire, partial>>,
           Len(s) \in {2, 3}, sequence + Len(s) <= EventCapacity,
           \A i \in DOMAIN s : s[i].seq = sequence + i - 1,
           s[Len(s)].kind = "RunFinished", s[Len(s)].failed = 1,
           s[Len(s) - 1].kind = "TestFinished", s[Len(s) - 1].outcome # "Passed",
           Len(s) = 3 => s[1].kind = "AssertionFailed"
    PROVE  LineFlow'
<1> USE DEF lifecycle
<1>1. /\ sending = <<>> /\ Len(wire) = sequence /\ NoneFailed /\ NoTerminal
      /\ s # <<>> /\ GuestTypes /\ Numbered
  BY DEF Callable, LineFlow, Counted
<1>2. GuestTypes'
  BY <1>1 DEF GuestTypes
<1>3. Numbered'
  BY <1>1 DEF Numbered
<1>4. FailingPath'
  <2>1. Len(s) = 2 => s[1].kind = "TestFinished" /\ s[1].outcome # "Passed"
    OBVIOUS
  <2>2. Len(s) = 3 => s[2].kind = "TestFinished" /\ s[2].outcome # "Passed"
    OBVIOUS
  <2>3. Len(s) \in 1 .. 3 /\ NoTerminal' /\ NoneFailed'
    BY <1>1 DEF NoTerminal, NoneFailed
  <2> QED
    BY <2>1, <2>2, <2>3 DEF FailingPath
<1>5. Counted' /\ EntryAndExit'
  BY <1>1 DEF LineFlow, Counted, EntryAndExit
<1>6. SuccessIsEarned' /\ FailedLast'
  BY DEF LineFlow, SuccessIsEarned, FailedLast
<1> QED
  BY <1>2, <1>3, <1>4, <1>5, <1>6 DEF LineFlow

\* test_assertion_fail.
LEMMA AssertionKeeps ==
    ASSUME LineFlow, NEW m \in {None, UserMessage}, TestAssertionFail(m)
    PROVE  LineFlow'
<1>1. CASE AssertionReportable
  <2> DEFINE s == AssertionFrames(m)
  <2>1. /\ runtimeState = "entered" /\ testTerminal = None /\ active \in Tests
        /\ sequence \in Nat /\ completedPassed \in Nat /\ sequence + 2 < EventCapacity
    BY <1>1 DEF AssertionReportable, LineFlow, GuestTypes
  <2>2. /\ AssertionFailed(sequence, active, m) \in Event
        /\ TestFinished(sequence + 1, active, "Failed", TerminalMessage(m)) \in Event
        /\ RunFinished(sequence + 2, completedPassed, 1) \in Event
    BY <2>1 DEF AssertionFailed, TestFinished, RunFinished, Event, Messages, TerminalMessage,
       Outcomes
  <2>3. s \in Seq(Event) /\ Len(s) = 3 /\ DOMAIN s = 1 .. 3
    BY <2>2 DEF AssertionFrames
  <2>4. /\ s[1].seq = sequence /\ s[1].kind = "AssertionFailed"
        /\ s[2].seq = sequence + 1 /\ s[2].kind = "TestFinished" /\ s[2].outcome # "Passed"
        /\ s[3].seq = sequence + 2 /\ s[3].kind = "RunFinished" /\ s[3].failed = 1
    BY DEF AssertionFrames, AssertionFailed, TestFinished, RunFinished
  <2>5. /\ sending' = s /\ Callable
        /\ UNCHANGED <<runtimeState, lifecycle, status, wire, partial>>
    BY <1>1 DEF TestAssertionFail
  <2> HIDE DEF s
  <2>6. \A i \in DOMAIN s : s[i].seq = sequence + i - 1
    BY <2>1, <2>3, <2>4
  <2>7. sequence + Len(s) <= EventCapacity
    BY <2>1, <2>3, CapacityAssumption
  <2>8. /\ s[Len(s)].kind = "RunFinished" /\ s[Len(s)].failed = 1
        /\ s[Len(s) - 1].kind = "TestFinished" /\ s[Len(s) - 1].outcome # "Passed"
        /\ Len(s) \in {2, 3} /\ (Len(s) = 3 => s[1].kind = "AssertionFailed")
    BY <2>3, <2>4
  <2> QED
    BY <2>1, <2>3, <2>5, <2>6, <2>7, <2>8, PathStarts
<1>2. CASE ~AssertionReportable
  BY <1>2, HaltKeeps DEF TestAssertionFail, Callable
<1> QED
  BY <1>1, <1>2

\* A fatal error.
LEMMA FatalKeeps ==
    ASSUME LineFlow, NEW shiftFault \in BOOLEAN, Fatal(shiftFault)
    PROVE  LineFlow'
<1>1. CASE shiftFault /\ FatalReportable
  <2> DEFINE s == FatalFrames
  <2>1. /\ runtimeState = "entered" /\ testTerminal = None /\ active \in Tests
        /\ sequence \in Nat /\ sequence + 1 < EventCapacity
    BY <1>1 DEF FatalReportable, LineFlow, GuestTypes
  <2>2. /\ TestFinished(sequence, active, "LanguageFatal", None) \in Event
        /\ RunFinished(sequence + 1, 0, 1) \in Event
    BY <2>1 DEF TestFinished, RunFinished, Event, Messages, Outcomes
  <2>3. s \in Seq(Event) /\ Len(s) = 2 /\ DOMAIN s = 1 .. 2
    BY <2>2 DEF FatalFrames
  <2>4. /\ s[1].seq = sequence /\ s[1].kind = "TestFinished" /\ s[1].outcome # "Passed"
        /\ s[2].seq = sequence + 1 /\ s[2].kind = "RunFinished" /\ s[2].failed = 1
    BY DEF FatalFrames, TestFinished, RunFinished
  <2>5. /\ sending' = s /\ Callable
        /\ UNCHANGED <<runtimeState, lifecycle, status, wire, partial>>
    BY <1>1 DEF Fatal
  <2> HIDE DEF s
  <2>6. \A i \in DOMAIN s : s[i].seq = sequence + i - 1
    BY <2>1, <2>3, <2>4
  <2>7. sequence + Len(s) <= EventCapacity
    BY <2>1, <2>3, CapacityAssumption
  <2> QED
    BY <2>1, <2>3, <2>4, <2>5, <2>6, <2>7, PathStarts
<1>2. CASE ~(shiftFault /\ FatalReportable)
  BY <1>2, HaltKeeps DEF Fatal, Callable
<1> QED
  BY <1>1, <1>2

\* The next frame of a failing path.
LEMMA SendFailureFrameKeeps ==
    ASSUME LineFlow, SendFailureFrame, ~partial
    PROVE  LineFlow'
<1> DEFINE n == Len(wire) + 1
           e == Head(sending)
           rest == Tail(sending)
<1>0. /\ GuestTypes /\ Numbered /\ FailingPath /\ FailedLast
      /\ wire \in Seq(Event) /\ sending \in Seq(Event) /\ sending # <<>>
      /\ Len(wire) \in Nat /\ DOMAIN wire = 1 .. Len(wire)
      /\ wire' = Append(wire, e) /\ sending' = rest /\ UNCHANGED <<status, partial>>
  BY DEF LineFlow, GuestTypes, SendFailureFrame
<1>1. /\ e \in Event /\ e = sending[1] /\ rest \in Seq(Event)
      /\ Len(rest) = Len(sending) - 1
      /\ \A i \in 1 .. Len(rest) : rest[i] = sending[i + 1]
      /\ DOMAIN rest = 1 .. Len(rest) /\ DOMAIN sending = 1 .. Len(sending)
      /\ rest = <<>> <=> Len(sending) = 1
      /\ Len(rest) \in Nat /\ Len(sending) \in Nat /\ 1 \in DOMAIN sending
  <2>1. /\ e \in Event /\ e = sending[1] /\ rest \in Seq(Event)
        /\ Len(rest) = Len(sending) - 1
        /\ Len(sending) \in Nat \ {0} /\ DOMAIN sending = 1 .. Len(sending)
    BY <1>0
  <2>2. \A i \in 1 .. Len(rest) : rest[i] = sending[i + 1]
    BY <1>0, <2>1
  <2>3. DOMAIN rest = 1 .. Len(rest) /\ Len(rest) \in Nat /\ 1 \in DOMAIN sending
    BY <2>1
  <2>4. rest = <<>> <=> Len(sending) = 1
    BY <2>1
  <2> QED
    BY <2>1, <2>2, <2>3, <2>4
<1>2. /\ wire' \in Seq(Event) /\ Len(wire') = n /\ DOMAIN wire' = 1 .. n
      /\ \A i \in 1 .. Len(wire) : wire'[i] = wire[i]
      /\ wire'[n] = e
  BY <1>0, <1>1, LineGrows
<1>3. \A i \in 1 .. n : i = n \/ i \in 1 .. Len(wire)
  BY <1>0
<1>4. /\ runtimeState = "entered" /\ testTerminal = None /\ NoTerminal
      /\ Len(sending) \in 1 .. 3
  BY <1>0 DEF FailingPath
<1>5. /\ Ends(wire') = IF e.kind = "TestFinished" THEN Ends(wire) \cup {n} ELSE Ends(wire)
      /\ Passes(wire') = IF e.kind = "TestFinished" /\ e.outcome = "Passed"
                         THEN Passes(wire) \cup {n} ELSE Passes(wire)
      /\ n \notin Ends(wire) \cup Passes(wire)
  BY <1>0, <1>1, MarksGrow
<1>6. /\ e.seq = Len(wire) /\ Len(wire) + Len(sending) <= EventCapacity
      /\ e.seq + 1 \in Nat
  <2>1. sending[1].seq = Len(wire) + 1 - 1
    BY <1>0, <1>1 DEF Numbered
  <2>2. Len(wire) + Len(sending) <= EventCapacity
    BY <1>0 DEF Numbered
  <2> QED
    BY <1>0, <1>1, <2>1, <2>2
<1>7. (\A i \in DOMAIN wire' : wire'[i].seq = i - 1)
      /\ (\A i \in DOMAIN rest : rest[i].seq = Len(wire') + i - 1)
      /\ Len(wire') + Len(rest) <= EventCapacity
  <2>1. wire'[n].seq = n - 1
    BY <1>0, <1>2, <1>6
  <2>2. \A i \in DOMAIN wire' : wire'[i].seq = i - 1
    BY <1>0, <1>2, <1>3, <2>1 DEF Numbered
  <2>3. \A i \in DOMAIN rest : i + 1 \in DOMAIN sending
    BY <1>1
  <2>4. \A i \in DOMAIN rest : rest[i].seq = Len(wire') + i - 1
    <3> TAKE i \in DOMAIN rest
    <3>1. rest[i] = sending[i + 1] /\ i \in Nat
      BY <1>1
    <3>2. sending[i + 1].seq = Len(wire) + (i + 1) - 1
      BY <1>0, <2>3 DEF Numbered
    <3> QED
      BY <1>0, <1>2, <3>1, <3>2
  <2>5. Len(wire') + Len(rest) <= EventCapacity
    BY <1>0, <1>1, <1>2, <1>6, CapacityAssumption
  <2> QED
    BY <2>2, <2>4, <2>5
<1>8. SuccessIsEarned'
  <2> SUFFICES ASSUME NEW i \in DOMAIN wire', wire'[i].kind = "RunFinished",
                      wire'[i].failed = 0
               PROVE  FALSE
    BY DEF SuccessIsEarned, IsKind
  <2>1. i = n
    BY <1>0, <1>2, <1>3, <1>4 DEF NoTerminal
  <2>2. e.kind = "RunFinished" /\ e.failed = 0
    BY <1>2, <2>1
  <2>3. CASE Len(sending) = 1
    BY <1>0, <1>1, <2>2, <2>3 DEF FailingPath
  <2>4. CASE Len(sending) = 2
    BY <1>0, <1>1, <2>2, <2>4 DEF FailingPath
  <2>5. CASE Len(sending) = 3
    BY <1>0, <1>1, <2>2, <2>5 DEF FailingPath
  <2> QED
    BY <1>4, <2>3, <2>4, <2>5
<1>9. CASE Len(sending) = 1
  <2>1. /\ sequence' = e.seq + 1 /\ active' = None /\ testTerminal' = <<e.passed, 1>>
        /\ runtimeState' = "exiting" /\ UNCHANGED <<declared, started, completedPassed>>
    BY <1>1, <1>9 DEF SendFailureFrame
  <2>2. e.kind = "RunFinished" /\ e.failed = 1 /\ e.passed \in Nat
    BY <1>0, <1>1, <1>9, EventFields DEF FailingPath
  <2>3. rest = <<>> /\ sending' = <<>>
    BY <1>0, <1>1, <1>9
  <2>4. GuestTypes'
    BY <1>0, <1>1, <1>2, <1>6, <2>1, <2>2 DEF GuestTypes
  <2>5. Numbered'
    <3>1. sequence' <= EventCapacity
      BY <1>0, <1>6, <1>9, <2>1, CapacityAssumption
    <3> QED
      BY <1>0, <1>7, <3>1 DEF Numbered
  <2> HIDE DEF e
  <2>6. FailingPath' /\ Counted'
    BY <2>1, <2>3 DEF FailingPath, Counted
  <2>7. EntryAndExit'
    BY <1>0, <1>2, <2>1, <2>2, <2>3 DEF EntryAndExit
  <2>8. FailedLast'
    <3>1. Ends(wire') = Ends(wire) /\ Passes(wire') = Passes(wire)
      BY <1>5, <2>2
    <3>2. \A i \in Ends(wire) \ Passes(wire) : i = Len(wire)
      BY <1>0, <1>4 DEF FailedLast
    <3>3. wire'[Len(wire')] = e
      BY <1>2
    <3> QED
      BY <1>2, <2>1, <2>2, <3>1, <3>2, <3>3 DEF FailedLast
  <2> QED
    BY <1>8, <2>4, <2>5, <2>6, <2>7, <2>8 DEF LineFlow
<1>10. CASE Len(sending) \in {2, 3}
  <2>1. UNCHANGED <<runtimeState, sequence, declared, started, completedPassed, active,
                    testTerminal>> /\ rest # <<>>
    BY <1>1, <1>10 DEF SendFailureFrame, lifecycle
  <2>2. NoneFailed
    BY <1>0, <1>10 DEF FailingPath
  <2>3. GuestTypes' /\ Numbered'
    BY <1>0, <1>1, <1>2, <1>7, <2>1 DEF GuestTypes, Numbered
  <2>4. Counted' /\ EntryAndExit'
    BY <1>0, <1>4, <2>1 DEF Counted, EntryAndExit
  <2>5. CASE Len(sending) = 2
    <3>1. e.kind = "TestFinished" /\ e.outcome # "Passed"
      BY <1>0, <1>1, <2>5 DEF FailingPath
    <3>2. rest[1].kind = "RunFinished" /\ rest[1].failed = 1 /\ Len(rest) = 1
      BY <1>0, <1>1, <2>5 DEF FailingPath
    <3> HIDE DEF e, rest
    <3>3. NoTerminal'
      BY <1>0, <1>2, <1>3, <1>4, <3>1 DEF NoTerminal
    <3>4. FailingPath'
      BY <1>0, <1>4, <2>1, <3>2, <3>3 DEF FailingPath
    <3>5. FailedLast'
      <4>1. \A i \in Ends(wire') \ Passes(wire') : i = n
        BY <1>5, <2>2, <3>1 DEF NoneFailed
      <4> QED
        BY <1>2, <4>1 DEF FailedLast
    <3> QED
      BY <1>8, <2>3, <2>4, <3>4, <3>5 DEF LineFlow
  <2>6. CASE Len(sending) = 3
    <3>1. e.kind = "AssertionFailed"
      BY <1>0, <1>1, <2>6 DEF FailingPath
    <3>2. /\ rest[1].kind = "TestFinished" /\ rest[1].outcome # "Passed"
          /\ rest[2].kind = "RunFinished" /\ rest[2].failed = 1 /\ Len(rest) = 2
      <4> HIDE DEF e, rest
      <4>1. Len(rest) = 2 /\ rest[1] = sending[1 + 1] /\ rest[2] = sending[2 + 1]
        BY <1>1, <2>6
      <4> QED
        BY <1>0, <2>6, <4>1 DEF FailingPath
    <3> HIDE DEF e, rest
    <3>3. NoTerminal' /\ NoneFailed'
      BY <1>0, <1>2, <1>3, <1>4, <1>5, <2>2, <3>1 DEF NoTerminal, NoneFailed
    <3>4. FailingPath'
      BY <1>0, <1>4, <2>1, <3>2, <3>3 DEF FailingPath
    <3>5. FailedLast'
      BY <3>3 DEF FailedLast, NoneFailed
    <3> QED
      BY <1>8, <2>3, <2>4, <3>4, <3>5 DEF LineFlow
  <2> QED
    BY <1>10, <2>5, <2>6
<1> QED
  BY <1>4, <1>9, <1>10

\* The line stalls inside a frame of a failing path.
LEMMA SendFailureTimeoutKeeps ==
    ASSUME LineFlow, SendFailureTimeout
    PROVE  LineFlow'
<1> USE DEF lifecycle
<1>1. /\ runtimeState' = "fatal" /\ sending' = <<>> /\ partial' = TRUE
      /\ UNCHANGED <<lifecycle, status, wire>> /\ runtimeState = "entered"
  BY DEF SendFailureTimeout, LineFlow, FailingPath
<1>2. GuestTypes'
  BY <1>1 DEF LineFlow, GuestTypes
<1>3. Numbered'
  <2>1. Len(wire) <= EventCapacity
    BY CapacityAssumption DEF LineFlow, GuestTypes, Numbered
  <2> QED
    BY <1>1, <2>1 DEF LineFlow, GuestTypes, Numbered
<1>4. FailingPath' /\ Counted' /\ EntryAndExit'
  BY <1>1 DEF FailingPath, Counted, EntryAndExit
<1>5. SuccessIsEarned' /\ FailedLast'
  BY <1>1 DEF LineFlow, SuccessIsEarned, FailedLast
<1> QED
  BY <1>2, <1>3, <1>4, <1>5 DEF LineFlow

\* test_finish.
LEMMA TestFinishKeeps ==
    ASSUME LineFlow, NEW outcome, TestFinish(outcome), ~partial
    PROVE  LineFlow'
<1> USE DEF lifecycle
<1>1. CASE FinishAgrees(outcome)
  <2>1. /\ runtimeState' = "exiting" /\ sending = <<>> /\ runtimeState = "entered"
        /\ UNCHANGED <<lifecycle, sending, status, wire, partial>> /\ testTerminal # None
    BY <1>1 DEF TestFinish, FinishAgrees, Callable
  <2>2. wire # <<>> /\ wire[Len(wire)].kind = "RunFinished"
    BY <2>1 DEF LineFlow, Counted
  <2>3. GuestTypes' /\ Numbered' /\ FailingPath' /\ Counted'
    BY <2>1 DEF LineFlow, GuestTypes, Numbered, FailingPath, Counted
  <2>4. EntryAndExit'
    BY <2>1, <2>2 DEF EntryAndExit
  <2>5. SuccessIsEarned' /\ FailedLast'
    BY <2>1 DEF LineFlow, SuccessIsEarned, FailedLast
  <2> QED
    BY <2>3, <2>4, <2>5 DEF LineFlow
<1>2. CASE ~FinishAgrees(outcome)
  BY <1>2, HaltKeeps DEF TestFinish, Callable
<1> QED
  BY <1>1, <1>2

\* A call of the runtime that does not stall.
Call ==
    \/ ImageEnter
    \/ \E e \in Event : TestEmit(e) \/ TestEmitRefused(e)
    \/ \E m \in {None, UserMessage} : TestAssertionFail(m)
    \/ \E shiftFault \in BOOLEAN : Fatal(shiftFault)
    \/ \E outcome \in 0 .. 2 : TestFinish(outcome)

LEMMA CallKeeps ==
    ASSUME LineFlow, Call, ~partial
    PROVE  LineFlow' /\ ~partial'
<1>1. LineFlow'
  BY ImageEnterKeeps, TestEmitKeeps, EmitFailsKeeps, AssertionKeeps, FatalKeeps,
     TestFinishKeeps DEF Call
<1>2. partial' = partial
  BY DEF Call, ImageEnter, TestEmit, TestEmitRefused, TestAssertionFail, Fatal, TestFinish, Halt
<1> QED
  BY <1>1, <1>2

\* The frames of the generated harness are events of the protocol.
LEMMA HarnessEvents ==
    ASSUME TruthFlow, pc \in {"run", "start", "finish", "summary"}
    PROVE  HarnessEvent \in Event
<1>1. planned \in Nat /\ test \in Nat /\ test \in Tests /\ test >= 1
  BY PlannedAssumption DEF TruthFlow, HarnessTrue, PlannedTests
<1>2. /\ 2 * test - 1 \in Nat /\ 2 * test \in Nat /\ 2 * planned + 1 \in Nat
  BY <1>1
<1>3. CASE pc = "run"
  BY <1>1, <1>3 DEF HarnessEvent, RunStarted, Event
<1>4. CASE pc = "start"
  BY <1>1, <1>2, <1>4 DEF HarnessEvent, TestStarted, Event
<1>5. CASE pc = "finish"
  BY <1>1, <1>2, <1>5 DEF HarnessEvent, TestFinished, Event, Outcomes, Messages
<1>6. CASE pc = "summary"
  BY <1>1, <1>2, <1>6 DEF HarnessEvent, RunFinished, Event
<1> QED
  BY <1>3, <1>4, <1>5, <1>6

\* A caller that has not been stopped has not cut off a frame.
LEMMA NotCutOff ==
    ASSUME GuestFlow, GuestAlive,
           sending # <<>> \/ Callable,
           sending # <<>> \/ (origin = "harness" /\ pc # "returned")
                          \/ (origin = "code" /\ status = "ok")
    PROVE  ~partial
BY DEF GuestFlow, CutOff, Callable

\* Every step of the run keeps what the line carries.
LEMMA GuestKeeps ==
    ASSUME GuestFlow, TruthFlow, [Next]_vars
    PROVE  GuestFlow'
<1>0. LineFlow /\ CutOff
  BY DEF GuestFlow
<1>1. ASSUME UNCHANGED guestVars
      PROVE  LineFlow'
  BY <1>0, <1>1, LineKept DEF guestVars, lifecycle, LineFlow, GuestTypes
<1>2. CASE UNCHANGED guestVars /\ UNCHANGED <<harnessVars, qemu>>
  BY <1>0, <1>1, <1>2 DEF GuestFlow, CutOff, GuestAlive, guestVars, harnessVars
<1>3. ASSUME GuestAlive, Callable,
             (origin = "harness" /\ pc # "returned") \/ (origin = "code" /\ status = "ok"),
             \/ Call
             \/ \E e : TestEmitTimeout(e) /\ origin' = origin
                       /\ (origin = "harness" => pc' = "returned")
      PROVE  GuestFlow'
  <2>0. ~partial
    BY <1>3, NotCutOff
  <2>1. CASE Call
    BY <1>0, <2>0, <2>1, CallKeeps DEF GuestFlow, CutOff
  <2>2. ASSUME NEW e, TestEmitTimeout(e), origin' = origin, origin = "harness" => pc' = "returned"
        PROVE  GuestFlow'
    <3>1. LineFlow'
      BY <1>0, <2>2, EmitFailsKeeps
    <3>2. sending' = <<>> /\ runtimeState' = "entered" /\ status' = "timeout"
      BY <2>2 DEF TestEmitTimeout, Callable, EmitAccepts
    <3>3. CutOff'
      BY <2>2, <3>2 DEF CutOff
    <3> QED
      BY <3>1, <3>3 DEF GuestFlow
  <2> QED
    BY <1>3, <2>1, <2>2
<1>4. CASE HarnessStep
  <2>1. /\ GuestAlive /\ origin' = origin
        /\ Callable /\ pc # "returned" /\ (pc = "enter" => origin = "harness")
    BY <1>4 DEF HarnessStep, HarnessEnter, HarnessEmit, HarnessFinish, ImageEnter, TestEmit,
       TestEmitRefused, TestEmitTimeout, TestFinish
  <2>2. origin = "harness"
    BY <2>1, <1>4 DEF TruthFlow
  <2>3. \/ Call
        \/ \E e : TestEmitTimeout(e) /\ pc' = "returned"
    <3>1. CASE HarnessEnter
      BY <3>1 DEF HarnessEnter, Call
    <3>2. CASE HarnessEmit
      <4>1. HarnessEvent \in Event
        BY <3>2, HarnessEvents DEF HarnessEmit
      <4> QED
        BY <3>2, <4>1 DEF HarnessEmit, Call
    <3>3. CASE HarnessFinish
      BY <3>3 DEF HarnessFinish, Call
    <3> QED
      BY <1>4, <3>1, <3>2, <3>3 DEF HarnessStep
  <2> QED
    BY <1>3, <2>1, <2>2, <2>3
<1>5. CASE BodyReturns \/ BodyHangs
  <2>1. /\ UNCHANGED guestVars /\ UNCHANGED <<origin, qemu>> /\ pc = "body" /\ GuestAlive
    BY <1>5 DEF BodyReturns, BodyHangs, BodyEnds
  <2>2. CutOff'
    BY <1>0, <2>1 DEF CutOff, GuestAlive, guestVars, TruthFlow
  <2> QED
    BY <1>1, <2>1, <2>2 DEF GuestFlow
<1>6. CASE BodyAsserts \/ BodyShiftFault \/ BodyFatal
  <2>1. GuestAlive /\ pc = "body" /\ Call /\ Callable
    BY <1>6 DEF BodyAsserts, BodyShiftFault, BodyFatal, BodyEnds, Call, TestAssertionFail, Fatal
  <2>2. origin = "harness"
    BY <2>1 DEF TruthFlow
  <2> QED
    BY <1>3, <2>1, <2>2
<1>7. CASE FailurePath
  <2>1. GuestAlive /\ sending # <<>> /\ ~partial
    BY <1>7, NotCutOff DEF FailurePath, SendFailureFrame, SendFailureTimeout
  <2>2. LineFlow'
    BY <1>0, <1>7, <2>1, SendFailureFrameKeeps, SendFailureTimeoutKeeps DEF FailurePath
  <2>3. CutOff'
    BY <1>7, <2>1 DEF FailurePath, SendFailureFrame, SendFailureTimeout, CutOff
  <2> QED
    BY <2>2, <2>3 DEF GuestFlow
<1>8. CASE QemuShutdown \/ QemuCrash \/ ExecutorTimeout
  <2>1. qemu' # Running /\ UNCHANGED <<lifecycle, runtimeState, sending, status, wire>>
    BY <1>8 DEF QemuShutdown, QemuCrash, ExecutorTimeout, QemuStops, Ended, Running, guestVars,
       lifecycle
  <2>2. partial' \in BOOLEAN /\ (partial' = partial \/ runtimeState = "entered")
    BY <1>0, <1>8 DEF QemuShutdown, QemuCrash, ExecutorTimeout, QemuStops, guestVars, LineFlow,
       GuestTypes
  <2>3. LineFlow'
    BY <1>0, <2>1, <2>2, LineKept DEF LineFlow, GuestTypes
  <2>4. CutOff'
    BY <2>1 DEF CutOff, GuestAlive, Running
  <2> QED
    BY <2>3, <2>4 DEF GuestFlow
<1>9. CASE ResetFails
  <2>1. runtimeState = "exiting" /\ Halt
    BY <1>9 DEF ResetFails, ResetReturned
  <2>2. sending = <<>> /\ ~partial
    BY <1>0, <2>1 DEF LineFlow, EntryAndExit
  <2>3. LineFlow' /\ CutOff'
    BY <1>0, <2>1, <2>2, HaltKeeps DEF CutOff, Halt
  <2> QED
    BY <2>3 DEF GuestFlow
<1>10. CASE AnyCode
  <2>1. /\ GuestAlive /\ origin = "code" /\ status = "ok" /\ GuestCall /\ origin' = origin
    BY <1>10 DEF AnyCode, GuestCall, harnessVars
  <2>2. \A q \in {sequence, sequence + 1} : EventsAt(q, CallCounts, {}) \subseteq Event
    BY <1>0, CallEvents DEF LineFlow, GuestTypes
  <2>3. Callable
    BY <2>1 DEF GuestCall, ImageEnter, TestEmit, TestEmitRefused, TestEmitTimeout,
       TestAssertionFail, Fatal, TestFinish
  <2>4. Call \/ \E e : TestEmitTimeout(e)
    BY <2>1, <2>2 DEF GuestCall, Call
  <2> QED
    BY <1>3, <2>1, <2>3, <2>4
<1>11. CASE HostStep \/ HostIsCancelled \/ AnyLine
  BY <1>2, <1>11 DEF HostStep, HostDecode, HostConclude, HostIsCancelled, AnyLine
<1>12. CASE UNCHANGED vars
  BY <1>2, <1>12 DEF vars, guestVars, harnessVars
<1> QED
  BY <1>4, <1>5, <1>6, <1>7, <1>8, <1>9, <1>10, <1>11, <1>12
     DEF Next, GuestStep, BodyStep

-----------------------------------------------------------------------------
(* The harness, the runtime and the host together.                         *)

\* What a report says of a test is not disturbed while the truth about the
\* tests that have ended stays.
LEMMA ReportKept ==
    ASSUME TruthFlow, origin' = origin,
           UNCHANGED <<planned, events, collected, verdict>>,
           origin = "harness" => \A t \in PlannedTests : truth[t] # None => truth'[t] = truth[t]
    PROVE  ReportTrue'
<1>1. None \notin Outcomes
  BY EventAssumption
<1> QED
  BY <1>1 DEF TruthFlow, ReportTrue, PlannedTests

\* The harness calls the runtime.
LEMMA HarnessStepTrue ==
    ASSUME LineFlow, TruthFlow, origin = "harness", HarnessStep
    PROVE  TruthFlow'
<1>0. /\ HarnessTrue /\ ReportTrue /\ wire \in Seq(Event)
      /\ UNCHANGED <<origin, truth, hostVars>> /\ planned \in Nat /\ test \in PlannedTests
      /\ PlannedTests' = PlannedTests
  BY PlannedAssumption DEF TruthFlow, LineFlow, GuestTypes, HarnessStep, HarnessEnter,
     HarnessEmit, HarnessFinish, hostVars, PlannedTests, HarnessTrue
<1>1. ReportTrue' /\ planned' \in 1 .. MaxPlanned
  BY <1>0, ReportKept DEF hostVars, TruthFlow
<1>2. CASE HarnessEnter
  <2>1. pc = "enter" /\ pc' = "run" /\ UNCHANGED <<test, wire, sending>> /\ sending = <<>>
    BY <1>2 DEF HarnessEnter, ImageEnter, Callable
  <2>2. HarnessTrue'
    BY <1>0, <2>1 DEF HarnessTrue, FramesTrue
  <2> QED
    BY <1>0, <1>1, <2>2 DEF TruthFlow
<1>3. CASE HarnessFinish
  <2>1. pc' = "returned" /\ UNCHANGED <<test, wire>> /\ (sending' = sending \/ sending' = <<>>)
    BY <1>3 DEF HarnessFinish, TestFinish, Halt
  <2>2. FramesTrue(<<>>)
    BY DEF FramesTrue
  <2>3. FramesTrue(sending') /\ FramesTrue(wire')
    BY <1>0, <2>1, <2>2 DEF HarnessTrue
  <2>4. FramesTrue(sending)' /\ FramesTrue(wire)'
    BY <1>0, <2>3 DEF FramesTrue
  <2>5. HarnessTrue'
    BY <1>0, <2>1, <2>4 DEF HarnessTrue
  <2> QED
    BY <1>0, <1>1, <2>5 DEF TruthFlow
<1>4. CASE HarnessEmit
  <2>0. /\ pc \in {"run", "start", "finish", "summary"} /\ HarnessEvent \in Event
        /\ sending = <<>> /\ sending' = <<>>
    BY <1>4, HarnessEvents DEF HarnessEmit, TestEmit, TestEmitRefused, TestEmitTimeout, Callable
  <2>1. CASE TestEmit(HarnessEvent) /\ AfterEvent
    <3> DEFINE e == HarnessEvent
    <3>1. wire' = Append(wire, e) /\ EmitCommit(e)
      BY <2>1 DEF TestEmit
    <3>2. /\ e.kind = "TestFinished" => /\ pc = "finish" /\ e.test = test
                                        /\ e.outcome = "Passed"
          /\ pc = "start" => e.kind = "TestStarted" /\ e.test = test
      BY <2>0 DEF HarnessEvent, RunStarted, TestStarted, TestFinished, RunFinished
    <3>3. FramesTrue(wire)'
      <4>1. /\ DOMAIN wire' = DOMAIN wire \cup {Len(wire) + 1}
            /\ wire'[Len(wire) + 1] = e /\ \A i \in DOMAIN wire : wire'[i] = wire[i]
        BY <1>0, <2>0, <3>1, LineGrows
      <4>2. e.kind = "TestFinished" => truth[e.test] = e.outcome /\ e.test \in PlannedTests
        BY <1>0, <3>2 DEF HarnessTrue
      <4> HIDE DEF e
      <4> QED
        BY <1>0, <4>1, <4>2 DEF HarnessTrue, FramesTrue
    <3>4. pc = "start" => active' = test
      BY <3>1, <3>2 DEF EmitCommit
    <3>5. /\ pc = "run" => pc' = "start" /\ test' = test
          /\ pc = "start" => pc' = "body" /\ test' = test
          /\ pc = "finish" => \/ test = planned /\ pc' = "summary" /\ test' = test
                              \/ test # planned /\ pc' = "start" /\ test' = test + 1
          /\ pc = "summary" => pc' = "exit" /\ test' = test
      BY <2>0, <2>1 DEF AfterEvent
    <3> HIDE DEF e
    <3>6. FramesTrue(sending)'
      BY <2>0 DEF FramesTrue
    <3>7. /\ test' \in PlannedTests
          /\ pc' \in {"start", "body", "summary", "exit"}
          /\ pc' \in {"start", "body"} =>
                \A t \in PlannedTests : t >= test' => truth[t] = None
          /\ pc' = "body" => active' = test'
      <4>1. CASE pc \in {"run", "start", "summary"}
        BY <1>0, <3>4, <3>5, <4>1 DEF HarnessTrue
      <4>2. CASE pc = "finish" /\ test = planned
        BY <1>0, <3>5, <4>2
      <4>3. CASE pc = "finish" /\ test # planned
        <5>1. test + 1 \in PlannedTests /\ \A t \in PlannedTests : t >= test + 1 => t > test
          BY <1>0, <4>3 DEF PlannedTests
        <5>2. pc' = "start" /\ test' = test + 1
          BY <3>5, <4>3
        <5> QED
          BY <1>0, <4>3, <5>1, <5>2 DEF HarnessTrue
      <4> QED
        BY <2>0, <4>1, <4>2, <4>3
    <3>8. HarnessTrue'
      BY <1>0, <2>0, <3>3, <3>6, <3>7 DEF HarnessTrue
    <3> QED
      BY <1>0, <1>1, <3>8 DEF TruthFlow
  <2>2. CASE ~(TestEmit(HarnessEvent) /\ AfterEvent)
    <3>1. pc' = "returned" /\ UNCHANGED <<test, wire>>
      BY <1>4, <2>2 DEF HarnessEmit, TestEmitRefused, TestEmitTimeout
    <3>2. FramesTrue(wire)' /\ FramesTrue(sending)'
      BY <1>0, <2>0, <3>1 DEF HarnessTrue, FramesTrue
    <3>3. HarnessTrue'
      BY <1>0, <3>1, <3>2 DEF HarnessTrue
    <3> QED
      BY <1>0, <1>1, <3>3 DEF TruthFlow
  <2> QED
    BY <2>1, <2>2
<1> QED
  BY <1>2, <1>3, <1>4 DEF HarnessStep

\* The body of a test ends.
LEMMA BodyStepTrue ==
    ASSUME LineFlow, TruthFlow, origin = "harness", BodyStep
    PROVE  TruthFlow'
<1>0. /\ HarnessTrue /\ ReportTrue /\ wire \in Seq(Event) /\ test \in PlannedTests
      /\ truth \in [PlannedTests -> Outcomes \cup {None, "Halted", "Hung"}]
      /\ sequence \in Nat
  BY DEF TruthFlow, LineFlow, GuestTypes, HarnessTrue
<1>1. PICK outcome \in {"Passed", "Failed", "LanguageFatal", "Halted", "Hung"},
           next \in {"finish", "returned"} :
         /\ BodyEnds(outcome, next)
         /\ next = "finish" => outcome = "Passed"
         /\ \/ UNCHANGED guestVars
            \/ /\ next = "returned" /\ outcome = "Failed"
               /\ \E m \in {None, UserMessage} : TestAssertionFail(m)
            \/ next = "returned" /\ outcome = "LanguageFatal" /\ Fatal(TRUE)
            \/ next = "returned" /\ Fatal(FALSE)
  BY DEF BodyStep, BodyReturns, BodyAsserts, BodyShiftFault, BodyFatal, BodyHangs
<1>2. /\ pc = "body" /\ pc' = next /\ truth' = [truth EXCEPT ![test] = outcome]
      /\ UNCHANGED <<origin, test, hostVars>> /\ sending = <<>>
      /\ active = test /\ \A t \in PlannedTests : t >= test => truth[t] = None
  BY <1>0, <1>1 DEF BodyEnds, HarnessTrue
<1>3. PlannedTests' = PlannedTests /\ planned' \in 1 .. MaxPlanned /\ planned \in Nat
  BY <1>2, PlannedAssumption DEF TruthFlow, hostVars, PlannedTests
<1>4. /\ truth' \in [PlannedTests -> Outcomes \cup {None, "Halted", "Hung"}]
      /\ truth'[test] = outcome /\ truth[test] = None
      /\ \A t \in PlannedTests : t # test => truth'[t] = truth[t]
  BY <1>0, <1>2, <1>3 DEF Outcomes, PlannedTests
<1>5. wire' = wire
  BY <1>1 DEF guestVars, TestAssertionFail, Fatal, Halt
<1>6. FramesTrue(wire)'
  <2>1. \A i \in DOMAIN wire : wire[i].kind = "TestFinished" => wire[i].outcome # None
    BY <1>0, EventFields, EventAssumption
  <2> QED
    BY <1>0, <1>3, <1>4, <1>5, <2>1 DEF HarnessTrue, FramesTrue
<1>7. FramesTrue(sending)'
  <2> SUFFICES ASSUME NEW i \in DOMAIN sending', sending'[i].kind = "TestFinished"
               PROVE  sending'[i].test = test /\ sending'[i].outcome = outcome
    BY <1>0, <1>3, <1>4 DEF FramesTrue
  <2>1. CASE sending' = <<>>
    BY <2>1
  <2>2. ASSUME NEW m \in {None, UserMessage}, sending' = AssertionFrames(m), outcome = "Failed"
        PROVE  sending'[i].test = test /\ sending'[i].outcome = outcome
    <3>1. DOMAIN sending' = 1 .. 3
      BY <2>2 DEF AssertionFrames
    <3>2. /\ sending'[1] = AssertionFailed(sequence, active, m)
          /\ sending'[2] = TestFinished(sequence + 1, active, "Failed", TerminalMessage(m))
          /\ sending'[3] = RunFinished(sequence + 2, completedPassed, 1)
      BY <2>2 DEF AssertionFrames
    <3>3. i = 1 \/ i = 2 \/ i = 3
      BY <3>1
    <3> QED
      BY <1>2, <2>2, <3>2, <3>3 DEF AssertionFailed, TestFinished, RunFinished
  <2>3. CASE sending' = FatalFrames /\ outcome = "LanguageFatal"
    <3>1. DOMAIN sending' = 1 .. 2
      BY <2>3 DEF FatalFrames
    <3>2. /\ sending'[1] = TestFinished(sequence, active, "LanguageFatal", None)
          /\ sending'[2] = RunFinished(sequence + 1, 0, 1)
      BY <2>3 DEF FatalFrames
    <3>3. i = 1 \/ i = 2
      BY <3>1
    <3> QED
      BY <1>2, <2>3, <3>2, <3>3 DEF TestFinished, RunFinished
  <2> QED
    BY <1>1, <1>2, <2>1, <2>2, <2>3 DEF guestVars, TestAssertionFail, Fatal, Halt
<1>8. sending' # <<>> => pc' = "returned"
  BY <1>1, <1>2 DEF guestVars, TestAssertionFail, Fatal, Halt
<1>9. next = "finish" => \A t \in PlannedTests : t > test => truth'[t] = None
  <2>1. \A t \in PlannedTests : t > test => t >= test /\ t # test
    BY <1>0, <1>3 DEF PlannedTests
  <2> QED
    BY <1>2, <1>4, <2>1
<1>10. HarnessTrue'
  BY <1>0, <1>1, <1>2, <1>3, <1>4, <1>6, <1>7, <1>8, <1>9 DEF HarnessTrue
<1>11. ReportTrue'
  BY <1>2, <1>4, ReportKept DEF hostVars
<1> QED
  BY <1>2, <1>3, <1>10, <1>11 DEF TruthFlow

\* A failing path sends a frame or stalls, or the reset fails.
LEMMA FailurePathTrue ==
    ASSUME LineFlow, TruthFlow, origin = "harness", FailurePath \/ ResetFails
    PROVE  TruthFlow'
<1>0. /\ HarnessTrue /\ wire \in Seq(Event) /\ sending \in Seq(Event)
      /\ UNCHANGED <<harnessVars, hostVars>> /\ PlannedTests' = PlannedTests
  BY DEF TruthFlow, LineFlow, GuestTypes, FailurePath, ResetFails, hostVars, PlannedTests
<1>1. ReportTrue' /\ planned' \in 1 .. MaxPlanned
  BY <1>0, ReportKept DEF hostVars, harnessVars, TruthFlow
<1>2. CASE SendFailureFrame
  <2> DEFINE e == Head(sending)
             rest == Tail(sending)
  <2>1. /\ sending # <<>> /\ wire' = Append(wire, e) /\ sending' = rest /\ pc = "returned"
    BY <1>0, <1>2 DEF SendFailureFrame, HarnessTrue
  <2>2. /\ e \in Event /\ e = sending[1] /\ 1 \in DOMAIN sending
        /\ \A i \in DOMAIN rest : i + 1 \in DOMAIN sending /\ rest[i] = sending[i + 1]
    BY <1>0, <2>1
  <2>3. /\ DOMAIN wire' = DOMAIN wire \cup {Len(wire) + 1}
        /\ wire'[Len(wire) + 1] = e /\ \A i \in DOMAIN wire : wire'[i] = wire[i]
    BY <1>0, <2>1, <2>2, LineGrows
  <2> HIDE DEF e, rest
  <2>4. FramesTrue(wire)' /\ FramesTrue(sending)'
    BY <1>0, <2>1, <2>2, <2>3 DEF HarnessTrue, FramesTrue, harnessVars
  <2>5. HarnessTrue'
    BY <1>0, <2>1, <2>4 DEF HarnessTrue, harnessVars
  <2> QED
    BY <1>0, <1>1, <2>5 DEF TruthFlow, harnessVars
<1>3. CASE SendFailureTimeout \/ ResetReturned
  <2>1. sending' = <<>> /\ UNCHANGED <<wire, active>>
    BY <1>3 DEF SendFailureTimeout, ResetReturned, Halt, lifecycle
  <2>2. FramesTrue(wire)' /\ FramesTrue(sending)'
    BY <1>0, <2>1 DEF HarnessTrue, FramesTrue, harnessVars
  <2>3. HarnessTrue'
    BY <1>0, <2>1, <2>2 DEF HarnessTrue, harnessVars
  <2> QED
    BY <1>0, <1>1, <2>3 DEF TruthFlow, harnessVars
<1> QED
  BY <1>2, <1>3 DEF FailurePath, ResetFails

\* The host reads an event, or comes to its verdict.
LEMMA HostStepTrue ==
    ASSUME LineFlow, TruthFlow, origin = "harness",
           HostDecode \/ HostConclude \/ HostIsCancelled
    PROVE  TruthFlow'
<1>0. /\ HarnessTrue /\ ReportTrue /\ wire \in Seq(Event)
      /\ UNCHANGED <<guestVars, harnessVars>> /\ planned' = planned
      /\ PlannedTests' = PlannedTests /\ verdict = Undecided
  BY DEF TruthFlow, LineFlow, GuestTypes, HostDecode, HostConclude, HostIsCancelled, HostObserve,
     HostReject, HostSummarize, HostCancel, PlannedTests
<1>1. HarnessTrue'
  BY <1>0 DEF HarnessTrue, FramesTrue, guestVars, harnessVars
<1>2. ASSUME NEW e \in Event, HostObserve(e),
             e.kind = "TestFinished" =>
                e.test \in PlannedTests /\ truth[e.test] = e.outcome /\ e.outcome \in Outcomes
      PROVE  ReportTrue'
  <2>1. /\ events' = Append(events, e) /\ collected' = Collect(e) /\ verdict' = Undecided
    BY <1>0, <1>2 DEF HostObserve
  <2>2. events' \in Seq(Event) /\ verdict'.kind # "report"
    BY <1>0, <2>1 DEF ReportTrue, Undecided
  <2>3. /\ DOMAIN collected' = PlannedTests
        /\ \A t \in PlannedTests : \/ collected'[t] = collected[t]
                                   \/ /\ collected'[t] = <<e.outcome, e.message>>
                                      /\ truth[t] = e.outcome /\ e.outcome \in Outcomes
    BY <1>0, <1>2, <2>1 DEF ReportTrue, Collect, GuestOutcome
  <2>4. \A t \in PlannedTests : collected'[t] # None =>
           truth[t] \in Outcomes /\ collected'[t][1] = truth[t]
    BY <1>0, <2>3 DEF ReportTrue
  <2> QED
    BY <1>0, <2>2, <2>3, <2>4 DEF ReportTrue, harnessVars
<1>3. ASSUME UNCHANGED <<events, collected>>, verdict'.kind # "report"
      PROVE  ReportTrue'
  BY <1>0, <1>3 DEF ReportTrue, harnessVars
<1>4. ASSUME NEW exit, NEW timedOut, NEW truncated, NEW overran,
             HostSummarize(exit, timedOut, truncated, overran)
      PROVE  ReportTrue'
  <2> DEFINE infra == Infrastructure(exit, timedOut)
             cases == CompletedPrefix
  <2>1. /\ UNCHANGED <<events, collected>>
        /\ verdict' = Summary(exit, timedOut, truncated, overran)
    BY <1>4 DEF HostSummarize
  <2>2. \/ verdict'.kind = "error"
        \/ /\ SealsResult(sealing, cases, infra)
           /\ verdict' = Report([t \in cases |-> collected[t]], infra)
    BY <2>1 DEF Summary, Failure
  <2>3. cases \subseteq PlannedTests /\ \A t \in cases : collected[t] # None
    BY DEF CompletedPrefix, PlannedTests
  <2>4. CASE verdict'.kind = "error"
    BY <1>3, <2>1, <2>4
  <2>5. CASE /\ SealsResult(sealing, cases, infra)
             /\ verdict' = Report([t \in cases |-> collected[t]], infra)
    <3>1. infra = None => cases = PlannedTests
      BY <2>5 DEF SealsResult
    <3> HIDE DEF infra, cases
    <3>2. verdict'.cases = [t \in cases |-> collected[t]] /\ verdict'.infra = infra
      BY <2>5 DEF Report
    <3> QED
      BY <1>0, <2>1, <2>3, <3>1, <3>2 DEF ReportTrue, harnessVars
  <2> QED
    BY <2>2, <2>4, <2>5
<1>5. CASE HostDecode
  <2> DEFINE e == wire[Len(events) + 1]
  <2>1. Len(events) + 1 \in DOMAIN wire
    BY <1>0, <1>5 DEF HostDecode, ReportTrue
  <2>2. e \in Event /\ (HostObserve(e) \/ HostReject(e))
    BY <1>0, <1>5, <2>1 DEF HostDecode
  <2>3. e.kind = "TestFinished" =>
           e.test \in PlannedTests /\ truth[e.test] = e.outcome /\ e.outcome \in Outcomes
    BY <1>0, <2>1, <2>2, EventFields DEF HarnessTrue, FramesTrue
  <2> HIDE DEF e
  <2>4. HostReject(e) => UNCHANGED <<events, collected>> /\ verdict'.kind # "report"
    BY DEF HostReject, Failure
  <2> QED
    BY <1>0, <1>1, <1>2, <1>3, <2>2, <2>3, <2>4 DEF TruthFlow, harnessVars
<1>6. CASE HostConclude
  BY <1>0, <1>1, <1>4, <1>6 DEF HostConclude, TruthFlow, harnessVars
<1>7. CASE HostIsCancelled
  <2>1. UNCHANGED <<events, collected>> /\ verdict'.kind # "report"
    BY <1>7 DEF HostIsCancelled, HostCancel, Failure
  <2> QED
    BY <1>0, <1>1, <1>3, <2>1 DEF TruthFlow, harnessVars
<1> QED
  BY <1>5, <1>6, <1>7

\* Every step of the run keeps the truth about the tests.
LEMMA TruthKeeps ==
    ASSUME GuestFlow, TruthFlow, [Next]_vars
    PROVE  TruthFlow'
<1>0. LineFlow /\ planned' = planned /\ origin' = origin
  BY DEF GuestFlow, Next, GuestStep, HarnessStep, HarnessEnter, HarnessEmit, HarnessFinish,
     BodyStep, BodyReturns, BodyAsserts, BodyShiftFault, BodyFatal, BodyHangs, BodyEnds,
     FailurePath, QemuShutdown, ResetFails, QemuCrash, ExecutorTimeout, QemuStops, HostStep,
     HostDecode, HostConclude, HostIsCancelled, HostObserve, HostReject, HostSummarize,
     HostCancel, HostNext, AnyCode, AnyLine, vars, hostVars, harnessVars
<1>1. CASE origin # "harness"
  <2>1. pc = "enter"
    BY <1>1 DEF TruthFlow
  <2>2. pc' = pc
    BY <1>1, <2>1 DEF Next, GuestStep, HarnessStep, HarnessEnter, HarnessEmit, HarnessFinish,
       BodyStep, BodyReturns, BodyAsserts, BodyShiftFault, BodyFatal, BodyHangs, BodyEnds,
       FailurePath, QemuShutdown, ResetFails, QemuCrash, ExecutorTimeout, QemuStops, HostStep,
       HostDecode, HostConclude, HostIsCancelled, AnyCode, AnyLine, vars, harnessVars
  <2> QED
    BY <1>0, <1>1, <2>1, <2>2 DEF TruthFlow, HarnessTrue, ReportTrue
<1>2. CASE origin = "harness" /\ (QemuShutdown \/ QemuCrash \/ ExecutorTimeout \/ UNCHANGED vars)
  <2>1. UNCHANGED <<wire, sending, active>> /\ UNCHANGED harnessVars /\ UNCHANGED hostVars
    BY <1>2 DEF QemuShutdown, QemuCrash, ExecutorTimeout, QemuStops, vars, guestVars, lifecycle
  <2>2. ReportTrue'
    BY <2>1, ReportKept DEF hostVars, harnessVars
  <2>3. HarnessTrue'
    BY <2>1 DEF TruthFlow, HarnessTrue, FramesTrue, PlannedTests, hostVars, harnessVars
  <2> QED
    BY <1>0, <2>1, <2>2, <2>3 DEF TruthFlow, harnessVars
<1> QED
  BY <1>0, <1>1, <1>2, HarnessStepTrue, BodyStepTrue, FailurePathTrue, HostStepTrue
     DEF Next, GuestStep, HostStep, AnyCode, AnyLine

\* Before the image starts.
LEMMA RunStarts == Init => RunFlow
<1> SUFFICES ASSUME Init PROVE RunFlow
  OBVIOUS
<1>1. /\ wire = <<>> /\ sending = <<>> /\ runtimeState = "cold" /\ partial = FALSE
      /\ sequence = 0 /\ declared = 0 /\ started = 0 /\ completedPassed = 0
      /\ active = None /\ testTerminal = None /\ status = "ok"
  BY DEF Init, GuestInit
<1>2. Ends(wire) = {} /\ DOMAIN wire = {}
  BY <1>1 DEF Ends
<1>3. LineFlow
  <2>0. <<>> \in Seq(Event)
    OBVIOUS
  <2>1. GuestTypes
    BY <1>1, <2>0, Zenon DEF GuestTypes
  <2>2. Numbered
    BY <1>1, CapacityAssumption DEF Numbered
  <2>3. FailingPath /\ Counted /\ EntryAndExit
    BY <1>1 DEF FailingPath, Counted, EntryAndExit
  <2>4. SuccessIsEarned /\ FailedLast
    BY <1>2 DEF SuccessIsEarned, FailedLast
  <2> QED
    BY <2>1, <2>2, <2>3, <2>4 DEF LineFlow
<1>4. CutOff
  BY <1>1 DEF CutOff
<1>5. /\ planned \in 1 .. MaxPlanned /\ pc = "enter" /\ test = 1 /\ events = <<>>
      /\ truth = [t \in PlannedTests |-> None] /\ collected = [t \in PlannedTests |-> None]
      /\ verdict.kind # "report"
  BY DEF Init, HostInit, Undecided
<1>6. 1 \in PlannedTests
  BY <1>5, PlannedAssumption DEF PlannedTests
<1>7. HarnessTrue
  BY <1>1, <1>5, <1>6 DEF HarnessTrue, FramesTrue
<1>8. ReportTrue
  BY <1>5 DEF ReportTrue
<1> QED
  BY <1>3, <1>4, <1>5, <1>7, <1>8 DEF RunFlow, GuestFlow, TruthFlow

\* For any number of tests, whoever calls the runtime and whenever the process
\* is stopped: the counters of the runtime are those of the line, and frames
\* and cases tell how the tests of the harness ended.
THEOREM RunInvariant == Spec => []RunFlow
<1>1. Init => RunFlow
  BY RunStarts
<1>2. RunFlow /\ [Next]_vars => RunFlow'
  BY GuestKeeps, TruthKeeps DEF RunFlow
<1> QED
  BY <1>1, <1>2, PTL DEF Spec

\* Whatever generated code does: the line is numbered without gaps and fits the
\* event limit, success is earned, failure is final, and the image resets only
\* after a complete terminal event.
THEOREM GuestAlwaysChecked == Spec => []GuestInv
<1>1. RunFlow => GuestInv
  <2> SUFFICES ASSUME RunFlow PROVE GuestInv
    OBVIOUS
  <2>0. LineFlow /\ GuestTypes /\ Numbered /\ FailedLast /\ EntryAndExit
    BY DEF RunFlow, GuestFlow, LineFlow
  <2>1. GuestTypeOK
    BY <2>0, CapacityAssumption DEF GuestTypes, Numbered, GuestTypeOK
  <2>2. WireDense
    <3>1. Len(wire) <= EventCapacity
      BY <2>0, CapacityAssumption DEF GuestTypes, Numbered
    <3> QED
      BY <2>0, <3>1 DEF Numbered, WireDense
  <2>3. FailureIsFinal
    <3> SUFFICES ASSUME NEW i \in Ends(wire) \ Passes(wire), NEW j \in DOMAIN wire, j > i
                 PROVE  j = i + 1 /\ IsKind(wire, j, "RunFinished") /\ wire[j].failed = 1
      BY DEF FailureIsFinal
    <3>1. i \in 1 .. Len(wire) /\ j \in 1 .. Len(wire) /\ Len(wire) \in Nat
      BY <2>0 DEF GuestTypes, Ends
    <3>2. /\ i + 1 = Len(wire) /\ wire[Len(wire)].kind = "RunFinished"
          /\ wire[Len(wire)].failed = 1
      BY <2>0, <3>1 DEF FailedLast
    <3>3. j = Len(wire)
      BY <3>1, <3>2
    <3> QED
      BY <3>2, <3>3 DEF IsKind
  <2>4. SuccessIsEarned /\ ExitAfterTerminal
    BY <2>0 DEF LineFlow, EntryAndExit, ExitAfterTerminal, IsKind
  <2> QED
    BY <2>1, <2>2, <2>3, <2>4 DEF GuestInv
<1> QED
  BY <1>1, RunInvariant, PTL

\* Every case of a report is how the test really ended.
THEOREM CasesAlwaysTrue == Spec => []CasesAreTrue
<1>1. RunFlow => CasesAreTrue
  BY DEF RunFlow, TruthFlow, ReportTrue, CasesAreTrue
<1> QED
  BY <1>1, RunInvariant, PTL

\* A report passes only when the body of every planned test has returned.
THEOREM NeverFalsePass == Spec => []NoFalsePass
<1>1. RunFlow => NoFalsePass
  BY DEF RunFlow, TruthFlow, ReportTrue, NoFalsePass, ReportPassed
<1> QED
  BY <1>1, RunInvariant, PTL
-----------------------------------------------------------------------------
(* What a stream that grows by one event must satisfy to stay well formed.  *)

HostEvent == Event \cup [seq : Nat, kind : {"Heartbeat"}, ticks : Nat]

Kinds == {"RunStarted", "TestStarted", "Log", "Heartbeat", "AssertionFailed",
          "TestFinished", "RunFinished"}

\* The fields of the events that the host decodes.
LEMMA HostEventFields ==
    ASSUME NEW e \in HostEvent
    PROVE  /\ e.seq \in Nat /\ e.kind \in Kinds
           /\ e.kind = "RunStarted" => e.count \in Nat
           /\ e.kind = "TestStarted" => e.test \in Tests
           /\ e.kind = "Log" => e.test \in Tests \cup {None}
           /\ e.kind = "Heartbeat" => e.ticks \in Nat
           /\ e.kind = "AssertionFailed" => e.test \in Tests /\ e.message \in Messages
           /\ e.kind = "TestFinished" =>
                e.test \in Tests /\ e.outcome \in Outcomes /\ e.message \in Messages
           /\ e.kind = "RunFinished" => e.passed \in Nat /\ e.failed \in Nat
BY DEF HostEvent, Event, Kinds, Outcomes, Messages

\* An event is what its fields say.
LEMMA HostEventShape ==
    ASSUME NEW e \in HostEvent
    PROVE  /\ e.kind = "TestStarted" => e = TestStarted(e.seq, e.test)
           /\ e.kind = "TestFinished" => e = TestFinished(e.seq, e.test, e.outcome, e.message)
           /\ e.kind = "TestFinished" /\ e.outcome = "Passed" => e.message = None
           /\ e.kind = "RunFinished" => e = RunFinished(e.seq, e.passed, e.failed)
<1>1. e.kind = "TestStarted" => e = TestStarted(e.seq, e.test)
  BY DEF HostEvent, Event, TestStarted
<1>2. e.kind = "TestFinished" => e = TestFinished(e.seq, e.test, e.outcome, e.message)
  BY DEF HostEvent, Event, TestFinished
<1>3. e.kind = "TestFinished" /\ e.outcome = "Passed" => e.message = None
  BY DEF HostEvent, Event
<1>4. e.kind = "RunFinished" => e = RunFinished(e.seq, e.passed, e.failed)
  BY DEF HostEvent, Event, RunFinished
<1> QED
  BY <1>1, <1>2, <1>3, <1>4

\* The events a free line may carry.
LEMMA LineEvents ==
    ASSUME NEW q \in Nat, NEW e \in EventsAt(q, Counts, Ticks)
    PROVE  e \in HostEvent /\ e.seq = q
BY OptionAssumption DEF EventsAt, HostEvent, Event, RunStarted, TestStarted, Log, Heartbeat,
   AssertionFailed, TestFinished, RunFinished, Messages, Outcomes

StartedIn(s, t) == \E i \in DOMAIN s : IsKind(s, i, "TestStarted") /\ s[i].test = t
EndedIn(s, t) == \E i \in DOMAIN s : IsEndOf(s, i, t)
EndsWith(s, k) == s # <<>> /\ IsKind(s, Len(s), k)

\* e may follow s.
Fits(s, e, limit) ==
    /\ Len(s) < limit /\ e.seq = Len(s)
    /\ e.kind = "RunStarted" <=> s = <<>>
    /\ e.kind = "RunStarted" => e.count <= limit
    /\ ~EndsWith(s, "RunFinished")
    /\ e.kind \in {"Log", "AssertionFailed", "TestFinished"} /\ e.test # None =>
          StartedIn(s, e.test) /\ ~EndedIn(s, e.test)
    /\ EndsWith(s, "AssertionFailed") =>
          /\ e.kind = "TestFinished" /\ e.test = s[Len(s)].test
          /\ e.outcome = "Failed" /\ e.message = TerminalMessage(s[Len(s)].message)
    /\ EndsWith(s, "TestFinished") /\ s[Len(s)].outcome = "LanguageFatal" =>
          e.kind = "RunFinished"
    /\ e.kind = "TestStarted" =>
          ~StartedIn(s, e.test) /\ Cardinality(Starts(s)) + 1 <= s[1].count
    /\ e.kind = "Heartbeat" =>
          \A i \in DOMAIN s : IsKind(s, i, "Heartbeat") => s[i].ticks < e.ticks
    /\ e.kind = "RunFinished" =>
          /\ Cardinality(Starts(s)) = s[1].count /\ Cardinality(Ends(s)) = s[1].count
          /\ e.passed = Cardinality(Passes(s)) /\ e.failed = Cardinality(Ends(s) \ Passes(s))

\* What was said of a position does not change when the stream grows behind it.
LEMMA PositionsKept ==
    ASSUME NEW s \in Seq(HostEvent), NEW e \in HostEvent
    PROVE  LET l == Append(s, e)
               n == Len(s) + 1
           IN  /\ \A i \in DOMAIN s : \A t : RunningAt(l, i, t) <=> RunningAt(s, i, t)
               /\ \A t : RunningAt(l, n, t) <=> StartedIn(s, t) /\ ~EndedIn(s, t)
               /\ \A i \in DOMAIN s : i < Len(s) =>
                    /\ AssertionFollowed(l, i) <=> AssertionFollowed(s, i)
                    /\ FatalFollowed(l, i) <=> FatalFollowed(s, i)
<1> DEFINE l == Append(s, e)
           n == Len(s) + 1
<1>1. /\ Len(l) = n /\ DOMAIN l = 1 .. n /\ DOMAIN s = 1 .. Len(s) /\ Len(s) \in Nat
      /\ l[n] = e /\ \A i \in 1 .. Len(s) : l[i] = s[i]
  BY LineGrows
<1> HIDE DEF l
<1>2. ASSUME NEW i \in 1 .. n, NEW t
      PROVE  /\ \A j \in 1 .. (i - 1) : j \in 1 .. Len(s) /\ l[j] = s[j]
             /\ RunningAt(l, i, t) <=>
                  /\ \E j \in 1 .. (i - 1) : IsKind(s, j, "TestStarted") /\ s[j].test = t
                  /\ \A j \in 1 .. (i - 1) : ~IsEndOf(s, j, t)
  <2>1. \A j \in 1 .. (i - 1) : j \in 1 .. Len(s) /\ l[j] = s[j]
    BY <1>1
  <2> QED
    BY <2>1 DEF RunningAt, IsKind, IsEndOf
<1>3. ASSUME NEW i \in DOMAIN s, NEW t PROVE RunningAt(l, i, t) <=> RunningAt(s, i, t)
  <2>1. i \in 1 .. n
    BY <1>1
  <2> QED
    BY <1>2, <2>1 DEF RunningAt
<1>4. ASSUME NEW t PROVE RunningAt(l, n, t) <=> StartedIn(s, t) /\ ~EndedIn(s, t)
  <2>1. n \in 1 .. n /\ 1 .. (n - 1) = DOMAIN s
    BY <1>1
  <2> QED
    BY <1>2, <2>1 DEF StartedIn, EndedIn
<1>5. ASSUME NEW i \in DOMAIN s, i < Len(s)
      PROVE  /\ AssertionFollowed(l, i) <=> AssertionFollowed(s, i)
             /\ FatalFollowed(l, i) <=> FatalFollowed(s, i)
  <2>1. l[i] = s[i] /\ l[i + 1] = s[i + 1]
    BY <1>1, <1>5
  <2> QED
    BY <2>1 DEF AssertionFollowed, FatalFollowed, IsKind, IsEndOf
<1> QED
  BY <1>3, <1>4, <1>5 DEF l

\* A well-formed stream stays so exactly when the event fits.
LEMMA WellFormedGrows ==
    ASSUME NEW s \in Seq(HostEvent), NEW e \in HostEvent, NEW limit \in Nat,
           WellFormed(s, limit)
    PROVE  WellFormed(Append(s, e), limit) <=> Fits(s, e, limit)
<1> DEFINE l == Append(s, e)
           n == Len(s) + 1
<1>1. /\ Len(l) = n /\ DOMAIN l = 1 .. n /\ DOMAIN s = 1 .. Len(s) /\ Len(s) \in Nat
      /\ l[n] = e /\ \A i \in 1 .. Len(s) : l[i] = s[i]
  BY LineGrows
<1>2. /\ \A i \in DOMAIN s : \A t : RunningAt(l, i, t) <=> RunningAt(s, i, t)
      /\ \A t : RunningAt(l, n, t) <=> StartedIn(s, t) /\ ~EndedIn(s, t)
      /\ \A i \in DOMAIN s : i < Len(s) =>
           /\ AssertionFollowed(l, i) <=> AssertionFollowed(s, i)
           /\ FatalFollowed(l, i) <=> FatalFollowed(s, i)
  BY PositionsKept
<1>3. /\ Starts(l) = IF e.kind = "TestStarted" THEN Starts(s) \cup {n} ELSE Starts(s)
      /\ Ends(l) = IF e.kind = "TestFinished" THEN Ends(s) \cup {n} ELSE Ends(s)
      /\ Passes(l) = IF e.kind = "TestFinished" /\ e.outcome = "Passed"
                     THEN Passes(s) \cup {n} ELSE Passes(s)
  BY MarksGrow
<1>4. Cardinality(Starts(l)) =
        IF e.kind = "TestStarted" THEN Cardinality(Starts(s)) + 1 ELSE Cardinality(Starts(s))
  BY MarksCount
<1>5. Cardinality(Starts(s)) \in Nat
  BY MarksFinite
<1>6. s = <<>> <=> Len(s) = 0
  OBVIOUS
<1>7. l # <<>>
  OBVIOUS
<1> HIDE DEF l
<1>8. s # <<>> => 1 \in 1 .. Len(s) /\ Len(s) \in 1 .. Len(s) /\ l[1] = s[1] /\ l[Len(s)] = s[Len(s)]
  BY <1>1, <1>6
<1>9. s = <<>> => n = 1 /\ l[1] = e /\ Starts(s) = {} /\ Cardinality(Starts(s)) = 0
  <2> SUFFICES ASSUME s = <<>> PROVE n = 1 /\ l[1] = e /\ Starts(s) = {} /\ Cardinality({}) = 0
    OBVIOUS
  <2>1. Starts(s) = {}
    BY <1>1, <1>6 DEF Starts
  <2> QED
    BY <1>1, <1>6, <2>1, FS_EmptySet
<1>10. ASSUME s # <<>>
       PROVE  /\ AssertionFollowed(l, Len(s)) <=>
                   (EndsWith(s, "AssertionFailed") =>
                      /\ e.kind = "TestFinished" /\ e.test = s[Len(s)].test
                      /\ e.outcome = "Failed" /\ e.message = TerminalMessage(s[Len(s)].message))
              /\ FatalFollowed(l, Len(s)) <=>
                   (EndsWith(s, "TestFinished") /\ s[Len(s)].outcome = "LanguageFatal" =>
                      e.kind = "RunFinished")
  BY <1>1, <1>8, <1>10 DEF AssertionFollowed, FatalFollowed, IsKind, IsEndOf, EndsWith
<1>11. ASSUME WellFormed(l, limit) PROVE Fits(s, e, limit)
  <2>1. /\ n <= limit /\ IsKind(l, 1, "RunStarted") /\ l[1].count <= limit
        /\ \A i \in 1 .. n :
             /\ l[i].seq = i - 1
             /\ IsKind(l, i, "RunStarted") => i = 1
             /\ NamesRunningTest(l, i)
             /\ TotalsAgree(l, i)
             /\ i < n => AssertionFollowed(l, i) /\ FatalFollowed(l, i)
        /\ \A i, j \in Starts(l) : l[i].test = l[j].test => i = j
        /\ Cardinality(Starts(l)) <= l[1].count
        /\ \A i, j \in 1 .. n :
             (IsKind(l, i, "Heartbeat") /\ IsKind(l, j, "Heartbeat") /\ i < j) =>
                 l[i].ticks < l[j].ticks
    BY <1>1, <1>7, <1>11 DEF WellFormed
  <2>2. n \in 1 .. n
    BY <1>1
  <2>3. Len(s) < limit /\ e.seq = Len(s)
    BY <1>1, <2>1, <2>2
  <2>4. e.kind = "RunStarted" <=> s = <<>>
    <3>1. s = <<>> => e.kind = "RunStarted"
      BY <1>9, <2>1 DEF IsKind
    <3>2. e.kind = "RunStarted" => n = 1
      BY <1>1, <2>1, <2>2 DEF IsKind
    <3> QED
      BY <1>1, <1>6, <3>1, <3>2
  <2>5. e.kind = "RunStarted" => e.count <= limit
    BY <1>9, <2>1, <2>4
  <2>6. ~EndsWith(s, "RunFinished")
    <3> SUFFICES ASSUME s # <<>>, IsKind(s, Len(s), "RunFinished") PROVE FALSE
      BY DEF EndsWith
    <3>1. Len(s) \in 1 .. n /\ l[Len(s)] = s[Len(s)]
      BY <1>1, <1>8
    <3>2. Len(s) = n
      BY <1>1, <2>1, <3>1 DEF TotalsAgree, IsKind
    <3> QED
      BY <1>1, <3>2
  <2>7. e.kind \in {"Log", "AssertionFailed", "TestFinished"} /\ e.test # None =>
          StartedIn(s, e.test) /\ ~EndedIn(s, e.test)
    BY <1>1, <1>2, <2>1, <2>2 DEF NamesRunningTest
  <2>8. /\ EndsWith(s, "AssertionFailed") =>
             /\ e.kind = "TestFinished" /\ e.test = s[Len(s)].test
             /\ e.outcome = "Failed" /\ e.message = TerminalMessage(s[Len(s)].message)
        /\ EndsWith(s, "TestFinished") /\ s[Len(s)].outcome = "LanguageFatal" =>
             e.kind = "RunFinished"
    <3>1. CASE s = <<>>
      BY <3>1 DEF EndsWith
    <3>2. CASE s # <<>>
      <4>1. Len(s) \in 1 .. n /\ Len(s) < n
        BY <1>1, <1>8, <3>2
      <4> QED
        BY <1>10, <2>1, <3>2, <4>1
    <3> QED
      BY <3>1, <3>2
  <2>9. ASSUME e.kind = "TestStarted"
        PROVE  ~StartedIn(s, e.test) /\ Cardinality(Starts(s)) + 1 <= s[1].count
    <3>1. s # <<>>
      BY <2>4, <2>9
    <3>2. ASSUME NEW i \in DOMAIN s, IsKind(s, i, "TestStarted"), s[i].test = e.test PROVE FALSE
      <4>1. i \in Starts(l) /\ n \in Starts(l)
        BY <1>3, <2>9, <3>2 DEF Starts
      <4>2. l[i].test = l[n].test
        BY <1>1, <3>2
      <4>3. i = n
        BY <2>1, <4>1, <4>2
      <4> QED
        BY <1>1, <4>3
    <3> QED
      BY <1>4, <1>8, <2>1, <2>9, <3>1, <3>2 DEF StartedIn
  <2>10. ASSUME e.kind = "Heartbeat", NEW i \in DOMAIN s, IsKind(s, i, "Heartbeat")
         PROVE  s[i].ticks < e.ticks
    <3>1. i \in 1 .. n /\ i < n /\ l[i] = s[i]
      BY <1>1
    <3> QED
      BY <1>1, <2>1, <2>2, <2>10, <3>1 DEF IsKind
  <2>11. ASSUME e.kind = "RunFinished"
         PROVE  /\ Cardinality(Starts(s)) = s[1].count /\ Cardinality(Ends(s)) = s[1].count
                /\ e.passed = Cardinality(Passes(s))
                /\ e.failed = Cardinality(Ends(s) \ Passes(s))
    <3>1. s # <<>>
      BY <2>4, <2>11
    <3>2. TotalsAgree(l, n) /\ IsKind(l, n, "RunFinished")
      BY <1>1, <2>1, <2>2, <2>11 DEF IsKind
    <3>3. Starts(l) = Starts(s) /\ Ends(l) = Ends(s) /\ Passes(l) = Passes(s) /\ l[1] = s[1]
      BY <1>3, <1>8, <2>11, <3>1
    <3> QED
      BY <1>1, <3>2, <3>3 DEF TotalsAgree
  <2> QED
    BY <2>3, <2>4, <2>5, <2>6, <2>7, <2>8, <2>9, <2>10, <2>11 DEF Fits
<1>12. ASSUME Fits(s, e, limit) PROVE WellFormed(l, limit)
  <2>1. n <= limit /\ e.seq = n - 1
    BY <1>1, <1>12 DEF Fits
  <2>2. IsKind(l, 1, "RunStarted") /\ l[1].count <= limit
    <3>1. CASE s = <<>>
      BY <1>9, <1>12, <3>1 DEF Fits, IsKind
    <3>2. CASE s # <<>>
      BY <1>8, <3>2 DEF WellFormed, IsKind
    <3> QED
      BY <3>1, <3>2
  <2>3. ASSUME NEW i \in 1 .. Len(s)
        PROVE  /\ l[i].seq = i - 1
               /\ IsKind(l, i, "RunStarted") => i = 1
               /\ NamesRunningTest(l, i)
               /\ TotalsAgree(l, i)
               /\ AssertionFollowed(l, i) /\ FatalFollowed(l, i)
    <3>1. l[i] = s[i] /\ i \in DOMAIN s /\ s # <<>>
      BY <1>1, <1>6
    <3>2. /\ s[i].seq = i - 1 /\ (IsKind(s, i, "RunStarted") => i = 1)
          /\ NamesRunningTest(s, i) /\ TotalsAgree(s, i)
          /\ i < Len(s) => AssertionFollowed(s, i) /\ FatalFollowed(s, i)
      BY <3>1 DEF WellFormed
    <3>3. NamesRunningTest(l, i)
      BY <1>2, <3>1, <3>2 DEF NamesRunningTest
    <3>4. ~IsKind(s, i, "RunFinished")
      BY <1>12, <3>1, <3>2 DEF TotalsAgree, Fits, EndsWith
    <3>5. TotalsAgree(l, i)
      BY <3>1, <3>4 DEF TotalsAgree, IsKind
    <3>6. CASE i < Len(s)
      BY <1>2, <3>1, <3>2, <3>3, <3>5, <3>6 DEF IsKind
    <3>7. CASE i = Len(s)
      BY <1>10, <1>12, <3>1, <3>2, <3>3, <3>5, <3>7 DEF IsKind, Fits
    <3>8. i < Len(s) \/ i = Len(s)
      <4>1. Len(s) \in Nat
        BY <1>1
      <4> QED
        BY <4>1
    <3> QED
      BY <3>6, <3>7, <3>8
  <2>4. /\ l[n].seq = n - 1 /\ (IsKind(l, n, "RunStarted") => n = 1)
        /\ NamesRunningTest(l, n) /\ TotalsAgree(l, n)
    <3>1. IsKind(l, n, "RunStarted") => n = 1
      BY <1>1, <1>9, <1>12 DEF IsKind, Fits
    <3>2. NamesRunningTest(l, n)
      BY <1>1, <1>2, <1>12 DEF NamesRunningTest, Fits
    <3>3. TotalsAgree(l, n)
      <4> SUFFICES ASSUME e.kind = "RunFinished" PROVE TotalsAgree(l, n)
        BY <1>1 DEF TotalsAgree, IsKind
      <4>1. s # <<>>
        BY <1>12 DEF Fits
      <4>2. Starts(l) = Starts(s) /\ Ends(l) = Ends(s) /\ Passes(l) = Passes(s) /\ l[1] = s[1]
        BY <1>3, <1>8, <4>1
      <4> QED
        BY <1>1, <1>12, <4>2 DEF TotalsAgree, Fits
    <3> QED
      BY <1>1, <2>1, <3>1, <3>2, <3>3
  <2>5. ASSUME NEW i \in DOMAIN l
        PROVE  /\ l[i].seq = i - 1
               /\ IsKind(l, i, "RunStarted") => i = 1
               /\ NamesRunningTest(l, i)
               /\ TotalsAgree(l, i)
               /\ i < Len(l) => AssertionFollowed(l, i) /\ FatalFollowed(l, i)
    <3>1. CASE i = n
      BY <1>1, <2>4, <3>1
    <3>2. CASE i # n
      <4>1. i \in 1 .. Len(s)
        BY <1>1, <3>2
      <4> QED
        BY <2>3, <4>1
    <3> QED
      BY <3>1, <3>2
  <2>6. ASSUME NEW i \in Starts(l), NEW j \in Starts(l), l[i].test = l[j].test PROVE i = j
    <3>1. \A a, b \in Starts(s) : s[a].test = s[b].test => a = b
      BY DEF WellFormed
    <3>2. \A a \in Starts(s) : a \in 1 .. Len(s) /\ l[a] = s[a] /\ StartedIn(s, s[a].test)
      BY <1>1 DEF Starts, StartedIn
    <3>3. CASE i \in Starts(s) /\ j \in Starts(s)
      BY <2>6, <3>1, <3>2, <3>3
    <3>4. CASE e.kind = "TestStarted" /\ (i = n \/ j = n)
      <4>1. ~StartedIn(s, e.test)
        BY <1>12, <3>4 DEF Fits
      <4>2. i \in Starts(s) \cup {n} /\ j \in Starts(s) \cup {n}
        BY <1>3, <3>4
      <4> QED
        BY <1>1, <2>6, <3>2, <3>4, <4>1, <4>2
    <3> QED
      BY <1>3, <3>3, <3>4
  <2>7. Cardinality(Starts(l)) <= l[1].count
    <3>1. CASE s = <<>>
      <4>1. e.kind = "RunStarted" /\ e.count \in Nat
        BY <1>12, <3>1, HostEventFields DEF Fits
      <4> QED
        BY <1>4, <1>9, <3>1, <4>1
    <3>2. CASE s # <<>>
      BY <1>4, <1>8, <1>12, <3>2 DEF WellFormed, Fits
    <3> QED
      BY <3>1, <3>2
  <2>8. ASSUME NEW i \in DOMAIN l, NEW j \in DOMAIN l,
               IsKind(l, i, "Heartbeat"), IsKind(l, j, "Heartbeat"), i < j
        PROVE  l[i].ticks < l[j].ticks
    <3>1. i \in 1 .. Len(s) /\ l[i] = s[i]
      BY <1>1, <2>8
    <3>2. CASE j = n
      BY <1>1, <1>12, <2>8, <3>1, <3>2 DEF Fits, IsKind
    <3>3. CASE j # n
      <4>1. j \in 1 .. Len(s) /\ l[j] = s[j]
        BY <1>1, <3>3
      <4> QED
        BY <1>1, <2>8, <3>1, <4>1 DEF WellFormed, IsKind
    <3> QED
      BY <3>2, <3>3
  <2> QED
    BY <1>1, <1>7, <2>1, <2>2, <2>5, <2>6, <2>7, <2>8 DEF WellFormed
<1> QED
  BY <1>11, <1>12 DEF l

-----------------------------------------------------------------------------
(* StreamState::observe.                                                   *)

StreamTypes(st) ==
    st \in [declared : Nat \cup {None},
            tests : [Tests -> {"Absent", "Active", "Finished"}],
            started : Nat, finished : Nat, passed : Nat, failed : Nat,
            languageFatal : BOOLEAN, pending : (Tests \X Messages) \cup {None},
            lastHeartbeat : Nat \cup {None}, terminal : BOOLEAN]

ActiveTests(st) == {t \in Tests : st.tests[t] = "Active"}

\* The tests of the state are those of the stream.
TestsFollow(st, s) ==
    \A t \in Tests : /\ st.tests[t] # "Absent" <=> StartedIn(s, t)
                     /\ st.tests[t] = "Finished" <=> EndedIn(s, t)

\* ... and so are its counts; a started test is active or finished.
CountsFollow(st, s) ==
    /\ st.started = Cardinality(Starts(s)) /\ st.finished = Cardinality(Ends(s))
    /\ st.passed = Cardinality(Passes(s)) /\ st.failed = Cardinality(Ends(s) \ Passes(s))
    /\ IsFiniteSet(ActiveTests(st))
    /\ st.started = st.finished + Cardinality(ActiveTests(st))
    /\ st.passed + st.failed = st.finished

\* What the last events leave to be checked.
LastFollows(st, s) ==
    /\ s = <<>> => st.declared = None
    /\ s # <<>> => st.declared \in Nat /\ st.declared = s[1].count
    /\ st.terminal <=> EndsWith(s, "RunFinished")
    /\ ~st.terminal => (st.languageFatal <=> /\ EndsWith(s, "TestFinished")
                                             /\ s[Len(s)].outcome = "LanguageFatal")
    /\ st.pending = IF EndsWith(s, "AssertionFailed")
                    THEN <<s[Len(s)].test, TerminalMessage(s[Len(s)].message)>> ELSE None
    /\ st.lastHeartbeat = None => \A i \in DOMAIN s : ~IsKind(s, i, "Heartbeat")
    /\ st.lastHeartbeat # None =>
          /\ \E i \in DOMAIN s : IsKind(s, i, "Heartbeat") /\ s[i].ticks = st.lastHeartbeat
          /\ \A i \in DOMAIN s : IsKind(s, i, "Heartbeat") => s[i].ticks <= st.lastHeartbeat

Follows(st, s) == TestsFollow(st, s) /\ CountsFollow(st, s) /\ LastFollows(st, s)

\* The host's decoder: the events accepted so far are a well-formed prefix and
\* the state of the decoder is a summary of them.
DecodeFlow ==
    /\ events \in Seq(HostEvent) /\ StreamTypes(stream)
    /\ WellFormed(events, EventLimit)
    /\ Follows(stream, events)

\* The decoder accepts exactly what fits.
LEMMA DecodesExactly ==
    ASSUME DecodeFlow, NEW e \in HostEvent
    PROVE  Decodes(e) <=> Fits(events, e, EventLimit)
<1> DEFINE s == events
           st == stream
<1>1. /\ s \in Seq(HostEvent) /\ StreamTypes(st) /\ WellFormed(s, EventLimit)
      /\ TestsFollow(st, s) /\ CountsFollow(st, s) /\ LastFollows(st, s)
  BY DEF DecodeFlow, Follows
<1>2. /\ e.seq \in Nat /\ e.kind \in Kinds
      /\ e.kind = "RunStarted" => e.count \in Nat
      /\ e.kind = "TestStarted" => e.test \in Tests
      /\ e.kind = "Log" => e.test \in Tests \cup {None}
      /\ e.kind = "Heartbeat" => e.ticks \in Nat
      /\ e.kind = "AssertionFailed" => e.test \in Tests /\ e.message \in Messages
      /\ e.kind = "TestFinished" =>
           e.test \in Tests /\ e.outcome \in Outcomes /\ e.message \in Messages
      /\ e.kind = "RunFinished" => e.passed \in Nat /\ e.failed \in Nat
  BY HostEventFields
<1>3. /\ Len(s) \in Nat /\ (s = <<>> <=> Len(s) = 0) /\ DOMAIN s = 1 .. Len(s)
      /\ \A i \in DOMAIN s : s[i] \in HostEvent
      /\ s # <<>> => Len(s) \in DOMAIN s /\ 1 \in DOMAIN s
  BY <1>1
<1>4. None \notin Nat /\ None \notin Tests /\ None \notin Tests \X Messages /\ EventLimit \in Nat
  BY OptionAssumption, EventAssumption DEF Messages
<1>5. st.declared = None <=> s = <<>>
  BY <1>1, <1>4 DEF LastFollows
<1>6. /\ st.started \in Nat /\ st.finished \in Nat /\ st.passed \in Nat /\ st.failed \in Nat
      /\ st.started <= EventLimit
      /\ s # <<>> => /\ st.declared \in Nat /\ st.declared = s[1].count
                     /\ st.started <= st.declared /\ st.declared <= EventLimit
  <2>1. /\ st.started \in Nat /\ st.finished \in Nat /\ st.passed \in Nat /\ st.failed \in Nat
        /\ st.started = Cardinality(Starts(s))
    BY <1>1 DEF StreamTypes, CountsFollow
  <2>2. s = <<>> => st.started = 0
    BY <1>1, <2>1 DEF WellFormed
  <2>3. s # <<>> => /\ st.declared \in Nat /\ st.declared = s[1].count
                    /\ st.started <= st.declared /\ st.declared <= EventLimit
    BY <1>1, <2>1 DEF WellFormed, LastFollows
  <2> QED
    BY <1>4, <2>1, <2>2, <2>3
<1>7. \A t \in Tests : /\ st.tests[t] = "Absent" <=> ~StartedIn(s, t)
                       /\ RequireActive(st, t) <=> StartedIn(s, t) /\ ~EndedIn(s, t)
  BY <1>1 DEF TestsFollow, StreamTypes, RequireActive
<1>8. ASSUME NEW t \in Tests, RequireActive(st, t) PROVE st.finished + 1 <= st.started
  <2>1. t \in ActiveTests(st)
    BY <1>8 DEF ActiveTests, RequireActive
  <2>2. IsFiniteSet(ActiveTests(st)) /\ st.started = st.finished + Cardinality(ActiveTests(st))
    BY <1>1 DEF CountsFollow
  <2>3. Cardinality(ActiveTests(st)) \in Nat /\ Cardinality(ActiveTests(st)) # 0
    BY <2>1, <2>2, FS_CardinalityType, FS_EmptySet
  <2> QED
    BY <1>6, <2>2, <2>3
<1>9. EndsWith(s, "AssertionFailed") =>
        /\ s[Len(s)].test \in Tests /\ TerminalMessage(s[Len(s)].message) \in Messages
        /\ st.pending # None
  <2> SUFFICES ASSUME EndsWith(s, "AssertionFailed")
               PROVE  /\ s[Len(s)].test \in Tests /\ TerminalMessage(s[Len(s)].message) \in Messages
                      /\ st.pending # None
    OBVIOUS
  <2>1. s[Len(s)] \in HostEvent /\ s[Len(s)].kind = "AssertionFailed"
    BY <1>3 DEF EndsWith, IsKind
  <2>2. s[Len(s)].test \in Tests /\ s[Len(s)].message \in Messages
    BY <2>1, HostEventFields
  <2>3. TerminalMessage(s[Len(s)].message) \in Messages
    BY <2>2 DEF TerminalMessage, Messages
  <2>4. st.pending = <<s[Len(s)].test, TerminalMessage(s[Len(s)].message)>>
    BY <1>1 DEF LastFollows
  <2> QED
    BY <1>4, <2>2, <2>3, <2>4
<1>10. ASSUME e.kind # "RunStarted", s # <<>>
       PROVE  InOrder(st, e) <=>
                /\ ~EndsWith(s, "RunFinished")
                /\ EndsWith(s, "AssertionFailed") =>
                     /\ e.kind = "TestFinished" /\ e.test = s[Len(s)].test
                     /\ e.outcome = "Failed"
                     /\ e.message = TerminalMessage(s[Len(s)].message)
                /\ EndsWith(s, "TestFinished") /\ s[Len(s)].outcome = "LanguageFatal" =>
                     e.kind = "RunFinished"
  <2>1. st.terminal <=> EndsWith(s, "RunFinished")
    BY <1>1 DEF LastFollows
  <2>2. ~st.terminal => (st.languageFatal <=> /\ EndsWith(s, "TestFinished")
                                              /\ s[Len(s)].outcome = "LanguageFatal")
    BY <1>1 DEF LastFollows
  <2>3. st.pending = IF EndsWith(s, "AssertionFailed")
                     THEN <<s[Len(s)].test, TerminalMessage(s[Len(s)].message)>> ELSE None
    BY <1>1 DEF LastFollows
  <2>4. (st.pending # None =>
           /\ e.kind = "TestFinished" /\ e.outcome = "Failed"
           /\ <<e.test, e.message>> = st.pending)
        <=> (EndsWith(s, "AssertionFailed") =>
               /\ e.kind = "TestFinished" /\ e.test = s[Len(s)].test
               /\ e.outcome = "Failed"
               /\ e.message = TerminalMessage(s[Len(s)].message))
    BY <1>9, <2>3
  <2> QED
    BY <1>5, <1>10, <2>1, <2>2, <2>4 DEF InOrder
<1>11. EndsWith(s, "RunFinished") \/ EndsWith(s, "AssertionFailed") \/ EndsWith(s, "TestFinished")
         => s # <<>>
  BY DEF EndsWith
<1>12. e.kind = "Heartbeat" =>
         ((st.lastHeartbeat # None => st.lastHeartbeat < e.ticks)
            <=> \A i \in DOMAIN s : IsKind(s, i, "Heartbeat") => s[i].ticks < e.ticks)
  <2> SUFFICES ASSUME e.kind = "Heartbeat"
               PROVE  (st.lastHeartbeat # None => st.lastHeartbeat < e.ticks)
                        <=> \A i \in DOMAIN s : IsKind(s, i, "Heartbeat") => s[i].ticks < e.ticks
    OBVIOUS
  <2>1. \A i \in DOMAIN s : IsKind(s, i, "Heartbeat") => s[i].ticks \in Nat
    BY <1>3, HostEventFields DEF IsKind
  <2>2. st.lastHeartbeat # None => st.lastHeartbeat \in Nat
    BY <1>1 DEF StreamTypes
  <2>3. e.ticks \in Nat
    BY <1>2
  <2> QED
    BY <1>1, <2>1, <2>2, <2>3 DEF LastFollows
<1>13. e.kind = "RunFinished" /\ s # <<>> =>
         /\ RunFinishedFits(st, e) <=>
              /\ Cardinality(Starts(s)) = s[1].count /\ Cardinality(Ends(s)) = s[1].count
              /\ e.passed = Cardinality(Passes(s))
              /\ e.failed = Cardinality(Ends(s) \ Passes(s))
         /\ RunFinishedFits(st, e) => e.passed + e.failed <= EventLimit
  <2>1. /\ st.started = Cardinality(Starts(s)) /\ st.finished = Cardinality(Ends(s))
        /\ st.passed = Cardinality(Passes(s)) /\ st.failed = Cardinality(Ends(s) \ Passes(s))
        /\ st.passed + st.failed = st.finished
    BY <1>1 DEF CountsFollow
  <2>2. e.kind = "RunFinished" /\ s # <<>> =>
          (RunFinishedFits(st, e) <=>
            /\ Cardinality(Starts(s)) = s[1].count /\ Cardinality(Ends(s)) = s[1].count
            /\ e.passed = Cardinality(Passes(s))
            /\ e.failed = Cardinality(Ends(s) \ Passes(s)))
    BY <1>6, <2>1 DEF RunFinishedFits
  <2>3. e.kind = "RunFinished" /\ s # <<>> =>
          (RunFinishedFits(st, e) => e.passed + e.failed <= EventLimit)
    BY <1>2, <1>4, <1>6 DEF RunFinishedFits
  <2> QED
    BY <2>2, <2>3
<1> HIDE DEF s, st
<1>14. Decodes(e) <=> /\ Len(s) < EventLimit /\ e.seq = Len(s)
                      /\ e.kind = "RunFinished" => e.passed + e.failed <= EventLimit
                      /\ Observes(st, e)
  BY DEF Decodes, s, st
<1> SUFFICES Decodes(e) <=> Fits(s, e, EventLimit)
  BY DEF s
<1> DEFINE Ordered ==
             /\ ~EndsWith(s, "RunFinished")
             /\ EndsWith(s, "AssertionFailed") =>
                  /\ e.kind = "TestFinished" /\ e.test = s[Len(s)].test
                  /\ e.outcome = "Failed"
                  /\ e.message = TerminalMessage(s[Len(s)].message)
             /\ EndsWith(s, "TestFinished") /\ s[Len(s)].outcome = "LanguageFatal" =>
                  e.kind = "RunFinished"
           Enough == Len(s) < EventLimit /\ e.seq = Len(s)
<1>15. CASE e.kind = "RunStarted"
  <2>1. Observes(st, e) <=> st.declared = None /\ e.seq = 0 /\ e.count <= EventLimit
    BY <1>15 DEF Observes
  <2>2. Fits(s, e, EventLimit) <=> /\ Enough /\ s = <<>> /\ e.count <= EventLimit
                                   /\ ~EndsWith(s, "RunFinished")
                                   /\ ~EndsWith(s, "AssertionFailed")
                                   /\ ~(EndsWith(s, "TestFinished") /\ s[Len(s)].outcome = "LanguageFatal")
    BY <1>15 DEF Fits
  <2> QED
    BY <1>3, <1>5, <1>11, <1>14, <1>15, <2>1, <2>2
<1>16. CASE s = <<>> /\ e.kind # "RunStarted"
  <2>1. ~Observes(st, e)
    BY <1>5, <1>16 DEF Observes, InOrder
  <2>2. ~Fits(s, e, EventLimit)
    BY <1>16 DEF Fits
  <2> QED
    BY <1>14, <2>1, <2>2
<1>a. ASSUME s # <<>>, e.kind # "RunStarted"
      PROVE  Fits(s, e, EventLimit) <=>
               /\ Enough /\ Ordered
               /\ e.kind \in {"Log", "AssertionFailed", "TestFinished"} /\ e.test # None =>
                     StartedIn(s, e.test) /\ ~EndedIn(s, e.test)
               /\ e.kind = "TestStarted" =>
                     ~StartedIn(s, e.test) /\ Cardinality(Starts(s)) + 1 <= s[1].count
               /\ e.kind = "Heartbeat" =>
                     \A i \in DOMAIN s : IsKind(s, i, "Heartbeat") => s[i].ticks < e.ticks
               /\ e.kind = "RunFinished" =>
                     /\ Cardinality(Starts(s)) = s[1].count /\ Cardinality(Ends(s)) = s[1].count
                     /\ e.passed = Cardinality(Passes(s))
                     /\ e.failed = Cardinality(Ends(s) \ Passes(s))
  BY <1>a, Zenon DEF Fits
<1>b. ASSUME s # <<>>, e.kind # "RunStarted" PROVE InOrder(st, e) <=> Ordered
  BY <1>10, <1>b
<1> HIDE DEF Ordered, Enough
<1>c. Decodes(e) <=> /\ Enough /\ (e.kind = "RunFinished" => e.passed + e.failed <= EventLimit)
                     /\ Observes(st, e)
  BY <1>14 DEF Enough
<1>17. CASE s # <<>> /\ e.kind = "TestStarted"
  <2>1. Observes(st, e) <=> /\ InOrder(st, e) /\ st.started + 1 <= st.declared
                            /\ st.tests[e.test] = "Absent"
    BY <1>17 DEF Observes
  <2>2. st.started = Cardinality(Starts(s)) /\ st.declared = s[1].count
    BY <1>1, <1>6, <1>17 DEF CountsFollow, s, st
  <2>3. st.tests[e.test] = "Absent" <=> ~StartedIn(s, e.test)
    BY <1>2, <1>7, <1>17
  <2>4. Fits(s, e, EventLimit) <=> /\ Enough /\ Ordered /\ ~StartedIn(s, e.test)
                                   /\ Cardinality(Starts(s)) + 1 <= s[1].count
    BY <1>a, <1>17
  <2> QED
    BY <1>b, <1>c, <1>17, <2>1, <2>2, <2>3, <2>4
<1>18. CASE s # <<>> /\ e.kind = "Log"
  <2>1. Observes(st, e) <=> InOrder(st, e) /\ (e.test # None => RequireActive(st, e.test))
    BY <1>18 DEF Observes
  <2>2. e.test # None => (RequireActive(st, e.test) <=> StartedIn(s, e.test) /\ ~EndedIn(s, e.test))
    BY <1>2, <1>7, <1>18
  <2>3. Fits(s, e, EventLimit) <=>
          /\ Enough /\ Ordered
          /\ e.test # None => StartedIn(s, e.test) /\ ~EndedIn(s, e.test)
    BY <1>a, <1>18
  <2> QED
    BY <1>b, <1>c, <1>18, <2>1, <2>2, <2>3
<1>19. CASE s # <<>> /\ e.kind = "AssertionFailed"
  <2>1. Observes(st, e) <=> InOrder(st, e) /\ RequireActive(st, e.test)
    BY <1>19 DEF Observes
  <2>2. e.test # None /\ (RequireActive(st, e.test) <=> StartedIn(s, e.test) /\ ~EndedIn(s, e.test))
    BY <1>2, <1>4, <1>7, <1>19
  <2>3. Fits(s, e, EventLimit) <=>
          Enough /\ Ordered /\ StartedIn(s, e.test) /\ ~EndedIn(s, e.test)
    BY <1>a, <1>19, <2>2
  <2> QED
    BY <1>b, <1>c, <1>19, <2>1, <2>2, <2>3
<1>20. CASE s # <<>> /\ e.kind = "TestFinished"
  <2>1. Observes(st, e) <=> /\ InOrder(st, e) /\ RequireActive(st, e.test)
                            /\ st.finished + 1 <= st.declared
    BY <1>20 DEF Observes
  <2>2. RequireActive(st, e.test) => st.finished + 1 <= st.declared
    BY <1>2, <1>6, <1>8, <1>20
  <2>3. e.test # None /\ (RequireActive(st, e.test) <=> StartedIn(s, e.test) /\ ~EndedIn(s, e.test))
    BY <1>2, <1>4, <1>7, <1>20
  <2>4. Fits(s, e, EventLimit) <=>
          Enough /\ Ordered /\ StartedIn(s, e.test) /\ ~EndedIn(s, e.test)
    BY <1>a, <1>20, <2>3
  <2> QED
    BY <1>b, <1>c, <1>20, <2>1, <2>2, <2>3, <2>4
<1>21. CASE s # <<>> /\ e.kind = "Heartbeat"
  <2>1. Observes(st, e) <=> /\ InOrder(st, e)
                            /\ st.lastHeartbeat # None => st.lastHeartbeat < e.ticks
    BY <1>21 DEF Observes
  <2>2. Fits(s, e, EventLimit) <=>
          /\ Enough /\ Ordered
          /\ \A i \in DOMAIN s : IsKind(s, i, "Heartbeat") => s[i].ticks < e.ticks
    BY <1>a, <1>21
  <2> QED
    BY <1>b, <1>c, <1>12, <1>21, <2>1, <2>2
<1>22. CASE s # <<>> /\ e.kind = "RunFinished"
  <2>1. Observes(st, e) <=> InOrder(st, e) /\ RunFinishedFits(st, e)
    BY <1>22 DEF Observes
  <2>2. Fits(s, e, EventLimit) <=>
          /\ Enough /\ Ordered
          /\ Cardinality(Starts(s)) = s[1].count /\ Cardinality(Ends(s)) = s[1].count
          /\ e.passed = Cardinality(Passes(s)) /\ e.failed = Cardinality(Ends(s) \ Passes(s))
    BY <1>a, <1>22
  <2> QED
    BY <1>b, <1>c, <1>13, <1>22, <2>1, <2>2
<1> QED
  BY <1>2, <1>15, <1>16, <1>17, <1>18, <1>19, <1>20, <1>21, <1>22 DEF Kinds

\* The fields of the state that observe leaves behind.
LEMMA ObservedFields ==
    ASSUME NEW st, StreamTypes(st), NEW e \in HostEvent
    PROVE  LET r == Observed(st, e)
               ended == e.kind = "TestFinished"
           IN  /\ StreamTypes(r)
               /\ r.declared = IF e.kind = "RunStarted" THEN e.count ELSE st.declared
               /\ r.tests = IF e.kind = "TestStarted" THEN [st.tests EXCEPT ![e.test] = "Active"]
                            ELSE IF ended THEN [st.tests EXCEPT ![e.test] = "Finished"]
                            ELSE st.tests
               /\ r.started = IF e.kind = "TestStarted" THEN st.started + 1 ELSE st.started
               /\ r.finished = IF ended THEN st.finished + 1 ELSE st.finished
               /\ r.passed = IF ended /\ e.outcome = "Passed" THEN st.passed + 1 ELSE st.passed
               /\ r.failed = IF ended /\ e.outcome # "Passed" THEN st.failed + 1 ELSE st.failed
               /\ r.languageFatal <=> st.languageFatal \/ (ended /\ e.outcome = "LanguageFatal")
               /\ r.pending = IF e.kind = "AssertionFailed"
                              THEN <<e.test, TerminalMessage(e.message)>>
                              ELSE IF ended THEN None ELSE st.pending
               /\ r.lastHeartbeat = IF e.kind = "Heartbeat" THEN e.ticks ELSE st.lastHeartbeat
               /\ r.terminal <=> st.terminal \/ e.kind = "RunFinished"
<1>1. /\ e.seq \in Nat /\ e.kind \in Kinds
      /\ e.kind = "RunStarted" => e.count \in Nat
      /\ e.kind = "TestStarted" => e.test \in Tests
      /\ e.kind = "Heartbeat" => e.ticks \in Nat
      /\ e.kind = "AssertionFailed" => e.test \in Tests /\ e.message \in Messages
      /\ e.kind = "TestFinished" =>
           e.test \in Tests /\ e.outcome \in Outcomes /\ e.message \in Messages
  BY HostEventFields
<1>2. e.kind = "AssertionFailed" => TerminalMessage(e.message) \in Messages
  BY <1>1 DEF TerminalMessage, Messages
<1>3. CASE e.kind = "RunStarted"
  <2>1. Observed(st, e) = [st EXCEPT !.declared = e.count]
    BY <1>3 DEF Observed
  <2> QED
    BY <1>1, <1>3, <2>1 DEF StreamTypes
<1>4. CASE e.kind = "TestStarted"
  <2> DEFINE q == [st.tests EXCEPT ![e.test] = "Active"]
             r == [st EXCEPT !.started = @ + 1, !.tests = q]
  <2>1. Observed(st, e) = r
    BY <1>4 DEF Observed, StreamTypes
  <2>2. q \in [Tests -> {"Absent", "Active", "Finished"}]
    BY DEF StreamTypes
  <2>3. st.started + 1 \in Nat
    BY DEF StreamTypes
  <2> HIDE DEF q
  <2>4. StreamTypes(r) /\ r.tests = q /\ r.started = st.started + 1
    BY <2>2, <2>3 DEF StreamTypes
  <2>5. /\ r.declared = st.declared /\ r.finished = st.finished /\ r.passed = st.passed
        /\ r.failed = st.failed /\ r.languageFatal = st.languageFatal
        /\ r.pending = st.pending /\ r.lastHeartbeat = st.lastHeartbeat
        /\ r.terminal = st.terminal
    BY DEF StreamTypes
  <2> HIDE DEF r
  <2> QED
    BY <1>4, <2>1, <2>4, <2>5 DEF q
<1>5. CASE e.kind = "Log"
  <2>1. Observed(st, e) = st
    BY <1>5 DEF Observed
  <2> QED
    BY <1>1, <1>5, <2>1 DEF StreamTypes
<1>6. CASE e.kind = "AssertionFailed"
  <2>1. Observed(st, e) = [st EXCEPT !.pending = <<e.test, TerminalMessage(e.message)>>]
    BY <1>6 DEF Observed
  <2> QED
    BY <1>1, <1>2, <1>6, <2>1 DEF StreamTypes
<1>7. CASE e.kind = "TestFinished"
  <2> DEFINE q == [st.tests EXCEPT ![e.test] = "Finished"]
             p == IF e.outcome = "Passed" THEN st.passed + 1 ELSE st.passed
             f == IF e.outcome = "Passed" THEN st.failed ELSE st.failed + 1
             b == st.languageFatal \/ e.outcome = "LanguageFatal"
             r == [st EXCEPT !.tests = q, !.finished = @ + 1, !.passed = p, !.failed = f,
                             !.languageFatal = b, !.pending = None]
  <2>1. Observed(st, e) = r
    BY <1>7 DEF Observed, StreamTypes
  <2>2. q \in [Tests -> {"Absent", "Active", "Finished"}]
    BY DEF StreamTypes
  <2>3. st.finished + 1 \in Nat /\ p \in Nat /\ f \in Nat
    BY DEF StreamTypes
  <2>4. b \in BOOLEAN
    OBVIOUS
  <2> HIDE DEF q, p, f, b
  <2>5. StreamTypes(r)
    BY <2>2, <2>3, <2>4 DEF StreamTypes
  <2>6. /\ r.tests = q /\ r.finished = st.finished + 1 /\ r.passed = p /\ r.failed = f
        /\ r.languageFatal = b /\ r.pending = None
    BY DEF StreamTypes
  <2>7. /\ r.declared = st.declared /\ r.started = st.started
        /\ r.lastHeartbeat = st.lastHeartbeat /\ r.terminal = st.terminal
    BY DEF StreamTypes
  <2> HIDE DEF r
  <2>8. st.languageFatal \in BOOLEAN
    BY DEF StreamTypes
  <2>9. r.languageFatal <=> st.languageFatal \/ e.outcome = "LanguageFatal"
    BY <2>6 DEF b
  <2> QED
    BY <1>7, <2>1, <2>5, <2>6, <2>7, <2>9 DEF q, p, f
<1>8. CASE e.kind = "Heartbeat"
  <2>1. Observed(st, e) = [st EXCEPT !.lastHeartbeat = e.ticks]
    BY <1>8 DEF Observed
  <2> QED
    BY <1>1, <1>8, <2>1 DEF StreamTypes
<1>9. CASE e.kind = "RunFinished"
  <2>1. Observed(st, e) = [st EXCEPT !.terminal = TRUE]
    BY <1>9 DEF Observed
  <2> QED
    BY <1>1, <1>9, <2>1 DEF StreamTypes
<1> QED
  BY <1>1, <1>3, <1>4, <1>5, <1>6, <1>7, <1>8, <1>9 DEF Kinds

\* What of a stream changes with its last event.
LEMMA StreamGrows ==
    ASSUME NEW s \in Seq(HostEvent), NEW e \in HostEvent
    PROVE  LET l == Append(s, e) IN
           /\ l \in Seq(HostEvent) /\ l # <<>> /\ l[Len(l)] = e
           /\ l[1] = IF s = <<>> THEN e ELSE s[1]
           /\ \A k : EndsWith(l, k) <=> e.kind = k
           /\ \A t : StartedIn(l, t) <=> StartedIn(s, t) \/ (e.kind = "TestStarted" /\ e.test = t)
           /\ \A t : EndedIn(l, t) <=> EndedIn(s, t) \/ (e.kind = "TestFinished" /\ e.test = t)
           /\ Cardinality(Ends(l) \ Passes(l)) =
                 IF e.kind = "TestFinished" /\ e.outcome # "Passed"
                 THEN Cardinality(Ends(s) \ Passes(s)) + 1 ELSE Cardinality(Ends(s) \ Passes(s))
<1> DEFINE l == Append(s, e)
           n == Len(s) + 1
<1>1. /\ l \in Seq(HostEvent) /\ Len(l) = n /\ DOMAIN l = 1 .. n /\ DOMAIN s = 1 .. Len(s)
      /\ l[n] = e /\ \A i \in 1 .. Len(s) : l[i] = s[i]
  BY LineGrows
<1>2. l # <<>> /\ Len(s) \in Nat /\ (s = <<>> <=> Len(s) = 0)
  OBVIOUS
<1>3. /\ Ends(l) = IF e.kind = "TestFinished" THEN Ends(s) \cup {n} ELSE Ends(s)
      /\ Passes(l) = IF e.kind = "TestFinished" /\ e.outcome = "Passed"
                     THEN Passes(s) \cup {n} ELSE Passes(s)
      /\ n \notin Starts(s) \cup Ends(s) \cup Passes(s)
  BY MarksGrow
<1>4. IsFiniteSet(Ends(s) \ Passes(s))
  BY MarksFinite, FS_Difference
<1> HIDE DEF l
<1>5. l[1] = IF s = <<>> THEN e ELSE s[1]
  <2>1. s = <<>> => n = 1
    BY <1>2
  <2>2. s # <<>> => 1 \in 1 .. Len(s)
    BY <1>2
  <2> QED
    BY <1>1, <2>1, <2>2
<1>6. \A k : EndsWith(l, k) <=> e.kind = k
  BY <1>1, <1>2 DEF EndsWith, IsKind
<1>7. DOMAIN l = DOMAIN s \cup {n} /\ \A i \in DOMAIN s : l[i] = s[i]
  BY <1>1, <1>2
<1> HIDE DEF n
<1>8. \A t : StartedIn(l, t) <=> StartedIn(s, t) \/ (e.kind = "TestStarted" /\ e.test = t)
  BY <1>1, <1>7 DEF StartedIn, IsKind
<1>9. \A t : EndedIn(l, t) <=> EndedIn(s, t) \/ (e.kind = "TestFinished" /\ e.test = t)
  BY <1>1, <1>7 DEF EndedIn, IsEndOf, IsKind
<1>10. Ends(l) \ Passes(l) = IF e.kind = "TestFinished" /\ e.outcome # "Passed"
                             THEN (Ends(s) \ Passes(s)) \cup {n} ELSE Ends(s) \ Passes(s)
  BY <1>3
<1>11. Cardinality((Ends(s) \ Passes(s)) \cup {n}) = Cardinality(Ends(s) \ Passes(s)) + 1
  BY <1>3, <1>4, FS_AddElement
<1>12. Cardinality(Ends(l) \ Passes(l)) =
         IF e.kind = "TestFinished" /\ e.outcome # "Passed"
         THEN Cardinality(Ends(s) \ Passes(s)) + 1 ELSE Cardinality(Ends(s) \ Passes(s))
  BY <1>10, <1>11
<1> QED
  BY <1>1, <1>2, <1>5, <1>6, <1>8, <1>9, <1>12 DEF l

\* An accepted event keeps the decoder's state a summary of the stream.
LEMMA ObserveKeepsDecode ==
    ASSUME DecodeFlow, NEW e \in HostEvent, Decodes(e),
           events' = Append(events, e), stream' = Observed(stream, e)
    PROVE  DecodeFlow'
<1> DEFINE s == events
           st == stream
           l == Append(s, e)
           r == Observed(st, e)
<1>1. /\ s \in Seq(HostEvent) /\ StreamTypes(st) /\ WellFormed(s, EventLimit)
      /\ TestsFollow(st, s) /\ CountsFollow(st, s) /\ LastFollows(st, s)
  BY DEF DecodeFlow, Follows
<1>2. Fits(s, e, EventLimit)
  BY DecodesExactly
<1>3. WellFormed(l, EventLimit)
  BY <1>1, <1>2, WellFormedGrows, OptionAssumption
<1>4. /\ l \in Seq(HostEvent) /\ l # <<>> /\ l[Len(l)] = e
      /\ l[1] = IF s = <<>> THEN e ELSE s[1]
      /\ \A k : EndsWith(l, k) <=> e.kind = k
      /\ \A t : StartedIn(l, t) <=> StartedIn(s, t) \/ (e.kind = "TestStarted" /\ e.test = t)
      /\ \A t : EndedIn(l, t) <=> EndedIn(s, t) \/ (e.kind = "TestFinished" /\ e.test = t)
      /\ Cardinality(Ends(l) \ Passes(l)) =
            IF e.kind = "TestFinished" /\ e.outcome # "Passed"
            THEN Cardinality(Ends(s) \ Passes(s)) + 1 ELSE Cardinality(Ends(s) \ Passes(s))
  BY <1>1, StreamGrows
<1>5. /\ Cardinality(Starts(l)) =
           IF e.kind = "TestStarted" THEN Cardinality(Starts(s)) + 1 ELSE Cardinality(Starts(s))
      /\ Cardinality(Passes(l)) =
           IF e.kind = "TestFinished" /\ e.outcome = "Passed"
           THEN Cardinality(Passes(s)) + 1 ELSE Cardinality(Passes(s))
      /\ Cardinality(Ends(l)) =
           IF e.kind = "TestFinished" THEN Cardinality(Ends(s)) + 1 ELSE Cardinality(Ends(s))
  BY <1>1, MarksCount
<1>6. /\ StreamTypes(r)
      /\ r.declared = IF e.kind = "RunStarted" THEN e.count ELSE st.declared
      /\ r.tests = IF e.kind = "TestStarted" THEN [st.tests EXCEPT ![e.test] = "Active"]
                   ELSE IF e.kind = "TestFinished" THEN [st.tests EXCEPT ![e.test] = "Finished"]
                   ELSE st.tests
      /\ r.started = IF e.kind = "TestStarted" THEN st.started + 1 ELSE st.started
      /\ r.finished = IF e.kind = "TestFinished" THEN st.finished + 1 ELSE st.finished
      /\ r.passed = IF e.kind = "TestFinished" /\ e.outcome = "Passed"
                    THEN st.passed + 1 ELSE st.passed
      /\ r.failed = IF e.kind = "TestFinished" /\ e.outcome # "Passed"
                    THEN st.failed + 1 ELSE st.failed
      /\ r.languageFatal <=>
           st.languageFatal \/ (e.kind = "TestFinished" /\ e.outcome = "LanguageFatal")
      /\ r.pending = IF e.kind = "AssertionFailed" THEN <<e.test, TerminalMessage(e.message)>>
                     ELSE IF e.kind = "TestFinished" THEN None ELSE st.pending
      /\ r.lastHeartbeat = IF e.kind = "Heartbeat" THEN e.ticks ELSE st.lastHeartbeat
      /\ r.terminal <=> st.terminal \/ e.kind = "RunFinished"
  BY <1>1, ObservedFields
<1>7. /\ e.kind \in Kinds /\ (e.kind = "RunStarted" => e.count \in Nat)
      /\ e.kind = "TestStarted" => e.test \in Tests
      /\ e.kind = "TestFinished" => e.test \in Tests
      /\ e.kind = "Heartbeat" => e.ticks \in Nat
  BY HostEventFields
<1> HIDE DEF s, st, l, r
<1>8. st.tests \in [Tests -> {"Absent", "Active", "Finished"}]
  BY <1>1 DEF StreamTypes
<1>9. e.kind = "TestStarted" => st.tests[e.test] = "Absent" /\ e.test \notin ActiveTests(st)
  <2> SUFFICES ASSUME e.kind = "TestStarted"
               PROVE  st.tests[e.test] = "Absent" /\ e.test \notin ActiveTests(st)
    OBVIOUS
  <2>1. ~StartedIn(s, e.test) /\ e.test \in Tests
    BY <1>2, <1>7 DEF Fits
  <2> QED
    BY <1>1, <2>1 DEF TestsFollow, ActiveTests
<1>10. e.kind = "TestFinished" => st.tests[e.test] = "Active" /\ e.test \in ActiveTests(st)
  <2> SUFFICES ASSUME e.kind = "TestFinished"
               PROVE  st.tests[e.test] = "Active" /\ e.test \in ActiveTests(st)
    OBVIOUS
  <2>1. e.test \in Tests /\ e.test # None
    BY <1>7, EventAssumption
  <2>2. StartedIn(s, e.test) /\ ~EndedIn(s, e.test)
    BY <1>2, <2>1 DEF Fits
  <2> QED
    BY <1>1, <1>8, <2>1, <2>2 DEF TestsFollow, ActiveTests
<1>11. TestsFollow(r, l)
  <2> SUFFICES ASSUME NEW t \in Tests
               PROVE  /\ r.tests[t] # "Absent" <=> StartedIn(l, t)
                      /\ r.tests[t] = "Finished" <=> EndedIn(l, t)
    BY DEF TestsFollow
  <2>1. /\ st.tests[t] # "Absent" <=> StartedIn(s, t)
        /\ st.tests[t] = "Finished" <=> EndedIn(s, t)
    BY <1>1 DEF TestsFollow
  <2>2. CASE e.kind = "TestStarted"
    BY <1>4, <1>6, <1>7, <1>8, <1>9, <2>1, <2>2
  <2>3. CASE e.kind = "TestFinished"
    BY <1>4, <1>6, <1>7, <1>8, <1>10, <2>1, <2>3
  <2>4. CASE e.kind # "TestStarted" /\ e.kind # "TestFinished"
    BY <1>4, <1>6, <2>1, <2>4
  <2> QED
    BY <2>2, <2>3, <2>4
<1>12. CountsFollow(r, l)
  <2>1. /\ st.started = Cardinality(Starts(s)) /\ st.finished = Cardinality(Ends(s))
        /\ st.passed = Cardinality(Passes(s)) /\ st.failed = Cardinality(Ends(s) \ Passes(s))
        /\ IsFiniteSet(ActiveTests(st))
        /\ st.started = st.finished + Cardinality(ActiveTests(st))
        /\ st.passed + st.failed = st.finished
    BY <1>1 DEF CountsFollow
  <2>2. /\ st.started \in Nat /\ st.finished \in Nat /\ st.passed \in Nat /\ st.failed \in Nat
    BY <1>1 DEF StreamTypes
  <2>3. /\ r.started = Cardinality(Starts(l)) /\ r.finished = Cardinality(Ends(l))
        /\ r.passed = Cardinality(Passes(l)) /\ r.failed = Cardinality(Ends(l) \ Passes(l))
    BY <1>4, <1>5, <1>6, <2>1
  <2>4. r.passed + r.failed = r.finished
    BY <1>6, <2>1, <2>2
  <2>5. Cardinality(ActiveTests(st)) \in Nat
    BY <2>1, FS_CardinalityType
  <2>6. IsFiniteSet(ActiveTests(r)) /\ r.started = r.finished + Cardinality(ActiveTests(r))
    <3>1. CASE e.kind = "TestStarted"
      <4>1. ActiveTests(r) = ActiveTests(st) \cup {e.test}
        BY <1>6, <1>7, <1>8, <3>1 DEF ActiveTests
      <4>2. /\ IsFiniteSet(ActiveTests(st) \cup {e.test})
            /\ Cardinality(ActiveTests(st) \cup {e.test}) = Cardinality(ActiveTests(st)) + 1
        BY <1>9, <2>1, <3>1, FS_AddElement
      <4> QED
        BY <1>6, <2>1, <2>2, <2>5, <3>1, <4>1, <4>2
    <3>2. CASE e.kind = "TestFinished"
      <4>1. ActiveTests(r) = ActiveTests(st) \ {e.test}
        BY <1>6, <1>7, <1>8, <3>2 DEF ActiveTests
      <4>2. /\ IsFiniteSet(ActiveTests(st) \ {e.test})
            /\ Cardinality(ActiveTests(st) \ {e.test}) = Cardinality(ActiveTests(st)) - 1
        BY <1>10, <2>1, <3>2, FS_RemoveElement
      <4> QED
        BY <1>6, <2>1, <2>2, <2>5, <3>2, <4>1, <4>2
    <3>3. CASE e.kind # "TestStarted" /\ e.kind # "TestFinished"
      <4>1. ActiveTests(r) = ActiveTests(st)
        BY <1>6, <3>3 DEF ActiveTests
      <4> QED
        BY <1>6, <2>1, <3>3, <4>1
    <3> QED
      BY <3>1, <3>2, <3>3
  <2> QED
    BY <2>3, <2>4, <2>6 DEF CountsFollow
<1>13. LastFollows(r, l)
  <2>1. r.declared \in Nat /\ r.declared = l[1].count
    <3>1. CASE s = <<>>
      BY <1>2, <1>4, <1>6, <1>7, <3>1 DEF Fits
    <3>2. CASE s # <<>>
      BY <1>1, <1>2, <1>4, <1>6, <3>2 DEF Fits, LastFollows
    <3> QED
      BY <3>1, <3>2
  <2>2. ~st.terminal /\ ~EndsWith(s, "RunFinished")
    BY <1>1, <1>2 DEF LastFollows, Fits
  <2>3. r.terminal <=> EndsWith(l, "RunFinished")
    BY <1>4, <1>6, <2>2
  <2>4. ~r.terminal => ~st.languageFatal
    BY <1>1, <1>2, <1>6, <2>2 DEF LastFollows, Fits
  <2>5. ~r.terminal => (r.languageFatal <=> /\ EndsWith(l, "TestFinished")
                                            /\ l[Len(l)].outcome = "LanguageFatal")
    BY <1>4, <1>6, <2>4
  <2>6. e.kind # "TestFinished" => st.pending = None
    BY <1>1, <1>2 DEF LastFollows, Fits
  <2>7. r.pending = IF EndsWith(l, "AssertionFailed")
                    THEN <<l[Len(l)].test, TerminalMessage(l[Len(l)].message)>> ELSE None
    BY <1>4, <1>6, <2>6
  <2>8. /\ r.lastHeartbeat = None => \A i \in DOMAIN l : ~IsKind(l, i, "Heartbeat")
        /\ r.lastHeartbeat # None =>
             /\ \E i \in DOMAIN l : IsKind(l, i, "Heartbeat") /\ l[i].ticks = r.lastHeartbeat
             /\ \A i \in DOMAIN l : IsKind(l, i, "Heartbeat") => l[i].ticks <= r.lastHeartbeat
    <3> DEFINE n == Len(s) + 1
    <3>1. /\ DOMAIN l = DOMAIN s \cup {n} /\ l[n] = e
          /\ \A i \in DOMAIN s : l[i] = s[i] /\ s[i] \in HostEvent
      BY <1>1, LineGrows DEF l
    <3> HIDE DEF n
    <3>2. CASE e.kind = "Heartbeat"
      <4>1. \A i \in DOMAIN s : IsKind(s, i, "Heartbeat") => s[i].ticks < e.ticks
        BY <1>2, <3>2 DEF Fits
      <4>2. \A i \in DOMAIN s : IsKind(s, i, "Heartbeat") => s[i].ticks \in Nat
        BY <3>1, HostEventFields DEF IsKind
      <4>3. r.lastHeartbeat = e.ticks /\ e.ticks \in Nat /\ e.ticks # None
        BY <1>6, <1>7, <3>2, OptionAssumption
      <4>4. \A i \in DOMAIN l : IsKind(l, i, "Heartbeat") => l[i].ticks <= e.ticks
        BY <1>7, <3>1, <3>2, <4>1, <4>2 DEF IsKind
      <4>5. IsKind(l, n, "Heartbeat") /\ n \in DOMAIN l /\ l[n].ticks = e.ticks
        BY <3>1, <3>2 DEF IsKind
      <4> QED
        BY <4>3, <4>4, <4>5
    <3>3. CASE e.kind # "Heartbeat"
      <4>1. r.lastHeartbeat = st.lastHeartbeat
        BY <1>6, <3>3
      <4>2. \A i \in DOMAIN l : IsKind(l, i, "Heartbeat") =>
              i \in DOMAIN s /\ IsKind(s, i, "Heartbeat") /\ l[i] = s[i]
        BY <3>1, <3>3 DEF IsKind
      <4>3. \A i \in DOMAIN s : IsKind(s, i, "Heartbeat") =>
              i \in DOMAIN l /\ IsKind(l, i, "Heartbeat") /\ l[i] = s[i]
        BY <3>1 DEF IsKind
      <4> QED
        BY <1>1, <4>1, <4>2, <4>3 DEF LastFollows
    <3> QED
      BY <3>2, <3>3
  <2> QED
    BY <1>4, <2>1, <2>3, <2>5, <2>7, <2>8 DEF LastFollows
<1>14. events' = l /\ stream' = r
  BY DEF l, r, s, st
<1> QED
  BY <1>3, <1>4, <1>6, <1>11, <1>12, <1>13, <1>14 DEF DecodeFlow, Follows

\* What a step of the run does to the host's state.
LEMMA HostSteps ==
    ASSUME wire \in Seq(Event), events \in Seq(HostEvent), [Next]_vars
    PROVE  \/ \E e \in HostEvent : HostObserve(e)
           \/ \E exit, timedOut, truncated, overran :
                 HostSummarize(exit, timedOut, truncated, overran)
           \/ /\ UNCHANGED <<planned, events, stream, prefixOk, collected, terminal, sealing>>
              /\ \/ UNCHANGED verdict
                 \/ \E why \in {"protocol", "cancelled"} : verdict' = Failure(why)
<1>1. ASSUME NEW e, HostReject(e) \/ HostCancel
      PROVE  /\ UNCHANGED <<planned, events, stream, prefixOk, collected, terminal, sealing>>
             /\ \E why \in {"protocol", "cancelled"} : verdict' = Failure(why)
  BY <1>1 DEF HostReject, HostCancel
<1>2. CASE HostDecode
  <2>1. Len(events) + 1 \in DOMAIN wire
    BY <1>2 DEF HostDecode
  <2>2. wire[Len(events) + 1] \in HostEvent
    BY <2>1 DEF HostEvent
  <2> QED
    BY <1>1, <1>2, <2>2 DEF HostDecode
<1>3. CASE HostConclude
  BY <1>3 DEF HostConclude
<1>4. CASE HostIsCancelled
  BY <1>1, <1>4 DEF HostIsCancelled
<1>5. CASE AnyLine
  <2>1. HostNext
    BY <1>5 DEF AnyLine
  <2>2. ASSUME NEW q \in {Len(events), 0}, NEW e \in EventsAt(q, Counts, Ticks),
               HostObserve(e) \/ HostReject(e)
        PROVE  \/ \E f \in HostEvent : HostObserve(f)
               \/ HostReject(e)
    <3>1. q \in Nat
      OBVIOUS
    <3>2. e \in HostEvent
      BY <3>1, LineEvents
    <3> QED
      BY <2>2, <3>2
  <2> QED
    BY <1>1, <2>1, <2>2 DEF HostNext
<1>6. CASE GuestStep \/ QemuCrash \/ ExecutorTimeout \/ AnyCode \/ UNCHANGED vars
  <2>1. UNCHANGED hostVars
    BY <1>6 DEF GuestStep, HarnessStep, HarnessEnter, HarnessEmit, HarnessFinish,
       BodyStep, BodyReturns, BodyAsserts, BodyShiftFault, BodyFatal, BodyHangs, BodyEnds,
       FailurePath, QemuShutdown, ResetFails, QemuCrash, ExecutorTimeout, QemuStops, AnyCode, vars
  <2> QED
    BY <2>1 DEF hostVars
<1> QED
  BY <1>2, <1>3, <1>4, <1>5, <1>6 DEF Next, HostStep

\* Before the first byte the decoder summarises the empty stream.
LEMMA DecodeStarts == Init => DecodeFlow
<1> SUFFICES ASSUME Init PROVE DecodeFlow
  OBVIOUS
<1>1. events = <<>> /\ stream = NewStream
  BY DEF Init, HostInit
<1>2. <<>> \in Seq(HostEvent) /\ DOMAIN <<>> = {} /\ Len(<<>>) = 0
  OBVIOUS
<1>3. StreamTypes(NewStream)
  BY DEF StreamTypes, NewStream
<1>4. Starts(<<>>) = {} /\ Ends(<<>>) = {} /\ Passes(<<>>) = {}
  BY <1>2 DEF Starts, Ends, Passes
<1>5. Cardinality({}) = 0 /\ IsFiniteSet({})
  BY FS_EmptySet
<1>6. WellFormed(<<>>, EventLimit)
  <2>1. Len(<<>>) <= EventLimit /\ Cardinality({}) <= 0
    BY <1>2, <1>5, OptionAssumption
  <2> QED
    BY <1>2, <1>4, <2>1 DEF WellFormed
<1>7. TestsFollow(NewStream, <<>>)
  BY <1>2 DEF TestsFollow, NewStream, StartedIn, EndedIn
<1>8. ActiveTests(NewStream) = {}
  BY DEF ActiveTests, NewStream
<1>9. CountsFollow(NewStream, <<>>)
  <2>1. /\ NewStream.started = 0 /\ NewStream.finished = 0 /\ NewStream.passed = 0
        /\ NewStream.failed = 0
    BY DEF NewStream
  <2>2. Ends(<<>>) \ Passes(<<>>) = {}
    BY <1>4
  <2>3. 0 + Cardinality({}) = 0 /\ 0 + 0 = 0
    BY <1>5
  <2> QED
    BY <1>4, <1>5, <1>8, <2>1, <2>2, <2>3, Zenon DEF CountsFollow
<1>10. LastFollows(NewStream, <<>>)
  BY <1>2 DEF LastFollows, NewStream, EndsWith
<1> QED
  BY <1>1, <1>2, <1>3, <1>6, <1>7, <1>9, <1>10 DEF DecodeFlow, Follows

\* Each event the decoder takes extends its summary, and each refusal ends it.
LEMMA DecodeKeeps ==
    ASSUME wire \in Seq(Event), DecodeFlow, [Next]_vars
    PROVE  DecodeFlow'
<1>1. events \in Seq(HostEvent)
  BY DEF DecodeFlow
<1>2. ASSUME NEW e \in HostEvent, HostObserve(e) PROVE DecodeFlow'
  <2>1. Decodes(e) /\ events' = Append(events, e) /\ stream' = Observed(stream, e)
    BY <1>2 DEF HostObserve
  <2> QED
    BY <2>1, ObserveKeepsDecode
<1>3. ASSUME UNCHANGED <<events, stream>> PROVE DecodeFlow'
  BY <1>3 DEF DecodeFlow, Follows, TestsFollow, CountsFollow, LastFollows
<1>4. ASSUME NEW exit, NEW timedOut, NEW truncated, NEW overran,
             HostSummarize(exit, timedOut, truncated, overran)
      PROVE  UNCHANGED <<events, stream>>
  BY <1>4 DEF HostSummarize
<1> QED
  BY <1>1, <1>2, <1>3, <1>4, HostSteps

\* Whatever the line carries, the events that were accepted are a prefix of a
\* well-formed run and the decoder's state is a summary of them.
THEOREM DecodeInvariant == Spec => []DecodeFlow
<1>1. Init => DecodeFlow
  BY DecodeStarts
<1>2. RunFlow /\ DecodeFlow /\ [Next]_vars => DecodeFlow'
  <2>1. RunFlow => wire \in Seq(Event)
    BY DEF RunFlow, GuestFlow, LineFlow, GuestTypes
  <2> QED
    BY <2>1, DecodeKeeps
<1> QED
  BY <1>1, <1>2, RunInvariant, PTL DEF Spec

\* For any tests, counts, ticks and event limit: observe accepts exactly the
\* events that keep the stream a prefix of a well-formed run.
THEOREM StreamAlwaysExact == Spec => []StreamExact
<1>1. DecodeFlow => StreamExact
  <2> SUFFICES ASSUME DecodeFlow, NEW e \in EventsAt(Len(events), Counts, Ticks)
               PROVE  Decodes(e) <=> WellFormed(Append(events, e), EventLimit)
    BY DEF StreamExact
  <2>1. events \in Seq(HostEvent) /\ WellFormed(events, EventLimit)
    BY DEF DecodeFlow
  <2>2. e \in HostEvent
    BY <2>1, LineEvents
  <2> QED
    BY <2>1, <2>2, DecodesExactly, WellFormedGrows, OptionAssumption
<1> QED
  BY <1>1, DecodeInvariant, PTL

-----------------------------------------------------------------------------
(* The other passes of the host.                                           *)

DoneTests == {t \in PlannedTests : collected[t] # None}
PassedTests == {t \in DoneTests : collected[t][1] = "Passed"}

\* collect_cases: what was collected is at a position of the stream.
CollectFlow ==
    /\ collected \in [PlannedTests -> {None} \cup (Outcomes \X Messages)]
    /\ \A t \in PlannedTests : collected[t] # None =>
          \E j \in DOMAIN events : /\ IsEndOf(events, j, t)
                                   /\ collected[t] = <<events[j].outcome, events[j].message>>
    /\ terminal # None <=> stream.terminal
    /\ terminal # None =>
          terminal = <<stream.passed, stream.failed>> /\ stream.finished = stream.declared

SealTypes(g) ==
    g \in [ok : BOOLEAN,
           states : [PlannedTests -> {<<"Pending">>, <<"Active">>}
                                     \cup ({"Asserted"} \X Messages)
                                     \cup ({"Finished"} \X (Outcomes \X Messages))],
           active : 0 .. planned, finished : Nat, terminal : (Nat \X Nat) \cup {None},
           languageFatal : BOOLEAN, lastHeartbeat : Nat \cup {None}]

\* The state that validate_image_events has for t is the one of the decoder,
\* with what the test asserted or ended with.
StatesFollow(g, st, t) ==
    /\ st.tests[t] = "Absent" => g.states[t] = <<"Pending">>
    /\ st.tests[t] = "Active" =>
          g.states[t] = IF st.pending # None /\ st.pending[1] = t
                        THEN <<"Asserted", st.pending[2]>> ELSE <<"Active">>
    /\ st.tests[t] = "Finished" => g.states[t] = <<"Finished", collected[t]>>
    /\ st.tests[t] = "Finished" <=> collected[t] # None

\* As long as every event fits the group, the second validator follows the first.
SealFollows(g, st) ==
    /\ events # <<>> => st.declared = planned
    /\ \A t \in Tests \ PlannedTests : st.tests[t] = "Absent"
    /\ \A t \in PlannedTests : StatesFollow(g, st, t)
    /\ g.terminal = terminal
    /\ g.lastHeartbeat = st.lastHeartbeat
    /\ g.languageFatal => st.languageFatal
    /\ g.active = st.started - st.finished
    /\ g.finished = st.finished
    /\ st.finished = Cardinality(DoneTests)
    /\ st.passed = Cardinality(PassedTests)

SealFlow ==
    /\ prefixOk \in BOOLEAN /\ SealTypes(sealing)
    /\ prefixOk <=> sealing.ok
    /\ prefixOk => SealFollows(sealing, stream)

\* What the verdict rests on.
VerdictFlow ==
    /\ \/ verdict = Undecided
       \/ \E why \in {"protocol", "cancelled", "timeoutOverrun", "truncatedFrame",
                      "unplannedEvent", "nonPrefixCompletion",
                      "terminalBeforeFailure"} : verdict = Failure(why)
       \/ verdict.kind = "report"
    /\ verdict.kind = "report" /\ verdict.infra = None =>
          /\ prefixOk /\ terminal # None
          /\ verdict.cases = [t \in PlannedTests |-> collected[t]]

HostFlow == CollectFlow /\ SealFlow /\ VerdictFlow

\* What it means for the decoder's state that it accepts an event.
LEMMA AcceptedEvent ==
    ASSUME DecodeFlow, NEW e \in HostEvent, Decodes(e)
    PROVE  /\ e.seq = Len(events)
           /\ e.kind = "RunStarted" <=> events = <<>>
           /\ ~stream.terminal
           /\ stream.languageFatal => e.kind = "RunFinished"
           /\ stream.pending # None => /\ e.kind = "TestFinished" /\ e.outcome = "Failed"
                                       /\ <<e.test, e.message>> = stream.pending
           /\ e.kind = "TestStarted" => stream.tests[e.test] = "Absent"
           /\ e.kind = "Log" /\ e.test # None => stream.tests[e.test] = "Active"
           /\ e.kind \in {"AssertionFailed", "TestFinished"} => stream.tests[e.test] = "Active"
           /\ e.kind = "Heartbeat" => (stream.lastHeartbeat # None => stream.lastHeartbeat < e.ticks)
           /\ e.kind = "RunFinished" =>
                /\ stream.started = stream.declared /\ stream.finished = stream.declared
                /\ stream.passed = e.passed /\ stream.failed = e.failed
<1>1. Fits(events, e, EventLimit) /\ Observes(stream, e) /\ e.seq = Len(events)
  BY DecodesExactly DEF Decodes
<1>2. e.kind = "RunStarted" <=> events = <<>>
  BY <1>1 DEF Fits
<1>3. CASE e.kind = "RunStarted"
  <2>1. events = <<>> /\ LastFollows(stream, events)
    BY <1>2, <1>3 DEF DecodeFlow, Follows
  <2>2. ~stream.terminal /\ ~stream.languageFatal /\ stream.pending = None
    BY <2>1 DEF LastFollows, EndsWith
  <2> QED
    BY <1>1, <1>2, <1>3, <2>2
<1>4. CASE e.kind # "RunStarted"
  <2>1. InOrder(stream, e)
    BY <1>1, <1>4 DEF Observes
  <2>2. /\ ~stream.terminal
        /\ stream.languageFatal => e.kind = "RunFinished"
        /\ stream.pending # None => /\ e.kind = "TestFinished" /\ e.outcome = "Failed"
                                    /\ <<e.test, e.message>> = stream.pending
    BY <2>1 DEF InOrder
  <2>3. e.kind = "TestStarted" => stream.tests[e.test] = "Absent"
    BY <1>1 DEF Observes
  <2>4. e.kind = "Log" /\ e.test # None => stream.tests[e.test] = "Active"
    BY <1>1 DEF Observes, RequireActive
  <2>5. e.kind \in {"AssertionFailed", "TestFinished"} => stream.tests[e.test] = "Active"
    BY <1>1 DEF Observes, RequireActive
  <2>6. e.kind = "Heartbeat" => (stream.lastHeartbeat # None => stream.lastHeartbeat < e.ticks)
    BY <1>1 DEF Observes
  <2>7. e.kind = "RunFinished" =>
          /\ stream.started = stream.declared /\ stream.finished = stream.declared
          /\ stream.passed = e.passed /\ stream.failed = e.failed
    BY <1>1 DEF Observes, RunFinishedFits
  <2> QED
    BY <1>1, <1>2, <1>4, <2>2, <2>3, <2>4, <2>5, <2>6, <2>7
<1> QED
  BY <1>3, <1>4

\* The counters of the decoder.
LEMMA StreamCounters ==
    ASSUME DecodeFlow
    PROVE  /\ stream.started \in Nat /\ stream.finished \in Nat
           /\ stream.passed \in Nat /\ stream.failed \in Nat
           /\ stream.finished <= stream.started
           /\ stream.passed + stream.failed = stream.finished
           /\ events = <<>> => stream.declared = None /\ stream.started = 0
           /\ events # <<>> => stream.declared \in Nat /\ stream.started <= stream.declared
           /\ Len(events) <= EventLimit
<1>1. CountsFollow(stream, events) /\ LastFollows(stream, events) /\ StreamTypes(stream)
      /\ WellFormed(events, EventLimit)
  BY DEF DecodeFlow, Follows
<1>2. /\ stream.started \in Nat /\ stream.finished \in Nat
      /\ stream.passed \in Nat /\ stream.failed \in Nat
  BY <1>1 DEF StreamTypes
<1>3. /\ stream.started = stream.finished + Cardinality(ActiveTests(stream))
      /\ Cardinality(ActiveTests(stream)) \in Nat
      /\ stream.passed + stream.failed = stream.finished
      /\ stream.started = Cardinality(Starts(events))
  BY <1>1, FS_CardinalityType DEF CountsFollow
<1>4. stream.finished <= stream.started
  BY <1>2, <1>3
<1>5. Cardinality(Starts(events)) <= (IF events = <<>> THEN 0 ELSE events[1].count)
  BY <1>1 DEF WellFormed
<1>6. events = <<>> => stream.declared = None /\ stream.started = 0
  BY <1>1, <1>2, <1>3, <1>5 DEF LastFollows
<1>7. events # <<>> => stream.declared \in Nat /\ stream.started <= stream.declared
  BY <1>1, <1>2, <1>3, <1>5 DEF LastFollows
<1>8. Len(events) <= EventLimit
  BY <1>1 DEF WellFormed
<1> QED
  BY <1>2, <1>3, <1>4, <1>6, <1>7, <1>8

\* collect_cases takes over the end of a test and the totals.
LEMMA CollectKeeps ==
    ASSUME DecodeFlow, CollectFlow, NEW e \in HostEvent, HostObserve(e)
    PROVE  CollectFlow'
<1>1. /\ Decodes(e) /\ events' = Append(events, e) /\ stream' = Observed(stream, e)
      /\ collected' = Collect(e)
      /\ terminal' = IF e.kind = "RunFinished" THEN <<e.passed, e.failed>> ELSE terminal
      /\ PlannedTests' = PlannedTests
  BY DEF HostObserve, PlannedTests
<1>2. events \in Seq(HostEvent) /\ StreamTypes(stream)
  BY DEF DecodeFlow
<1>3. /\ DOMAIN events' = DOMAIN events \cup {Len(events) + 1}
      /\ events'[Len(events) + 1] = e
      /\ \A i \in DOMAIN events : events'[i] = events[i]
  BY <1>1, <1>2, LineGrows
<1>4. collected \in [PlannedTests -> {None} \cup (Outcomes \X Messages)]
  BY DEF CollectFlow
<1>5. e.kind = "TestFinished" => <<e.outcome, e.message>> \in Outcomes \X Messages
  BY HostEventFields
<1>6. collected' \in [PlannedTests -> {None} \cup (Outcomes \X Messages)]
  BY <1>1, <1>4, <1>5 DEF Collect, GuestOutcome
<1>7. ASSUME NEW t \in PlannedTests, collected'[t] # None
      PROVE  \E j \in DOMAIN events' :
                /\ IsEndOf(events', j, t)
                /\ collected'[t] = <<events'[j].outcome, events'[j].message>>
  <2>1. CASE e.kind = "TestFinished" /\ e.test = t
    <3>1. collected'[t] = <<e.outcome, e.message>>
      BY <1>1, <1>4, <2>1 DEF Collect, GuestOutcome
    <3> QED
      BY <1>3, <2>1, <3>1 DEF IsEndOf, IsKind
  <2>2. CASE ~(e.kind = "TestFinished" /\ e.test = t)
    <3>1. collected'[t] = collected[t]
      BY <1>1, <1>4, <2>2 DEF Collect
    <3>2. PICK j \in DOMAIN events : /\ IsEndOf(events, j, t)
                                     /\ collected[t] = <<events[j].outcome, events[j].message>>
      BY <1>7, <3>1 DEF CollectFlow
    <3> QED
      BY <1>3, <3>1, <3>2 DEF IsEndOf, IsKind
  <2> QED
    BY <2>1, <2>2
<1>8. /\ ~stream.terminal
      /\ e.kind = "RunFinished" =>
            /\ stream.finished = stream.declared
            /\ stream.passed = e.passed /\ stream.failed = e.failed
  BY <1>1, AcceptedEvent
<1>9. terminal = None
  BY <1>8 DEF CollectFlow
<1>10. /\ stream'.terminal <=> stream.terminal \/ e.kind = "RunFinished"
       /\ e.kind = "RunFinished" =>
             /\ stream'.finished = stream.finished /\ stream'.declared = stream.declared
             /\ stream'.passed = stream.passed /\ stream'.failed = stream.failed
  BY <1>1, <1>2, ObservedFields
<1>11. e.kind = "RunFinished" => <<e.passed, e.failed>> # None
  BY HostEventFields, OptionAssumption
<1>12. terminal' # None <=> stream'.terminal
  BY <1>1, <1>8, <1>9, <1>10, <1>11
<1>13. terminal' # None => /\ terminal' = <<stream'.passed, stream'.failed>>
                           /\ stream'.finished = stream'.declared
  BY <1>1, <1>8, <1>9, <1>10
<1> QED
  BY <1>1, <1>6, <1>7, <1>12, <1>13 DEF CollectFlow

\* What the plan names is a test of the group.
LEMMA PlannedAreTests ==
    ASSUME planned \in 1 .. MaxPlanned
    PROVE  /\ PlannedTests \subseteq Tests /\ None \notin PlannedTests
           /\ IsFiniteSet(PlannedTests) /\ Cardinality(PlannedTests) = planned /\ planned \in Nat
<1>1. planned \in Nat /\ planned >= 1 /\ PlannedTests \subseteq 1 .. MaxPlanned
  BY PlannedAssumption DEF PlannedTests
<1>2. PlannedTests \subseteq Tests /\ None \notin PlannedTests
  BY <1>1, PlannedAssumption, EventAssumption
<1>3. IsFiniteSet(PlannedTests) /\ Cardinality(PlannedTests) = planned
  BY <1>1, FS_Interval DEF PlannedTests
<1> QED
  BY <1>1, <1>2, <1>3

\* What the decoder accepts and the group check lets through, the second
\* validator accepts too.
LEMMA SealAccepted ==
    ASSUME planned \in 1 .. MaxPlanned, DecodeFlow, CollectFlow, SealFlow, prefixOk,
           NEW e \in HostEvent, Decodes(e), PrefixFits(e)
    PROVE  SealAccepts(sealing, e, Len(events))
<1> DEFINE g == sealing
           st == stream
<1>1. SealTypes(g) /\ SealFollows(g, st) /\ StreamTypes(st)
  BY DEF SealFlow, DecodeFlow
<1>2. PlannedTests \subseteq Tests /\ None \notin PlannedTests
  BY PlannedAreTests
<1>3. /\ e.seq = Len(events)
      /\ e.kind = "RunStarted" <=> events = <<>>
      /\ ~st.terminal
      /\ st.languageFatal => e.kind = "RunFinished"
      /\ st.pending # None => /\ e.kind = "TestFinished" /\ e.outcome = "Failed"
                              /\ <<e.test, e.message>> = st.pending
      /\ e.kind = "TestStarted" => st.tests[e.test] = "Absent"
      /\ e.kind = "Log" /\ e.test # None => st.tests[e.test] = "Active"
      /\ e.kind \in {"AssertionFailed", "TestFinished"} => st.tests[e.test] = "Active"
      /\ e.kind = "Heartbeat" => (st.lastHeartbeat # None => st.lastHeartbeat < e.ticks)
      /\ e.kind = "RunFinished" =>
           /\ st.started = st.declared /\ st.finished = st.declared
  BY AcceptedEvent
<1>4. /\ e.kind = "RunStarted" => e.count = planned
      /\ e.kind \in {"TestStarted", "AssertionFailed", "TestFinished"} => e.test \in PlannedTests
      /\ e.kind = "Log" => e.test \in PlannedTests \cup {None}
  BY DEF PrefixFits
<1>5. e.kind \in Kinds
  BY HostEventFields
<1>6. \A t \in PlannedTests :
        /\ StatesFollow(g, st, t) /\ st.tests[t] \in {"Absent", "Active", "Finished"}
  BY <1>1, <1>2 DEF SealFollows, StreamTypes
<1>7. Len(events) = 0 <=> events = <<>>
  BY DEF DecodeFlow
<1>8. g.terminal = None
  BY <1>1, <1>3 DEF SealFollows, CollectFlow
<1> HIDE DEF g, st
<1>9. SealInOrder(g, e)
  <2>1. g.languageFatal => e.kind = "RunFinished"
    BY <1>1, <1>3 DEF SealFollows
  <2>2. ASSUME NEW t \in Asserted(g)
        PROVE  /\ e.kind = "TestFinished" /\ e.test = t /\ e.outcome = "Failed"
               /\ e.message = g.states[t][2]
    <3>1. t \in PlannedTests /\ g.states[t][1] = "Asserted"
      BY DEF Asserted
    <3>2. st.tests[t] = "Active"
      BY <1>6, <3>1 DEF StatesFollow
    <3>3. /\ st.pending # None /\ st.pending[1] = t
          /\ g.states[t] = <<"Asserted", st.pending[2]>>
      BY <1>6, <3>1, <3>2 DEF StatesFollow
    <3>4. <<e.test, e.message>> = st.pending /\ e.kind = "TestFinished" /\ e.outcome = "Failed"
      BY <1>3, <3>3
    <3>5. <<e.test, e.message>>[1] = e.test /\ <<e.test, e.message>>[2] = e.message
      OBVIOUS
    <3> QED
      BY <3>3, <3>4, <3>5
  <2> QED
    BY <2>1, <2>2 DEF SealInOrder
<1>10. CASE e.kind = "RunStarted"
  BY <1>3, <1>4, <1>7, <1>9, <1>10 DEF SealAccepts, g
<1>11. CASE e.kind = "TestStarted"
  <2>1. g.states[e.test] = <<"Pending">>
    BY <1>3, <1>4, <1>6, <1>11 DEF StatesFollow
  <2> QED
    BY <1>3, <1>7, <1>8, <1>9, <1>11, <2>1 DEF SealAccepts, g
<1>12. CASE e.kind = "Log"
  <2>1. e.test # None => g.states[e.test] = <<"Active">>
    BY <1>3, <1>4, <1>6, <1>12 DEF StatesFollow
  <2> QED
    BY <1>3, <1>7, <1>8, <1>9, <1>12, <2>1 DEF SealAccepts, g
<1>13. CASE e.kind = "AssertionFailed"
  <2>1. g.states[e.test] = <<"Active">>
    BY <1>3, <1>4, <1>6, <1>13 DEF StatesFollow
  <2> QED
    BY <1>3, <1>8, <1>9, <1>13, <2>1 DEF SealAccepts, g
<1>14. CASE e.kind = "TestFinished"
  <2>1. \/ g.states[e.test] = <<"Active">>
        \/ e.outcome = "Failed" /\ g.states[e.test] = <<"Asserted", e.message>>
    <3>1. e.test \in PlannedTests /\ st.tests[e.test] = "Active"
      BY <1>3, <1>4, <1>14
    <3>2. CASE st.pending = None
      BY <1>6, <3>1, <3>2 DEF StatesFollow
    <3>3. CASE st.pending # None
      <4>1. e.outcome = "Failed" /\ <<e.test, e.message>> = st.pending
        BY <1>3, <3>3
      <4>2. st.pending[1] = e.test /\ st.pending[2] = e.message
        BY <4>1
      <4> QED
        BY <1>6, <3>1, <3>3, <4>1, <4>2 DEF StatesFollow
    <3> QED
      BY <3>2, <3>3
  <2> QED
    BY <1>3, <1>8, <1>9, <1>14, <2>1 DEF SealAccepts, g
<1>15. CASE e.kind = "Heartbeat"
  <2>1. g.lastHeartbeat = st.lastHeartbeat
    BY <1>1 DEF SealFollows
  <2> QED
    BY <1>3, <1>7, <1>8, <1>9, <1>15, <2>1 DEF SealAccepts, g
<1>16. CASE e.kind = "RunFinished"
  <2>1. st.started \in Nat /\ st.started = st.finished
    BY <1>1, <1>3, <1>16 DEF StreamTypes
  <2>2. g.active = 0
    BY <1>1, <2>1 DEF SealFollows
  <2> QED
    BY <1>3, <1>8, <1>9, <1>16, <2>2 DEF SealAccepts, g
<1> QED
  BY <1>5, <1>10, <1>11, <1>12, <1>13, <1>14, <1>15, <1>16 DEF Kinds

\* The fields of the state that the second validator goes on with.
LEMMA SealedFields ==
    ASSUME NEW g, SealTypes(g), NEW e \in HostEvent, PrefixFits(e), planned \in 1 .. MaxPlanned,
           e.kind = "TestStarted" => g.active + 1 <= planned,
           e.kind = "TestFinished" => g.active >= 1
    PROVE  LET r == Sealed(g, e)
               ended == e.kind = "TestFinished"
           IN  /\ SealTypes(r) /\ r.ok = g.ok
               /\ r.states =
                    IF e.kind = "TestStarted" THEN [g.states EXCEPT ![e.test] = <<"Active">>]
                    ELSE IF e.kind = "AssertionFailed"
                    THEN [g.states EXCEPT ![e.test] = <<"Asserted", TerminalMessage(e.message)>>]
                    ELSE IF ended
                    THEN [g.states EXCEPT ![e.test] = <<"Finished", <<e.outcome, e.message>>>>]
                    ELSE g.states
               /\ r.active = IF e.kind = "TestStarted" THEN g.active + 1
                             ELSE IF ended THEN g.active - 1 ELSE g.active
               /\ r.finished = IF ended THEN g.finished + 1 ELSE g.finished
               /\ r.terminal = IF e.kind = "RunFinished" THEN <<e.passed, e.failed>> ELSE g.terminal
               /\ r.languageFatal <=> IF ended THEN e.outcome = "LanguageFatal" ELSE g.languageFatal
               /\ r.lastHeartbeat = IF e.kind = "Heartbeat" THEN e.ticks ELSE g.lastHeartbeat
<1> DEFINE States == {<<"Pending">>, <<"Active">>} \cup ({"Asserted"} \X Messages)
                     \cup ({"Finished"} \X (Outcomes \X Messages))
<1>1. /\ e.kind \in Kinds
      /\ e.kind = "Heartbeat" => e.ticks \in Nat
      /\ e.kind = "AssertionFailed" => TerminalMessage(e.message) \in Messages
      /\ e.kind = "TestFinished" => <<e.outcome, e.message>> \in Outcomes \X Messages
      /\ e.kind = "RunFinished" => <<e.passed, e.failed>> \in Nat \X Nat
  BY HostEventFields DEF TerminalMessage, Messages
<1>2. planned \in Nat
  BY PlannedAreTests
<1>3. /\ g.active \in 0 .. planned /\ g.finished \in Nat
      /\ g.states \in [PlannedTests -> States]
  BY DEF SealTypes
<1>4. <<"Active">> \in States
  OBVIOUS
<1>5. e.kind = "AssertionFailed" => <<"Asserted", TerminalMessage(e.message)>> \in States
  BY <1>1
<1>6. e.kind = "TestFinished" => <<"Finished", <<e.outcome, e.message>>>> \in States
  BY <1>1
<1>7. \A v \in States : [g.states EXCEPT ![e.test] = v] \in [PlannedTests -> States]
  BY <1>3
<1>8. SealTypes(g) <=> g \in [ok : BOOLEAN, states : [PlannedTests -> States],
           active : 0 .. planned, finished : Nat, terminal : (Nat \X Nat) \cup {None},
           languageFatal : BOOLEAN, lastHeartbeat : Nat \cup {None}]
  BY DEF SealTypes
<1>9. \A r : SealTypes(r) <=> r \in [ok : BOOLEAN, states : [PlannedTests -> States],
           active : 0 .. planned, finished : Nat, terminal : (Nat \X Nat) \cup {None},
           languageFatal : BOOLEAN, lastHeartbeat : Nat \cup {None}]
  BY DEF SealTypes
<1> HIDE DEF States
<1>10. CASE e.kind = "TestStarted"
  <2> DEFINE q == [g.states EXCEPT ![e.test] = <<"Active">>]
             r == [g EXCEPT !.states = q, !.active = @ + 1]
  <2>1. Sealed(g, e) = r
    BY <1>8, <1>10 DEF Sealed
  <2>2. q \in [PlannedTests -> States] /\ g.active + 1 \in 0 .. planned
    BY <1>2, <1>3, <1>4, <1>7, <1>10
  <2> HIDE DEF q
  <2>3. SealTypes(r)
    BY <1>8, <1>9, <2>2
  <2>4. /\ r.ok = g.ok /\ r.states = q /\ r.active = g.active + 1 /\ r.finished = g.finished
        /\ r.terminal = g.terminal /\ r.languageFatal = g.languageFatal
        /\ r.lastHeartbeat = g.lastHeartbeat
    BY <1>8
  <2> HIDE DEF r
  <2> QED
    BY <1>10, <2>1, <2>3, <2>4 DEF q
<1>11. CASE e.kind = "AssertionFailed"
  <2> DEFINE q == [g.states EXCEPT ![e.test] = <<"Asserted", TerminalMessage(e.message)>>]
             r == [g EXCEPT !.states = q]
  <2>1. Sealed(g, e) = r
    BY <1>8, <1>11 DEF Sealed
  <2>2. q \in [PlannedTests -> States]
    BY <1>5, <1>7, <1>11
  <2> HIDE DEF q
  <2>3. SealTypes(r)
    BY <1>8, <1>9, <2>2
  <2>4. /\ r.ok = g.ok /\ r.states = q /\ r.active = g.active /\ r.finished = g.finished
        /\ r.terminal = g.terminal /\ r.languageFatal = g.languageFatal
        /\ r.lastHeartbeat = g.lastHeartbeat
    BY <1>8
  <2> HIDE DEF r
  <2> QED
    BY <1>11, <2>1, <2>3, <2>4 DEF q
<1>12. CASE e.kind = "TestFinished"
  <2> DEFINE q == [g.states EXCEPT ![e.test] = <<"Finished", <<e.outcome, e.message>>>>]
             b == (e.outcome = "LanguageFatal")
             r == [g EXCEPT !.states = q, !.languageFatal = b, !.active = @ - 1,
                            !.finished = @ + 1]
  <2>1. Sealed(g, e) = r
    BY <1>8, <1>12 DEF Sealed
  <2>2. q \in [PlannedTests -> States] /\ b \in BOOLEAN
    BY <1>6, <1>7, <1>12
  <2>3. g.active - 1 \in 0 .. planned /\ g.finished + 1 \in Nat
    BY <1>2, <1>3, <1>12
  <2> HIDE DEF q, b
  <2>4. SealTypes(r)
    BY <1>8, <1>9, <2>2, <2>3
  <2>5. /\ r.ok = g.ok /\ r.states = q /\ r.active = g.active - 1 /\ r.finished = g.finished + 1
        /\ r.terminal = g.terminal /\ r.languageFatal = b
        /\ r.lastHeartbeat = g.lastHeartbeat
    BY <1>8
  <2> HIDE DEF r
  <2> QED
    BY <1>12, <2>1, <2>4, <2>5 DEF q, b
<1>13. CASE e.kind = "Heartbeat"
  <2> DEFINE r == [g EXCEPT !.lastHeartbeat = e.ticks]
  <2>1. Sealed(g, e) = r
    BY <1>13 DEF Sealed
  <2>2. SealTypes(r)
    BY <1>1, <1>8, <1>9, <1>13
  <2>3. /\ r.ok = g.ok /\ r.states = g.states /\ r.active = g.active /\ r.finished = g.finished
        /\ r.terminal = g.terminal /\ r.languageFatal = g.languageFatal
        /\ r.lastHeartbeat = e.ticks
    BY <1>8
  <2> HIDE DEF r
  <2> QED
    BY <1>13, <2>1, <2>2, <2>3
<1>14. CASE e.kind = "RunFinished"
  <2> DEFINE r == [g EXCEPT !.terminal = <<e.passed, e.failed>>]
  <2>1. Sealed(g, e) = r
    BY <1>14 DEF Sealed
  <2>2. SealTypes(r)
    BY <1>1, <1>8, <1>9, <1>14
  <2>3. /\ r.ok = g.ok /\ r.states = g.states /\ r.active = g.active /\ r.finished = g.finished
        /\ r.terminal = <<e.passed, e.failed>> /\ r.languageFatal = g.languageFatal
        /\ r.lastHeartbeat = g.lastHeartbeat
    BY <1>8
  <2> HIDE DEF r
  <2> QED
    BY <1>14, <2>1, <2>2, <2>3
<1>15. CASE e.kind \in {"RunStarted", "Log"}
  <2>1. Sealed(g, e) = g
    BY <1>15 DEF Sealed
  <2> QED
    BY <1>15, <2>1
<1> QED
  BY <1>1, <1>10, <1>11, <1>12, <1>13, <1>14, <1>15 DEF Kinds

\* The second validator goes on following the first.
LEMMA SealKeeps ==
    ASSUME planned \in 1 .. MaxPlanned, DecodeFlow, CollectFlow, SealFlow,
           NEW e \in HostEvent, HostObserve(e)
    PROVE  SealFlow'
<1>1. /\ Decodes(e) /\ events' = Append(events, e) /\ stream' = Observed(stream, e)
      /\ prefixOk' = (prefixOk /\ PrefixFits(e))
      /\ collected' = Collect(e)
      /\ terminal' = IF e.kind = "RunFinished" THEN <<e.passed, e.failed>> ELSE terminal
      /\ sealing' = SealNext(sealing, e, Len(events))
      /\ planned' = planned /\ PlannedTests' = PlannedTests
  BY DEF HostObserve, PlannedTests
<1>2. prefixOk \in BOOLEAN /\ SealTypes(sealing) /\ (prefixOk <=> sealing.ok)
  BY DEF SealFlow
<1>3. SealTypes(sealing)' <=> sealing' \in
         [ok : BOOLEAN,
          states : [PlannedTests -> {<<"Pending">>, <<"Active">>}
                                     \cup ({"Asserted"} \X Messages)
                                     \cup ({"Finished"} \X (Outcomes \X Messages))],
          active : 0 .. planned, finished : Nat, terminal : (Nat \X Nat) \cup {None},
          languageFatal : BOOLEAN, lastHeartbeat : Nat \cup {None}]
  BY <1>1 DEF SealTypes
<1>4. CASE ~(prefixOk /\ PrefixFits(e))
  <2>1. sealing' = [sealing EXCEPT !.ok = FALSE]
    BY <1>1, <1>2, <1>4 DEF SealNext
  <2>2. SealTypes(sealing)' /\ sealing'.ok = FALSE
    BY <1>2, <1>3, <2>1 DEF SealTypes
  <2>3. prefixOk' = FALSE
    BY <1>1, <1>4
  <2> QED
    BY <2>2, <2>3 DEF SealFlow
<1>5. CASE prefixOk /\ PrefixFits(e)
  <2> DEFINE g == sealing
             st == stream
             r == Sealed(g, e)
             rt == Observed(st, e)
  <2>1. SealFollows(g, st) /\ StreamTypes(st) /\ events \in Seq(HostEvent)
    BY <1>5 DEF SealFlow, DecodeFlow
  <2>2. sealing' = r
    BY <1>1, <1>2, <1>5, SealAccepted DEF SealNext
  <2>3. /\ e.kind = "RunStarted" => e.count = planned
        /\ e.kind \in {"TestStarted", "AssertionFailed", "TestFinished"} => e.test \in PlannedTests
    BY <1>5 DEF PrefixFits
  <2>4. /\ PlannedTests \subseteq Tests /\ planned \in Nat /\ IsFiniteSet(PlannedTests)
    BY PlannedAreTests
  <2>5. /\ e.kind = "RunStarted" <=> events = <<>>
        /\ ~st.terminal
        /\ st.pending # None => /\ e.kind = "TestFinished" /\ e.outcome = "Failed"
                                /\ <<e.test, e.message>> = st.pending
        /\ e.kind = "TestStarted" => st.tests[e.test] = "Absent"
        /\ e.kind \in {"AssertionFailed", "TestFinished"} => st.tests[e.test] = "Active"
    BY <1>1, AcceptedEvent
  <2>6. e.kind = "TestStarted" => g.active + 1 <= planned
    <3> SUFFICES ASSUME e.kind = "TestStarted" PROVE g.active + 1 <= planned
      OBVIOUS
    <3>1. st.started + 1 <= st.declared
      BY <1>1 DEF Decodes, Observes
    <3>2. g.active = st.started - st.finished /\ st.declared = planned
      BY <2>1, <2>5 DEF SealFollows
    <3>3. st.started \in Nat /\ st.finished \in Nat
      BY StreamCounters
    <3> QED
      BY <2>4, <3>1, <3>2, <3>3
  <2>7. e.kind = "TestFinished" => g.active >= 1
    <3> SUFFICES ASSUME e.kind = "TestFinished" PROVE g.active >= 1
      OBVIOUS
    <3>1. e.test \in ActiveTests(st)
      BY <2>3, <2>4, <2>5 DEF ActiveTests
    <3>2. IsFiniteSet(ActiveTests(st)) /\ st.started = st.finished + Cardinality(ActiveTests(st))
      BY DEF DecodeFlow, Follows, CountsFollow
    <3>3. Cardinality(ActiveTests(st)) \in Nat /\ Cardinality(ActiveTests(st)) # 0
      BY <3>1, <3>2, FS_CardinalityType, FS_EmptySet
    <3>4. g.active = st.started - st.finished /\ st.finished \in Nat
      BY <2>1, StreamCounters DEF SealFollows
    <3> QED
      BY <3>2, <3>3, <3>4
  <2>8. /\ SealTypes(r) /\ r.ok = g.ok
        /\ r.states =
             IF e.kind = "TestStarted" THEN [g.states EXCEPT ![e.test] = <<"Active">>]
             ELSE IF e.kind = "AssertionFailed"
             THEN [g.states EXCEPT ![e.test] = <<"Asserted", TerminalMessage(e.message)>>]
             ELSE IF e.kind = "TestFinished"
             THEN [g.states EXCEPT ![e.test] = <<"Finished", <<e.outcome, e.message>>>>]
             ELSE g.states
        /\ r.active = IF e.kind = "TestStarted" THEN g.active + 1
                      ELSE IF e.kind = "TestFinished" THEN g.active - 1 ELSE g.active
        /\ r.finished = IF e.kind = "TestFinished" THEN g.finished + 1 ELSE g.finished
        /\ r.terminal = IF e.kind = "RunFinished" THEN <<e.passed, e.failed>> ELSE g.terminal
        /\ r.languageFatal <=>
             IF e.kind = "TestFinished" THEN e.outcome = "LanguageFatal" ELSE g.languageFatal
        /\ r.lastHeartbeat = IF e.kind = "Heartbeat" THEN e.ticks ELSE g.lastHeartbeat
    BY <1>2, <1>5, <2>6, <2>7, SealedFields
  <2>9. /\ rt.declared = IF e.kind = "RunStarted" THEN e.count ELSE st.declared
        /\ rt.tests = IF e.kind = "TestStarted" THEN [st.tests EXCEPT ![e.test] = "Active"]
                      ELSE IF e.kind = "TestFinished" THEN [st.tests EXCEPT ![e.test] = "Finished"]
                      ELSE st.tests
        /\ rt.started = IF e.kind = "TestStarted" THEN st.started + 1 ELSE st.started
        /\ rt.finished = IF e.kind = "TestFinished" THEN st.finished + 1 ELSE st.finished
        /\ rt.passed = IF e.kind = "TestFinished" /\ e.outcome = "Passed"
                       THEN st.passed + 1 ELSE st.passed
        /\ rt.languageFatal <=>
             st.languageFatal \/ (e.kind = "TestFinished" /\ e.outcome = "LanguageFatal")
        /\ rt.pending = IF e.kind = "AssertionFailed" THEN <<e.test, TerminalMessage(e.message)>>
                        ELSE IF e.kind = "TestFinished" THEN None ELSE st.pending
        /\ rt.lastHeartbeat = IF e.kind = "Heartbeat" THEN e.ticks ELSE st.lastHeartbeat
    BY <2>1, ObservedFields
  <2>10. /\ st.started \in Nat /\ st.finished \in Nat /\ st.passed \in Nat
    BY StreamCounters
  <2>11. /\ st.tests \in [Tests -> {"Absent", "Active", "Finished"}]
         /\ DOMAIN g.states = PlannedTests
         /\ collected \in [PlannedTests -> {None} \cup (Outcomes \X Messages)]
    BY <1>2, <2>1 DEF StreamTypes, SealTypes, CollectFlow
  <2>12. collected' = IF e.kind = "TestFinished"
                      THEN [collected EXCEPT ![e.test] = <<e.outcome, e.message>>] ELSE collected
    BY <1>1, <2>3 DEF Collect, GuestOutcome
  <2>13. e.kind = "TestFinished" => /\ <<e.outcome, e.message>> \in Outcomes \X Messages
                                    /\ <<e.outcome, e.message>> # None
    BY HostEventFields, OptionAssumption DEF Messages
  <2>14. e.kind = "AssertionFailed" =>
           <<e.test, TerminalMessage(e.message)>> \in Tests \X Messages
           /\ <<e.test, TerminalMessage(e.message)>> # None
    BY HostEventFields, OptionAssumption DEF Messages, TerminalMessage
  <2> HIDE DEF g, st, r, rt
  <2>15. events' # <<>> => rt.declared = planned
    BY <2>1, <2>3, <2>5, <2>9 DEF SealFollows
  <2>16. \A t \in Tests \ PlannedTests : rt.tests[t] = "Absent"
    BY <2>1, <2>3, <2>9, <2>11 DEF SealFollows
  <2>17. ASSUME NEW t \in PlannedTests
         PROVE  /\ rt.tests[t] = "Absent" => r.states[t] = <<"Pending">>
                /\ rt.tests[t] = "Active" =>
                      r.states[t] = IF rt.pending # None /\ rt.pending[1] = t
                                    THEN <<"Asserted", rt.pending[2]>> ELSE <<"Active">>
                /\ rt.tests[t] = "Finished" => r.states[t] = <<"Finished", collected'[t]>>
                /\ rt.tests[t] = "Finished" <=> collected'[t] # None
    <3>1. /\ st.tests[t] = "Absent" => g.states[t] = <<"Pending">>
          /\ st.tests[t] = "Active" =>
                g.states[t] = IF st.pending # None /\ st.pending[1] = t
                              THEN <<"Asserted", st.pending[2]>> ELSE <<"Active">>
          /\ st.tests[t] = "Finished" => g.states[t] = <<"Finished", collected[t]>>
          /\ st.tests[t] = "Finished" <=> collected[t] # None
          /\ t \in Tests
      BY <2>1, <2>4 DEF SealFollows, StatesFollow
    <3>2. CASE e.kind = "TestStarted"
      <4>1. rt.pending = None /\ collected' = collected /\ st.pending = None
        BY <2>5, <2>9, <2>12, <3>2
      <4>2. CASE t = e.test
        BY <2>5, <2>8, <2>9, <2>11, <3>1, <3>2, <4>1, <4>2
      <4>3. CASE t # e.test
        <5>1. rt.tests[t] = st.tests[t] /\ r.states[t] = g.states[t]
          BY <2>8, <2>9, <2>11, <3>1, <3>2, <4>3
        <5> QED
          BY <3>1, <4>1, <5>1
      <4> QED
        BY <4>2, <4>3
    <3>3. CASE e.kind = "AssertionFailed"
      <4>1. /\ rt.pending = <<e.test, TerminalMessage(e.message)>> /\ rt.pending # None
            /\ collected' = collected /\ st.pending = None /\ rt.tests = st.tests
        BY <2>5, <2>9, <2>12, <2>14, <3>3
      <4>2. rt.pending[1] = e.test /\ rt.pending[2] = TerminalMessage(e.message)
        BY <4>1
      <4>3. CASE t = e.test
        <5>1. st.tests[t] = "Active" /\ r.states[t] = <<"Asserted", TerminalMessage(e.message)>>
          BY <2>5, <2>8, <2>11, <3>3, <4>3
        <5> QED
          BY <3>1, <4>1, <4>2, <4>3, <5>1
      <4>4. CASE t # e.test
        <5>1. r.states[t] = g.states[t]
          BY <2>8, <2>11, <3>3, <4>4
        <5> QED
          BY <3>1, <4>1, <4>2, <4>4, <5>1
      <4> QED
        BY <4>3, <4>4
    <3>4. CASE e.kind = "TestFinished"
      <4>1. rt.pending = None
        BY <2>9, <3>4
      <4>2. CASE t = e.test
        <5>1. rt.tests[t] = "Finished" /\ collected'[t] = <<e.outcome, e.message>>
          BY <2>9, <2>11, <2>12, <3>1, <3>4, <4>2
        <5>2. r.states[t] = <<"Finished", <<e.outcome, e.message>>>>
          BY <2>8, <2>11, <3>4, <4>2
        <5> QED
          BY <2>13, <3>4, <5>1, <5>2
      <4>3. CASE t # e.test
        <5>1. rt.tests[t] = st.tests[t] /\ r.states[t] = g.states[t] /\ collected'[t] = collected[t]
          BY <2>8, <2>9, <2>11, <2>12, <3>1, <3>4, <4>3
        <5>2. ~(st.pending # None /\ st.pending[1] = t)
          BY <2>5, <4>3
        <5> QED
          BY <3>1, <4>1, <5>1, <5>2
      <4> QED
        BY <4>2, <4>3
    <3>5. CASE e.kind \notin {"TestStarted", "AssertionFailed", "TestFinished"}
      <4>1. /\ rt.tests = st.tests /\ r.states = g.states /\ collected' = collected
            /\ rt.pending = st.pending
        BY <2>8, <2>9, <2>12, <3>5
      <4> QED
        BY <3>1, <4>1
    <3> QED
      BY <3>2, <3>3, <3>4, <3>5
  <2>18. r.terminal = terminal'
    BY <1>1, <2>1, <2>8 DEF SealFollows
  <2>19. r.lastHeartbeat = rt.lastHeartbeat /\ (r.languageFatal => rt.languageFatal)
    BY <2>1, <2>8, <2>9 DEF SealFollows
  <2>20. r.active = rt.started - rt.finished /\ r.finished = rt.finished
    <3>1. g.active = st.started - st.finished /\ g.finished = st.finished
      BY <2>1 DEF SealFollows
    <3> QED
      BY <2>8, <2>9, <2>10, <3>1
  <2>21. /\ st.finished = Cardinality(DoneTests) /\ st.passed = Cardinality(PassedTests)
         /\ IsFiniteSet(DoneTests) /\ IsFiniteSet(PassedTests)
    <3>1. st.finished = Cardinality(DoneTests) /\ st.passed = Cardinality(PassedTests)
      BY <2>1 DEF SealFollows
    <3>2. IsFiniteSet(DoneTests) /\ IsFiniteSet(PassedTests)
      BY <2>4, FS_Subset DEF DoneTests, PassedTests
    <3> QED
      BY <3>1, <3>2
  <2>22. rt.finished = Cardinality(DoneTests') /\ rt.passed = Cardinality(PassedTests')
    <3>1. CASE e.kind # "TestFinished"
      <4>1. DoneTests' = DoneTests /\ PassedTests' = PassedTests
        BY <1>1, <2>12, <3>1 DEF DoneTests, PassedTests
      <4> QED
        BY <2>9, <2>21, <3>1, <4>1
    <3>2. CASE e.kind = "TestFinished"
      <4>1. /\ collected[e.test] = None /\ e.test \in PlannedTests
            /\ collected'[e.test] = <<e.outcome, e.message>>
            /\ \A t \in PlannedTests : t # e.test => collected'[t] = collected[t]
        BY <2>1, <2>3, <2>5, <2>11, <2>12, <3>2 DEF SealFollows, StatesFollow
      <4>2. DoneTests' = DoneTests \cup {e.test} /\ e.test \notin DoneTests
        BY <1>1, <2>13, <3>2, <4>1 DEF DoneTests
      <4>3. PassedTests' = IF e.outcome = "Passed" THEN PassedTests \cup {e.test} ELSE PassedTests
        BY <4>1, <4>2 DEF PassedTests, DoneTests
      <4>4. e.test \notin PassedTests
        BY <4>2 DEF PassedTests
      <4>5. Cardinality(DoneTests \cup {e.test}) = Cardinality(DoneTests) + 1
        BY <2>21, <4>2, FS_AddElement
      <4>6. Cardinality(PassedTests \cup {e.test}) = Cardinality(PassedTests) + 1
        BY <2>21, <4>4, FS_AddElement
      <4> QED
        BY <2>9, <2>21, <3>2, <4>2, <4>3, <4>5, <4>6
    <3> QED
      BY <3>1, <3>2
  <2>23. stream' = rt /\ sealing' = r
    BY <1>1, <2>2 DEF rt, r, g, st
  <2>24. SealFollows(sealing, stream)'
    BY <1>1, <2>15, <2>16, <2>17, <2>18, <2>19, <2>20, <2>22, <2>23 DEF SealFollows, StatesFollow
  <2>25. SealTypes(sealing)' /\ sealing'.ok
    BY <1>2, <1>3, <1>5, <2>8, <2>23 DEF SealTypes, g
  <2> QED
    BY <1>1, <1>5, <2>24, <2>25 DEF SealFlow
<1> QED
  BY <1>4, <1>5

\* When every test of the group has ended, its cases are the whole group.
LEMMA AllDone ==
    ASSUME planned \in 1 .. MaxPlanned, DecodeFlow, CollectFlow, SealFlow, prefixOk,
           terminal # None
    PROVE  DoneTests = PlannedTests /\ stream.finished = planned
<1>1. SealFollows(sealing, stream)
  BY DEF SealFlow
<1>2. events # <<>>
  BY DEF CollectFlow, DecodeFlow, Follows, LastFollows, EndsWith
<1>3. stream.finished = planned /\ stream.finished = Cardinality(DoneTests)
  BY <1>1, <1>2 DEF SealFollows, CollectFlow
<1>4. IsFiniteSet(PlannedTests) /\ Cardinality(PlannedTests) = planned
  BY PlannedAreTests
<1>5. DoneTests \subseteq PlannedTests
  BY DEF DoneTests
<1> QED
  BY <1>3, <1>4, <1>5, FS_Subset

\* What summarize is about to report, the second validator seals.
LEMMA SummarySeals ==
    ASSUME planned \in 1 .. MaxPlanned, DecodeFlow, CollectFlow, SealFlow, prefixOk,
           ~NonPrefixCompletion, NEW exit, NEW timedOut,
           ~(terminal # None /\ (timedOut \/ exit # 0))
    PROVE  SealsResult(sealing, CompletedPrefix, Infrastructure(exit, timedOut))
<1> DEFINE g == sealing
           cases == CompletedPrefix
           infra == Infrastructure(exit, timedOut)
<1>1. SealFollows(g, stream) /\ g.ok
  BY DEF SealFlow
<1>2. infra = None <=> terminal # None
  BY OptionAssumption DEF Infrastructure
<1>3. cases = DoneTests
  <2>1. cases \subseteq DoneTests
    BY DEF CompletedPrefix, DoneTests, PlannedTests
  <2>2. DoneTests \subseteq cases
    BY DEF NonPrefixCompletion, DoneTests
  <2> QED
    BY <2>1, <2>2
<1>4. g.terminal = terminal /\ g.finished = Cardinality(DoneTests)
      /\ stream.passed = Cardinality(PassedTests)
  BY <1>1 DEF SealFollows
<1>5. LastFollows(stream, events) /\ (terminal # None <=> stream.terminal)
  BY DEF DecodeFlow, Follows, CollectFlow
<1>6. events = <<>> => terminal = None /\ DoneTests = {}
  <2>1. events = <<>> => DOMAIN events = {}
    OBVIOUS
  <2>2. events = <<>> => DoneTests = {}
    BY <2>1 DEF DoneTests, CollectFlow
  <2> QED
    BY <1>5, <2>2 DEF LastFollows, EndsWith
<1>7. terminal # None => events[Len(events)].kind = "RunFinished"
  BY <1>5 DEF LastFollows, EndsWith, IsKind
<1>8. \A t \in DoneTests : g.states[t] = <<"Finished", collected[t]>>
  BY <1>1 DEF SealFollows, StatesFollow, DoneTests
<1>9. terminal # None =>
        /\ DoneTests = PlannedTests /\ g.finished = planned
        /\ terminal = <<Cardinality(PassedTests), planned - Cardinality(PassedTests)>>
  <2> SUFFICES ASSUME terminal # None
               PROVE  /\ DoneTests = PlannedTests /\ g.finished = planned
                      /\ terminal = <<Cardinality(PassedTests), planned - Cardinality(PassedTests)>>
    OBVIOUS
  <2>1. DoneTests = PlannedTests /\ stream.finished = planned
    BY AllDone
  <2>2. g.finished = planned
    BY <1>1, <2>1 DEF SealFollows
  <2>3. /\ stream.passed \in Nat /\ stream.failed \in Nat
        /\ stream.passed + stream.failed = stream.finished
    BY StreamCounters
  <2>4. stream.failed = planned - stream.passed
    BY <2>1, <2>3
  <2>5. terminal = <<stream.passed, stream.failed>>
    BY DEF CollectFlow
  <2> QED
    BY <1>4, <2>1, <2>2, <2>4, <2>5
<1>10. {t \in DoneTests : collected[t][1] = "Passed"} = PassedTests
  BY DEF PassedTests
<1> HIDE DEF g, cases, infra
<1>11. SealsResult(g, cases, infra)
  <2>1. events = <<>> => infra # None /\ cases = {}
    BY <1>2, <1>3, <1>6
  <2>2. g.terminal # None => infra = None /\ events[Len(events)].kind = "RunFinished"
    BY <1>2, <1>4, <1>7
  <2>3. \A t \in cases : g.states[t] = <<"Finished", collected[t]>>
    BY <1>3, <1>8
  <2>4. infra # None => g.terminal = None /\ g.finished = Cardinality(cases)
    BY <1>2, <1>3, <1>4
  <2>5. infra = None =>
          /\ cases = PlannedTests /\ g.finished = planned
          /\ g.terminal = <<Cardinality({t \in cases : collected[t][1] = "Passed"}),
                            planned - Cardinality({t \in cases : collected[t][1] = "Passed"})>>
    BY <1>2, <1>3, <1>4, <1>9, <1>10
  <2> QED
    BY <1>1, <2>1, <2>2, <2>3, <2>4, <2>5 DEF SealsResult, g
<1> QED
  BY <1>11 DEF g, cases, infra

\* The summary of a finished stream counts its records.
LEMMA SummaryKeeps ==
    ASSUME planned \in 1 .. MaxPlanned, DecodeFlow, CollectFlow, SealFlow,
           NEW exit, NEW timedOut, NEW truncated, NEW overran,
           HostSummarize(exit, timedOut, truncated, overran)
    PROVE  VerdictFlow'
<1> DEFINE infra == Infrastructure(exit, timedOut)
           cases == CompletedPrefix
<1>1. /\ verdict' = Summary(exit, timedOut, truncated, overran)
      /\ prefixOk' = prefixOk /\ terminal' = terminal /\ collected' = collected
      /\ PlannedTests' = PlannedTests
  BY DEF HostSummarize, PlannedTests
<1>2. CASE \E why \in {"timeoutOverrun", "truncatedFrame", "unplannedEvent",
                       "nonPrefixCompletion", "terminalBeforeFailure"} : verdict' = Failure(why)
  <2>1. verdict'.kind = "error"
    BY <1>2 DEF Failure
  <2> QED
    BY <1>2, <2>1 DEF VerdictFlow
<1>3. CASE /\ prefixOk /\ ~NonPrefixCompletion
           /\ ~(terminal # None /\ (timedOut \/ exit # 0))
           /\ verdict' = IF SealsResult(sealing, cases, infra)
                         THEN Report([t \in cases |-> collected[t]], infra)
                         ELSE Failure("unsealable")
  <2>1. SealsResult(sealing, cases, infra)
    BY <1>3, SummarySeals
  <2>2. verdict' = Report([t \in cases |-> collected[t]], infra)
    BY <1>3, <2>1
  <2>3. infra = None => terminal # None /\ cases = PlannedTests
    <3>1. infra = None => terminal # None
      BY OptionAssumption DEF Infrastructure
    <3>2. infra = None => cases = PlannedTests
      BY <2>1 DEF SealsResult
    <3> QED
      BY <3>1, <3>2
  <2> HIDE DEF infra, cases
  <2>4. /\ verdict'.kind = "report" /\ verdict'.infra = infra
        /\ verdict'.cases = [t \in cases |-> collected[t]]
    BY <2>2 DEF Report
  <2> QED
    BY <1>1, <1>3, <2>3, <2>4 DEF VerdictFlow
<1>4. \/ \E why \in {"timeoutOverrun", "truncatedFrame", "unplannedEvent",
                     "nonPrefixCompletion", "terminalBeforeFailure"} : verdict' = Failure(why)
      \/ /\ prefixOk /\ ~NonPrefixCompletion
         /\ ~(terminal # None /\ (timedOut \/ exit # 0))
         /\ verdict' = IF SealsResult(sealing, cases, infra)
                       THEN Report([t \in cases |-> collected[t]], infra)
                       ELSE Failure("unsealable")
  BY <1>1 DEF Summary
<1> QED
  BY <1>2, <1>3, <1>4

\* The host starts with an empty report.
LEMMA HostStarts == Init => HostFlow
<1> SUFFICES ASSUME Init PROVE HostFlow
  OBVIOUS
<1>1. /\ events = <<>> /\ stream = NewStream /\ prefixOk = TRUE /\ terminal = None
      /\ collected = [t \in PlannedTests |-> None] /\ sealing = NewSealing
      /\ verdict = Undecided /\ planned \in 1 .. MaxPlanned
  BY DEF Init, HostInit
<1>2. PlannedTests \subseteq Tests /\ planned \in Nat
  BY <1>1, PlannedAreTests
<1>3. CollectFlow
  <2>1. collected \in [PlannedTests -> {None} \cup (Outcomes \X Messages)]
    BY <1>1
  <2>2. ~stream.terminal
    BY <1>1 DEF NewStream
  <2> QED
    BY <1>1, <2>1, <2>2 DEF CollectFlow
<1>4. DoneTests = {} /\ PassedTests = {}
  BY <1>1 DEF DoneTests, PassedTests
<1>5. SealTypes(sealing) /\ sealing.ok
  BY <1>1, <1>2 DEF SealTypes, NewSealing
<1>6. SealFollows(sealing, stream)
  <2>1. /\ stream.tests = [t \in Tests |-> "Absent"] /\ stream.lastHeartbeat = None
        /\ stream.started = 0 /\ stream.finished = 0 /\ stream.passed = 0
    BY <1>1 DEF NewStream
  <2>2. /\ sealing.states = [t \in PlannedTests |-> <<"Pending">>] /\ sealing.terminal = None
        /\ sealing.lastHeartbeat = None /\ ~sealing.languageFatal /\ sealing.active = 0
        /\ sealing.finished = 0
    BY <1>1 DEF NewSealing
  <2>3. \A t \in PlannedTests : StatesFollow(sealing, stream, t)
    BY <1>1, <1>2, <2>1, <2>2 DEF StatesFollow
  <2>4. Cardinality({}) = 0 /\ 0 - 0 = 0
    BY FS_EmptySet
  <2> QED
    BY <1>1, <1>4, <2>1, <2>2, <2>3, <2>4 DEF SealFollows
<1>7. VerdictFlow
  BY <1>1 DEF VerdictFlow, Undecided
<1> QED
  BY <1>1, <1>3, <1>5, <1>6, <1>7 DEF HostFlow, SealFlow

\* Each step of the host keeps the report in line with the stream.
LEMMA HostKeeps ==
    ASSUME planned \in 1 .. MaxPlanned, wire \in Seq(Event), DecodeFlow, HostFlow, [Next]_vars
    PROVE  HostFlow'
<1>1. CollectFlow /\ SealFlow /\ VerdictFlow /\ events \in Seq(HostEvent)
  BY DEF HostFlow, DecodeFlow
<1>2. ASSUME NEW e \in HostEvent, HostObserve(e) PROVE HostFlow'
  <2>1. CollectFlow' /\ SealFlow'
    BY <1>1, <1>2, CollectKeeps, SealKeeps
  <2>2. verdict' = Undecided
    BY <1>2 DEF HostObserve
  <2>3. VerdictFlow'
    BY <2>2 DEF VerdictFlow, Undecided
  <2> QED
    BY <2>1, <2>3 DEF HostFlow
<1>3. ASSUME UNCHANGED <<planned, events, stream, prefixOk, collected, terminal, sealing>>
      PROVE  CollectFlow' /\ SealFlow'
  <2>1. PlannedTests' = PlannedTests
    BY <1>3 DEF PlannedTests
  <2>2. DoneTests' = DoneTests /\ PassedTests' = PassedTests
    BY <1>3, <2>1 DEF DoneTests, PassedTests
  <2>3. CollectFlow'
    BY <1>1, <1>3, <2>1 DEF CollectFlow
  <2>4. SealFlow'
    BY <1>1, <1>3, <2>1, <2>2 DEF SealFlow, SealTypes, SealFollows, StatesFollow
  <2> QED
    BY <2>3, <2>4
<1>4. ASSUME NEW exit, NEW timedOut, NEW truncated, NEW overran,
             HostSummarize(exit, timedOut, truncated, overran)
      PROVE  HostFlow'
  <2>1. UNCHANGED <<planned, events, stream, prefixOk, collected, terminal, sealing>>
    BY <1>4 DEF HostSummarize
  <2>2. VerdictFlow'
    BY <1>1, <1>4, SummaryKeeps
  <2> QED
    BY <1>3, <2>1, <2>2 DEF HostFlow
<1>5. ASSUME UNCHANGED <<planned, events, stream, prefixOk, collected, terminal, sealing>>,
             UNCHANGED verdict \/ \E why \in {"protocol", "cancelled"} : verdict' = Failure(why)
      PROVE  HostFlow'
  <2>1. PlannedTests' = PlannedTests
    BY <1>5 DEF PlannedTests
  <2>2. UNCHANGED verdict => VerdictFlow'
    BY <1>1, <1>5, <2>1 DEF VerdictFlow
  <2>3. CASE \E why \in {"protocol", "cancelled"} : verdict' = Failure(why)
    <3>1. verdict'.kind = "error"
      BY <2>3 DEF Failure
    <3>2. VerdictFlow'
      BY <2>3, <3>1 DEF VerdictFlow
    <3> QED
      BY <1>3, <1>5, <3>2 DEF HostFlow
  <2> QED
    BY <1>3, <1>5, <2>2, <2>3 DEF HostFlow
<1> QED
  BY <1>1, <1>2, <1>4, <1>5, HostSteps

\* Whatever the line carries, the passes of the host agree about it.
THEOREM HostInvariant == Spec => []HostFlow
<1>1. Init => HostFlow
  BY HostStarts
<1>2. RunFlow /\ DecodeFlow /\ HostFlow /\ [Next]_vars => HostFlow'
  <2>1. RunFlow => wire \in Seq(Event) /\ planned \in 1 .. MaxPlanned
    BY DEF RunFlow, GuestFlow, LineFlow, GuestTypes, TruthFlow
  <2> QED
    BY <2>1, HostKeeps
<1> QED
  BY <1>1, <1>2, RunInvariant, DecodeInvariant, PTL DEF Spec

\* For any group and any line: the states of the passes keep their types, the
\* second validator refuses nothing the first let through, and a report that
\* passes rests on a complete stream in which every planned test started and
\* ended with Passed before the terminal event.
THEOREM HostAlwaysSound == Spec => []HostInv
<1>1. RunFlow /\ DecodeFlow /\ HostFlow => HostInv
  <2> SUFFICES ASSUME RunFlow, DecodeFlow, HostFlow PROVE HostInv
    OBVIOUS
  <2>1. planned \in 1 .. MaxPlanned /\ CollectFlow /\ SealFlow /\ VerdictFlow
    BY DEF RunFlow, TruthFlow, HostFlow
  <2>2. HostTypeOK
    <3>1. /\ Len(events) <= EventLimit /\ stream.finished <= stream.started
          /\ stream.passed + stream.failed = stream.finished
          /\ stream.declared # None => stream.started <= stream.declared
      BY StreamCounters
    <3>2. collected \in [PlannedTests -> {None} \cup (Outcomes \X Messages)]
      BY <2>1 DEF CollectFlow
    <3>3. sealing.active \in 0 .. planned
      BY <2>1 DEF SealFlow, SealTypes
    <3>4. verdict.kind \in {"undecided", "error", "report"}
      BY <2>1 DEF VerdictFlow, Undecided, Failure
    <3> QED
      BY <3>1, <3>2, <3>3, <3>4 DEF HostTypeOK, Messages
  <2>3. SummaryAlwaysSeals
    BY <2>1 DEF SummaryAlwaysSeals, VerdictFlow, Undecided, Failure
  <2>4. PassedMeansEveryTestPassed
    <3> SUFFICES ASSUME ReportPassed(verdict)
                 PROVE  /\ events # <<>>
                        /\ events[Len(events)] = RunFinished(Len(events) - 1, planned, 0)
                        /\ \A t \in PlannedTests :
                              \E i, j \in DOMAIN events :
                                  /\ i < j
                                  /\ events[i] = TestStarted(i - 1, t)
                                  /\ events[j] = TestFinished(j - 1, t, "Passed", None)
      BY DEF PassedMeansEveryTestPassed
    <3>1. /\ prefixOk /\ terminal # None
          /\ verdict.cases = [t \in PlannedTests |-> collected[t]]
      BY <2>1 DEF VerdictFlow, ReportPassed
    <3>2. \A t \in PlannedTests : collected[t][1] = "Passed"
      BY <3>1 DEF ReportPassed
    <3>3. DoneTests = PlannedTests /\ stream.finished = planned
      BY <2>1, <3>1, AllDone
    <3>4. PassedTests = PlannedTests
      BY <3>2, <3>3 DEF PassedTests
    <3>5. stream.passed = planned /\ stream.failed = 0
      <4>1. stream.passed = Cardinality(PlannedTests)
        BY <2>1, <3>1, <3>4 DEF SealFlow, SealFollows
      <4>2. Cardinality(PlannedTests) = planned
        BY <2>1, PlannedAreTests
      <4>3. /\ stream.passed \in Nat /\ stream.failed \in Nat
            /\ stream.passed + stream.failed = stream.finished
        BY StreamCounters
      <4> QED
        BY <3>3, <4>1, <4>2, <4>3
    <3>6. /\ events \in Seq(HostEvent) /\ WellFormed(events, EventLimit)
          /\ EndsWith(events, "RunFinished") /\ CountsFollow(stream, events)
      BY <2>1, <3>1 DEF CollectFlow, DecodeFlow, Follows, LastFollows
    <3>7. /\ events # <<>> /\ DOMAIN events = 1 .. Len(events) /\ Len(events) \in Nat
          /\ Len(events) \in DOMAIN events
      BY <3>6 DEF EndsWith
    <3>8. events[Len(events)] = RunFinished(Len(events) - 1, planned, 0)
      <4> DEFINE e == events[Len(events)]
      <4>1. e \in HostEvent /\ e.kind = "RunFinished" /\ e.seq = Len(events) - 1
        BY <3>6, <3>7 DEF EndsWith, IsKind, WellFormed
      <4>2. TotalsAgree(events, Len(events))
        BY <3>6, <3>7 DEF WellFormed
      <4>3. e.passed = Cardinality(Passes(events))
            /\ e.failed = Cardinality(Ends(events) \ Passes(events))
        BY <4>1, <4>2 DEF TotalsAgree, IsKind
      <4>4. e.passed = planned /\ e.failed = 0
        BY <3>5, <3>6, <4>3 DEF CountsFollow
      <4> HIDE DEF e
      <4>5. e = RunFinished(e.seq, e.passed, e.failed)
        BY <4>1, HostEventShape
      <4> QED
        BY <4>1, <4>4, <4>5 DEF e
    <3>9. ASSUME NEW t \in PlannedTests
          PROVE  \E i, j \in DOMAIN events :
                     /\ i < j
                     /\ events[i] = TestStarted(i - 1, t)
                     /\ events[j] = TestFinished(j - 1, t, "Passed", None)
      <4>1. collected[t] # None /\ collected[t][1] = "Passed"
        BY <3>2, <3>3 DEF DoneTests
      <4>2. PICK j \in DOMAIN events :
                  /\ IsEndOf(events, j, t)
                  /\ collected[t] = <<events[j].outcome, events[j].message>>
        BY <2>1, <4>1 DEF CollectFlow
      <4>3. /\ events[j] \in HostEvent /\ events[j].kind = "TestFinished" /\ events[j].test = t
            /\ events[j].outcome = "Passed" /\ events[j].seq = j - 1
        BY <3>6, <4>1, <4>2 DEF IsEndOf, IsKind, WellFormed
      <4>4. events[j] = TestFinished(j - 1, t, "Passed", None)
        BY <4>3, HostEventShape
      <4>5. t # None
        BY <2>1, PlannedAreTests
      <4>6. RunningAt(events, j, t)
        BY <3>6, <4>2, <4>3, <4>5 DEF WellFormed, NamesRunningTest
      <4>7. PICK i \in 1 .. (j - 1) : IsKind(events, i, "TestStarted") /\ events[i].test = t
        BY <4>6 DEF RunningAt
      <4>8. i \in DOMAIN events /\ i < j
        BY <3>7, <4>7
      <4>9. /\ events[i] \in HostEvent /\ events[i].kind = "TestStarted"
            /\ events[i].seq = i - 1 /\ events[i].test = t
        BY <3>6, <4>7, <4>8 DEF IsKind, WellFormed
      <4>10. events[i] = TestStarted(i - 1, t)
        BY <4>9, HostEventShape
      <4> QED
        BY <4>4, <4>8, <4>10
    <3> QED
      BY <3>7, <3>8, <3>9
  <2> QED
    BY <2>2, <2>3, <2>4 DEF HostInv
<1> QED
  BY <1>1, RunInvariant, DecodeInvariant, HostInvariant, PTL

-----------------------------------------------------------------------------
(***************************************************************************)
(* The host is not too strict for what the harness and the runtime send.   *)
(* Regular runs are those the property speaks of: of one test, or without  *)
(* a failed test.                                                          *)
(***************************************************************************)

\* What the line carries and what a failing path has still to send.
Line == wire \o sending

\* The event at each position of s fits what precedes it.
Accepted(s) == \A k \in DOMAIN s : Fits(SubSeq(s, 1, k - 1), s[k], EventLimit)

Regular == planned = 1 \/ \A t \in PlannedTests : truth[t] \in {None, "Passed"}

\* The tests from t on have left no trace on the line.
Untouched(t) ==
    \A u \in PlannedTests : u >= t => ~StartedIn(wire, u) /\ ~EndedIn(wire, u)

\* The line and the counters of the runtime are where the harness is.
HarnessAt ==
    /\ pc \in {"enter", "run"} => test = 1 /\ wire = <<>>
    /\ pc \in {"enter", "run", "start"} => Untouched(test)
    /\ pc = "start" => started = test - 1 /\ completedPassed = test - 1
    /\ pc \in {"body", "finish"} =>
          /\ StartedIn(wire, test) /\ ~EndedIn(wire, test) /\ Untouched(test + 1)
          /\ started = test /\ completedPassed = test - 1 /\ sequence = 2 * test
    /\ pc # "returned" => \A i \in DOMAIN wire : wire[i].kind # "AssertionFailed"

LineFair ==
    /\ \A i \in DOMAIN wire : PrefixFits(wire[i])
    /\ \A i \in DOMAIN sending : PrefixFits(sending[i])
    /\ Line # <<>> => wire # <<>> /\ wire[1].count = planned /\ declared = planned
    /\ Regular => Accepted(Line)

QemuFair ==
    /\ qemu \in {Running, Ended("exited", 0), Ended("exited", 1), Ended("killed", None)}
    /\ qemu = Ended("exited", 0) => runtimeState = "exiting"

HostFair ==
    /\ Len(events) <= Len(wire) /\ events = SubSeq(wire, 1, Len(events))
    /\ prefixOk
    /\ qemu = Running => events = <<>> /\ verdict \in {Undecided, Failure("cancelled")}
    /\ Regular /\ verdict \notin {Undecided, Failure("cancelled")} =>
          /\ qemu.exit = 0 => verdict.kind = "report" /\ verdict.infra = None
          /\ planned = 1 /\ verdict.kind = "error" =>
                verdict.why \in {"timeoutOverrun", "terminalBeforeFailure"}

FairFlow == origin = "harness" => HarnessAt /\ LineFair /\ QemuFair /\ HostFair

\* Prefixes of a stream and of its extensions.
LEMMA PrefixKept ==
    ASSUME NEW S, NEW s \in Seq(S), NEW r \in Seq(S), NEW k \in 0 .. Len(s)
    PROVE  /\ SubSeq(s \o r, 1, k) = SubSeq(s, 1, k)
           /\ SubSeq(s, 1, Len(s)) = s
           /\ SubSeq(s, 1, k) \in Seq(S) /\ Len(SubSeq(s, 1, k)) = k
<1>1. /\ \A i \in 1 .. k : s[i] \in S /\ (s \o r)[i] = s[i] /\ (s \o r)[i] \in S
      /\ k \in Int /\ 1 \in Int /\ k \in Nat
  BY ConcatProperties, ElementOfSeq
<1>2. /\ SubSeq(s, 1, k) \in Seq(S) /\ Len(SubSeq(s, 1, k)) = k
      /\ \A i \in 1 .. k : SubSeq(s, 1, k)[i] = s[i]
  <2>1. \A i \in 1 .. k : s[i] \in S
    BY <1>1
  <2>2. k - 1 + 1 = k /\ (1 > k => k = 0) /\ \A i \in 1 .. k : 1 + i - 1 = i
    BY <1>1
  <2> QED
    BY <1>1, <2>1, <2>2, SubSeqProperties
<1>3. /\ SubSeq(s \o r, 1, k) \in Seq(S) /\ Len(SubSeq(s \o r, 1, k)) = k
      /\ \A i \in 1 .. k : SubSeq(s \o r, 1, k)[i] = s[i]
  <2>1. \A i \in 1 .. k : (s \o r)[i] \in S
    BY <1>1
  <2>2. k - 1 + 1 = k /\ (1 > k => k = 0) /\ \A i \in 1 .. k : 1 + i - 1 = i
    BY <1>1
  <2> QED
    BY <1>1, <2>1, <2>2, SubSeqProperties
<1>4. SubSeq(s \o r, 1, k) = SubSeq(s, 1, k)
  BY <1>2, <1>3, SeqEqual
<1> QED
  BY <1>2, <1>4, SubSeqFull

\* A stream whose events fit, with one that fits behind it.
LEMMA AcceptedGrows ==
    ASSUME NEW S, NEW s \in Seq(S), NEW e \in S, Accepted(s), Fits(s, e, EventLimit)
    PROVE  Accepted(Append(s, e))
<1> DEFINE l == Append(s, e)
<1>1. /\ DOMAIN l = 1 .. (Len(s) + 1) /\ DOMAIN s = 1 .. Len(s) /\ Len(s) \in Nat
      /\ \A i \in 1 .. Len(s) : l[i] = s[i] /\ l[Len(s) + 1] = e
  BY LineGrows
<1>2. l = s \o <<e>> /\ <<e>> \in Seq(S)
  BY AppendIsConcat
<1>3. \A k \in 0 .. Len(s) : SubSeq(l, 1, k) = SubSeq(s, 1, k)
  BY <1>2, PrefixKept
<1>4. SubSeq(l, 1, Len(s)) = s
  BY <1>1, <1>3, SubSeqFull
<1>5. l[Len(s) + 1] = e
  BY LineGrows
<1> HIDE DEF l
<1>6. ASSUME NEW k \in DOMAIN l PROVE Fits(SubSeq(l, 1, k - 1), l[k], EventLimit)
  <2>1. CASE k \in 1 .. Len(s)
    <3>1. l[k] = s[k] /\ k - 1 \in 0 .. Len(s) /\ k \in DOMAIN s
      BY <1>1, <2>1
    <3>2. SubSeq(l, 1, k - 1) = SubSeq(s, 1, k - 1)
      BY <1>3, <3>1
    <3> QED
      BY <3>1, <3>2 DEF Accepted
  <2>2. CASE k = Len(s) + 1
    <3>1. k - 1 = Len(s)
      BY <1>1, <2>2
    <3> QED
      BY <1>4, <1>5, <2>2, <3>1
  <2> QED
    BY <1>1, <2>1, <2>2
<1> QED
  BY <1>6 DEF Accepted, l

\* ... and a beginning of one.
LEMMA AcceptedPrefix ==
    ASSUME NEW S, NEW s \in Seq(S), NEW r \in Seq(S), Accepted(s \o r)
    PROVE  Accepted(s)
<1> SUFFICES ASSUME NEW k \in DOMAIN s PROVE Fits(SubSeq(s, 1, k - 1), s[k], EventLimit)
  BY DEF Accepted
<1>1. k \in 1 .. Len(s) /\ Len(s) \in Nat /\ Len(r) \in Nat
  OBVIOUS
<1>2. k \in DOMAIN (s \o r) /\ (s \o r)[k] = s[k] /\ k - 1 \in 0 .. Len(s)
  BY <1>1
<1>3. SubSeq(s \o r, 1, k - 1) = SubSeq(s, 1, k - 1)
  BY <1>2, PrefixKept
<1> QED
  BY <1>2, <1>3 DEF Accepted

\* The room a group needs: the frames of a passing run, and of one failed
\* assertion (a generated group has two events a test and three more).
LimitSuffices == EventLimit >= 5 /\ EventLimit >= 2 * MaxPlanned + 2

\* While the harness runs, its line ends in no event that asks for another.
LEMMA LineOpen ==
    ASSUME LineFlow, HarnessAt, pc # "returned", runtimeState = "entered", sending = <<>>,
           testTerminal = None
    PROVE  /\ ~EndsWith(wire, "RunFinished") /\ ~EndsWith(wire, "AssertionFailed")
           /\ EndsWith(wire, "TestFinished") => wire[Len(wire)].outcome = "Passed"
           /\ wire \in Seq(Event) /\ wire \in Seq(HostEvent) /\ Len(wire) = sequence
           /\ Ends(wire) = Passes(wire)
           /\ Cardinality(Starts(wire)) = started /\ Cardinality(Passes(wire)) = completedPassed
           /\ Cardinality(Ends(wire)) = completedPassed /\ Cardinality(Ends(wire) \ Passes(wire)) = 0
<1>1. /\ wire \in Seq(Event) /\ Len(wire) = sequence /\ NoneFailed /\ NoTerminal
      /\ Cardinality(Starts(wire)) = started /\ Cardinality(Passes(wire)) = completedPassed
  BY DEF LineFlow, GuestTypes, Counted
<1>2. wire \in Seq(HostEvent)
  <2>1. Event \subseteq HostEvent
    BY DEF HostEvent
  <2> QED
    BY <1>1, <2>1, SeqMonotonic
<1>3. wire # <<>> => Len(wire) \in DOMAIN wire
  BY <1>1
<1>4. ~EndsWith(wire, "RunFinished")
  BY <1>1, <1>3 DEF EndsWith, IsKind, NoTerminal
<1>5. ~EndsWith(wire, "AssertionFailed")
  BY <1>3 DEF EndsWith, IsKind, HarnessAt
<1>6. EndsWith(wire, "TestFinished") => wire[Len(wire)].outcome = "Passed"
  BY <1>1, <1>3 DEF EndsWith, IsKind, NoneFailed, Ends, Passes
<1>7. Ends(wire) = Passes(wire) /\ Ends(wire) \ Passes(wire) = {}
  BY <1>1 DEF NoneFailed
<1>8. Cardinality(Ends(wire) \ Passes(wire)) = 0
  BY <1>7, FS_EmptySet
<1> QED
  BY <1>1, <1>2, <1>4, <1>5, <1>6, <1>7, <1>8

\* The next event of the harness is one that the host takes behind what is on
\* the line, and one of the group.
LEMMA HarnessEventFits ==
    ASSUME LimitSuffices, LineFlow, TruthFlow, origin = "harness", HarnessAt, LineFair,
           pc \in {"run", "start", "finish", "summary"}, TestEmit(HarnessEvent)
    PROVE  Fits(wire, HarnessEvent, EventLimit) /\ PrefixFits(HarnessEvent)
<1> DEFINE e == HarnessEvent
<1>1. /\ runtimeState = "entered" /\ testTerminal = None /\ sending = <<>>
      /\ e.seq = sequence /\ EmitChecks(e)
  BY DEF TestEmit, EmitAccepts, Callable
<1>2. /\ ~EndsWith(wire, "RunFinished") /\ ~EndsWith(wire, "AssertionFailed")
      /\ EndsWith(wire, "TestFinished") => wire[Len(wire)].outcome = "Passed"
      /\ wire \in Seq(Event) /\ wire \in Seq(HostEvent) /\ Len(wire) = sequence
      /\ Ends(wire) = Passes(wire)
      /\ Cardinality(Starts(wire)) = started /\ Cardinality(Passes(wire)) = completedPassed
      /\ Cardinality(Ends(wire)) = completedPassed /\ Cardinality(Ends(wire) \ Passes(wire)) = 0
  BY <1>1, LineOpen
<1>3. /\ planned \in Nat /\ planned >= 1 /\ planned <= MaxPlanned /\ MaxPlanned \in Nat
      /\ test \in Nat /\ test >= 1 /\ test <= planned /\ test \in PlannedTests
      /\ EventLimit \in Nat /\ test # None
  BY PlannedAssumption, OptionAssumption DEF TruthFlow, HarnessTrue, PlannedTests
<1>4. /\ declared \in Nat /\ started \in Nat /\ completedPassed \in Nat /\ Len(wire) \in Nat
      /\ wire = <<>> <=> Len(wire) = 0
  BY <1>2 DEF LineFlow, GuestTypes
<1>5. wire # <<>> => wire[1].count = planned /\ declared = planned
  <2>1. wire # <<>> => Line # <<>>
    BY <1>1, <1>2 DEF Line
  <2> QED
    BY <2>1 DEF LineFair
<1>6. CASE pc = "run"
  <2>1. e = RunStarted(0, planned)
    BY <1>6 DEF HarnessEvent
  <2>2. e.kind = "RunStarted" /\ e.seq = 0 /\ e.count = planned
    BY <2>1 DEF RunStarted
  <2> HIDE DEF e
  <2>3. Len(wire) = 0 /\ wire = <<>> /\ e.count <= EventLimit /\ 0 < EventLimit
    BY <1>1, <1>2, <1>3, <1>4, <2>2 DEF LimitSuffices
  <2>4. Fits(wire, e, EventLimit)
    BY <1>2, <2>2, <2>3 DEF Fits, EndsWith
  <2>5. PrefixFits(e)
    BY <2>2 DEF PrefixFits
  <2> QED
    BY <2>4, <2>5 DEF e
<1>7. CASE pc = "start"
  <2>1. e = TestStarted(2 * test - 1, test)
    BY <1>7 DEF HarnessEvent
  <2>2. e.kind = "TestStarted" /\ e.seq = 2 * test - 1 /\ e.test = test
    BY <2>1 DEF TestStarted
  <2>3. started < declared
    BY <1>1, <2>2 DEF EmitChecks
  <2> HIDE DEF e
  <2>4. Len(wire) = 2 * test - 1 /\ wire # <<>> /\ Len(wire) < EventLimit
    BY <1>1, <1>2, <1>3, <1>4, <2>2 DEF LimitSuffices
  <2>5. ~StartedIn(wire, test)
    BY <1>3, <1>7 DEF HarnessAt, Untouched
  <2>6. Cardinality(Starts(wire)) + 1 <= wire[1].count
    BY <1>2, <1>4, <1>5, <2>3, <2>4
  <2>7. Fits(wire, e, EventLimit)
    BY <1>1, <1>2, <2>2, <2>4, <2>5, <2>6 DEF Fits
  <2>8. PrefixFits(e)
    BY <1>3, <2>2 DEF PrefixFits
  <2> QED
    BY <2>7, <2>8 DEF e
<1>8. CASE pc = "finish"
  <2>1. e = TestFinished(2 * test, test, "Passed", None)
    BY <1>8 DEF HarnessEvent
  <2>2. e.kind = "TestFinished" /\ e.seq = 2 * test /\ e.test = test
    BY <2>1 DEF TestFinished
  <2> HIDE DEF e
  <2>3. Len(wire) = 2 * test /\ wire # <<>> /\ Len(wire) < EventLimit
    BY <1>1, <1>2, <1>3, <1>4, <2>2 DEF LimitSuffices
  <2>4. StartedIn(wire, test) /\ ~EndedIn(wire, test)
    BY <1>8 DEF HarnessAt
  <2>5. Fits(wire, e, EventLimit)
    BY <1>1, <1>2, <2>2, <2>3, <2>4 DEF Fits
  <2>6. PrefixFits(e)
    BY <1>3, <2>2 DEF PrefixFits
  <2> QED
    BY <2>5, <2>6 DEF e
<1>9. CASE pc = "summary"
  <2>1. e = RunFinished(2 * planned + 1, planned, 0)
    BY <1>9 DEF HarnessEvent
  <2>2. e.kind = "RunFinished" /\ e.seq = 2 * planned + 1 /\ e.passed = planned /\ e.failed = 0
    BY <2>1 DEF RunFinished
  <2>3. e.passed = completedPassed /\ completedPassed = started /\ completedPassed = declared
    BY <1>1, <2>2 DEF EmitChecks
  <2> HIDE DEF e
  <2>4. Len(wire) = 2 * planned + 1 /\ wire # <<>> /\ Len(wire) < EventLimit
    BY <1>1, <1>2, <1>3, <1>4, <2>2 DEF LimitSuffices
  <2>5. /\ Cardinality(Starts(wire)) = wire[1].count /\ Cardinality(Ends(wire)) = wire[1].count
        /\ e.passed = Cardinality(Passes(wire)) /\ e.failed = Cardinality(Ends(wire) \ Passes(wire))
    BY <1>2, <1>5, <2>2, <2>3, <2>4
  <2>6. Fits(wire, e, EventLimit)
    BY <1>1, <1>2, <2>2, <2>4, <2>5 DEF Fits
  <2>7. PrefixFits(e)
    BY <2>2 DEF PrefixFits
  <2> QED
    BY <2>6, <2>7 DEF e
<1> QED
  BY <1>6, <1>7, <1>8, <1>9

\* The tests that have started and ended on a line with one more event.
LEMMA TracesGrow ==
    ASSUME NEW S, NEW s \in Seq(S), NEW e \in S, NEW t
    PROVE  /\ StartedIn(Append(s, e), t) <=>
                StartedIn(s, t) \/ (e.kind = "TestStarted" /\ e.test = t)
           /\ EndedIn(Append(s, e), t) <=>
                EndedIn(s, t) \/ (e.kind = "TestFinished" /\ e.test = t)
<1> DEFINE l == Append(s, e)
<1>1. /\ DOMAIN l = DOMAIN s \cup {Len(s) + 1} /\ l[Len(s) + 1] = e
      /\ \A i \in DOMAIN s : l[i] = s[i]
  BY LineGrows
<1> HIDE DEF l
<1>2. StartedIn(l, t) <=> StartedIn(s, t) \/ (e.kind = "TestStarted" /\ e.test = t)
  BY <1>1 DEF StartedIn, IsKind
<1>3. EndedIn(l, t) <=> EndedIn(s, t) \/ (e.kind = "TestFinished" /\ e.test = t)
  BY <1>1 DEF EndedIn, IsEndOf, IsKind
<1> QED
  BY <1>2, <1>3 DEF l

\* l is s with one more event behind it.
Extension(l, s, e) ==
    /\ l \in Seq(HostEvent) /\ Len(l) = Len(s) + 1 /\ l # <<>>
    /\ l[Len(l)] = e /\ l[1] = s[1]
    /\ \A k : EndsWith(l, k) <=> e.kind = k
    /\ \A t : StartedIn(l, t) <=> StartedIn(s, t) \/ (e.kind = "TestStarted" /\ e.test = t)
    /\ \A t : EndedIn(l, t) <=> EndedIn(s, t) \/ (e.kind = "TestFinished" /\ e.test = t)
    /\ Cardinality(Starts(l)) = IF e.kind = "TestStarted" THEN Cardinality(Starts(s)) + 1
                                ELSE Cardinality(Starts(s))
    /\ Cardinality(Ends(l)) = IF e.kind = "TestFinished" THEN Cardinality(Ends(s)) + 1
                              ELSE Cardinality(Ends(s))
    /\ Cardinality(Passes(l)) = IF e.kind = "TestFinished" /\ e.outcome = "Passed"
                                THEN Cardinality(Passes(s)) + 1 ELSE Cardinality(Passes(s))
    /\ Cardinality(Ends(l) \ Passes(l)) =
          IF e.kind = "TestFinished" /\ e.outcome # "Passed"
          THEN Cardinality(Ends(s) \ Passes(s)) + 1 ELSE Cardinality(Ends(s) \ Passes(s))

\* Append extends a stream by its event.
LEMMA Extended ==
    ASSUME NEW s \in Seq(HostEvent), NEW e \in HostEvent, s # <<>>
    PROVE  Extension(Append(s, e), s, e)
<1> DEFINE l == Append(s, e)
<1>1. Len(l) = Len(s) + 1
  BY LineGrows
<1>2. /\ Cardinality(Starts(l)) = IF e.kind = "TestStarted" THEN Cardinality(Starts(s)) + 1
                                  ELSE Cardinality(Starts(s))
      /\ Cardinality(Ends(l)) = IF e.kind = "TestFinished" THEN Cardinality(Ends(s)) + 1
                                ELSE Cardinality(Ends(s))
      /\ Cardinality(Passes(l)) = IF e.kind = "TestFinished" /\ e.outcome = "Passed"
                                  THEN Cardinality(Passes(s)) + 1 ELSE Cardinality(Passes(s))
  BY MarksCount
<1>3. l \in Seq(HostEvent) /\ l # <<>> /\ l[Len(l)] = e
  BY LineGrows
<1>4. l[1] = IF s = <<>> THEN e ELSE s[1]
  BY StreamGrows, Zenon
<1>5. \A k : EndsWith(l, k) <=> e.kind = k
  BY StreamGrows, Zenon
<1>6. ASSUME NEW t
      PROVE  StartedIn(l, t) <=> StartedIn(s, t) \/ (e.kind = "TestStarted" /\ e.test = t)
  BY TracesGrow
<1>7. ASSUME NEW t
      PROVE  EndedIn(l, t) <=> EndedIn(s, t) \/ (e.kind = "TestFinished" /\ e.test = t)
  BY TracesGrow
<1>8. Cardinality(Ends(l) \ Passes(l)) =
        IF e.kind = "TestFinished" /\ e.outcome # "Passed"
        THEN Cardinality(Ends(s) \ Passes(s)) + 1 ELSE Cardinality(Ends(s) \ Passes(s))
  BY StreamGrows, Zenon
<1> HIDE DEF l
<1>9. Extension(l, s, e)
  BY <1>1, <1>2, <1>3, <1>4, <1>5, <1>6, <1>7, <1>8, Zenon DEF Extension
<1> QED
  BY <1>9 DEF l

\* In the body of the only test: it has started and nothing has ended.
LEMMA InTheOnlyBody ==
    ASSUME LineFlow, TruthFlow, origin = "harness", HarnessAt, LineFair, pc = "body", planned = 1,
           runtimeState = "entered", testTerminal = None, sending = <<>>
    PROVE  /\ wire \in Seq(HostEvent) /\ Len(wire) = 2 /\ wire # <<>> /\ sequence = 2
           /\ test = 1 /\ active = 1 /\ 1 \in Tests /\ 1 # None /\ completedPassed = 0
           /\ PlannedTests = {1}
           /\ wire[1].count = 1
           /\ StartedIn(wire, 1) /\ ~EndedIn(wire, 1)
           /\ Cardinality(Starts(wire)) = 1 /\ Cardinality(Ends(wire)) = 0
           /\ Cardinality(Passes(wire)) = 0 /\ Cardinality(Ends(wire) \ Passes(wire)) = 0
           /\ ~EndsWith(wire, "RunFinished") /\ ~EndsWith(wire, "AssertionFailed")
           /\ EndsWith(wire, "TestFinished") => wire[Len(wire)].outcome = "Passed"
<1>1. PlannedTests = {1} /\ test = 1 /\ active = 1 /\ 1 \in Tests
  BY PlannedAssumption DEF TruthFlow, HarnessTrue, PlannedTests
<1>2. /\ ~EndsWith(wire, "RunFinished") /\ ~EndsWith(wire, "AssertionFailed")
      /\ EndsWith(wire, "TestFinished") => wire[Len(wire)].outcome = "Passed"
      /\ wire \in Seq(HostEvent) /\ Len(wire) = sequence
      /\ Cardinality(Starts(wire)) = started /\ Cardinality(Passes(wire)) = completedPassed
      /\ Cardinality(Ends(wire)) = completedPassed /\ Cardinality(Ends(wire) \ Passes(wire)) = 0
  BY LineOpen
<1>3. /\ StartedIn(wire, test) /\ ~EndedIn(wire, test)
      /\ started = test /\ completedPassed = test - 1 /\ sequence = 2 * test
  BY DEF HarnessAt
<1>4. started = 1 /\ completedPassed = 0 /\ sequence = 2
  BY <1>1, <1>3
<1>5. wire # <<>> /\ 1 # None
  BY <1>2, <1>4, OptionAssumption
<1>6. wire[1].count = 1
  <2>1. Line # <<>>
    BY <1>2, <1>5 DEF Line
  <2> QED
    BY <2>1 DEF LineFair
<1> QED
  BY <1>1, <1>2, <1>3, <1>4, <1>5, <1>6

\* What the runtime sends for a failed assertion is what the host takes.
LEMMA AssertionFits ==
    ASSUME LimitSuffices, LineFlow, TruthFlow, origin = "harness", HarnessAt, LineFair,
           pc = "body", planned = 1, sending = <<>>, AssertionReportable, Accepted(wire),
           NEW m \in {None, UserMessage}
    PROVE  /\ Accepted(wire \o AssertionFrames(m))
           /\ \A i \in DOMAIN AssertionFrames(m) : PrefixFits(AssertionFrames(m)[i])
<1> DEFINE a == AssertionFailed(2, 1, m)
           b == TestFinished(3, 1, "Failed", TerminalMessage(m))
           c == RunFinished(4, 0, 1)
           s1 == Append(wire, a)
           s2 == Append(s1, b)
           s3 == Append(s2, c)
<1>0. runtimeState = "entered" /\ testTerminal = None
  BY DEF AssertionReportable
<1>1. /\ wire \in Seq(HostEvent) /\ Len(wire) = 2 /\ wire # <<>> /\ sequence = 2
      /\ test = 1 /\ active = 1 /\ 1 \in Tests /\ 1 # None /\ completedPassed = 0
      /\ PlannedTests = {1}
      /\ wire[1].count = 1
      /\ StartedIn(wire, 1) /\ ~EndedIn(wire, 1)
      /\ Cardinality(Starts(wire)) = 1 /\ Cardinality(Ends(wire)) = 0
      /\ Cardinality(Passes(wire)) = 0 /\ Cardinality(Ends(wire) \ Passes(wire)) = 0
      /\ ~EndsWith(wire, "RunFinished") /\ ~EndsWith(wire, "AssertionFailed")
      /\ EndsWith(wire, "TestFinished") => wire[Len(wire)].outcome = "Passed"
  BY <1>0, InTheOnlyBody
<1>2. EventLimit >= 5 /\ EventLimit \in Nat
  BY OptionAssumption DEF LimitSuffices
<1>3. /\ a.seq = 2 /\ a.kind = "AssertionFailed" /\ a.test = 1 /\ a.message = m
      /\ b.seq = 3 /\ b.kind = "TestFinished" /\ b.test = 1 /\ b.outcome = "Failed"
      /\ b.message = TerminalMessage(m)
      /\ c.seq = 4 /\ c.kind = "RunFinished" /\ c.passed = 0 /\ c.failed = 1
  BY DEF AssertionFailed, TestFinished, RunFinished
<1>4. a \in HostEvent /\ b \in HostEvent /\ c \in HostEvent
  BY <1>1 DEF HostEvent, Event, Messages, AssertionFailed, TestFinished, RunFinished,
     TerminalMessage
<1>5. AssertionFrames(m) = <<a, b, c>>
  <2>1. sequence + 1 = 3 /\ sequence + 2 = 4
    BY <1>1
  <2> QED
    BY <1>1, <2>1 DEF AssertionFrames
<1> HIDE DEF a, b, c
<1>6. Fits(wire, a, EventLimit)
  BY <1>1, <1>2, <1>3 DEF Fits
<1>7. /\ s1 \in Seq(HostEvent) /\ Len(s1) = 3 /\ s1 # <<>> /\ s1[Len(s1)] = a /\ s1[1] = wire[1]
      /\ \A k : EndsWith(s1, k) <=> k = "AssertionFailed"
      /\ StartedIn(s1, 1) /\ ~EndedIn(s1, 1)
      /\ Cardinality(Starts(s1)) = 1 /\ Cardinality(Ends(s1)) = 0
      /\ Cardinality(Passes(s1)) = 0 /\ Cardinality(Ends(s1) \ Passes(s1)) = 0
  <2>1. Extension(s1, wire, a)
    BY <1>1, <1>4, Extended
  <2> HIDE DEF s1
  <2> QED
    BY <1>1, <1>3, <2>1 DEF Extension
<1> HIDE DEF s1
<1>8. Fits(s1, b, EventLimit)
  BY <1>1, <1>2, <1>3, <1>7 DEF Fits
<1>9. /\ s2 \in Seq(HostEvent) /\ Len(s2) = 4 /\ s2 # <<>> /\ s2[Len(s2)] = b /\ s2[1] = wire[1]
      /\ \A k : EndsWith(s2, k) <=> k = "TestFinished"
      /\ Cardinality(Starts(s2)) = 1 /\ Cardinality(Ends(s2)) = 1
      /\ Cardinality(Passes(s2)) = 0 /\ Cardinality(Ends(s2) \ Passes(s2)) = 1
  <2>1. Extension(s2, s1, b)
    BY <1>4, <1>7, Extended
  <2> HIDE DEF s2
  <2> QED
    BY <1>3, <1>7, <2>1 DEF Extension
<1> HIDE DEF s2
<1>10. Fits(s2, c, EventLimit)
  BY <1>1, <1>2, <1>3, <1>9 DEF Fits
<1>11. Accepted(s3)
  <2>1. Accepted(s1)
    BY <1>1, <1>4, <1>6, AcceptedGrows DEF s1
  <2>2. Accepted(s2)
    BY <1>4, <1>7, <1>8, <2>1, AcceptedGrows DEF s2
  <2> QED
    BY <1>4, <1>9, <1>10, <2>2, AcceptedGrows
<1>12. wire \o <<a, b, c>> = s3
  BY <1>1, <1>4 DEF s1, s2
<1>13. \A i \in DOMAIN AssertionFrames(m) : PrefixFits(AssertionFrames(m)[i])
  <2>1. PrefixFits(a) /\ PrefixFits(b) /\ PrefixFits(c)
    BY <1>1, <1>3 DEF PrefixFits
  <2> QED
    BY <1>5, <2>1
<1> QED
  BY <1>5, <1>11, <1>12, <1>13

\* ... and so is what it sends for a shift fault.
LEMMA FaultFits ==
    ASSUME LimitSuffices, LineFlow, TruthFlow, origin = "harness", HarnessAt, LineFair,
           pc = "body", planned = 1, sending = <<>>, FatalReportable, Accepted(wire)
    PROVE  Accepted(wire \o FatalFrames)
<1> DEFINE a == TestFinished(2, 1, "LanguageFatal", None)
           b == RunFinished(3, 0, 1)
           s1 == Append(wire, a)
           s2 == Append(s1, b)
<1>0. runtimeState = "entered" /\ testTerminal = None
  BY DEF FatalReportable
<1>1. /\ wire \in Seq(HostEvent) /\ Len(wire) = 2 /\ wire # <<>> /\ sequence = 2
      /\ active = 1 /\ 1 \in Tests /\ 1 # None
      /\ wire[1].count = 1
      /\ StartedIn(wire, 1) /\ ~EndedIn(wire, 1)
      /\ Cardinality(Starts(wire)) = 1 /\ Cardinality(Ends(wire)) = 0
      /\ Cardinality(Passes(wire)) = 0 /\ Cardinality(Ends(wire) \ Passes(wire)) = 0
      /\ ~EndsWith(wire, "RunFinished") /\ ~EndsWith(wire, "AssertionFailed")
      /\ EndsWith(wire, "TestFinished") => wire[Len(wire)].outcome = "Passed"
  BY <1>0, InTheOnlyBody
<1>2. EventLimit >= 5 /\ EventLimit \in Nat
  BY OptionAssumption DEF LimitSuffices
<1>3. /\ a.seq = 2 /\ a.kind = "TestFinished" /\ a.test = 1 /\ a.outcome = "LanguageFatal"
      /\ b.seq = 3 /\ b.kind = "RunFinished" /\ b.passed = 0 /\ b.failed = 1
  BY DEF TestFinished, RunFinished
<1>4. a \in HostEvent /\ b \in HostEvent
  BY <1>1 DEF HostEvent, Event, TestFinished, RunFinished, Outcomes
<1>5. FatalFrames = <<a, b>>
  <2>1. sequence + 1 = 3
    BY <1>1
  <2> QED
    BY <1>1, <2>1 DEF FatalFrames
<1> HIDE DEF a, b
<1>6. Fits(wire, a, EventLimit)
  BY <1>1, <1>2, <1>3 DEF Fits
<1>7. /\ s1 \in Seq(HostEvent) /\ Len(s1) = 3 /\ s1 # <<>> /\ s1[Len(s1)] = a /\ s1[1] = wire[1]
      /\ \A k : EndsWith(s1, k) <=> k = "TestFinished"
      /\ Cardinality(Starts(s1)) = 1 /\ Cardinality(Ends(s1)) = 1
      /\ Cardinality(Passes(s1)) = 0 /\ Cardinality(Ends(s1) \ Passes(s1)) = 1
  <2>1. Extension(s1, wire, a)
    BY <1>1, <1>4, Extended
  <2> HIDE DEF s1
  <2> QED
    BY <1>1, <1>3, <2>1 DEF Extension
<1> HIDE DEF s1
<1>8. Fits(s1, b, EventLimit)
  BY <1>1, <1>2, <1>3, <1>7 DEF Fits
<1>9. Accepted(s2)
  <2>1. Accepted(s1)
    BY <1>1, <1>4, <1>6, AcceptedGrows DEF s1
  <2> QED
    BY <1>4, <1>7, <1>8, <2>1, AcceptedGrows
<1>10. wire \o <<a, b>> = s2
  BY <1>1, <1>4 DEF s1
<1> QED
  BY <1>5, <1>9, <1>10

\* Until the process has ended the host has read nothing.
LEMMA HostWaits ==
    ASSUME HostFair, qemu = Running, UNCHANGED hostVars, wire' \in Seq(Event)
    PROVE  HostFair'
<1>1. events' = <<>> /\ verdict' \in {Undecided, Failure("cancelled")} /\ prefixOk'
  BY DEF HostFair, hostVars
<1>2. Len(events') = 0 /\ Len(wire') \in Nat
  BY <1>1
<1>3. SubSeq(wire', 1, 0) = <<>>
  BY SubSeqEmpty
<1> QED
  BY <1>1, <1>2, <1>3 DEF HostFair

\* A failing path is cut off, or goes on as it was.
LEMMA LineKeptFair ==
    ASSUME LineFair, wire \in Seq(Event), sending \in Seq(Event),
           UNCHANGED <<wire, declared, planned>>, sending' = sending \/ sending' = <<>>,
           Regular' => Regular
    PROVE  LineFair'
<1>0. PlannedTests' = PlannedTests
  BY DEF PlannedTests
<1>1. /\ \A i \in DOMAIN wire' : PrefixFits(wire[i])'
      /\ \A i \in DOMAIN sending' : PrefixFits(sending[i])'
  BY <1>0 DEF LineFair, PrefixFits
<1>2. Line' # <<>> => Line # <<>>
  BY DEF Line
<1>3. Accepted(Line) => Accepted(Line)'
  <2>1. CASE sending' = sending
    BY <2>1 DEF Line, Accepted
  <2>2. CASE sending' = <<>>
    <3>1. Line' = wire
      BY <2>2, ConcatEmptySeq DEF Line
    <3>2. Accepted(Line) => Accepted(wire)
      BY AcceptedPrefix DEF Line
    <3> QED
      BY <3>1, <3>2 DEF Accepted
  <2> QED
    BY <2>1, <2>2
<1> QED
  BY <1>1, <1>2, <1>3 DEF LineFair

\* Nothing is on the line before the harness starts.
LEMMA HarnessEnterFair ==
    ASSUME LineFlow, TruthFlow, origin = "harness", FairFlow, HarnessEnter, wire' \in Seq(Event)
    PROVE  FairFlow'
<1>1. HarnessAt /\ LineFair /\ QemuFair /\ HostFair
  BY DEF FairFlow
<1>2. /\ pc = "enter" /\ pc' = "run" /\ UNCHANGED <<origin, test, truth, qemu, hostVars>>
      /\ UNCHANGED <<sending, wire>> /\ sending = <<>> /\ qemu = Running
      /\ wire = <<>> /\ test = 1 /\ Untouched(test)
  BY <1>1 DEF HarnessEnter, ImageEnter, Callable, HarnessAt, GuestAlive
<1>3. HarnessAt'
  <2>1. Untouched(test)' /\ DOMAIN <<>> = {}
    BY <1>2 DEF Untouched, PlannedTests, hostVars, StartedIn, EndedIn
  <2> QED
    BY <1>2, <2>1 DEF HarnessAt
<1>4. LineFair'
  <2>1. DOMAIN wire' = {} /\ DOMAIN sending' = {} /\ Line' = <<>>
    BY <1>2 DEF Line
  <2> QED
    BY <2>1 DEF LineFair, Accepted
<1>5. QemuFair'
  BY <1>2 DEF QemuFair, Running, Ended
<1>6. HostFair'
  BY <1>1, <1>2, HostWaits
<1> QED
  BY <1>3, <1>4, <1>5, <1>6 DEF FairFlow

\* A run that is regular after a test has ended was regular before.
LEMMA RegularKept ==
    ASSUME planned' = planned,
           \A t \in PlannedTests : truth'[t] = truth[t] \/ truth[t] = None
    PROVE  Regular' => Regular
<1>1. PlannedTests' = PlannedTests
  BY DEF PlannedTests
<1> QED
  BY <1>1 DEF Regular

\* Nothing more comes from the harness: it has returned to the firmware, or
\* its test has halted the processor or hangs.
LEMMA HarnessStopsFair ==
    ASSUME LineFlow, origin = "harness", FairFlow, qemu = Running, Regular' => Regular,
           UNCHANGED <<origin, wire, declared, qemu, hostVars>>, pc' = "returned",
           sending' = sending \/ sending' = <<>>
    PROVE  FairFlow'
<1>1. HarnessAt /\ LineFair /\ QemuFair /\ HostFair /\ wire \in Seq(Event) /\ sending \in Seq(Event)
  BY DEF FairFlow, LineFlow, GuestTypes
<1>2. HarnessAt'
  BY DEF HarnessAt
<1>3. LineFair'
  BY <1>1, LineKeptFair DEF hostVars
<1>4. QemuFair'
  BY DEF QemuFair, Running, Ended
<1>5. HostFair'
  BY <1>1, HostWaits
<1> QED
  BY <1>2, <1>3, <1>4, <1>5 DEF FairFlow

\* The next frame of the harness goes out.
LEMMA HarnessEmitFair ==
    ASSUME LimitSuffices, LineFlow, TruthFlow, origin = "harness", FairFlow, GuestAlive,
           pc \in {"run", "start", "finish", "summary"}, TestEmit(HarnessEvent), AfterEvent,
           UNCHANGED <<origin, truth, qemu, hostVars>>
    PROVE  FairFlow'
<1> DEFINE e == HarnessEvent
<1>1. HarnessAt /\ LineFair /\ QemuFair /\ HostFair /\ wire \in Seq(Event) /\ qemu = Running
  BY DEF FairFlow, LineFlow, GuestTypes, GuestAlive
<1>2. Fits(wire, e, EventLimit) /\ PrefixFits(e) /\ e \in Event
  BY <1>1, HarnessEventFits, HarnessEvents
<1>3. /\ runtimeState = "entered" /\ testTerminal = None /\ sending = <<>> /\ sending' = <<>>
      /\ e.seq = sequence /\ EmitChecks(e) /\ EmitCommit(e) /\ wire' = Append(wire, e)
  BY DEF TestEmit, EmitAccepts, Callable
<1>4. /\ planned \in Nat /\ planned' = planned /\ PlannedTests' = PlannedTests
      /\ test \in Nat /\ test >= 1 /\ test \in PlannedTests
      /\ started \in Nat /\ completedPassed \in Nat /\ sequence \in Nat
  BY PlannedAssumption DEF TruthFlow, HarnessTrue, PlannedTests, LineFlow, GuestTypes, hostVars
<1>5. /\ wire' \in Seq(Event) /\ Len(wire') = Len(wire) + 1 /\ wire' # <<>>
      /\ DOMAIN wire' = DOMAIN wire \cup {Len(wire) + 1} /\ wire'[Len(wire) + 1] = e
      /\ \A i \in DOMAIN wire : wire'[i] = wire[i]
      /\ wire = <<>> => wire'[1] = e
      /\ wire # <<>> => wire'[1] = wire[1]
  BY <1>1, <1>2, <1>3, LineGrows
<1>6. \A t : /\ StartedIn(wire', t) <=>
                  StartedIn(wire, t) \/ (e.kind = "TestStarted" /\ e.test = t)
             /\ EndedIn(wire', t) <=>
                  EndedIn(wire, t) \/ (e.kind = "TestFinished" /\ e.test = t)
  BY <1>1, <1>2, <1>3, TracesGrow
<1>7. /\ e.kind # "AssertionFailed" /\ (pc = "run" <=> e.kind = "RunStarted")
      /\ (pc = "run" => e.count = planned)
      /\ (pc = "start" <=> e.kind = "TestStarted") /\ (pc = "finish" <=> e.kind = "TestFinished")
      /\ pc = "start" => e.test = test /\ e.seq = 2 * test - 1
      /\ pc = "finish" => e.test = test
  BY DEF HarnessEvent, RunStarted, TestStarted, TestFinished, RunFinished
<1> HIDE DEF e
<1>8. LineFair'
  <2>1. Line = wire /\ Line' = wire' /\ DOMAIN sending' = {}
    BY <1>1, <1>3, <1>5, ConcatEmptySeq DEF Line
  <2>2. \A i \in DOMAIN wire' : PrefixFits(wire[i])'
    <3>1. \A i \in DOMAIN wire' : PrefixFits(wire'[i])
      BY <1>1, <1>2, <1>5 DEF LineFair
    <3> QED
      BY <1>4, <3>1 DEF PrefixFits
  <2>3. wire'[1].count = planned /\ declared' = planned
    <3>1. CASE wire = <<>>
      <4>1. e.kind = "RunStarted"
        BY <1>2, <3>1 DEF Fits
      <4> QED
        BY <1>3, <1>5, <1>7, <3>1, <4>1 DEF EmitCommit
    <3>2. CASE wire # <<>>
      <4>1. e.kind # "RunStarted"
        BY <1>2, <3>2 DEF Fits
      <4> QED
        BY <1>1, <1>3, <1>5, <2>1, <3>2, <4>1 DEF EmitCommit, LineFair
    <3> QED
      BY <3>1, <3>2
  <2>4. Regular' => Accepted(Line)'
    <3>1. Regular' => Regular
      BY <1>4, RegularKept
    <3>2. Accepted(wire) => Accepted(Append(wire, e))
      BY <1>1, <1>2, AcceptedGrows
    <3>3. Accepted(wire') => Accepted(Line)'
      BY <2>1 DEF Accepted
    <3> QED
      BY <1>1, <1>3, <2>1, <3>1, <3>2, <3>3 DEF LineFair
  <2> QED
    BY <1>4, <1>5, <2>1, <2>2, <2>3, <2>4 DEF LineFair
<1>9. \A i \in DOMAIN wire' : wire'[i].kind # "AssertionFailed"
  BY <1>1, <1>5, <1>7 DEF HarnessAt
<1>10. HarnessAt'
  <2>1. CASE pc = "run"
    <3>1. pc' = "start" /\ test' = test /\ test = 1 /\ wire = <<>>
      BY <1>1, <2>1 DEF AfterEvent, HarnessAt
    <3>2. started' = 0 /\ completedPassed' = 0
      BY <1>3, <1>7, <2>1 DEF EmitCommit
    <3>3. Untouched(test)'
      <4>1. \A u \in PlannedTests : u >= test => ~StartedIn(wire, u) /\ ~EndedIn(wire, u)
        BY <1>1, <2>1 DEF HarnessAt, Untouched
      <4> QED
        BY <1>4, <1>6, <1>7, <2>1, <3>1, <4>1 DEF Untouched
    <3> QED
      BY <1>4, <1>9, <3>1, <3>2, <3>3 DEF HarnessAt
  <2>2. CASE pc = "start"
    <3>1. pc' = "body" /\ test' = test
      BY <2>2 DEF AfterEvent
    <3>2. started = test - 1 /\ completedPassed = test - 1 /\ Untouched(test)
      BY <1>1, <2>2 DEF HarnessAt
    <3>3. started' = started + 1 /\ completedPassed' = completedPassed /\ sequence' = sequence + 1
      BY <1>3, <1>7, <2>2 DEF EmitCommit
    <3>4. started' = test /\ completedPassed' = test - 1 /\ sequence' = 2 * test
      BY <1>3, <1>4, <1>7, <2>2, <3>2, <3>3
    <3>5. StartedIn(wire', test) /\ ~EndedIn(wire', test)
      BY <1>4, <1>6, <1>7, <2>2, <3>2 DEF Untouched
    <3>6. Untouched(test + 1)'
      <4>1. \A u \in PlannedTests : u >= test + 1 => u >= test /\ u # test
        BY <1>4 DEF PlannedTests
      <4> QED
        BY <1>4, <1>6, <1>7, <2>2, <3>1, <3>2, <4>1 DEF Untouched
    <3> QED
      BY <1>9, <3>1, <3>4, <3>5, <3>6 DEF HarnessAt
  <2>3. CASE pc = "finish" /\ test = planned
    <3>1. pc' = "summary"
      BY <2>3 DEF AfterEvent
    <3> QED
      BY <1>9, <3>1 DEF HarnessAt
  <2>4. CASE pc = "finish" /\ test # planned
    <3>1. pc' = "start" /\ test' = test + 1
      BY <2>4 DEF AfterEvent
    <3>2. started = test /\ completedPassed = test - 1 /\ Untouched(test + 1)
      BY <1>1, <2>4 DEF HarnessAt
    <3>3. started' = started /\ completedPassed' = completedPassed + 1
      BY <1>3, <1>7, <2>4 DEF EmitCommit
    <3>4. started' = test' - 1 /\ completedPassed' = test' - 1
      BY <1>4, <3>1, <3>2, <3>3
    <3>5. Untouched(test)'
      <4>1. \A u \in PlannedTests : u >= test + 1 => u # test
        BY <1>4 DEF PlannedTests
      <4> QED
        BY <1>4, <1>6, <1>7, <2>4, <3>1, <3>2, <4>1 DEF Untouched
    <3> QED
      BY <1>9, <3>1, <3>4, <3>5 DEF HarnessAt
  <2>5. CASE pc = "summary"
    <3>1. pc' = "exit"
      BY <2>5 DEF AfterEvent
    <3> QED
      BY <1>9, <3>1 DEF HarnessAt
  <2> QED
    BY <2>1, <2>2, <2>3, <2>4, <2>5
<1>11. QemuFair'
  BY <1>1 DEF QemuFair, Running, Ended
<1>12. HostFair'
  BY <1>1, <1>5, HostWaits
<1> QED
  BY <1>8, <1>10, <1>11, <1>12 DEF FairFlow

\* The harness calls the runtime.
LEMMA HarnessStepFair ==
    ASSUME LimitSuffices, LineFlow, TruthFlow, origin = "harness", FairFlow, HarnessStep,
           wire' \in Seq(Event)
    PROVE  FairFlow'
<1>1. CASE HarnessEnter
  BY <1>1, HarnessEnterFair
<1>2. CASE HarnessEmit
  <2>1. /\ GuestAlive /\ qemu = Running /\ pc \in {"run", "start", "finish", "summary"}
        /\ UNCHANGED <<origin, truth, qemu, hostVars>>
    BY <1>2 DEF HarnessEmit, GuestAlive
  <2>2. CASE TestEmit(HarnessEvent) /\ AfterEvent
    BY <2>1, <2>2, HarnessEmitFair
  <2>3. CASE ~(TestEmit(HarnessEvent) /\ AfterEvent)
    <3>1. pc' = "returned" /\ UNCHANGED <<wire, sending, declared>>
      BY <1>2, <2>3 DEF HarnessEmit, TestEmitRefused, TestEmitTimeout, lifecycle
    <3>2. Regular' => Regular
      BY <2>1, RegularKept DEF hostVars
    <3> QED
      BY <2>1, <3>1, <3>2, HarnessStopsFair
  <2> QED
    BY <2>2, <2>3
<1>3. CASE HarnessFinish
  <2>1. /\ qemu = Running /\ pc' = "returned" /\ UNCHANGED <<origin, truth, qemu, hostVars>>
        /\ UNCHANGED <<wire, declared>> /\ (sending' = sending \/ sending' = <<>>)
    BY <1>3 DEF HarnessFinish, TestFinish, Halt, GuestAlive, lifecycle
  <2>2. Regular' => Regular
    BY <2>1, RegularKept DEF hostVars
  <2> QED
    BY <2>1, <2>2, HarnessStopsFair
<1> QED
  BY <1>1, <1>2, <1>3 DEF HarnessStep

\* A failing path begins: what it is to send fits the line.
LEMMA PathStartsFair ==
    ASSUME LineFlow, TruthFlow, origin = "harness", FairFlow, qemu = Running, pc = "body",
           sending = <<>>, sending' \in Seq(Event),
           UNCHANGED <<origin, wire, declared, qemu, hostVars>>, pc' = "returned",
           \A i \in DOMAIN sending' : PrefixFits(sending'[i]),
           Regular' => Accepted(wire \o sending')
    PROVE  FairFlow'
<1>1. HarnessAt /\ LineFair /\ QemuFair /\ HostFair /\ wire \in Seq(Event)
  BY DEF FairFlow, LineFlow, GuestTypes
<1>2. Line = wire /\ wire # <<>> /\ PlannedTests' = PlannedTests /\ planned' = planned
  <2>1. StartedIn(wire, test)
    BY <1>1 DEF HarnessAt
  <2> QED
    BY <1>1, <2>1, ConcatEmptySeq DEF Line, StartedIn, hostVars, PlannedTests
<1>3. LineFair'
  <2>1. /\ \A i \in DOMAIN wire' : PrefixFits(wire[i])'
        /\ \A i \in DOMAIN sending' : PrefixFits(sending[i])'
    BY <1>1, <1>2 DEF LineFair, PrefixFits
  <2>2. wire' # <<>> /\ wire'[1].count = planned' /\ declared' = planned'
    BY <1>1, <1>2 DEF LineFair
  <2>3. Accepted(wire \o sending') => Accepted(Line)'
    BY DEF Accepted, Line
  <2> QED
    BY <2>1, <2>2, <2>3 DEF LineFair
<1>4. HarnessAt'
  BY DEF HarnessAt
<1>5. QemuFair'
  BY DEF QemuFair, Running, Ended
<1>6. HostFair'
  BY <1>1, HostWaits
<1> QED
  BY <1>3, <1>4, <1>5, <1>6 DEF FairFlow

\* The body of a test ends.
LEMMA BodyStepFair ==
    ASSUME LimitSuffices, LineFlow, TruthFlow, origin = "harness", FairFlow, BodyStep,
           sending' \in Seq(Event)
    PROVE  FairFlow'
<1>1. /\ HarnessAt /\ LineFair /\ QemuFair /\ HostFair /\ wire \in Seq(Event)
      /\ pc = "body" /\ qemu = Running /\ UNCHANGED <<origin, test, qemu, hostVars>>
  BY DEF FairFlow, LineFlow, GuestTypes, BodyStep, BodyReturns, BodyAsserts, BodyShiftFault,
     BodyFatal, BodyHangs, BodyEnds, GuestAlive
<1>2. /\ planned' = planned /\ PlannedTests' = PlannedTests /\ test \in PlannedTests
      /\ truth \in [PlannedTests -> Outcomes \cup {None, "Halted", "Hung"}]
      /\ truth[test] = None /\ active = test /\ test # None /\ planned \in Nat
  BY <1>1, PlannedAssumption, OptionAssumption DEF TruthFlow, HarnessTrue, PlannedTests, hostVars
<1>3. sending = <<>> /\ Line = wire
  <2>1. sending = <<>>
    BY <1>1 DEF TruthFlow, HarnessTrue
  <2> QED
    BY <1>1, <2>1, ConcatEmptySeq DEF Line
<1>4. Regular' => Regular
  <2>1. \A t \in PlannedTests : truth'[t] = truth[t] \/ truth[t] = None
    BY <1>2 DEF BodyStep, BodyReturns, BodyAsserts, BodyShiftFault, BodyFatal, BodyHangs, BodyEnds
  <2> QED
    BY <1>2, <2>1, RegularKept
<1>5. CASE BodyReturns
  <2>1. pc' = "finish" /\ UNCHANGED guestVars
    BY <1>5 DEF BodyReturns, BodyEnds
  <2>2. HarnessAt'
    <3>1. Untouched(test + 1)'
      BY <1>1, <1>2, <2>1 DEF HarnessAt, Untouched, guestVars
    <3> QED
      BY <1>1, <2>1, <3>1 DEF HarnessAt, guestVars
  <2>3. LineFair'
    BY <1>1, <1>2, <1>3, <1>4, <2>1, LineKeptFair DEF guestVars
  <2>4. QemuFair'
    BY <1>1 DEF QemuFair, Running, Ended
  <2>5. HostFair'
    BY <1>1, <2>1, HostWaits DEF guestVars
  <2> QED
    BY <2>2, <2>3, <2>4, <2>5 DEF FairFlow
<1>6. CASE pc' = "returned" /\ UNCHANGED <<wire, declared>> /\ sending' = <<>>
  BY <1>1, <1>4, <1>6, HarnessStopsFair
<1>7. CASE BodyAsserts
  <2>1. PICK m \in {None, UserMessage} : TestAssertionFail(m)
    BY <1>7 DEF BodyAsserts
  <2>2. planned = 1 /\ pc' = "returned" /\ UNCHANGED <<wire, declared>>
    BY <1>7, <2>1 DEF BodyAsserts, BodyEnds, TestAssertionFail, Halt, lifecycle
  <2>3. CASE AssertionReportable
    <3>1. sending' = AssertionFrames(m)
      BY <2>1, <2>3 DEF TestAssertionFail
    <3>2. Accepted(wire)
      BY <1>1, <1>3, <2>2 DEF LineFair, Regular
    <3>3. /\ Accepted(wire \o AssertionFrames(m))
          /\ \A i \in DOMAIN AssertionFrames(m) : PrefixFits(AssertionFrames(m)[i])
      BY <1>1, <1>3, <2>2, <2>3, <3>2, AssertionFits
    <3> QED
      BY <1>1, <1>3, <2>2, <3>1, <3>3, PathStartsFair
  <2>4. CASE ~AssertionReportable
    BY <1>6, <2>1, <2>2, <2>4 DEF TestAssertionFail, Halt
  <2> QED
    BY <2>3, <2>4
<1>8. CASE BodyShiftFault
  <2>1. /\ Fatal(TRUE) /\ pc' = "returned" /\ UNCHANGED <<wire, declared>>
        /\ truth' = [truth EXCEPT ![test] = "LanguageFatal"]
    BY <1>8 DEF BodyShiftFault, BodyEnds, Fatal, Halt, lifecycle
  <2>2. CASE FatalReportable
    <3>1. sending' = FatalFrames
      BY <2>1, <2>2 DEF Fatal
    <3>2. Regular' => planned = 1
      <4>1. truth'[test] = "LanguageFatal" /\ "LanguageFatal" # None
        BY <1>2, <2>1, EventAssumption DEF Outcomes
      <4> QED
        BY <1>2, <4>1 DEF Regular
    <3>3. Regular' => Accepted(wire \o sending')
      <4> SUFFICES ASSUME Regular' PROVE Accepted(wire \o sending')
        OBVIOUS
      <4>1. Accepted(wire) /\ planned = 1
        BY <1>1, <1>3, <1>4, <3>2 DEF LineFair
      <4>2. Accepted(wire \o FatalFrames)
        BY <1>1, <1>3, <2>2, <4>1, FaultFits
      <4> QED
        BY <3>1, <4>2
    <3>4. \A i \in DOMAIN sending' : PrefixFits(sending'[i])
      <4> DEFINE a == TestFinished(sequence, active, "LanguageFatal", None)
                 b == RunFinished(sequence + 1, 0, 1)
      <4>1. PrefixFits(a) /\ PrefixFits(b)
        BY <1>2 DEF PrefixFits, TestFinished, RunFinished
      <4>2. FatalFrames = <<a, b>>
        BY DEF FatalFrames
      <4> HIDE DEF a, b
      <4> QED
        BY <3>1, <4>1, <4>2
    <3> QED
      BY <1>1, <1>3, <2>1, <3>3, <3>4, PathStartsFair
  <2>3. CASE ~FatalReportable
    BY <1>6, <2>1, <2>3 DEF Fatal, Halt
  <2> QED
    BY <2>2, <2>3
<1>9. CASE BodyFatal \/ BodyHangs
  <2>1. pc' = "returned" /\ UNCHANGED <<wire, declared>> /\ sending' = <<>>
    BY <1>3, <1>9 DEF BodyFatal, BodyHangs, BodyEnds, Fatal, Halt, lifecycle, guestVars
  <2> QED
    BY <1>6, <2>1
<1> QED
  BY <1>5, <1>7, <1>8, <1>9 DEF BodyStep

\* A frame moves from the failing path to the line.
LEMMA FrameMoves ==
    ASSUME NEW S, NEW s \in Seq(S), NEW r \in Seq(S), r # <<>>
    PROVE  Append(s, Head(r)) \o Tail(r) = s \o r
<1>1. Head(r) \in S /\ Tail(r) \in Seq(S) /\ Len(Tail(r)) = Len(r) - 1 /\ Head(r) = r[1]
      /\ \A i \in 1 .. Len(Tail(r)) : Tail(r)[i] = r[i + 1]
  BY HeadTailProperties
<1>2. r = <<Head(r)>> \o Tail(r)
  BY HeadTailProperties
<1>3. Append(s, Head(r)) = s \o <<Head(r)>>
  BY <1>1, AppendIsConcat
<1>4. (s \o <<Head(r)>>) \o Tail(r) = s \o (<<Head(r)>> \o Tail(r))
  BY <1>1, ConcatAssociative
<1> QED
  BY <1>2, <1>3, <1>4

\* A failing path sends a frame, or stalls, or the reset fails.
LEMMA FailurePathFair ==
    ASSUME LineFlow, TruthFlow, origin = "harness", FairFlow, FailurePath \/ ResetFails,
           wire' \in Seq(Event)
    PROVE  FairFlow'
<1>1. /\ HarnessAt /\ LineFair /\ QemuFair /\ HostFair
      /\ wire \in Seq(Event) /\ sending \in Seq(Event)
      /\ qemu = Running /\ UNCHANGED <<harnessVars, qemu, hostVars>> /\ planned' = planned
      /\ PlannedTests' = PlannedTests
  BY DEF FairFlow, LineFlow, GuestTypes, FailurePath, ResetFails, GuestAlive, hostVars, PlannedTests
<1>2. Regular' => Regular
  BY <1>1, RegularKept DEF harnessVars
<1>3. QemuFair' /\ HostFair'
  BY <1>1, HostWaits DEF QemuFair, Running, Ended
<1>4. CASE SendFailureFrame
  <2> DEFINE e == Head(sending)
  <2>1. /\ sending # <<>> /\ wire' = Append(wire, e) /\ sending' = Tail(sending)
        /\ declared' = declared /\ pc = "returned" /\ pc' = "returned"
    BY <1>1, <1>4 DEF SendFailureFrame, TruthFlow, HarnessTrue, harnessVars, lifecycle
  <2>2. HarnessAt'
    BY <2>1 DEF HarnessAt
  <2>3. Line' = Line /\ Line # <<>>
    BY <1>1, <2>1, FrameMoves DEF Line
  <2>4. wire # <<>> /\ wire[1].count = planned /\ declared = planned
    BY <1>1, <2>3 DEF LineFair
  <2>5. /\ e \in Event /\ e = sending[1] /\ 1 \in DOMAIN sending
        /\ \A i \in DOMAIN sending' : i + 1 \in DOMAIN sending /\ sending'[i] = sending[i + 1]
    BY <1>1, <2>1
  <2> HIDE DEF e
  <2>6. /\ DOMAIN wire' = DOMAIN wire \cup {Len(wire) + 1} /\ wire'[Len(wire) + 1] = e
        /\ \A i \in DOMAIN wire : wire'[i] = wire[i]
        /\ wire' # <<>> /\ wire'[1] = wire[1]
    BY <1>1, <2>1, <2>4, <2>5, LineGrows
  <2>7. /\ \A i \in DOMAIN wire' : PrefixFits(wire'[i])
        /\ \A i \in DOMAIN sending' : PrefixFits(sending'[i])
    BY <1>1, <2>5, <2>6 DEF LineFair
  <2>8. /\ \A i \in DOMAIN wire' : PrefixFits(wire[i])'
        /\ \A i \in DOMAIN sending' : PrefixFits(sending[i])'
    BY <1>1, <2>7 DEF PrefixFits
  <2>9. Accepted(Line) => Accepted(Line)'
    BY <2>3 DEF Accepted
  <2>10. LineFair'
    BY <1>1, <1>2, <2>1, <2>4, <2>6, <2>8, <2>9 DEF LineFair
  <2> QED
    BY <1>3, <2>2, <2>10 DEF FairFlow
<1>5. CASE SendFailureTimeout \/ ResetReturned
  <2>1. sending' = <<>> /\ UNCHANGED <<wire, lifecycle>>
    BY <1>5 DEF SendFailureTimeout, ResetReturned, Halt
  <2>2. LineFair'
    BY <1>1, <1>2, <2>1, LineKeptFair DEF lifecycle
  <2>3. HarnessAt'
    BY <1>1, <2>1 DEF HarnessAt, Untouched, lifecycle, harnessVars
  <2> QED
    BY <1>3, <2>2, <2>3 DEF FairFlow
<1> QED
  BY <1>4, <1>5 DEF FailurePath, ResetFails

\* The process ends, by itself or not.
LEMMA QemuEndsFair ==
    ASSUME LineFlow, origin = "harness", FairFlow,
           QemuShutdown \/ QemuCrash \/ ExecutorTimeout
    PROVE  FairFlow'
<1>1. /\ HarnessAt /\ LineFair /\ QemuFair /\ HostFair
      /\ wire \in Seq(Event) /\ sending \in Seq(Event)
      /\ qemu = Running /\ UNCHANGED <<runtimeState, lifecycle, sending, wire>>
      /\ UNCHANGED <<harnessVars, hostVars>> /\ planned' = planned /\ PlannedTests' = PlannedTests
  BY DEF FairFlow, LineFlow, GuestTypes, QemuShutdown, QemuCrash, ExecutorTimeout, QemuStops,
     GuestAlive, hostVars, PlannedTests, guestVars, lifecycle
<1>2. HarnessAt'
  BY <1>1 DEF HarnessAt, Untouched, lifecycle, harnessVars
<1>3. LineFair'
  <2>1. Regular' => Regular
    BY <1>1, RegularKept DEF harnessVars
  <2> QED
    BY <1>1, <2>1, LineKeptFair DEF lifecycle
<1>4. QemuFair'
  <2>1. \/ qemu' = Ended("exited", 0) /\ runtimeState' = "exiting"
        \/ qemu' = Ended("exited", 1)
        \/ qemu' = Ended("killed", None)
    BY <1>1 DEF QemuShutdown, QemuCrash, ExecutorTimeout, QemuStops
  <2>2. Ended("exited", 1) # Ended("exited", 0) /\ Ended("killed", None) # Ended("exited", 0)
    BY DEF Ended
  <2> QED
    BY <2>1, <2>2 DEF QemuFair
<1>5. HostFair'
  BY <1>1, HostWaits
<1> QED
  BY <1>2, <1>3, <1>4, <1>5 DEF FairFlow

\* The host reads the next frame of the line; of a regular run it takes it.
LEMMA HostDecodeFair ==
    ASSUME LineFlow, TruthFlow, DecodeFlow, origin = "harness", FairFlow, HostDecode
    PROVE  HostFair'
<1> DEFINE n == Len(events)
           e == wire[n + 1]
<1>1. /\ LineFair /\ HostFair /\ wire \in Seq(Event) /\ sending \in Seq(Event)
      /\ events \in Seq(Event)
  BY DEF FairFlow, LineFlow, GuestTypes, TruthFlow, ReportTrue
<1>2. /\ qemu # Running /\ n < Len(wire) /\ UNCHANGED <<guestVars, harnessVars, qemu>>
      /\ HostObserve(e) \/ HostReject(e)
  BY DEF HostDecode, GuestEnded
<1>3. /\ n \in Nat /\ n + 1 \in DOMAIN wire /\ e \in Event /\ e \in HostEvent /\ n + 1 - 1 = n
      /\ n \in 0 .. Len(wire) /\ n + 1 \in 0 .. Len(wire) /\ n + 1 <= Len(wire)
  BY <1>1, <1>2 DEF HostEvent
<1>4. events = SubSeq(wire, 1, n) /\ prefixOk
  BY <1>1 DEF HostFair
<1>5. CASE HostObserve(e)
  <2>1. /\ events' = Append(events, e) /\ prefixOk' = (prefixOk /\ PrefixFits(e))
        /\ verdict' = Undecided
    BY <1>5 DEF HostObserve
  <2>2. PrefixFits(e)
    BY <1>1, <1>3 DEF LineFair
  <2>3. Len(events') = n + 1
    BY <1>1, <1>3, <2>1, LineGrows
  <2>4. Append(events, e) = SubSeq(wire, 1, n + 1)
    <3>1. /\ SubSeq(wire, 1, n + 1) \in Seq(Event) /\ Len(SubSeq(wire, 1, n + 1)) = n + 1
          /\ Append(events, e) \in Seq(Event) /\ Len(Append(events, e)) = n + 1
      BY <1>1, <1>3, PrefixKept, LineGrows
    <3>2. ASSUME NEW i \in 1 .. (n + 1)
          PROVE  Append(events, e)[i] = SubSeq(wire, 1, n + 1)[i]
      <4>1. SubSeq(wire, 1, n + 1)[i] = wire[i]
        BY <1>1, <1>3
      <4>2. CASE i \in 1 .. n
        <5>1. Append(events, e)[i] = events[i]
          BY <1>1, <1>3, <4>2, LineGrows
        <5>2. SubSeq(wire, 1, n)[i] = wire[i]
          BY <1>1, <1>3, <4>2
        <5> QED
          BY <1>4, <4>1, <5>1, <5>2
      <4>3. CASE i = n + 1
        BY <1>1, <1>3, <4>1, <4>3, LineGrows
      <4> QED
        BY <1>3, <4>2, <4>3
    <3> QED
      BY <3>1, <3>2, SeqEqual
  <2>5. UNCHANGED <<wire, qemu>>
    BY <1>2 DEF guestVars
  <2> HIDE DEF n, e
  <2>6. /\ Len(events') <= Len(wire') /\ events' = SubSeq(wire', 1, Len(events')) /\ prefixOk'
        /\ qemu' # Running
    BY <1>2, <1>3, <1>4, <2>1, <2>2, <2>3, <2>4, <2>5
  <2> QED
    BY <2>1, <2>6 DEF HostFair, Running
<1>6. CASE HostReject(e)
  <2>1. /\ ~Decodes(e) /\ UNCHANGED <<planned, events, prefixOk>>
    BY <1>6 DEF HostReject
  <2>2. ~Regular
    <3> SUFFICES ASSUME Regular PROVE FALSE
      OBVIOUS
    <3>1. Accepted(wire)
      BY <1>1, AcceptedPrefix DEF LineFair, Line
    <3>2. Fits(SubSeq(wire, 1, n), e, EventLimit)
      BY <1>3, <3>1 DEF Accepted
    <3> HIDE DEF n, e
    <3> QED
      BY <1>3, <1>4, <2>1, <3>2, DecodesExactly
  <2>3. ~Regular' /\ UNCHANGED <<wire, qemu>>
    BY <1>2, <2>1, <2>2 DEF Regular, PlannedTests, guestVars, harnessVars
  <2> QED
    BY <1>1, <1>2, <2>1, <2>3 DEF HostFair, Running
<1> QED
  BY <1>2, <1>5, <1>6

\* A group of one test has no case after an unfinished one.
LEMMA OneTestIsPrefix ==
    ASSUME planned = 1
    PROVE  ~NonPrefixCompletion
<1>1. PlannedTests = {1}
  BY DEF PlannedTests
<1> QED
  BY <1>1 DEF NonPrefixCompletion, CompletedPrefix

\* The host comes to its verdict.
LEMMA HostConcludeFair ==
    ASSUME LineFlow, TruthFlow, DecodeFlow, HostFlow, origin = "harness", FairFlow, HostConclude
    PROVE  HostFair'
<1>1. /\ LineFair /\ QemuFair /\ HostFair /\ wire \in Seq(Event) /\ CollectFlow /\ SealFlow
      /\ planned \in 1 .. MaxPlanned
  BY DEF FairFlow, LineFlow, GuestTypes, HostFlow, TruthFlow
<1> DEFINE late == qemu.state = "killed"
<1>2. PICK overran \in (IF late THEN BOOLEAN ELSE {FALSE}) :
         HostSummarize(qemu.exit, late, partial, overran)
  BY DEF HostConclude
<1>3. /\ qemu # Running /\ Len(events) = Len(wire) /\ UNCHANGED <<guestVars, harnessVars, qemu>>
      /\ UNCHANGED <<planned, events, prefixOk>> /\ prefixOk
      /\ verdict' = Summary(qemu.exit, late, partial, overran)
  BY <1>1, <1>2 DEF HostConclude, HostSummarize, GuestEnded, HostFair
<1> DEFINE infra == Infrastructure(qemu.exit, late)
           cases == CompletedPrefix
<1>4. ASSUME ~NonPrefixCompletion, ~(terminal # None /\ (late \/ qemu.exit # 0))
      PROVE  SealsResult(sealing, cases, infra)
  BY <1>1, <1>3, <1>4, SummarySeals
<1>5. ASSUME qemu.exit = 0
      PROVE  verdict' = Report([t \in cases |-> collected[t]], None)
  <2>1. qemu = Ended("exited", 0) /\ ~late
    <3>1. Running.exit = None /\ Ended("exited", 1).exit = 1 /\ Ended("killed", None).exit = None
      BY DEF Running, Ended
    <3>2. qemu = Ended("exited", 0)
      BY <1>1, <1>5, <3>1, OptionAssumption DEF QemuFair
    <3> QED
      BY <3>2 DEF Ended
  <2>2. runtimeState = "exiting" /\ ~partial /\ wire # <<>> /\ wire[Len(wire)].kind = "RunFinished"
    BY <1>1, <2>1 DEF QemuFair, LineFlow, EntryAndExit
  <2>3. events = wire
    BY <1>1, <1>3, PrefixKept DEF HostFair
  <2>4. terminal # None
    <3>1. EndsWith(events, "RunFinished")
      BY <2>2, <2>3 DEF EndsWith, IsKind
    <3> QED
      BY <1>1, <3>1 DEF DecodeFlow, Follows, LastFollows, CollectFlow
  <2>5. ~NonPrefixCompletion
    <3>1. DoneTests = PlannedTests
      BY <1>1, <1>3, <2>4, AllDone
    <3>2. \A t \in PlannedTests : \A u \in 1 .. t : u \in PlannedTests
      BY <1>1, PlannedAssumption DEF PlannedTests
    <3>3. CompletedPrefix = PlannedTests
      BY <3>1, <3>2 DEF CompletedPrefix, DoneTests
    <3> QED
      BY <3>3 DEF NonPrefixCompletion
  <2>6. infra = None /\ ~overran
    BY <1>2, <1>5, <2>1, <2>4 DEF Infrastructure
  <2>7. SealsResult(sealing, cases, infra)
    BY <1>4, <1>5, <2>1, <2>5
  <2> QED
    BY <1>3, <1>5, <2>1, <2>2, <2>5, <2>6, <2>7 DEF Summary
<1>6. ASSUME planned = 1, verdict'.kind = "error"
      PROVE  verdict'.why \in {"timeoutOverrun", "terminalBeforeFailure"}
  <2>1. ~NonPrefixCompletion
    BY <1>6, OneTestIsPrefix
  <2>2. qemu.exit # 0
    BY <1>5, <1>6 DEF Report
  <2>3. \/ verdict' = Failure("timeoutOverrun")
        \/ verdict' = Failure("terminalBeforeFailure")
        \/ verdict' = Report([t \in cases |-> collected[t]], infra)
    BY <1>3, <1>4, <2>1, <2>2 DEF Summary
  <2> QED
    BY <1>6, <2>3 DEF Failure, Report
<1>7. qemu.exit = 0 => verdict'.kind = "report" /\ verdict'.infra = None
  BY <1>5 DEF Report
<1>8. UNCHANGED <<wire, qemu, planned, events, prefixOk>>
  BY <1>3 DEF guestVars
<1> QED
  BY <1>1, <1>3, <1>6, <1>7, <1>8 DEF HostFair, Running

\* The host reads or concludes, or is cancelled.
LEMMA HostStepFair ==
    ASSUME LineFlow, TruthFlow, DecodeFlow, HostFlow, origin = "harness", FairFlow,
           HostDecode \/ HostConclude \/ HostIsCancelled
    PROVE  FairFlow'
<1>1. /\ HarnessAt /\ LineFair /\ QemuFair /\ HostFair
      /\ wire \in Seq(Event) /\ sending \in Seq(Event)
      /\ UNCHANGED <<guestVars, harnessVars, qemu>> /\ planned' = planned
      /\ PlannedTests' = PlannedTests
  BY DEF FairFlow, LineFlow, GuestTypes, HostDecode, HostConclude, HostIsCancelled, HostObserve,
     HostReject, HostSummarize, HostCancel, PlannedTests
<1>2. HarnessAt'
  BY <1>1 DEF HarnessAt, Untouched, guestVars, harnessVars
<1>3. LineFair'
  <2>1. Regular' => Regular
    BY <1>1, RegularKept DEF harnessVars
  <2> QED
    BY <1>1, <2>1, LineKeptFair DEF guestVars
<1>4. QemuFair'
  BY <1>1 DEF QemuFair, Running, Ended, guestVars
<1>5. HostFair'
  <2>1. CASE HostIsCancelled
    BY <1>1, <2>1 DEF HostIsCancelled, HostCancel, HostFair, guestVars, Running, Failure, Undecided
  <2> QED
    BY <2>1, HostDecodeFair, HostConcludeFair
<1> QED
  BY <1>2, <1>3, <1>4, <1>5 DEF FairFlow

\* Before the image starts.
LEMMA FairStarts == Init => FairFlow
<1> SUFFICES ASSUME Init PROVE FairFlow
  OBVIOUS
<1>1. /\ wire = <<>> /\ sending = <<>> /\ pc = "enter" /\ test = 1 /\ qemu = Running
      /\ events = <<>> /\ prefixOk /\ verdict = Undecided
  BY DEF Init, GuestInit, HostInit
<1>2. HarnessAt
  BY <1>1 DEF HarnessAt, Untouched, StartedIn, EndedIn
<1>3. LineFair
  <2>1. Line = <<>>
    BY <1>1 DEF Line
  <2> QED
    BY <1>1, <2>1 DEF LineFair, Accepted
<1>4. QemuFair
  BY <1>1 DEF QemuFair, Running, Ended
<1>5. HostFair
  <2>1. SubSeq(<<>>, 1, 0) = <<>> /\ Len(<<>>) = 0
    BY SubSeqEmpty
  <2> QED
    BY <1>1, <2>1 DEF HostFair
<1> QED
  BY <1>2, <1>3, <1>4, <1>5 DEF FairFlow

\* Every step of the run keeps the host in step with the harness.
LEMMA FairKeeps ==
    ASSUME LimitSuffices, RunFlow, RunFlow', DecodeFlow, HostFlow, FairFlow, [Next]_vars
    PROVE  FairFlow'
<1>1. LineFlow /\ TruthFlow /\ wire' \in Seq(Event) /\ sending' \in Seq(Event)
  BY DEF RunFlow, GuestFlow, LineFlow, GuestTypes
<1>2. CASE origin # "harness"
  <2>1. origin' = origin
    BY DEF Next, GuestStep, HarnessStep, HarnessEnter, HarnessEmit, HarnessFinish,
       BodyStep, BodyReturns, BodyAsserts, BodyShiftFault, BodyFatal, BodyHangs, BodyEnds,
       FailurePath, QemuShutdown, ResetFails, QemuCrash, ExecutorTimeout, QemuStops, HostStep,
       HostDecode, HostConclude, HostIsCancelled, AnyCode, AnyLine, vars, harnessVars
  <2> QED
    BY <1>2, <2>1 DEF FairFlow
<1>3. CASE UNCHANGED vars
  BY <1>3 DEF FairFlow, HarnessAt, LineFair, QemuFair, HostFair, Untouched, Line, Accepted,
     Regular, PrefixFits, PlannedTests, Running, Ended, vars, guestVars, hostVars, harnessVars
<1> QED
  BY <1>1, <1>2, <1>3, HarnessStepFair, BodyStepFair, FailurePathFair, QemuEndsFair, HostStepFair
     DEF Next, GuestStep, HostStep, AnyCode, AnyLine

\* In a group whose event limit leaves room for the frames of its run, what the
\* harness and the runtime send for a passing run, and for any run of one test,
\* is a stream every prefix of which the host takes.
THEOREM FairInvariant ==
    ASSUME LimitSuffices
    PROVE  Spec => []FairFlow
<1>1. Init => FairFlow
  BY FairStarts
<1>2. RunFlow /\ RunFlow' /\ DecodeFlow /\ HostFlow /\ FairFlow /\ [Next]_vars => FairFlow'
  BY FairKeeps
<1> QED
  BY <1>1, <1>2, RunInvariant, DecodeInvariant, HostInvariant, PTL DEF Spec

\* The host is never too strict for the generated harness: with that limit, a
\* run in which every body returned and the guest shut down is reported as
\* passed, and of a group of one test every end of the guest is reported as
\* what it was.
THEOREM RunsAlwaysReported ==
    ASSUME LimitSuffices
    PROVE  Spec => []RunsAreReported
<1>1. RunFlow /\ HostFlow /\ FairFlow => RunsAreReported
  <2> SUFFICES ASSUME RunFlow, HostFlow, FairFlow, origin = "harness"
               PROVE  /\ PassingRunPasses
                      /\ planned = 1 => CompletedRunReported /\ PrefixAccepted
    BY DEF RunsAreReported
  <2>1. HostFair /\ ReportTrue /\ VerdictFlow
    BY DEF FairFlow, RunFlow, TruthFlow, HostFlow
  <2>2. PassingRunPasses
    <3> SUFFICES ASSUME qemu.exit = 0, \A t \in PlannedTests : truth[t] = "Passed",
                        verdict \notin {Undecided, Failure("cancelled")}
                 PROVE  ReportPassed(verdict)
      BY DEF PassingRunPasses
    <3>1. verdict.kind = "report" /\ verdict.infra = None
      BY <2>1 DEF HostFair, Regular
    <3>2. \A t \in DOMAIN verdict.cases : verdict.cases[t][1] = "Passed"
      BY <2>1, <3>1 DEF ReportTrue
    <3> QED
      BY <3>1, <3>2 DEF ReportPassed
  <2>3. planned = 1 => CompletedRunReported
    BY <2>1 DEF HostFair, Regular, CompletedRunReported, Undecided
  <2>4. planned = 1 => PrefixAccepted
    <3>1. verdict = Failure("cancelled") => verdict.why = "cancelled"
      BY DEF Failure
    <3>2. verdict.kind = "error" => verdict # Undecided
      BY DEF Undecided
    <3> QED
      BY <2>1, <3>1, <3>2 DEF HostFair, Regular, PrefixAccepted
  <2> QED
    BY <2>2, <2>3, <2>4
<1> QED
  BY <1>1, RunInvariant, HostInvariant, FairInvariant, PTL
=============================================================================
