----------------------------- MODULE TestEvents -----------------------------
(***************************************************************************)
(* The events a test image reports over the serial line                    *)
(* (wrela-test-model, TestEventKind) and, as a reference definition, the   *)
(* event streams that describe a test run.  Texts are abstract: a message  *)
(* is an element of a set, None is an absent one.                          *)
(***************************************************************************)
EXTENDS Naturals, Sequences, FiniteSets

CONSTANTS
    None,            \* an absent optional value (Option::None)
    DefaultMessage,  \* "assertion failed", used when the source gives no message
    UserMessage,     \* a message written in the source
    Tests            \* the test ids an event may carry

Outcomes == {"Passed", "Failed", "TimedOut", "LanguageFatal"}

ASSUME EventAssumption == None \notin Tests /\ None \notin Outcomes

RunStarted(q, n) == [seq |-> q, kind |-> "RunStarted", count |-> n]
TestStarted(q, t) == [seq |-> q, kind |-> "TestStarted", test |-> t]
Log(q, t) == [seq |-> q, kind |-> "Log", test |-> t]
Heartbeat(q, k) == [seq |-> q, kind |-> "Heartbeat", ticks |-> k]
AssertionFailed(q, t, m) ==
    [seq |-> q, kind |-> "AssertionFailed", test |-> t, message |-> m]
TestFinished(q, t, o, m) ==
    [seq |-> q, kind |-> "TestFinished", test |-> t, outcome |-> o, message |-> m]
RunFinished(q, p, f) ==
    [seq |-> q, kind |-> "RunFinished", passed |-> p, failed |-> f]

\* The message a failed assertion must be finished with.
TerminalMessage(m) == IF m = None THEN DefaultMessage ELSE m

\* Every event with sequence number q, test counts of counts and heartbeats at
\* ticks.
EventsAt(q, counts, ticks) ==
    {RunStarted(q, n) : n \in counts}
    \union {TestStarted(q, t) : t \in Tests}
    \union {Log(q, t) : t \in Tests \union {None}}
    \union {Heartbeat(q, k) : k \in ticks}
    \union {AssertionFailed(q, t, m) : t \in Tests, m \in {None, UserMessage}}
    \union {TestFinished(q, t, "Failed", m) : t \in Tests,
                                             m \in {DefaultMessage, UserMessage}}
    \union {TestFinished(q, t, o, None) : t \in Tests,
                                         o \in Outcomes \ {"Failed"}}
    \union {RunFinished(q, p, f) : p \in counts, f \in counts}

-----------------------------------------------------------------------------
(***************************************************************************)
(* Reference: the streams that are prefixes of a well-formed run.  This is *)
(* written from the meaning of the events, as statements about positions   *)
(* of the sequence; the validators of the host are folds over it.          *)
(***************************************************************************)
IsKind(s, i, k) == s[i].kind = k

IsEndOf(s, i, t) == IsKind(s, i, "TestFinished") /\ s[i].test = t

Starts(s) == {i \in DOMAIN s : IsKind(s, i, "TestStarted")}
Ends(s) == {i \in DOMAIN s : IsKind(s, i, "TestFinished")}
Passes(s) == {i \in Ends(s) : s[i].outcome = "Passed"}

\* Test t is started before position i and not finished before it.
RunningAt(s, i, t) ==
    /\ \E j \in 1..(i - 1) : IsKind(s, j, "TestStarted") /\ s[j].test = t
    /\ \A j \in 1..(i - 1) : ~IsEndOf(s, j, t)

NamesRunningTest(s, i) ==
    (/\ s[i].kind \in {"Log", "AssertionFailed", "TestFinished"}
     /\ s[i].test # None) => RunningAt(s, i, s[i].test)

AssertionFollowed(s, i) ==
    IsKind(s, i, "AssertionFailed") =>
        /\ IsEndOf(s, i + 1, s[i].test)
        /\ s[i + 1].outcome = "Failed"
        /\ s[i + 1].message = TerminalMessage(s[i].message)

FatalFollowed(s, i) ==
    (IsKind(s, i, "TestFinished") /\ s[i].outcome = "LanguageFatal") =>
        IsKind(s, i + 1, "RunFinished")

TotalsAgree(s, i) ==
    IsKind(s, i, "RunFinished") =>
        /\ i = Len(s)
        /\ Cardinality(Starts(s)) = s[1].count
        /\ Cardinality(Ends(s)) = s[1].count
        /\ s[i].passed = Cardinality(Passes(s))
        /\ s[i].failed = Cardinality(Ends(s) \ Passes(s))

WellFormed(s, limit) ==
    /\ Len(s) <= limit
    /\ s # <<>> => IsKind(s, 1, "RunStarted") /\ s[1].count <= limit
    /\ \A i \in DOMAIN s :
          /\ s[i].seq = i - 1
          /\ IsKind(s, i, "RunStarted") => i = 1
          /\ NamesRunningTest(s, i)
          /\ TotalsAgree(s, i)
          /\ i < Len(s) => AssertionFollowed(s, i) /\ FatalFollowed(s, i)
    /\ \A i, j \in Starts(s) : s[i].test = s[j].test => i = j
    /\ Cardinality(Starts(s)) <= (IF s = <<>> THEN 0 ELSE s[1].count)
    /\ \A i, j \in DOMAIN s :
          (IsKind(s, i, "Heartbeat") /\ IsKind(s, j, "Heartbeat") /\ i < j) =>
              s[i].ticks < s[j].ticks
=============================================================================
