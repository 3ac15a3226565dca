-------------------------- MODULE EngineExecution --------------------------
(***************************************************************************)
(* One sealed request of the engine protocol is executed.  Three actors    *)
(* share the atomic ExecutionCompletion or the response stream:            *)
(*   - the execution thread: HeadlessCheckExecution::execute, with its     *)
(*     PhaseEvents, ResponseAssembler and stream_encoded_frames            *)
(*     (wrela-compiler, engine.rs);                                        *)
(*   - the control thread: LateRequestControl over LateCancelStream;       *)
(*   - the client: CheckResponseStream (wrela-driver, engine.rs).          *)
(* The caller's is_cancelled is the flag host, which never goes back.  The *)
(* transport between engine and client may lose, repeat or exchange up to  *)
(* MaxFaults frames.  A digest is the value it digests.                    *)
(***************************************************************************)
EXTENDS Integers, Sequences

CONSTANTS
    Policies,    \* request policies: [events, event_bytes, diagnostics, warnings_as_errors]
    Outcomes,    \* what the preflight and the check may come to
    LateFrames,  \* frames the control thread may be handed
    LateFrame,   \* the one frame that cancels: exact sequence, request and kind
    MaxFrames,   \* EngineProtocolLimits::frames
    MaxFaults,   \* bound on transport faults
    MaxInFlight, \* bound on the frames on the way to the client
    MaxLate,     \* bound on the frames the control thread is handed
    Null

VARIABLES
    policy,       \* the request's policy
    host,         \* the caller's is_cancelled
    completion,   \* ExecutionCompletion::state
    exec,         \* the execution thread: [pc, outcome, queue, requested, status]
    asm,          \* ResponseAssembler
    terminal,     \* the EngineTerminal of the response, Null before
    sent,         \* response frames handed to the sink
    late,         \* LateCancelStream: its state, the first frame and how many
    disposition,  \* what accept_cancel_frame returned: Null until then
    wire,         \* frames on the way to the client
    faults,       \* transport faults so far
    disturbed,    \* history: a fault, a cut response, or the client gave up
    client        \* CheckResponseStream

execVars == <<exec, asm, terminal>>
lateVars == <<late, disposition>>
vars == <<policy, host, completion, exec, asm, terminal, sent, late, disposition,
          wire, faults, disturbed, client>>

Statuses == {"Success", "Rejected", "Cancelled", "ResourceLimit", "InternalFailure"}
Severities == {"Warning", "Error"}
Events == {"Phase"} \cup Severities
OutcomeKinds == {"Checked", "PreflightResource", "ComptimeLimit", "PreflightRejected",
                 "InputError", "PreflightInternal", "InternalError", "Cancelled"}

\* EngineTerminal: the status, and what ended up in the response.
Terminals == [status : Statuses, diagnostics : Nat, report : Seq(Events), events : Nat,
              event_bytes : Nat]

\* CheckResponseStream: its phase, the expected sequence number, what it
\* counted, the report it digested and the terminal.
Phases == {"ServerHello", "Events", "Output", "Terminal", "Complete", "Poisoned"}
Clients == [phase : Phases, seq : Nat, events : Seq(Events), event_bytes : Nat,
            diagnostics : Nat, rejecting : Nat, terminal : Terminals \cup {Null}]

ASSUME ExecutionAssumption ==
    /\ \A p \in Policies :
          /\ p.events \in Nat /\ p.event_bytes \in Nat /\ p.diagnostics \in Nat
          /\ p.warnings_as_errors \in BOOLEAN
    /\ \A o \in Outcomes :
          /\ o.kind \in OutcomeKinds
          /\ o.phases \in Nat
          /\ o.diagnostics \in Seq(Severities)
    /\ Null \notin Statuses \cup {"Failed", "Requested", "ExecutionCompleted"}
    /\ Null \notin Terminals
    /\ Null \notin Clients

---------------------------------------------------------------------------
(* Events: a phase event, or a diagnostic named by its severity            *)

IsDiagnostic(e) == e # "Phase"
EventBytes(e) == IF IsDiagnostic(e) THEN 2 ELSE 1
Rejecting(e) == e = "Error" \/ (e = "Warning" /\ policy.warnings_as_errors)

\* DiagnosticCollector::add: under warnings_as_errors a warning is an error.
Collected(raw) ==
    [i \in DOMAIN raw |-> IF Rejecting(raw[i]) THEN "Error" ELSE raw[i]]

\* A check that ran to its end: LocalCheckDriver rejects on any error, and
\* fails as an input error above the diagnostic limit.
DriverResult(raw) ==
    IF Len(raw) > policy.diagnostics THEN [diags |-> <<"Error">>, status |-> "Rejected"]
    ELSE IF \E i \in DOMAIN raw : Rejecting(raw[i])
         THEN [diags |-> Collected(raw), status |-> "Rejected"]
    ELSE [diags |-> raw, status |-> "Success"]

\* The diagnostics pushed and the status requested for an outcome; every
\* error path of execute_with_completion pushes one synthetic error.
Projection(outcome) ==
    CASE outcome.kind = "Checked" -> DriverResult(outcome.diagnostics)
      [] outcome.kind \in {"PreflightResource", "ComptimeLimit"} ->
            [diags |-> <<"Error">>, status |-> "ResourceLimit"]
      [] outcome.kind \in {"PreflightRejected", "InputError"} ->
            [diags |-> <<"Error">>, status |-> "Rejected"]
      [] outcome.kind \in {"PreflightInternal", "InternalError"} ->
            [diags |-> <<"Error">>, status |-> "InternalFailure"]
      [] outcome.kind = "Cancelled" -> [diags |-> <<>>, status |-> "Cancelled"]

---------------------------------------------------------------------------
(* ExecutionCompletion and the execution thread                            *)

IsCancelRequested == completion \in {"CANCEL_REQUESTED", "COMPLETED_CANCELLED"}
IsCancelled == host \/ IsCancelRequested

Init ==
    /\ policy \in Policies
    /\ host = FALSE
    /\ completion = "RUNNING"
    /\ exec = [pc |-> "begin", outcome |-> Null, queue |-> <<>>, requested |-> Null,
               status |-> Null]
    /\ asm = [events |-> <<>>, report |-> <<>>, event_bytes |-> 0, diagnostics |-> 0,
              quota |-> FALSE, projection |-> FALSE, cancelled |-> FALSE]
    /\ terminal = Null
    /\ sent = 0
    /\ late = [state |-> "Open", first |-> Null, frames |-> 0]
    /\ disposition = Null
    /\ wire = <<>>
    /\ faults = 0
    /\ disturbed = FALSE
    /\ client = [phase |-> "ServerHello", seq |-> 0, events |-> <<>>, event_bytes |-> 0,
                 diagnostics |-> 0, rejecting |-> 0, terminal |-> Null]

HostCancels ==
    /\ ~host
    /\ host' = TRUE
    /\ UNCHANGED <<policy, completion, execVars, sent, lateVars, wire, faults, disturbed,
                   client>>

\* execute_with_completion up to the preflight.
Begin ==
    /\ exec.pc = "begin"
    /\ exec' = IF IsCancelled
               THEN [exec EXCEPT !.pc = "push", !.requested = "Cancelled",
                                 !.outcome = [kind |-> "Cancelled"]]
               ELSE [exec EXCEPT !.pc = "check"]
    /\ UNCHANGED <<asm, terminal>>

\* validate_profile_policy and LocalCheckDriver::execute come to an outcome;
\* PhaseEvents kept what fits and raises overflowed otherwise, in which case
\* no diagnostic is pushed.  Only a polled cancellation makes them Cancelled.
Check(outcome) ==
    /\ exec.pc = "check"
    /\ outcome.kind = "Cancelled" => IsCancelled
    /\ LET phases == IF outcome.phases > policy.events THEN policy.events
                     ELSE outcome.phases
           result == Projection(outcome)
           overflowed == outcome.phases > policy.events
       IN  exec' = [exec EXCEPT
                      !.pc = "push",
                      !.outcome = outcome,
                      !.queue = [i \in 1 .. phases |-> "Phase"]
                                \o (IF overflowed THEN <<>> ELSE result.diags),
                      !.requested = IF overflowed THEN "ResourceLimit" ELSE result.status]
    /\ UNCHANGED <<asm, terminal>>

\* An allocation fails before the response is assembled: no terminal.
ExecutionFails ==
    /\ exec.pc \in {"begin", "check"}
    /\ exec' = [exec EXCEPT !.pc = "failed"]
    /\ UNCHANGED <<asm, terminal>>

\* CheckReportIdentityBuilder::observe has no room for the event.
Overruns(a, e) ==
    \/ Len(a.report) >= policy.events
    \/ a.event_bytes + EventBytes(e) > policy.event_bytes

\* The event is in the report and in the response, with its bytes.
Taken(a, e) ==
    [a EXCEPT !.report = Append(a.report, e), !.events = Append(a.events, e),
              !.event_bytes = a.event_bytes + EventBytes(e),
              !.diagnostics = IF IsDiagnostic(e) THEN a.diagnostics + 1 ELSE a.diagnostics]

\* Mutant: an event that does not fit is counted in the report all the same.
Observed_Counted(a, e) ==
    IF Overruns(a, e)
    THEN [a EXCEPT !.quota = TRUE, !.event_bytes = @ + EventBytes(e)]
    ELSE Taken(a, e)

\* CheckReportIdentityBuilder::observe, and push after it returned.
Observed(a, e) ==
    IF Overruns(a, e) THEN [a EXCEPT !.quota = TRUE] ELSE Taken(a, e)

\* ResponseAssembler::push.
Pushed(a, e) ==
    IF a.cancelled \/ IsCancelled THEN [a EXCEPT !.cancelled = TRUE]
    ELSE IF a.quota \/ a.projection THEN a
    ELSE IF IsDiagnostic(e) /\ a.diagnostics >= policy.diagnostics THEN [a EXCEPT !.quota = TRUE]
    ELSE Observed(a, e)

\* push, or push_report and push_synthetic around it, take the next event.
Push ==
    /\ exec.pc = "push"
    /\ exec.queue # <<>>
    /\ exec' = [exec EXCEPT !.queue = Tail(@)]
    /\ asm' = Pushed(asm, Head(exec.queue))
    /\ UNCHANGED terminal

\* project_diagnostic fails: InvalidSource, or Resource on an allocation.
\* push_report gives up the rest of the report.
ProjectionFails ==
    /\ exec.pc = "push"
    /\ exec.queue # <<>>
    /\ IsDiagnostic(Head(exec.queue))
    /\ exec' = [exec EXCEPT !.queue = <<>>]
    /\ \/ asm' = [asm EXCEPT !.quota = TRUE]
       \/ asm' = [asm EXCEPT !.projection = TRUE]
    /\ UNCHANGED terminal

\* Mutant: what was left out of the response does not change the status.
FinalStatus_Requested ==
    IF asm.cancelled \/ IsCancelled THEN "Cancelled" ELSE exec.requested

\* The status ResponseAssembler::finish arrives at before completing.
FinalStatus ==
    IF asm.cancelled \/ IsCancelled THEN "Cancelled"
    ELSE IF asm.quota THEN "ResourceLimit"
    ELSE IF asm.projection THEN "InternalFailure"
    ELSE exec.requested

FinishReport ==
    /\ exec.pc = "push"
    /\ exec.queue = <<>>
    /\ exec' = [exec EXCEPT !.pc = "complete", !.status = FinalStatus]
    /\ UNCHANGED <<asm, terminal>>

\* The terminal that ResponseAssembler::finish builds from the status.
TerminalOf(status) ==
    [status |-> status, diagnostics |-> asm.diagnostics, report |-> asm.report,
     events |-> Len(asm.report), event_bytes |-> asm.event_bytes]

\* Mutant: completion is stored without looking at the state.
CompleteExchange_Store ==
    /\ exec.pc = "complete"
    /\ completion' = "COMPLETED"
    /\ exec' = [exec EXCEPT !.pc = "stream"]
    /\ terminal' = TerminalOf(exec.status)

\* Mutant: the exchange is repeated until the state is RUNNING.
CompleteExchange_Spins ==
    /\ exec.pc = "complete"
    /\ completion = "RUNNING"
    /\ completion' = "COMPLETED"
    /\ exec' = [exec EXCEPT !.pc = "stream"]
    /\ terminal' = TerminalOf(exec.status)

\* complete: the compare-exchange.  It fails only on CANCEL_REQUESTED, which
\* is answered by a store of its own.
CompleteExchange ==
    /\ exec.pc = "complete"
    /\ \/ /\ completion = "RUNNING"
          /\ completion' = "COMPLETED"
          /\ exec' = [exec EXCEPT !.pc = "stream"]
          /\ terminal' = TerminalOf(exec.status)
       \/ /\ completion = "CANCEL_REQUESTED"
          /\ exec' = [exec EXCEPT !.pc = "store"]
          /\ UNCHANGED <<completion, terminal>>

\* Mutant: the answer to CANCEL_REQUESTED is not stored.
CompleteStore_Forgotten ==
    /\ exec.pc = "store"
    /\ exec' = [exec EXCEPT !.pc = "stream", !.status = "Cancelled"]
    /\ terminal' = TerminalOf("Cancelled")
    /\ UNCHANGED completion

\* complete: the store that follows a compare-exchange refused by a cancel.
CompleteStore ==
    /\ exec.pc = "store"
    /\ completion' = "COMPLETED_CANCELLED"
    /\ exec' = [exec EXCEPT !.pc = "stream", !.status = "Cancelled"]
    /\ terminal' = TerminalOf("Cancelled")

Execution ==
    \/ /\ \/ Begin \/ ExecutionFails \/ Push \/ ProjectionFails \/ FinishReport
          \/ \E outcome \in Outcomes : Check(outcome)
       /\ UNCHANGED <<policy, host, completion, sent, lateVars, wire, faults, disturbed,
                      client>>
    \/ /\ CompleteExchange \/ CompleteStore
       /\ UNCHANGED <<policy, host, asm, sent, lateVars, wire, faults, disturbed, client>>

---------------------------------------------------------------------------
(* LateRequestControl                                                      *)

\* Mutant: a refused frame leaves the stream open.
LateAccepted_Retry(l, f) ==
    [l EXCEPT !.state = IF f = LateFrame THEN "Accepted" ELSE "Open"]

\* LateCancelStream::accept on an open stream; any other frame poisons it.
LateAccepted(l, f) ==
    [l EXCEPT !.state = IF f = LateFrame THEN "Accepted" ELSE "Poisoned"]

\* The history of the frames handed over.
Counted(l, f) ==
    [l EXCEPT !.frames = l.frames + 1, !.first = IF l.frames = 0 THEN f ELSE l.first]

\* accept_cancel_frame up to the shared flag; a stream that is not open
\* answers every frame with an error.
LateDeliver(f) ==
    /\ late.frames < MaxLate
    /\ late' = Counted(IF late.state = "Open" THEN LateAccepted(late, f) ELSE late, f)
    /\ UNCHANGED <<policy, host, completion, execVars, sent, disposition, wire, faults,
                   disturbed, client>>

\* The caller's is_cancelled is polled while the frame is examined.
LatePolled(f) ==
    /\ late.frames < MaxLate
    /\ late.state = "Open"
    /\ host
    /\ late' = Counted([late EXCEPT !.state = "Poisoned"], f)
    /\ UNCHANGED <<policy, host, completion, execVars, sent, disposition, wire, faults,
                   disturbed, client>>

\* ExecutionCompletion::request_cancel.
RequestCancel ==
    /\ late.state = "Accepted"
    /\ disposition = Null
    /\ completion' = IF completion = "RUNNING" THEN "CANCEL_REQUESTED" ELSE completion
    /\ disposition' = IF completion \in {"RUNNING", "CANCEL_REQUESTED"} THEN "Requested"
                      ELSE "ExecutionCompleted"
    /\ UNCHANGED <<policy, host, execVars, sent, late, wire, faults, disturbed, client>>

---------------------------------------------------------------------------
(* The response: stream_encoded_frames, the transport, the client          *)

\* The frames of a response in the order they are streamed.
ResponseMessages ==
    <<[kind |-> "ServerHello"]>>
    \o [i \in DOMAIN asm.events |-> [kind |-> "Event", event |-> asm.events[i]]]
    \o <<[kind |-> "OutputHeader"], [kind |-> "OutputFinish"],
         [kind |-> "Terminal", terminal |-> terminal]>>

\* stream_response_frame hands the next frame to the sink.
SendFrame ==
    /\ exec.pc = "stream"
    /\ Len(ResponseMessages) <= MaxFrames
    /\ sent < Len(ResponseMessages)
    /\ Len(wire) < MaxInFlight
    /\ sent' = sent + 1
    /\ wire' = Append(wire, [seq |-> sent, msg |-> ResponseMessages[sent + 1]])
    /\ UNCHANGED <<policy, host, completion, execVars, lateVars, faults, disturbed, client>>

\* A response of too many frames is not begun; a cancellation polled while
\* encoding, or an error of the sink, cuts it.
ResponseCut ==
    /\ exec.pc = "stream"
    /\ sent < Len(ResponseMessages)
    /\ exec' = [exec EXCEPT !.pc = "cut"]
    /\ disturbed' = TRUE
    /\ UNCHANGED <<policy, host, completion, asm, terminal, sent, lateVars, wire, faults,
                   client>>

\* The transport loses, repeats or exchanges the frames at its head.
TransportFault ==
    /\ faults < MaxFaults
    /\ wire # <<>>
    /\ \/ wire' = Tail(wire)
       \/ wire' = <<Head(wire)>> \o wire
       \/ /\ Len(wire) >= 2
          /\ wire' = <<wire[2], wire[1]>> \o SubSeq(wire, 3, Len(wire))
    /\ faults' = faults + 1
    /\ disturbed' = TRUE
    /\ UNCHANGED <<policy, host, completion, execVars, sent, lateVars, client>>

\* CheckResponseStream::validate_terminal.
ValidTerminal(c, t) ==
    /\ t.events = Len(c.events)
    /\ t.event_bytes = c.event_bytes
    /\ t.diagnostics = c.diagnostics
    /\ t.report = c.events
    /\ t.status = "Success" => c.rejecting = 0
    /\ t.status = "Rejected" => c.rejecting # 0

\* The counters of CheckResponseStream after one more event.
Tallied(c, e) ==
    [c EXCEPT !.events = Append(c.events, e),
              !.event_bytes = c.event_bytes + EventBytes(e),
              !.diagnostics = IF IsDiagnostic(e) THEN c.diagnostics + 1 ELSE c.diagnostics,
              !.rejecting = IF Rejecting(e) THEN c.rejecting + 1 ELSE c.rejecting]

\* The sealed policy of the request holds for what was counted.
WithinPolicy(c) ==
    /\ Len(c.events) <= policy.events
    /\ c.event_bytes <= policy.event_bytes
    /\ c.diagnostics <= policy.diagnostics

\* CheckResponseStream::accept_frame, the sequence number aside; Null when
\* the message is refused.
Received(c, m) ==
    CASE c.phase = "ServerHello" /\ m.kind = "ServerHello" -> [c EXCEPT !.phase = "Events"]
      [] c.phase = "Events" /\ m.kind = "Event" ->
            IF WithinPolicy(Tallied(c, m.event)) THEN Tallied(c, m.event) ELSE Null
      [] c.phase = "Events" /\ m.kind = "OutputHeader" -> [c EXCEPT !.phase = "Output"]
      [] c.phase = "Output" /\ m.kind = "OutputFinish" -> [c EXCEPT !.phase = "Terminal"]
      [] c.phase = "Terminal" /\ m.kind = "Terminal" ->
            IF ValidTerminal(c, m.terminal)
            THEN [c EXCEPT !.phase = "Complete", !.terminal = m.terminal]
            ELSE Null
      [] OTHER -> Null

\* CheckResponseStream::accept_validated takes the next frame.
ClientReceive ==
    /\ wire # <<>>
    /\ client.phase # "Poisoned"
    /\ wire' = Tail(wire)
    /\ LET f == Head(wire)
           c == Received(client, f.msg)
       IN  client' = IF f.seq # client.seq \/ c = Null
                     THEN [client EXCEPT !.phase = "Poisoned"]
                     ELSE [c EXCEPT !.seq = client.seq + 1]
    /\ UNCHANGED <<policy, host, completion, execVars, sent, lateVars, faults, disturbed>>

\* The client's own is_cancelled is polled while a frame is taken: the stream
\* is poisoned, with the frame and what came before it.
ClientCancelled ==
    /\ wire # <<>>
    /\ client.phase # "Poisoned"
    /\ wire' = Tail(wire)
    /\ client' = [client EXCEPT !.phase = "Poisoned"]
    /\ disturbed' = TRUE
    /\ UNCHANGED <<policy, host, completion, execVars, sent, lateVars, faults>>

Response == SendFrame \/ ResponseCut \/ TransportFault \/ ClientReceive \/ ClientCancelled

Next ==
    \/ HostCancels
    \/ Execution
    \/ \E f \in LateFrames : LateDeliver(f) \/ LatePolled(f)
    \/ RequestCancel
    \/ Response

\* The execution and the control thread each run to their end.
Fairness == WF_vars(Execution) /\ WF_vars(RequestCancel)

Spec == Init /\ [][Next]_vars /\ Fairness

---------------------------------------------------------------------------
(* Properties                                                              *)

\* Every variable keeps its type, and a response exists exactly when the
\* shared state says that the execution has completed.
ExecutionTypeOK ==
    /\ completion \in {"RUNNING", "CANCEL_REQUESTED", "COMPLETED", "COMPLETED_CANCELLED"}
    /\ exec.pc \in {"begin", "check", "push", "complete", "store", "stream", "cut", "failed"}
    /\ exec.status \in Statuses \cup {Null}
    /\ disposition \in {Null, "Requested", "ExecutionCompleted"}
    /\ late.state \in {"Open", "Accepted", "Poisoned"}
    /\ terminal # Null => terminal.status \in Statuses
    /\ terminal # Null <=> exec.pc \in {"stream", "cut"}
    /\ terminal # Null <=> completion \in {"COMPLETED", "COMPLETED_CANCELLED"}

\* A client that got the whole response, whatever the transport did, has the
\* engine's events and the engine's terminal; and it never completes with
\* another status than Cancelled after the control thread was told that its
\* cancellation was in time.
ClientHasTheVerdict ==
    client.phase = "Complete" =>
        /\ client.terminal = terminal
        /\ client.events = asm.events
        /\ disposition = "Requested" => client.terminal.status = "Cancelled"

\* Quotas, cancellation or a failed projection may stop the assembler after any
\* event: CheckResponseStream accepts every response it seals.
ResponseIsAccepted == ~disturbed => client.phase # "Poisoned"

\* A Success or a Rejected is never partial: the events of the response are
\* all phases and all diagnostics the check came to, in their order, and a
\* Success hides no rejecting one.
VerdictIsWhole ==
    terminal # Null /\ terminal.status \in {"Success", "Rejected"} =>
        /\ asm.events = [i \in 1 .. exec.outcome.phases |-> "Phase"]
                        \o Projection(exec.outcome).diags
        /\ terminal.status = Projection(exec.outcome).status

\* The shared flag is raised by the exact next Cancel of this request, as the
\* first frame after the input: never by a frame after a refused one.
CancelIsExact ==
    (IsCancelRequested \/ disposition # Null) =>
        late.first = LateFrame

\* A cancellation that was in time ends the execution: as Cancelled, or as an
\* error without a terminal.
CancelTakesEffect ==
    (disposition = "Requested") ~>
        (exec.pc = "failed" \/ (terminal # Null /\ terminal.status = "Cancelled"))

\* The promise the two threads keep between them.
Verdict == INSTANCE CheckVerdict WITH
    None <- Null,
    verdict <- IF exec.pc = "failed" THEN "Failed"
               ELSE IF terminal = Null THEN Null ELSE terminal.status

\* Completion and late cancellation meet in one atomic: one verdict, and the
\* answer to the cancellation agrees with it.
VerdictSpec == Verdict!Spec

\* What the execution and the control thread keep at every step: one verdict on
\* both sides, never partial, and no cancellation but the exact one.
ExecutionInv ==
    /\ ExecutionTypeOK
    /\ ClientHasTheVerdict
    /\ VerdictIsWhole
    /\ CancelIsExact
=============================================================================
