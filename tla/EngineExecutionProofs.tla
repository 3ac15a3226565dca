----------------------- MODULE EngineExecutionProofs -----------------------
(***************************************************************************)
(* Proofs about EngineExecution, for every policy, every outcome of the    *)
(* check, any number of transport faults and any late frames: what the     *)
(* execution, the control thread and the client keep between them, that    *)
(* the client accepts every response the engine seals, and that the        *)
(* threads implement CheckVerdict.                                         *)
(***************************************************************************)
EXTENDS EngineExecution, IncrementalSession, TLAPS

(* The inductive invariant *)

Begun == {"begin", "check", "failed"}
Answered == {"stream", "cut"}

Executions ==
    [pc : {"begin", "check", "push", "complete", "store", "stream", "cut", "failed"},
     outcome : Outcomes \cup {[kind |-> "Cancelled"], Null}, queue : Seq(Events),
     requested : Statuses \cup {Null}, status : Statuses \cup {Null}]
Assemblers ==
    [events : Seq(Events), report : Seq(Events), event_bytes : Nat, diagnostics : Nat,
     quota : BOOLEAN, projection : BOOLEAN, cancelled : BOOLEAN]

ExecutionTypes ==
    /\ policy \in Policies
    /\ host \in BOOLEAN
    /\ completion \in {"RUNNING", "CANCEL_REQUESTED", "COMPLETED", "COMPLETED_CANCELLED"}
    /\ exec \in Executions
    /\ asm \in Assemblers
    /\ terminal \in Terminals \cup {Null}
    /\ sent \in Nat
    /\ disposition \in {Null, "Requested", "ExecutionCompleted"}
    /\ disturbed \in BOOLEAN
    /\ client \in Clients

\* The control thread: the stream is open until its first frame, and accepts
\* only if that frame is the Cancel.
LateFlow ==
    /\ late \in [state : {"Open", "Accepted", "Poisoned"}, first : LateFrames \cup {Null},
                 frames : Nat]
    /\ late.state = "Open" <=> late.frames = 0
    /\ late.state = "Accepted" => late.first = LateFrame
    /\ disposition # Null => late.state = "Accepted"

\* The two threads: who moved the shared state, and where that leaves them.
AtomicFlow ==
    /\ completion = "RUNNING" => disposition = Null
    /\ completion = "CANCEL_REQUESTED" => disposition = "Requested"
    /\ completion = "COMPLETED" => disposition # "Requested"
    /\ completion = "COMPLETED_CANCELLED" =>
          disposition = "Requested" /\ terminal.status = "Cancelled"
    /\ exec.pc = "store" => completion = "CANCEL_REQUESTED"
    /\ terminal # Null <=> exec.pc \in Answered
    /\ terminal # Null <=> completion \in {"COMPLETED", "COMPLETED_CANCELLED"}

\* The events PhaseEvents and the projection come to, and the status.
Overflowed(o) == o.phases > policy.events
QueueOf(o) ==
    [i \in 1 .. (IF Overflowed(o) THEN policy.events ELSE o.phases) |-> "Phase"]
    \o (IF Overflowed(o) THEN <<>> ELSE Projection(o).diags)
RequestedOf(o) == IF Overflowed(o) THEN "ResourceLimit" ELSE Projection(o).status

\* Element by element, a and u are what q is made of.
Splits(a, u, q) ==
    /\ Len(a) + Len(u) = Len(q)
    /\ \A i \in DOMAIN a : a[i] = q[i]
    /\ \A i \in DOMAIN u : u[i] = q[Len(a) + i]

\* While nothing was left out, the events taken and those still queued are the
\* whole of the outcome.
Untouched == ~asm.quota /\ ~asm.projection /\ ~asm.cancelled
PushFlow ==
    /\ asm.report = asm.events
    /\ exec.pc \in {"begin", "check"} => asm.events = <<>>
    /\ exec.pc \notin Begun => exec.requested \in Statuses
    /\ exec.pc \notin Begun /\ exec.requested \in {"Success", "Rejected"} =>
          /\ exec.outcome \in Outcomes
          /\ exec.requested = RequestedOf(exec.outcome)
          /\ Untouched => Splits(asm.events, exec.queue, QueueOf(exec.outcome))
    /\ exec.pc \in {"complete", "store"} \cup Answered => exec.status \in Statuses
    /\ (exec.pc \in {"complete", "store"} \cup Answered) /\ exec.status \in {"Success", "Rejected"} =>
          exec.queue = <<>> /\ Untouched /\ exec.status = exec.requested
    /\ terminal # Null => terminal = TerminalOf(exec.status)

\* Running totals of the bytes and of the diagnostics over the events taken;
\* the assembler holds the last, the client the one of its last event.
Totals(bytes, diags) ==
    /\ bytes \in [0 .. Len(asm.events) -> Nat] /\ diags \in [0 .. Len(asm.events) -> Nat]
    /\ bytes[0] = 0 /\ diags[0] = 0
    /\ \A i \in 1 .. Len(asm.events) :
          /\ bytes[i] = bytes[i - 1] + EventBytes(asm.events[i])
          /\ diags[i] = diags[i - 1] + (IF IsDiagnostic(asm.events[i]) THEN 1 ELSE 0)
    /\ \A i \in 0 .. Len(asm.events) :
          bytes[i] <= policy.event_bytes /\ diags[i] <= policy.diagnostics
    /\ Len(asm.events) <= policy.events
    /\ asm.event_bytes = bytes[Len(asm.events)]
    /\ asm.diagnostics = diags[Len(asm.events)]
Counts(c, bytes, diags) ==
    c.event_bytes = bytes[Len(c.events)] /\ c.diagnostics = diags[Len(c.events)]
TallyFlow ==
    \E bytes, diags :
        Totals(bytes, diags) /\ (client.phase # "Poisoned" => Counts(client, bytes, diags))

\* Every frame on the way is a frame of the response, with its number.
FrameAt(k) == [seq |-> k, msg |-> ResponseMessages[k + 1]]
Frames(n) == {FrameAt(k) : k \in 0 .. (n - 1)}
WireFlow ==
    /\ exec.pc \notin Answered => wire = <<>> /\ sent = 0
    /\ sent <= Len(asm.events) + 4
    /\ wire \in Seq(Frames(sent))

\* Where a client that refused nothing is after seq frames.
PhaseAfter(seq) ==
    CASE seq = 0 -> "ServerHello"
      [] seq \in 1 .. (Len(asm.events) + 1) -> "Events"
      [] seq = Len(asm.events) + 2 -> "Output"
      [] seq = Len(asm.events) + 3 -> "Terminal"
      [] OTHER -> "Complete"
EventsAfter(seq) ==
    IF seq = 0 THEN 0
    ELSE IF seq <= Len(asm.events) + 1 THEN seq - 1
    ELSE Len(asm.events)

Follows(c, seq) ==
    /\ c.phase = PhaseAfter(seq)
    /\ Len(c.events) = EventsAfter(seq)
    /\ \A i \in DOMAIN c.events : c.events[i] = asm.events[i]
    /\ c.rejecting = 0 <=> \A i \in DOMAIN c.events : ~Rejecting(c.events[i])
    /\ c.phase = "Complete" => c.terminal = terminal
ClientFlow ==
    client.phase # "Poisoned" => client.seq <= sent /\ Follows(client, client.seq)

\* Without a disturbance the frames on the way are the ones the client expects.
HonestFlow ==
    ~disturbed =>
        /\ client.phase # "Poisoned"
        /\ client.seq + Len(wire) = sent
        /\ \A i \in DOMAIN wire : wire[i] = FrameAt(client.seq + i - 1)

ExecutionFlow ==
    /\ ExecutionTypes /\ LateFlow /\ AtomicFlow /\ PushFlow
    /\ TallyFlow /\ WireFlow /\ ClientFlow /\ HonestFlow

-----------------------------------------------------------------------------
(* The parts read only some of the variables *)

LEMMA LateKept == LateFlow /\ UNCHANGED lateVars => LateFlow'
  BY DEF LateFlow, lateVars

LEMMA AtomicKept == AtomicFlow /\ UNCHANGED <<completion, disposition, exec, terminal>> => AtomicFlow'
  BY DEF AtomicFlow

\* What an outcome comes to depends on the request's policy only.
LEMMA OutcomeKept ==
    ASSUME UNCHANGED policy
    PROVE  /\ \A e : Rejecting(e)' <=> Rejecting(e)
           /\ \A o : QueueOf(o)' = QueueOf(o) /\ RequestedOf(o)' = RequestedOf(o)
<1>1. \A e : Rejecting(e)' <=> Rejecting(e)
  BY DEF Rejecting
<1>2. \A raw : Collected(raw)' = Collected(raw)
  BY <1>1 DEF Collected
<1>3. \A raw : DriverResult(raw)' = DriverResult(raw)
  <2> TAKE raw
  <2>1. (\E i \in DOMAIN raw : Rejecting(raw[i])) <=> (\E i \in DOMAIN raw : Rejecting(raw[i]))'
    BY <1>1
  <2> QED
    BY <1>2, <2>1 DEF DriverResult
<1>4. \A o : Projection(o)' = Projection(o)
  BY <1>3 DEF Projection
<1>5. \A o : Overflowed(o)' <=> Overflowed(o)
  BY DEF Overflowed
<1> QED
  BY <1>1, <1>4, <1>5 DEF QueueOf, RequestedOf

LEMMA PushKept == PushFlow /\ UNCHANGED <<policy, exec, asm, terminal>> => PushFlow'
<1> SUFFICES ASSUME PushFlow, UNCHANGED <<policy, exec, asm, terminal>> PROVE PushFlow'
  OBVIOUS
<1>1. \A o : QueueOf(o)' = QueueOf(o) /\ RequestedOf(o)' = RequestedOf(o)
  BY OutcomeKept
<1>2. Untouched' <=> Untouched
  BY DEF Untouched
<1>3. TerminalOf(exec.status)' = TerminalOf(exec.status)
  BY DEF TerminalOf
<1> QED
  BY <1>1, <1>2, <1>3 DEF PushFlow

LEMMA TallyKept == TallyFlow /\ UNCHANGED <<policy, asm, client>> => TallyFlow'
<1> SUFFICES ASSUME TallyFlow, UNCHANGED <<policy, asm, client>> PROVE TallyFlow'
  OBVIOUS
<1> QED
  BY DEF TallyFlow, Totals, Counts

LEMMA FramesKept == UNCHANGED <<asm, terminal>> =>
                       /\ ResponseMessages' = ResponseMessages
                       /\ \A k : FrameAt(k)' = FrameAt(k)
                       /\ \A n : Frames(n)' = Frames(n)
  BY DEF ResponseMessages, FrameAt, Frames

LEMMA WireKept == WireFlow /\ UNCHANGED <<exec, asm, terminal, sent, wire>> => WireFlow'
  BY FramesKept DEF WireFlow

LEMMA ClientKept == ClientFlow /\ UNCHANGED <<policy, asm, terminal, sent, client>> => ClientFlow'
  BY DEF ClientFlow, Follows, PhaseAfter, EventsAfter, Rejecting

LEMMA HonestKept ==
    HonestFlow /\ UNCHANGED <<asm, terminal, sent, wire, client, disturbed>> => HonestFlow'
  BY FramesKept DEF HonestFlow

\* Where the elements of a concatenation come from.
LEMMA ConcatAt ==
    ASSUME NEW S, NEW s \in Seq(S), NEW t \in Seq(S)
    PROVE  /\ s \o t \in Seq(S) /\ Len(s \o t) = Len(s) + Len(t)
           /\ \A i \in 1 .. Len(s) : (s \o t)[i] = s[i]
           /\ \A i \in 1 .. Len(t) : (s \o t)[Len(s) + i] = t[i]
  OBVIOUS

\* The response: the hello, the events, the empty output tree, the terminal.
LEMMA ResponseShape ==
    ASSUME asm \in Assemblers
    PROVE  /\ Len(asm.events) \in Nat
           /\ Len(ResponseMessages) = Len(asm.events) + 4
           /\ ResponseMessages[1] = [kind |-> "ServerHello"]
           /\ \A i \in 1 .. Len(asm.events) :
                 ResponseMessages[i + 1] = [kind |-> "Event", event |-> asm.events[i]]
           /\ ResponseMessages[Len(asm.events) + 2] = [kind |-> "OutputHeader"]
           /\ ResponseMessages[Len(asm.events) + 3] = [kind |-> "OutputFinish"]
           /\ ResponseMessages[Len(asm.events) + 4] = [kind |-> "Terminal", terminal |-> terminal]
<1> DEFINE n == Len(asm.events)
           ev == [i \in DOMAIN asm.events |-> [kind |-> "Event", event |-> asm.events[i]]]
           all == {[kind |-> "ServerHello"], [kind |-> "OutputHeader"], [kind |-> "OutputFinish"],
                   [kind |-> "Terminal", terminal |-> terminal]}
                  \cup {[kind |-> "Event", event |-> e] : e \in Events}
           front == <<[kind |-> "ServerHello"]>>
           back == <<[kind |-> "OutputHeader"], [kind |-> "OutputFinish"],
                     [kind |-> "Terminal", terminal |-> terminal]>>
<1>1. asm.events \in Seq(Events) /\ n \in Nat /\ DOMAIN asm.events = 1 .. n
  BY DEF Assemblers
<1>2. ev \in Seq(all) /\ front \in Seq(all) /\ back \in Seq(all)
  BY <1>1
<1>3. Len(ev) = n /\ Len(front) = 1 /\ Len(back) = 3
  BY <1>1
<1>4. \A i \in 1 .. n : ev[i] = [kind |-> "Event", event |-> asm.events[i]]
  BY <1>1
<1>5. /\ front[1] = [kind |-> "ServerHello"] /\ back[1] = [kind |-> "OutputHeader"]
      /\ back[2] = [kind |-> "OutputFinish"]
      /\ back[3] = [kind |-> "Terminal", terminal |-> terminal]
  OBVIOUS
<1>6. ResponseMessages = (front \o ev) \o back
  BY DEF ResponseMessages
<1> HIDE DEF ev, front, back, all
<1> DEFINE fe == front \o ev
<1>7. /\ fe \in Seq(all) /\ Len(fe) = Len(front) + Len(ev)
      /\ \A i \in 1 .. Len(front) : fe[i] = front[i]
      /\ \A i \in 1 .. Len(ev) : fe[Len(front) + i] = ev[i]
  BY <1>2, ConcatAt
<1> HIDE DEF fe
<1> DEFINE feb == fe \o back
<1>8. /\ Len(feb) = Len(fe) + Len(back)
      /\ \A i \in 1 .. Len(fe) : feb[i] = fe[i]
      /\ \A i \in 1 .. Len(back) : feb[Len(fe) + i] = back[i]
  <2>1. fe \in Seq(all)
    BY <1>7
  <2> QED
    BY <1>2, <2>1, ConcatAt
<1>9. ResponseMessages = feb
  BY <1>6 DEF fe
<1> HIDE DEF feb, n
<1>10. /\ fe[1] = front[1] /\ Len(fe) = n + 1
       /\ \A i \in 1 .. n : fe[i + 1] = ev[i]
  BY <1>1, <1>2, <1>3, <1>7
<1>11. /\ Len(feb) = n + 4 /\ feb[1] = front[1]
       /\ \A i \in 1 .. n : feb[i + 1] = ev[i]
       /\ feb[n + 2] = back[1] /\ feb[n + 3] = back[2] /\ feb[n + 4] = back[3]
  BY <1>1, <1>3, <1>8, <1>10
<1> QED
  BY <1>1, <1>4, <1>5, <1>9, <1>11 DEF n

-----------------------------------------------------------------------------
(* What a check comes to *)

LEMMA PolicyTypes ==
    ASSUME policy \in Policies
    PROVE  /\ policy.events \in Nat /\ policy.event_bytes \in Nat /\ policy.diagnostics \in Nat
           /\ policy.warnings_as_errors \in BOOLEAN
  BY ExecutionAssumption

\* A check that ran to its end: its report has the severity its status needs.
LEMMA DriverReports ==
    ASSUME policy \in Policies, NEW raw \in Seq(Severities)
    PROVE  LET result == DriverResult(raw) IN
           /\ result.diags \in Seq(Severities) /\ result.status \in {"Success", "Rejected"}
           /\ result.status = "Success" =>
                 \A i \in DOMAIN result.diags : ~Rejecting(result.diags[i])
           /\ result.status = "Rejected" =>
                 \E i \in DOMAIN result.diags : Rejecting(result.diags[i])
<1> DEFINE result == DriverResult(raw)
<1>1. CASE Len(raw) > policy.diagnostics
  <2>1. result = [diags |-> <<"Error">>, status |-> "Rejected"]
    BY <1>1 DEF DriverResult
  <2>2. <<"Error">> \in Seq(Severities) /\ 1 \in DOMAIN <<"Error">> /\ Rejecting(<<"Error">>[1])
    BY DEF Severities, Rejecting
  <2> HIDE DEF result
  <2>3. result.diags = <<"Error">> /\ result.status = "Rejected"
    BY <2>1
  <2> QED
    BY <2>2, <2>3 DEF result
<1>2. CASE ~(Len(raw) > policy.diagnostics) /\ \E i \in DOMAIN raw : Rejecting(raw[i])
  <2>1. result = [diags |-> Collected(raw), status |-> "Rejected"]
    BY <1>2 DEF DriverResult
  <2>2. Collected(raw) \in Seq(Severities)
    BY DEF Collected, Severities
  <2>3. \E i \in DOMAIN Collected(raw) : Rejecting(Collected(raw)[i])
    BY <1>2 DEF Collected, Rejecting
  <2> HIDE DEF result
  <2>4. result.diags = Collected(raw) /\ result.status = "Rejected"
    BY <2>1
  <2> QED
    BY <2>2, <2>3, <2>4 DEF result
<1>3. CASE ~(Len(raw) > policy.diagnostics) /\ ~\E i \in DOMAIN raw : Rejecting(raw[i])
  <2>1. result = [diags |-> raw, status |-> "Success"]
    BY <1>3 DEF DriverResult
  <2> HIDE DEF result
  <2>2. result.diags = raw /\ result.status = "Success"
    BY <2>1
  <2> QED
    BY <1>3, <2>2 DEF result
<1> QED
  BY <1>1, <1>2, <1>3

\* The same of every outcome.
LEMMA ProjectionReports ==
    ASSUME policy \in Policies, NEW o \in Outcomes
    PROVE  LET result == Projection(o) IN
           /\ result.diags \in Seq(Severities) /\ result.status \in Statuses
           /\ result.status = "Success" =>
                 \A i \in DOMAIN result.diags : ~Rejecting(result.diags[i])
           /\ result.status = "Rejected" =>
                 \E i \in DOMAIN result.diags : Rejecting(result.diags[i])
<1> DEFINE result == Projection(o)
<1>0. o.kind \in OutcomeKinds /\ o.diagnostics \in Seq(Severities)
  BY ExecutionAssumption
<1>1. CASE o.kind = "Checked"
  <2>1. result = DriverResult(o.diagnostics)
    BY <1>1 DEF Projection
  <2> HIDE DEF result
  <2> QED
    BY <1>0, <2>1, DriverReports DEF Statuses, result
<1>2. CASE o.kind = "Cancelled"
  <2>1. result = [diags |-> <<>>, status |-> "Cancelled"]
    BY <1>2 DEF Projection
  <2> HIDE DEF result
  <2>2. result.diags = <<>> /\ result.status = "Cancelled"
    BY <2>1
  <2> QED
    BY <2>2 DEF Statuses, result
<1>3. CASE o.kind \notin {"Checked", "Cancelled"}
  <2>1. \E s \in {"ResourceLimit", "Rejected", "InternalFailure"} :
           result = [diags |-> <<"Error">>, status |-> s]
    BY <1>0, <1>3 DEF Projection, OutcomeKinds
  <2>2. <<"Error">> \in Seq(Severities) /\ 1 \in DOMAIN <<"Error">> /\ Rejecting(<<"Error">>[1])
    BY DEF Severities, Rejecting
  <2> HIDE DEF result
  <2>3. result.diags = <<"Error">> /\ result.status \in {"ResourceLimit", "Rejected", "InternalFailure"}
    BY <2>1
  <2> QED
    BY <2>2, <2>3 DEF Statuses, result
<1> QED
  BY <1>1, <1>2, <1>3

\* The queue of an outcome: its phases, then its diagnostics.
LEMMA QueueShape ==
    ASSUME policy \in Policies, NEW o \in Outcomes
    PROVE  /\ QueueOf(o) \in Seq(Events)
           /\ RequestedOf(o) \in Statuses
           /\ RequestedOf(o) \in {"Success", "Rejected"} =>
                 /\ QueueOf(o) = [i \in 1 .. o.phases |-> "Phase"] \o Projection(o).diags
                 /\ RequestedOf(o) = Projection(o).status
           /\ RequestedOf(o) = "Success" =>
                 \A i \in DOMAIN QueueOf(o) : ~Rejecting(QueueOf(o)[i])
           /\ RequestedOf(o) = "Rejected" =>
                 \E i \in DOMAIN QueueOf(o) : Rejecting(QueueOf(o)[i])
<1> DEFINE phases == [i \in 1 .. (IF Overflowed(o) THEN policy.events ELSE o.phases) |-> "Phase"]
           diags == IF Overflowed(o) THEN <<>> ELSE Projection(o).diags
<1>1. o.phases \in Nat /\ policy.events \in Nat
  BY ExecutionAssumption, PolicyTypes
<1>2. /\ Projection(o).diags \in Seq(Severities) /\ Projection(o).status \in Statuses
      /\ Projection(o).status = "Success" =>
            \A i \in DOMAIN Projection(o).diags : ~Rejecting(Projection(o).diags[i])
      /\ Projection(o).status = "Rejected" =>
            \E i \in DOMAIN Projection(o).diags : Rejecting(Projection(o).diags[i])
  BY ProjectionReports
<1>3. phases \in Seq(Events) /\ \A i \in 1 .. Len(phases) : phases[i] = "Phase"
  BY <1>1 DEF Events
<1>4. diags \in Seq(Severities) /\ diags \in Seq(Events)
  BY <1>2 DEF Events
<1>5. QueueOf(o) = phases \o diags
  BY DEF QueueOf
<1>6. ~Overflowed(o) => phases = [i \in 1 .. o.phases |-> "Phase"] /\ diags = Projection(o).diags
  OBVIOUS
<1> HIDE DEF phases, diags
<1>7. /\ phases \o diags \in Seq(Events) /\ Len(phases \o diags) = Len(phases) + Len(diags)
      /\ \A i \in 1 .. Len(phases) : (phases \o diags)[i] = phases[i]
      /\ \A i \in 1 .. Len(diags) : (phases \o diags)[Len(phases) + i] = diags[i]
  BY <1>3, <1>4, ConcatAt
<1>8. RequestedOf(o) \in Statuses /\
      (RequestedOf(o) \in {"Success", "Rejected"} =>
         ~Overflowed(o) /\ RequestedOf(o) = Projection(o).status)
  BY <1>2 DEF RequestedOf, Statuses
<1> DEFINE q == phases \o diags
<1> HIDE DEF q
<1>9. Len(phases) \in Nat /\ Len(diags) \in Nat /\ DOMAIN diags = 1 .. Len(diags)
      /\ DOMAIN q = 1 .. (Len(phases) + Len(diags))
  BY <1>3, <1>4, <1>7 DEF q
<1>10. /\ \A i \in 1 .. Len(phases) : q[i] = "Phase"
       /\ \A i \in 1 .. Len(diags) : q[Len(phases) + i] = diags[i]
  BY <1>3, <1>7 DEF q
<1>11. ~Rejecting("Phase")
  BY DEF Rejecting
<1>12. ASSUME RequestedOf(o) = "Success" PROVE \A i \in DOMAIN q : ~Rejecting(q[i])
  <2>1. \A i \in DOMAIN diags : ~Rejecting(diags[i])
    BY <1>2, <1>6, <1>8, <1>12
  <2> SUFFICES ASSUME NEW i \in DOMAIN q PROVE ~Rejecting(q[i])
    OBVIOUS
  <2>2. CASE i \in 1 .. Len(phases)
    BY <1>10, <1>11, <2>2
  <2>3. CASE i \notin 1 .. Len(phases)
    <3>1. i - Len(phases) \in 1 .. Len(diags) /\ i = Len(phases) + (i - Len(phases))
      BY <1>9, <2>3
    <3> QED
      BY <1>9, <1>10, <2>1, <3>1
  <2> QED
    BY <2>2, <2>3
<1>13. ASSUME RequestedOf(o) = "Rejected" PROVE \E i \in DOMAIN q : Rejecting(q[i])
  <2>1. PICK i \in DOMAIN diags : Rejecting(diags[i])
    BY <1>2, <1>6, <1>8, <1>13
  <2>2. Len(phases) + i \in DOMAIN q /\ q[Len(phases) + i] = diags[i]
    BY <1>9, <1>10
  <2> QED
    BY <2>1, <2>2
<1>14. QueueOf(o) = q /\ q \in Seq(Events)
  BY <1>5, <1>7 DEF q
<1> QED
  BY <1>5, <1>6, <1>8, <1>12, <1>13, <1>14

-----------------------------------------------------------------------------
(* The execution thread *)

\* The fields the flows read, with their types.
LEMMA ExecutionFields ==
    ASSUME ExecutionTypes
    PROVE  /\ policy.events \in Nat /\ policy.event_bytes \in Nat /\ policy.diagnostics \in Nat
           /\ asm.events \in Seq(Events) /\ asm.report \in Seq(Events)
           /\ asm.event_bytes \in Nat /\ asm.diagnostics \in Nat
           /\ exec.queue \in Seq(Events) /\ exec.requested \in Statuses \cup {Null}
           /\ exec.status \in Statuses \cup {Null}
           /\ client.seq \in Nat /\ client.events \in Seq(Events) /\ client.event_bytes \in Nat
           /\ client.diagnostics \in Nat /\ client.rejecting \in Nat
           /\ Len(asm.events) \in Nat /\ Len(client.events) \in Nat /\ sent \in Nat
  BY PolicyTypes DEF ExecutionTypes, Executions, Assemblers, Clients

\* Before the response is streamed nothing is on the way, and a step of the
\* execution leaves the client where it is.
LEMMA LineIsQuiet ==
    ASSUME ExecutionTypes, WireFlow, ClientFlow, HonestFlow, exec.pc \notin Answered,
           asm' \in Assemblers, UNCHANGED <<policy, sent, wire, client, disturbed>>
    PROVE  WireFlow' /\ ClientFlow' /\ HonestFlow'
<1>1. wire' = <<>> /\ sent' = 0 /\ sent = 0 /\ Len(asm'.events) \in Nat
  BY DEF WireFlow, Assemblers
<1>2. WireFlow'
  BY <1>1 DEF WireFlow
<1>3. CASE client.phase # "Poisoned"
  <2>1. client.seq = 0
    BY <1>1, <1>3, ExecutionFields DEF ClientFlow
  <2>2. client.phase = "ServerHello" /\ Len(client.events) = 0
    BY <1>3, <2>1 DEF ClientFlow, Follows, PhaseAfter, EventsAfter
  <2>3. DOMAIN client.events = {}
    BY <2>2, ExecutionFields
  <2>4. PhaseAfter(0)' = "ServerHello" /\ EventsAfter(0)' = 0
    BY <1>1 DEF PhaseAfter, EventsAfter
  <2>5. client.rejecting = 0
    BY <1>3, <2>3 DEF ClientFlow, Follows
  <2>6. ClientFlow'
    BY <1>1, <1>3, <2>1, <2>2, <2>3, <2>4, <2>5 DEF ClientFlow, Follows
  <2>7. HonestFlow'
    BY <1>1, <1>3, <2>1 DEF HonestFlow
  <2> QED
    BY <1>2, <2>6, <2>7
<1>4. CASE client.phase = "Poisoned"
  BY <1>2, <1>4 DEF ClientFlow, HonestFlow
<1> QED
  BY <1>3, <1>4

LEMMA BeginKeeps ==
    ASSUME ExecutionFlow, Begin \/ ExecutionFails,
           UNCHANGED <<policy, host, completion, sent, lateVars, wire, faults, disturbed, client>>
    PROVE  ExecutionFlow'
<1>0. /\ ExecutionTypes /\ LateFlow /\ AtomicFlow /\ PushFlow
      /\ TallyFlow /\ WireFlow /\ ClientFlow /\ HonestFlow
  BY DEF ExecutionFlow
<1>1. exec.pc \in {"begin", "check"} /\ UNCHANGED <<asm, terminal>>
  BY DEF Begin, ExecutionFails
<1>2. /\ exec' \in Executions
      /\ \/ exec'.pc = "push" /\ exec'.requested = "Cancelled"
         \/ exec'.pc \in {"check", "failed"}
  BY <1>0 DEF Begin, ExecutionFails, ExecutionTypes, Executions, Statuses
<1>3. ExecutionTypes'
  BY <1>0, <1>1, <1>2 DEF ExecutionTypes, lateVars
<1>4. LateFlow'
  BY <1>0, LateKept
<1>5. AtomicFlow'
  BY <1>0, <1>1, <1>2 DEF AtomicFlow, Answered, lateVars
<1>6. PushFlow'
  BY <1>0, <1>1, <1>2 DEF PushFlow, Begun, Answered, AtomicFlow, Statuses
<1>7. TallyFlow'
  BY <1>0, <1>1, TallyKept
<1>8. WireFlow' /\ ClientFlow' /\ HonestFlow'
  BY <1>0, <1>1, LineIsQuiet DEF ExecutionTypes, Answered
<1> QED
  BY <1>3, <1>4, <1>5, <1>6, <1>7, <1>8 DEF ExecutionFlow

LEMMA CheckKeeps ==
    ASSUME ExecutionFlow, NEW o \in Outcomes, Check(o),
           UNCHANGED <<policy, host, completion, sent, lateVars, wire, faults, disturbed, client>>
    PROVE  ExecutionFlow'
<1>0. /\ ExecutionTypes /\ LateFlow /\ AtomicFlow /\ PushFlow
      /\ TallyFlow /\ WireFlow /\ ClientFlow /\ HonestFlow
  BY DEF ExecutionFlow
<1>1. exec.pc = "check" /\ UNCHANGED <<asm, terminal>>
  BY DEF Check
<1>2. exec' = [exec EXCEPT !.pc = "push", !.outcome = o, !.queue = QueueOf(o),
                           !.requested = RequestedOf(o)]
  BY DEF Check, QueueOf, RequestedOf, Overflowed
<1>3. QueueOf(o) \in Seq(Events) /\ RequestedOf(o) \in Statuses
  BY <1>0, QueueShape DEF ExecutionTypes
<1>4. /\ exec' \in Executions /\ exec'.pc = "push" /\ exec'.outcome = o
      /\ exec'.queue = QueueOf(o) /\ exec'.requested = RequestedOf(o)
  BY <1>0, <1>2, <1>3 DEF ExecutionTypes, Executions
<1>5. ExecutionTypes'
  BY <1>0, <1>1, <1>4 DEF ExecutionTypes, lateVars
<1>6. LateFlow'
  BY <1>0, LateKept
<1>7. AtomicFlow'
  BY <1>0, <1>1, <1>4 DEF AtomicFlow, Answered, lateVars
<1>8. PushFlow'
  <2>1. asm.events = <<>> /\ asm.report = asm.events /\ terminal = Null
    BY <1>0, <1>1 DEF PushFlow, AtomicFlow, Answered
  <2>2. QueueOf(o)' = QueueOf(o) /\ RequestedOf(o)' = RequestedOf(o)
    BY OutcomeKept
  <2> HIDE DEF QueueOf
  <2>3. Splits(<<>>, QueueOf(o), QueueOf(o))
    BY <1>3 DEF Splits
  <2> QED
    BY <1>1, <1>3, <1>4, <2>1, <2>2, <2>3 DEF PushFlow, Begun, Answered
<1>9. TallyFlow'
  BY <1>0, <1>1, TallyKept
<1>10. WireFlow' /\ ClientFlow' /\ HonestFlow'
  BY <1>0, <1>1, LineIsQuiet DEF ExecutionTypes, Answered
<1> QED
  BY <1>5, <1>6, <1>7, <1>8, <1>9, <1>10 DEF ExecutionFlow

\* Nothing more was taken: the totals stand.
LEMMA TallyStands ==
    ASSUME TallyFlow, UNCHANGED <<policy, client>>, asm'.events = asm.events,
           asm'.event_bytes = asm.event_bytes, asm'.diagnostics = asm.diagnostics
    PROVE  TallyFlow'
  BY DEF TallyFlow, Totals, Counts

\* One more event was taken: the totals go on by one.
LEMMA TallyGrows ==
    ASSUME ExecutionTypes, TallyFlow, NEW e \in Events, UNCHANGED <<policy, client>>,
           asm.report = asm.events, asm' = Taken(asm, e), asm' \in Assemblers,
           client.phase # "Poisoned" => Len(client.events) = 0,
           ~Overruns(asm, e), IsDiagnostic(e) => asm.diagnostics < policy.diagnostics
    PROVE  TallyFlow'
<1> DEFINE n == Len(asm.events)
           one == IF IsDiagnostic(e) THEN 1 ELSE 0
<1>0. /\ n \in Nat /\ asm.events \in Seq(Events) /\ policy.event_bytes \in Nat
      /\ policy.events \in Nat /\ policy.diagnostics \in Nat /\ asm.event_bytes \in Nat
      /\ asm.diagnostics \in Nat /\ EventBytes(e) \in Nat /\ one \in Nat
  BY ExecutionFields DEF EventBytes
<1>1. /\ asm'.events = Append(asm.events, e)
      /\ asm'.event_bytes = asm.event_bytes + EventBytes(e)
      /\ asm'.diagnostics = asm.diagnostics + one
  <2> HIDE DEF IsDiagnostic, EventBytes
  <2>1. /\ asm'.events = Append(asm.events, e)
        /\ asm'.event_bytes = asm.event_bytes + EventBytes(e)
        /\ asm'.diagnostics = IF IsDiagnostic(e) THEN asm.diagnostics + 1 ELSE asm.diagnostics
    BY DEF Taken, ExecutionTypes, Assemblers
  <2> QED
    BY <1>0, <2>1
<1>2. /\ asm.event_bytes + EventBytes(e) <= policy.event_bytes /\ n + 1 <= policy.events
      /\ asm.diagnostics + one <= policy.diagnostics
  <2>1. asm.event_bytes + EventBytes(e) <= policy.event_bytes /\ n + 1 <= policy.events
    BY <1>0 DEF Overruns
  <2>2. asm.diagnostics <= policy.diagnostics
    BY <1>0 DEF TallyFlow, Totals
  <2> QED
    BY <1>0, <2>1, <2>2
<1>3. PICK bytes, diags :
        /\ bytes \in [0 .. n -> Nat] /\ diags \in [0 .. n -> Nat]
        /\ bytes[0] = 0 /\ diags[0] = 0
        /\ \A i \in 1 .. n :
              /\ bytes[i] = bytes[i - 1] + EventBytes(asm.events[i])
              /\ diags[i] = diags[i - 1] + (IF IsDiagnostic(asm.events[i]) THEN 1 ELSE 0)
        /\ \A i \in 0 .. n : bytes[i] <= policy.event_bytes /\ diags[i] <= policy.diagnostics
        /\ asm.event_bytes = bytes[n]
        /\ asm.diagnostics = diags[n]
        /\ client.phase # "Poisoned" =>
              /\ client.event_bytes = bytes[Len(client.events)]
              /\ client.diagnostics = diags[Len(client.events)]
  BY DEF TallyFlow, Totals, Counts
<1> DEFINE b == [i \in 0 .. (n + 1) |-> IF i <= n THEN bytes[i] ELSE bytes[n] + EventBytes(e)]
           d == [i \in 0 .. (n + 1) |-> IF i <= n THEN diags[i] ELSE diags[n] + one]
<1>4. Len(asm'.events) = n + 1 /\ asm'.events[n + 1] = e
      /\ \A i \in 1 .. n : asm'.events[i] = asm.events[i]
  BY <1>0, <1>1
<1> HIDE DEF n, one
<1>5. b \in [0 .. (n + 1) -> Nat] /\ d \in [0 .. (n + 1) -> Nat]
  BY <1>0, <1>3
<1>6. /\ b[0] = 0 /\ d[0] = 0 /\ b[n + 1] = bytes[n] + EventBytes(e) /\ d[n + 1] = diags[n] + one
      /\ \A i \in 0 .. n : b[i] = bytes[i] /\ d[i] = diags[i]
  BY <1>0, <1>3
<1> HIDE DEF b, d
<1>7. \A i \in 1 .. (n + 1) :
         /\ b[i] = b[i - 1] + EventBytes(asm'.events[i])
         /\ d[i] = d[i - 1] + (IF IsDiagnostic(asm'.events[i]) THEN 1 ELSE 0)
  <2> SUFFICES ASSUME NEW i \in 1 .. (n + 1)
               PROVE  /\ b[i] = b[i - 1] + EventBytes(asm'.events[i])
                      /\ d[i] = d[i - 1] + (IF IsDiagnostic(asm'.events[i]) THEN 1 ELSE 0)
    OBVIOUS
  <2>1. CASE i \in 1 .. n
    <3>1. i - 1 \in 0 .. n /\ i \in 0 .. n
      BY <1>0, <2>1
    <3> QED
      BY <1>3, <1>4, <1>6, <2>1, <3>1
  <2>2. CASE i = n + 1
    <3>1. i - 1 = n /\ n \in 0 .. n
      BY <1>0, <2>2
    <3>2. asm'.events[i] = e
      BY <1>4, <2>2
    <3> QED
      BY <1>6, <2>2, <3>1, <3>2 DEF one
  <2> QED
    BY <1>0, <2>1, <2>2
<1>8. \A i \in 0 .. (n + 1) : b[i] <= policy.event_bytes /\ d[i] <= policy.diagnostics
  <2> SUFFICES ASSUME NEW i \in 0 .. (n + 1)
               PROVE  b[i] <= policy.event_bytes /\ d[i] <= policy.diagnostics
    OBVIOUS
  <2>1. CASE i \in 0 .. n
    BY <1>3, <1>6, <2>1
  <2>2. CASE i = n + 1
    BY <1>2, <1>3, <1>6, <2>2
  <2> QED
    BY <1>0, <2>1, <2>2
<1>9. asm'.event_bytes = b[n + 1] /\ asm'.diagnostics = d[n + 1]
  BY <1>1, <1>3, <1>6
<1>10. client.phase # "Poisoned" =>
          client.event_bytes = b[Len(client.events)] /\ client.diagnostics = d[Len(client.events)]
  BY <1>0, <1>3, <1>6
<1>11. b \in [0 .. Len(asm'.events) -> Nat] /\ d \in [0 .. Len(asm'.events) -> Nat]
  BY <1>4, <1>5
<1>12. Len(asm'.events) <= policy'.events
  BY <1>2, <1>4
<1>13. /\ b[0] = 0 /\ d[0] = 0
       /\ \A i \in 1 .. Len(asm'.events) :
             /\ b[i] = b[i - 1] + EventBytes(asm'.events[i])
             /\ d[i] = d[i - 1] + (IF IsDiagnostic(asm'.events[i]) THEN 1 ELSE 0)
       /\ \A i \in 0 .. Len(asm'.events) :
             b[i] <= policy'.event_bytes /\ d[i] <= policy'.diagnostics
       /\ asm'.event_bytes = b[Len(asm'.events)] /\ asm'.diagnostics = d[Len(asm'.events)]
       /\ client'.phase # "Poisoned" =>
             /\ client'.event_bytes = b[Len(client'.events)]
             /\ client'.diagnostics = d[Len(client'.events)]
  BY <1>4, <1>6, <1>7, <1>8, <1>9, <1>10
<1> QED
  BY <1>11, <1>12, <1>13 DEF TallyFlow, Totals, Counts

\* A client that is sent nothing has no event.
LEMMA NothingReceived ==
    ASSUME ExecutionTypes, WireFlow, ClientFlow, exec.pc \notin Answered,
           client.phase # "Poisoned"
    PROVE  Len(client.events) = 0
<1>1. client.seq = 0
  BY ExecutionFields DEF WireFlow, ClientFlow
<1> QED
  BY <1>1 DEF ClientFlow, Follows, EventsAfter

\* The event at the head of the queue is taken, or left out and marked.
LEMMA PushedWays ==
    ASSUME ExecutionTypes, NEW e \in Events, asm' = Pushed(asm, e)
    PROVE  /\ asm' \in Assemblers
           /\ \/ /\ UNCHANGED <<asm.events, asm.report, asm.event_bytes, asm.diagnostics>>
                 /\ asm'.quota \/ asm'.projection \/ asm'.cancelled
              \/ /\ asm' = Taken(asm, e) /\ Untouched
                 /\ asm'.events = Append(asm.events, e) /\ asm'.report = Append(asm.report, e)
                 /\ ~Overruns(asm, e) /\ (IsDiagnostic(e) => asm.diagnostics < policy.diagnostics)
<1>0. /\ asm \in Assemblers /\ asm.diagnostics \in Nat /\ policy.diagnostics \in Nat
      /\ EventBytes(e) \in Nat
  BY ExecutionFields DEF ExecutionTypes, EventBytes
<1> HIDE DEF IsDiagnostic, EventBytes
<1>1. \/ asm' = [asm EXCEPT !.cancelled = TRUE]
      \/ asm' = asm /\ (asm.quota \/ asm.projection)
      \/ asm' = [asm EXCEPT !.quota = TRUE]
      \/ /\ asm' = Taken(asm, e) /\ ~asm.cancelled /\ ~asm.quota /\ ~asm.projection
         /\ ~Overruns(asm, e)
         /\ ~(IsDiagnostic(e) /\ asm.diagnostics >= policy.diagnostics)
  BY DEF Pushed, Observed
<1>2. CASE asm' = [asm EXCEPT !.cancelled = TRUE]
  BY <1>0, <1>2 DEF Assemblers
<1>3. CASE asm' = asm /\ (asm.quota \/ asm.projection)
  BY <1>0, <1>3 DEF Assemblers
<1>4. CASE asm' = [asm EXCEPT !.quota = TRUE]
  BY <1>0, <1>4 DEF Assemblers
<1>5. CASE /\ asm' = Taken(asm, e) /\ ~asm.cancelled /\ ~asm.quota /\ ~asm.projection
           /\ ~Overruns(asm, e)
           /\ ~(IsDiagnostic(e) /\ asm.diagnostics >= policy.diagnostics)
  <2>1. /\ Append(asm.events, e) \in Seq(Events) /\ Append(asm.report, e) \in Seq(Events)
        /\ asm.event_bytes + EventBytes(e) \in Nat /\ asm.diagnostics + 1 \in Nat
    BY <1>0 DEF Assemblers
  <2>2. asm' \in Assemblers /\ asm'.events = Append(asm.events, e)
        /\ asm'.report = Append(asm.report, e)
    BY <1>0, <1>5, <2>1 DEF Taken, Assemblers
  <2>3. IsDiagnostic(e) => asm.diagnostics < policy.diagnostics
    BY <1>0, <1>5
  <2> QED
    BY <1>5, <2>2, <2>3 DEF Untouched
<1> QED
  BY <1>1, <1>2, <1>3, <1>4, <1>5

\* The head of a queue moves to what was taken: together they stay the whole.
LEMMA QueueMoves ==
    ASSUME NEW a \in Seq(Events), NEW u \in Seq(Events), u # <<>>, NEW q, Splits(a, u, q)
    PROVE  Splits(Append(a, Head(u)), Tail(u), q)
<1> DEFINE n == Len(a)
           m == Len(u)
           b == Append(a, Head(u))
           t == Tail(u)
<1>1. /\ n \in Nat /\ m \in Nat \ {0} /\ DOMAIN a = 1 .. n /\ DOMAIN u = 1 .. m
      /\ Head(u) = u[1]
  OBVIOUS
<1>2. /\ Len(b) = n + 1 /\ DOMAIN b = 1 .. (n + 1) /\ b[n + 1] = Head(u)
      /\ \A i \in 1 .. n : b[i] = a[i]
  OBVIOUS
<1>3. /\ Len(t) = m - 1 /\ DOMAIN t = 1 .. (m - 1)
      /\ \A i \in 1 .. (m - 1) : t[i] = u[i + 1]
  OBVIOUS
<1>4. /\ n + m = Len(q) /\ \A i \in 1 .. n : a[i] = q[i]
      /\ \A i \in 1 .. m : u[i] = q[n + i]
  BY <1>1 DEF Splits
<1> HIDE DEF n, m, b, t
<1>5. (n + 1) + (m - 1) = Len(q)
  <2>1. (n + 1) + (m - 1) = n + m
    BY <1>1
  <2> QED
    BY <1>4, <2>1, Zenon
<1>6. \A i \in 1 .. (n + 1) : b[i] = q[i]
  BY <1>1, <1>2, <1>4
<1>7. \A i \in 1 .. (m - 1) : t[i] = q[(n + 1) + i]
  <2> SUFFICES ASSUME NEW i \in 1 .. (m - 1) PROVE t[i] = q[(n + 1) + i]
    OBVIOUS
  <2>1. i + 1 \in 1 .. m /\ n + (i + 1) = (n + 1) + i
    BY <1>1
  <2>2. t[i] = u[i + 1] /\ u[i + 1] = q[n + (i + 1)]
    BY <1>3, <1>4, <2>1
  <2> QED
    BY <2>1, <2>2
<1>8. Splits(b, t, q)
  BY <1>2, <1>3, <1>5, <1>6, <1>7 DEF Splits
<1> QED
  BY <1>8 DEF b, t

LEMMA PushKeeps ==
    ASSUME ExecutionFlow, Push,
           UNCHANGED <<policy, host, completion, sent, lateVars, wire, faults, disturbed, client>>
    PROVE  ExecutionFlow'
<1>0. /\ ExecutionTypes /\ LateFlow /\ AtomicFlow /\ PushFlow
      /\ TallyFlow /\ WireFlow /\ ClientFlow /\ HonestFlow
  BY DEF ExecutionFlow
<1> DEFINE e == Head(exec.queue)
<1>1. /\ exec.pc = "push" /\ exec.queue # <<>> /\ exec' = [exec EXCEPT !.queue = Tail(exec.queue)]
      /\ asm' = Pushed(asm, e) /\ UNCHANGED terminal
  BY DEF Push
<1>2. /\ exec.queue \in Seq(Events) /\ e \in Events /\ Tail(exec.queue) \in Seq(Events)
      /\ Len(exec.queue) \in Nat \ {0} /\ e = exec.queue[1]
      /\ Len(Tail(exec.queue)) = Len(exec.queue) - 1
      /\ \A i \in 1 .. Len(Tail(exec.queue)) : Tail(exec.queue)[i] = exec.queue[i + 1]
  BY <1>0, <1>1, ExecutionFields
<1> HIDE DEF e
<1>3. /\ exec' \in Executions /\ exec'.queue = Tail(exec.queue) /\ exec'.pc = "push"
      /\ exec'.outcome = exec.outcome /\ exec'.requested = exec.requested
  BY <1>0, <1>1, <1>2 DEF ExecutionTypes, Executions
<1>4. asm' \in Assemblers
  BY <1>0, <1>1, <1>2, PushedWays
<1>5. ExecutionTypes'
  BY <1>0, <1>1, <1>3, <1>4 DEF ExecutionTypes, lateVars
<1>6. LateFlow'
  BY <1>0, LateKept
<1>7. AtomicFlow'
  BY <1>0, <1>1, <1>3 DEF AtomicFlow, Answered, lateVars
<1>8. WireFlow' /\ ClientFlow' /\ HonestFlow'
  BY <1>0, <1>1, <1>4, LineIsQuiet DEF Answered
<1>9. terminal' = Null /\ asm.report = asm.events /\ exec.requested \in Statuses
  BY <1>0, <1>1 DEF AtomicFlow, PushFlow, Answered, Begun
<1>10. CASE /\ UNCHANGED <<asm.events, asm.report, asm.event_bytes, asm.diagnostics>>
            /\ asm'.quota \/ asm'.projection \/ asm'.cancelled
  <2>1. TallyFlow'
    BY <1>0, <1>10, TallyStands
  <2>2. \A o : RequestedOf(o)' = RequestedOf(o)
    BY OutcomeKept
  <2>3. PushFlow'
    BY <1>0, <1>1, <1>3, <1>9, <1>10, <2>2 DEF PushFlow, Untouched, Begun, Answered
  <2> QED
    BY <1>5, <1>6, <1>7, <1>8, <2>1, <2>3 DEF ExecutionFlow
<1>11. CASE /\ asm' = Taken(asm, e) /\ Untouched
            /\ asm'.events = Append(asm.events, e) /\ asm'.report = Append(asm.report, e)
            /\ ~Overruns(asm, e) /\ (IsDiagnostic(e) => asm.diagnostics < policy.diagnostics)
  <2>1. TallyFlow'
    BY <1>0, <1>1, <1>2, <1>4, <1>9, <1>11, TallyGrows, NothingReceived DEF Answered
  <2>2. \A o : QueueOf(o)' = QueueOf(o) /\ RequestedOf(o)' = RequestedOf(o)
    BY OutcomeKept
  <2>3. ASSUME exec.requested \in {"Success", "Rejected"}
        PROVE  /\ exec.outcome \in Outcomes
               /\ exec.requested = RequestedOf(exec.outcome)
               /\ Splits(asm'.events, exec'.queue, QueueOf(exec.outcome))
    <3>1. /\ exec.outcome \in Outcomes /\ exec.requested = RequestedOf(exec.outcome)
          /\ Splits(asm.events, exec.queue, QueueOf(exec.outcome))
      BY <1>0, <1>1, <1>11, <2>3 DEF PushFlow, Begun
    <3>2. asm.events \in Seq(Events)
      BY <1>0, ExecutionFields
    <3>3. exec.queue \in Seq(Events) /\ exec.queue # <<>> /\ e = Head(exec.queue)
      BY <1>1, <1>2 DEF e
    <3>4. Splits(Append(asm.events, e), Tail(exec.queue), QueueOf(exec.outcome))
      BY <3>1, <3>2, <3>3, QueueMoves
    <3> QED
      BY <1>3, <1>11, <3>1, <3>4
  <2>4. PushFlow'
    BY <1>0, <1>1, <1>3, <1>9, <1>11, <2>2, <2>3 DEF PushFlow, Begun, Answered
  <2> QED
    BY <1>5, <1>6, <1>7, <1>8, <2>1, <2>4 DEF ExecutionFlow
<1> QED
  BY <1>0, <1>1, <1>2, <1>10, <1>11, PushedWays

LEMMA ProjectionFailsKeeps ==
    ASSUME ExecutionFlow, ProjectionFails,
           UNCHANGED <<policy, host, completion, sent, lateVars, wire, faults, disturbed, client>>
    PROVE  ExecutionFlow'
<1>0. /\ ExecutionTypes /\ LateFlow /\ AtomicFlow /\ PushFlow
      /\ TallyFlow /\ WireFlow /\ ClientFlow /\ HonestFlow
  BY DEF ExecutionFlow
<1>1. /\ exec.pc = "push" /\ exec' = [exec EXCEPT !.queue = <<>>] /\ UNCHANGED terminal
      /\ asm' = [asm EXCEPT !.quota = TRUE] \/ asm' = [asm EXCEPT !.projection = TRUE]
  BY DEF ProjectionFails
<1>2. /\ asm' \in Assemblers /\ (asm'.quota \/ asm'.projection)
      /\ UNCHANGED <<asm.events, asm.report, asm.event_bytes, asm.diagnostics>>
  BY <1>0, <1>1 DEF ExecutionTypes, Assemblers
<1>3. /\ exec' \in Executions /\ exec'.pc = "push"
      /\ exec'.outcome = exec.outcome /\ exec'.requested = exec.requested
  <2>1. exec \in Executions /\ exec' = [exec EXCEPT !.queue = <<>>]
    BY <1>0, <1>1 DEF ExecutionTypes
  <2>2. <<>> \in Seq(Events)
    OBVIOUS
  <2> QED
    BY <1>1, <2>1, <2>2 DEF Executions
<1>4. ExecutionTypes'
  BY <1>0, <1>1, <1>2, <1>3 DEF ExecutionTypes, lateVars
<1>5. LateFlow'
  BY <1>0, LateKept
<1>6. AtomicFlow'
  BY <1>0, <1>1, <1>3 DEF AtomicFlow, Answered, lateVars
<1>7. WireFlow' /\ ClientFlow' /\ HonestFlow'
  BY <1>0, <1>1, <1>2, LineIsQuiet DEF Answered
<1>8. TallyFlow'
  BY <1>0, <1>2, TallyStands
<1>9. terminal' = Null /\ asm.report = asm.events /\ exec.requested \in Statuses
  BY <1>0, <1>1 DEF AtomicFlow, PushFlow, Answered, Begun
<1>10. \A o : RequestedOf(o)' = RequestedOf(o)
  BY OutcomeKept
<1>11. PushFlow'
  BY <1>0, <1>1, <1>2, <1>3, <1>9, <1>10 DEF PushFlow, Untouched, Begun, Answered
<1> QED
  BY <1>4, <1>5, <1>6, <1>7, <1>8, <1>11 DEF ExecutionFlow

LEMMA FinishKeeps ==
    ASSUME ExecutionFlow, FinishReport,
           UNCHANGED <<policy, host, completion, sent, lateVars, wire, faults, disturbed, client>>
    PROVE  ExecutionFlow'
<1>0. /\ ExecutionTypes /\ LateFlow /\ AtomicFlow /\ PushFlow
      /\ TallyFlow /\ WireFlow /\ ClientFlow /\ HonestFlow
  BY DEF ExecutionFlow
<1>1. /\ exec.pc = "push" /\ exec.queue = <<>> /\ UNCHANGED <<asm, terminal>>
      /\ exec' = [exec EXCEPT !.pc = "complete", !.status = FinalStatus]
  BY DEF FinishReport
<1>2. /\ terminal = Null /\ exec.requested \in Statuses
  BY <1>0, <1>1 DEF AtomicFlow, PushFlow, Answered, Begun
<1>3. /\ FinalStatus \in Statuses
      /\ FinalStatus \in {"Success", "Rejected"} => Untouched /\ FinalStatus = exec.requested
  BY <1>2 DEF FinalStatus, Statuses, Untouched
<1>4. /\ exec' \in Executions /\ exec'.pc = "complete" /\ exec'.status = FinalStatus
      /\ exec'.outcome = exec.outcome /\ exec'.requested = exec.requested
      /\ exec'.queue = exec.queue
  BY <1>0, <1>1, <1>3 DEF ExecutionTypes, Executions
<1>5. ExecutionTypes'
  BY <1>0, <1>1, <1>4 DEF ExecutionTypes, lateVars
<1>6. LateFlow'
  BY <1>0, LateKept
<1>7. AtomicFlow'
  BY <1>0, <1>1, <1>4 DEF AtomicFlow, Answered, lateVars
<1>8. WireFlow' /\ ClientFlow' /\ HonestFlow'
  BY <1>0, <1>1, LineIsQuiet DEF Answered, ExecutionTypes
<1>9. TallyFlow'
  BY <1>0, <1>1, TallyKept
<1>10. \A o : QueueOf(o)' = QueueOf(o) /\ RequestedOf(o)' = RequestedOf(o)
  BY OutcomeKept
<1>11. Untouched' <=> Untouched
  BY <1>1 DEF Untouched
<1>12. PushFlow'
  BY <1>0, <1>1, <1>2, <1>3, <1>4, <1>10, <1>11 DEF PushFlow, Begun, Answered
<1> QED
  BY <1>5, <1>6, <1>7, <1>8, <1>9, <1>12 DEF ExecutionFlow

\* A terminal has its type, and is no Null.
LEMMA TerminalTypes ==
    ASSUME ExecutionTypes, NEW s \in Statuses
    PROVE  TerminalOf(s) \in Terminals /\ TerminalOf(s) # Null /\ TerminalOf(s).status = s
<1>1. /\ asm.report \in Seq(Events) /\ asm.event_bytes \in Nat /\ asm.diagnostics \in Nat
      /\ Len(asm.report) \in Nat
  BY ExecutionFields
<1>2. TerminalOf(s) \in Terminals
  BY <1>1 DEF TerminalOf, Terminals
<1> QED
  BY <1>2, ExecutionAssumption DEF TerminalOf

\* complete meets request_cancel in the shared state.
LEMMA CompleteKeeps ==
    ASSUME ExecutionFlow, CompleteExchange \/ CompleteStore,
           UNCHANGED <<policy, host, asm, sent, lateVars, wire, faults, disturbed, client>>
    PROVE  ExecutionFlow'
<1>0. /\ ExecutionTypes /\ LateFlow /\ AtomicFlow /\ PushFlow
      /\ TallyFlow /\ WireFlow /\ ClientFlow /\ HonestFlow
  BY DEF ExecutionFlow
<1>1. exec.pc \in {"complete", "store"} /\ exec.status \in Statuses /\ exec.requested \in Statuses
      /\ terminal = Null
  BY <1>0 DEF CompleteExchange, CompleteStore, PushFlow, AtomicFlow, Answered, Begun
<1>2. /\ TerminalOf(exec.status) \in Terminals /\ TerminalOf(exec.status) # Null
      /\ TerminalOf("Cancelled") \in Terminals /\ TerminalOf("Cancelled") # Null
      /\ TerminalOf("Cancelled").status = "Cancelled"
  BY <1>0, <1>1, TerminalTypes DEF Statuses
<1>3. exec' \in Executions /\ exec'.outcome = exec.outcome /\ exec'.requested = exec.requested
      /\ exec'.queue = exec.queue
  BY <1>0 DEF CompleteExchange, CompleteStore, ExecutionTypes, Executions, Statuses
<1>4. \/ /\ completion = "RUNNING" /\ completion' = "COMPLETED" /\ exec'.pc = "stream"
         /\ exec'.status = exec.status /\ terminal' = TerminalOf(exec.status)
      \/ /\ completion = "CANCEL_REQUESTED" /\ exec'.pc = "store" /\ exec'.status = exec.status
         /\ UNCHANGED <<completion, terminal>>
      \/ /\ completion = "CANCEL_REQUESTED" /\ completion' = "COMPLETED_CANCELLED"
         /\ exec'.pc = "stream" /\ exec'.status = "Cancelled"
         /\ terminal' = TerminalOf("Cancelled")
  BY <1>0 DEF CompleteExchange, CompleteStore, ExecutionTypes, Executions, AtomicFlow
<1>5. ExecutionTypes'
  BY <1>0, <1>2, <1>3, <1>4 DEF ExecutionTypes, lateVars
<1>6. LateFlow'
  BY <1>0, LateKept
<1>7. AtomicFlow'
  <2>1. CASE /\ completion = "RUNNING" /\ completion' = "COMPLETED" /\ exec'.pc = "stream"
             /\ terminal' = TerminalOf(exec.status)
    BY <1>0, <1>2, <2>1, ExecutionAssumption DEF AtomicFlow, Answered, lateVars
  <2>2. CASE /\ completion = "CANCEL_REQUESTED" /\ exec'.pc = "store"
             /\ UNCHANGED <<completion, terminal>>
    BY <1>0, <1>1, <2>2 DEF AtomicFlow, Answered, lateVars
  <2>3. CASE /\ completion = "CANCEL_REQUESTED" /\ completion' = "COMPLETED_CANCELLED"
             /\ exec'.pc = "stream" /\ terminal' = TerminalOf("Cancelled")
    BY <1>0, <1>2, <2>3 DEF AtomicFlow, Answered, lateVars
  <2> QED
    BY <1>4, <2>1, <2>2, <2>3
<1>8. WireFlow' /\ ClientFlow' /\ HonestFlow'
  BY <1>0, <1>1, LineIsQuiet DEF Answered, ExecutionTypes
<1>9. TallyFlow'
  BY <1>0, TallyKept
<1>10. \A o : QueueOf(o)' = QueueOf(o) /\ RequestedOf(o)' = RequestedOf(o)
  BY OutcomeKept
<1>11. (Untouched' <=> Untouched) /\ \A s : TerminalOf(s)' = TerminalOf(s)
  BY DEF Untouched, TerminalOf
<1>12. PushFlow'
  <2>1. exec.pc \notin Begun /\ exec'.pc \notin Begun /\ exec'.pc \notin {"begin", "check"}
        /\ exec'.status \in Statuses
    BY <1>1, <1>4 DEF Begun, Statuses
  <2>2. exec'.status \in {"Success", "Rejected"} =>
           exec.queue = <<>> /\ Untouched /\ exec'.status = exec.requested
    BY <1>0, <1>1, <1>4 DEF PushFlow
  <2>3. terminal' # Null => terminal' = TerminalOf(exec'.status)
    BY <1>1, <1>4
  <2> QED
    BY <1>0, <1>1, <1>3, <1>10, <1>11, <2>1, <2>2, <2>3 DEF PushFlow
<1> QED
  BY <1>5, <1>6, <1>7, <1>8, <1>9, <1>12 DEF ExecutionFlow

-----------------------------------------------------------------------------
(* The host and the control thread *)

LEMMA HostCancelsKeeps ==
    ASSUME ExecutionFlow, HostCancels PROVE ExecutionFlow'
<1>1. /\ UNCHANGED <<policy, completion, execVars, sent, lateVars, wire, faults, disturbed, client>>
      /\ host' = TRUE
  BY DEF HostCancels
<1>2. ExecutionTypes'
  BY <1>1 DEF ExecutionFlow, ExecutionTypes, execVars, lateVars
<1> QED
  BY <1>1, <1>2, LateKept, AtomicKept, PushKept, TallyKept, WireKept, ClientKept, HonestKept
     DEF ExecutionFlow, execVars, lateVars

LEMMA LateKeeps ==
    ASSUME ExecutionFlow, NEW f \in LateFrames, LateDeliver(f) \/ LatePolled(f)
    PROVE  ExecutionFlow'
<1>0. LateFlow /\ late.frames \in Nat
  BY DEF ExecutionFlow, LateFlow
<1>1. UNCHANGED <<policy, host, completion, execVars, sent, disposition, wire, faults, disturbed,
                  client>>
  BY DEF LateDeliver, LatePolled
<1>2. ExecutionTypes'
  BY <1>1 DEF ExecutionFlow, ExecutionTypes, execVars
<1>3. \E l : /\ late' = Counted(l, f)
             /\ \/ l = late /\ late.state # "Open"
                \/ /\ late.state = "Open"
                   /\ \/ l = [late EXCEPT !.state = "Poisoned"]
                      \/ l = [late EXCEPT !.state = "Accepted"] /\ f = LateFrame
  BY DEF LateDeliver, LatePolled, LateAccepted
<1>4. PICK l : /\ late' = Counted(l, f)
               /\ \/ l = late /\ late.state # "Open"
                  \/ /\ late.state = "Open"
                     /\ \/ l = [late EXCEPT !.state = "Poisoned"]
                        \/ l = [late EXCEPT !.state = "Accepted"] /\ f = LateFrame
  BY <1>3
<1> DEFINE L == [state : {"Open", "Accepted", "Poisoned"}, first : LateFrames \cup {Null}, frames : Nat]
<1>5. /\ l \in L /\ l.first = late.first /\ l.frames = late.frames
      /\ \/ l.state = late.state /\ late.state # "Open"
         \/ late.state = "Open" /\ l.state = "Poisoned"
         \/ late.state = "Open" /\ l.state = "Accepted" /\ f = LateFrame
  BY <1>0, <1>4 DEF LateFlow
<1>6. /\ late' \in L /\ late'.state = l.state /\ late'.frames = l.frames + 1
      /\ late'.first = IF l.frames = 0 THEN f ELSE l.first
  <2> DEFINE first == IF l.frames = 0 THEN f ELSE l.first
  <2>1. /\ l \in L /\ l.frames + 1 \in Nat /\ first \in LateFrames \cup {Null}
        /\ late' = [l EXCEPT !.frames = l.frames + 1, !.first = first]
    BY <1>4, <1>5 DEF Counted
  <2>2. late'.first = first
    <3> HIDE DEF first
    <3> QED
      BY <2>1
  <2> HIDE DEF first
  <2>3. late' \in L /\ late'.state = l.state /\ late'.frames = l.frames + 1
    BY <2>1
  <2> QED
    BY <2>2, <2>3 DEF first
<1>7. LateFlow'
  <2>0. late' \in L
    BY <1>6
  <2> HIDE DEF L
  <2>1. late'.state # "Open" /\ late'.frames # 0
    BY <1>0, <1>5, <1>6
  <2>2. late'.state = "Accepted" => late'.first = LateFrame
    <3>1. CASE late.state = "Open"
      BY <1>0, <1>5, <1>6, <3>1 DEF LateFlow
    <3>2. CASE late.state # "Open"
      BY <1>0, <1>5, <1>6, <3>2 DEF LateFlow
    <3> QED
      BY <3>1, <3>2
  <2>3. disposition' # Null => late'.state = "Accepted"
    BY <1>0, <1>1, <1>5, <1>6 DEF LateFlow
  <2> QED
    BY <2>0, <2>1, <2>2, <2>3 DEF LateFlow, L
<1> QED
  BY <1>1, <1>2, <1>7, AtomicKept, PushKept, TallyKept, WireKept, ClientKept, HonestKept
     DEF ExecutionFlow, execVars

LEMMA RequestCancelKeeps ==
    ASSUME ExecutionFlow, RequestCancel PROVE ExecutionFlow'
<1>0. ExecutionTypes /\ AtomicFlow /\ LateFlow
  BY DEF ExecutionFlow
<1>1. UNCHANGED <<policy, host, execVars, sent, late, wire, faults, disturbed, client>>
  BY DEF RequestCancel
<1>2. /\ late.state = "Accepted" /\ disposition = Null
      /\ \/ /\ completion \in {"RUNNING", "CANCEL_REQUESTED"}
            /\ completion' = "CANCEL_REQUESTED" /\ disposition' = "Requested"
         \/ /\ completion \in {"COMPLETED", "COMPLETED_CANCELLED"}
            /\ completion' = completion /\ disposition' = "ExecutionCompleted"
  BY <1>0 DEF RequestCancel, ExecutionTypes
<1>3. ExecutionTypes'
  BY <1>0, <1>1, <1>2 DEF ExecutionTypes, execVars
<1>4. LateFlow'
  BY <1>0, <1>1, <1>2 DEF LateFlow
<1>5. AtomicFlow'
  BY <1>0, <1>1, <1>2, ExecutionAssumption DEF AtomicFlow, execVars
<1> QED
  BY <1>1, <1>3, <1>4, <1>5, PushKept, TallyKept, WireKept, ClientKept, HonestKept
     DEF ExecutionFlow, execVars

-----------------------------------------------------------------------------
(* The response, its transport and the client *)

LEMMA SeqMonotone ==
    ASSUME NEW S, NEW T, S \subseteq T, NEW s \in Seq(S) PROVE s \in Seq(T)
  OBVIOUS

LEMMA SendKeeps ==
    ASSUME ExecutionFlow, SendFrame PROVE ExecutionFlow'
<1>0. /\ ExecutionTypes /\ LateFlow /\ AtomicFlow /\ PushFlow
      /\ TallyFlow /\ WireFlow /\ ClientFlow /\ HonestFlow
  BY DEF ExecutionFlow
<1>1. /\ UNCHANGED <<policy, host, completion, execVars, lateVars, faults, disturbed, client>>
      /\ exec.pc = "stream" /\ sent < Len(ResponseMessages) /\ sent' = sent + 1
      /\ wire' = Append(wire, FrameAt(sent))
  BY DEF SendFrame, FrameAt
<1>2. Len(ResponseMessages) = Len(asm.events) + 4 /\ Len(asm.events) \in Nat /\ sent \in Nat
      /\ client.seq \in Nat
  BY <1>0, ResponseShape, ExecutionFields DEF ExecutionTypes
<1>3. ExecutionTypes'
  BY <1>0, <1>1, <1>2 DEF ExecutionTypes, execVars, lateVars
<1>4. LateFlow' /\ AtomicFlow' /\ PushFlow' /\ TallyFlow'
  BY <1>0, <1>1, LateKept, AtomicKept, PushKept, TallyKept DEF execVars, lateVars
<1>5. /\ \A k : FrameAt(k)' = FrameAt(k)
      /\ \A n : Frames(n)' = Frames(n)
  BY <1>1, FramesKept DEF execVars
<1>6. wire \in Seq(Frames(sent)) /\ Len(wire) \in Nat
  BY <1>0 DEF WireFlow
<1>7. WireFlow'
  <2>1. Frames(sent) \subseteq Frames(sent + 1) /\ FrameAt(sent) \in Frames(sent + 1)
    BY <1>2 DEF Frames
  <2>2. wire \in Seq(Frames(sent + 1))
    BY <1>6, <2>1, SeqMonotone
  <2>3. wire' \in Seq(Frames(sent + 1))
    BY <1>1, <2>1, <2>2
  <2>4. sent + 1 <= Len(asm.events) + 4
    BY <1>1, <1>2
  <2> QED
    BY <1>1, <1>5, <2>3, <2>4 DEF WireFlow, Answered, execVars
<1>8. ClientFlow'
  <2>1. ASSUME client.phase # "Poisoned" PROVE client.seq <= sent + 1
    BY <1>0, <1>2, <2>1 DEF ClientFlow
  <2>2. ASSUME client.phase # "Poisoned" PROVE Follows(client, client.seq)'
    <3>1. Follows(client, client.seq)
      BY <1>0, <2>2 DEF ClientFlow
    <3> QED
      BY <1>1, <3>1 DEF Follows, PhaseAfter, EventsAfter, Rejecting, execVars
  <2> QED
    BY <1>0, <1>1, <2>1, <2>2 DEF ClientFlow
<1>9. HonestFlow'
  <2> SUFFICES ASSUME ~disturbed
               PROVE  /\ client.phase # "Poisoned"
                      /\ client.seq + Len(wire') = sent + 1
                      /\ \A i \in DOMAIN wire' : wire'[i] = FrameAt(client.seq + i - 1)
    BY <1>1, <1>5 DEF HonestFlow
  <2>1. /\ client.phase # "Poisoned" /\ client.seq + Len(wire) = sent
        /\ \A i \in 1 .. Len(wire) : wire[i] = FrameAt(client.seq + i - 1)
    BY <1>0, <1>6 DEF HonestFlow
  <2> DEFINE m == Len(wire)
  <2>2. /\ Len(wire') = m + 1 /\ DOMAIN wire' = 1 .. (m + 1) /\ wire'[m + 1] = FrameAt(sent)
        /\ \A i \in 1 .. m : wire'[i] = wire[i]
    BY <1>1, <1>6
  <2>3. client.seq + m = sent /\ m \in Nat /\ \A i \in 1 .. m : wire[i] = FrameAt(client.seq + i - 1)
    BY <1>6, <2>1
  <2> HIDE DEF m
  <2>4. client.seq + (m + 1) = sent + 1 /\ client.seq + (m + 1) - 1 = sent
    <3> DEFINE q == client.seq
    <3>1. q \in Nat /\ m \in Nat /\ sent = q + m
      BY <1>2, <2>3
    <3> HIDE DEF q
    <3>2. q + (m + 1) = (q + m) + 1 /\ q + (m + 1) - 1 = q + m
      BY <3>1
    <3> QED
      BY <3>1, <3>2 DEF q
  <2>5. \A i \in 1 .. (m + 1) : wire'[i] = FrameAt(client.seq + i - 1)
    <3> SUFFICES ASSUME NEW i \in 1 .. (m + 1) PROVE wire'[i] = FrameAt(client.seq + i - 1)
      OBVIOUS
    <3>1. CASE i \in 1 .. m
      BY <2>2, <2>3, <3>1
    <3>2. CASE i = m + 1
      BY <2>2, <2>4, <3>2
    <3> QED
      BY <2>3, <3>1, <3>2
  <2> QED
    BY <2>1, <2>2, <2>4, <2>5
<1> QED
  BY <1>3, <1>4, <1>7, <1>8, <1>9 DEF ExecutionFlow

LEMMA CutKeeps ==
    ASSUME ExecutionFlow, ResponseCut PROVE ExecutionFlow'
<1>0. /\ ExecutionTypes /\ LateFlow /\ AtomicFlow /\ PushFlow
      /\ TallyFlow /\ WireFlow /\ ClientFlow /\ HonestFlow
  BY DEF ExecutionFlow
<1>1. /\ UNCHANGED <<policy, host, completion, asm, terminal, sent, lateVars, wire, faults, client>>
      /\ exec.pc = "stream" /\ exec' = [exec EXCEPT !.pc = "cut"] /\ disturbed' = TRUE
  BY DEF ResponseCut
<1>2. /\ exec' \in Executions /\ exec'.pc = "cut" /\ exec'.outcome = exec.outcome
      /\ exec'.requested = exec.requested /\ exec'.queue = exec.queue
      /\ exec'.status = exec.status
  BY <1>0, <1>1 DEF ExecutionTypes, Executions
<1>3. ExecutionTypes'
  BY <1>0, <1>1, <1>2 DEF ExecutionTypes, lateVars
<1>4. LateFlow' /\ TallyFlow' /\ ClientFlow'
  BY <1>0, <1>1, LateKept, TallyKept, ClientKept
<1>5. AtomicFlow'
  BY <1>0, <1>1, <1>2 DEF AtomicFlow, Answered, lateVars
<1>6. PushFlow'
  <2>1. \A o : QueueOf(o)' = QueueOf(o) /\ RequestedOf(o)' = RequestedOf(o)
    BY <1>1, OutcomeKept
  <2>2. (Untouched' <=> Untouched) /\ \A s : TerminalOf(s)' = TerminalOf(s)
    BY <1>1 DEF Untouched, TerminalOf
  <2> QED
    BY <1>0, <1>1, <1>2, <2>1, <2>2 DEF PushFlow, Begun, Answered
<1>7. WireFlow'
  BY <1>0, <1>1, <1>2, FramesKept DEF WireFlow, Answered
<1>8. HonestFlow'
  BY <1>1 DEF HonestFlow
<1> QED
  BY <1>3, <1>4, <1>5, <1>6, <1>7, <1>8 DEF ExecutionFlow

\* The transport loses, repeats and exchanges frames, and makes none up.
LEMMA FaultKeeps ==
    ASSUME ExecutionFlow, TransportFault PROVE ExecutionFlow'
<1>0. /\ ExecutionTypes /\ LateFlow /\ AtomicFlow /\ PushFlow
      /\ TallyFlow /\ WireFlow /\ ClientFlow /\ HonestFlow
  BY DEF ExecutionFlow
<1>1. /\ UNCHANGED <<policy, host, completion, execVars, sent, lateVars, client>>
      /\ wire # <<>> /\ disturbed' = TRUE
      /\ \/ wire' = Tail(wire)
         \/ wire' = <<Head(wire)>> \o wire
         \/ Len(wire) >= 2 /\ wire' = <<wire[2], wire[1]>> \o SubSeq(wire, 3, Len(wire))
  BY DEF TransportFault
<1>2. ExecutionTypes'
  BY <1>0, <1>1 DEF ExecutionTypes, execVars, lateVars
<1>3. LateFlow' /\ AtomicFlow' /\ PushFlow' /\ TallyFlow' /\ ClientFlow'
  BY <1>0, <1>1, LateKept, AtomicKept, PushKept, TallyKept, ClientKept DEF execVars, lateVars
<1>4. wire' \in Seq(Frames(sent))
  <2> DEFINE F == Frames(sent)
  <2>1. wire \in Seq(F) /\ wire # <<>>
    BY <1>0, <1>1 DEF WireFlow
  <2> HIDE DEF F
  <2>2. Tail(wire) \in Seq(F) /\ <<Head(wire)>> \in Seq(F)
    BY <2>1
  <2>3. <<Head(wire)>> \o wire \in Seq(F)
    BY <2>1, <2>2
  <2>4. ASSUME Len(wire) >= 2
        PROVE  <<wire[2], wire[1]>> \o SubSeq(wire, 3, Len(wire)) \in Seq(F)
    <3>1. wire[1] \in F /\ wire[2] \in F
      BY <2>1, <2>4
    <3>2. <<wire[2], wire[1]>> \in Seq(F)
      BY <3>1
    <3>3. SubSeq(wire, 3, Len(wire)) \in Seq(F)
      BY <2>1, <2>4
    <3> QED
      BY <3>2, <3>3
  <2> QED
    BY <1>1, <2>2, <2>3, <2>4 DEF F
<1>5. exec.pc \in Answered
  BY <1>0, <1>1 DEF WireFlow
<1>6. WireFlow'
  BY <1>0, <1>1, <1>4, <1>5, FramesKept DEF WireFlow, execVars
<1>7. HonestFlow'
  BY <1>1 DEF HonestFlow
<1> QED
  BY <1>2, <1>3, <1>6, <1>7 DEF ExecutionFlow

\* The arms of CheckResponseStream::accept_frame.
LEMMA ReceivedArms ==
    ASSUME NEW c, NEW m
    PROVE  /\ c.phase = "ServerHello" /\ m.kind = "ServerHello" =>
                 Received(c, m) = [c EXCEPT !.phase = "Events"]
           /\ c.phase = "Events" /\ m.kind = "Event" /\ WithinPolicy(Tallied(c, m.event)) =>
                 Received(c, m) = Tallied(c, m.event)
           /\ c.phase = "Events" /\ m.kind = "OutputHeader" =>
                 Received(c, m) = [c EXCEPT !.phase = "Output"]
           /\ c.phase = "Output" /\ m.kind = "OutputFinish" =>
                 Received(c, m) = [c EXCEPT !.phase = "Terminal"]
           /\ c.phase = "Terminal" /\ m.kind = "Terminal" /\ ValidTerminal(c, m.terminal) =>
                 Received(c, m) = [c EXCEPT !.phase = "Complete", !.terminal = m.terminal]
<1>1. c.phase = "ServerHello" /\ m.kind = "ServerHello" =>
         Received(c, m) = [c EXCEPT !.phase = "Events"]
  BY DEF Received
<1>2. c.phase = "Events" /\ m.kind = "Event" /\ WithinPolicy(Tallied(c, m.event)) =>
         Received(c, m) = Tallied(c, m.event)
  BY DEF Received
<1>3. c.phase = "Events" /\ m.kind = "OutputHeader" =>
         Received(c, m) = [c EXCEPT !.phase = "Output"]
  BY DEF Received
<1>4. c.phase = "Output" /\ m.kind = "OutputFinish" =>
         Received(c, m) = [c EXCEPT !.phase = "Terminal"]
  BY DEF Received
<1>5. c.phase = "Terminal" /\ m.kind = "Terminal" /\ ValidTerminal(c, m.terminal) =>
         Received(c, m) = [c EXCEPT !.phase = "Complete", !.terminal = m.terminal]
  BY DEF Received
<1> QED
  BY <1>1, <1>2, <1>3, <1>4, <1>5

\* A frame that only moves the phase on.
LEMMA PhaseMoves ==
    ASSUME ExecutionTypes, NEW p \in Phases, NEW c, c = [client EXCEPT !.phase = p],
           NEW s, Follows(client, client.seq), p # "Complete",
           p = PhaseAfter(s), Len(client.events) = EventsAfter(s)
    PROVE  c \in Clients /\ c.seq = client.seq /\ Follows(c, s) /\ c.events = client.events
           /\ c.event_bytes = client.event_bytes /\ c.diagnostics = client.diagnostics
<1>1. /\ c \in Clients /\ c.seq = client.seq /\ c.phase = p /\ c.events = client.events
      /\ c.event_bytes = client.event_bytes /\ c.diagnostics = client.diagnostics
      /\ c.rejecting = client.rejecting
  BY DEF ExecutionTypes, Clients
<1> QED
  BY <1>1 DEF Follows

\* The terminal of a response is the one the client has counted for.
LEMMA TerminalIsValid ==
    ASSUME ExecutionTypes, PushFlow, terminal # Null, exec.pc \in Answered,
           NEW bytes, NEW diags, Totals(bytes, diags), Counts(client, bytes, diags),
           Follows(client, client.seq), Len(client.events) = Len(asm.events)
    PROVE  ValidTerminal(client, terminal)
<1>0. /\ asm.events \in Seq(Events) /\ client.events \in Seq(Events)
      /\ Len(asm.events) \in Nat /\ policy \in Policies
      /\ DOMAIN asm.events = 1 .. Len(asm.events) /\ DOMAIN client.events = 1 .. Len(asm.events)
  BY ExecutionFields DEF ExecutionTypes
<1>1. /\ terminal = TerminalOf(exec.status) /\ asm.report = asm.events
      /\ exec.status \in Statuses
  BY DEF PushFlow, Answered
<1>2. /\ terminal.status = exec.status /\ terminal.diagnostics = asm.diagnostics
      /\ terminal.report = asm.events /\ terminal.events = Len(asm.events)
      /\ terminal.event_bytes = asm.event_bytes
  BY <1>1 DEF TerminalOf
<1>3. client.events = asm.events
  BY <1>0 DEF Follows
<1>4. client.event_bytes = asm.event_bytes /\ client.diagnostics = asm.diagnostics
  BY DEF Totals, Counts
<1>5. ASSUME exec.status \in {"Success", "Rejected"}
      PROVE  /\ exec.status = "Success" => client.rejecting = 0
             /\ exec.status = "Rejected" => client.rejecting # 0
  <2> DEFINE q == QueueOf(exec.outcome)
  <2>1. /\ exec.queue = <<>> /\ Untouched /\ exec.status = exec.requested
        /\ exec.outcome \in Outcomes /\ exec.requested = RequestedOf(exec.outcome)
        /\ Splits(asm.events, exec.queue, q)
    BY <1>5 DEF PushFlow, Answered, Begun
  <2>2. q \in Seq(Events)
    BY <1>0, <2>1, QueueShape
  <2>3. /\ exec.status = "Success" => \A i \in DOMAIN q : ~Rejecting(q[i])
        /\ exec.status = "Rejected" => \E i \in DOMAIN q : Rejecting(q[i])
    BY <1>0, <2>1, QueueShape
  <2> HIDE DEF q
  <2>4. Len(q) = Len(asm.events)
    BY <1>0, <2>1 DEF Splits
  <2>5. DOMAIN q = DOMAIN asm.events
    BY <1>0, <2>2, <2>4
  <2>6. \A i \in DOMAIN q : client.events[i] = q[i]
    BY <1>3, <2>1, <2>5 DEF Splits
  <2>7. client.rejecting = 0 <=> \A i \in DOMAIN q : ~Rejecting(client.events[i])
    BY <1>3, <2>5 DEF Follows
  <2> QED
    BY <2>3, <2>6, <2>7
<1> QED
  BY <1>2, <1>3, <1>4, <1>5 DEF ValidTerminal

\* One more event of the response: the client's counters meet the totals, which
\* are within the policy.
LEMMA EventIsTaken ==
    ASSUME ExecutionTypes, NEW bytes, NEW diags, Totals(bytes, diags),
           Counts(client, bytes, diags), Follows(client, client.seq),
           client.seq \in 1 .. Len(asm.events),
           NEW e, e = asm.events[client.seq], NEW c, c = Tallied(client, e)
    PROVE  /\ WithinPolicy(c) /\ c \in Clients /\ c.seq = client.seq
           /\ Follows(c, client.seq + 1) /\ Counts(c, bytes, diags)
<1> DEFINE k == client.seq
           n == Len(asm.events)
           one == IF IsDiagnostic(e) THEN 1 ELSE 0
<1>0. /\ n \in Nat /\ k \in 1 .. n /\ k \in Nat /\ asm.events \in Seq(Events) /\ e \in Events
      /\ client.events \in Seq(Events) /\ client.event_bytes \in Nat /\ client.diagnostics \in Nat
      /\ client.rejecting \in Nat /\ EventBytes(e) \in Nat
      /\ policy.events \in Nat /\ policy.event_bytes \in Nat /\ policy.diagnostics \in Nat
  BY ExecutionFields DEF EventBytes
<1>1. /\ client.phase = "Events" /\ Len(client.events) = k - 1
      /\ PhaseAfter(k + 1) = "Events" /\ EventsAfter(k + 1) = k
  <2>1. PhaseAfter(k) = "Events" /\ EventsAfter(k) = k - 1
    BY <1>0 DEF PhaseAfter, EventsAfter
  <2>2. PhaseAfter(k + 1) = "Events" /\ EventsAfter(k + 1) = k
    BY <1>0 DEF PhaseAfter, EventsAfter
  <2> QED
    BY <2>1, <2>2 DEF Follows
<1> HIDE DEF IsDiagnostic, EventBytes, Rejecting
<1> DEFINE diagnostics == IF IsDiagnostic(e) THEN client.diagnostics + 1 ELSE client.diagnostics
           rejecting == IF Rejecting(e) THEN client.rejecting + 1 ELSE client.rejecting
<1>2. /\ Append(client.events, e) \in Seq(Events) /\ client.event_bytes + EventBytes(e) \in Nat
      /\ diagnostics \in Nat /\ rejecting \in Nat
  BY <1>0
<1>3. c = [client EXCEPT !.events = Append(client.events, e),
                         !.event_bytes = client.event_bytes + EventBytes(e),
                         !.diagnostics = diagnostics, !.rejecting = rejecting]
  BY DEF Tallied
<1>4. diagnostics = client.diagnostics + one /\ (rejecting = 0 <=> client.rejecting = 0 /\ ~Rejecting(e))
  BY <1>0
<1> HIDE DEF diagnostics, rejecting
<1>5. /\ c \in Clients /\ c.seq = client.seq /\ c.phase = client.phase
      /\ c.events = Append(client.events, e) /\ c.event_bytes = client.event_bytes + EventBytes(e)
      /\ c.diagnostics = diagnostics /\ c.rejecting = rejecting /\ c.terminal = client.terminal
  BY <1>2, <1>3 DEF ExecutionTypes, Clients
<1>6. /\ Len(c.events) = k /\ DOMAIN c.events = 1 .. k /\ c.events[k] = e
      /\ \A i \in 1 .. (k - 1) : c.events[i] = client.events[i]
      /\ DOMAIN client.events = 1 .. (k - 1)
  BY <1>0, <1>1, <1>5
<1>7. bytes[k] = bytes[k - 1] + EventBytes(e) /\ diags[k] = diags[k - 1] + one
      /\ bytes[k] <= policy.event_bytes /\ diags[k] <= policy.diagnostics /\ n <= policy.events
  <2>1. k \in 0 .. n
    BY <1>0
  <2> QED
    BY <1>0, <2>1 DEF Totals
<1>8. c.event_bytes = bytes[k] /\ c.diagnostics = diags[k]
  BY <1>1, <1>4, <1>5, <1>7 DEF Counts
<1>9. Counts(c, bytes, diags)
  BY <1>6, <1>8 DEF Counts
<1>10. WithinPolicy(c)
  <2>1. k <= policy.events
    BY <1>0, <1>7
  <2> QED
    BY <1>6, <1>7, <1>8, <2>1 DEF WithinPolicy
<1>11. Follows(c, k + 1)
  <2>0. 1 .. k = 1 .. (k - 1) \cup {k}
    BY <1>0
  <2>1. \A i \in DOMAIN c.events : c.events[i] = asm.events[i]
    <3>1. \A i \in 1 .. (k - 1) : client.events[i] = asm.events[i]
      BY <1>6 DEF Follows
    <3> QED
      BY <1>6, <2>0, <3>1
  <2>2. c.rejecting = 0 <=> \A i \in DOMAIN c.events : ~Rejecting(c.events[i])
    <3>1. client.rejecting = 0 <=> \A i \in 1 .. (k - 1) : ~Rejecting(client.events[i])
      BY <1>6 DEF Follows
    <3>2. (\A i \in 1 .. k : ~Rejecting(c.events[i])) <=>
          (\A i \in 1 .. (k - 1) : ~Rejecting(client.events[i])) /\ ~Rejecting(e)
      BY <1>6, <2>0
    <3> QED
      BY <1>4, <1>5, <1>6, <3>1, <3>2
  <2> QED
    BY <1>1, <1>5, <1>6, <2>1, <2>2 DEF Follows
<1> QED
  BY <1>5, <1>9, <1>10, <1>11

\* Every frame of the response is accepted by a client that expects its number:
\* the terminal of a sealed response is one the client has counted for.
LEMMA FrameIsTaken ==
    ASSUME ExecutionTypes, PushFlow, AtomicFlow, exec.pc \in Answered,
           NEW bytes, NEW diags, Totals(bytes, diags), Counts(client, bytes, diags),
           Follows(client, client.seq), client.seq < Len(asm.events) + 4,
           NEW c, c = Received(client, ResponseMessages[client.seq + 1])
    PROVE  /\ c \in Clients /\ c.seq = client.seq
           /\ Follows(c, client.seq + 1) /\ Counts(c, bytes, diags)
<1> DEFINE k == client.seq
           n == Len(asm.events)
           m == ResponseMessages[client.seq + 1]
<1>0. /\ n \in Nat /\ k \in Nat /\ terminal # Null /\ terminal \in Terminals
      /\ asm \in Assemblers
  BY ExecutionFields DEF ExecutionTypes, AtomicFlow
<1>1. client.phase = PhaseAfter(k) /\ Len(client.events) = EventsAfter(k)
  BY DEF Follows
<1>2. CASE k = 0
  <2>1. m.kind = "ServerHello"
    BY <1>0, <1>2, ResponseShape
  <2>2. /\ client.phase = "ServerHello" /\ Len(client.events) = 0
        /\ PhaseAfter(k + 1) = "Events" /\ EventsAfter(k + 1) = 0
    BY <1>0, <1>1, <1>2 DEF PhaseAfter, EventsAfter
  <2>3. c = [client EXCEPT !.phase = "Events"]
    BY <2>1, <2>2, ReceivedArms
  <2> QED
    BY <2>2, <2>3, PhaseMoves DEF Phases, Counts
<1>3. CASE k \in 1 .. n
  <2>1. m = [kind |-> "Event", event |-> asm.events[k]]
    BY <1>0, <1>3, ResponseShape
  <2>2. m.kind = "Event" /\ m.event = asm.events[k]
    BY <2>1
  <2>3. client.phase = "Events"
    BY <1>0, <1>1, <1>3 DEF PhaseAfter
  <2> DEFINE d == Tallied(client, m.event)
  <2>4. /\ WithinPolicy(d) /\ d \in Clients /\ d.seq = client.seq
        /\ Follows(d, client.seq + 1) /\ Counts(d, bytes, diags)
    BY <1>3, <2>2, EventIsTaken
  <2> HIDE DEF m
  <2>5. c = d
    BY <2>2, <2>3, <2>4, ReceivedArms DEF m
  <2> QED
    BY <2>4, <2>5
<1>4. CASE k = n + 1
  <2>1. m.kind = "OutputHeader"
    BY <1>0, <1>4, ResponseShape
  <2>2. /\ client.phase = "Events" /\ Len(client.events) = n
        /\ PhaseAfter(k + 1) = "Output" /\ EventsAfter(k + 1) = n
    BY <1>0, <1>1, <1>4 DEF PhaseAfter, EventsAfter
  <2>3. c = [client EXCEPT !.phase = "Output"]
    BY <2>1, <2>2, ReceivedArms
  <2> QED
    BY <2>2, <2>3, PhaseMoves DEF Phases, Counts
<1>5. CASE k = n + 2
  <2>1. m.kind = "OutputFinish"
    BY <1>0, <1>5, ResponseShape
  <2>2. /\ client.phase = "Output" /\ Len(client.events) = n
        /\ PhaseAfter(k + 1) = "Terminal" /\ EventsAfter(k + 1) = n
    BY <1>0, <1>1, <1>5 DEF PhaseAfter, EventsAfter
  <2>3. c = [client EXCEPT !.phase = "Terminal"]
    BY <2>1, <2>2, ReceivedArms
  <2> QED
    BY <2>2, <2>3, PhaseMoves DEF Phases, Counts
<1>6. CASE k = n + 3
  <2>1. m = [kind |-> "Terminal", terminal |-> terminal]
    BY <1>0, <1>6, ResponseShape
  <2>2. m.kind = "Terminal" /\ m.terminal = terminal
    BY <2>1
  <2>3. /\ client.phase = "Terminal" /\ Len(client.events) = n
        /\ PhaseAfter(k + 1) = "Complete" /\ EventsAfter(k + 1) = n
    BY <1>0, <1>1, <1>6 DEF PhaseAfter, EventsAfter
  <2>4. ValidTerminal(client, terminal)
    BY <1>0, <2>3, TerminalIsValid
  <2>5. c = [client EXCEPT !.phase = "Complete", !.terminal = terminal]
    <3>1. c = Received(client, m)
      OBVIOUS
    <3> HIDE DEF m
    <3>2. c = [client EXCEPT !.phase = "Complete", !.terminal = m.terminal]
      BY <2>2, <2>3, <2>4, <3>1, ReceivedArms
    <3> QED
      BY <2>2, <3>2
  <2>6. /\ c \in Clients /\ c.seq = client.seq /\ c.phase = "Complete" /\ c.terminal = terminal
        /\ c.events = client.events /\ c.event_bytes = client.event_bytes
        /\ c.diagnostics = client.diagnostics /\ c.rejecting = client.rejecting
    BY <1>0, <2>5 DEF ExecutionTypes, Clients, Phases
  <2> QED
    BY <2>3, <2>6 DEF Follows, Counts
<1> QED
  BY <1>0, <1>2, <1>3, <1>4, <1>5, <1>6

LEMMA ReceiveKeeps ==
    ASSUME ExecutionFlow, ClientReceive PROVE ExecutionFlow'
<1>0. /\ ExecutionTypes /\ LateFlow /\ AtomicFlow /\ PushFlow
      /\ TallyFlow /\ WireFlow /\ ClientFlow /\ HonestFlow
  BY DEF ExecutionFlow
<1> DEFINE f == Head(wire)
           c == Received(client, f.msg)
<1>1. /\ UNCHANGED <<policy, host, completion, execVars, sent, lateVars, faults, disturbed>>
      /\ wire # <<>> /\ client.phase # "Poisoned" /\ wire' = Tail(wire)
      /\ client' = IF f.seq # client.seq \/ c = Null
                   THEN [client EXCEPT !.phase = "Poisoned"]
                   ELSE [c EXCEPT !.seq = client.seq + 1]
  BY DEF ClientReceive
<1>2. /\ wire \in Seq(Frames(sent)) /\ sent \in Nat /\ client.seq \in Nat /\ Len(wire) \in Nat \ {0}
      /\ wire' \in Seq(Frames(sent)) /\ Len(wire') = Len(wire) - 1 /\ f = wire[1]
      /\ \A i \in 1 .. Len(wire') : wire'[i] = wire[i + 1]
      /\ DOMAIN wire = 1 .. Len(wire) /\ DOMAIN wire' = 1 .. Len(wire')
  <2>1. wire \in Seq(Frames(sent)) /\ sent \in Nat /\ client.seq \in Nat
    BY <1>0, ExecutionFields DEF WireFlow
  <2> QED
    BY <1>1, <2>1
<1>3. exec.pc \in Answered /\ sent <= Len(asm.events) + 4 /\ Len(asm.events) \in Nat
  BY <1>0, <1>1, ExecutionFields DEF WireFlow
<1>4. PICK k \in 0 .. (sent - 1) : f = FrameAt(k)
  BY <1>2 DEF Frames
<1>5. f.seq = k /\ f.msg = ResponseMessages[k + 1]
  BY <1>4 DEF FrameAt
<1> HIDE DEF f
<1>6. LateFlow' /\ AtomicFlow' /\ PushFlow'
  BY <1>0, <1>1, LateKept, AtomicKept, PushKept DEF execVars, lateVars
<1>7. (\A j : FrameAt(j)' = FrameAt(j)) /\ (\A j : Frames(j)' = Frames(j))
  BY <1>1, FramesKept DEF execVars
<1>8. WireFlow'
  BY <1>0, <1>1, <1>2, <1>3, <1>7 DEF WireFlow, execVars
<1>9. PICK bytes, diags : Totals(bytes, diags) /\ Counts(client, bytes, diags)
  BY <1>0, <1>1 DEF TallyFlow
<1>10. Totals(bytes, diags)'
  BY <1>1, <1>9 DEF Totals, execVars
<1>11. Follows(client, client.seq) /\ client.seq <= sent
  BY <1>0, <1>1 DEF ClientFlow
<1>12. CASE k = client.seq
  <2>1. client.seq < Len(asm.events) + 4 /\ client.seq + 1 <= sent
    BY <1>2, <1>3, <1>12
  <2>2. c = Received(client, ResponseMessages[client.seq + 1])
    BY <1>5, <1>12
  <2>3. /\ c \in Clients /\ c.seq = client.seq
        /\ Follows(c, client.seq + 1) /\ Counts(c, bytes, diags)
    BY <1>0, <1>3, <1>9, <1>11, <2>1, <2>2, FrameIsTaken
  <2>4. c # Null
    BY <2>3, ExecutionAssumption
  <2> HIDE DEF c
  <2>5. client' = [c EXCEPT !.seq = client.seq + 1]
    <3>1. client' = IF f.seq # client.seq \/ c = Null
                    THEN [client EXCEPT !.phase = "Poisoned"]
                    ELSE [c EXCEPT !.seq = client.seq + 1]
      BY <1>1 DEF c
    <3>2. f.seq = client.seq
      BY <1>5, <1>12
    <3> QED
      BY <2>4, <3>1, <3>2
  <2>6. /\ client' \in Clients /\ client'.seq = client.seq + 1 /\ client'.phase = c.phase
        /\ client'.events = c.events /\ client'.event_bytes = c.event_bytes
        /\ client'.diagnostics = c.diagnostics /\ client'.rejecting = c.rejecting
        /\ client'.terminal = c.terminal
    <3>1. c \in Clients /\ client.seq + 1 \in Nat
      BY <1>2, <2>3
    <3> QED
      BY <2>5, <3>1 DEF Clients
  <2>7. ExecutionTypes'
    BY <1>0, <1>1, <2>6 DEF ExecutionTypes, execVars, lateVars
  <2>8. TallyFlow'
    <3>1. Counts(client', bytes, diags)
      BY <2>3, <2>6 DEF Counts
    <3> QED
      BY <1>10, <3>1 DEF TallyFlow, Counts
  <2>9. ClientFlow'
    <3>1. Follows(client', client.seq + 1)
      BY <2>3, <2>6 DEF Follows
    <3>2. Follows(client, client.seq)'
      BY <1>1, <2>6, <3>1 DEF Follows, PhaseAfter, EventsAfter, Rejecting, execVars
    <3> QED
      BY <1>1, <2>1, <2>6, <3>2 DEF ClientFlow
  <2>10. HonestFlow'
    <3> SUFFICES ASSUME ~disturbed
                 PROVE  /\ client'.phase # "Poisoned"
                        /\ client'.seq + Len(wire') = sent
                        /\ \A i \in DOMAIN wire' : wire'[i] = FrameAt(client'.seq + i - 1)
      BY <1>1, <1>7 DEF HonestFlow
    <3>1. client'.phase # "Poisoned"
      <4>1. PhaseAfter(client.seq + 1) # "Poisoned"
        BY DEF PhaseAfter
      <4> QED
        BY <2>3, <2>6, <4>1 DEF Follows
    <3>2. /\ client.seq + Len(wire) = sent
          /\ \A i \in 1 .. Len(wire) : wire[i] = FrameAt(client.seq + i - 1)
      BY <1>0, <1>2 DEF HonestFlow
    <3> DEFINE q == client.seq
               l == Len(wire)
    <3>3. /\ q \in Nat /\ l \in Nat \ {0} /\ q + l = sent /\ client'.seq = q + 1 /\ Len(wire') = l - 1
          /\ DOMAIN wire' = 1 .. (l - 1)
      BY <1>2, <2>6, <3>2
    <3>4. \A i \in 1 .. (l - 1) : wire'[i] = wire[i + 1]
      BY <1>2
    <3>5. \A i \in 1 .. l : wire[i] = FrameAt(q + i - 1)
      BY <3>2
    <3> HIDE DEF q, l
    <3>6. (q + 1) + (l - 1) = q + l
      BY <3>3
    <3>7. ASSUME NEW i \in 1 .. (l - 1) PROVE wire'[i] = FrameAt((q + 1) + i - 1)
      <4>1. i + 1 \in 1 .. l /\ q + (i + 1) - 1 = (q + 1) + i - 1
        BY <3>3
      <4> QED
        BY <3>4, <3>5, <4>1
    <3> QED
      BY <3>1, <3>3, <3>6, <3>7
  <2> QED
    BY <1>6, <1>8, <2>7, <2>8, <2>9, <2>10 DEF ExecutionFlow
<1>13. CASE k # client.seq
  <2>1. client' = [client EXCEPT !.phase = "Poisoned"]
    BY <1>1, <1>5, <1>13
  <2>2. client' \in Clients /\ client'.phase = "Poisoned"
    BY <1>0, <2>1 DEF ExecutionTypes, Clients, Phases
  <2>3. ExecutionTypes'
    BY <1>0, <1>1, <2>2 DEF ExecutionTypes, execVars, lateVars
  <2>4. TallyFlow' /\ ClientFlow'
    BY <1>10, <2>2 DEF TallyFlow, ClientFlow
  <2>5. disturbed
    <3>1. SUFFICES ASSUME ~disturbed PROVE FALSE
      BY <1>0 DEF ExecutionTypes
    <3>2. f = FrameAt(client.seq + 1 - 1)
      BY <1>0, <1>2, <3>1 DEF HonestFlow
    <3>3. client.seq + 1 - 1 = client.seq
      BY <1>2
    <3>4. f.seq = client.seq
      BY <3>2, <3>3 DEF FrameAt
    <3> QED
      BY <1>5, <1>13, <3>4
  <2>6. HonestFlow'
    BY <1>1, <2>5 DEF HonestFlow
  <2> QED
    BY <1>6, <1>8, <2>3, <2>4, <2>6 DEF ExecutionFlow
<1> QED
  BY <1>12, <1>13

LEMMA ClientCancelledKeeps ==
    ASSUME ExecutionFlow, ClientCancelled PROVE ExecutionFlow'
<1>0. /\ ExecutionTypes /\ LateFlow /\ AtomicFlow /\ PushFlow
      /\ TallyFlow /\ WireFlow /\ ClientFlow /\ HonestFlow
  BY DEF ExecutionFlow
<1>1. /\ UNCHANGED <<policy, host, completion, execVars, sent, lateVars, faults>>
      /\ wire # <<>> /\ wire' = Tail(wire) /\ disturbed' = TRUE
      /\ client' = [client EXCEPT !.phase = "Poisoned"]
  BY DEF ClientCancelled
<1>2. client' \in Clients /\ client'.phase = "Poisoned"
  BY <1>0, <1>1 DEF ExecutionTypes, Clients, Phases
<1>3. ExecutionTypes'
  BY <1>0, <1>1, <1>2 DEF ExecutionTypes, execVars, lateVars
<1>4. LateFlow' /\ AtomicFlow' /\ PushFlow'
  BY <1>0, <1>1, LateKept, AtomicKept, PushKept DEF execVars, lateVars
<1>5. TallyFlow'
  <2>1. PICK bytes, diags : Totals(bytes, diags)
    BY <1>0 DEF TallyFlow
  <2>2. Totals(bytes, diags)'
    BY <1>1, <2>1 DEF Totals, execVars
  <2> QED
    BY <1>2, <2>2 DEF TallyFlow
<1>6. wire' \in Seq(Frames(sent))
  <2>1. wire \in Seq(Frames(sent))
    BY <1>0 DEF WireFlow
  <2> QED
    BY <1>1, <2>1
<1>7. WireFlow'
  BY <1>0, <1>1, <1>6, FramesKept DEF WireFlow, execVars
<1>8. ClientFlow' /\ HonestFlow'
  BY <1>1, <1>2 DEF ClientFlow, HonestFlow
<1> QED
  BY <1>3, <1>4, <1>5, <1>7, <1>8 DEF ExecutionFlow

-----------------------------------------------------------------------------
(* The theorems *)

LEMMA ExecutionStarts == Init => ExecutionFlow
<1> SUFFICES ASSUME Init PROVE ExecutionFlow
  OBVIOUS
<1>0. <<>> \in Seq(Events) /\ Len(<<>>) = 0 /\ DOMAIN <<>> = {}
  OBVIOUS
<1>1. /\ exec \in Executions /\ exec.pc = "begin"
  BY <1>0 DEF Init, Executions
<1>2. /\ asm \in Assemblers /\ asm.events = <<>> /\ asm.report = <<>> /\ asm.event_bytes = 0
      /\ asm.diagnostics = 0
  BY <1>0 DEF Init, Assemblers
<1>3. /\ client \in Clients /\ client.phase = "ServerHello" /\ client.seq = 0
      /\ client.events = <<>> /\ client.event_bytes = 0 /\ client.diagnostics = 0
      /\ client.rejecting = 0
  BY <1>0 DEF Init, Clients, Phases
<1>4. /\ policy \in Policies /\ host = FALSE /\ completion = "RUNNING" /\ terminal = Null
      /\ sent = 0 /\ disposition = Null /\ wire = <<>> /\ disturbed = FALSE
      /\ late = [state |-> "Open", first |-> Null, frames |-> 0]
  BY DEF Init
<1>5. ExecutionTypes
  BY <1>1, <1>2, <1>3, <1>4 DEF ExecutionTypes
<1>6. LateFlow
  BY <1>4 DEF LateFlow
<1>7. AtomicFlow
  BY <1>1, <1>4 DEF AtomicFlow, Answered
<1>8. PushFlow
  BY <1>1, <1>2, <1>4 DEF PushFlow, Begun, Answered
<1>9. TallyFlow
  <2> DEFINE zero == [i \in 0 .. 0 |-> 0]
  <2>1. zero \in [0 .. 0 -> Nat] /\ zero[0] = 0
    OBVIOUS
  <2> HIDE DEF zero
  <2>2. policy.events \in Nat /\ policy.event_bytes \in Nat /\ policy.diagnostics \in Nat
    BY <1>4, PolicyTypes
  <2>3. /\ \A i \in 1 .. 0 : FALSE
        /\ \A i \in 0 .. 0 : zero[i] <= policy.event_bytes /\ zero[i] <= policy.diagnostics
        /\ 0 <= policy.events
    BY <2>1, <2>2
  <2>4. Totals(zero, zero)
    BY <1>0, <1>2, <2>1, <2>3 DEF Totals
  <2>5. Counts(client, zero, zero)
    BY <1>0, <1>3, <2>1 DEF Counts
  <2> QED
    BY <2>4, <2>5 DEF TallyFlow
<1>10. WireFlow
  BY <1>0, <1>2, <1>4 DEF WireFlow
<1>11. ClientFlow
  <2>1. PhaseAfter(0) = "ServerHello" /\ EventsAfter(0) = 0
    BY <1>0, <1>2 DEF PhaseAfter, EventsAfter
  <2> QED
    BY <1>0, <1>3, <1>4, <2>1 DEF ClientFlow, Follows
<1>12. HonestFlow
  BY <1>0, <1>3, <1>4 DEF HonestFlow
<1> QED
  BY <1>5, <1>6, <1>7, <1>8, <1>9, <1>10, <1>11, <1>12 DEF ExecutionFlow

LEMMA ExecutionKeeps == ExecutionFlow /\ [Next]_vars => ExecutionFlow'
<1> SUFFICES ASSUME ExecutionFlow, [Next]_vars PROVE ExecutionFlow'
  OBVIOUS
<1>1. CASE UNCHANGED vars
  <2>1. ExecutionTypes'
    BY <1>1 DEF ExecutionFlow, ExecutionTypes, vars
  <2> QED
    BY <1>1, <2>1, LateKept, AtomicKept, PushKept, TallyKept, WireKept, ClientKept, HonestKept
       DEF ExecutionFlow, vars, lateVars
<1>2. CASE Execution
  BY <1>2, BeginKeeps, CheckKeeps, PushKeeps, ProjectionFailsKeeps, FinishKeeps, CompleteKeeps
     DEF Execution
<1>3. CASE \E f \in LateFrames : LateDeliver(f) \/ LatePolled(f)
  BY <1>3, LateKeeps
<1>4. CASE Response
  BY <1>4, SendKeeps, CutKeeps, FaultKeeps, ReceiveKeeps, ClientCancelledKeeps DEF Response
<1> QED
  BY <1>1, <1>2, <1>3, <1>4, HostCancelsKeeps, RequestCancelKeeps DEF Next

\* For every policy and outcome, however the threads interleave, whatever late
\* frames arrive and whatever the transport does: the shared state, the
\* assembler, the frames and the client fit together.
THEOREM ExecutionInvariant == Spec => []ExecutionFlow
  BY ExecutionStarts, ExecutionKeeps, PTL DEF Spec

\* The client has the engine's verdict, a Success or a Rejected is never
\* partial, and only the exact first Cancel raises the shared flag.
THEOREM ExecutionAlwaysAgrees == Spec => []ExecutionInv
<1>1. ExecutionFlow => ExecutionInv
  <2> SUFFICES ASSUME ExecutionFlow PROVE ExecutionInv
    OBVIOUS
  <2>0. /\ ExecutionTypes /\ LateFlow /\ AtomicFlow /\ PushFlow
        /\ WireFlow /\ ClientFlow
    BY DEF ExecutionFlow
  <2>1. ExecutionTypeOK
    <3>1. exec.pc \in {"begin", "check", "push", "complete", "store", "stream", "cut", "failed"}
          /\ exec.status \in Statuses \cup {Null}
      BY <2>0 DEF ExecutionTypes, Executions
    <3>2. terminal # Null => terminal.status \in Statuses
      BY <2>0 DEF ExecutionTypes, Terminals
    <3> QED
      BY <2>0, <3>1, <3>2 DEF ExecutionTypeOK, ExecutionTypes, LateFlow, AtomicFlow, Answered
  <2>2. ClientHasTheVerdict
    <3> SUFFICES ASSUME client.phase = "Complete"
                 PROVE  /\ client.terminal = terminal /\ client.events = asm.events
                        /\ disposition = "Requested" => client.terminal.status = "Cancelled"
      BY DEF ClientHasTheVerdict
    <3>1. client.seq <= sent /\ Follows(client, client.seq) /\ client.seq \in Nat
          /\ Len(asm.events) \in Nat /\ sent \in Nat /\ sent <= Len(asm.events) + 4
      BY <2>0, ExecutionFields DEF ClientFlow, WireFlow
    <3>2. client.seq = Len(asm.events) + 4
      BY <3>1 DEF Follows, PhaseAfter
    <3>3. Len(client.events) = Len(asm.events) /\ client.terminal = terminal
      BY <3>1, <3>2 DEF Follows, EventsAfter
    <3>4. client.events = asm.events
      BY <2>0, <3>1, <3>3, ExecutionFields DEF Follows
    <3>5. exec.pc \in Answered
      BY <2>0, <3>1, <3>2 DEF WireFlow
    <3>6. disposition = "Requested" => terminal.status = "Cancelled"
      BY <2>0, <3>5, ExecutionAssumption DEF AtomicFlow, ExecutionTypes
    <3> QED
      BY <3>3, <3>4, <3>6
  <2>3. VerdictIsWhole
    <3> SUFFICES ASSUME terminal # Null, terminal.status \in {"Success", "Rejected"}
                 PROVE  /\ asm.events = [i \in 1 .. exec.outcome.phases |-> "Phase"]
                                        \o Projection(exec.outcome).diags
                        /\ terminal.status = Projection(exec.outcome).status
      BY DEF VerdictIsWhole
    <3>1. terminal = TerminalOf(exec.status) /\ exec.pc \in Answered
      BY <2>0 DEF PushFlow, AtomicFlow
    <3>2. terminal.status = exec.status
      BY <3>1 DEF TerminalOf
    <3> DEFINE q == QueueOf(exec.outcome)
    <3>3. /\ exec.queue = <<>> /\ exec.status = exec.requested
          /\ exec.outcome \in Outcomes /\ exec.requested = RequestedOf(exec.outcome)
          /\ Splits(asm.events, exec.queue, q)
      BY <2>0, <3>1, <3>2 DEF PushFlow, Answered, Begun
    <3>4. /\ q \in Seq(Events)
          /\ q = [i \in 1 .. exec.outcome.phases |-> "Phase"] \o Projection(exec.outcome).diags
          /\ exec.status = Projection(exec.outcome).status
      BY <2>0, <3>2, <3>3, QueueShape DEF ExecutionTypes
    <3> HIDE DEF q
    <3>5. asm.events \in Seq(Events) /\ Len(asm.events) \in Nat
      BY <2>0, ExecutionFields
    <3>6. Len(q) = Len(asm.events) /\ \A i \in DOMAIN asm.events : asm.events[i] = q[i]
      BY <3>3, <3>5 DEF Splits
    <3>7. asm.events = q
      <4>1. q \in Seq(Events)
        BY <3>4
      <4> QED
        BY <3>5, <3>6, <4>1
    <3> QED
      BY <3>2, <3>4, <3>7
  <2>4. CancelIsExact
    <3>1. IsCancelRequested => disposition # Null
      BY <2>0, ExecutionAssumption DEF IsCancelRequested, AtomicFlow
    <3> QED
      BY <2>0, <3>1 DEF CancelIsExact, LateFlow
  <2> QED
    BY <2>1, <2>2, <2>3, <2>4 DEF ExecutionInv
<1> QED
  BY <1>1, ExecutionInvariant, PTL

\* Wherever quotas, cancellation or a failed projection stopped the assembler:
\* without a disturbance the client refuses no frame of the response.
THEOREM ResponseAlwaysAccepted == Spec => []ResponseIsAccepted
<1>1. ExecutionFlow => ResponseIsAccepted
  BY DEF ExecutionFlow, HonestFlow, ResponseIsAccepted
<1> QED
  BY <1>1, ExecutionInvariant, PTL

\* The two threads around one atomic implement CheckVerdict: one verdict, and
\* the answer to a late cancellation agrees with it.
THEOREM ExecutionImplementsVerdict == Spec => VerdictSpec
<1> DEFINE v == IF exec.pc = "failed" THEN "Failed"
                ELSE IF terminal = Null THEN Null ELSE terminal.status
<1>1. Init => Verdict!Init
  <2> SUFFICES ASSUME Init PROVE Verdict!Init
    OBVIOUS
  <2>1. exec.pc = "begin" /\ terminal = Null /\ disposition = Null
    BY DEF Init
  <2> QED
    BY <2>1 DEF Verdict!Init
<1>2. ExecutionFlow /\ [Next]_vars => [Verdict!Next]_<<v, disposition>>
  <2> SUFFICES ASSUME ExecutionFlow, [Next]_vars, ~UNCHANGED <<v, disposition>>
               PROVE  Verdict!Next
    BY DEF ExecutionFlow
  <2>0. ExecutionTypes /\ AtomicFlow /\ PushFlow
    BY DEF ExecutionFlow
  <2>1. CASE UNCHANGED <<exec, terminal, disposition>>
    BY <2>1
  <2>2. CASE RequestCancel
    <3>1. /\ UNCHANGED <<exec, terminal>> /\ disposition = Null
          /\ disposition' = IF completion \in {"RUNNING", "CANCEL_REQUESTED"} THEN "Requested"
                            ELSE "ExecutionCompleted"
      BY <2>2 DEF RequestCancel, execVars
    <3>2. v \in {Null, "Failed"} <=> completion \in {"RUNNING", "CANCEL_REQUESTED"}
      <4>1. terminal # Null => terminal.status \in Statuses /\ exec.pc # "failed"
        BY <2>0 DEF ExecutionTypes, Terminals, AtomicFlow, Answered
      <4>2. terminal # Null => terminal.status # Null /\ terminal.status # "Failed"
        BY <4>1, ExecutionAssumption DEF Statuses
      <4> QED
        BY <2>0, <4>1, <4>2 DEF AtomicFlow, ExecutionTypes
    <3>3. Verdict!Ask
      BY <3>1, <3>2 DEF Verdict!Ask
    <3> QED
      BY <3>3 DEF Verdict!Next
  <2>3. CASE (CompleteExchange \/ CompleteStore) /\ UNCHANGED <<asm, lateVars>>
    <3>0. exec.pc \in {"complete", "store"} /\ disposition' = disposition
      BY <2>3 DEF CompleteExchange, CompleteStore, lateVars
    <3>1. /\ exec.pc \in {"complete", "store"} /\ terminal = Null /\ exec.status \in Statuses
          /\ disposition' = disposition
      BY <2>0, <3>0 DEF AtomicFlow, PushFlow, Answered
    <3>2. v = Null
      BY <3>1
    <3>3. \/ /\ completion = "RUNNING" /\ exec'.pc = "stream" /\ terminal' = TerminalOf(exec.status)
          \/ exec'.pc = "store" /\ terminal' = terminal
          \/ exec'.pc = "stream" /\ terminal' = TerminalOf("Cancelled")
      BY <2>0, <2>3 DEF CompleteExchange, CompleteStore, ExecutionTypes, Executions
    <3>4. \A s \in Statuses : TerminalOf(s) # Null /\ TerminalOf(s).status = s
      BY <2>0, TerminalTypes
    <3>5. CASE completion = "RUNNING" /\ exec'.pc = "stream" /\ terminal' = TerminalOf(exec.status)
      <4>1. v' = exec.status
        BY <3>1, <3>4, <3>5
      <4>2. disposition # "Requested"
        BY <2>0, <3>5, ExecutionAssumption DEF AtomicFlow
      <4>3. Verdict!Decide(exec.status)
        BY <3>1, <3>2, <4>1, <4>2 DEF Verdict!Decide
      <4> QED
        BY <3>1, <4>3 DEF Verdict!Next
    <3>6. CASE exec'.pc = "store" /\ terminal' = terminal
      BY <3>1, <3>2, <3>6
    <3>7. CASE exec'.pc = "stream" /\ terminal' = TerminalOf("Cancelled")
      <4>1. v' = "Cancelled" /\ "Cancelled" \in Statuses
        BY <3>4, <3>7 DEF Statuses
      <4>2. Verdict!Decide("Cancelled")
        BY <3>1, <3>2, <4>1 DEF Verdict!Decide
      <4> QED
        BY <4>1, <4>2 DEF Verdict!Next
    <3> QED
      BY <3>3, <3>5, <3>6, <3>7
  <2>4. CASE ExecutionFails /\ UNCHANGED lateVars
    <3>1. /\ exec.pc \in {"begin", "check"} /\ exec'.pc = "failed" /\ disposition' = disposition
      BY <2>0, <2>4 DEF ExecutionFails, lateVars, ExecutionTypes, Executions
    <3>2. v = Null /\ v' = "Failed"
      BY <2>0, <3>1 DEF AtomicFlow, Answered
    <3>3. Verdict!Fail
      BY <3>1, <3>2 DEF Verdict!Fail
    <3> QED
      BY <3>3 DEF Verdict!Next
  <2>5. ASSUME exec.pc # "failed", exec'.pc # "failed", UNCHANGED <<terminal, disposition>>
        PROVE  FALSE
    BY <2>5
  <2>6. CASE /\ Begin \/ Push \/ ProjectionFails \/ FinishReport \/ \E o \in Outcomes : Check(o)
             /\ UNCHANGED lateVars
    <3>1. exec.pc # "failed" /\ exec'.pc # "failed" /\ UNCHANGED <<terminal, disposition>>
      BY <2>0, <2>6 DEF Begin, Push, ProjectionFails, FinishReport, Check, ExecutionTypes,
         Executions, lateVars
    <3> QED
      BY <2>5, <3>1
  <2>7. CASE ResponseCut
    <3>1. exec.pc # "failed" /\ exec'.pc # "failed" /\ UNCHANGED <<terminal, disposition>>
      BY <2>0, <2>7 DEF ResponseCut, ExecutionTypes, Executions, lateVars
    <3> QED
      BY <2>5, <3>1
  <2>8. CASE Execution
    BY <2>3, <2>4, <2>6, <2>8 DEF Execution
  <2>9. CASE \/ HostCancels \/ SendFrame \/ TransportFault \/ ClientReceive \/ ClientCancelled
             \/ (\E f \in LateFrames : LateDeliver(f) \/ LatePolled(f)) \/ UNCHANGED vars
    <3>1. UNCHANGED <<exec, terminal, disposition>>
      BY <2>9 DEF HostCancels, SendFrame, TransportFault, ClientReceive, ClientCancelled,
         LateDeliver, LatePolled, vars, execVars, lateVars
    <3> QED
      BY <2>1, <3>1
  <2> QED
    BY <2>2, <2>7, <2>8, <2>9 DEF Next, Response
<1> QED
  BY <1>1, <1>2, ExecutionInvariant, PTL DEF Spec, VerdictSpec, Verdict!Spec

-----------------------------------------------------------------------------
(***************************************************************************)
(* The incremental analysis session: for all sources, packages, graphs and *)
(* identities, what a session retains is what a cold session would have    *)
(* produced.  The argument is about sets: what a file or a declaration     *)
(* leads to is a least closed set, and so is what a change affects, so     *)
(* that nothing outside the second leads into it.                          *)
(***************************************************************************)
\* A closure holds its start and is closed.
LEMMA ClosureIsClosed ==
    ASSUME NEW U, NEW next \in [U -> SUBSET U], NEW start \in SUBSET U
    PROVE  /\ Closure(next, start) \subseteq U
           /\ start \subseteq Closure(next, start)
           /\ \A y \in Closure(next, start) : next[y] \subseteq Closure(next, start)
<1>1. DOMAIN next = U
  OBVIOUS
<1> QED
  BY <1>1 DEF Closure

\* ... and lies within every closed set that holds its start.
LEMMA ClosureIsLeast ==
    ASSUME NEW U, NEW next \in [U -> SUBSET U], NEW start, NEW C \in SUBSET U,
           start \subseteq C, \A y \in C : next[y] \subseteq C
    PROVE  Closure(next, start) \subseteq C
<1>1. DOMAIN next = U
  OBVIOUS
<1> QED
  BY <1>1 DEF Closure

\* Two graphs that agree within a closed set lead to the same elements from it.
LEMMA SameClosure ==
    ASSUME NEW U, NEW next \in [U -> SUBSET U], NEW other \in [U -> SUBSET U],
           NEW C \in SUBSET U, NEW start \in SUBSET C,
           \A y \in C : next[y] = other[y] /\ next[y] \subseteq C
    PROVE  Closure(next, start) = Closure(other, start)
<1>1. DOMAIN next = U /\ DOMAIN other = U
  OBVIOUS
<1>2. Closure(next, start) \subseteq C /\ Closure(other, start) \subseteq C
  BY ClosureIsLeast
<1>3. ASSUME NEW a \in [U -> SUBSET U], NEW b \in [U -> SUBSET U],
             \A y \in C : a[y] = b[y] /\ a[y] \subseteq C,
             NEW x \in Closure(a, start)
      PROVE  x \in Closure(b, start)
  <2>1. x \in U /\ DOMAIN a = U /\ DOMAIN b = U
    BY <1>3 DEF Closure
  <2> SUFFICES ASSUME NEW S \in SUBSET U, start \subseteq S, \A y \in S : b[y] \subseteq S
               PROVE  x \in S
    BY <2>1 DEF Closure
  <2>2. S \cap C \in SUBSET U /\ start \subseteq S \cap C
    OBVIOUS
  <2>3. \A y \in S \cap C : a[y] \subseteq S \cap C
    BY <1>3
  <2>4. \A T \in SUBSET U : (start \subseteq T /\ \A y \in T : a[y] \subseteq T) => x \in T
    BY <2>1, <1>3 DEF Closure
  <2>5. x \in S \cap C
    BY <2>2, <2>3, <2>4
  <2> QED
    BY <2>5
<1>4. \A y \in C : other[y] = next[y] /\ other[y] \subseteq C
  OBVIOUS
<1>5. \A x \in Closure(next, start) : x \in Closure(other, start)
  BY <1>3
<1>6. \A x \in Closure(other, start) : x \in Closure(next, start)
  BY <1>3, <1>4
<1> QED
  BY <1>5, <1>6

\* In two graphs that differ within a set of edits, users leads backwards over
\* the first, and s is not reached from an edit that way.
Unaffected(V, before, after, usedBy, edits, s) ==
  /\ before \in [V -> SUBSET V] /\ after \in [V -> SUBSET V] /\ usedBy \in [V -> SUBSET V]
  /\ edits \in SUBSET V /\ s \in V
  /\ \A e, d \in V : e \in before[d] => d \in usedBy[e]
  /\ \A d \in V \ edits : before[d] = after[d]
  /\ s \notin Closure(usedBy, edits)

\* What is not among the users of a change, at any distance, does not lead to
\* it, before or after.
LEMMA UnaffectedLeadsElsewhere ==
    ASSUME NEW V, NEW before, NEW after, NEW usedBy, NEW edits, NEW s,
           Unaffected(V, before, after, usedBy, edits, s)
    PROVE  /\ Closure(before, {s}) = Closure(after, {s})
           /\ \A d \in Closure(before, {s}) : d \in V /\ d \notin edits
<1> USE DEF Unaffected
<1> DEFINE A == Closure(usedBy, edits)
           C == V \ A
<1>1. /\ A \subseteq V /\ edits \subseteq A /\ \A y \in A : usedBy[y] \subseteq A
  BY ClosureIsClosed
<1> HIDE DEF A
<1>2. s \in C
  BY DEF A
<1>3. ASSUME NEW y \in C PROVE before[y] = after[y] /\ before[y] \subseteq C
  <2>1. before[y] = after[y] /\ before[y] \subseteq V
    BY <1>1
  <2>2. ASSUME NEW e \in before[y], e \in A PROVE FALSE
    BY <1>1, <2>1, <2>2
  <2> QED
    BY <2>1, <2>2
<1>4. C \in SUBSET V /\ {s} \in SUBSET C /\ C \cap edits = {}
  BY <1>1, <1>2
<1> HIDE DEF C
<1>5. Closure(before, {s}) = Closure(after, {s})
  BY <1>3, <1>4, SameClosure
<1>6. Closure(before, {s}) \subseteq C
  BY <1>3, <1>4, ClosureIsLeast
<1> QED
  BY <1>4, <1>5, <1>6

-----------------------------------------------------------------------------
(* Reused HIR records.                                                     *)

\* What the sources of a revision are.
LEMMA SourceFacts ==
    ASSUME NEW src \in Sources
    PROVE  /\ DOMAIN src = Decls
           /\ \A d \in Decls : Refs(src[d]) \subseteq Decls /\ FileOf[d] \in Files
           /\ \A f \in Files : \A g :
                 g \in FileUses(src, f) <=>
                   \E d \in DeclsOf(f) : \E e \in Refs(src[d]) : g = FileOf[e]
           /\ [g \in Files |-> FileUses(src, g)] \in [Files -> SUBSET Files]
           /\ Programs[src] = [d \in Decls |-> LoweredDecl(src, d)]
           /\ \A d \in Decls : Programs[src][d].own = src[d]
<1>1. /\ DOMAIN src = Decls
      /\ \A d \in Decls : Refs(src[d]) \subseteq Decls
  BY SessionAssumption DEF Refs
<1>2. \A d \in Decls : FileOf[d] \in Files
  BY DEF Files
<1>3. \A f \in Files : \A g :
        g \in FileUses(src, f) <=>
          \E d \in DeclsOf(f) : \E e \in Refs(src[d]) : g = FileOf[e]
  BY DEF FileUses
<1>4. \A f \in Files : FileUses(src, f) \subseteq Files
  BY <1>1, <1>2, <1>3 DEF DeclsOf
<1>5. [g \in Files |-> FileUses(src, g)] \in [Files -> SUBSET Files]
  BY <1>4
<1>6. Programs[src] = [d \in Decls |-> LoweredDecl(src, d)]
  BY DEF Programs
<1>7. \A d \in Decls : Programs[src][d].own = src[d]
  BY <1>6 DEF LoweredDecl
<1> QED
  BY <1>1, <1>2, <1>3, <1>5, <1>6, <1>7

\* A file that is no dependent of a changed file lowers as it did.
LEMMA UnaffectedLowersTheSame ==
    ASSUME NEW old \in Sources, NEW src \in Sources, NEW d \in Decls,
           FileOf[d] \notin Dependents(old, DirectChanges(old, src)),
           Base(old, d) = Base(src, d)
    PROVE  LoweredDecl(old, d) = LoweredDecl(src, d)
<1> DEFINE U == Files
           next == [g \in U |-> FileUses(old, g)]
           other == [g \in U |-> FileUses(src, g)]
           users == [g \in U |-> {f \in U : g \in FileUses(old, f)}]
           changed == DirectChanges(old, src)
           r == FileOf[d]
<1>1. /\ next \in [U -> SUBSET U] /\ other \in [U -> SUBSET U] /\ r \in U
      /\ \A e \in Decls : FileOf[e] \in U
  BY SourceFacts
<1>2. users \in [U -> SUBSET U] /\ changed \in SUBSET U
  BY DEF DirectChanges
<1>3. \A f \in U \ changed : \A e \in DeclsOf(f) : old[e] = src[e]
  BY DEF DirectChanges
<1>4. \A f \in U \ changed : next[f] = other[f]
  <2> SUFFICES ASSUME NEW f \in U \ changed
               PROVE  FileUses(old, f) = FileUses(src, f)
    OBVIOUS
  <2>a. \A g : g \in FileUses(old, f) <=>
                \E x \in DeclsOf(f) : \E e \in Refs(old[x]) : g = FileOf[e]
    BY SourceFacts
  <2>b. \A g : g \in FileUses(src, f) <=>
                \E x \in DeclsOf(f) : \E e \in Refs(src[x]) : g = FileOf[e]
    BY SourceFacts
  <2>c. \A x \in DeclsOf(f) : old[x] = src[x]
    BY <1>3
  <2> HIDE DEF U, next, other, users, changed, r
  <2>1. \A g : g \in FileUses(old, f) <=> g \in FileUses(src, f)
    BY <2>a, <2>b, <2>c
  <2> QED
    BY <2>1
<1>5. \A e, f \in U : e \in next[f] => f \in users[e]
  OBVIOUS
<1>6. r \notin Closure(users, changed)
  BY Zenon DEF Dependents
<1> HIDE DEF U, next, other, users, changed, r
<1>7. /\ Closure(next, {r}) = Closure(other, {r})
      /\ \A f \in Closure(next, {r}) : f \in U /\ f \notin changed
  <2>1. next \in [U -> SUBSET U] /\ other \in [U -> SUBSET U] /\ users \in [U -> SUBSET U]
    BY <1>1, <1>2
  <2>2. changed \in SUBSET U /\ r \in U
    BY <1>1, <1>2
  <2>3. \A e, x \in U : e \in next[x] => x \in users[e]
    BY <1>5
  <2>4. \A x \in U \ changed : next[x] = other[x]
    BY <1>4
  <2>5. Unaffected(U, next, other, users, changed, r)
    BY <2>1, <2>2, <2>3, <2>4, <1>6 DEF Unaffected
  <2> QED
    BY <2>5, UnaffectedLeadsElsewhere
<1>8. FilesFrom(old, r) = Closure(next, {r}) /\ FilesFrom(src, r) = Closure(other, {r})
  BY DEF FilesFrom, next, other, U
<1> DEFINE F == FilesFrom(old, r)
           B == {e \in Decls : FileOf[e] \in F \ {r}}
<1>9. F = FilesFrom(src, r) /\ \A e \in Decls : FileOf[e] \in F => old[e] = src[e]
  <2>1. \A e \in Decls : e \in DeclsOf(FileOf[e])
    BY DEF DeclsOf
  <2> QED
    BY <1>3, <1>7, <1>8, <2>1
<1>10. r \in F
  BY <1>1, <1>8, ClosureIsClosed
<1>11. old[d] = src[d]
  BY <1>9, <1>10 DEF r
<1> HIDE DEF F
<1>12. [e \in B |-> Exposed(old[e])] = [e \in B |-> Exposed(src[e])]
  BY <1>9
<1>13. LoweredDecl(old, d) =
         [own |-> old[d], base |-> Base(old, d), bound |-> [e \in B |-> Exposed(old[e])]]
  BY DEF LoweredDecl, F, r
<1>14. LoweredDecl(src, d) =
         [own |-> src[d], base |-> Base(src, d), bound |-> [e \in B |-> Exposed(src[e])]]
  BY <1>9 DEF LoweredDecl, r
<1> QED
  BY <1>11, <1>12, <1>13, <1>14

\* The tracked lowering of a request is its cold lowering.
LEMMA TrackedIsCold ==
    ASSUME NEW r, r.src \in Sources,
           NEW old, old.revisions \in Sources, old.hir.program = Programs[old.revisions],
           NEW affected, affected = Dependents(old.revisions,
                                                   DirectChanges(old.revisions, r.src)),
           ArenasAlign(old, r, affected)
    PROVE  LowerTracked(old, r, affected) = LowerCold(r)
<1> DEFINE program == [d \in Decls |-> IF d \in Reusable(affected) THEN old.hir.program[d]
                                       ELSE Programs[r.src][d]]
<1>1. \A d \in Reusable(affected) :
        LoweredDecl(old.revisions, d) = LoweredDecl(r.src, d)
  BY UnaffectedLowersTheSame DEF Reusable, ArenasAlign
<1>2. /\ Programs[r.src] = [d \in Decls |-> LoweredDecl(r.src, d)]
      /\ old.hir.program = [d \in Decls |-> LoweredDecl(old.revisions, d)]
  BY SourceFacts
<1>3. \A d \in Decls : program[d] = LoweredDecl(r.src, d)
  BY <1>1, <1>2
<1>4. program = Programs[r.src]
  BY <1>2, <1>3
<1> HIDE DEF program
<1>5. LowerTracked(old, r, affected) = [LowerCold(r) EXCEPT !.program = program]
  BY DEF LowerTracked, program
<1> QED
  BY <1>4, <1>5 DEF LowerCold

-----------------------------------------------------------------------------
(* The session.                                                            *)

\* What the root of an image leads to is the same in two programs when the
\* root is not affected by what differs between them.
LEMMA UnaffectedKeepsFacts ==
    ASSUME NEW old \in Sources, NEW src \in Sources,
           Root \notin AffectedDecls(Programs[old], Programs[src])
    PROVE  Facts(Programs[old]) = Facts(Programs[src])
<1> DEFINE p == Programs[old]
           c == Programs[src]
           next == References(p)
           other == References(c)
           users == [e \in Decls |-> {d \in Decls : e \in Refs(p[d].own) \cup Refs(c[d].own)}]
           changed == {d \in Decls : p[d] # c[d]}
<1>1. Root \in Decls
  BY SessionAssumption
<1>2. Root \notin Closure(users, changed)
  BY <1>1 DEF AffectedDecls
<1>3. \A d \in Decls : Refs(p[d].own) \subseteq Decls /\ Refs(c[d].own) \subseteq Decls
  <2>1. \A d \in Decls : p[d].own = old[d] /\ Refs(old[d]) \subseteq Decls
    BY SourceFacts
  <2>2. \A d \in Decls : c[d].own = src[d] /\ Refs(src[d]) \subseteq Decls
    BY SourceFacts
  <2> HIDE DEF p, c
  <2> QED
    BY <2>1, <2>2
<1> HIDE DEF p, c
<1>4. /\ \A d \in Decls : next[d] = Refs(p[d].own) /\ other[d] = Refs(c[d].own)
      /\ next \in [Decls -> SUBSET Decls] /\ other \in [Decls -> SUBSET Decls]
  BY <1>3 DEF References
<1>5. users \in [Decls -> SUBSET Decls] /\ changed \in SUBSET Decls
  OBVIOUS
<1>6. \A e, d \in Decls : e \in next[d] => d \in users[e]
  BY <1>4
<1>7. \A d \in Decls \ changed : next[d] = other[d]
  BY <1>4
<1>8. \A d \in Decls : d \notin changed => p[d] = c[d]
  OBVIOUS
<1>9. /\ Facts(p) = [d \in Closure(next, {Root}) |-> p[d].own]
      /\ Facts(c) = [d \in Closure(other, {Root}) |-> c[d].own]
  BY DEF Facts
<1> HIDE DEF next, other, users, changed
<1>10. Unaffected(Decls, next, other, users, changed, Root)
  BY <1>1, <1>2, <1>4, <1>5, <1>6, <1>7 DEF Unaffected
<1>11. /\ Closure(next, {Root}) = Closure(other, {Root})
       /\ \A d \in Closure(next, {Root}) : d \in Decls /\ d \notin changed
  BY <1>10, UnaffectedLeadsElsewhere
<1>12. \A d \in Closure(next, {Root}) : p[d].own = c[d].own
  BY <1>8, <1>11
<1>13. Facts(p) = Facts(c)
  BY <1>9, <1>11, <1>12
<1> QED
  BY <1>13 DEF p, c

\* The revision a cold session retains after answering r.
ColdRevision(r) ==
  [revisions |-> r.src, hir |-> LowerCold(r),
   analysis |-> AnalyzeCold(LowerCold(r), r)]

\* A retained revision is one a cold session would have retained.
ColdState(s) ==
  \E r \in Request : s = ColdRevision(r) /\ Complete(LowerCold(r).program)

\* Where a call is, what it holds: the products a cold session would hold, and
\* the plan derived from the revision the session still retains.
CallFlow ==
  /\ pc \in {"idle", "planned", "lowered", "analyzed"}
  /\ pc = "idle" => plan = Cold /\ hir = Nothing /\ (req = Nothing \/ req \in Request)
  /\ pc # "idle" => req \in Request /\ plan = Plan(state, req) /\ outcome = "none"
  /\ pc = "planned" => hir = Nothing
  /\ pc \in {"lowered", "analyzed"} => hir = LowerCold(req)
  /\ pc # "analyzed" => analysis = Nothing
  /\ pc = "analyzed" => analysis = AnalyzeCold(hir, req)

\* An answer is the revision a cold session retains after the same request.
AnswerFlow ==
  /\ outcome \in {"none", "ok", "refused", "cancelled", "incomplete", "shape",
                  "mismatch", "unsupported", "restored", "corrupt"}
  /\ outcome = "ok" => req \in Request /\ state = ColdRevision(req)

IncrementalFlow ==
  /\ state = NoState \/ ColdState(state)
  /\ CallFlow
  /\ AnswerFlow

\* The fields of a request and of the revision it leaves.
LEMMA ColdFields ==
    ASSUME NEW r \in Request
    PROVE  /\ r = [src |-> r.src, packages |-> r.packages, graph |-> r.graph, ident |-> r.ident]
           /\ r.src \in Sources /\ r.packages \in Packages /\ r.graph \in Graphs /\ r.ident \in Idents
           /\ LowerCold(r).program = Programs[r.src]
           /\ LowerCold(r).packages = r.packages
           /\ LowerCold(r).graph = r.graph
           /\ LowerCold(r).revisions = r.src
           /\ LowerCold(r) # Nothing
           /\ ColdRevision(r).revisions = r.src
           /\ ColdRevision(r).hir = LowerCold(r)
           /\ ColdRevision(r).analysis = AnalyzeCold(LowerCold(r), r)
           /\ ColdRevision(r).analysis.program = Programs[r.src]
           /\ ColdRevision(r).analysis.graph = r.graph
           /\ ColdRevision(r).analysis.ident = r.ident
           /\ ColdRevision(r).analysis.facts = Facts(Programs[r.src])
           /\ ColdRevision(r) # NoState
           /\ DOMAIN ColdRevision(r) = {"revisions", "hir", "analysis"}
<1>1. /\ r = [src |-> r.src, packages |-> r.packages, graph |-> r.graph, ident |-> r.ident]
      /\ r.src \in Sources /\ r.packages \in Packages /\ r.graph \in Graphs /\ r.ident \in Idents
  BY DEF Request
<1>2. /\ LowerCold(r).program = Programs[r.src]
      /\ LowerCold(r).packages = r.packages
      /\ LowerCold(r).graph = r.graph
      /\ LowerCold(r).revisions = r.src
  BY DEF LowerCold
<1>3. LowerCold(r) # Nothing
  <2>1. "program" \in DOMAIN LowerCold(r)
    BY DEF LowerCold
  <2>2. "program" \notin DOMAIN Nothing
    BY DEF Nothing
  <2> QED
    BY <2>1, <2>2
<1>4. /\ ColdRevision(r).revisions = r.src
      /\ ColdRevision(r).hir = LowerCold(r)
      /\ ColdRevision(r).analysis = AnalyzeCold(LowerCold(r), r)
      /\ DOMAIN ColdRevision(r) = {"revisions", "hir", "analysis"}
  BY DEF ColdRevision
<1>5. /\ AnalyzeCold(LowerCold(r), r).program = LowerCold(r).program
      /\ AnalyzeCold(LowerCold(r), r).graph = r.graph
      /\ AnalyzeCold(LowerCold(r), r).ident = r.ident
      /\ AnalyzeCold(LowerCold(r), r).facts = Facts(LowerCold(r).program)
  BY DEF AnalyzeCold
<1>6. ColdRevision(r) # NoState
  <2>1. "hir" \notin DOMAIN NoState
    BY DEF NoState
  <2> QED
    BY <1>4, <2>1
<1> QED
  BY <1>1, <1>2, <1>3, <1>4, <1>5, <1>6

\* What a plan says of the retained revision and the request.
LEMMA PlanFacts ==
    ASSUME NEW old, NEW r \in Request,
           old = NoState \/ ColdState(old)
    PROVE  LET direct == DirectChanges(old.revisions, r.src)
               p == Plan(old, r)
           IN  /\ p.hir \in {"cold", "exact", "refuse", "retained", "tracked"}
               /\ p.affected \subseteq Files
               /\ p.hir \in {"exact", "retained", "tracked"} => old # NoState
               /\ p.hir = "exact" => IsExact(old, r)
               /\ p.hir = "retained" => /\ direct = {} /\ old.hir.graph = r.graph
                                        /\ old.hir.packages = r.packages
               /\ p.hir = "tracked" => /\ p.affected = Dependents(old.revisions, direct)
                                       /\ p.affected # {}
               /\ p.semantic => p.hir = "tracked"
<1> DEFINE direct == DirectChanges(old.revisions, r.src)
           p == Plan(old, r)
           D == Dependents(old.revisions, direct)
           same == old.hir.graph = r.graph
           tracked == [hir |-> "tracked", semantic |-> SemanticIdentityMatches(old, r), affected |-> D]
<1>1. \/ p = Cold
      \/ old # NoState /\ IsExact(old, r) /\ p = Whole("exact")
      \/ p = Whole("refuse")
      \/ /\ old # NoState /\ direct = {} /\ same /\ old.hir.packages = r.packages
         /\ p = Whole("retained")
      \/ old # NoState /\ direct # {} /\ p = tracked
  <2>1. CASE old = NoState
    BY <2>1 DEF Plan
  <2>2. CASE old # NoState /\ ~CompatiblePackages(old.hir.packages, r.packages)
    BY <2>2 DEF Plan
  <2>3. CASE old # NoState /\ CompatiblePackages(old.hir.packages, r.packages)
    <3>1. p = IF IsExact(old, r) THEN Whole("exact")
              ELSE IF direct = {}
              THEN IF ~same THEN Cold
                   ELSE IF old.hir.packages # r.packages
                        THEN Whole("refuse")
                        ELSE Whole("retained")
              ELSE IF same THEN Whole("refuse")
              ELSE tracked
      BY <2>3, Zenon DEF Plan
    <3> HIDE DEF p, tracked, direct
    <3> QED
      BY <2>3, <3>1
  <2> QED
    BY <2>1, <2>2, <2>3
<1>2. old # NoState /\ direct # {} => D # {} /\ D \subseteq Files
  <2> SUFFICES ASSUME old # NoState, direct # {} PROVE D # {} /\ D \subseteq Files
    OBVIOUS
  <2> DEFINE users == [g \in Files |-> {f \in Files : g \in FileUses(old.revisions, f)}]
  <2>1. users \in [Files -> SUBSET Files] /\ direct \in SUBSET Files
    BY DEF DirectChanges
  <2>2. D = Closure(users, direct)
    BY Zenon DEF Dependents
  <2> HIDE DEF D, users, direct
  <2>3. direct \subseteq Closure(users, direct) /\ Closure(users, direct) \subseteq Files
    BY <2>1, ClosureIsClosed
  <2>4. direct # {}
    BY DEF direct
  <2> QED
    BY <2>2, <2>3, <2>4
<1> HIDE DEF p, D, same, direct
<1>3. /\ Cold = Whole("cold")
      /\ \A how : Whole(how).hir = how /\ Whole(how).semantic = FALSE
                   /\ Whole(how).affected = {}
  BY DEF Cold, Whole
<1>4. /\ p.hir \in {"cold", "exact", "refuse", "retained", "tracked"}
      /\ p.affected \subseteq Files
      /\ p.hir \in {"exact", "retained", "tracked"} => old # NoState
      /\ p.hir = "exact" => IsExact(old, r)
      /\ p.hir = "retained" => direct = {} /\ same /\ old.hir.packages = r.packages
      /\ p.hir = "tracked" => p.affected = D /\ p.affected # {}
      /\ p.semantic => p.hir = "tracked"
  BY <1>1, <1>2, <1>3
<1> QED
  BY <1>4 DEF p, D, same, direct

\* A request whose sources match a retained revision file by file has its
\* sources.
LEMMA NoChangeIsSame ==
    ASSUME NEW old \in Sources, NEW src \in Sources,
           DirectChanges(old, src) = {}
    PROVE  old = src
<1>1. \A d \in Decls : d \in DeclsOf(FileOf[d]) /\ FileOf[d] \in Files
  BY DEF DeclsOf, Files
<1>2. \A d \in Decls : old[d] = src[d]
  BY <1>1 DEF DirectChanges
<1>3. old = [d \in Decls |-> old[d]] /\ src = [d \in Decls |-> src[d]]
  BY SessionAssumption
<1> QED
  BY <1>2, <1>3

\* On every path the HIR of a call is the one a cold session lowers.
LEMMA LowerKeeps ==
    ASSUME IncrementalFlow, Lower
    PROVE  IncrementalFlow'
<1>1. /\ pc = "planned" /\ plan.hir \in {"cold", "retained", "tracked"}
      /\ plan.hir = "tracked" => ArenasAlign(state, req, plan.affected)
      /\ hir' = CASE plan.hir = "cold" -> LowerCold(req)
                  [] plan.hir = "retained" -> state.hir
                  [] plan.hir = "tracked" -> LowerTracked(state, req, plan.affected)
      /\ pc' = "lowered"
      /\ state' = state /\ req' = req /\ plan' = plan /\ analysis' = analysis /\ outcome' = outcome
  BY DEF Lower, KeptWhileLowering
<1>2. req \in Request /\ plan = Plan(state, req) /\ analysis = Nothing
  BY <1>1 DEF IncrementalFlow, CallFlow
<1>3. state = NoState \/ ColdState(state)
  BY DEF IncrementalFlow
<1>4. /\ plan.hir \in {"retained", "tracked"} => state # NoState
      /\ plan.hir = "retained" => /\ DirectChanges(state.revisions, req.src) = {}
                                  /\ state.hir.graph = req.graph
                                  /\ state.hir.packages = req.packages
      /\ plan.hir = "tracked" =>
           plan.affected = Dependents(state.revisions,
                                          DirectChanges(state.revisions, req.src))
  BY <1>2, <1>3, PlanFacts
<1>5. hir' = LowerCold(req)
  <2>1. CASE plan.hir = "cold"
    BY <1>1, <2>1
  <2>2. CASE plan.hir = "retained"
    <3>1. PICK r \in Request : state = ColdRevision(r)
      BY <1>3, <1>4, <2>2 DEF ColdState
    <3>2. state.revisions = r.src /\ state.hir = LowerCold(r) /\ r.src \in Sources
      BY <3>1, ColdFields
    <3>3. req.src \in Sources
      BY <1>2, ColdFields
    <3>4. r.src = req.src
      BY <1>4, <2>2, <3>2, <3>3, NoChangeIsSame
    <3>5. r.graph = req.graph /\ r.packages = req.packages
      BY <1>4, <2>2, <3>2, ColdFields
    <3>6. LowerCold(r) = LowerCold(req)
      BY <3>4, <3>5 DEF LowerCold
    <3> QED
      BY <1>1, <2>2, <3>2, <3>6
  <2>3. CASE plan.hir = "tracked"
    <3>1. PICK r \in Request : state = ColdRevision(r)
      BY <1>3, <1>4, <2>3 DEF ColdState
    <3>2. state.revisions \in Sources /\ state.hir.program = Programs[state.revisions]
      BY <3>1, ColdFields
    <3>3. req.src \in Sources
      BY <1>2, ColdFields
    <3>4. LowerTracked(state, req, plan.affected) = LowerCold(req)
      BY <1>1, <1>4, <2>3, <3>2, <3>3, TrackedIsCold
    <3> QED
      BY <1>1, <2>3, <3>4
  <2> QED
    BY <1>1, <2>1, <2>2, <2>3
<1>6. CallFlow'
  BY <1>1, <1>2, <1>5 DEF IncrementalFlow, CallFlow
<1>7. (state = NoState \/ ColdState(state))' /\ AnswerFlow'
  BY <1>1 DEF IncrementalFlow, CallFlow, AnswerFlow, ColdState
<1> QED
  BY <1>6, <1>7 DEF IncrementalFlow

\* Facts taken over from the retained revision are those of the new program.
LEMMA AnalyzeKeeps ==
    ASSUME IncrementalFlow, AnalyzeFresh \/ AnalyzeWarm
    PROVE  IncrementalFlow'
<1>1. /\ pc = "lowered" /\ pc' = "analyzed"
      /\ state' = state /\ req' = req /\ plan' = plan /\ hir' = hir /\ outcome' = outcome
  BY DEF AnalyzeFresh, AnalyzeWarm
<1>2. req \in Request /\ plan = Plan(state, req) /\ hir = LowerCold(req)
  BY <1>1 DEF IncrementalFlow, CallFlow
<1>3. state = NoState \/ ColdState(state)
  BY DEF IncrementalFlow
<1>4. analysis' = AnalyzeCold(hir, req)
  <2>1. CASE AnalyzeFresh
    BY <2>1 DEF AnalyzeFresh
  <2>2. CASE AnalyzeWarm
    <3>1. /\ plan.semantic /\ ~SemanticAffected(state, hir)
          /\ analysis' = AnalyzeReused(state, hir, req)
      BY <2>2 DEF AnalyzeWarm
    <3>2. state # NoState
      BY <1>2, <1>3, <3>1, PlanFacts
    <3>3. PICK r \in Request : state = ColdRevision(r)
      BY <1>3, <3>2 DEF ColdState
    <3>4. /\ r.src \in Sources /\ state.analysis.program = Programs[r.src]
          /\ state.analysis.facts = Facts(Programs[r.src])
      BY <3>3, ColdFields
    <3>5. req.src \in Sources /\ hir.program = Programs[req.src]
      BY <1>2, ColdFields
    <3>6. Root \notin AffectedDecls(Programs[r.src], Programs[req.src])
      BY <3>1, <3>4, <3>5 DEF SemanticAffected
    <3>7. Facts(Programs[r.src]) = Facts(Programs[req.src])
      BY <3>4, <3>5, <3>6, UnaffectedKeepsFacts
    <3>8. state.analysis.facts = Facts(hir.program)
      BY <3>4, <3>5, <3>7
    <3>9. AnalyzeReused(state, hir, req) = AnalyzeCold(hir, req)
      BY <3>8 DEF AnalyzeReused, AnalyzeCold
    <3> QED
      BY <3>1, <3>9
  <2> QED
    BY <2>1, <2>2
<1>5. CallFlow'
  BY <1>1, <1>2, <1>4 DEF IncrementalFlow, CallFlow
<1>6. (state = NoState \/ ColdState(state))' /\ AnswerFlow'
  BY <1>1 DEF IncrementalFlow, CallFlow, AnswerFlow, ColdState
<1> QED
  BY <1>5, <1>6 DEF IncrementalFlow

\* A call that returns without an answer leaves everything but the answer.
LEMMA ReturnKeeps ==
    ASSUME IncrementalFlow, NEW how \in {"none", "refused", "cancelled", "incomplete", "shape",
                                         "mismatch", "unsupported"},
           Return(how), state' = state \/ state' = NoState
    PROVE  IncrementalFlow'
<1>1. /\ pc' = "idle" /\ outcome' = how /\ how # "ok" /\ req' = Nothing
      /\ hir' = Nothing /\ analysis' = Nothing /\ plan' = Cold
  BY DEF Return
<1>2. (state = NoState \/ ColdState(state))'
  BY DEF IncrementalFlow, ColdState
<1>3. CallFlow' /\ AnswerFlow'
  BY <1>1 DEF CallFlow, AnswerFlow
<1> QED
  BY <1>2, <1>3 DEF IncrementalFlow

\* What is answered, retained or restored is what a cold session would retain.
LEMMA PublishKeeps ==
    ASSUME IncrementalFlow, AnswerExact \/ Commit \/ Restore
    PROVE  IncrementalFlow'
<1>1. state = NoState \/ ColdState(state)
  BY DEF IncrementalFlow
<1>2. ASSUME Return("ok"), req \in Request, state' = ColdRevision(req),
             Complete(LowerCold(req).program)
      PROVE  IncrementalFlow'
  <2>1. /\ pc' = "idle" /\ outcome' = "ok" /\ req' = req
        /\ hir' = Nothing /\ analysis' = Nothing /\ plan' = Cold
    BY <1>2 DEF Return
  <2>2. (state = NoState \/ ColdState(state))'
    BY <1>2 DEF ColdState
  <2>3. CallFlow'
    BY <1>2, <2>1 DEF CallFlow
  <2>4. AnswerFlow'
    BY <1>2, <2>1 DEF AnswerFlow, ColdRevision
  <2> QED
    BY <2>2, <2>3, <2>4 DEF IncrementalFlow
<1>3. CASE AnswerExact
  <2>1. /\ pc = "planned" /\ plan.hir = "exact" /\ Return("ok") /\ state' = state
    BY <1>3 DEF AnswerExact
  <2>2. req \in Request /\ plan = Plan(state, req)
    BY <2>1 DEF IncrementalFlow, CallFlow
  <2>3. state # NoState /\ IsExact(state, req)
    BY <1>1, <2>1, <2>2, PlanFacts
  <2>4. PICK r \in Request : state = ColdRevision(r) /\ Complete(LowerCold(r).program)
    BY <1>1, <2>3 DEF ColdState
  <2>5. r.src = req.src
    BY <2>2, <2>3, <2>4, ColdFields, NoChangeIsSame DEF IsExact
  <2>6. r.packages = req.packages /\ r.graph = req.graph /\ r.ident = req.ident
    BY <2>3, <2>4, ColdFields DEF IsExact, SemanticIdentityMatches
  <2>7. r = req
    BY <2>2, <2>5, <2>6, ColdFields
  <2> QED
    BY <1>2, <2>1, <2>2, <2>4, <2>7
<1>4. CASE Commit
  <2>1. /\ pc = "analyzed" /\ Complete(analysis.program) /\ Return("ok")
        /\ state' = [revisions |-> req.src, hir |-> hir, analysis |-> analysis]
    BY <1>4 DEF Commit, Publishable
  <2>2. req \in Request /\ hir = LowerCold(req) /\ analysis = AnalyzeCold(hir, req)
    BY <2>1 DEF IncrementalFlow, CallFlow
  <2>3. state' = ColdRevision(req)
    BY <2>1, <2>2 DEF ColdRevision
  <2>4. analysis.program = hir.program
    BY <2>2 DEF AnalyzeCold
  <2> QED
    BY <1>2, <2>1, <2>2, <2>3, <2>4
<1>5. CASE Restore
  <2>1. /\ pc = "idle" /\ outcome = "none"
        /\ pc' = pc /\ req' = req /\ plan' = plan /\ hir' = hir /\ analysis' = analysis
    BY <1>5 DEF Restore
  <2>2. \/ state' = state /\ outcome' = "corrupt"
        \/ \E h, a \in Sealed :
             /\ outcome' = "restored"
             /\ state' = [revisions |-> h.hir.revisions, hir |-> h.hir, analysis |-> a.analysis]
             /\ a.analysis.program = h.hir.program /\ a.analysis.graph = h.hir.graph
    <3>1. PICK h \in Sealed, a \in Sealed, versions \in BOOLEAN : \E x \in {h, a} :
            LET s == [versions |-> versions, revisions |-> x.hir.revisions,
                      hir |-> h.hir, analysis |-> a.analysis]
            IN  IF SnapshotFits(s)
                THEN /\ state' = [revisions |-> s.revisions, hir |-> s.hir, analysis |-> s.analysis]
                     /\ outcome' = "restored"
                ELSE /\ outcome' = "corrupt"
                     /\ UNCHANGED state
      BY <1>5 DEF Restore
    <3>2. PICK x \in {h, a} :
            LET s == [versions |-> versions, revisions |-> x.hir.revisions,
                      hir |-> h.hir, analysis |-> a.analysis]
            IN  IF SnapshotFits(s)
                THEN /\ state' = [revisions |-> s.revisions, hir |-> s.hir, analysis |-> s.analysis]
                     /\ outcome' = "restored"
                ELSE /\ outcome' = "corrupt"
                     /\ UNCHANGED state
      BY <3>1
    <3> DEFINE s == [versions |-> versions, revisions |-> x.hir.revisions,
                     hir |-> h.hir, analysis |-> a.analysis]
    <3>3. s.revisions = x.hir.revisions /\ s.hir = h.hir /\ s.analysis = a.analysis
      OBVIOUS
    <3>4. IF SnapshotFits(s)
          THEN /\ state' = [revisions |-> s.revisions, hir |-> s.hir, analysis |-> s.analysis]
               /\ outcome' = "restored"
          ELSE outcome' = "corrupt" /\ state' = state
      BY <3>2
    <3> HIDE DEF s
    <3>5. CASE SnapshotFits(s)
      <4>1. /\ s.revisions = s.hir.revisions
            /\ s.analysis.program = s.hir.program /\ s.analysis.graph = s.hir.graph
        BY <3>5 DEF SnapshotFits
      <4> QED
        BY <3>3, <3>4, <3>5, <4>1
    <3>6. CASE ~SnapshotFits(s)
      BY <3>4, <3>6
    <3> QED
      BY <3>5, <3>6
  <2>3. (state = NoState \/ ColdState(state))'
    <3>1. CASE state' = state
      BY <1>1, <3>1 DEF ColdState
    <3>2. ASSUME NEW h \in Sealed, NEW a \in Sealed,
                 state' = [revisions |-> h.hir.revisions, hir |-> h.hir, analysis |-> a.analysis],
                 a.analysis.program = h.hir.program, a.analysis.graph = h.hir.graph
          PROVE  ColdState(state')
      <4>1. PICK r \in Request : h = [hir |-> LowerCold(r),
                                          analysis |-> AnalyzeCold(LowerCold(r), r)]
                                     /\ Complete(LowerCold(r).program)
        BY DEF Sealed
      <4>2. PICK q \in Request : a = [hir |-> LowerCold(q),
                                          analysis |-> AnalyzeCold(LowerCold(q), q)]
        BY DEF Sealed
      <4>3. h.hir = LowerCold(r) /\ a.analysis = AnalyzeCold(LowerCold(q), q)
        BY <4>1, <4>2
      <4> DEFINE t == [src |-> r.src, packages |-> r.packages, graph |-> r.graph, ident |-> q.ident]
      <4>4. t \in Request
        BY DEF Request
      <4>5. t.src = r.src /\ t.packages = r.packages /\ t.graph = r.graph /\ t.ident = q.ident
        OBVIOUS
      <4> HIDE DEF t
      <4>6. LowerCold(t) = LowerCold(r)
        BY <4>5 DEF LowerCold
      <4>7. /\ LowerCold(q).program = LowerCold(t).program
            /\ q.graph = t.graph
        <5>1. /\ AnalyzeCold(LowerCold(q), q).program = LowerCold(q).program
              /\ AnalyzeCold(LowerCold(q), q).graph = q.graph
          BY DEF AnalyzeCold
        <5>2. LowerCold(r).graph = r.graph
          BY ColdFields
        <5> QED
          BY <3>2, <4>3, <4>5, <4>6, <5>1, <5>2
      <4>8. a.analysis = AnalyzeCold(LowerCold(t), t)
        BY <4>3, <4>5, <4>7 DEF AnalyzeCold
      <4>9. h.hir.revisions = t.src
        BY <4>3, <4>5, ColdFields
      <4>10. state' = ColdRevision(t)
        BY <3>2, <4>3, <4>6, <4>8, <4>9 DEF ColdRevision
      <4> QED
        BY <4>1, <4>4, <4>6, <4>10 DEF ColdState
    <3>3. ColdState(state') => ColdState(state)'
      BY DEF ColdState, ColdRevision
    <3> QED
      BY <2>2, <3>1, <3>2, <3>3
  <2>4. CallFlow'
    BY <2>1 DEF IncrementalFlow, CallFlow
  <2>5. AnswerFlow'
    BY <2>2 DEF AnswerFlow
  <2> QED
    BY <2>3, <2>4, <2>5 DEF IncrementalFlow
<1> QED
  BY <1>3, <1>4, <1>5

\* The invariant the session keeps: between calls it retains nothing or what a
\* cold session would retain, and a running call holds cold products only.
THEOREM IncrementalInvariant == IncSpec => []IncrementalFlow
<1>1. IncInit => IncrementalFlow
  BY DEF IncInit, IncrementalFlow, CallFlow, AnswerFlow
<1>2. IncrementalFlow /\ [IncNext]_incVars => IncrementalFlow'
  <2> SUFFICES ASSUME IncrementalFlow, [IncNext]_incVars PROVE IncrementalFlow'
    OBVIOUS
  <2>1. ASSUME NEW r \in Request, BeginAnalysis(r) PROVE IncrementalFlow'
    <3>1. /\ pc = "idle" /\ req' = r /\ outcome' = "none" /\ plan' = Plan(state, r)
          /\ pc' = "planned" /\ state' = state /\ hir' = hir /\ analysis' = analysis
      BY <2>1 DEF BeginAnalysis
    <3>2. hir = Nothing /\ analysis = Nothing
      BY <3>1 DEF IncrementalFlow, CallFlow
    <3>3. CallFlow'
      BY <3>1, <3>2 DEF CallFlow
    <3>4. (state = NoState \/ ColdState(state))' /\ AnswerFlow'
      BY <3>1 DEF IncrementalFlow, ColdState, AnswerFlow
    <3> QED
      BY <3>3, <3>4 DEF IncrementalFlow
  <2>2. CASE BeginRefused
    BY <2>2, ReturnKeeps DEF BeginRefused
  <2>3. CASE GiveUp
    BY <2>3, ReturnKeeps DEF GiveUp
  <2>4. CASE RefuseIdentity
    BY <2>4, ReturnKeeps DEF RefuseIdentity
  <2>5. CASE LowerRefused
    BY <2>5, ReturnKeeps DEF LowerRefused
  <2>6. CASE AnalyzeMismatch
    BY <2>6, ReturnKeeps DEF AnalyzeMismatch
  <2>7. CASE AnalyzeUnsupported
    BY <2>7, ReturnKeeps DEF AnalyzeUnsupported
  <2>8. CASE Incomplete
    BY <2>8, ReturnKeeps DEF Incomplete
  <2>9. CASE Restart
    BY <2>9, ReturnKeeps DEF Restart
  <2>10. CASE Lower
    BY <2>10, LowerKeeps
  <2>11. CASE AnalyzeFresh \/ AnalyzeWarm
    BY <2>11, AnalyzeKeeps
  <2>12. CASE AnswerExact \/ Commit \/ Restore
    BY <2>12, PublishKeeps
  <2>13. CASE UNCHANGED incVars
    BY <2>13 DEF incVars, IncrementalFlow, ColdState, CallFlow, AnswerFlow
  <2> QED
    BY <2>1, <2>2, <2>3, <2>4, <2>5, <2>6, <2>7, <2>8, <2>9, <2>10, <2>11, <2>12, <2>13
    DEF IncNext, Analyze
<1> QED
  BY <1>1, <1>2, PTL DEF IncSpec

\* What a session retains after any mix of exact, retained, tracked and cold
\* answers, failed calls, restarts and restored snapshots is what a cold session
\* would have produced (incremental.rs analyze, restore; affected_files;
\* affected_declarations).
THEOREM WarmAlwaysCold == IncSpec => []WarmIsCold
<1>1. IncrementalFlow => WarmIsCold
  <2> SUFFICES ASSUME IncrementalFlow, state # NoState,
                      NEW q, q = [src |-> state.revisions, packages |-> state.hir.packages,
                                  graph |-> state.hir.graph, ident |-> state.analysis.ident]
               PROVE  /\ state.hir = LowerCold(q)
                      /\ state.analysis = AnalyzeCold(LowerCold(q), q)
                      /\ Complete(state.hir.program)
    BY DEF WarmIsCold
  <2>1. PICK r \in Request : state = ColdRevision(r) /\ Complete(LowerCold(r).program)
    BY DEF IncrementalFlow, ColdState
  <2>2. /\ state.revisions = r.src /\ state.hir = LowerCold(r)
        /\ state.hir.packages = r.packages /\ state.hir.graph = r.graph
        /\ state.analysis = AnalyzeCold(LowerCold(r), r)
        /\ state.analysis.ident = r.ident
        /\ r = [src |-> r.src, packages |-> r.packages, graph |-> r.graph, ident |-> r.ident]
    BY <2>1, ColdFields
  <2>3. q = r
    BY <2>2
  <2> QED
    BY <2>1, <2>2, <2>3
<1> QED
  BY <1>1, IncrementalInvariant, PTL

\* A successful answer is for the request on every path, and a call holds a
\* product exactly when it has passed its producer (incremental.rs analyze).
THEOREM AnswersAlwaysHold == IncSpec => []AnswersHold
<1>1. IncrementalFlow => AnswersHold
  <2> SUFFICES ASSUME IncrementalFlow PROVE IncrementalTypeOK /\ AnswerIsCurrent
    BY DEF AnswersHold
  <2>1. outcome = "ok" => /\ state # NoState
                          /\ state.revisions = req.src
                          /\ state.hir.packages = req.packages /\ state.hir.graph = req.graph
                          /\ state.analysis.ident = req.ident
    BY ColdFields DEF IncrementalFlow, AnswerFlow
  <2>2. state = NoState \/ DOMAIN state = {"revisions", "hir", "analysis"}
    BY ColdFields DEF IncrementalFlow, ColdState
  <2>3. /\ plan.hir \in {"cold", "exact", "refuse", "retained", "tracked"}
        /\ plan.affected \subseteq Files
        /\ plan.hir = "tracked" => state # NoState /\ plan.affected # {}
    <3>1. CASE pc = "idle"
      BY <3>1 DEF IncrementalFlow, CallFlow, Cold, Whole
    <3>2. CASE pc # "idle"
      BY <3>2, PlanFacts DEF IncrementalFlow, CallFlow
    <3> QED
      BY <3>1, <3>2
  <2>4. (hir # Nothing) <=> pc \in {"lowered", "analyzed"}
    BY ColdFields DEF IncrementalFlow, CallFlow
  <2>5. (analysis # Nothing) <=> pc = "analyzed"
    <3>1. \A h, r : AnalyzeCold(h, r) # Nothing
      <4> SUFFICES ASSUME NEW h, NEW r PROVE AnalyzeCold(h, r) # Nothing
        OBVIOUS
      <4>1. "program" \in DOMAIN AnalyzeCold(h, r)
        BY DEF AnalyzeCold
      <4>2. "program" \notin DOMAIN Nothing
        BY DEF Nothing
      <4> QED
        BY <4>1, <4>2
    <3> QED
      BY <3>1 DEF IncrementalFlow, CallFlow
  <2>6. /\ pc \in {"idle", "planned", "lowered", "analyzed"}
        /\ req = Nothing \/ req \in Request
        /\ outcome \in {"none", "ok", "refused", "cancelled", "incomplete", "shape",
                        "mismatch", "unsupported", "restored", "corrupt"}
    BY DEF IncrementalFlow, CallFlow, AnswerFlow
  <2>7. IncrementalTypeOK
    BY <2>2, <2>3, <2>4, <2>5, <2>6 DEF IncrementalTypeOK
  <2>8. AnswerIsCurrent
    BY <2>1 DEF AnswerIsCurrent
  <2> QED
    BY <2>7, <2>8
<1> QED
  BY <1>1, IncrementalInvariant, PTL

\* A call that has not succeeded leaves the retained revision as it was
\* (incremental.rs, comment on analyze).
THEOREM PriorAlwaysSurvives == IncSpec => PriorSurvives
<1>1. [IncNext]_incVars =>
        [(pc' # "idle" \/ outcome' \notin {"none", "ok", "restored"}) => state' = state]_incVars
  <2> SUFFICES ASSUME IncNext
               PROVE  (pc' # "idle" \/ outcome' \notin {"none", "ok", "restored"}) => state' = state
    OBVIOUS
  <2>1. CASE Commit \/ Restart
    BY <2>1 DEF Commit, Restart, Return
  <2>2. CASE Restore
    BY <2>2 DEF Restore
  <2>3. CASE Lower
    BY <2>3 DEF Lower, KeptWhileLowering
  <2>4. CASE \E r \in Request : BeginAnalysis(r)
    BY <2>4 DEF BeginAnalysis
  <2>5. CASE BeginRefused \/ GiveUp \/ RefuseIdentity \/ AnswerExact
    BY <2>5 DEF BeginRefused, GiveUp, RefuseIdentity, AnswerExact
  <2>6. CASE LowerRefused \/ AnalyzeFresh \/ AnalyzeWarm \/ AnalyzeMismatch
    BY <2>6 DEF LowerRefused, AnalyzeFresh, AnalyzeWarm, AnalyzeMismatch
  <2>7. CASE AnalyzeUnsupported \/ Incomplete
    BY <2>7 DEF AnalyzeUnsupported, Incomplete
  <2> QED
    BY <2>1, <2>2, <2>3, <2>4, <2>5, <2>6, <2>7 DEF IncNext, Analyze
<1> QED
  BY <1>1, PTL DEF IncSpec, PriorSurvives
=============================================================================
