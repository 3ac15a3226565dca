---------------------------- MODULE QmpShutdown ----------------------------
(***************************************************************************)
(* request_qmp_shutdown (wrela-test-runner, local.rs): the request-shutdown *)
(* step of a scenario asks QEMU to quit over its QMP monitor socket while  *)
(* the guest may end by itself at any moment.                              *)
(*                                                                         *)
(* A message is two fragments on the wire, so a read may end inside one.   *)
(* QEMU is external: what it may do is taken from what the code waits for. *)
(***************************************************************************)
EXTENDS Naturals, Sequences

CONSTANTS
  Messages,    \* QMP_MAXIMUM_MESSAGES_PER_PHASE
  Buffered,    \* QMP_MESSAGE_BYTES, in fragments
  Chunk,       \* the size of the read buffer, in fragments
  MaxEvents    \* bound: asynchronous events QEMU sends

ASSUME QmpAssumption ==
  /\ Messages \in Nat \ {0} /\ Chunk \in Nat \ {0} /\ MaxEvents \in Nat
  /\ Buffered \in Nat /\ Buffered >= Chunk + 1

VARIABLES
  qemu,      \* "starting", "listening", "serving", "closed" (monitor gone, the
             \* process not yet) or "gone"
  capable,   \* QEMU has left negotiation mode
  quitting,  \* QEMU has taken the quit command
  requests,  \* commands on their way to QEMU
  wire,      \* fragments on their way to the host
  reset,     \* the connection ended with commands unread
  events,    \* events sent
  buffer,    \* the fragments the host has read and not yet parsed
  phase,     \* where request_qmp_shutdown is
  count,     \* messages examined in this phase
  qmpStatus,    \* the session has seen the process exit
  qmpExpired,   \* the deadline of the step or of the run has passed
  qmpResult     \* "none", "complete", "timedOut" or an error

qemuVars == <<qemu, capable, quitting, requests, wire, reset, events>>
qmpVars == <<qemuVars, buffer, phase, count, qmpStatus, qmpExpired, qmpResult>>

Event == "event"
Kinds == {"greeting", Event, "capabilities", "quit", "rejected"}
Fragments(kind) == <<<<kind, 1>>, <<kind, 2>>>>
Phases == {"connect", "greeting", "sendCapabilities", "capabilities",
           "sendQuit", "quit", "awaitExit", "done"}

QmpInit ==
  /\ qemu = "starting" /\ capable = FALSE /\ quitting = FALSE
  /\ requests = <<>> /\ wire = <<>> /\ reset = FALSE /\ events = 0
  /\ buffer = <<>> /\ phase = "connect" /\ count = 0
  /\ qmpStatus = FALSE /\ qmpExpired = FALSE /\ qmpResult = "none"

hostVars == <<buffer, phase, count, qmpStatus, qmpExpired, qmpResult>>

-----------------------------------------------------------------------------
(* QEMU and the clock *)

QemuListens ==
  /\ qemu = "starting"
  /\ qemu' = "listening"
  /\ UNCHANGED <<capable, quitting, requests, wire, reset, events, hostVars>>

\* An event may come between any two replies.
QemuEvent ==
  /\ qemu = "serving" /\ events < MaxEvents
  /\ wire' = wire \o Fragments(Event)
  /\ events' = events + 1
  /\ UNCHANGED <<qemu, capable, quitting, requests, reset, hostVars>>

\* A command is taken or answered with an error; none but the first is taken
\* in negotiation mode.
QemuServes(taken) ==
  /\ qemu = "serving" /\ requests # <<>>
  /\ requests' = Tail(requests)
  /\ taken => capable \/ Head(requests) = "capabilities"
  /\ LET command == Head(requests)
     IN  /\ wire' = wire \o Fragments(IF taken THEN command ELSE "rejected")
         /\ capable' = (capable \/ (taken /\ command = "capabilities"))
         /\ quitting' = (quitting \/ (taken /\ command = "quit"))
  /\ UNCHANGED <<qemu, reset, events, hostVars>>

\* The monitor closes because of quit, or because the guest ended on its own;
\* the last message may be written in part or not at all.  Commands that were
\* never read reset the connection.
QemuCloses ==
  /\ qemu \in {"listening", "serving"}
  /\ qemu' = "closed"
  /\ reset' = (requests # <<>>)
  /\ \E lost \in 0..2 :
       /\ lost <= Len(wire)
       /\ wire' = SubSeq(wire, 1, Len(wire) - lost)
  /\ UNCHANGED <<capable, quitting, requests, events, hostVars>>

\* The process exits after its monitor closed; nothing says that it must.
QemuExits ==
  /\ qemu \in {"starting", "closed"}
  /\ qemu' = "gone"
  /\ UNCHANGED <<capable, quitting, requests, wire, reset, events, hostVars>>

QmpExpire ==
  /\ ~qmpExpired
  /\ qmpExpired' = TRUE
  /\ UNCHANGED <<qemuVars, buffer, phase, count, qmpStatus, qmpResult>>

-----------------------------------------------------------------------------
(* The host *)

Ended(how) ==
  /\ phase' = "done"
  /\ qmpResult' = how
  /\ UNCHANGED <<buffer, count>>

\* session.pump asks for the exit status before each attempt.
Pumped == qmpStatus' = (qmpStatus \/ qemu = "gone")

\* The step was cancelled, or the output budget or the observer failed it.
PumpFails ==
  /\ phase # "done"
  /\ Ended("cancelled")
  /\ UNCHANGED <<qemuVars, qmpStatus, qmpExpired>>

\* One round of the connect loop: the socket may not exist yet.
Connect ==
  /\ phase = "connect"
  /\ Pumped
  /\ \/ qmpStatus' /\ Ended("exitedEarly") /\ UNCHANGED qemuVars
     \/ ~qmpStatus' /\ qmpExpired /\ Ended("timedOut") /\ UNCHANGED qemuVars
     \/ /\ ~qmpStatus' /\ ~qmpExpired /\ qemu = "listening"
        /\ qemu' = "serving"
        /\ wire' = wire \o Fragments("greeting")
        /\ phase' = "greeting"
        /\ UNCHANGED <<capable, quitting, requests, reset, events, buffer, count, qmpResult>>
  /\ UNCHANGED qmpExpired

Reading == phase \in {"greeting", "capabilities", "quit"}

\* Mutant: a line is taken as soon as its first fragment is there.
LineReady_Partial == buffer # <<>>

\* take_qmp_line: a whole line is buffered.
LineReady == Len(buffer) >= 2

\* Mutant: what was read with the line goes with it.
Rest_Dropped == <<>>

\* What is left of the buffer when the first line is taken.
Rest == SubSeq(buffer, 3, Len(buffer))

\* read_qmp_line without a buffered line: pump, look at the clock, read.
Read ==
  /\ Reading /\ ~LineReady
  /\ Pumped
  /\ \/ /\ qmpExpired /\ Ended("timedOut") /\ UNCHANGED wire
     \/ /\ ~qmpExpired /\ wire # <<>>
        /\ \E n \in 1..(IF Len(wire) < Chunk THEN Len(wire) ELSE Chunk) :
             IF Len(buffer) + n > Buffered
             THEN Ended("tooLong") /\ UNCHANGED wire
             ELSE /\ buffer' = buffer \o SubSeq(wire, 1, n)
                  /\ wire' = SubSeq(wire, n + 1, Len(wire))
                  /\ UNCHANGED <<phase, count, qmpResult>>
  /\ UNCHANGED <<qemu, capable, quitting, requests, reset, events, qmpExpired>>

\* The connection has ended: with a reset, inside a message, or cleanly; only
\* after quit may that be success.
ReadEnds ==
  /\ Reading /\ ~LineReady
  /\ wire = <<>> /\ qemu \in {"closed", "gone"}
  /\ Pumped
  /\ \/ qmpExpired /\ Ended("timedOut")
     \/ ~qmpExpired /\ (reset \/ buffer # <<>>) /\ Ended("broken")
     \/ /\ ~qmpExpired /\ ~reset /\ buffer = <<>>
        /\ IF phase = "quit"
           THEN phase' = "awaitExit" /\ UNCHANGED <<buffer, count, qmpResult>>
           ELSE Ended("closedEarly")
  /\ UNCHANGED <<qemuVars, qmpExpired>>

NextPhase == [greeting |-> "sendCapabilities", capabilities |-> "sendQuit", quit |-> "done"]

\* Mutant: one message more than the limit is examined.
WithinPhase_OneMore(n) == n <= Messages

\* Mutant: the last message of a phase is not examined.
WithinPhase_OneLess(n) == n < Messages - 1

\* for _ in 0..QMP_MAXIMUM_MESSAGES_PER_PHASE
WithinPhase(n) == n < Messages

\* Mutant: the id of a reply is not compared, any message answers.
Awaited_AnyMessage(kind) == phase = "greeting" => kind = phase

\* Whether the message is what the phase waits for.
Awaited(kind) == kind = phase

\* One buffered line: the greeting must be the first message; a reply is
\* looked for among at most Messages messages.
TakeLine ==
  /\ Reading /\ LineReady
  /\ LET kind == buffer[1][1]
     IN  \/ /\ Awaited(kind)
            /\ buffer' = Rest /\ count' = 0
            /\ phase' = NextPhase[phase]
            /\ qmpResult' = IF phase = "quit" THEN "complete" ELSE qmpResult
         \/ /\ ~Awaited(kind)
            /\ phase = "greeting" \/ kind = "rejected"
            /\ Ended("refused")
         \/ /\ ~Awaited(kind) /\ phase # "greeting" /\ kind # "rejected"
            /\ IF WithinPhase(count + 1)
               THEN /\ buffer' = Rest /\ count' = count + 1
                    /\ UNCHANGED <<phase, qmpResult>>
               ELSE Ended("flooded")
  /\ UNCHANGED <<qemuVars, qmpStatus, qmpExpired>>

\* write_qmp_request; the socket may be closed under the request.
Send ==
  /\ phase \in {"sendCapabilities", "sendQuit"}
  /\ Pumped
  /\ \/ qmpStatus' /\ Ended("exitedEarly") /\ UNCHANGED requests
     \/ ~qmpStatus' /\ qmpExpired /\ Ended("timedOut") /\ UNCHANGED requests
     \/ ~qmpStatus' /\ ~qmpExpired /\ qemu # "serving" /\ Ended("broken") /\ UNCHANGED requests
     \/ /\ ~qmpStatus' /\ ~qmpExpired /\ qemu = "serving"
        /\ LET command == IF phase = "sendQuit" THEN "quit" ELSE "capabilities"
           IN  requests' = Append(requests, command) /\ phase' = command
        /\ UNCHANGED <<buffer, count, qmpResult>>
  /\ UNCHANGED <<qemu, capable, quitting, wire, reset, events, qmpExpired>>

\* Mutant: once the monitor has closed the deadline is no longer looked at.
ExitWaitEnds_Never == FALSE

ExitWaitEnds == qmpExpired

\* The monitor closed after quit: only the exit of the process completes it.
AwaitExit ==
  /\ phase = "awaitExit"
  /\ Pumped
  /\ \/ qmpStatus' /\ Ended("complete")
     \/ ~qmpStatus' /\ ExitWaitEnds /\ Ended("timedOut")
  /\ UNCHANGED <<qemuVars, qmpExpired>>

Host == Connect \/ Read \/ ReadEnds \/ TakeLine \/ Send \/ AwaitExit
Qemu ==
  \/ QemuListens \/ QemuEvent \/ QemuCloses \/ QemuExits
  \/ \E taken \in BOOLEAN : QemuServes(taken)

QmpNext == Host \/ PumpFails \/ Qemu \/ QmpExpire

QmpSpec == QmpInit /\ [][QmpNext]_qmpVars /\ WF_qmpVars(Host) /\ WF_qmpVars(QmpExpire)

-----------------------------------------------------------------------------
(* Properties *)

\* The phases, their counter and the buffer stay in range: a phase never
\* examines more than its messages, and the buffer never passes its limit.
QmpTypeOK ==
  /\ qemu \in {"starting", "listening", "serving", "closed", "gone"}
  /\ phase \in Phases
  /\ count \in 0..(Messages - 1)
  /\ Len(buffer) <= Buffered
  /\ \A i \in 1..Len(buffer) : buffer[i] \in Kinds \X {1, 2}
  /\ (phase = "done") <=> (qmpResult # "none")

\* The step completes only when QEMU has taken the quit command or its process
\* has ended: neither a reply to another command, nor a closed monitor of a
\* process that still runs, is taken for a shutdown.
CompleteIsShutdown ==
  qmpResult = "complete" => quitting \/ qemu = "gone"

\* What the host has buffered and what is on the wire are whole messages, the
\* last one cut only by the end of the connection: reads that end inside a
\* message or past one lose nothing.
FramesAligned ==
  qmpResult = "none" =>
    LET all == buffer \o wire
    IN  /\ \A i \in 1..Len(all) : all[i][2] = IF i % 2 = 1 THEN 1 ELSE 2
        /\ qemu \notin {"closed", "gone"} => Len(all) % 2 = 0

\* While QEMU serves and does not flood, the step fails for no reason of its
\* own: a failure means that the monitor ended, QEMU refused a command, the host
\* gave up, or a phase really saw Messages other messages.
FailureHasCause ==
  /\ qmpResult \in {"broken", "closedEarly", "exitedEarly"} => qemu \in {"closed", "gone"}
  /\ qmpResult = "flooded" => events >= Messages
  /\ qmpResult = "refused" => ~capable \/ ~quitting
  /\ qmpResult # "tooLong"

\* The step as a whole: reads lose no message, completion means a shutdown,
\* and every failure has its cause outside the host.
QmpInv == QmpTypeOK /\ FramesAligned /\ CompleteIsShutdown /\ FailureHasCause

\* The step always ends: no combination of a missing socket, a silent monitor,
\* a flood of events or a process that closes its monitor and never exits
\* holds the scenario past its deadline.
ShutdownReturns == <>(phase = "done")
=============================================================================
