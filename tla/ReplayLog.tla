----------------------------- MODULE ReplayLog -----------------------------
(***************************************************************************)
(* The record and replay log of the target runtime (runtime.S,             *)
(* wrela_rt_v2_record_event and wrela_rt_v2_replay_event): a byte buffer   *)
(* that image code and interrupt handlers append events to, and that the   *)
(* first replay freezes and reads back from the start.                     *)
(*                                                                         *)
(* Both routines mask interrupts for their whole length on the only core   *)
(* that runs, so each call is one step.  A cell of the buffer holds which  *)
(* byte of which event was stored there last.                              *)
(***************************************************************************)
EXTENDS Integers, Sequences

CONSTANTS
    Kinds,        \* event kinds of the program
    Marker,       \* kind -1, the overflow marker
    Payloads,
    Length,       \* Length[p]: the payload's bytes as the caller gives them
    Capacities,   \* sizes of replay destinations
    LogBytes,     \* WRELA_LOG_BYTES
    HeaderBytes,  \* kind and length words
    Word,         \* 2^64, where a sum carries
    MaxEvents,    \* bound on the events recorded
    NoPayload, None

ASSUME LogAssumption ==
    /\ Marker \notin Kinds
    /\ NoPayload \notin Payloads
    /\ HeaderBytes \in Nat \ {0}
    /\ LogBytes \in Nat
    /\ HeaderBytes <= LogBytes
    /\ Word \in Nat
    /\ LogBytes < Word
    /\ Capacities \subseteq Nat
    /\ Length \in [Payloads \cup {NoPayload} -> Nat]
    /\ Length[NoPayload] = 0

ASSUME NoneAssumption == None \notin {"corrupt", "bad state", "exhausted", "overflow"}

VARIABLES
    log,        \* log[b]: the byte at offset b
    mode,       \* "RECORD", "OVERFLOWED" or "REPLAY"
    write,      \* record_write
    read,       \* record_read
    fatal,      \* the code the runtime halted with, or None
    attempted,  \* history: the events given to record_event before the freeze
    starts,     \* history: the offsets of the events it took
    replayed    \* history: what replay_event returned

logVars == <<log, mode, write, read, fatal, attempted, starts, replayed>>

RecordLimit == LogBytes - HeaderBytes
Events == [kind : Kinds, payload : Payloads]
MarkerEvent == [kind |-> Marker, payload |-> NoPayload]
Extent(e) == HeaderBytes + Length[e.payload]

\* The buffer after event e is stored at offset o.
Stored(o, e) ==
    [b \in 0 .. LogBytes - 1 |->
        IF b \in o .. o + Extent(e) - 1 THEN [event |-> e, byte |-> b - o] ELSE log[b]]

LogInit ==
    /\ log = [b \in 0 .. LogBytes - 1 |-> [event |-> MarkerEvent, byte |-> HeaderBytes]]
    /\ mode = "RECORD"
    /\ write = 0
    /\ read = 0
    /\ fatal = None
    /\ attempted = << >>
    /\ starts = << >>
    /\ replayed = << >>

\* Mutant: the sum is compared after it has wrapped.
Fits_Wraps(e) == write + (Extent(e) % Word) <= RecordLimit

\* record_event: neither sum carries and the end is within the limit.
Fits(e) ==
    /\ Extent(e) < Word
    /\ write + Extent(e) < Word
    /\ write + Extent(e) <= RecordLimit

\* Mutant: only the overflow stops the recording.
Recording_InReplay == mode # "OVERFLOWED"

\* record_event takes events until an overflow or a replay.
Recording == mode = "RECORD"

\* record_event appends the event.
Record(e) ==
    /\ fatal = None
    /\ Recording
    /\ Len(attempted) < MaxEvents
    /\ Fits(e)
    /\ log' = Stored(write, e)
    /\ write' = write + Extent(e)
    /\ attempted' = Append(attempted, e)
    /\ starts' = Append(starts, write)
    /\ UNCHANGED <<mode, read, fatal, replayed>>

\* Mutant: the mode is not changed, later events are still taken.
Overflowed_StillRecording == "RECORD"

\* The mode after an event that did not fit.
Overflowed == "OVERFLOWED"

\* record_event stores the marker instead and returns OUT_OF_RESOURCES; it
\* halts when its own cursor is out of range.
RecordOverflows(e) ==
    /\ fatal = None
    /\ Recording
    /\ Len(attempted) < MaxEvents
    /\ ~Fits(e)
    /\ attempted' = Append(attempted, e)
    /\ IF write > RecordLimit
       THEN fatal' = "corrupt" /\ UNCHANGED <<log, write, mode>>
       ELSE /\ log' = Stored(write, MarkerEvent)
            /\ write' = write + HeaderBytes
            /\ mode' = Overflowed
            /\ UNCHANGED fatal
    /\ UNCHANGED <<read, starts, replayed>>

\* record_event returns ACCESS_DENIED after an overflow (after a freeze it
\* changes nothing either, and nothing is missed).
RecordDenied(e) ==
    /\ fatal = None
    /\ mode = "OVERFLOWED"
    /\ Len(attempted) < MaxEvents
    /\ attempted' = Append(attempted, e)
    /\ UNCHANGED <<log, mode, write, read, fatal, starts, replayed>>

\* The cursor of a replay: the first one freezes the log and starts over.
Cursor == IF mode = "REPLAY" THEN read ELSE 0

\* Mutant: the end of the log is looked for after the marker's place.
ReplayCode_MarkerIgnored(k, capacity) ==
    IF Cursor + HeaderBytes > write \/ log[Cursor].event.kind = Marker THEN "exhausted"
    ELSE IF log[Cursor].event.kind # k THEN "mismatch"
    ELSE IF Length[log[Cursor].event.payload] > capacity THEN "small"
    ELSE None

\* Why replay_event halts, or None.
ReplayCode(k, capacity) ==
    LET e == log[Cursor].event IN
    IF Cursor > write THEN "bad state"
    ELSE IF Cursor + HeaderBytes > write THEN "exhausted"
    ELSE IF e.kind = Marker THEN "overflow"
    ELSE IF e.kind # k THEN "mismatch"
    ELSE IF Length[e.payload] > capacity THEN "small"
    ELSE IF Cursor + Extent(e) > write THEN "bad state"
    ELSE None

\* The event at offset o is in the buffer byte for byte.
Whole(o) ==
    \A b \in 0 .. Extent(log[o].event) - 1 :
        log[o + b] = [event |-> log[o].event, byte |-> b]

\* Mutant: the cursor is advanced past the payload only.
Advanced_NoHeader(e) == Cursor + Length[e.payload]

\* The cursor behind an event.
Advanced(e) == Cursor + Extent(e)

\* replay_event copies the payload of the next event, or halts.
Replay(k, capacity) ==
    LET e == log[Cursor].event IN
    /\ fatal = None
    /\ mode' = "REPLAY"
    /\ fatal' = ReplayCode(k, capacity)
    /\ IF ReplayCode(k, capacity) = None
       THEN /\ read' = Advanced(e)
            /\ replayed' = Append(replayed, IF Whole(Cursor) THEN e ELSE MarkerEvent)
       ELSE /\ read' = Cursor
            /\ UNCHANGED replayed
    /\ UNCHANGED <<log, write, attempted, starts>>

LogNext ==
    \/ \E e \in Events : Record(e) \/ RecordOverflows(e) \/ RecordDenied(e)
    \/ \E k \in Kinds, c \in Capacities : Replay(k, c)

LogSpec == LogInit /\ [][LogNext]_logVars

---------------------------------------------------------------------------
(* Properties                                                              *)

\* Every variable keeps its type and the cursors stay within the buffer: the
\* marker always finds room for itself.
LogTypeOK ==
    /\ mode \in {"RECORD", "OVERFLOWED", "REPLAY"}
    /\ write \in 0 .. LogBytes
    /\ read \in 0 .. write
    /\ mode = "RECORD" => write <= RecordLimit
    /\ DOMAIN log = 0 .. LogBytes - 1
    /\ Len(starts) <= Len(attempted)

\* What is replayed is what was recorded, in order and byte for byte, from the
\* first event on: nothing is skipped, repeated or mixed up.
ReplayFollowsRecord ==
    /\ Len(replayed) <= Len(attempted)
    /\ \A i \in 1 .. Len(replayed) : replayed[i] = attempted[i]

\* The log never finds its own cursors or extents inconsistent.
NeverCorrupt == fatal \notin {"corrupt", "bad state"}

\* A replay that ends without the overflow code has lost no event: "exhausted"
\* means that every event given to record_event was replayed.
ExhaustedMeansAll == fatal = "exhausted" => replayed = attempted

\* The overflow code is met only when an event was in fact refused, after
\* every event before it was replayed.
MarkerMeansLost ==
    fatal = "overflow" =>
        Len(replayed) = Len(starts) /\ Len(starts) < Len(attempted)

\* The log says of itself only what is true: its cursors stay in range, it
\* never calls itself corrupt, and the end of a replay tells a complete log from
\* one that lost events.
LogSafe == LogTypeOK /\ NeverCorrupt /\ ExhaustedMeansAll /\ MarkerMeansLost

\* Once a replay has begun the log is frozen.
FrozenAfterReplay == [][mode = "REPLAY" => log' = log /\ write' = write]_logVars
=============================================================================
