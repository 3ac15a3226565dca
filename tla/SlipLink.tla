------------------------------ MODULE SlipLink ------------------------------
(***************************************************************************)
(* The test-event transport between a guest and the host, byte by byte:    *)
(*                                                                         *)
(*   - the sender, .Lslip_send over the bounded .Lpl011_putc of runtime.S; *)
(*   - decode_slip of wrela-test-runner/src/harness.rs, which decodes the  *)
(*     captured output after the run ("batch");                            *)
(*   - LiveSerialObserver of wrela-test-runner/src/local.rs, which decodes *)
(*     the same bytes while the guest runs ("live").                       *)
(*                                                                         *)
(* Both decoders are left folds over the captured bytes, so their state    *)
(* after a prefix does not depend on how far the pipe lags: the model      *)
(* feeds every transmitted byte to both at once, and EndOfStream may       *)
(* happen after any byte.  Firmware writes to the same UART while no frame *)
(* is being transmitted.                                                   *)
(***************************************************************************)
EXTENDS Integers, Sequences

CONSTANTS Byte,                          \* the bytes of the model
          END, ESC, ESC_END, ESC_ESC,    \* WRELA_SLIP_*
          Magic,                         \* TEST_FRAME_MAGIC
          Frames,                        \* canonical unescaped frames
          Noise,                         \* bytes firmware may write
          FrameLimit,                    \* ProtocolLimits::frame_bytes
          Nothing,                       \* no frame in transmission
          MaxFrames, MaxNoise            \* bounds: frames sent, noise bytes

ASSUME SlipBytes ==
    /\ {END, ESC, ESC_END, ESC_ESC} \subseteq Byte
    /\ END # ESC /\ END # ESC_END /\ END # ESC_ESC
    /\ ESC # ESC_END /\ ESC # ESC_ESC /\ ESC_END # ESC_ESC
    /\ Noise \subseteq Byte \ {END}

ASSUME MagicBytes ==
    /\ Magic \in Seq(Byte \ {END, ESC})
    /\ Len(Magic) > 0

\* Every canonical frame starts with the magic and respects the byte limit.
ASSUME FrameShape ==
    /\ FrameLimit \in Nat /\ Len(Magic) <= FrameLimit
    /\ Nothing \notin Frames
    /\ \A f \in Frames :
         /\ f \in Seq(Byte)
         /\ Len(Magic) <= Len(f) /\ Len(f) <= FrameLimit
         /\ \A i \in 1 .. Len(Magic) : f[i] = Magic[i]

\* Firmware text never completes the reserved magic, whose last byte is NUL.
ASSUME NoiseOutsideMagic == Magic[Len(Magic)] \notin Noise

ASSUME Bounds == MaxFrames \in Nat /\ MaxNoise \in Nat

VARIABLES
    phase,      \* sender: "idle", "open", "body", "half", "dead"
    cur,        \* the frame slip_send was called with, or Nothing
    pos,        \* bytes of cur transmitted completely
    sent,       \* frames for which slip_send returned 0
    noise,      \* noise bytes written so far
    bMode,      \* batch: "preamble", "frame", "escape", "raw", "failed"
    bFrame,     \* batch: unescaped bytes of the open segment
    bSegs,      \* batch: segments appended to the unescaped stream
    lMode,      \* live: the same modes
    lFrame,     \* live: unescaped bytes of the open segment
    lFrames,    \* live: frames verified and kept as events
    closed      \* "no", "complete" (exit code 0) or "prefix" (anything else)

sender == <<phase, cur, pos, sent>>
batch  == <<bMode, bFrame, bSegs>>
live   == <<lMode, lFrame, lFrames>>
vars   == <<sender, noise, batch, live, closed>>

Modes == {"preamble", "frame", "escape", "raw", "failed"}

TypeOK ==
    /\ phase \in {"idle", "open", "body", "half", "dead"}
    /\ cur \in Frames \cup {Nothing}
    /\ pos \in Nat
    /\ sent \in Seq(Frames)
    /\ noise \in 0 .. MaxNoise
    /\ bMode \in Modes /\ bFrame \in Seq(Byte) /\ bSegs \in Seq(Seq(Byte))
    /\ lMode \in Modes /\ lFrame \in Seq(Byte) /\ lFrames \in Seq(Frames)
    /\ closed \in {"no", "complete", "prefix"}

Init ==
    /\ phase = "idle" /\ cur = Nothing /\ pos = 0 /\ sent = <<>>
    /\ noise = 0
    /\ bMode = "preamble" /\ bFrame = <<>> /\ bSegs = <<>>
    /\ lMode = "preamble" /\ lFrame = <<>> /\ lFrames = <<>>
    /\ closed = "no"

-----------------------------------------------------------------------------
(* decode_slip: one byte of the captured output.                           *)

\* Mutant: the two escape codes are exchanged.
Unescaped_Swapped(b) == IF b = ESC_ESC THEN END ELSE ESC

Unescaped(b) == IF b = ESC_END THEN END ELSE ESC

\* Mutant: the frame limit is one byte short.
BatchSegmentByte_ShortLimit(b) ==
    \/ /\ Len(bFrame) < Len(Magic) /\ b # Magic[Len(bFrame) + 1]
       /\ bMode' = "raw" /\ bFrame' = <<>>
    \/ /\ Len(bFrame) < Len(Magic) => b = Magic[Len(bFrame) + 1]
       /\ IF Len(bFrame) + 1 >= FrameLimit
          THEN bMode' = "failed" /\ UNCHANGED bFrame
          ELSE bMode' = "frame" /\ bFrame' = Append(bFrame, b)

\* push_segment_byte and push_frame_byte: a byte that leaves the magic makes
\* the segment raw, a byte beyond the frame limit fails the decode.
BatchSegmentByte(b) ==
    \/ /\ Len(bFrame) < Len(Magic) /\ b # Magic[Len(bFrame) + 1]
       /\ bMode' = "raw" /\ bFrame' = <<>>
    \/ /\ Len(bFrame) < Len(Magic) => b = Magic[Len(bFrame) + 1]
       /\ Len(bFrame) >= FrameLimit
       /\ bMode' = "failed" /\ UNCHANGED bFrame
    \/ /\ Len(bFrame) < Len(Magic) => b = Magic[Len(bFrame) + 1]
       /\ Len(bFrame) < FrameLimit
       /\ bMode' = "frame" /\ bFrame' = Append(bFrame, b)

BatchPush(b) ==
    \/ /\ bMode = "preamble"
       /\ bMode' = IF b = END THEN "frame" ELSE "preamble"
       /\ UNCHANGED <<bFrame, bSegs>>
    \/ /\ bMode = "raw"
       /\ bMode' = IF b = END THEN "frame" ELSE "raw"
       /\ bFrame' = <<>>
       /\ UNCHANGED bSegs
    \/ /\ bMode = "escape" /\ b \in {ESC_END, ESC_ESC}
       /\ BatchSegmentByte(Unescaped(b))
       /\ UNCHANGED bSegs
    \/ /\ bMode = "escape" /\ b \notin {ESC_END, ESC_ESC}
       /\ IF Len(bFrame) >= Len(Magic)
          THEN bMode' = "failed" /\ UNCHANGED bFrame
          ELSE bMode' = "raw" /\ bFrame' = <<>>
       /\ UNCHANGED bSegs
    \/ /\ bMode = "frame" /\ b = END
       /\ bSegs' = IF Len(bFrame) >= Len(Magic) THEN Append(bSegs, bFrame) ELSE bSegs
       /\ bFrame' = <<>>
       /\ UNCHANGED bMode
    \/ /\ bMode = "frame" /\ b = ESC
       /\ bMode' = "escape"
       /\ UNCHANGED <<bFrame, bSegs>>
    \/ /\ bMode = "frame" /\ b \notin {END, ESC}
       /\ BatchSegmentByte(b)
       /\ UNCHANGED bSegs
    \/ bMode = "failed" /\ UNCHANGED batch

-----------------------------------------------------------------------------
(* LiveSerialObserver::push and finish_segment: the magic is compared with *)
(* the bytes as received, and every END closes the segment.                *)

\* Mutant: the byte that fills the frame is dropped.
LiveFrameByte_ShortLimit(b) ==
    IF Len(lFrame) + 1 >= FrameLimit
    THEN lMode' = "frame" /\ UNCHANGED lFrame
    ELSE lMode' = "frame" /\ lFrame' = Append(lFrame, b)

\* push_frame_byte
LiveFrameByte(b) ==
    IF Len(lFrame) >= FrameLimit
    THEN lMode' = "failed" /\ UNCHANGED lFrame
    ELSE lMode' = "frame" /\ lFrame' = Append(lFrame, b)

\* finish_segment: a segment with the magic must be a canonical frame.
LiveFinishSegment ==
    \/ /\ lMode = "raw" \/ Len(lFrame) < Len(Magic)
       /\ lMode' = "frame" /\ lFrame' = <<>>
       /\ UNCHANGED lFrames
    \/ /\ lMode # "raw" /\ Len(lFrame) >= Len(Magic)
       /\ lMode = "frame" /\ lFrame \in Frames
       /\ lMode' = "frame" /\ lFrame' = <<>>
       /\ lFrames' = Append(lFrames, lFrame)
    \/ /\ lMode # "raw" /\ Len(lFrame) >= Len(Magic)
       /\ lMode = "escape" \/ lFrame \notin Frames
       /\ lMode' = "failed"
       /\ UNCHANGED <<lFrame, lFrames>>

LivePush(b) ==
    \/ lMode = "failed" /\ UNCHANGED live
    \/ /\ lMode = "preamble"
       /\ lMode' = IF b = END THEN "frame" ELSE "preamble"
       /\ UNCHANGED <<lFrame, lFrames>>
    \/ /\ lMode \in {"frame", "escape", "raw"} /\ b = END
       /\ LiveFinishSegment
    \/ /\ lMode = "raw" /\ b # END
       /\ UNCHANGED live
    \/ /\ lMode = "frame" /\ b # END /\ Len(lFrame) < Len(Magic)
       /\ IF b = Magic[Len(lFrame) + 1]
          THEN LiveFrameByte(b)
          ELSE lMode' = "raw" /\ lFrame' = <<>>
       /\ UNCHANGED lFrames
    \/ /\ lMode = "frame" /\ b # END /\ Len(lFrame) >= Len(Magic)
       /\ IF b = ESC
          THEN lMode' = "escape" /\ UNCHANGED lFrame
          ELSE LiveFrameByte(b)
       /\ UNCHANGED lFrames
    \/ /\ lMode = "escape" /\ b # END
       /\ IF b \in {ESC_END, ESC_ESC}
          THEN LiveFrameByte(Unescaped(b))
          ELSE lMode' = "failed" /\ UNCHANGED lFrame
       /\ UNCHANGED lFrames

\* A byte accepted by the UART reaches both decoders.
Put(b) == BatchPush(b) /\ LivePush(b)

-----------------------------------------------------------------------------
(* .Lslip_send: END, the escaped bytes, END; each through .Lpl011_putc.    *)

SlipSend(f) ==
    /\ closed = "no" /\ phase = "idle" /\ Len(sent) < MaxFrames
    /\ phase' = "open" /\ cur' = f /\ pos' = 0
    /\ UNCHANGED <<sent, noise, batch, live, closed>>

PutOpeningEnd ==
    /\ closed = "no" /\ phase = "open"
    /\ Put(END)
    /\ phase' = "body"
    /\ UNCHANGED <<cur, pos, sent, noise, closed>>

\* Mutant: only END is escaped.
PutPlain_RawEsc ==
    /\ closed = "no" /\ phase = "body" /\ pos < Len(cur)
    /\ cur[pos + 1] # END
    /\ Put(cur[pos + 1])
    /\ pos' = pos + 1
    /\ UNCHANGED <<phase, cur, sent, noise, closed>>

PutPlain ==
    /\ closed = "no" /\ phase = "body" /\ pos < Len(cur)
    /\ cur[pos + 1] \notin {END, ESC}
    /\ Put(cur[pos + 1])
    /\ pos' = pos + 1
    /\ UNCHANGED <<phase, cur, sent, noise, closed>>

PutEscape ==
    /\ closed = "no" /\ phase = "body" /\ pos < Len(cur)
    /\ cur[pos + 1] \in {END, ESC}
    /\ Put(ESC)
    /\ phase' = "half"
    /\ UNCHANGED <<cur, pos, sent, noise, closed>>

PutEscaped ==
    /\ closed = "no" /\ phase = "half"
    /\ Put(IF cur[pos + 1] = END THEN ESC_END ELSE ESC_ESC)
    /\ phase' = "body" /\ pos' = pos + 1
    /\ UNCHANGED <<cur, sent, noise, closed>>

PutClosingEnd ==
    /\ closed = "no" /\ phase = "body" /\ pos = Len(cur)
    /\ Put(END)
    /\ phase' = "idle" /\ cur' = Nothing /\ pos' = 0
    /\ sent' = Append(sent, cur)
    /\ UNCHANGED <<noise, closed>>

\* Mutant: the caller goes on with the next frame after a timeout.
PutTimeout_Continues ==
    /\ closed = "no" /\ phase \in {"open", "body", "half"}
    /\ phase' = "idle" /\ cur' = Nothing /\ pos' = 0
    /\ UNCHANGED <<sent, noise, batch, live, closed>>

\* Mutant: the timeout path still writes the closing END.
PutTimeout_Closes ==
    /\ closed = "no" /\ phase \in {"open", "body", "half"}
    /\ Put(END)
    /\ phase' = "dead" /\ cur' = Nothing /\ pos' = 0
    /\ UNCHANGED <<sent, noise, closed>>

\* WRELA_PL011_POLLS reads of a full FIFO: slip_send returns 1 and its callers
\* transmit nothing more (the harness returns the status, the fatal paths halt).
PutTimeout ==
    /\ closed = "no" /\ phase \in {"open", "body", "half"}
    /\ phase' = "dead" /\ cur' = Nothing /\ pos' = 0
    /\ UNCHANGED <<sent, noise, batch, live, closed>>

\* Firmware output before, between and after the frames.
FirmwareByte(b) ==
    /\ closed = "no" /\ phase \in {"idle", "dead"} /\ noise < MaxNoise
    /\ Put(b)
    /\ noise' = noise + 1
    /\ UNCHANGED <<sender, closed>>

\* The emulator ends: decode_events keeps the complete prefix after a timeout
\* or a failed exit; exit code 0 needs the guest to have stopped transmitting.
EndOfStream(c) ==
    /\ closed = "no"
    /\ c = "complete" => phase \in {"idle", "dead"}
    /\ closed' = c
    /\ UNCHANGED <<sender, noise, batch, live>>

Next ==
    \/ \E f \in Frames : SlipSend(f)
    \/ PutOpeningEnd \/ PutPlain \/ PutEscape \/ PutEscaped \/ PutClosingEnd
    \/ PutTimeout
    \/ \E b \in Noise : FirmwareByte(b)
    \/ \E c \in {"complete", "prefix"} : EndOfStream(c)

Spec == Init /\ [][Next]_vars

-----------------------------------------------------------------------------
(* What the decoders return once the stream has ended.                     *)

\* Mutant: the check for an incomplete last frame is missing.
BatchAccepts_Incomplete ==
    /\ bMode # "failed"
    /\ \A i \in DOMAIN bSegs : bSegs[i] \in Frames

\* The check after decode_slip's loop: a stream of a successful run may not end
\* inside a frame.  Every segment must then be a canonical frame.
BatchAccepts ==
    /\ bMode # "failed"
    /\ closed = "complete" => ~(bMode # "raw" /\ Len(bFrame) >= Len(Magic))
    /\ \A i \in DOMAIN bSegs : bSegs[i] \in Frames

\* LiveSerialObserver::finish
LiveAccepts ==
    /\ lMode # "failed"
    /\ closed = "complete" => ~(lMode \in {"frame", "escape"} /\ Len(lFrame) >= Len(Magic))

-----------------------------------------------------------------------------
(* Properties *)

\* The batch decoder extends its stream only by the frame whose closing END the
\* guest has just transmitted, whatever firmware writes (0xdb included): it may
\* lose a frame, it never invents, repeats or truncates one.
BatchNeverInvents ==
    [][bSegs' # bSegs => bSegs' = Append(bSegs, cur) /\ sent' = Append(sent, cur)]_vars

\* At every moment the batch decoder holds exactly the frames for which
\* slip_send reported success: no partial transmission and no firmware byte
\* ever becomes a segment, and no transmitted frame is dropped.
BatchDecodesSent == bSegs = sent

\* The same of the live observer, so a scenario step never acts on an event
\* that the final decode will not contain.
LiveDecodesSent == lFrames = sent

\* The two decoders give the same verdict on the same captured bytes: what the
\* scenario driver observed is what the report is built from.
DecodersAgree == closed # "no" => (BatchAccepts <=> LiveAccepts)

\* A run whose transmissions all completed is accepted: neither decoder fails
\* on firmware output around complete frames.
CompleteRunAccepted ==
    phase = "idle" => bMode # "failed" /\ lMode # "failed"

\* Without a firmware ESC the batch decoder is exact, and what it and the live
\* observer make of the same capture can be told apart by nothing.
DecodersExact == BatchDecodesSent /\ DecodersAgree /\ CompleteRunAccepted

-----------------------------------------------------------------------------
(* The inductive invariant: while a frame is on the wire each decoder      *)
(* holds exactly the part of it that has been transmitted; otherwise its   *)
(* open segment is shorter than the magic.                                 *)

Transmitting == phase \in {"open", "body", "half"}

SenderInv ==
    /\ Transmitting => cur # Nothing /\ pos <= Len(cur)
    /\ ~Transmitting => cur = Nothing
    /\ phase = "open" => pos = 0
    /\ phase = "half" => pos < Len(cur) /\ cur[pos + 1] \in {END, ESC}

HoldsTransmitted(buf) ==
    /\ Len(buf) = pos
    /\ \A i \in 1 .. pos : buf[i] = cur[i]

\* Only a firmware ESC can leave the batch decoder in an escape, or inside a raw
\* segment that swallows a frame.
BatchInv ==
    /\ bMode \in {"preamble", "raw"} => bFrame = <<>>
    /\ phase \in {"idle", "open"} =>
         \/ bMode \in {"preamble", "raw"}
         \/ bMode = "frame" /\ Len(bFrame) < Len(Magic)
         \/ bMode = "escape" /\ Len(bFrame) < Len(Magic) /\ ESC \in Noise
    /\ phase = "body" =>
         \/ bMode = "frame" /\ HoldsTransmitted(bFrame)
         \/ bMode = "raw" /\ ESC \in Noise
    /\ phase = "half" =>
         \/ bMode = "escape" /\ HoldsTransmitted(bFrame)
         \/ bMode = "raw" /\ ESC \in Noise

LiveInv ==
    /\ lMode \in {"preamble", "raw"} => lFrame = <<>>
    /\ phase \in {"idle", "open"} =>
         \/ lMode \in {"preamble", "raw"}
         \/ lMode = "frame" /\ Len(lFrame) < Len(Magic)
    /\ phase = "body" => lMode = "frame" /\ HoldsTransmitted(lFrame)
    /\ phase = "half" => lMode = "escape" /\ HoldsTransmitted(lFrame)

\* Where the sender is determines what each decoder holds: the inductive
\* invariant of .Lslip_send, decode_slip and LiveSerialObserver.
LinkInv == TypeOK /\ SenderInv /\ BatchInv /\ LiveInv

-----------------------------------------------------------------------------
\* The transport implements the abstract channel.
Channel == INSTANCE FrameChannel WITH
    inflight  <- IF closed = "no" THEN cur ELSE Nothing,
    delivered <- bSegs,
    status    <- IF closed # "no" THEN "closed" ELSE IF phase = "dead" THEN "broken" ELSE "open"

\* Byte by byte, the sender and decode_slip do what the abstract channel does:
\* frames arrive whole, once and in order, or not at all.
ImplementsChannel == Channel!ChanSpec
=============================================================================
