------------------------ MODULE TargetRuntimeProofs ------------------------
(***************************************************************************)
(* Theorems about the two halves of the target runtime that talk to the    *)
(* outside.                                                                *)
(*                                                                         *)
(* SlipLink, for every alphabet, magic, frame set, firmware output and     *)
(* bound: LinkInv is the inductive invariant; the properties of the two    *)
(* decoders and the refinement of FrameChannel follow from it.             *)
(*                                                                         *)
(* ReplayLog, for every buffer size, payload length and number of events:  *)
(* LogInv says that the events taken lie back to back in the buffer, byte  *)
(* for byte, followed by the marker exactly when an event was refused, and *)
(* that the read cursor stands at the event after the last one replayed.   *)
(***************************************************************************)
EXTENDS SlipLink, ReplayLog, SequenceTheorems, TLAPS

-----------------------------------------------------------------------------
(* Facts about the constants and about one byte.                           *)

\* The bytes the sender and firmware put on the wire are bytes of the model.
LEMMA ByteFacts ==
    /\ END \in Byte /\ ESC \in Byte /\ ESC_END \in Byte /\ ESC_ESC \in Byte
    /\ \A b \in Noise : b \in Byte /\ b # END
    /\ \A b : Unescaped(b) \in Byte
    /\ Unescaped(ESC_END) = END /\ Unescaped(ESC_ESC) = ESC
  BY SlipBytes DEF Unescaped

\* The magic contains no SLIP control byte, and every frame starts with it.
LEMMA MagicFacts ==
    /\ Len(Magic) \in Nat /\ Len(Magic) > 0
    /\ \A i \in 1 .. Len(Magic) : Magic[i] \in Byte /\ Magic[i] \notin {END, ESC}
  BY MagicBytes, LenProperties, ElementOfSeq

\* A frame of the codec is a sequence of bytes that starts with the magic.
LEMMA FrameFacts ==
    ASSUME NEW f \in Frames
    PROVE  /\ f \in Seq(Byte) /\ Len(f) \in Nat
           /\ Len(Magic) <= Len(f) /\ Len(f) <= FrameLimit
           /\ \A i \in 1 .. Len(Magic) : f[i] = Magic[i]
           /\ \A i \in 1 .. Len(f) : f[i] \in Byte
           /\ f # Nothing
  BY FrameShape, LenProperties, ElementOfSeq

\* One byte keeps the decoders' variables in their types (BatchPush, LivePush).
LEMMA PutTypes ==
    ASSUME TypeOK, NEW b \in Byte, Put(b)
    PROVE  /\ bMode' \in Modes /\ bFrame' \in Seq(Byte) /\ bSegs' \in Seq(Seq(Byte))
           /\ lMode' \in Modes /\ lFrame' \in Seq(Byte) /\ lFrames' \in Seq(Frames)
<1>1. BatchPush(b) /\ LivePush(b)
  BY DEF Put
<1>2. Unescaped(b) \in Byte
  BY ByteFacts
<1>3. ASSUME NEW y \in Byte
      PROVE  /\ Append(bFrame, y) \in Seq(Byte)
             /\ Append(lFrame, y) \in Seq(Byte)
  BY AppendProperties DEF TypeOK
<1>4. Append(bSegs, bFrame) \in Seq(Seq(Byte))
  BY AppendProperties DEF TypeOK
<1>5. lFrame \in Frames => Append(lFrames, lFrame) \in Seq(Frames)
  BY AppendProperties DEF TypeOK
<1>6. <<>> \in Seq(Byte)
  BY EmptySeq
<1>7. ASSUME NEW y \in Byte, BatchSegmentByte(y)
      PROVE  bMode' \in Modes /\ bFrame' \in Seq(Byte)
  BY <1>3, <1>6, <1>7 DEF BatchSegmentByte, TypeOK, Modes
<1>8. bMode' \in Modes /\ bFrame' \in Seq(Byte) /\ bSegs' \in Seq(Seq(Byte))
  BY <1>1, <1>2, <1>4, <1>6, <1>7 DEF BatchPush, TypeOK, Modes, batch
<1>9. ASSUME NEW y \in Byte, LiveFrameByte(y)
      PROVE  lMode' \in Modes /\ lFrame' \in Seq(Byte)
  BY <1>3, <1>9 DEF LiveFrameByte, TypeOK, Modes
<1>10. ASSUME LiveFinishSegment
       PROVE  lMode' \in Modes /\ lFrame' \in Seq(Byte) /\ lFrames' \in Seq(Frames)
  BY <1>5, <1>6, <1>10 DEF LiveFinishSegment, TypeOK, Modes
<1>11. lMode' \in Modes /\ lFrame' \in Seq(Byte) /\ lFrames' \in Seq(Frames)
  BY <1>1, <1>2, <1>6, <1>9, <1>10 DEF LivePush, TypeOK, Modes, live
<1>12. QED
  BY <1>8, <1>11

-----------------------------------------------------------------------------
(* Type correctness.                                                       *)

LEMMA TypeStep == TypeOK /\ SenderInv /\ [Next]_vars => TypeOK'
<1> SUFFICES ASSUME TypeOK, SenderInv, [Next]_vars
             PROVE  TypeOK'
  OBVIOUS
<1>1. ASSUME NEW f \in Frames, SlipSend(f) PROVE TypeOK'
  BY <1>1 DEF SlipSend, TypeOK, batch, live
<1>2. CASE PutOpeningEnd
  BY <1>2, ByteFacts, PutTypes DEF PutOpeningEnd, TypeOK
<1>3. CASE PutPlain
  <2>1. cur \in Frames /\ cur[pos + 1] \in Byte
    BY <1>3, FrameFacts DEF PutPlain, SenderInv, Transmitting, TypeOK
  <2>2. QED
    BY <1>3, <2>1, PutTypes DEF PutPlain, TypeOK
<1>4. CASE PutEscape
  BY <1>4, ByteFacts, PutTypes DEF PutEscape, TypeOK
<1>5. CASE PutEscaped
  BY <1>5, ByteFacts, PutTypes DEF PutEscaped, TypeOK
<1>6. CASE PutClosingEnd
  <2>1. Append(sent, cur) \in Seq(Frames)
    BY <1>6, AppendProperties DEF PutClosingEnd, SenderInv, Transmitting, TypeOK
  <2>2. QED
    BY <1>6, <2>1, ByteFacts, PutTypes DEF PutClosingEnd, TypeOK
<1>7. CASE PutTimeout
  BY <1>7 DEF PutTimeout, TypeOK, batch, live
<1>8. ASSUME NEW b \in Noise, FirmwareByte(b) PROVE TypeOK'
  BY <1>8, ByteFacts, PutTypes, Bounds DEF FirmwareByte, TypeOK, sender
<1>9. ASSUME NEW c \in {"complete", "prefix"}, EndOfStream(c) PROVE TypeOK'
  BY <1>9 DEF EndOfStream, TypeOK, sender, batch, live
<1>10. CASE UNCHANGED vars
  BY <1>10 DEF vars, TypeOK, sender, batch, live
<1>11. QED
  BY <1>1, <1>2, <1>3, <1>4, <1>5, <1>6, <1>7, <1>8, <1>9, <1>10 DEF Next

\* The sender's bookkeeping survives every step.
LEMMA SenderStep == TypeOK /\ SenderInv /\ [Next]_vars => SenderInv'
<1> SUFFICES ASSUME TypeOK, SenderInv, [Next]_vars
             PROVE  SenderInv'
  OBVIOUS
<1> USE DEF SenderInv, Transmitting
<1>1. ASSUME NEW f \in Frames, SlipSend(f) PROVE SenderInv'
  BY <1>1, FrameFacts DEF SlipSend
<1>2. CASE PutOpeningEnd
  BY <1>2 DEF PutOpeningEnd
<1>3. CASE PutPlain
  BY <1>3, FrameFacts DEF PutPlain, TypeOK
<1>4. CASE PutEscape
  BY <1>4 DEF PutEscape
<1>5. CASE PutEscaped
  BY <1>5, FrameFacts DEF PutEscaped, TypeOK
<1>6. CASE PutClosingEnd
  BY <1>6 DEF PutClosingEnd
<1>7. CASE PutTimeout
  BY <1>7 DEF PutTimeout
<1>8. ASSUME NEW b \in Noise, FirmwareByte(b) PROVE SenderInv'
  BY <1>8 DEF FirmwareByte, sender
<1>9. ASSUME NEW c \in {"complete", "prefix"}, EndOfStream(c) PROVE SenderInv'
  BY <1>9 DEF EndOfStream, sender
<1>10. CASE UNCHANGED vars
  BY <1>10 DEF vars, sender
<1>11. QED
  BY <1>1, <1>2, <1>3, <1>4, <1>5, <1>6, <1>7, <1>8, <1>9, <1>10 DEF Next

-----------------------------------------------------------------------------
(* The decoders' part of LinkInv, one byte at a time.                      *)

\* A byte of the frame extends what a buffer holds of it.
LEMMA HoldsNext ==
    ASSUME NEW f \in Frames, NEW n \in Nat, n < Len(f), NEW buf \in Seq(Byte),
           Len(buf) = n, \A i \in 1 .. n : buf[i] = f[i]
    PROVE  /\ Len(Append(buf, f[n + 1])) = n + 1
           /\ \A i \in 1 .. (n + 1) : Append(buf, f[n + 1])[i] = f[i]
<1>1. f[n + 1] \in Byte
  BY FrameFacts
<1>2. /\ Len(Append(buf, f[n + 1])) = n + 1
      /\ \A i \in 1 .. n : Append(buf, f[n + 1])[i] = buf[i]
      /\ Append(buf, f[n + 1])[n + 1] = f[n + 1]
  BY <1>1, AppendProperties
<1>3. QED
  BY <1>2

\* A buffer that holds the whole frame is the frame.
LEMMA HoldsAll ==
    ASSUME NEW f \in Frames, NEW buf \in Seq(Byte),
           Len(buf) = Len(f), \A i \in 1 .. Len(f) : buf[i] = f[i]
    PROVE  buf = f
  BY FrameFacts, SeqEqual

\* Both decoders step with every byte the sender or firmware writes.
LEMMA BatchStep == LinkInv /\ [Next]_vars => BatchInv'
<1> SUFFICES ASSUME LinkInv, [Next]_vars
             PROVE  BatchInv'
  OBVIOUS
<1>1. TypeOK /\ SenderInv /\ BatchInv
  BY DEF LinkInv
<1>2. Len(bFrame) \in Nat /\ Len(<<>>) = 0 /\ Len(Magic) \in Nat /\ Len(Magic) > 0
  BY <1>1, LenProperties, EmptySeq, MagicFacts DEF TypeOK
<1>3. ASSUME NEW f \in Frames, SlipSend(f) PROVE BatchInv'
  BY <1>1, <1>3 DEF SlipSend, BatchInv, batch
<1>4. CASE PutOpeningEnd
  BY <1>1, <1>2, <1>4, SlipBytes
     DEF PutOpeningEnd, Put, BatchPush, BatchInv, HoldsTransmitted, SenderInv, TypeOK, batch
<1>5. CASE PutPlain
  <2>1. phase = "body" /\ cur \in Frames /\ pos \in Nat /\ pos < Len(cur)
    BY <1>1, <1>5 DEF PutPlain, SenderInv, Transmitting, TypeOK
  <2>2. cur[pos + 1] \notin {END, ESC} /\ BatchPush(cur[pos + 1])
    BY <1>5 DEF PutPlain, Put
  <2>3. CASE bMode = "raw"
    BY <1>1, <1>5, <2>1, <2>2, <2>3 DEF PutPlain, BatchPush, BatchInv
  <2>4. CASE bMode = "frame" /\ HoldsTransmitted(bFrame)
    <3>1. BatchSegmentByte(cur[pos + 1])
      BY <2>2, <2>4 DEF BatchPush
    <3>2. Len(bFrame) = pos /\ (pos < Len(Magic) => cur[pos + 1] = Magic[pos + 1])
      BY <1>2, <2>1, <2>4, FrameFacts DEF HoldsTransmitted
    <3>3. Len(bFrame) < FrameLimit
      BY <2>1, <3>2, FrameFacts, FrameShape
    <3>4. bMode' = "frame" /\ bFrame' = Append(bFrame, cur[pos + 1])
      BY <3>1, <3>2, <3>3, FrameShape, <1>2 DEF BatchSegmentByte
    <3>5. /\ Len(bFrame') = pos + 1
          /\ \A i \in 1 .. (pos + 1) : bFrame'[i] = cur[i]
      BY <1>1, <2>1, <2>4, <3>4, HoldsNext DEF HoldsTransmitted, TypeOK
    <3>6. HoldsTransmitted(bFrame)'
      BY <1>5, <3>5 DEF PutPlain, HoldsTransmitted
    <3>7. QED
      BY <1>5, <2>1, <3>4, <3>6 DEF PutPlain, BatchInv
  <2>5. QED
    BY <1>1, <2>1, <2>3, <2>4 DEF BatchInv
<1>6. CASE PutEscape
  BY <1>1, <1>6, SlipBytes
     DEF PutEscape, Put, BatchPush, BatchInv, HoldsTransmitted, batch
<1>7. CASE PutEscaped
  <2> DEFINE code == IF cur[pos + 1] = END THEN ESC_END ELSE ESC_ESC
  <2>1. phase = "half" /\ cur \in Frames /\ pos \in Nat /\ pos < Len(cur)
    BY <1>1, <1>7 DEF PutEscaped, SenderInv, Transmitting, TypeOK
  <2>2. cur[pos + 1] \in {END, ESC} /\ BatchPush(code)
    BY <1>1, <1>7, <2>1 DEF PutEscaped, Put, SenderInv
  <2>3. code \in {ESC_END, ESC_ESC} /\ code # END /\ Unescaped(code) = cur[pos + 1]
    BY <2>2, SlipBytes, ByteFacts
  <2> HIDE DEF code
  <2>4. CASE bMode = "raw"
    BY <1>1, <1>7, <2>1, <2>2, <2>3, <2>4 DEF PutEscaped, BatchPush, BatchInv
  <2>5. CASE bMode = "escape" /\ HoldsTransmitted(bFrame)
    <3>1. BatchSegmentByte(cur[pos + 1])
      BY <2>2, <2>3, <2>5 DEF BatchPush
    <3>2. Len(bFrame) = pos /\ (pos < Len(Magic) => cur[pos + 1] = Magic[pos + 1])
      BY <1>2, <2>1, <2>5, FrameFacts DEF HoldsTransmitted
    <3>3. Len(bFrame) < FrameLimit
      BY <2>1, <3>2, FrameFacts, FrameShape
    <3>4. bMode' = "frame" /\ bFrame' = Append(bFrame, cur[pos + 1])
      BY <3>1, <3>2, <3>3, FrameShape, <1>2 DEF BatchSegmentByte
    <3>5. /\ Len(bFrame') = pos + 1
          /\ \A i \in 1 .. (pos + 1) : bFrame'[i] = cur[i]
      BY <1>1, <2>1, <2>5, <3>4, HoldsNext DEF HoldsTransmitted, TypeOK
    <3>6. HoldsTransmitted(bFrame)'
      BY <1>7, <3>5 DEF PutEscaped, HoldsTransmitted
    <3>7. QED
      BY <1>7, <2>1, <3>4, <3>6 DEF PutEscaped, BatchInv
  <2>6. QED
    BY <1>1, <2>1, <2>4, <2>5 DEF BatchInv
<1>8. CASE PutClosingEnd
  BY <1>1, <1>2, <1>8, SlipBytes
     DEF PutClosingEnd, Put, BatchPush, BatchInv, batch
<1>9. CASE PutTimeout
  BY <1>1, <1>9 DEF PutTimeout, BatchInv, batch
<1>10. ASSUME NEW b \in Noise, FirmwareByte(b) PROVE BatchInv'
  <2>1. b \in Byte /\ b # END /\ BatchPush(b) /\ UNCHANGED sender
    BY <1>10, ByteFacts DEF FirmwareByte, Put
  <2>2. CASE phase = "dead"
    BY <1>1, <1>2, <2>1, <2>2 DEF BatchInv, BatchPush, BatchSegmentByte, sender, batch
  <2>3. CASE phase = "idle"
    <3>1. ASSUME NEW y, BatchSegmentByte(y), Len(bFrame) < Len(Magic), y # Magic[Len(Magic)]
          PROVE  \/ bMode' = "raw" /\ bFrame' = <<>>
                 \/ bMode' = "frame" /\ Len(bFrame') < Len(Magic)
      <4>1. CASE y # Magic[Len(bFrame) + 1]
        BY <3>1, <4>1 DEF BatchSegmentByte
      <4>2. CASE y = Magic[Len(bFrame) + 1]
        <5>1. y \in Byte /\ Len(bFrame) + 1 < Len(Magic)
          BY <1>2, <3>1, <4>2, MagicFacts
        <5>2. bMode' = "frame" /\ bFrame' = Append(bFrame, y)
          BY <1>2, <3>1, <4>2, FrameShape DEF BatchSegmentByte
        <5>3. Len(bFrame') = Len(bFrame) + 1
          BY <1>1, <5>1, <5>2, AppendProperties DEF TypeOK
        <5>4. QED
          BY <5>1, <5>2, <5>3
      <4>3. QED
        BY <4>1, <4>2
    <3>2. b # Magic[Len(Magic)] /\ Unescaped(b) # Magic[Len(Magic)]
      BY NoiseOutsideMagic, MagicFacts DEF Unescaped
    <3>3. CASE bMode \in {"preamble", "raw"}
      BY <1>1, <2>1, <2>3, <3>3 DEF BatchInv, BatchPush, sender
    <3>4. CASE bMode = "frame"
      BY <1>1, <2>1, <2>3, <3>1, <3>2, <3>4 DEF BatchInv, BatchPush, sender
    <3>5. CASE bMode = "escape"
      BY <1>1, <1>2, <2>1, <2>3, <3>1, <3>2, <3>5 DEF BatchInv, BatchPush, sender
    <3>6. QED
      BY <1>1, <2>3, <3>3, <3>4, <3>5 DEF BatchInv
  <2>4. QED
    BY <1>10, <2>2, <2>3 DEF FirmwareByte
<1>11. ASSUME NEW c \in {"complete", "prefix"}, EndOfStream(c) PROVE BatchInv'
  BY <1>1, <1>11 DEF EndOfStream, BatchInv, HoldsTransmitted, sender, batch
<1>12. CASE UNCHANGED vars
  BY <1>1, <1>12 DEF vars, BatchInv, HoldsTransmitted, sender, batch
<1>13. QED
  BY <1>3, <1>4, <1>5, <1>6, <1>7, <1>8, <1>9, <1>10, <1>11, <1>12 DEF Next

\* The live observer compares the magic before it unescapes, which is harmless
\* because the magic contains neither END nor ESC.
LEMMA LiveStep == LinkInv /\ [Next]_vars => LiveInv'
<1> SUFFICES ASSUME LinkInv, [Next]_vars
             PROVE  LiveInv'
  OBVIOUS
<1>1. TypeOK /\ SenderInv /\ LiveInv
  BY DEF LinkInv
<1>2. Len(lFrame) \in Nat /\ Len(<<>>) = 0 /\ Len(Magic) \in Nat /\ Len(Magic) > 0
  BY <1>1, LenProperties, EmptySeq, MagicFacts DEF TypeOK
<1>3. ASSUME NEW f \in Frames, SlipSend(f) PROVE LiveInv'
  BY <1>1, <1>3 DEF SlipSend, LiveInv, live
<1>4. CASE PutOpeningEnd
  BY <1>1, <1>2, <1>4, SlipBytes
     DEF PutOpeningEnd, Put, LivePush, LiveFinishSegment, LiveInv, HoldsTransmitted,
         SenderInv, TypeOK, live
<1>5. ASSUME cur \in Frames, pos \in Nat, pos < Len(cur), HoldsTransmitted(lFrame),
             LiveFrameByte(cur[pos + 1]), pos' = pos + 1, cur' = cur
      PROVE  lMode' = "frame" /\ HoldsTransmitted(lFrame)'
  <2>1. Len(lFrame) = pos /\ Len(lFrame) < FrameLimit
    BY <1>5, FrameFacts, FrameShape DEF HoldsTransmitted
  <2>2. lMode' = "frame" /\ lFrame' = Append(lFrame, cur[pos + 1])
    BY <1>5, <2>1, FrameShape DEF LiveFrameByte
  <2>3. /\ Len(lFrame') = pos + 1
        /\ \A i \in 1 .. (pos + 1) : lFrame'[i] = cur[i]
    BY <1>1, <1>5, <2>2, HoldsNext DEF HoldsTransmitted, TypeOK
  <2>4. QED
    BY <1>5, <2>2, <2>3 DEF HoldsTransmitted
<1>6. CASE PutPlain
  <2>1. phase = "body" /\ cur \in Frames /\ pos \in Nat /\ pos < Len(cur)
    BY <1>1, <1>6 DEF PutPlain, SenderInv, Transmitting, TypeOK
  <2>2. cur[pos + 1] \notin {END, ESC} /\ LivePush(cur[pos + 1])
    BY <1>6 DEF PutPlain, Put
  <2>3. lMode = "frame" /\ HoldsTransmitted(lFrame)
    BY <1>1, <2>1 DEF LiveInv
  <2>4. Len(lFrame) = pos /\ (pos < Len(Magic) => cur[pos + 1] = Magic[pos + 1])
    BY <1>2, <2>1, <2>3, FrameFacts DEF HoldsTransmitted
  <2>5. LiveFrameByte(cur[pos + 1])
    BY <1>2, <2>2, <2>3, <2>4 DEF LivePush
  <2>6. QED
    BY <1>5, <1>6, <2>1, <2>3, <2>5 DEF PutPlain, LiveInv
<1>7. CASE PutEscape
  <2>1. phase = "body" /\ cur \in Frames /\ pos \in Nat /\ pos < Len(cur)
    BY <1>1, <1>7 DEF PutEscape, SenderInv, Transmitting, TypeOK
  <2>2. lMode = "frame" /\ HoldsTransmitted(lFrame) /\ LivePush(ESC)
    BY <1>1, <1>7, <2>1 DEF PutEscape, Put, LiveInv
  <2>3. Len(lFrame) >= Len(Magic)
    BY <1>2, <1>7, <2>1, <2>2, MagicFacts, FrameFacts DEF PutEscape, HoldsTransmitted
  <2>4. lMode' = "escape" /\ lFrame' = lFrame
    BY <1>2, <2>2, <2>3, SlipBytes DEF LivePush
  <2>5. QED
    BY <1>7, <2>2, <2>4 DEF PutEscape, LiveInv, HoldsTransmitted
<1>8. CASE PutEscaped
  <2> DEFINE code == IF cur[pos + 1] = END THEN ESC_END ELSE ESC_ESC
  <2>1. phase = "half" /\ cur \in Frames /\ pos \in Nat /\ pos < Len(cur)
    BY <1>1, <1>8 DEF PutEscaped, SenderInv, Transmitting, TypeOK
  <2>2. cur[pos + 1] \in {END, ESC} /\ LivePush(code)
    BY <1>1, <1>8, <2>1 DEF PutEscaped, Put, SenderInv
  <2>3. code \in {ESC_END, ESC_ESC} /\ code # END /\ Unescaped(code) = cur[pos + 1]
    BY <2>2, SlipBytes, ByteFacts
  <2> HIDE DEF code
  <2>4. lMode = "escape" /\ HoldsTransmitted(lFrame)
    BY <1>1, <2>1 DEF LiveInv
  <2>5. LiveFrameByte(cur[pos + 1])
    BY <2>2, <2>3, <2>4 DEF LivePush
  <2>6. QED
    BY <1>5, <1>8, <2>1, <2>4, <2>5 DEF PutEscaped, LiveInv
<1>9. CASE PutClosingEnd
  <2>1. phase = "body" /\ cur \in Frames /\ pos = Len(cur) /\ LivePush(END)
    BY <1>1, <1>9 DEF PutClosingEnd, Put, SenderInv, Transmitting, TypeOK
  <2>2. lMode = "frame" /\ HoldsTransmitted(lFrame)
    BY <1>1, <2>1 DEF LiveInv
  <2>3. lFrame = cur
    BY <1>1, <2>1, <2>2, HoldsAll DEF HoldsTransmitted, TypeOK
  <2>4. lMode' = "frame" /\ lFrame' = <<>>
    BY <1>2, <2>1, <2>2, <2>3, FrameFacts DEF LivePush, LiveFinishSegment
  <2>5. QED
    BY <1>2, <1>9, <2>4 DEF PutClosingEnd, LiveInv
<1>10. CASE PutTimeout
  BY <1>1, <1>10 DEF PutTimeout, LiveInv, live
<1>11. ASSUME NEW b \in Noise, FirmwareByte(b) PROVE LiveInv'
  <2>1. b \in Byte /\ b # END /\ LivePush(b) /\ UNCHANGED sender
    BY <1>11, ByteFacts DEF FirmwareByte, Put
  <2>2. CASE phase = "dead"
    BY <1>1, <1>2, <2>1, <2>2 DEF LiveInv, LivePush, LiveFrameByte, sender, live
  <2>3. CASE phase = "idle" /\ lMode \in {"preamble", "raw"}
    BY <1>1, <2>1, <2>3 DEF LiveInv, LivePush, sender, live
  <2>4. CASE phase = "idle" /\ lMode = "frame"
    <3>1. Len(lFrame) < Len(Magic)
      BY <1>1, <2>4 DEF LiveInv
    <3>2. CASE b # Magic[Len(lFrame) + 1]
      BY <2>1, <2>4, <3>1, <3>2, <1>2 DEF LivePush, LiveInv, sender
    <3>3. CASE b = Magic[Len(lFrame) + 1]
      <4>1. Len(lFrame) + 1 < Len(Magic)
        BY <1>2, <3>1, <3>3, NoiseOutsideMagic
      <4>2. lMode' = "frame" /\ lFrame' = Append(lFrame, b)
        BY <1>2, <2>1, <2>4, <3>1, <3>3, FrameShape DEF LivePush, LiveFrameByte
      <4>3. Len(lFrame') = Len(lFrame) + 1
        BY <1>1, <2>1, <4>2, AppendProperties DEF TypeOK
      <4>4. QED
        BY <2>1, <2>4, <4>1, <4>2, <4>3 DEF LiveInv, sender
    <3>4. QED
      BY <3>2, <3>3
  <2>5. QED
    BY <1>1, <1>11, <2>2, <2>3, <2>4 DEF FirmwareByte, LiveInv
<1>12. ASSUME NEW c \in {"complete", "prefix"}, EndOfStream(c) PROVE LiveInv'
  BY <1>1, <1>12 DEF EndOfStream, LiveInv, HoldsTransmitted, sender, live
<1>13. CASE UNCHANGED vars
  BY <1>1, <1>13 DEF vars, LiveInv, HoldsTransmitted, sender, live
<1>14. QED
  BY <1>3, <1>4, <1>6, <1>7, <1>8, <1>9, <1>10, <1>11, <1>12, <1>13 DEF Next

-----------------------------------------------------------------------------
(* What a step does to the decoded frames.                                 *)

\* Only an END that closes a segment extends either decoder's frames.
LEMMA OnlyEndExtends ==
    ASSUME NEW b, b # END, Put(b)
    PROVE  bSegs' = bSegs /\ lFrames' = lFrames
  BY DEF Put, BatchPush, LivePush, batch, live

\* The opening END of slip_send closes a segment without the magic.
LEMMA OpeningEndAddsNothing ==
    ASSUME LinkInv, PutOpeningEnd
    PROVE  bSegs' = bSegs /\ lFrames' = lFrames
<1>1. Len(bFrame) \in Nat /\ Len(lFrame) \in Nat /\ Len(Magic) \in Nat
  BY LenProperties, MagicFacts DEF LinkInv, TypeOK
<1>2. QED
  BY <1>1, SlipBytes DEF LinkInv, BatchInv, LiveInv, PutOpeningEnd, Put, BatchPush, LivePush,
                         LiveFinishSegment, batch, live

\* The closing END appends the transmitted frame, or (batch only, after a
\* firmware ESC) nothing.
LEMMA ClosingEndAddsFrame ==
    ASSUME LinkInv, PutClosingEnd
    PROVE  /\ lFrames' = Append(lFrames, cur)
           /\ \/ bSegs' = Append(bSegs, cur)
              \/ bSegs' = bSegs /\ ESC \in Noise
<1>1. /\ phase = "body" /\ cur \in Frames /\ pos = Len(cur)
      /\ BatchPush(END) /\ LivePush(END)
  BY DEF PutClosingEnd, Put, LinkInv, SenderInv, Transmitting, TypeOK
<1>2. Len(cur) \in Nat /\ Len(Magic) \in Nat /\ Len(cur) >= Len(Magic)
  BY <1>1, FrameFacts, MagicFacts
<1>3. lMode = "frame" /\ lFrame = cur
  BY <1>1, HoldsAll DEF LinkInv, LiveInv, HoldsTransmitted, TypeOK
<1>4. lFrames' = Append(lFrames, cur)
  BY <1>1, <1>2, <1>3 DEF LivePush, LiveFinishSegment
<1>5. CASE bMode = "frame" /\ HoldsTransmitted(bFrame)
  <2>1. bFrame = cur
    BY <1>1, <1>5, HoldsAll DEF LinkInv, HoldsTransmitted, TypeOK
  <2>2. bSegs' = Append(bSegs, cur)
    BY <1>1, <1>2, <1>5, <2>1, SlipBytes DEF BatchPush
  <2>3. QED
    BY <1>4, <2>2
<1>6. CASE bMode = "raw" /\ ESC \in Noise
  BY <1>1, <1>4, <1>6 DEF BatchPush
<1>7. QED
  BY <1>1, <1>5, <1>6 DEF LinkInv, BatchInv

\* Every other step leaves the decoded frames and the sent frames alone.
LEMMA OtherStepsAddNothing ==
    ASSUME LinkInv, [Next]_vars, ~PutClosingEnd
    PROVE  UNCHANGED <<bSegs, lFrames, sent>>
<1>1. ASSUME NEW f \in Frames, SlipSend(f) PROVE UNCHANGED <<bSegs, lFrames, sent>>
  BY <1>1 DEF SlipSend, batch, live
<1>2. CASE PutOpeningEnd
  BY <1>2, OpeningEndAddsNothing DEF PutOpeningEnd
<1>3. CASE PutPlain
  BY <1>3, OnlyEndExtends DEF PutPlain
<1>4. CASE PutEscape
  BY <1>4, OnlyEndExtends, SlipBytes DEF PutEscape
<1>5. CASE PutEscaped
  BY <1>5, OnlyEndExtends, SlipBytes DEF PutEscaped
<1>6. CASE PutTimeout
  BY <1>6 DEF PutTimeout, batch, live
<1>7. ASSUME NEW b \in Noise, FirmwareByte(b) PROVE UNCHANGED <<bSegs, lFrames, sent>>
  BY <1>7, OnlyEndExtends, ByteFacts DEF FirmwareByte, sender
<1>8. ASSUME NEW c \in {"complete", "prefix"}, EndOfStream(c)
      PROVE  UNCHANGED <<bSegs, lFrames, sent>>
  BY <1>8 DEF EndOfStream, sender, batch, live
<1>9. CASE UNCHANGED vars
  BY <1>9 DEF vars, sender, batch, live
<1>10. QED
  BY <1>1, <1>2, <1>3, <1>4, <1>5, <1>6, <1>7, <1>8, <1>9 DEF Next

-----------------------------------------------------------------------------
(* The theorems.                                                           *)

\* While a frame is on the wire each decoder holds exactly its transmitted
\* part, between frames less than the magic (slip_send against decode_slip and
\* LiveSerialObserver); in particular every variable keeps its type.
THEOREM LinkInvariant == Spec => []LinkInv
<1>1. Init => LinkInv
  <2> SUFFICES ASSUME Init PROVE LinkInv
    OBVIOUS
  <2>1. TypeOK
    BY EmptySeq, Bounds DEF Init, TypeOK, Modes
  <2>2. SenderInv /\ BatchInv /\ LiveInv
    BY DEF Init, SenderInv, Transmitting, BatchInv, LiveInv
  <2>3. QED
    BY <2>1, <2>2 DEF LinkInv
<1>2. LinkInv /\ [Next]_vars => LinkInv'
  BY TypeStep, SenderStep, BatchStep, LiveStep DEF LinkInv
<1>3. QED
  BY <1>1, <1>2, PTL DEF Spec

\* The live observer holds exactly the frames slip_send completed, whatever
\* firmware writes between them.
THEOREM LiveObserverExact == Spec => []LiveDecodesSent
<1>1. Init => LiveDecodesSent
  BY DEF Init, LiveDecodesSent
<1>2. LinkInv /\ LiveDecodesSent /\ [Next]_vars => LiveDecodesSent'
  <2> SUFFICES ASSUME LinkInv, LiveDecodesSent, [Next]_vars
               PROVE  LiveDecodesSent'
    OBVIOUS
  <2>1. CASE PutClosingEnd
    BY <2>1, ClosingEndAddsFrame DEF PutClosingEnd, LiveDecodesSent
  <2>2. CASE ~PutClosingEnd
    BY <2>2, OtherStepsAddNothing DEF LiveDecodesSent
  <2>3. QED
    BY <2>1, <2>2
<1>3. QED
  BY <1>1, <1>2, LinkInvariant, PTL DEF Spec

\* decode_slip never invents, repeats or truncates a frame, whatever firmware
\* writes: its stream grows only by the frame just completed.
THEOREM BatchSound == Spec => BatchNeverInvents
<1>1. LinkInv /\ [Next]_vars =>
        [bSegs' # bSegs => bSegs' = Append(bSegs, cur) /\ sent' = Append(sent, cur)]_vars
  <2> SUFFICES ASSUME LinkInv, [Next]_vars, bSegs' # bSegs
               PROVE  bSegs' = Append(bSegs, cur) /\ sent' = Append(sent, cur)
    OBVIOUS
  <2>1. PutClosingEnd
    BY OtherStepsAddNothing
  <2>2. QED
    BY <2>1, ClosingEndAddsFrame DEF PutClosingEnd
<1>2. QED
  BY <1>1, LinkInvariant, PTL DEF Spec, BatchNeverInvents

\* When firmware writes no 0xdb, decode_slip returns exactly the frames that
\* slip_send completed: none is lost, added, split or merged.
THEOREM BatchExact == ESC \notin Noise => (Spec => []BatchDecodesSent)
<1> SUFFICES ASSUME ESC \notin Noise
             PROVE  Spec => []BatchDecodesSent
  OBVIOUS
<1>1. Init => BatchDecodesSent
  BY DEF Init, BatchDecodesSent
<1>2. LinkInv /\ BatchDecodesSent /\ [Next]_vars => BatchDecodesSent'
  <2> SUFFICES ASSUME LinkInv, BatchDecodesSent, [Next]_vars
               PROVE  BatchDecodesSent'
    OBVIOUS
  <2>1. CASE PutClosingEnd
    BY <2>1, ClosingEndAddsFrame DEF PutClosingEnd, BatchDecodesSent
  <2>2. CASE ~PutClosingEnd
    BY <2>2, OtherStepsAddNothing DEF BatchDecodesSent
  <2>3. QED
    BY <2>1, <2>2
<1>3. QED
  BY <1>1, <1>2, LinkInvariant, PTL DEF Spec

\* Without a firmware 0xdb the two decoders are in the same state after every
\* byte: an escape is met only behind a complete magic, where both read it.
Lockstep ==
    /\ bMode = lMode
    /\ bFrame = lFrame
    /\ bMode = "escape" => Len(bFrame) >= Len(Magic)

\* A byte that is neither END nor an ESC before the magic keeps them together.
LEMMA LockstepPush ==
    ASSUME LinkInv, Lockstep, NEW b \in Byte, b # END, Put(b),
           b = ESC => Len(bFrame) >= Len(Magic)
    PROVE  Lockstep'
<1>1. /\ bFrame \in Seq(Byte) /\ Len(bFrame) \in Nat
      /\ Len(Magic) \in Nat /\ Len(Magic) <= FrameLimit /\ FrameLimit \in Nat
  BY MagicFacts, FrameShape, LenProperties DEF LinkInv, TypeOK
<1>2. \A c \in Byte : Len(Append(bFrame, c)) = Len(bFrame) + 1
  BY <1>1, AppendProperties
<1>3. BatchPush(b) /\ LivePush(b)
  BY DEF Put
<1>4. CASE bMode \in {"preamble", "raw", "failed"}
  BY <1>3, <1>4 DEF Lockstep, LinkInv, BatchInv, LiveInv, BatchPush, LivePush, batch, live
<1>5. CASE bMode = "frame"
  BY <1>1, <1>2, <1>3, <1>5, SlipBytes
     DEF Lockstep, BatchPush, LivePush, BatchSegmentByte, LiveFrameByte, batch, live
<1>6. CASE bMode = "escape"
  BY <1>1, <1>2, <1>3, <1>6, ByteFacts
     DEF Lockstep, BatchPush, LivePush, BatchSegmentByte, LiveFrameByte, batch, live
<1>7. QED
  BY <1>4, <1>5, <1>6 DEF LinkInv, TypeOK, Modes

\* The two END bytes of slip_send find the decoders outside of a segment with
\* the magic, or at the end of a canonical frame.
LEMMA LockstepEnd ==
    ASSUME LinkInv, Lockstep, PutOpeningEnd \/ PutClosingEnd, ESC \notin Noise
    PROVE  Lockstep'
<1>1. /\ Len(bFrame) \in Nat /\ Len(Magic) \in Nat /\ Len(<<>>) = 0 /\ Len(Magic) > 0
  BY MagicFacts, LenProperties, EmptySeq DEF LinkInv, TypeOK
<1>2. BatchPush(END) /\ LivePush(END)
  BY DEF PutOpeningEnd, PutClosingEnd, Put
<1>3. CASE PutOpeningEnd
  BY <1>1, <1>2, <1>3, SlipBytes
     DEF PutOpeningEnd, Lockstep, LinkInv, BatchInv, LiveInv, BatchPush, LivePush,
         LiveFinishSegment, batch, live
<1>4. CASE PutClosingEnd
  <2>1. cur \in Frames /\ lMode = "frame" /\ HoldsTransmitted(lFrame) /\ pos = Len(cur)
    BY <1>4 DEF PutClosingEnd, LinkInv, TypeOK, SenderInv, Transmitting, LiveInv
  <2>2. lFrame = cur
    BY <2>1, HoldsAll DEF HoldsTransmitted, LinkInv, TypeOK
  <2>3. Len(lFrame) >= Len(Magic) /\ lFrame \in Frames
    BY <2>1, <2>2, FrameFacts
  <2>4. QED
    BY <1>1, <1>2, <2>1, <2>3, SlipBytes
       DEF Lockstep, BatchPush, LivePush, LiveFinishSegment, batch, live
<1>5. QED
  BY <1>3, <1>4

\* The decoders stay in step.
LEMMA LockstepStep ==
    ASSUME LinkInv, Lockstep, [Next]_vars, ESC \notin Noise
    PROVE  Lockstep'
<1>1. CASE PutOpeningEnd \/ PutClosingEnd
  BY <1>1, LockstepEnd
<1>2. CASE PutPlain \/ PutEscape \/ PutEscaped
  <2>1. /\ cur \in Frames /\ pos \in Nat /\ pos < Len(cur)
        /\ phase \in {"body", "half"} /\ HoldsTransmitted(bFrame)
    BY <1>2 DEF PutPlain, PutEscape, PutEscaped, LinkInv, TypeOK, SenderInv, Transmitting,
         BatchInv
  <2>2. cur[pos + 1] \in Byte
    BY <2>1, FrameFacts
  <2>3. CASE PutPlain
    BY <2>2, <2>3, LockstepPush DEF PutPlain
  <2>4. CASE PutEscape
    <3>1. cur[pos + 1] \in {END, ESC} /\ Put(ESC)
      BY <2>4 DEF PutEscape
    <3>2. ~(pos + 1 <= Len(Magic))
      BY <2>1, <3>1, FrameFacts, MagicFacts
    <3>3. Len(bFrame) >= Len(Magic)
      BY <2>1, <3>2, MagicFacts DEF HoldsTransmitted
    <3>4. QED
      BY <3>1, <3>3, LockstepPush, SlipBytes
  <2>5. CASE PutEscaped
    <3>1. PICK b \in {ESC_END, ESC_ESC} : Put(b)
      BY <2>5 DEF PutEscaped
    <3>2. QED
      BY <3>1, LockstepPush, SlipBytes
  <2>6. QED
    BY <1>2, <2>3, <2>4, <2>5
<1>3. ASSUME NEW b \in Noise, FirmwareByte(b) PROVE Lockstep'
  BY <1>3, LockstepPush, ByteFacts DEF FirmwareByte
<1>4. CASE \/ \E f \in Frames : SlipSend(f)
           \/ PutTimeout
           \/ \E c \in {"complete", "prefix"} : EndOfStream(c)
           \/ UNCHANGED vars
  BY <1>4 DEF SlipSend, PutTimeout, EndOfStream, vars, batch, live, Lockstep
<1>5. QED
  BY <1>1, <1>2, <1>3, <1>4 DEF Next

\* When firmware writes no 0xdb, decode_slip and the live observer give the
\* same verdict on the same capture, which holds exactly the frames sent, and
\* neither fails a run whose transmissions completed.
THEOREM DecodersAlwaysExact == ESC \notin Noise => (Spec => []DecodersExact)
<1> SUFFICES ASSUME ESC \notin Noise
             PROVE  Spec => []DecodersExact
  OBVIOUS
<1>1. Init => Lockstep
  BY DEF Init, Lockstep
<1>2. LinkInv /\ Lockstep /\ [Next]_vars => Lockstep'
  BY LockstepStep
<1>3. LinkInv /\ Lockstep /\ BatchDecodesSent => DecodersExact
  <2> SUFFICES ASSUME LinkInv, Lockstep, BatchDecodesSent
               PROVE  DecodersAgree /\ CompleteRunAccepted
    BY DEF DecodersExact
  <2>1. \A i \in DOMAIN bSegs : bSegs[i] \in Frames
    BY ElementOfSeq DEF LinkInv, TypeOK, BatchDecodesSent
  <2>2. Len(<<>>) = 0 /\ Len(Magic) > 0 /\ Len(Magic) \in Nat
    BY MagicFacts, EmptySeq
  <2>3. DecodersAgree
    BY <2>1, <2>2 DEF DecodersAgree, BatchAccepts, LiveAccepts, Lockstep, LinkInv, TypeOK,
       Modes, BatchInv
  <2>4. CompleteRunAccepted
    BY DEF CompleteRunAccepted, LinkInv, BatchInv, LiveInv
  <2>5. QED
    BY <2>3, <2>4
<1>4. QED
  BY <1>1, <1>2, <1>3, LinkInvariant, BatchExact, PTL DEF Spec

\* The byte-level transport implements FrameChannel when firmware writes no
\* 0xdb: whole frames, once, in order, and none after a timed-out send.
THEOREM LinkImplementsChannel == ESC \notin Noise => (Spec => ImplementsChannel)
<1> SUFFICES ASSUME ESC \notin Noise
             PROVE  Spec => ImplementsChannel
  OBVIOUS
<1>1. Init => Channel!ChanInit
  BY DEF Init, Channel!ChanInit
<1>2. LinkInv /\ [Next]_vars => [Channel!ChanNext]_(Channel!chanVars)
  <2> SUFFICES ASSUME LinkInv, [Next]_vars
               PROVE  [Channel!ChanNext]_(Channel!chanVars)
    OBVIOUS
  <2> USE DEF Channel!ChanNext, Channel!chanVars
  <2>1. ASSUME NEW f \in Frames, SlipSend(f) PROVE Channel!Send(f)
    BY <2>1 DEF SlipSend, Channel!Send, LinkInv, SenderInv, Transmitting, batch
  <2>2. CASE PutClosingEnd
    <3>1. bSegs' = Append(bSegs, cur)
      BY <2>2, ClosingEndAddsFrame
    <3>2. Channel!Deliver
      BY <2>2, <3>1 DEF PutClosingEnd, Channel!Deliver, LinkInv, SenderInv, Transmitting
    <3>3. QED
      BY <3>2
  <2>3. CASE PutTimeout
    <3>1. Channel!GiveUp
      BY <2>3 DEF PutTimeout, Channel!GiveUp, LinkInv, SenderInv, Transmitting, batch
    <3>2. QED
      BY <3>1
  <2>4. ASSUME NEW c \in {"complete", "prefix"}, EndOfStream(c) PROVE Channel!Close
    BY <2>4 DEF EndOfStream, Channel!Close, sender, batch
  <2>5. CASE PutOpeningEnd \/ PutPlain \/ PutEscape \/ PutEscaped
    <3>1. bSegs' = bSegs
      BY <2>5, OtherStepsAddNothing
         DEF PutOpeningEnd, PutPlain, PutEscape, PutEscaped, PutClosingEnd
    <3>2. QED
      BY <2>5, <3>1 DEF PutOpeningEnd, PutPlain, PutEscape, PutEscaped
  <2>6. ASSUME NEW b \in Noise, FirmwareByte(b) PROVE UNCHANGED Channel!chanVars
    <3>1. bSegs' = bSegs
      BY <2>6, OnlyEndExtends, ByteFacts DEF FirmwareByte
    <3>2. QED
      BY <2>6, <3>1 DEF FirmwareByte, sender
  <2>7. CASE UNCHANGED vars
    BY <2>7 DEF vars, sender, batch
  <2>8. QED
    BY <2>1, <2>2, <2>3, <2>4, <2>5, <2>6, <2>7 DEF Next
<1>3. QED
  BY <1>1, <1>2, LinkInvariant, PTL DEF Spec, ImplementsChannel, Channel!ChanSpec
-----------------------------------------------------------------------------
(* The record and replay log: the inductive invariant.                     *)

Taken == Len(starts)
Lost == Taken < Len(attempted)
Cells == [event : Events \cup {MarkerEvent}, byte : Nat]

\* The offset behind the first i events.
Behind(i) == IF i = 0 THEN 0 ELSE starts[i] + Extent(attempted[i])
Used == Behind(Taken)

LogTypes ==
    /\ log \in [0 .. LogBytes - 1 -> Cells]
    /\ mode \in {"RECORD", "OVERFLOWED", "REPLAY"}
    /\ write \in Nat
    /\ read \in Nat
    /\ attempted \in Seq(Events)
    /\ starts \in Seq(Nat)
    /\ replayed \in Seq(Events)
    /\ Taken <= Len(attempted)

\* The events taken fill the buffer from 0 to Used.
BackToBack ==
    /\ \A i \in 1 .. Taken : starts[i] = Behind(i - 1)
    /\ \A i \in 0 .. Taken : Behind(i) \in Nat /\ Behind(i) <= Used
    /\ Used <= RecordLimit

BytesKept ==
    \A i \in 1 .. Taken : \A b \in 0 .. Extent(attempted[i]) - 1 :
        log[starts[i] + b] = [event |-> attempted[i], byte |-> b]

MarkerPlaced ==
    /\ write = IF Lost THEN Used + HeaderBytes ELSE Used
    /\ Lost => log[Used].event = MarkerEvent
    /\ mode = "RECORD" => ~Lost
    /\ mode = "OVERFLOWED" => Lost

Replaying ==
    /\ Len(replayed) <= Taken
    /\ \A i \in 1 .. Len(replayed) : replayed[i] = attempted[i]
    /\ mode # "REPLAY" => replayed = << >> /\ read = 0
    /\ mode = "REPLAY" => read = Behind(Len(replayed))

Halted ==
    /\ fatal \notin {"corrupt", "bad state"}
    /\ fatal = "exhausted" => ~Lost /\ Len(replayed) = Taken
    /\ fatal = "overflow" => Lost /\ Len(replayed) = Taken

LogInv == LogTypes /\ BackToBack /\ BytesKept /\ MarkerPlaced /\ Replaying /\ Halted

---------------------------------------------------------------------------
(* Facts about one event                                                   *)

\* An event is as long as its header and payload.
LEMMA ExtentType ==
    ASSUME NEW e \in Events \cup {MarkerEvent}
    PROVE  Extent(e) \in Nat /\ Extent(e) >= HeaderBytes /\ Length[e.payload] \in Nat
  BY LogAssumption DEF Extent, Events, MarkerEvent

\* The marker is its header.
LEMMA MarkerExtent == Extent(MarkerEvent) = HeaderBytes
  BY LogAssumption DEF Extent, MarkerEvent

\* Storing an event changes the bytes of its extent only.
LEMMA StoredBytes ==
    ASSUME log \in [0 .. LogBytes - 1 -> Cells],
           NEW o \in Nat, NEW e \in Events \cup {MarkerEvent},
           o + Extent(e) <= LogBytes
    PROVE  /\ Stored(o, e) \in [0 .. LogBytes - 1 -> Cells]
           /\ \A b \in 0 .. Extent(e) - 1 : Stored(o, e)[o + b] = [event |-> e, byte |-> b]
           /\ \A b \in 0 .. LogBytes - 1 : b < o => Stored(o, e)[b] = log[b]
  <1>1. Extent(e) \in Nat /\ LogBytes \in Nat
    BY ExtentType, LogAssumption
  <1>2. ASSUME NEW b \in 0 .. LogBytes - 1
        PROVE  /\ Stored(o, e)[b] \in Cells
               /\ b < o => Stored(o, e)[b] = log[b]
    <2>1. CASE b \in o .. o + Extent(e) - 1
      <3>1. b - o \in Nat /\ ~(b < o)
        BY <2>1, <1>1
      <3>2. Stored(o, e)[b] = [event |-> e, byte |-> b - o]
        BY <2>1 DEF Stored
      <3> QED
        BY <3>1, <3>2 DEF Cells
    <2>2. CASE b \notin o .. o + Extent(e) - 1
      BY <2>2 DEF Stored
    <2> QED
      BY <2>1, <2>2
  <1>3. ASSUME NEW b \in 0 .. Extent(e) - 1
        PROVE  Stored(o, e)[o + b] = [event |-> e, byte |-> b]
    <2>1. o + b \in 0 .. LogBytes - 1 /\ o + b \in o .. o + Extent(e) - 1 /\ (o + b) - o = b
      BY <1>1
    <2> QED
      BY <2>1 DEF Stored
  <1> QED
    BY <1>2, <1>3 DEF Stored

---------------------------------------------------------------------------
(* The invariant is inductive                                              *)

LEMMA LogStarts == LogInit => LogInv
  <1> SUFFICES ASSUME LogInit PROVE LogInv
    OBVIOUS
  <1>1. LogTypes
    BY LogAssumption DEF LogInit, LogTypes, Cells, Taken
  <1>2. Taken = 0 /\ Used = 0 /\ ~Lost
    BY DEF LogInit, Taken, Used, Behind, Lost
  <1>3. BackToBack
    BY <1>2, LogAssumption DEF BackToBack, Behind, RecordLimit, LogInit, Taken
  <1>4. BytesKept /\ MarkerPlaced /\ Replaying
    BY <1>2 DEF LogInit, BytesKept, MarkerPlaced, Replaying, Behind
  <1>5. Halted
    BY NoneAssumption DEF LogInit, Halted
  <1> QED
    BY <1>1, <1>3, <1>4, <1>5 DEF LogInv

LEMMA RecordKeeps ==
    ASSUME LogInv, NEW e \in Events, Record(e)
    PROVE  LogInv'
  <1> USE DEF LogInv
  <1>1. /\ ~Lost /\ write = Used /\ Taken = Len(attempted) /\ mode = "RECORD"
        /\ write + Extent(e) <= RecordLimit /\ Extent(e) \in Nat /\ Extent(e) > 0
        /\ Taken \in Nat /\ replayed = << >> /\ read = 0
    BY ExtentType, LogAssumption
       DEF Record, Recording, Fits, MarkerPlaced, LogTypes, Lost, Taken, Replaying
  <1>2. /\ Len(starts') = Taken + 1 /\ starts' \in Seq(Nat)
        /\ Len(attempted') = Taken + 1 /\ attempted' \in Seq(Events)
        /\ starts'[Taken + 1] = write /\ attempted'[Taken + 1] = e
        /\ \A i \in 1 .. Taken : starts'[i] = starts[i] /\ attempted'[i] = attempted[i]
    BY <1>1 DEF Record, LogTypes, Taken
  <1>3. \A i \in 0 .. Taken : Behind(i)' = Behind(i)
    BY <1>1, <1>2 DEF Behind, Extent
  <1>4. Taken' = Taken + 1 /\ Used' = write + Extent(e)
    BY <1>1, <1>2 DEF Behind, Used, Taken, Extent
  <1>5. write + Extent(e) <= LogBytes /\ write \in Nat
    BY <1>1, LogAssumption DEF RecordLimit, LogTypes
  <1>6. /\ log' \in [0 .. LogBytes - 1 -> Cells]
        /\ \A b \in 0 .. Extent(e) - 1 : log'[write + b] = [event |-> e, byte |-> b]
        /\ \A b \in 0 .. LogBytes - 1 : b < write => log'[b] = log[b]
    BY <1>5, StoredBytes DEF Record, LogTypes
  <1>7. LogTypes'
    BY <1>2, <1>4, <1>5, <1>6, <1>1 DEF LogTypes, Record, Taken
  <1>8. BackToBack'
    <2>1. ASSUME NEW i \in 1 .. Taken' PROVE starts'[i] = Behind(i - 1)'
      <3>1. CASE i = Taken + 1
        BY <3>1, <1>1, <1>2, <1>3 DEF Used
      <3>2. CASE i # Taken + 1
        <4>1. i \in 1 .. Taken /\ i - 1 \in 0 .. Taken
          BY <3>2, <1>1, <1>4
        <4> QED
          BY <4>1, <1>2, <1>3 DEF BackToBack
      <3> QED
        BY <3>1, <3>2
    <2>2. ASSUME NEW i \in 0 .. Taken' PROVE Behind(i)' \in Nat /\ Behind(i)' <= Used'
      <3>1. CASE i = Taken + 1
        <4>1. Behind(i)' = Used'
          BY <3>1, <1>4 DEF Used, Behind
        <4> QED
          BY <4>1, <1>1, <1>4, <1>5
      <3>2. CASE i # Taken + 1
        <4>1. i \in 0 .. Taken
          BY <3>2, <1>1, <1>4
        <4>2. Behind(i) \in Nat /\ Behind(i) <= Used
          BY <4>1 DEF BackToBack
        <4> QED
          BY <4>1, <4>2, <1>1, <1>3, <1>4, <1>5
      <3> QED
        BY <3>1, <3>2
    <2>3. Used' <= RecordLimit
      BY <1>1, <1>4
    <2> QED
      BY <2>1, <2>2, <2>3 DEF BackToBack, RecordLimit
  <1>9. BytesKept'
    <2> SUFFICES ASSUME NEW i \in 1 .. Taken', NEW b \in 0 .. Extent(attempted'[i]) - 1
                 PROVE  log'[starts'[i] + b] = [event |-> attempted'[i], byte |-> b]
      BY DEF BytesKept, Extent
    <2>1. CASE i = Taken + 1
      BY <2>1, <1>2, <1>6
    <2>2. CASE i # Taken + 1
      <3>1. i \in 1 .. Taken /\ i \in 0 .. Taken /\ i # 0
        BY <2>2, <1>1, <1>4
      <3>2. starts'[i] = starts[i] /\ attempted'[i] = attempted[i]
        BY <3>1, <1>2
      <3>3. starts[i] + Extent(attempted[i]) <= write /\ starts[i] \in Nat
        BY <3>1, <1>1 DEF BackToBack, Behind, LogTypes, Taken
      <3>4. attempted[i] \in Events
        BY <3>1, <1>1 DEF LogTypes
      <3>5. Extent(attempted[i]) \in Nat
        BY <3>4, ExtentType
      <3>6. starts[i] + b \in 0 .. LogBytes - 1 /\ starts[i] + b < write
        BY <3>2, <3>3, <3>5, <1>5, <1>1, LogAssumption
      <3>7. log[starts[i] + b] = [event |-> attempted[i], byte |-> b]
        BY <3>1, <3>2 DEF BytesKept
      <3> QED
        BY <3>2, <3>6, <3>7, <1>6
    <2> QED
      BY <2>1, <2>2
  <1>10. MarkerPlaced'
    BY <1>1, <1>2, <1>4 DEF MarkerPlaced, Lost, Record, Taken
  <1>11. Replaying'
    BY <1>1, <1>4 DEF Replaying, Record
  <1>12. Halted'
    BY NoneAssumption DEF Halted, Record
  <1> QED
    BY <1>7, <1>8, <1>9, <1>10, <1>11, <1>12

LEMMA OverflowKeeps ==
    ASSUME LogInv, NEW e \in Events, RecordOverflows(e)
    PROVE  LogInv'
  <1> USE DEF LogInv
  <1>1. /\ ~Lost /\ write = Used /\ Taken = Len(attempted) /\ mode = "RECORD"
        /\ write <= RecordLimit /\ Taken \in Nat /\ replayed = << >> /\ read = 0
    BY DEF RecordOverflows, Recording, MarkerPlaced, LogTypes, Lost, Taken, Replaying,
           BackToBack
  <1>2. /\ Len(attempted') = Taken + 1 /\ attempted' \in Seq(Events)
        /\ starts' = starts /\ Taken' = Taken
        /\ \A i \in 1 .. Taken : attempted'[i] = attempted[i]
    BY <1>1 DEF RecordOverflows, LogTypes, Taken
  <1>3. \A i \in 0 .. Taken : Behind(i)' = Behind(i)
    BY <1>1, <1>2 DEF Behind, Extent
  <1>4. Used' = Used
    BY <1>1, <1>2 DEF Behind, Used, Extent, Taken
  <1>5. write + Extent(MarkerEvent) <= LogBytes /\ write \in Nat /\ HeaderBytes \in Nat
        /\ HeaderBytes > 0 /\ RecordLimit \in Int
    BY <1>1, MarkerExtent, LogAssumption DEF RecordLimit, LogTypes
  <1>6. /\ log' = Stored(write, MarkerEvent)
        /\ write' = write + HeaderBytes
        /\ mode' = "OVERFLOWED"
        /\ fatal' = fatal
        /\ read' = read /\ replayed' = replayed
    BY <1>1, <1>5 DEF RecordOverflows, Overflowed
  <1>7. /\ log' \in [0 .. LogBytes - 1 -> Cells]
        /\ \A b \in 0 .. Extent(MarkerEvent) - 1 :
              log'[write + b] = [event |-> MarkerEvent, byte |-> b]
        /\ \A b \in 0 .. LogBytes - 1 : b < write => log'[b] = log[b]
    BY <1>5, <1>6, StoredBytes DEF LogTypes
  <1>8. LogTypes'
    BY <1>1, <1>2, <1>5, <1>6, <1>7 DEF LogTypes
  <1>9. BackToBack'
    <2>1. ASSUME NEW i \in 1 .. Taken' PROVE starts'[i] = Behind(i - 1)'
      <3>1. i \in 1 .. Taken /\ i - 1 \in 0 .. Taken
        BY <1>1, <1>2
      <3> QED
        BY <3>1, <1>2, <1>3 DEF BackToBack
    <2>2. ASSUME NEW i \in 0 .. Taken' PROVE Behind(i)' \in Nat /\ Behind(i)' <= Used'
      BY <1>2, <1>3, <1>4 DEF BackToBack
    <2> QED
      BY <2>1, <2>2, <1>1, <1>4 DEF BackToBack, RecordLimit
  <1>10. BytesKept'
    <2> SUFFICES ASSUME NEW i \in 1 .. Taken, NEW b \in 0 .. Extent(attempted'[i]) - 1
                 PROVE  log'[starts[i] + b] = [event |-> attempted'[i], byte |-> b]
      BY <1>2 DEF BytesKept, Extent
    <2>1. attempted'[i] = attempted[i] /\ attempted[i] \in Events /\ i \in 0 .. Taken /\ i # 0
      BY <1>1, <1>2 DEF LogTypes
    <2>2. starts[i] + Extent(attempted[i]) <= write /\ starts[i] \in Nat
      BY <2>1, <1>1 DEF BackToBack, Behind, LogTypes, Taken
    <2>3. Extent(attempted[i]) \in Nat
      BY <2>1, ExtentType
    <2>4. starts[i] + b \in 0 .. LogBytes - 1 /\ starts[i] + b < write
      BY <2>1, <2>2, <2>3, <1>5, MarkerExtent, LogAssumption
    <2>5. log[starts[i] + b] = [event |-> attempted[i], byte |-> b]
      BY <2>1 DEF BytesKept
    <2> QED
      BY <2>1, <2>4, <2>5, <1>7
  <1>11. MarkerPlaced'
    <2>1. Lost'
      BY <1>1, <1>2 DEF Lost, Taken
    <2>2. log'[write].event = MarkerEvent
      <3>1. 0 \in 0 .. Extent(MarkerEvent) - 1 /\ write + 0 = write
        BY <1>5, MarkerExtent
      <3>2. log'[write + 0] = [event |-> MarkerEvent, byte |-> 0]
        BY <3>1, <1>7
      <3> QED
        BY <3>1, <3>2
    <2> QED
      BY <2>1, <2>2, <1>1, <1>4, <1>6 DEF MarkerPlaced
  <1>12. Replaying'
    BY <1>1, <1>2, <1>6 DEF Replaying
  <1>13. Halted'
    BY <1>6, NoneAssumption DEF Halted, RecordOverflows
  <1> QED
    BY <1>8, <1>9, <1>10, <1>11, <1>12, <1>13

LEMMA DeniedKeeps ==
    ASSUME LogInv, NEW e \in Events, RecordDenied(e)
    PROVE  LogInv'
  <1> USE DEF LogInv
  <1>1. /\ Len(attempted') = Len(attempted) + 1 /\ attempted' \in Seq(Events)
        /\ starts' = starts /\ Taken' = Taken /\ Taken \in Nat
        /\ \A i \in 1 .. Taken : attempted'[i] = attempted[i]
        /\ Lost /\ Lost' /\ replayed = << >> /\ mode = "OVERFLOWED"
    BY DEF RecordDenied, LogTypes, Taken, Lost, MarkerPlaced, Replaying
  <1>2. /\ \A i \in 0 .. Taken : Behind(i)' = Behind(i)
        /\ Used' = Used
    BY <1>1 DEF Behind, Extent, Used
  <1>3. LogTypes'
    BY <1>1 DEF LogTypes, RecordDenied
  <1>4. BackToBack'
    <2>1. ASSUME NEW i \in 1 .. Taken' PROVE starts'[i] = Behind(i - 1)'
      <3>1. i \in 1 .. Taken /\ i - 1 \in 0 .. Taken
        BY <1>1
      <3> QED
        BY <3>1, <1>1, <1>2 DEF BackToBack
    <2> QED
      BY <2>1, <1>1, <1>2 DEF BackToBack, RecordLimit
  <1>5. BytesKept'
    <2> SUFFICES ASSUME NEW i \in 1 .. Taken, NEW b \in 0 .. Extent(attempted'[i]) - 1
                 PROVE  log'[starts[i] + b] = [event |-> attempted'[i], byte |-> b]
      BY <1>1 DEF BytesKept, Extent
    <2>1. log' = log /\ attempted'[i] = attempted[i]
      BY <1>1 DEF RecordDenied
    <2> QED
      BY <2>1 DEF BytesKept
  <1>6. MarkerPlaced'
    BY <1>1, <1>2 DEF MarkerPlaced, RecordDenied
  <1>7. Replaying'
    BY <1>1 DEF Replaying, RecordDenied
  <1>8. Halted'
    BY NoneAssumption DEF Halted, RecordDenied
  <1> QED
    BY <1>3, <1>4, <1>5, <1>6, <1>7, <1>8

\* While events are left the cursor stands at the next one, which is whole.
LEMMA NextEvent ==
    ASSUME LogInv, Len(replayed) < Taken
    PROVE  LET n == Len(replayed) + 1 IN
           /\ n \in 1 .. Taken
           /\ Cursor = starts[n] /\ Cursor \in Nat
           /\ attempted[n] \in Events
           /\ log[Cursor].event = attempted[n]
           /\ Whole(Cursor)
           /\ Cursor + Extent(attempted[n]) = Behind(n)
           /\ Behind(n) <= write
  <1> USE DEF LogInv
  <1> DEFINE n == Len(replayed) + 1
  <1>1. n \in 1 .. Taken /\ n - 1 = Len(replayed) /\ n # 0 /\ n \in 0 .. Taken
    BY DEF LogTypes, Taken
  <1>2. Cursor = Behind(Len(replayed))
    BY DEF Cursor, Replaying, LogTypes, Behind
  <1>3. Cursor = starts[n] /\ Cursor \in Nat
    BY <1>1, <1>2 DEF BackToBack, LogTypes, Taken
  <1>4. attempted[n] \in Events
    BY <1>1 DEF LogTypes, Taken
  <1>5. Extent(attempted[n]) \in Nat /\ Extent(attempted[n]) > 0
    BY <1>4, ExtentType, LogAssumption
  <1>6. \A b \in 0 .. Extent(attempted[n]) - 1 :
            log[Cursor + b] = [event |-> attempted[n], byte |-> b]
    BY <1>1, <1>3 DEF BytesKept
  <1>7. log[Cursor].event = attempted[n]
    <2>1. 0 \in 0 .. Extent(attempted[n]) - 1 /\ Cursor + 0 = Cursor
      BY <1>3, <1>5
    <2>2. log[Cursor + 0] = [event |-> attempted[n], byte |-> 0]
      BY <2>1, <1>6
    <2> QED
      BY <2>1, <2>2
  <1>8. Whole(Cursor)
    BY <1>6, <1>7 DEF Whole
  <1>9. Cursor + Extent(attempted[n]) = Behind(n)
    BY <1>1, <1>3 DEF Behind
  <1>10. Behind(n) \in Nat /\ Behind(n) <= Used /\ Used \in Nat
    BY <1>1 DEF BackToBack, Used, LogTypes, Taken
  <1>11. Behind(n) <= write
    BY <1>10, LogAssumption DEF MarkerPlaced
  <1> QED
    BY <1>1, <1>3, <1>4, <1>7, <1>8, <1>9, <1>11

\* When every event is replayed the next call halts, and says which end it met.
LEMMA EndOfLog ==
    ASSUME LogInv, Len(replayed) = Taken, NEW k, NEW c
    PROVE  ReplayCode(k, c) = IF Lost THEN "overflow" ELSE "exhausted"
  <1> USE DEF LogInv
  <1>1. Cursor = Used /\ Used \in Nat
    BY DEF Cursor, Replaying, LogTypes, Behind, BackToBack, Used, Taken
  <1>2. write = IF Lost THEN Used + HeaderBytes ELSE Used
    BY DEF MarkerPlaced
  <1>3. HeaderBytes \in Nat /\ HeaderBytes > 0
    BY LogAssumption
  <1>4. CASE Lost
    <2>1. log[Cursor].event.kind = Marker
      BY <1>1, <1>4 DEF MarkerPlaced, MarkerEvent
    <2>2. ~(Cursor > write) /\ ~(Cursor + HeaderBytes > write)
      BY <1>1, <1>2, <1>3, <1>4
    <2> QED
      BY <2>1, <2>2, <1>4 DEF ReplayCode
  <1>5. CASE ~Lost
    <2>1. ~(Cursor > write) /\ Cursor + HeaderBytes > write
      BY <1>1, <1>2, <1>3, <1>5
    <2> QED
      BY <2>1, <1>5 DEF ReplayCode
  <1> QED
    BY <1>4, <1>5

LEMMA ReplayKeeps ==
    ASSUME LogInv, NEW k \in Kinds, NEW c \in Capacities, Replay(k, c)
    PROVE  LogInv'
  <1> USE DEF LogInv
  <1>1. /\ log' = log /\ write' = write /\ attempted' = attempted /\ starts' = starts
        /\ mode' = "REPLAY" /\ fatal' = ReplayCode(k, c)
    BY DEF Replay
  <1>2. /\ Taken' = Taken /\ Lost' = Lost /\ Used' = Used
        /\ \A i \in Nat : Behind(i)' = Behind(i)
    BY <1>1 DEF Taken, Lost, Used, Behind, Extent
  <1>3. BackToBack' /\ BytesKept'
    BY <1>1, <1>2 DEF BackToBack, BytesKept, Behind, Extent, RecordLimit
  <1>4. MarkerPlaced'
    BY <1>1, <1>2 DEF MarkerPlaced
  <1>5. Len(replayed) \in Nat /\ Taken \in Nat /\ Len(replayed) <= Taken
    BY DEF LogTypes, Taken, Replaying
  <1>6. CASE Len(replayed) < Taken
    <2> DEFINE n == Len(replayed) + 1
    <2>1. /\ n \in 1 .. Taken /\ Cursor = starts[n] /\ Cursor \in Nat
          /\ attempted[n] \in Events /\ log[Cursor].event = attempted[n]
          /\ Whole(Cursor) /\ Cursor + Extent(attempted[n]) = Behind(n)
          /\ Behind(n) <= write
      BY <1>6, NextEvent
    <2>2. Extent(attempted[n]) \in Nat /\ HeaderBytes \in Nat
          /\ HeaderBytes <= Extent(attempted[n]) /\ write \in Nat
      BY <2>1, ExtentType, LogAssumption DEF LogTypes
    <2>3. attempted[n].kind # Marker
      BY <2>1, LogAssumption DEF Events
    <2>4. ReplayCode(k, c) \in {"mismatch", "small", None}
      <3>1. /\ ~(Cursor > write) /\ ~(Cursor + HeaderBytes > write)
            /\ ~(Cursor + Extent(attempted[n]) > write)
        BY <2>1, <2>2
      <3> QED
        BY <3>1, <2>1, <2>3 DEF ReplayCode
    <2>5. CASE ReplayCode(k, c) = None
      <3>1. read' = Behind(n) /\ replayed' = Append(replayed, attempted[n])
        BY <2>1, <2>5 DEF Replay, Advanced
      <3>2. /\ Len(replayed') = n /\ replayed' \in Seq(Events)
            /\ \A i \in 1 .. n : replayed'[i] = attempted[i]
        <4>1. /\ Len(replayed') = n /\ replayed' \in Seq(Events) /\ replayed'[n] = attempted[n]
              /\ \A i \in 1 .. Len(replayed) : replayed'[i] = replayed[i]
          BY <3>1, <2>1 DEF LogTypes
        <4> QED
          BY <4>1, <1>5 DEF Replaying
      <3>3. Behind(n) \in Nat
        BY <2>1, <2>2
      <3>4. LogTypes'
        BY <1>1, <1>2, <3>1, <3>2, <3>3 DEF LogTypes
      <3>5. Replaying'
        BY <1>1, <1>2, <2>1, <3>1, <3>2, <1>5 DEF Replaying
      <3>6. Halted'
        BY <1>1, <2>5, NoneAssumption DEF Halted
      <3> QED
        BY <3>4, <3>5, <3>6, <1>3, <1>4
    <2>6. CASE ReplayCode(k, c) # None
      <3>1. read' = Cursor /\ replayed' = replayed
        BY <2>6 DEF Replay
      <3>2. Cursor = Behind(Len(replayed))
        BY DEF Cursor, Replaying, LogTypes, Behind
      <3>3. LogTypes'
        BY <1>1, <1>2, <2>1, <3>1 DEF LogTypes
      <3>4. Replaying'
        BY <1>1, <1>2, <1>5, <3>1, <3>2 DEF Replaying
      <3>5. Halted'
        BY <1>1, <2>4, <2>6 DEF Halted
      <3> QED
        BY <3>3, <3>4, <3>5, <1>3, <1>4
    <2> QED
      BY <2>5, <2>6
  <1>7. CASE Len(replayed) = Taken
    <2>1. ReplayCode(k, c) = IF Lost THEN "overflow" ELSE "exhausted"
      BY <1>7, EndOfLog
    <2>2. read' = Cursor /\ replayed' = replayed
      BY <2>1, NoneAssumption DEF Replay
    <2>3. Cursor = Behind(Len(replayed)) /\ Cursor \in Nat
      BY DEF Cursor, Replaying, LogTypes, Behind
    <2>4. LogTypes'
      BY <1>1, <1>2, <2>2, <2>3 DEF LogTypes
    <2>5. Replaying'
      BY <1>1, <1>2, <1>5, <2>2, <2>3 DEF Replaying
    <2>6. Halted'
      BY <1>1, <1>2, <1>7, <2>1, <2>2 DEF Halted
    <2> QED
      BY <2>4, <2>5, <2>6, <1>3, <1>4
  <1> QED
    BY <1>5, <1>6, <1>7

LEMMA LogStep == LogInv /\ [LogNext]_logVars => LogInv'
  <1> SUFFICES ASSUME LogInv, [LogNext]_logVars PROVE LogInv'
    OBVIOUS
  <1>1. CASE UNCHANGED logVars
    BY <1>1 DEF logVars, LogInv, LogTypes, BackToBack, BytesKept, MarkerPlaced, Replaying,
                Halted, Taken, Lost, Used, Behind, Extent, RecordLimit, Cells
  <1>2. CASE \E e \in Events : Record(e) \/ RecordOverflows(e) \/ RecordDenied(e)
    BY <1>2, RecordKeeps, OverflowKeeps, DeniedKeeps
  <1>3. CASE \E k \in Kinds, c \in Capacities : Replay(k, c)
    BY <1>3, ReplayKeeps
  <1> QED
    BY <1>1, <1>2, <1>3 DEF LogNext

\* LogInv holds in every state the runtime reaches.
THEOREM LogInvariant == LogSpec => []LogInv
  <1>1. LogInit => LogInv
    BY LogStarts
  <1>2. LogInv /\ [LogNext]_logVars => LogInv'
    BY LogStep
  <1> QED
    BY <1>1, <1>2, PTL DEF LogSpec

---------------------------------------------------------------------------
(* What follows from it                                                    *)

\* record_event and replay_event keep their cursors inside the buffer, for
\* every buffer size and every payload length, those that carry included.
THEOREM LogTypeCorrect == LogSpec => []LogTypeOK
  <1>1. LogInv => LogTypeOK
    <2> SUFFICES ASSUME LogInv PROVE LogTypeOK
      OBVIOUS
    <2>1. Used \in Nat /\ Used <= RecordLimit /\ HeaderBytes \in Nat /\ LogBytes \in Nat
      BY LogAssumption DEF LogInv, BackToBack, Used, LogTypes, Taken
    <2>2. write \in 0 .. LogBytes /\ Used <= write
      BY <2>1, LogAssumption DEF LogInv, MarkerPlaced, RecordLimit
    <2>3. read \in 0 .. write
      <3>1. CASE mode = "REPLAY"
        <4>1. read = Behind(Len(replayed)) /\ Len(replayed) \in 0 .. Taken
          BY <3>1 DEF LogInv, Replaying, LogTypes, Taken
        <4>2. Behind(Len(replayed)) \in Nat /\ Behind(Len(replayed)) <= Used
          BY <4>1 DEF LogInv, BackToBack
        <4> QED
          BY <4>1, <4>2, <2>1, <2>2
      <3>2. CASE mode # "REPLAY"
        BY <3>2, <2>2 DEF LogInv, Replaying
      <3> QED
        BY <3>1, <3>2
    <2>4. mode = "RECORD" => write <= RecordLimit
      BY <2>1 DEF LogInv, MarkerPlaced
    <2> QED
      BY <2>2, <2>3, <2>4 DEF LogTypeOK, LogInv, LogTypes, Taken
  <1> QED
    BY <1>1, LogInvariant, PTL

\* replay_event returns the recorded events in order and byte for byte.
THEOREM ReplayCorrect == LogSpec => []ReplayFollowsRecord
  <1>1. LogInv => ReplayFollowsRecord
    BY DEF LogInv, LogTypes, Replaying, ReplayFollowsRecord, Taken
  <1> QED
    BY <1>1, LogInvariant, PTL

\* record_event and replay_event never halt on their own bookkeeping.
THEOREM NeverCorruptHolds == LogSpec => []NeverCorrupt
  <1>1. LogInv => NeverCorrupt
    BY DEF LogInv, Halted, NeverCorrupt
  <1> QED
    BY <1>1, LogInvariant, PTL

\* A replay that runs out without the overflow code has returned every event
\* that was given to record_event.
THEOREM ExhaustedComplete == LogSpec => []ExhaustedMeansAll
  <1>1. LogInv => ExhaustedMeansAll
    <2> SUFFICES ASSUME LogInv, fatal = "exhausted" PROVE replayed = attempted
      BY DEF ExhaustedMeansAll
    <2>1. Len(replayed) = Len(attempted) /\ replayed \in Seq(Events) /\ attempted \in Seq(Events)
      BY DEF LogInv, Halted, Lost, LogTypes, Taken
    <2>2. \A i \in 1 .. Len(replayed) : replayed[i] = attempted[i]
      BY DEF LogInv, Replaying
    <2> QED
      BY <2>1, <2>2
  <1> QED
    BY <1>1, LogInvariant, PTL

\* The overflow code is met only behind the last event taken, when one was
\* refused.
THEOREM MarkerHonest == LogSpec => []MarkerMeansLost
  <1>1. LogInv => MarkerMeansLost
    BY DEF LogInv, Halted, MarkerMeansLost, Lost, Taken
  <1> QED
    BY <1>1, LogInvariant, PTL

\* The four together: the cursors, the codes and the two ends of a replay tell
\* the truth about what record_event was given.
THEOREM LogSafeHolds == LogSpec => []LogSafe
  BY LogTypeCorrect, NeverCorruptHolds, ExhaustedComplete, MarkerHonest, PTL DEF LogSafe

\* record_event changes nothing once a replay has begun.
THEOREM FrozenHolds == LogSpec => FrozenAfterReplay
  <1>1. [LogNext]_logVars => (mode = "REPLAY" => log' = log /\ write' = write)
    BY DEF LogNext, logVars, Record, RecordOverflows, RecordDenied, Replay, Recording
  <1> QED
    BY <1>1, PTL DEF LogSpec, FrozenAfterReplay
=============================================================================
