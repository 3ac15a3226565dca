---------------------------- MODULE FrameChannel ----------------------------
(***************************************************************************)
(* What the PL011 transport promises to the layers above it: canonical     *)
(* test frames reach the host whole, once and in the order in which the    *)
(* guest sent them.  A transmission the guest gives up on is lost together *)
(* with everything after it; it is never delivered in part.  Once the host *)
(* has closed the stream, nothing is added to what it holds.               *)
(*                                                                         *)
(* SlipLink shows that the byte-level code implements this specification.  *)
(***************************************************************************)
EXTENDS Sequences

CONSTANTS Frames,   \* the canonical frames of CanonicalTestEventCodec
          Nothing   \* no transmission in progress

VARIABLES inflight,   \* the frame slip_send is transmitting, or Nothing
          delivered,  \* the frames the host has decoded
          status      \* "open", "broken" (a send timed out), "closed"

chanVars == <<inflight, delivered, status>>

ChanTypeOK ==
    /\ inflight \in Frames \cup {Nothing}
    /\ delivered \in Seq(Frames)
    /\ status \in {"open", "broken", "closed"}

ChanInit ==
    /\ inflight = Nothing
    /\ delivered = <<>>
    /\ status = "open"

\* The guest starts to transmit a frame.
Send(f) ==
    /\ status = "open"
    /\ inflight = Nothing
    /\ inflight' = f
    /\ UNCHANGED <<delivered, status>>

\* The whole frame arrives.
Deliver ==
    /\ status = "open"
    /\ inflight # Nothing
    /\ delivered' = Append(delivered, inflight)
    /\ inflight' = Nothing
    /\ UNCHANGED status

\* The guest gives up; the channel carries no further frame.
GiveUp ==
    /\ status = "open"
    /\ inflight # Nothing
    /\ inflight' = Nothing
    /\ status' = "broken"
    /\ UNCHANGED delivered

\* The host stops reading, whatever is in flight.
Close ==
    /\ status # "closed"
    /\ status' = "closed"
    /\ inflight' = Nothing
    /\ UNCHANGED delivered

ChanNext == (\E f \in Frames : Send(f)) \/ Deliver \/ GiveUp \/ Close

ChanSpec == ChanInit /\ [][ChanNext]_chanVars
=============================================================================
