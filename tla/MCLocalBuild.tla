---------------------------- MODULE MCLocalBuild ----------------------------
(* Two builds of one key, of the same or of different frames.               *)
EXTENDS LocalBuild, TLC

CONSTANTS fits, big

\* fits is exactly as long as the limit, big is longer.
MCFrames == {fits, big}
MCFrameBytes == fits :> 2 @@ big :> 3
\* An entry of another key, a flipped bit, sealed garbage, and a sealed frame,
\* which is stale for a build of the other one.
MCForeign ==
    {[key |-> "other", payload |-> fits, digest |-> fits],
     [key |-> "ours", payload |-> fits, digest |-> big],
     [key |-> "ours", payload |-> Garbage, digest |-> Garbage],
     [key |-> "ours", payload |-> fits, digest |-> fits]}
MCSymmetry == Permutations(Builders)
=============================================================================
