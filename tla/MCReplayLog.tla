---------------------------- MODULE MCReplayLog ----------------------------
EXTENDS ReplayLog, TLC

CONSTANTS empty, one, two, huge

MCPayloads == {empty, one, two, huge}

\* huge and the header together carry past the word.
MCLength == empty :> 0 @@ one :> 1 @@ two :> 2 @@ huge :> Word - 1 @@ NoPayload :> 0
=============================================================================
