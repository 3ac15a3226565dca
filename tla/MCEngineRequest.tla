--------------------------- MODULE MCEngineRequest ---------------------------
(* Small requests for EngineRequest: an honest tree with a nested, an empty  *)
(* and a two-byte file, and requests that misdescribe theirs.                *)
EXTENDS EngineRequest

MCPathOrder == << <<"a">>, <<"d", "b">>, <<"d", "e", "c">>, <<"d", "e", "c", "x">> >>

Rec(p, data) == [path |-> p, bytes |-> Len(data), digest |-> data]
ShortRec == [path |-> 1, bytes |-> 1, digest |-> <<0, 1>>]
LyingEmpty == [path |-> 2, bytes |-> 0, digest |-> <<1>>]

Input(recs, n, path_bytes, content_bytes) ==
    [digest |-> recs, records |-> n, path_bytes |-> path_bytes,
     content_bytes |-> content_bytes]

Tree == <<Rec(1, <<0, 1>>), Rec(2, <<>>), Rec(3, <<1>>)>>

Req(id, bound, input, manifest) ==
    [id |-> id, bound |-> bound, input |-> input, manifest |-> manifest,
     allowance |-> [records |-> 3, path_bytes |-> 8, content_bytes |-> 3]]

MCRequests ==
    { Req("honest", TRUE, Input(Tree, 3, 6, 3), 1),
      Req("other", TRUE, Input(<<Rec(1, <<1, 0>>), Rec(2, <<>>), Rec(3, <<1>>)>>, 3, 6, 3), 1),
      Req("no_manifest", TRUE, Input(<<Rec(2, <<>>)>>, 1, 2, 0), 1),
      Req("wrong_count", TRUE, Input(<<Rec(1, <<0, 1>>)>>, 2, 3, 2), 1),
      Req("too_large", TRUE, Input(Tree, 3, 6, 4), 1),
      Req("foreign_engine", FALSE, Input(Tree, 3, 6, 3), 1),
      Req("conflict", TRUE, Input(<<Rec(3, <<1>>), Rec(4, <<>>)>>, 2, 7, 1), 3) }

MCMessages ==
    {[kind |-> "ClientHello", trusted |-> t] : t \in BOOLEAN}
    \cup {[kind |-> "RequestHeader", request |-> r] : r \in MCRequests}
    \cup {[kind |-> "InputRecord", index |-> i, record |-> rec] :
            i \in 0 .. 2,
            rec \in {Rec(1, <<0, 1>>), Rec(2, <<>>), Rec(3, <<1>>), Rec(4, <<>>),
                     Rec(1, <<1, 0>>), ShortRec, LyingEmpty}}
    \cup {[kind |-> "InputChunk", index |-> i, offset |-> o, bytes |-> b] :
            i \in 0 .. 2, o \in 0 .. 1, b \in {<<0>>, <<1>>, <<0, 1>>, <<>>}}
    \cup {[kind |-> "InputFinish", input |-> r.input] : r \in MCRequests}
    \cup {[kind |-> "Cancel"]}

\* Sequence numbers reach one past the longest canonical stream.
MaxSequence == 10

MCFrames ==
    [seq : 0 .. MaxSequence, id : {r.id : r \in MCRequests}, msg : MCMessages]
=============================================================================
