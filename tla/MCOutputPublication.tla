------------------------ MODULE MCOutputPublication ------------------------
(* Two builds of one image publish into the same directory.                 *)
EXTENDS OutputPublication, TLC

CONSTANTS p1, p2

MCPublishers == {p1, p2}
MCContents == {p1 :> "same" @@ p2 :> "same"}
=============================================================================
