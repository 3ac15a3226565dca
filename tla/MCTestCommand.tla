--------------------------- MODULE MCTestCommand ---------------------------
(* Both processes can write up to, at and past what is kept of them.       *)
EXTENDS TestCommand

MCKept == [s \in Streams |-> IF s = "stdout" THEN 2 ELSE 1]
=============================================================================
