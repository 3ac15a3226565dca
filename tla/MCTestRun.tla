----------------------------- MODULE MCTestRun -----------------------------
(* Groups of one and two tests; events may also name a third one, code may  *)
(* count it, and a free line has heartbeats.  The event limits are exactly  *)
(* what the harness needs for two tests.                                    *)
EXTENDS TestRun

MCTests == 1..(MaxPlanned + 1)
MCCounts == 0..MaxPlanned
MCCallCounts == 0..(MaxPlanned + 1)
MCTicks == 1..2
MCEvents == 2 * MaxPlanned + 2
=============================================================================
