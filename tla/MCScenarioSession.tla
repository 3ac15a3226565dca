-------------------------- MODULE MCScenarioSession --------------------------
(* A prompt is expected, an answer is sent, the same token is expected     *)
(* again, then the exit.                                                   *)
EXTENDS ScenarioSession

CONSTANTS ready, corrupt

MCTokens == {ready, corrupt}
MCRejected == {corrupt}
MCScenario == <<<<"expect", ready>>, <<"send">>, <<"expect", ready>>, <<"exit", "exited">>>>
=============================================================================
