-------------------------- MODULE MCEngineExecution --------------------------
(* Small policies and outcomes for EngineExecution: quotas that the events   *)
(* reach exactly, by count, by bytes and by diagnostics, and one beyond.     *)
EXTENDS EngineExecution

MCPolicies ==
    { [events |-> 3, event_bytes |-> 5, diagnostics |-> 2, warnings_as_errors |-> FALSE],
      [events |-> 3, event_bytes |-> 4, diagnostics |-> 2, warnings_as_errors |-> FALSE],
      [events |-> 3, event_bytes |-> 6, diagnostics |-> 2, warnings_as_errors |-> TRUE],
      [events |-> 1, event_bytes |-> 6, diagnostics |-> 1, warnings_as_errors |-> FALSE] }

Checked(phases, diagnostics) ==
    [kind |-> "Checked", phases |-> phases, diagnostics |-> diagnostics]
Other(kind, phases) == [kind |-> kind, phases |-> phases, diagnostics |-> <<>>]

MCOutcomes ==
    { Checked(1, d) : d \in { <<>>, <<"Warning">>, <<"Warning", "Warning">>,
                              <<"Warning", "Error">>, <<"Warning", "Warning", "Warning">> } }
    \cup { Checked(2, <<"Warning", "Error">>), Checked(4, <<>>),
           Other("PreflightResource", 0), Other("PreflightRejected", 0),
           Other("PreflightInternal", 0), Other("ComptimeLimit", 1),
           Other("InputError", 1), Other("InternalError", 3), Other("Cancelled", 1) }

MCLateFrame == [seq |-> 7, request |-> "this", kind |-> "Cancel"]

MCLateFrames ==
    { MCLateFrame, [MCLateFrame EXCEPT !.seq = 6] }
=============================================================================
