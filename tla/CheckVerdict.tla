---------------------------- MODULE CheckVerdict ----------------------------
(***************************************************************************)
(* What the engine promises about one check and one late cancellation: the *)
(* check gets at most one verdict, a cancellation answered "Requested"     *)
(* leaves no verdict but Cancelled, and one answered "ExecutionCompleted"  *)
(* changes nothing.                                                        *)
(***************************************************************************)
CONSTANTS Statuses, None

VARIABLES
    verdict,     \* None, "Failed" (an error and no terminal) or a status
    disposition  \* None, or what the late cancellation was answered

Init == verdict = None /\ disposition = None

\* An execution that failed leaves nothing to cancel, but does not say so.
Ask ==
    /\ disposition = None
    /\ disposition' = IF verdict \in {None, "Failed"} THEN "Requested"
                      ELSE "ExecutionCompleted"
    /\ UNCHANGED verdict

Decide(status) ==
    /\ verdict = None
    /\ disposition = "Requested" => status = "Cancelled"
    /\ verdict' = status
    /\ UNCHANGED disposition

Fail == verdict = None /\ verdict' = "Failed" /\ UNCHANGED disposition

Next == Ask \/ Fail \/ \E status \in Statuses : Decide(status)

Spec == Init /\ [][Next]_<<verdict, disposition>>
=============================================================================
