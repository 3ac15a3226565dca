SPECIFICATION Spec
CONSTANTS
    Policies <- MCPolicies
    Outcomes <- MCOutcomes
    LateFrames <- MCLateFrames
    LateFrame <- MCLateFrame
    MaxFrames = 6
    MaxFaults = 1
    MaxInFlight = 2
    MaxLate = 2
    Null = Null
INVARIANTS
    ExecutionInv
    ResponseIsAccepted
PROPERTIES
    CancelTakesEffect
    VerdictSpec
CHECK_DEADLOCK FALSE
