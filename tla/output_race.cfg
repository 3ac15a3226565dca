SPECIFICATION Spec
CONSTANTS
    p1 = p1
    p2 = p2
    Publishers <- MCPublishers
    Contents <- MCContents
    Outputs = 2
    MaxFaults = 0
    Torn = Torn
    None = None
INVARIANT OkOutputsStay
CHECK_DEADLOCK FALSE
