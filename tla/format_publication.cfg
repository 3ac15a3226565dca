SPECIFICATION Spec
CONSTANTS
    Formatters = {p1, p2}
    Sources = 2
    MaxEdits = 1
    MaxFaults = 2
    None = None
    Torn = Torn
INVARIANTS
    FormatInv
    FailedCommitRestores
PROPERTY FormatterReturns
CHECK_DEADLOCK FALSE
