SPECIFICATION CommandSpec
CONSTANTS
    Limit = 3
    Buffer = 2
    Timeout = 1
    MaxWritten = 3
    MaxClock = 2
    Request = 2
    Kept <- MCKept
    MaxOutput = 3
    PipeBytes = 2
INVARIANTS ExecutorInv OutputComplete NothingLeftBehind BackendInv
PROPERTIES CommandReturns
CHECK_DEADLOCK FALSE
