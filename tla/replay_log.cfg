SPECIFICATION LogSpec
CONSTANTS
    Kinds = {1, 2}
    Marker = 0
    empty = empty
    one = one
    two = two
    huge = huge
    Payloads <- MCPayloads
    Length <- MCLength
    Capacities = {0, 1, 2}
    LogBytes = 9
    HeaderBytes = 2
    Word = 16
    MaxEvents = 4
    NoPayload = NoPayload
    None = None
INVARIANTS
    ReplayFollowsRecord
    LogSafe
CHECK_DEADLOCK FALSE
