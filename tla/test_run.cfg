SPECIFICATION Spec
CONSTANTS
    None = None  DefaultMessage = DefaultMessage  UserMessage = UserMessage
    Tests <- MCTests
    Counts <- MCCounts
    CallCounts <- MCCallCounts
    Ticks <- MCTicks
    EventLimit <- MCEvents
    EventCapacity <- MCEvents
    MaxPlanned = 2
    Faults = {"assertion", "shift", "fatal", "hang"}
INVARIANTS   StreamExact NoFalsePass CasesAreTrue RunsAreReported
PROPERTIES Decided
CHECK_DEADLOCK FALSE
