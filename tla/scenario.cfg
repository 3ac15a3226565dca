SPECIFICATION Spec
CONSTANTS
    ready = ready  corrupt = corrupt
    Tokens <- MCTokens
    Rejected <- MCRejected
    Scenario <- MCScenario
    Capacity = 1
    OutputLimit = 3
    MaxOutput = 4
INVARIANTS SessionInv ExpectationsMet
PROPERTIES SessionReturns
CHECK_DEADLOCK FALSE
