CONSTANTS
  Messages = 2
  Buffered = 4
  Chunk = 3
  MaxEvents = 3
SPECIFICATION QmpSpec
INVARIANTS QmpInv
PROPERTIES ShutdownReturns
CHECK_DEADLOCK FALSE
