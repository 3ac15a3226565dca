SPECIFICATION Spec
CONSTANTS
    PathOrder <- MCPathOrder
    Requests <- MCRequests
    Frames <- MCFrames
    TreePathBytes = 8
    Null = Null
INVARIANTS
    RequestInv
    SealedTreeIsDeclared
    
CHECK_DEADLOCK FALSE
