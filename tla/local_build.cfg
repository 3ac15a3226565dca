SPECIFICATION BuildSpec
CONSTANTS
    Builders = {b1, b2}
    fits = fits
    big = big
    Frames <- MCFrames
    FrameBytes <- MCFrameBytes
    Foreign <- MCForeign
    MaxBytes = 2
    HeaderBytes = 1
    MaxDamage = 1
    MaxCrashes = 1
    Outputs = 2
    MaxFaults = 1
    Torn = Torn
    Left = Left
    Garbage = Garbage
    None = None
SYMMETRY MCSymmetry
INVARIANTS
    
    ResolvedIsProduced
    PublicationInv
PROPERTY NeverReplaced
CHECK_DEADLOCK FALSE
