SPECIFICATION Spec
CONSTANTS
    w = w  t = t  x = x
    END = END  ESC = ESC  ESC_END = ESC_END  ESC_ESC = ESC_ESC
    Nothing = Nothing
    Byte <- MCByte
    Magic <- MCMagic
    Frames <- MCFrames
    Noise <- MCNoise
    FrameLimit = 5
    MaxFrames = 2
    MaxNoise = 4
INVARIANTS LinkInv LiveDecodesSent DecodersExact
PROPERTY ImplementsChannel
CHECK_DEADLOCK FALSE
