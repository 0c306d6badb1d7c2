SPECIFICATION FairSpec
CONSTANTS
    N_ELEM = 3
    HK_LEN = 2
    NoPixel = NoPixel
    NULL = NULL
    DATA_LEN_MAX = 2
    MaxFrames = 3
    LinkSize = 3
    Selections <- MCSelections
    Loss = {"inner"}
INVARIANT TypeOK
INVARIANT WithinBuffer
INVARIANT FrameWhole
INVARIANT FramesNumbered
PROPERTY FrameArrives
CHECK_DEADLOCK FALSE
