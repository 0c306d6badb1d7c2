SPECIFICATION Spec
CONSTANTS
    N_ELEM = 3
    HK_LEN = 2
    NoPixel = NoPixel
    NULL = NULL
    DATA_LEN_MAX = 2
    MaxFrames = 2
    LinkSize = 2
    Selections <- MCFewSelections
    Loss = {}
CHECK_DEADLOCK FALSE
INVARIANT CompleteIsComplete
