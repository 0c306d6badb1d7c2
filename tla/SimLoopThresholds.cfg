\* Is a node compared with the threshold of its own register?
SPECIFICATION Spec
CONSTANTS
    ROWS = 5
    COLS = 14
    MaskStep = 5
    Settings <- MCSettings
    Scenes <- MCScenes
    ClientModes <- MCModes
    Periods = {0, 2}
    Slices = 2
    MaxWrites = 2
INVARIANT OwnThreshold
CHECK_DEADLOCK FALSE
