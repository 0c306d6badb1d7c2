\* Is more signal than the threshold asked of an event?
SPECIFICATION Spec
CONSTANTS
    ROWS = 5
    COLS = 14
    MaskStep = 5
    Settings <- MCSettings
    Scenes <- MCScenes
    ClientModes <- MCModes
    Periods = {0, 2}
    Slices = 2
    MaxWrites = 2
INVARIANT MoreSignal
CHECK_DEADLOCK FALSE
