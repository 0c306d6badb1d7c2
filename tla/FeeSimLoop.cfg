\* Three writes of the client, at any moment of any cycle.
SPECIFICATION Spec
CONSTANTS
    ROWS = 5
    COLS = 14
    MaskStep = 5
    Settings <- MCSettings
    Scenes <- MCScenes
    ClientModes <- MCModes
    Periods = {0, 2}
    Slices = 2
    MaxWrites = 3
INVARIANTS TypeOK EventsReported FrameEnds MaskReported
PROPERTIES OnlyOvertakenLost TriggerServed ImmOnEnds
CHECK_DEADLOCK FALSE
