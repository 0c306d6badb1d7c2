SPECIFICATION Spec
CONSTANTS
    Procedures <- MCReads
    ExecuteOp <- MCExecuteOp
    Initial <- MCInitial
    Slots = {0, 1, 2, 3}
    MaxData = 1
    MaxTries = 2
    Chunks = {6}
    Empties = {1}
    MaxMissed = 0
    Roomy <- MCRoomy
    RegisterEnd <- MCRegisterEnd
    SramStart <- MCSramStart
    SramEnd <- MCSramEnd
INVARIANTS CommandsUnderstood
CHECK_DEADLOCK FALSE
