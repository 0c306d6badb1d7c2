SPECIFICATION Spec
CONSTANTS
    Procedures <- MCProcedures
    ExecuteOp <- MCExecuteOp
    Initial <- MCInitial
    Slots = {0, 1, 2, 3}
    MaxData = 2
    MaxTries = 2
    Chunks = {5}
    Empties = {9}
    MaxMissed = 1
    Roomy <- MCRoomy
    RegisterEnd <- MCRegisterEnd
    SramStart <- MCSramStart
    SramEnd <- MCSramEnd
INVARIANTS TypeOK Delivered
PROPERTIES ProcedureEnds
CHECK_DEADLOCK FALSE
