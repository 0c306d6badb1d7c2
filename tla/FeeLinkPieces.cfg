\* Do the callbacks hand over what was sent when a piece of a frame is late?
SPECIFICATION Spec
CONSTANTS
    Procedures <- MCProcedures
    ExecuteOp <- MCExecuteOp
    Initial <- MCInitial
    Slots = {0, 1, 2, 3}
    MaxData = 2
    MaxTries = 2
    Chunks = {5}
    Empties = {1}
    MaxMissed = 1
    Roomy <- MCRoomy
    RegisterEnd <- MCRegisterEnd
    SramStart <- MCSramStart
    SramEnd <- MCSramEnd
INVARIANTS Reassembled
CHECK_DEADLOCK FALSE
