\* Does a reply that was under way at a reset stay away from other registers?
SPECIFICATION Spec
CONSTANTS
    Regs = {r1, r2}
    Vals = {v1, v2}
    NoData = NoData
    NULL = NULL
    TRANS_LOG_SIZE = 2
    Faults = {"reset"}
    Patient = TRUE
    MaxInFlight = 3
SYMMETRY Symmetry
PROPERTY LateRepliesStored
