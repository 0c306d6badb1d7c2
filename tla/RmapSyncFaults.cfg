SPECIFICATION Spec
CONSTANTS
    Regs = {r1, r2}
    Vals = {v1, v2}
    NoData = NoData
    NULL = NULL
    TRANS_LOG_SIZE = 2
    Faults = {"gen", "tx", "abort", "corrupt", "loss", "reject", "reset"}
    Patient = TRUE
    MaxInFlight = 3
SYMMETRY Symmetry
INVARIANT TypeOK
INVARIANT PendingIsCount
INVARIANT RepliesHaveOwners
INVARIANT Synchronised
PROPERTY StoredWhereRequested
