SPECIFICATION FairSpec
CONSTANTS
    Regs = {r1, r2}
    Vals = {v1, v2}
    NoData = NoData
    NULL = NULL
    TRANS_LOG_SIZE = 2
    Faults = {}
    Patient = FALSE
    MaxInFlight = 0
INVARIANT PendingMeansOutstanding
PROPERTY ImplementsCopies
PROPERTY EverySlotReturns
