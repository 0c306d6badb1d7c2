SPECIFICATION FairSpec
CONSTANTS
    START = 4
    STOP = 12
    TRANS_LOG_SIZE = 4
    Addrs <- MCAddrs
    Sizes <- MCSizes
    Mtus <- MCMtus
    MaxLeaks = 1
INVARIANT TypeOK
INVARIANT ChunksInside
INVARIANT Transferred
PROPERTY CallReturns
