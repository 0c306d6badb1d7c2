SPECIFICATION Spec
CONSTANTS
    NoClient = NoClient
    Clients = {c1, c2}
    Careful = {c1}
    MaxRequests = 1
    MaxData = 1
INVARIANTS TypeOK SetMatches
PROPERTIES ClientsKept ReachesAll Answered
CHECK_DEADLOCK FALSE
