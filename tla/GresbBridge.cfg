SPECIFICATION Spec
CONSTANTS
    NoUser <- MCNoUser
    Users = {1, 2}
    Steady = {2}
    MaxUp = 2
    MaxDown = 2
    MaxPackets = 2
INVARIANTS TypeOK StreamsKept PacketsApart
PROPERTIES Forwarded
CHECK_DEADLOCK FALSE
