\* Do packets reach a user unmixed when each is received at once?
SPECIFICATION Spec
CONSTANTS
    NoUser <- MCNoUser
    Users = {1, 2}
    Steady = {2}
    MaxUp = 2
    MaxDown = 2
    MaxPackets = 2
INVARIANTS PacketsWhole
CHECK_DEADLOCK FALSE
