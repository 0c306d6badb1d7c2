SPECIFICATION Spec
CONSTANTS
    Layout <- AllFields
    RegSyncs <- CfgSyncs
    FieldRegs <- FieldSyncs
    HkReads <- HkSyncs
    LittleEndian = TRUE
    Args <- MCArgs
    MaxCalls = 3
    MaxTouched = 1
INVARIANTS
    TypeOK
    ReservedBitsClear
    FieldsIntact
    GettersAgree
CHECK_DEADLOCK FALSE
