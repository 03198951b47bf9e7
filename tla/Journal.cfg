SPECIFICATION FairSpec
CONSTANTS
    a = a
    b = b
    legacy = legacy
    wide = wide
    Reads = {a, b, legacy, wide}
    Unstorable = {wide}
    Legacy <- OneLegacyRow
    NoRead = NoRead
    Torn = Torn
    Rotted = Rotted
    Service = Service
    Recover = Recover
    Nobody = Nobody
    RecoverMayRunBesideService = FALSE
    RecoverySettlesTheFile = FALSE
    MaxDisturbances = 4
    MaxLines = 12
INVARIANTS
    TypeOK
    AcknowledgedComesBack
    CopiesAgree
    
    RetryCanLand
    ReplayIsAccepted
PROPERTIES
    EvidenceIsKept
    EveryReadIsSettled
    ServiceComesBack
CHECK_DEADLOCK FALSE
