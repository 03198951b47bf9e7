SPECIFICATION Spec
CONSTANTS
    a = a
    b = b
    legacy = legacy
    wide = wide
    Reads = {a, legacy, wide}
    Unstorable = {wide}
    Legacy <- OneLegacyRow
    NoRead = NoRead
    Torn = Torn
    Rotted = Rotted
    Service = Service
    Recover = Recover
    Nobody = Nobody
    RecoverMayRunBesideService = TRUE
    RecoverySettlesTheFile = FALSE
    MaxDisturbances = 2
    MaxLines = 12
INVARIANT RetryCanLand
CHECK_DEADLOCK FALSE
