SPECIFICATION TimingSpec
CONSTANTS
    None = None
    LastBib = 11
    Setups <- MCSetups
    Readings <- MCTurned
    Hands <- MCHands
    Words <- MCWords
    Guns = {3}
    MaxReads = 4
    MaxLate = 1
    MaxHands = 1
    MaxWords = 2
    MaxGuns = 1
    MaxRows = 5
INVARIANT
    SplitsAreTold
CHECK_DEADLOCK FALSE
