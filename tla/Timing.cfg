SPECIFICATION TimingSpec
CONSTANTS
    None = None
    LastBib = 11
    Setups <- MCSetups
    Readings <- MCReadings
    Hands <- MCHands
    Words <- MCWords
    Guns = {3}
    MaxReads = 4
    MaxLate = 1
    MaxHands = 1
    MaxWords = 2
    MaxGuns = 1
    MaxRows = 5
INVARIANTS
    BurstsBecomeCrossings
    LapsCountTheRace
    PlacesFollowTimes
    NoSilentHand
    WarmUpsCountForNothing
    DeclarationMovesOnlyPlaces
    PageKeepsUp
CHECK_DEADLOCK FALSE
