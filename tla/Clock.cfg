SPECIFICATION ClockSpec
CONSTANTS
    Forward = {2}
    Back = {3}
    Situations = {"gps", "columnsMoved"}
    Readers = {0, 20}
    Trust = "auto"
    MaxOffset = 1
    Threshold = 1
    Interval = 2
    MaxNow = 8
    MaxJumps = 2
    MaxKills = 1
INVARIANT FlagsTellTheClock
CHECK_DEADLOCK FALSE
