SPECIFICATION Spec
CONSTANTS
    None = None
    Operators = {o1, o2}
    ImportsAlone = TRUE
    Commands <- MCCommands
    Setup <- MCSetup
    Stored <- MCStored
    Arriving <- MCArriving
    Times = {1}
    Spaces = {1, 2}
    Situations = {"network", "lostIt", "notInstalled"}
    MaxCommands = 2
    MaxKills = 1
SYMMETRY Consoles
INVARIANTS
    RevisionsAreOneHistory
    RulesMeetTheirEvidence
    OneRunnerPerChip
    TrailTellsTheRace
    DoctorVouches
CHECK_DEADLOCK FALSE
