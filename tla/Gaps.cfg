SPECIFICATION FairSpec
CONSTANTS
    Capacity = 1
    Disturbances = {"overlap", "late", "failure", "restart", "raised"}
    MaxDisturbances = 2
INVARIANTS
    LossStaysRecorded
PROPERTIES
    ResumedHasAReason
    LossIsRecorded
    DeafnessIsRecorded
    ReturnIsRecorded
