SPECIFICATION Spec
CONSTANTS
    Records <- MCRecords
    Noise = {0, 9}
    MaxStream = 20
    MaxDamage = 1
INVARIANTS
    ChunkingDoesNotMatter
    NoFrameIsLost
    MeantAsDecoded
