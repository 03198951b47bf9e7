SPECIFICATION CaptureSpec
CONSTANTS
    Records <- MCRecords
    Noise = {9}
    MaxStream = 14
    MaxDamage = 1
    Queue = 1
    MaxDropped = 2
INVARIANT CheckIsFair
