SPECIFICATION Spec
CONSTANTS
    Writers = {"service", "command"}
    Readers = {"shipper"}
    Supported = 2
    Newest = 3
    Stamps = {1, 2}
    MaxFiles = 4
    MaxRows = 2
    MaxMishaps = 2
    Careful = TRUE
INVARIANT DatabaseIsWhole
CHECK_DEADLOCK FALSE
