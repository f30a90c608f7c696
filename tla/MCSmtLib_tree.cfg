SPECIFICATION Spec
CONSTANTS
    MAX_DEPTH_HARD_CAP = 3
    Value = {0, 1}
    Compress <- PerfectHash
    MaxBlockNumber = 1
    MaxTimestamp = 1
    MaxEntries = 4
INVARIANTS
    TypeOK
    ProofsConvince
    HistoryIndependence
    RefusesOnlyForDepth
PROPERTIES
    ProofsStable
CHECK_DEADLOCK FALSE
