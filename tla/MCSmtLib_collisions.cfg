SPECIFICATION Spec
CONSTANTS
    MAX_DEPTH_HARD_CAP = 2
    Value = {0, 1}
    Compress <- WeakHash
    MaxBlockNumber = 2
    MaxTimestamp = 1
    MaxEntries = 5
PROPERTIES
    IsVersionedMap
CHECK_DEADLOCK FALSE
