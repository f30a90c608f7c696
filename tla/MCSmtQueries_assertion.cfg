SPECIFICATION QSpec
CONSTANTS
    MAX_DEPTH_HARD_CAP = 1
    Value = {0}
    Compress <- PerfectHash
    MaxBlockNumber = 4
    MaxTimestamp = 3
    MaxEntries = 4
INVARIANT
    AssertFoundHolds
CHECK_DEADLOCK FALSE
