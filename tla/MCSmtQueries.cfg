SPECIFICATION QSpec
CONSTANTS
    MAX_DEPTH_HARD_CAP = 1
    Value = {0, 1}
    Compress <- PerfectHash
    MaxBlockNumber = 3
    MaxTimestamp = 3
    MaxEntries = 4
INVARIANTS
    RootIndexesExact
    HistoryMonotone
    ReplacedIffNotCurrent
    AnswerInForce
PROPERTIES
    AppendOnly
    PastIsSettled
CHECK_DEADLOCK FALSE
