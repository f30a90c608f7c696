SPECIFICATION Spec
CONSTANTS
    ChainID = {"dev", "test"}
    MaxBlocks = 3
    None = None
INVARIANTS
    TypeOK
    ExecutedUnderGivenID
    HeightsContinue
PROPERTIES
    ExportAsAsked
