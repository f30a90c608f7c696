CONSTANTS
    EVMID = {19460, 4242}
    DefaultID = 19460
    CosmosIDs = {cosmos}
    MaxCode = 7
    None = None
SPECIFICATION Spec
INVARIANT
    TypeOK
PROPERTIES
    ManifestExact
    EveryRunEnds
