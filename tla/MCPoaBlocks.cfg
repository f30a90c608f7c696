CONSTANTS
    Validators <- MCValidators
    Operators = {o1, bad}
    Undecodable = {bad}
    MaxTxs = 2
    None = None
SPECIFICATION Spec
INVARIANTS
    TypeOK
    CometFollows
    UntouchedProposerFound
    FeesExact
PROPERTY
    RemovedLeaves
