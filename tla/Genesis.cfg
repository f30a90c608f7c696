CONSTANTS
    DefaultEVMDenom = aatom
    BondDenom = stake
    OtherNames = {astake, bad}
    Malformed = {bad}
    Users = 2
    None = None
SPECIFICATION Spec
INVARIANTS
    TypeOK
    FailsWithReason
    EVMCoinRight
    AccountsDistinct
