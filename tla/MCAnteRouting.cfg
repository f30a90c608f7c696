SPECIFICATION Spec
CONSTANTS
    Account = {"a"}
    Tx <- MCTx
    Funds = 3
    Prices = {1, 2}
INVARIANTS
    TypeOK
    ChargedOnceInOrder
    KnownToItsChain
    FeesAccounted
    CheckedInOrder
