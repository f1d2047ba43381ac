SPECIFICATION Spec
CONSTANTS
    Block <- MCBlock
    Chain <- MCChain
    Genesis = "g"
    None = None
    Tx <- MCTx
    Coin <- MCCoin
    Funds <- MCFunds
    Spends <- MCSpends
    Creates <- MCCreates
    History <- MCHistory
    s1 = s1
    s2 = s2
    Session = {s1}
    MaxFaults = 1
INVARIANTS
    TypeOK
    PoolStays
    DisconnectedRetained
    DisconnectedReturned
    DropsOnlyInvalid
PROPERTIES
    WorkGrows
    LedgerSpec
