SPECIFICATION Spec
CONSTANTS
    Block <- EmptyBlock
    Chain <- EmptyChain
    Genesis = "g"
    None = None
    Tx <- NoTx
    Coin <- MCCoin
    Funds <- MCFunds
    Spends <- NoCoins
    Creates <- NoCoins
    History <- EmptyHistory
    s1 = s1
    s2 = s2
    Session = {s1, s2}
    MaxFaults = 0
INVARIANT DisconnectedRetained
