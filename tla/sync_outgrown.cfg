SPECIFICATION Spec
CONSTANTS
    Block <- MCBlock
    Chain <- MCChain
    Locator <- MCLocator
    Genesis = "g"
    None = None
    n1 = n1
    n2 = n2
    Node = {n1, n2}
    Dialer = n1
    MaxHeaders = 3
    MaxMoves = 1
    MaxDrops = 0
    MaxRefusals = 0
    BanThreshold = 100
    MaxEvents = 1
PROPERTY InStep
CHECK_DEADLOCK FALSE
