SPECIFICATION MCSpec
CONSTANTS
    Block <- MCBlock
    Chain <- MCChain
    Locator <- MCLocator
    Genesis = "g"
    None = None
    n1 = n1
    n2 = n2
    Node = {n1, n2}
    Dialer = n1
    MaxHeaders = 2
    MaxMoves = 2
    MaxDrops = 1
    MaxRefusals = 1
    BanThreshold = 50
    MaxEvents = 2
INVARIANTS
    TypeOK
    AnswerOnItsWay
    KnowsWhatPeerHas
    NothingMissing
    BlamedOnce
PROPERTY InStepOrStuck
CHECK_DEADLOCK FALSE
