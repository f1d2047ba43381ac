SPECIFICATION Spec
CONSTANTS
    Block <- MCBlock
    Chain <- MCChain
    Locator <- MCLocator
    Genesis = "g"
    None = None
    MaxHeaders = 2
    MaxItems = 2
    MaxMoves = 2
    MaxDrops = 2
    MaxChat = 1
INVARIANT TypeOK
PROPERTY AdoptsWhatWasAnnounced
PROPERTY NothingLost
PROPERTY QuietSyncCatchesUp
