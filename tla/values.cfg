SPECIFICATION Spec
CONSTANTS
    Base = 6
    W16 = 2
    W32 = 3
    W64 = 4
    HashSize = 2
    MaxMoney = 300
    MaxItems = 4
    MaxScript = 4
    MaxTransactionBytes = 200
    MaxBlocksPerResponse = 3
    MaxPayload = 210
    MaxInventory = 3
    MaxLocator = 3
    MaxHeadersSent = 2
    MaxAddresses = 2
    MaxUserAgent = 3
    CommandSize = 3
    MessageStart <- MCStart
    Printable = {2, 3, 4}
    Address <- MCAddress
    ProtocolVersion = 2
    Genesis <- MCGenesis
    TestnetBits = 77
    Solving = {2, 38}
    Owned = {3, 4}
    ChangeKey = 4
    Maturity = 2
    FeeUnit = 10
    RelayMinimum = 2
    Economical = 2
    Conservative = 3
    MaxTarget = 10
    EstimatedScript = 4
    SignedScript = {3, 4}
    Decimals = 2
    seed = seed
    self = self
    local = local
    Endpoint = {seed, self, local}
    HostOf <- MCHostOf
    Own = self
    Loopbacks = {local}
    LoopbackHost = {local}
    Seed <- MCSeed
    Resolved = {self}
    MaxOutbound = 1
    FailureLimit = 2
    BanSeconds = 1
    Skew = 1
    MaxTime = 1
INVARIANT EncodingsExact
INVARIANT PaymentSound
PROPERTY BooksKept
CHECK_DEADLOCK FALSE
