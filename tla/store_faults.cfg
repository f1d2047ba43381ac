CONSTANTS
    None = None  Torn = Torn  Damaged = Damaged
    Genesis = b0
    Block <- MCBlock
    Chain <- MCChain
    b0 = b0  a1 = a1  a2 = a2  b1 = b1
    Proc = {p1}
    MaxGeneration = 7
    MaxKills = 1
    MaxLosses = 1
    MaxDamage = 1
SPECIFICATION Spec
INVARIANTS TypeOK CommittedLoadable ManifestDurable OneDamageRecoverable
PROPERTIES DurableChainSpec
CHECK_DEADLOCK FALSE
