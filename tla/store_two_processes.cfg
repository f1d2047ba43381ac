CONSTANTS
    None = None  Torn = Torn  Damaged = Damaged
    Genesis = b0
    Block <- MCBlock
    Chain <- MCChain
    b0 = b0  a1 = a1  a2 = a2  b1 = b1
    Proc = {p1, p2}
    MaxGeneration = 6
    MaxKills = 1
    MaxLosses = 0
    MaxDamage = 0
SPECIFICATION FairSpec
INVARIANTS CommittedLoadable StoredOnce
PROPERTIES CommitEnds
