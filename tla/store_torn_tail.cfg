CONSTANTS
    b0 = b0  a1 = a1  a2 = a2  b1 = b1
    None = None  Torn = Torn  Damaged = Damaged
    Block <- MCBlock
    Genesis = b0
    Chain <- MCChain
    Proc = {p1}
    MaxGeneration = 6
    MaxKills = 1
    MaxLosses = 0
    MaxDamage = 0
SPECIFICATION Spec
INVARIANTS InterruptedTailIgnored
