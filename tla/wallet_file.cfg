CONSTANTS
  Thread = {t1, t2}
  Seed = {s1, s2}
  None = None
  LegacyKey = LegacyKey
  Lookahead = 2
  MaxIndex = 5
SPECIFICATION Spec
SYMMETRY Symmetry
INVARIANT HandedOutOnce
INVARIANT KeysKept
CHECK_DEADLOCK FALSE
