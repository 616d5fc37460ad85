SPECIFICATION Spec
CONSTANTS
  l1 = l1  v1 = v1  v2 = v2  v3 = v3  r1 = r1  r2 = r2  None = None
  Sessions = {v1, v2, v3}
  Legacy = {}
  Requests = {r1, r2}
  SlotLimit = 2
  Span = 2
  MaxVersion = 3
  MaxFlips = 0
  MaxExpired = 1
  FlagAtStart = TRUE
  Ops = {"login", "choose", "lease", "read"}
SYMMETRY SessionSymmetry
CHECK_DEADLOCK FALSE
INVARIANTS VersionsFenced
PROPERTIES ReadsNeedStanding ImplementsRight
