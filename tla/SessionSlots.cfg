SPECIFICATION Spec
CONSTANTS
  l1 = l1  v1 = v1  v2 = v2  v3 = v3  r1 = r1  r2 = r2  None = None
  Sessions = {l1, v1, v2, v3}
  Legacy = {l1}
  Requests = {r1, r2}
  SlotLimit = 2
  Span = 1
  MaxVersion = 0
  MaxFlips = 3
  MaxExpired = 0
  FlagAtStart = FALSE
  Ops = {"login", "revoke", "choose"}
SYMMETRY SessionSymmetry
CHECK_DEADLOCK FALSE
INVARIANTS TypeOK QuotaKept
