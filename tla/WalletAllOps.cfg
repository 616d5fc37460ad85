SPECIFICATION Spec
CONSTANTS
  u1 = u1  u2 = u2  t1 = t1  t2 = t2  s1 = s1  s2 = s2  s3 = s3
  r1 = r1  r2 = r2  e1 = e1  k1 = k1  k2 = k2  g1 = g1  p1 = p1  p2 = p2
  None = None
  Users = {u1}
  Topups = {t1, t2}
  Slips = {s1}
  Refs = {r1}
  Episodes = {e1}
  Packages = {k1}
  GiftKeys = {}
  Requests = {p1, p2}
  Owner <- MCOwner
  Credit <- MCCredit
  SlipRef <- MCSlipRef
  Cost <- MCCost
  GiftUser <- MCGiftUser
  GiftAmount <- MCGiftAmount
  Legacy = {t1}
  MaxOpening = 1
  MaxAdjusts = 1
  AdjustAmounts = {1}
  SnapshotAtBegin = TRUE
  Ops = {"topup", "verify", "buy", "cart", "upgrade", "adjust", "repair"}
SYMMETRY RequestSymmetry
INVARIANTS CreditedOnce
