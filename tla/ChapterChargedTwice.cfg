SPECIFICATION Spec
CONSTANTS
  s1 = s1  s2 = s2  k1 = k1  k2 = k2  c1 = c1  h1 = h1  r1 = r1  r2 = r2
  u1 = u1  u2 = u2  o1 = o1  o2 = o2  o3 = o3  p1 = p1  p2 = p2
  None = None  Elsewhere = Elsewhere
  Users = {u1}
  Orders = {o1, o2}
  Packages = {k1}
  Chapters = {h1}
  Slips = {s1, s2}
  Refs = {r1}
  Coupons = {}
  Requests = {p1, p2}
  SlipRef <- MCSlipRef
  Historic = {}
  Covers <- MCCovers
  Subtotal <- MCSubtotal
  Discount <- MCDiscount
  MaxUses <- MCMaxUses
  PerPoint = 2
  PointChoices = {0}
  Opening = 0
  Adjustments <- MCAdjustments
  MaxAdjusts = 1
  Ops = {"slipCheckout", "upload", "approve", "reject", "chapter"}
SYMMETRY OrderAndRequestSymmetry
INVARIANTS NeverDoubleCharge
