SPECIFICATION Spec
CONSTANTS
  c1 = c1  c2 = c2  p1 = p1  p2 = p2  p3 = p3 
  r1 = r1  r2 = r2  r3 = r3  None = None
  Consents = {c1, c2}
  Pairs = {p1, p2, p3}
  Requests = {r1, r2, r3}
  GapLocks = TRUE
SYMMETRY Symmetry
CHECK_DEADLOCK FALSE
INVARIANTS TypeOK OneGrantPerConsent RotationNeverForks ReuseKillsFamily RevokedCannotRenew
