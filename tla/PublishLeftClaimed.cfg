\* The worker of the last attempt dies: the row stays claimed
SPECIFICATION FairSpec
CONSTANTS
  r1 = r1  r2 = r2  e1 = e1  e2 = e2  h1 = h1  h2 = h2  t0 = t0  t1 = t1  t2 = t2  w1 = w1  w2 = w2
  Runs = {r1, r2}
  Episodes = {e1, e2}
  Hashes = {h1, h2}
  Batch <- SameOne
  Snapshot <- SecondChanges
  FirstHash = h1
  Staged = {r1, r2}
  Texts = {t0, t1, t2}
  Text <- TwoDrafts
  Sale <- OnePrice
  First <- NothingYet
  Workers = {w1, w2}
  Name <- OwnName
  None = None
  MaxAttempts = 2
  MaxFaults = 1
PROPERTIES DeadLettersMarked
CHECK_DEADLOCK FALSE
