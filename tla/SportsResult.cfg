SPECIFICATION Spec
CONSTANTS
  m1 = m1  m2 = m2  home = home  away = away  r1 = r1  r2 = r2  r3 = r3
  Users = {1}
  Matches = {m1}
  Results = {home, away}
  InPoints = {m1}
  Opening = 2
  Cost = 1
  Reward = 2
  Requests = {r1, r2}
  MaxNow = 2
  MaxEdits = 1
  Deadlines = {2}
  SnapshotAtBegin = FALSE
SYMMETRY Symmetry
PROPERTIES ResultStands
