\* Three faults in overlapping ticks: every event is settled in the end
SPECIFICATION Spec
CONSTANTS
  Readers <- MCReaders
  NovelAuthor = 2
  Events <- MCEvents
  Kind <- MCKind
  Target <- MCTarget
  DefaultOn <- MCDefaultOn
  FirstChoice <- MCFirstChoice
  Workers = {w1, w2}
  Keys = {k1}
  Commanders <- MCCommanders
  PageSize = 2
  MaxEvents = 2
  MaxAttempts = 2
  MaxFaults = 3
  MaxChanges = 0
  None = None

PROPERTIES Settled
