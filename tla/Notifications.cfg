\* Overlapping ticks, a fault and two commands of readers or administrators
SPECIFICATION Spec
CONSTANTS
  Readers <- MCReaders
  NovelAuthor = 2
  Events <- MCEvents
  Kind <- MCKind
  Target <- MCTarget
  DefaultOn <- MCDefaultOn
  FirstChoice <- MCFirstChoice
  Workers = {w1, w2}
  Keys = {k1}
  Commanders <- MCCommanders
  PageSize = 2
  MaxEvents = 2
  MaxAttempts = 2
  MaxFaults = 1
  MaxChanges = 2
  None = None
INVARIANTS TypeOK DismissalsExact NoOrphans PagedAreServed
SYMMETRY WorkerSymmetry
PROPERTIES OutboxForward ImplementsPromise
