CONSTANTS
  u = u
  v = v
  Workers <- Threads
  Free = Free
  Slots = 2
  Requested <- TwoRanges
  Scopes <- Overlapping
  Attempts = 2
  Tries = 2
  MaxRevision = 2
  MaxRequests = 2
  MaxEvaluations = 2
  MaxFaults = 1
SYMMETRY Alike
SPECIFICATION Spec
INVARIANTS RunsAreSound NobodyIsStuck
PROPERTIES PublishedIsCurrent AnswersAreTrue
CHECK_DEADLOCK FALSE
