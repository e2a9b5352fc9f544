CONSTANTS
  x = x
  y = y
  s1 = s1
  Symbols <- MCSymbols
  Signals = {s1}
  None = None
  EndsAt = 4
  MaxTime = 5
  MinuteTicks = 2
  Lots = 2
  MaxCuts = 2
SPECIFICATION Spec
SYMMETRY Symmetry
INVARIANTS GapIndexIsUnion EvidenceIsWatched SignalsAccounted
CHECK_DEADLOCK FALSE
