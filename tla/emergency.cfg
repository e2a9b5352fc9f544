CONSTANTS
  x = x
  Symbols <- OnlyX
  Units = 3
  Attempts = 1
  MaxCalls = 3
  Faults = TRUE
SPECIFICATION Spec
INVARIANTS NeverReversed
PROPERTIES FlattenAnswers
CHECK_DEADLOCK FALSE
