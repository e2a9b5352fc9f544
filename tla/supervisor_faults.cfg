CONSTANTS
  a = a
  b = b
  Ids <- OnlyA
  Sells <- Nothing
  Quantity = 2
  MaxSessions = 2
  MaxEvents = 2
  RiskEngine = FALSE
  ExternalFreeze = TRUE
  RestFaults = TRUE
  DatabaseFaults = TRUE
  TiedClock = FALSE
  UnknownEvents = TRUE
SPECIFICATION Spec
PROPERTIES FillsNeverUnhappen 
CHECK_DEADLOCK FALSE
