CONSTANTS
  a = a
  b = b
  Ids <- Both
  Sells <- SellsB
  Quantity = 1
  MaxSessions = 2
  MaxEvents = 1
  RiskEngine = TRUE
  ExternalFreeze = FALSE
  RestFaults = FALSE
  DatabaseFaults = FALSE
  TiedClock = TRUE
  UnknownEvents = FALSE
SPECIFICATION Spec
INVARIANTS SentAtMostOnce DurableBeforeEffect ReadyKnowsItsOrders
CHECK_DEADLOCK FALSE
