CONSTANTS
  a1 = a1
  a2 = a2
  a3 = a3
  a4 = a4
  Assets <- FourAssets
  Requests <- TwoOrFour
  Rankings <- Orders
  MaxOpportunities = 2
  Correlated <- Neighbours
  Sized <- AnyWeight
  MaxAge = 2
  MaxTime = 2
  MaxChanges = 1
  MaxRefreshes = 3
SPECIFICATION MCSpec
INVARIANTS QuarantineHolds PortfolioLimitHolds FinishedSelectionStands RerunAgrees
CHECK_DEADLOCK FALSE
