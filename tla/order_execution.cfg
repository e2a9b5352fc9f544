CONSTANTS
  NumSymbols = 1
  NumOrders = 2
  Catalogue <- MCCatalogue
  Starting <- MCStarting
  Lot = 2
  Latency = 0
  BorrowModes = {TRUE, FALSE}
  Volumes = {0, 2, 5}
  Prices = {1, 2, 3}
  Shapes <- MCShapes
  MaxTime = 3
  StopR = 1
  TargetR = 1
  MaximumBars = 3
  MinTargetBps = 2000
  RiskBudget = 6
  MinNotional = 5
  InitialCash = 100
  Bars <- MCBars
  Risks = {0, 2}
  NumBars = 5
SPECIFICATION MCSpec
INVARIANTS NothingUnexplained SearchIsReplayed
PROPERTIES NoOverreach
CHECK_DEADLOCK FALSE
