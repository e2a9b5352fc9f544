CONSTANTS
  alpha = alpha
  beta = beta
  gamma = gamma
  delta = delta
  NoHash = NoHash
  Hashes <- MCHashes
  Fitness <- MCFitness
  Generated <- MCGenerated
  WorkerCounts <- MCWorkers
  Budget = 3
  Modes = {TRUE, FALSE}
  MaxGeneration = 2
  MaxProcesses <- MCProcesses
  Programs <- MCPrograms
  Openings <- MCOpenings
  InitialCash = 100
  MaxGross = 1000
  MaxNet = 800
  MaxAsset = 700
  MaxStrategy = 900
  Fine = 10
  LotCost = 1
  ShortBorrow = TRUE
  Cuts <- MCCuts
  Delay = 0
  MaxBars = 3
SPECIFICATION MCSpec
INVARIANTS ChampionsAreEarned StopDrains CompletedCoversCycle PortfolioFollows
PROPERTIES Settles
CHECK_DEADLOCK FALSE
