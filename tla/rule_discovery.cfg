CONSTANTS
  Rules <- MCRules
  Seeds = {1}
  Budgets = {2, 5}
  DataSets = 2
  Warmup = 3
  Parents = 2
  Initial <- MCInitial
  Mates <- MCMates
  Crossed <- MCCrossed
  Invalid = {5, 6}
  Failing = {2}
  Fitness <- MCFitness
  MaxTime = 2
  MaxLearns = 3
  MinTrain = 1
  Block = 2
  FinalShare = 5
  WarmBars = 1
  Lengths = {10, 11, 13, 14, 15}
  Delays = {0, 1, 3}
  Embargoes = {0, 3}
  Strategies = {1, 2, 3, 4}
  Family <- MCFamily
  Unit = 1200
  StrategyCap = 480
  FamilyCap = 720
  Evidence <- MCEvidence
  Shares = 10
  Decay <- MCDecay
  Patience = 1
  Batches <- MCBatches
  Currents <- MCCurrents
  MinBreadth = 2
  MinMargin = 15
  MinProbability = 55
  MaxAsOf = 2
SPECIFICATION MCSpec
INVARIANTS RepeatsAreCountedOnce DiscoveryIsJustified ProbabilityIsOutOfFold AcceptedDownstream EnsembleIsConsistent
CHECK_DEADLOCK FALSE
