CONSTANTS
  s1 = s1
  s2 = s2
  c1 = c1
  c2 = c2
  Setups <- MCSetups
  Configs <- MCConfigs
  NoSetup = NoSetup
  MaxTime = 2
  MaxLife = 2
  MaxSessions = 3
SPECIFICATION FairSpec
INVARIANTS OneOpenSetup RestartRestores ToldIsDurable
 
CHECK_DEADLOCK FALSE
