SPECIFICATION FairSpec
CONSTANTS
  p1 = p1  p2 = p2  c1 = c1  c2 = c2  e1 = e1  e2 = e2
  None = None  Broken = Broken
  Processes <- TwoProcesses
  Receivers <- Second
  Configs <- TwoConfigs
  Engines <- TwoEngines
INVARIANTS TypeOK OneRuntime SignalStops
PROPERTIES FollowsConfig LockComesFree
