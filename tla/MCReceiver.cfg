SPECIFICATION FairSpec
CONSTANTS
  k1 = k1  k2 = k2  all = all  some = some
  g1 = g1  g2 = g2  g3 = g3
  None = None
  Keys <- OneKey
  Grants <- MCGrants
  AllPorts = all
  Generations <- Engines3
  EarlyContact <- InTasks
  MaxQueue = 1
INVARIANTS TypeOK NoBypass OneGeneration
PROPERTIES StopEnds AdmittedIsServed
