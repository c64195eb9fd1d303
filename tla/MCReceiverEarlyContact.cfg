SPECIFICATION Spec
CONSTANTS
  k1 = k1  k2 = k2  all = all  some = some
  g1 = g1  g2 = g2  g3 = g3
  None = None
  Keys <- TwoKeys
  Grants <- MCGrants
  AllPorts = all
  Generations <- Engines3
  EarlyContact <- Anywhere
  MaxQueue = 1
SYMMETRY Symmetry
INVARIANT NoBypass
