SPECIFICATION Spec
CONSTANTS
  r = r  k1 = k1  k2 = k2  s1 = s1  s2 = s2
  all = all  some = some  malformed = malformed
  Keys <- MCKeys
  ReceiverKey = r
  Secrets <- MCSecrets
  Grants <- MCGrants
  AllPorts = all
  GrantInputs <- MCGrantInputs
  First = 1
  Last = 3
  ReceiverAddress = 1
  MaxDevices = 2
  MaxInvitations = 2
  TTL = 1
  MaxTime = 1
SYMMETRY Symmetry
INVARIANTS TypeOK ReopenAccepts DoneIsDurable SpentStaysSpent
PROPERTIES DevicesKeepTheirPlace KeepsPromise
