SPECIFICATION Spec
CONSTANTS
  p1 = p1  p2 = p2  laptop = laptop  receiver = receiver
  ka = ka  kb = kb  kr = kr  a1 = a1  a2 = a2  a3 = a3
  ports = ports  bad = bad
  None = None  Absent = Absent  Damaged = Damaged
  Processes = {p1, p2}
  Labels = {laptop, receiver, kb}
  Keys = {ka, kb, kr}
  Addresses = {a1, a2, a3}
  Grants = {ports}
  MaxVpnPeers = 2
  Receiver <- MCReceiver
  JoinedVpn <- MCJoined
  Approvals <- MCApprovals
  Edits <- MCEdits
  MaxEdits = 2
  MaxSeeds = 2
SYMMETRY Symmetry
INVARIANTS TypeOK IdentityIsKept
PROPERTIES NothingIsLost
