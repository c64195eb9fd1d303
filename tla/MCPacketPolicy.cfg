SPECIFICATION Spec
CONSTANTS
  LocalPorts <- TwoLocals
  RemotePorts <- TwoRemotes
  Grant <- OneGranted
  MayInitiate = TRUE
  SeqSpace = 1
  Payloads <- NoPayload
  MaxFlows = 2
  HandshakeIdle = 1
  ClosedGrace = 1
  SweepInterval = 1
  None = None
  MaxTime = 3
INVARIANTS TypeOK OnlyGrantedConnections TableIsCurrent
PROPERTIES EstablishedStays
