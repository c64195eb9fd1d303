SPECIFICATION FairSpec
CONSTANTS
  None = None
  Limit = 3
  Wire = 3
INVARIANTS TypeOK EngineHasLock ReportsAreTrue Understood
PROPERTIES EveryCallIsAnswered
