SPECIFICATION Spec
CONSTANTS
  Intents = {"spend"}
  Offers = {}
  Steps <- TwoStage
  Exposure <- NoOffer
  Expiry <- NoExpiry
  MaxNonce = 2
  MaxHead = 4
  Adversity = {"crash", "reorg", "foreign"}
  MaxFaults = 1
  FinalityLag = 1
  MaxSimLagBlocks = 1
  StuckBlocks = 3
  LatchBoundBlocks = 3
  MaxRecoveryAttempts = 1
INVARIANTS
  NoDoubleExecution
PROPERTIES
  SubmissionsAdvance
