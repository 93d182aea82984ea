SPECIFICATION Spec
CONSTANTS
  Intents = {"create"}
  Offers = {1}
  Steps <- CreatePlan
  Exposure <- Inclusion
  Expiry <- ExpiresAt2
  MaxNonce = 2
  MaxHead = 4
  Adversity = {"crash", "flush", "sign", "simulate", "late", "facts", "lapse", "stale", "outcome", "reorg", "answer", "foreign", "policy", "halt"}
  MaxFaults = 1
  FinalityLag = 1
  MaxSimLagBlocks = 1
  StuckBlocks = 1
  LatchBoundBlocks = 1
  MaxRecoveryAttempts = 1
INVARIANTS
  TypeOK
  SentIsDurable
  CleanStopIsQuiet
  OpenOfferIsHeld
  CompensatedIsOver
  KeptHomeStaysHome
PROPERTIES
  NoNonceHole
