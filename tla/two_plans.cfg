SPECIFICATION Spec
CONSTANTS
  Intents = {"create", "cancel"}
  Offers = {1}
  Steps <- CreateAndCancel
  Exposure <- Broadcast
  Expiry <- NeverExpires
  MaxNonce = 2
  MaxHead = 2
  Adversity = {"late", "reorg", "outcome", "flush", "crash", "halt", "answer"}
  MaxFaults = 1
  FinalityLag = 1
  MaxSimLagBlocks = 1
  StuckBlocks = 1
  LatchBoundBlocks = 1
  MaxRecoveryAttempts = 1
INVARIANTS
  OpenOfferIsHeld
  NoneWaitsForNothing
