SPECIFICATION Spec
CONSTANTS
  Intents = {"create"}
  Offers = {1}
  Steps <- CreatePlan
  Exposure <- Inclusion
  Expiry <- NeverExpires
  MaxNonce = 2
  MaxHead = 4
  Adversity = {"flush"}
  MaxFaults = 1
  FinalityLag = 1
  MaxSimLagBlocks = 1
  StuckBlocks = 1
  LatchBoundBlocks = 1
  MaxRecoveryAttempts = 1
INVARIANTS
  OnePipeline
