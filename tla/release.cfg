SPECIFICATION LiveSpec
CONSTANTS
  Intents = {"release"}
  Offers = {1}
  Steps <- ReleaseTwice
  Exposure <- Broadcast
  Expiry <- ExpiresAt3
  MaxNonce = 1
  MaxHead = 3
  Adversity = {"flush", "late", "facts", "halt", "sign", "crash", "overdue", "policy"}
  MaxFaults = 2
  FinalityLag = 1
  MaxSimLagBlocks = 1
  StuckBlocks = 1
  LatchBoundBlocks = 1
  MaxRecoveryAttempts = 1
PROPERTIES
  SlotIsReleased
