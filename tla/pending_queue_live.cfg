SPECIFICATION LiveSpec
CONSTANTS
  a = a
  b = b
  Labels = {a, b}
  None = None
  StuckBlocks = 1
  MaxBumpAttempts = 1
  ReconcileEveryBlocks = 2
  SettledCooldownBlocks = 1
  MaxNonce = 1
  MaxGap = 1
  MaxFaults = 1
PROPERTIES
  EntriesSettle
  LatchesClear
