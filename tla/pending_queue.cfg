SPECIFICATION Spec
CONSTANTS
  a = a
  b = b
  Labels = {a, b}
  None = None
  StuckBlocks = 1
  MaxBumpAttempts = 1
  ReconcileEveryBlocks = 2
  SettledCooldownBlocks = 1
  MaxNonce = 2
  MaxGap = 2
  MaxFaults = 1
SYMMETRY LabelsAlike
INVARIANTS
  TypeOK
  CursorAhead
  NoSendAboveHole
  NoNonceUnaccounted
  Backpressure
PROPERTIES
  NoMinedWorkDiscarded
