SPECIFICATION CtrlLiveSpec
CONSTANTS
  Keys <- Keys2
  MayAsk <- Contend
  Versions = {"v"}
  Inputs = {"i"}
  Absent = Absent
  None = None
  Bad = Bad
  MaxReservations = 1
  Concurrency = 2
  BaseBlocks = 1
  MaxBlocks = 2
  MaxSteps <- Steps2
  Exposing = {2}
  Hanging = {2}
  Adversity = {}
  Rare = {"stale", "candidate", "input", "fact", "lapse", "decline", "raw", "bad", "halt",
          "reorg", "recovery", "late"}
  MaxRare = 1
  MaxNonces <- Records2
INVARIANTS
  CtrlTypeOK
PROPERTIES
  OneActPerKey
  WithinReservations
  ActsAsAsked
  NoIdleRetry
  WaitsWiden
  TurnsAreTaken
