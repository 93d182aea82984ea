SPECIFICATION RunnerLiveSpec
CONSTANTS
  Order <- InOrder
  Members = {"guard"}
  Urgent = {"guard"}
  Finishers = {"report"}
  None = None
  Concurrency = 1
  Queue = 1
  Capacity = 3
  MaxWrites = 2
  MaxNotes = 1
INVARIANTS
  RunnerTypeOK
  ScopeKeepsAll
  JournalIsWhole
  StopIsHonest
PROPERTIES
  WindsDownFirst
  StopSettles
CHECK_DEADLOCK FALSE
