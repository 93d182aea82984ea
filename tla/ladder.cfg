SPECIFICATION QuoterLiveSpec
CONSTANTS
  Setter = TRUE
  Quotes <- BothOrSells
  Adversity = {"revert", "fill", "loss", "disk", "read", "refuse", "drop", "crash", "restart"}
  MaxPublications = 2
  MaxPool = 2
  MaxFaults = 2
INVARIANTS
  QuoterTypeOK
  LiveIsOwned
  OneQuoteAtATime
  AppliedCleanupIsFlat
  BuysStayOff
PROPERTIES
  StopEnds
CHECK_DEADLOCK FALSE
