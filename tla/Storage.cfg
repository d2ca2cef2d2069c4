SPECIFICATION Storage
CONSTANTS
  Nil = Nil
  Op <- MCOp
  Fs <- MCFs
  CacheFs = "c"
  DataFs = "c"
  Entries <- MCEntries
  Size <- MCSize
  Frees <- MCFrees
  InUse = {}
  Holds <- MCHolds
  Checks <- MCChecks
  Pins <- MCPins
  Reserve = 1
  Free <- MCFree
  MayFail = TRUE
  MayCrash = TRUE
  Fetchers = {"p", "q"}
  FetchSize = 2
  FetchAttempts <- MCAttempts
INVARIANTS ReserveKept PublishedIsWhole
PROPERTIES EvictsAndRefusesLast LockIsGivenBack EveryCallEnds
\* An operation once over is over.
CHECK_DEADLOCK FALSE
