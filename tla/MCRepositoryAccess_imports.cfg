CONSTANTS
  Jobs = {"first", "second", "custom", "fresh"}
  WellFormed = {"first", "second", "custom", "fresh"}
  Path <- MCPath
  Layer <- MCLayer
  Doc <- MCDoc
  Seed <- MCSeed
  Starts <- MCStarts
  Snapped = 1
SPECIFICATION FairSpec
INVARIANTS ReferencesIntact ComposedIsReference ServesWholeRepositories
PROPERTIES CommitsAreSerial ImportEnds SnapshotEnds
CHECK_DEADLOCK FALSE
