SPECIFICATION FairSpec
CONSTANTS
  Capacity = 4
  ChunkSize = 2
  PayloadSizes = {2, 3}
  Period = 2
  MaxWait = 1
  Flushers = {f1}
  MaxSamples = 5
  MaxFlushes = 1
INVARIANTS TypeOK HeardInOrder NoCellShared QuietFlushDiscards DropsOnlyAfterWait
PROPERTIES WriteReturns AcceptedIsPlayed
CHECK_DEADLOCK FALSE
