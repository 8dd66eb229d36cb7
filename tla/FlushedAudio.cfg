SPECIFICATION Spec
CONSTANTS
  Capacity = 4
  ChunkSize = 2
  PayloadSizes = {4}
  Period = 2
  MaxWait = 1
  Flushers = {f1}
  MaxSamples = 4
  MaxFlushes = 1
INVARIANTS FlushDiscards
CHECK_DEADLOCK FALSE
