SPECIFICATION Spec
CONSTANTS
  Tools = {t1}
  TokenBudget = 2
  ActionLimit = 20
  MaxContinuations = 3
  Duration <- MCDuration
  MaxLate = 0
  MaxRetries = 0
  Callers = {c1}
  MaxMessages = 3
  MaxSystemEvents = 0
  MaxInterrupts = 1
  May = {}
INVARIANTS InterruptionPending
CHECK_DEADLOCK FALSE
