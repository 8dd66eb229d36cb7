SPECIFICATION FairSpec
CONSTANTS
  Tools = {t1, t2}
  TokenBudget = 20
  ActionLimit = 20
  MaxContinuations = 2
  Duration <- MCDuration
  MaxLate = 0
  MaxRetries = 1
  Callers = {}
  MaxMessages = 2
  MaxSystemEvents = 0
  MaxInterrupts = 0
  May = {"ToolCall", "Continue", "EmptyResponse", "Deny", "Shutdown"}

PROPERTIES   DebounceEnds 
CHECK_DEADLOCK FALSE
