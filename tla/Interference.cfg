SPECIFICATION Spec
CONSTANTS
  Tools = {t1}
  TokenBudget = 3
  ActionLimit = 2
  MaxContinuations = 2
  Duration <- MCDuration
  MaxLate = 0
  MaxRetries = 1
  Callers = {c1}
  MaxMessages = 2
  MaxSystemEvents = 1
  MaxInterrupts = 1
  May = {"ToolCall", "Continue", "EmptyResponse", "LlmFault", "ContextFault", "Deny", "Incomplete", "Shutdown"}
INVARIANTS TypeOK InOrder DebounceArmed  FragmentsTimed 
PROPERTIES HistoryGrowsInOrder
CHECK_DEADLOCK FALSE
