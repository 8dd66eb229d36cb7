SPECIFICATION Spec
CONSTANTS
  Entries <- MCEntries
  Batches <- MCBatches
  RuleLists <- MCRuleLists
  DefaultCapabilities = {"builtin"}
  Actions = {"save_note"}
  Prompts <- MCPrompts
  MaxContextTokens = 6
  Threshold = 3
  FetchLimit = 4
  MaxRows = 5
  MaxFaults = 1
CHECK_DEADLOCK FALSE
INVARIANTS TypeOK WindowWithinBudget PairsTogether HistoryBounded HighestPriorityDecides
PROPERTIES ImplementsMemoryStore
