SPECIFICATION Spec
CONSTANTS
  Ids = {debounce, tool}
  Delays = {0, 2}
  MaxGeneration = 3
  MaxTime = 2
INVARIANTS TypeOK DeadlineOrder
PROPERTIES ImplementsArmedTimers
CHECK_DEADLOCK FALSE
