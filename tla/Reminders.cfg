SPECIFICATION Spec
CONSTANTS
  Requests <- MCRequests
  Registered <- MCRegistered
  MaxCalls = 2
  MaxItems = 2
  Day = 2
  MaxTime = 1
CHECK_DEADLOCK FALSE
INVARIANTS EachCallAnsweredOnce FiresOnceWhenDue
PROPERTIES CallsAnswered SetRemindersFire ShutdownReturns
