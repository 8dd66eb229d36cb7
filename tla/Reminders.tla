------------------------------- MODULE Reminders -------------------------------
(***************************************************************************)
(* The path of a reminder: the core's tool calls are queued by the tool     *)
(* dispatch device, whose worker runs set_reminder and so calls Schedule()  *)
(* of the scheduler device, whose own thread fires the item back to the     *)
(* core.  AgentRuntime::Shutdown empties the route table and then stops the *)
(* devices in the reverse order of their registration: the scheduler first, *)
(* then the tool dispatch, whose worker may still have calls to drain.      *)
(***************************************************************************)
EXTENDS ToolDispatch, Scheduler

VARIABLE routed          \* the devices are on the bus and their routes stand

vars == <<toolVars, schedulerVars, routed>>

Init == ToolInit /\ SchedulerInit /\ routed = TRUE

\* The core emits a tool call and the bus hands it on.
ToolCall(request) == routed /\ OnInput(request) /\ UNCHANGED <<schedulerVars, routed>>

\* Minutes that are missing or not an integer are zero.
Minutes(t) == IF t.good THEN t.minutes ELSE 0

\* The worker runs the tool: set_reminder takes the scheduler's mutex.
RunTool ==
  /\ Invoke
  /\ IF task.tool = "set_reminder" /\ Runs(task)
     THEN Schedule(Minutes(task))
     ELSE UNCHANGED schedulerVars
  /\ UNCHANGED routed

WorkerThread ==
  \/ RunTool
  \/ (Take \/ WorkerSleep \/ EmitResult) /\ UNCHANGED <<schedulerVars, routed>>

TimerThread == Timer /\ UNCHANGED <<toolVars, routed>>

\* AppRuntime::Scheduler() gives the embedding program the device, and so its
\* Cancel().
CancelReminder(id) == CancelItem(id) /\ UNCHANGED <<toolVars, routed>>

Time == Tick /\ UNCHANGED <<toolVars, routed>>

ShutdownBegins ==
  /\ routed /\ routed' = FALSE
  /\ UNCHANGED <<toolVars, schedulerVars>>

StopScheduler ==
  /\ ~routed
  /\ TimerStopFlag \/ TimerStopNotify \/ TimerStopJoin
  /\ UNCHANGED <<toolVars, routed>>

StopToolDispatch ==
  /\ timer_joiner = "joined"
  /\ WorkerStopFlag \/ WorkerStopNotify \/ WorkerStopJoin
  /\ UNCHANGED <<schedulerVars, routed>>

Shutdown == StopScheduler \/ StopToolDispatch

Next ==
  \/ \E request \in Requests : ToolCall(request)
  \/ WorkerThread
  \/ TimerThread
  \/ \E id \in 1 .. MaxItems : CancelReminder(id)
  \/ Time
  \/ ShutdownBegins
  \/ Shutdown

\* Threads that can run do, time passes, and a shutdown that has begun goes on;
\* nobody need call a tool, cancel or shut down.
Fairness ==
  /\ WF_vars(WorkerThread) /\ WF_vars(TimerThread) /\ WF_vars(Time)
  /\ WF_vars(Shutdown)

Spec == Init /\ [][Next]_vars /\ Fairness

-----------------------------------------------------------------------------
Fired(id) == \E i \in 1 .. Len(fires) : fires[i].id = id

\* A reminder that was set is fired once its time has come, whatever the timer
\* thread was doing when it was set: scanning, firing others, or asleep, with or
\* without a deadline.  Excepted are reminders that were cancelled, the
\* program's end, and a vector moved under the timer thread's pointers.
SetRemindersFire ==
  \A id \in 1 .. MaxItems :
    Len(scheduled) >= id /\ scheduled[id] <= MaxTime
      ~> Fired(id) \/ id \in cancelled \/ stop \/ disturbed

\* Shutdown joins both threads, drains the calls between, and returns, unless
\* one of the threads was between its predicate and its wait when it was
\* notified: Stop() takes no mutex.
ShutdownReturns ==
  ~routed ~> worker_joiner = "joined" \/ timer_missed \/ worker_missed
=============================================================================
