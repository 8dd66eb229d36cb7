----------------------------- MODULE ToolDispatch -----------------------------
(***************************************************************************)
(* runtime/tool_dispatch_device.cpp with runtime/tool_registry.h and       *)
(* app/tools/builtin_tools.cpp: tool calls are queued by the thread that   *)
(* dispatches the frame and run one at a time by a worker thread.          *)
(*                                                                         *)
(* A call is a record of its tool, whether its arguments are what the tool *)
(* expects, and the minutes a reminder is set for; its tool_call_id is its *)
(* position among the calls accepted.  Outputs and error texts are left    *)
(* out.  The mutex worker_mutex_ is held across steps in one place only:   *)
(* between the worker's predicate and its wait.                            *)
(***************************************************************************)
EXTENDS Naturals, Sequences

CONSTANTS Requests,      \* the calls the LLM may make
          Registered,    \* the names in the registry
          MaxCalls       \* bound on the calls of a behaviour

ASSUME ToolAssumption ==
  /\ Requests \subseteq [call : {0}, tool : STRING, good : BOOLEAN, minutes : Nat]
  /\ MaxCalls \in Nat

VARIABLES task_queue,    \* the queued calls
          wpc,           \* where the worker thread is
          task,          \* the call in the worker's hands
          outcome,       \* what its tool returned
          worker_stop,   \* worker_stop_
          worker_woken,  \* a notification reached the sleeping worker
          worker_joiner, \* how far Stop() has come
          worker_missed, \* history: Stop() notified between predicate and wait
          accepted,      \* history: the calls queued, in order
          results        \* history: the action/tool_result frames, in order

toolVars == <<task_queue, wpc, task, outcome, worker_stop, worker_woken,
              worker_joiner, worker_missed, accepted, results>>

NoTask == [call |-> 0, tool |-> "", good |-> FALSE, minutes |-> 0]
Malformed == "malformed"     \* a payload nlohmann::json cannot parse
Unnamed == ""                \* no tool_name, in the payload or the metadata

ToolInit ==
  /\ task_queue = <<>> /\ wpc = "locking" /\ task = NoTask /\ outcome = FALSE
  /\ worker_stop = FALSE /\ worker_woken = FALSE /\ worker_joiner = "none"
  /\ worker_missed = FALSE /\ accepted = <<>> /\ results = <<>>

WorkerMutexFree == wpc # "testing"

\* OnInput: push under the mutex, then notify; a notification that finds no
\* waiter is lost, which is sound here because the predicate sees the queue.
OnInput(request) ==
  /\ WorkerMutexFree
  /\ Len(accepted) < MaxCalls
  /\ LET t == [request EXCEPT !.call = Len(accepted) + 1]
     IN /\ task_queue' = Append(task_queue, t)
        /\ accepted' = Append(accepted, t)
  /\ worker_woken' = (wpc = "asleep" \/ worker_woken)
  /\ UNCHANGED <<wpc, task, outcome, worker_stop, worker_joiner, worker_missed,
                 results>>

WorkerQuiet == UNCHANGED <<outcome, worker_stop, worker_joiner, worker_missed,
                     accepted, results>>

\* The worker holds the mutex: it takes the next call, leaves when it is
\* stopped and the queue is drained, or finds its predicate false.
TakeDrained ==
  /\ WorkerMutexFree
  /\ \/ wpc = "locking"
     \/ wpc = "asleep" /\ worker_woken
  /\ worker_woken' = FALSE
  /\ IF task_queue # <<>>
     THEN /\ wpc' = "dispatching"
          /\ task' = Head(task_queue)
          /\ task_queue' = Tail(task_queue)
     ELSE /\ wpc' = IF worker_stop THEN "exited" ELSE "testing"
          /\ UNCHANGED <<task, task_queue>>
  /\ WorkerQuiet

\* A loop that takes one call and waits again for a notification, without
\* looking at what is still queued.
TakeOnePerWake ==
  /\ WorkerMutexFree
  /\ \/ wpc = "locking"
     \/ wpc = "asleep" /\ worker_woken
  /\ worker_woken' = FALSE
  /\ IF task_queue # <<>> /\ wpc = "asleep"
     THEN /\ wpc' = "dispatching"
          /\ task' = Head(task_queue)
          /\ task_queue' = Tail(task_queue)
     ELSE /\ wpc' = IF worker_stop THEN "exited" ELSE "testing"
          /\ UNCHANGED <<task, task_queue>>
  /\ WorkerQuiet

\* A loop that runs the front of the queue and forgets to pop it.
TakeAndKeep ==
  /\ WorkerMutexFree
  /\ \/ wpc = "locking"
     \/ wpc = "asleep" /\ worker_woken
  /\ worker_woken' = FALSE
  /\ IF task_queue # <<>>
     THEN wpc' = "dispatching" /\ task' = Head(task_queue)
     ELSE wpc' = (IF worker_stop THEN "exited" ELSE "testing") /\ UNCHANGED task
  /\ UNCHANGED task_queue /\ WorkerQuiet

Take == TakeDrained

\* condition_variable::wait releases the mutex and sleeps in one step.
WorkerSleep ==
  /\ wpc = "testing"
  /\ wpc' = "asleep" /\ worker_woken' = FALSE
  /\ UNCHANGED <<task_queue, task>> /\ WorkerQuiet

\* What the tools of builtin_tools.cpp return; set_reminder takes arguments it
\* cannot read for "now", and another program's tools may return anything or
\* throw, which is a failure too.
Returns(t) ==
  CASE t.tool \in {"get_current_time", "get_system_info", "set_reminder"} -> {TRUE}
    [] t.tool \in {"calculate", "save_note"} -> {t.good}
    [] OTHER -> BOOLEAN

Runs(t) == t.tool \in Registered

\* Dispatch up to the result: a malformed or unnamed call and an unknown tool
\* fail without one.  The caller adds what a tool does to other components.
Invoke ==
  /\ wpc = "dispatching"
  /\ outcome' \in IF Runs(task) THEN Returns(task) ELSE {FALSE}
  /\ wpc' = "emitting"
  /\ UNCHANGED <<task_queue, task, worker_stop, worker_woken, worker_joiner,
                 worker_missed, accepted, results>>

\* A malformed payload has lost its id with the rest.
ResultOf(t, ok) ==
  [tool_call_id |-> IF t.tool = Malformed THEN 0 ELSE t.call, success |-> ok]

EmitResult ==
  /\ wpc = "emitting"
  /\ results' = Append(results, ResultOf(task, outcome))
  /\ wpc' = "locking" /\ task' = NoTask /\ outcome' = FALSE
  /\ UNCHANGED <<task_queue, worker_stop, worker_woken, worker_joiner,
                 worker_missed, accepted>>

Worker == Take \/ WorkerSleep \/ Invoke \/ EmitResult

-----------------------------------------------------------------------------
\* Stop(): the flag and the notification are both outside the mutex.

WorkerStopFlag ==
  /\ worker_joiner = "none"
  /\ worker_stop' = TRUE /\ worker_joiner' = "flagged"
  /\ UNCHANGED <<task_queue, wpc, task, outcome, worker_woken, worker_missed,
                 accepted, results>>

WorkerNotifyAll ==
  /\ worker_woken' = (wpc = "asleep" \/ worker_woken)
  /\ worker_missed' = (wpc = "testing")

\* Stop() without its notification.
WorkerNotifyNobody == worker_missed' = FALSE /\ UNCHANGED worker_woken

WorkerStopWakes == WorkerNotifyAll

WorkerStopNotify ==
  /\ worker_joiner = "flagged"
  /\ WorkerStopWakes
  /\ worker_joiner' = "joining"
  /\ UNCHANGED <<task_queue, wpc, task, outcome, worker_stop, accepted, results>>

WorkerStopJoin ==
  /\ worker_joiner = "joining" /\ wpc = "exited"
  /\ worker_joiner' = "joined"
  /\ UNCHANGED <<task_queue, wpc, task, outcome, worker_stop, worker_woken,
                 worker_missed, accepted, results>>

-----------------------------------------------------------------------------
\* Every call that was queued is answered once, in order, under its own id; it
\* is waiting, in the worker's hands or answered, and never two of these, also
\* while Stop() drains the queue: Dispatch runs with the mutex released.
EachCallAnsweredOnce ==
  LET inHand == IF wpc \in {"dispatching", "emitting"} THEN <<task>> ELSE <<>>
      answered == SubSeq(accepted, 1, Len(results))
  IN /\ accepted = answered \o inHand \o task_queue
     /\ \A i \in 1 .. Len(results) :
          results[i].tool_call_id = (IF answered[i].tool = Malformed THEN 0 ELSE i)

\* A call that was queued before the worker left is answered, unless the worker
\* missed the notification of Stop(): no wake-up is lost to OnInput.
CallsAnswered ==
  \A n \in 1 .. MaxCalls :
    Len(accepted) >= n /\ wpc # "exited" ~> Len(results) >= n \/ worker_missed
=============================================================================
