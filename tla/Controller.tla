----------------------------- MODULE Controller -----------------------------
(***************************************************************************)
(* core/controller: the reasoning loop, the threads that talk to it, and   *)
(* the state they share.                                                   *)
(*                                                                         *)
(* The loop thread (RunLoop) waits for a due timer or an observation, asks *)
(* the reducer for a decision and applies its effects.  Effects call one   *)
(* another (StartLlm calls HandleThinking, which applies the decision of   *)
(* its own completion before the caller's remaining effects): "agenda" is  *)
(* that call stack flattened, the steps still to run, the innermost first. *)
(* Other threads enqueue observations, call Interrupt() (whose three       *)
(* shared-memory steps are separate actions here) and Shutdown().          *)
(*                                                                         *)
(* Time is discrete: due[id] is the time left of a timer, and Tick lets    *)
(* time pass, also while the loop is blocked in an LLM call.               *)
(***************************************************************************)
EXTENDS Integers, DialogueReducer

CONSTANTS Duration,     \* TimerIds -> ticks until a timer is due
          MaxLate,      \* bound: ticks a timer may be overdue
          MaxRetries,   \* ControllerConfig.max_retries
          Callers,      \* threads that may call Interrupt()
          MaxMessages, MaxSystemEvents, MaxInterrupts, \* bounds on the input
          May           \* what the environment may do, a subset of Choices

Choices == {"ToolCall", "Continue", "EmptyResponse", "LlmFault",
            "ContextFault", "Deny", "Incomplete", "Shutdown"}

ASSUME ControllerAssumption ==
  /\ Duration \in [TimerIds -> Nat \ {0}]
  /\ MaxLate \in Nat /\ MaxRetries \in Nat
  /\ MaxMessages \in Nat /\ MaxSystemEvents \in Nat /\ MaxInterrupts \in Nat
  /\ May \subseteq Choices

VARIABLES
  fsm,      \* state_
  ds,       \* dialogue_state_
  agenda,   \* effects and steps the loop thread has still to run
  pc,       \* loop thread: "off", "wait", "timers", "observation", "done"
  call,     \* attempt number of the LLM call under way, 0 when there is none
  bargeIn,  \* the message whose barge-in is being applied, 0 when none
  due,      \* timer_book_: ticks left of each armed timer, Off otherwise
  batch,    \* the expired timers PopExpired returned and not yet handled
  queue,    \* observation_queue_
  irq,      \* interrupt_requested_
  shut,     \* shutdown_requested_
  agg,      \* fragments in the observation aggregator
  hist,     \* user messages committed to history by context_.RecordTurn
  toolOk,   \* last_tool_cycle_all_success_
  callers,  \* progress of each Interrupt() call
  running,  \* tool calls dispatched and not yet answered
  fresh,    \* tool call ids the LLM has not used yet
  sent, systemEvents, interrupts   \* inputs so far

loopVars == <<fsm, ds, agenda, pc, call, bargeIn, toolOk>>
timeVars == <<due, batch>>
textVars == <<agg, hist>>
envVars  == <<callers, running, fresh, sent, systemEvents, interrupts>>
vars == <<loopVars, timeVars, textVars, queue, irq, shut, envVars>>

Off == -(MaxLate + 1)
NoTimers == [id \in TimerIds |-> Off]

Observation ==
  [type : {"UserMessage"}, msg : Nat]
  \cup [type : {"ToolResult"}, id : Tools, ok : BOOLEAN]
  \cup [type : {"SystemEvent", "Interruption"}]

(* Steps of the controller that are not effects of the reducer.            *)
HandleThinking      == [op |-> "HandleThinking"]
HandleResponding    == [op |-> "HandleResponding"]
UserMessageReceived == [op |-> "UserMessageReceived"]
HandleActing(calls) == [op |-> "HandleActing", calls |-> calls]

Effect ==
  [op : {"CommitWorkspace", "CancelLlm", "StartLlm", "StartLlmContinuation",
         "SignalBudgetExhausted", "DeliverResponse", "RecordTimeoutResults",
         "HandleThinking", "HandleResponding", "UserMessageReceived"}]
  \cup [op : {"ScheduleTimer", "CancelTimer"}, id : TimerIds]
  \cup [op : {"TransitionState"}, event : Events]
  \cup [op : {"StartTurnTriggerClassification"}, trigger : Nat]
  \cup [op : {"EmitToolCallFrames", "HandleActing"}, calls : SUBSET Tools]
  \cup [op : {"RecordToolResult"}, ok : BOOLEAN]

Init ==
  /\ fsm = "Idle" /\ ds = InitialDialogue /\ agenda = <<>> /\ pc = "off"
  /\ call = 0 /\ bargeIn = 0 /\ toolOk = TRUE
  /\ due = NoTimers /\ batch = NoTimers
  /\ queue = <<>> /\ irq = FALSE /\ shut = FALSE
  /\ agg = {} /\ hist = {}
  /\ callers = [c \in Callers |-> "outside"]
  /\ running = {} /\ fresh = Tools
  /\ sent = 0 /\ systemEvents = 0 /\ interrupts = 0

-----------------------------------------------------------------------------
(* Applying effects, on the loop thread.                                   *)

Doing(op) == call = 0 /\ agenda # <<>> /\ Head(agenda).op = op
Rest == Tail(agenda)

(* ApplyDialogueDecision: the effects of d run before what was left.       *)
Apply(d, rest) == ds' = d.next /\ agenda' = d.effects \o rest

(* TryTransition; reaching Idle by StopConditionMet empties the queue.     *)
DoTransition ==
  /\ Doing("TransitionState")
  /\ LET e == Head(agenda).event IN
     /\ fsm' = After(fsm, e)
     /\ queue' = IF e = "StopConditionMet" /\ CanFire(fsm, e)
                 THEN <<>> ELSE queue
  /\ agenda' = Rest
  /\ UNCHANGED <<ds, pc, call, bargeIn, toolOk, timeVars, textVars, irq,
                 shut, envVars>>

(* Mutant: the workspace is not cleared.                                   *)
DoCommitWorkspaceAgain ==
  /\ Doing("CommitWorkspace")
  /\ hist' = hist \cup ds.fragments
  /\ agenda' = Rest
  /\ UNCHANGED <<fsm, ds, pc, call, bargeIn, toolOk, timeVars, agg, queue, irq,
                 shut, envVars>>

DoCommitWorkspace ==
  /\ Doing("CommitWorkspace")
  /\ hist' = hist \cup ds.fragments
  /\ ds' = [ds EXCEPT !.fragments = {}]
  /\ agenda' = Rest
  /\ UNCHANGED <<fsm, pc, call, bargeIn, toolOk, timeVars, agg, queue, irq,
                 shut, envVars>>

(* Mutant: fragments from before the interrupt stay in the aggregator.     *)
DoCancelLlmOnly ==
  /\ Doing("CancelLlm")
  /\ irq' = FALSE
  /\ agenda' = <<TransitionState("Interrupt")>> \o Rest
  /\ UNCHANGED <<fsm, ds, pc, call, bargeIn, toolOk, timeVars, textVars, queue,
                 shut, envVars>>

DoCancelLlm ==
  /\ Doing("CancelLlm")
  /\ irq' = FALSE
  /\ agg' = {}
  /\ agenda' = <<TransitionState("Interrupt")>> \o Rest
  /\ UNCHANGED <<fsm, ds, pc, call, bargeIn, toolOk, timeVars, hist, queue,
                 shut, envVars>>

(* The transitions that bring the FSM to Thinking from where it is.        *)
EnterThinking ==
  CASE fsm \in {"Listening", "Idle"} -> <<TransitionState("UserObservation")>>
    [] fsm = "Acting" -> <<TransitionState(IF toolOk THEN "ActionComplete"
                                                     ELSE "ActionFailed")>>
    [] fsm = "Thinking" -> <<TransitionState("LlmResult"),
                             TransitionState("RouteToContinue")>>
    [] OTHER -> <<>>

(* The effects that are replaced by the steps they consist of.             *)
Expansion(e) ==
  CASE e.op = "StartLlm" -> EnterThinking \o <<HandleThinking>>
    [] e.op = "StartLlmContinuation" ->
         <<TransitionState("UserObservation"), HandleThinking>>
    [] e.op = "SignalBudgetExhausted" -> <<TransitionState("StopConditionMet")>>
    [] e.op = "DeliverResponse" ->
         IF fsm = "Thinking"
         THEN <<TransitionState("LlmResult"),
                TransitionState("RouteToResponse"), HandleResponding>>
         ELSE <<HandleResponding>>
    [] e.op = "RecordTimeoutResults" ->
         IF fsm = "Acting" THEN <<TransitionState("ActionFailed")>> ELSE <<>>

DoExpand ==
  /\ call = 0 /\ agenda # <<>>
  /\ Head(agenda).op \in {"StartLlm", "StartLlmContinuation", "DeliverResponse",
                          "SignalBudgetExhausted", "RecordTimeoutResults"}
  /\ agenda' = Expansion(Head(agenda)) \o Rest
  /\ UNCHANGED <<fsm, ds, pc, call, bargeIn, toolOk, timeVars, textVars,
                 queue, irq, shut, envVars>>

DoClassify ==
  /\ Doing("StartTurnTriggerClassification")
  /\ Apply(HandleTurnTriggerClassified(ds, Head(agenda).trigger), Rest)
  /\ UNCHANGED <<fsm, pc, call, bargeIn, toolOk, timeVars, textVars, queue,
                 irq, shut, envVars>>

(* The deadline counts from here rather than from the decision's "now".    *)
DoTimer ==
  /\ \/ /\ Doing("ScheduleTimer")
        /\ LET id == Head(agenda).id IN due' = [due EXCEPT ![id] = Duration[id]]
     \/ /\ Doing("CancelTimer")
        /\ due' = [due EXCEPT ![Head(agenda).id] = Off]
  /\ agenda' = Rest
  /\ UNCHANGED <<fsm, ds, pc, call, bargeIn, toolOk, batch, textVars, queue,
                 irq, shut, envVars>>

(* The policy layer allows every call of the batch, or denies it as a whole *)
(* and the turn goes back to thinking.                                     *)
DoEmitToolCallFrames ==
  /\ Doing("EmitToolCallFrames")
  /\ \/ /\ agenda' = <<TransitionState("LlmResult"),
                       TransitionState("RouteToAction"),
                       HandleActing(Head(agenda).calls)>> \o Rest
        /\ toolOk' = TRUE
     \/ /\ "Deny" \in May
        /\ agenda' = <<TransitionState("LlmResult"),
                       TransitionState("RouteToContinue"),
                       HandleThinking>> \o Rest
        /\ UNCHANGED toolOk
  /\ UNCHANGED <<fsm, ds, pc, call, bargeIn, timeVars, textVars, queue, irq,
                 shut, envVars>>

(* Mutant: the calls are taken off an allowance.                           *)
CountActionsLeft(s, calls) == [s EXCEPT !.actions = @ - Cardinality(calls)]

CountActions(s, calls) == [s EXCEPT !.actions = @ + Cardinality(calls)]

DoActing ==
  /\ Doing("HandleActing")
  /\ LET calls == Head(agenda).calls IN
     /\ ds' = CountActions(ds, calls)
     /\ running' = running \cup calls
  /\ agenda' = Rest
  /\ UNCHANGED <<fsm, pc, call, bargeIn, toolOk, timeVars, textVars, queue,
                 irq, shut, callers, fresh, sent, systemEvents, interrupts>>

DoRecordToolResult ==
  /\ Doing("RecordToolResult")
  /\ toolOk' = (toolOk /\ Head(agenda).ok)
  /\ agenda' = Rest
  /\ UNCHANGED <<fsm, ds, pc, call, bargeIn, timeVars, textVars, queue, irq,
                 shut, envVars>>

(* A response that is nothing but blocks in tags is stripped to nothing.   *)
FilterMayLeaveNothing == "EmptyResponse" \in May

(* With nothing left there is nothing to deliver; otherwise the budget     *)
(* decides between Listening and Idle.                                     *)
DoResponding ==
  /\ Doing("HandleResponding")
  /\ \/ /\ FilterMayLeaveNothing
        /\ agenda' = <<TransitionState("ResponseDelivered")>> \o Rest
     \/ agenda' = <<TransitionState(IF IsBudgetExhausted(ds)
                                    THEN "StopConditionMet"
                                    ELSE "ResponseDelivered")>> \o Rest
  /\ UNCHANGED <<fsm, ds, pc, call, bargeIn, toolOk, timeVars, textVars,
                 queue, irq, shut, envVars>>

DoUserMessage ==
  /\ Doing("UserMessageReceived")
  /\ Apply(HandleUserMessage(ds, {bargeIn}), Rest)
  /\ bargeIn' = 0
  /\ UNCHANGED <<fsm, pc, call, toolOk, timeVars, textVars, queue, irq, shut,
                 envVars>>

(* HandleThinking up to the LLM call: stop on an exhausted budget, bail out *)
(* on a requested interrupt, else build the context and submit.            *)
DoThinking ==
  /\ Doing("HandleThinking")
  /\ \/ /\ IsBudgetExhausted(ds)
        /\ agenda' = <<TransitionState("StopConditionMet")>> \o Rest
        /\ UNCHANGED call
     \/ /\ ~IsBudgetExhausted(ds) /\ irq
        /\ agenda' = Rest
        /\ UNCHANGED call
     \/ /\ ~IsBudgetExhausted(ds) /\ ~irq
        /\ agenda' = Rest
        /\ call' = 1
     \/ /\ ~IsBudgetExhausted(ds) /\ ~irq /\ "ContextFault" \in May
        /\ agenda' = <<TransitionState("LlmFailure")>> \o Rest
        /\ UNCHANGED call
  /\ UNCHANGED <<fsm, ds, pc, bargeIn, toolOk, timeVars, textVars, queue, irq,
                 shut, envVars>>

-----------------------------------------------------------------------------
(* The LLM call returns: its result is not routed once an interrupt has    *)
(* been requested.                                                         *)

LlmAbandoned ==
  /\ call # 0 /\ irq
  /\ call' = 0
  /\ UNCHANGED <<fsm, ds, agenda, pc, bargeIn, toolOk, timeVars, textVars,
                 queue, irq, shut, envVars>>

LlmReturns(type, calls) ==
  /\ call # 0 /\ ~irq
  /\ call' = 0
  /\ Apply(HandleLlmCompleted(ds, type, calls), agenda)
  /\ fresh' = fresh \ calls
  /\ UNCHANGED <<fsm, pc, bargeIn, toolOk, timeVars, textVars, queue, irq,
                 shut, callers, running, sent, systemEvents, interrupts>>

(* Submit throws: retry after a back-off, or fail after the last attempt.  *)
LlmThrows ==
  /\ "LlmFault" \in May
  /\ call # 0 /\ ~irq
  /\ IF call > MaxRetries
     THEN call' = 0 /\ Apply(HandleLlmFailed(ds), agenda)
     ELSE call' = call + 1 /\ UNCHANGED <<ds, agenda>>
  /\ UNCHANGED <<fsm, pc, bargeIn, toolOk, timeVars, textVars, queue, irq,
                 shut, envVars>>

LlmStep ==
  \/ LlmAbandoned
  \/ LlmReturns("Response", {})
  \/ "Continue" \in May /\ LlmReturns("Continue", {})
  \/ /\ "ToolCall" \in May
     /\ \E calls \in SUBSET fresh \ {{}} : LlmReturns("ToolCall", calls)
  \/ LlmThrows

EffectStep ==
  \/ DoTransition \/ DoCommitWorkspace \/ DoCancelLlm \/ DoExpand
  \/ DoClassify \/ DoTimer \/ DoEmitToolCallFrames \/ DoActing
  \/ DoRecordToolResult \/ DoResponding \/ DoUserMessage \/ DoThinking

-----------------------------------------------------------------------------
(* The loop thread between the effects.                                    *)

Busy == agenda # <<>> \/ call # 0
Armed(t, id) == t[id] # Off
Due(id) == Armed(due, id) /\ due[id] <= 0

Start ==
  /\ pc = "off"
  /\ pc' = "wait" /\ fsm' = After(fsm, "Start")
  /\ UNCHANGED <<ds, agenda, call, bargeIn, toolOk, timeVars, textVars, queue,
                 irq, shut, envVars>>

(* The wait ends with a due timer or an observation; the expired timers    *)
(* are popped, and handled one by one with the lock released in between.   *)
Wake ==
  /\ pc = "wait" /\ ~shut
  /\ queue # <<>> \/ \E id \in TimerIds : Due(id)
  /\ batch' = [id \in TimerIds |-> IF Due(id) THEN due[id] ELSE Off]
  /\ due' = [id \in TimerIds |-> IF Due(id) THEN Off ELSE due[id]]
  /\ pc' = "timers"
  /\ UNCHANGED <<fsm, ds, agenda, call, bargeIn, toolOk, textVars, queue, irq,
                 shut, envVars>>

(* Mutant: the loop insists on an empty queue before it stops.             *)
LoopBreakDrained ==
  /\ pc = "wait" /\ shut /\ queue = <<>>
  /\ pc' = "done"
  /\ UNCHANGED <<fsm, ds, agenda, call, bargeIn, toolOk, timeVars, textVars,
                 queue, irq, shut, envVars>>

LoopBreak ==
  /\ pc = "wait" /\ shut
  /\ pc' = "done"
  /\ UNCHANGED <<fsm, ds, agenda, call, bargeIn, toolOk, timeVars, textVars,
                 queue, irq, shut, envVars>>

Earliest(id) ==
  /\ Armed(batch, id)
  /\ \A other \in TimerIds : Armed(batch, other) => batch[id] <= batch[other]

(* Mutant: the aggregator finds that its time is not quite over.           *)
ExpireAggregationEarly == UNCHANGED <<agg, ds, agenda>>

(* CheckTimeout of the aggregator returns the fragments buffered so far:   *)
(* its time is over, it began before the timer was scheduled.              *)
ExpireAggregation ==
  \/ /\ agg # {}
     /\ agg' = {}
     /\ Apply(HandleUserMessage(ds, agg), agenda)
  \/ agg = {} /\ UNCHANGED <<agg, ds, agenda>>

ExpireNext ==
  /\ pc = "timers" /\ ~Busy
  /\ \E id \in TimerIds :
       /\ Earliest(id)
       /\ batch' = [batch EXCEPT ![id] = Off]
       /\ \/ id = "aggregation" /\ ExpireAggregation
          \/ /\ id = "debounce"
             /\ Apply(HandleDebounceCooldownExpired(ds), agenda)
             /\ UNCHANGED agg
          \/ /\ id = "tool_call_timeout"
             /\ Apply(HandleToolCallTimeout(ds), agenda)
             /\ UNCHANGED agg
  /\ UNCHANGED <<fsm, pc, call, bargeIn, toolOk, due, hist, queue, irq, shut,
                 envVars>>

(* The front observation is dequeued and handled according to the state.   *)
Dequeue(type) ==
  /\ pc = "timers" /\ ~Busy /\ batch = NoTimers
  /\ queue # <<>> /\ Head(queue).type = type
  /\ queue' = Tail(queue)
  /\ pc' = "observation"

HandleInterruption ==
  /\ Dequeue("Interruption") /\ fsm \in Interruptible
  /\ Apply(HandleInterrupt(ds), agenda)
  /\ UNCHANGED <<fsm, call, bargeIn, toolOk, timeVars, textVars, irq, shut,
                 envVars>>

(* A user message in the middle of a turn: interrupt, buffer, commit.      *)
BargeIn ==
  /\ Dequeue("UserMessage") /\ fsm \in Interruptible
  /\ LET d == HandleInterrupt(ds) IN
     /\ ds' = d.next
     /\ agenda' = d.effects \o <<UserMessageReceived, CommitWorkspace>>
  /\ bargeIn' = Head(queue).msg
  /\ UNCHANGED <<fsm, call, toolOk, timeVars, textVars, irq, shut, envVars>>

HandleActingResult ==
  /\ Dequeue("ToolResult") /\ fsm = "Acting"
  /\ Apply(HandleToolResult(ds, Head(queue).id, Head(queue).ok), agenda)
  /\ UNCHANGED <<fsm, call, bargeIn, toolOk, timeVars, textVars, irq, shut,
                 envVars>>

ResetBudgetWindow(s) ==
  [s EXCEPT !.tokens = 0, !.actions = 0, !.continuations = 0,
            !.pending = {}, !.results = {}]

(* Feed of the aggregator puts a message after those it holds; whether they *)
(* are a complete utterance an LLM decides, or its timeout.                *)
Fed(buffered, msg) == buffered \cup {msg}

UtteranceMayBeIncomplete == "Incomplete" \in May

(* Waking from Idle resets the budget window, the interrupt flag and the   *)
(* aggregator before the message is fed to the aggregator.                 *)
FeedUserMessage ==
  /\ Dequeue("UserMessage") /\ fsm \in {"Idle", "Listening"}
  /\ fsm' = "Listening"
  /\ irq' = IF fsm = "Idle" THEN FALSE ELSE irq
  /\ LET s == IF fsm = "Idle" THEN ResetBudgetWindow(ds) ELSE ds
         buffered == IF fsm = "Idle" THEN {} ELSE agg
         msgs == Fed(buffered, Head(queue).msg)
     IN \/ /\ agg' = {}
           /\ due' = [due EXCEPT !["aggregation"] = Off]
           /\ Apply(HandleUserMessage(s, msgs), agenda)
        \/ /\ UtteranceMayBeIncomplete
           /\ agg' = msgs
           /\ due' = [due EXCEPT !["aggregation"] = Duration["aggregation"]]
           /\ ds' = s /\ UNCHANGED agenda
  /\ UNCHANGED <<call, bargeIn, toolOk, batch, hist, shut, envVars>>

FeedSystemEvent ==
  /\ Dequeue("SystemEvent") /\ fsm \in {"Idle", "Listening"}
  /\ fsm' = "Listening"
  /\ IF fsm = "Idle"
     THEN /\ irq' = FALSE /\ agg' = {}
          /\ Apply(HandleSystemEvent(ResetBudgetWindow(ds)), agenda)
     ELSE /\ Apply(HandleSystemEvent(ds), agenda)
          /\ UNCHANGED <<irq, agg>>
  /\ UNCHANGED <<call, bargeIn, toolOk, timeVars, hist, shut, envVars>>

(* Anything else is dropped; the interrupt flag stays as it is.            *)
IgnoreObservation ==
  /\ \/ Dequeue("Interruption") /\ fsm \notin Interruptible
     \/ Dequeue("ToolResult") /\ fsm # "Acting"
     \/ /\ Dequeue("UserMessage")
        /\ fsm \notin Interruptible \cup {"Idle", "Listening"}
     \/ Dequeue("SystemEvent") /\ fsm \notin {"Idle", "Listening"}
  /\ UNCHANGED <<fsm, ds, agenda, call, bargeIn, toolOk, timeVars, textVars,
                 irq, shut, envVars>>

EndIteration ==
  /\ ~Busy
  /\ \/ pc = "observation"
     \/ pc = "timers" /\ batch = NoTimers /\ queue = <<>>
  /\ pc' = "wait"
  /\ UNCHANGED <<fsm, ds, agenda, call, bargeIn, toolOk, timeVars, textVars,
                 queue, irq, shut, envVars>>

LoopStep ==
  \/ Wake \/ LoopBreak \/ ExpireNext \/ EndIteration
  \/ HandleInterruption \/ BargeIn \/ HandleActingResult
  \/ FeedUserMessage \/ FeedSystemEvent \/ IgnoreObservation

-----------------------------------------------------------------------------
(* The other threads.                                                      *)

Enqueue(o) == queue' = Append(queue, o)

SendUser ==
  /\ sent < MaxMessages
  /\ sent' = sent + 1
  /\ Enqueue([type |-> "UserMessage", msg |-> sent'])
  /\ UNCHANGED <<loopVars, timeVars, textVars, irq, shut, callers, running,
                 fresh, systemEvents, interrupts>>

SendSystemEvent ==
  /\ systemEvents < MaxSystemEvents
  /\ systemEvents' = systemEvents + 1
  /\ Enqueue([type |-> "SystemEvent"])
  /\ UNCHANGED <<loopVars, timeVars, textVars, irq, shut, callers, running,
                 fresh, sent, interrupts>>

ToolAnswers ==
  \E id \in running, ok \in BOOLEAN :
    /\ running' = running \ {id}
    /\ Enqueue([type |-> "ToolResult", id |-> id, ok |-> ok])
    /\ UNCHANGED <<loopVars, timeVars, textVars, irq, shut, callers, fresh,
                   sent, systemEvents, interrupts>>

(* Interrupt(): test the state, raise the flag, enqueue the interruption.  *)
InterruptCheck(c) ==
  /\ callers[c] = "outside" /\ interrupts < MaxInterrupts
  /\ fsm \in Interruptible
  /\ callers' = [callers EXCEPT ![c] = "checked"]
  /\ interrupts' = interrupts + 1
  /\ UNCHANGED <<loopVars, timeVars, textVars, queue, irq, shut, running,
                 fresh, sent, systemEvents>>

InterruptFlag(c) ==
  /\ callers[c] = "checked"
  /\ callers' = [callers EXCEPT ![c] = "flagged"]
  /\ irq' = TRUE
  /\ UNCHANGED <<loopVars, timeVars, textVars, queue, shut, running, fresh,
                 sent, systemEvents, interrupts>>

InterruptEnqueue(c) ==
  /\ callers[c] = "flagged"
  /\ callers' = [callers EXCEPT ![c] = "outside"]
  /\ Enqueue([type |-> "Interruption"])
  /\ UNCHANGED <<loopVars, timeVars, textVars, irq, shut, running, fresh,
                 sent, systemEvents, interrupts>>

FinishInterrupt == \E c \in Callers : InterruptFlag(c) \/ InterruptEnqueue(c)

(* Shutdown(): raise the flag, join the loop thread, fire kShutdown.       *)
RequestShutdown ==
  /\ "Shutdown" \in May /\ pc # "off" /\ ~shut
  /\ shut' = TRUE
  /\ UNCHANGED <<loopVars, timeVars, textVars, queue, irq, envVars>>

Terminate ==
  /\ pc = "done" /\ fsm # "Terminated"
  /\ fsm' = After(fsm, "Shutdown")
  /\ UNCHANGED <<ds, agenda, pc, call, bargeIn, toolOk, timeVars, textVars,
                 queue, irq, shut, envVars>>

Tick ==
  /\ \E id \in TimerIds : Armed(due, id)
  /\ \A id \in TimerIds : Armed(due, id) => due[id] > -MaxLate
  /\ due' = [id \in TimerIds |-> IF Armed(due, id) THEN due[id] - 1 ELSE Off]
  /\ UNCHANGED <<loopVars, batch, textVars, queue, irq, shut, envVars>>

EnvironmentStep ==
  \/ SendUser \/ SendSystemEvent \/ ToolAnswers
  \/ \E c \in Callers : InterruptCheck(c)
  \/ FinishInterrupt \/ RequestShutdown

Next ==
  \/ Start \/ LoopStep \/ EffectStep \/ LlmStep \/ EnvironmentStep
  \/ Terminate \/ Tick

Spec == Init /\ [][Next]_vars

(* The loop thread is scheduled, an LLM call ends (curl times out), time   *)
(* passes, and a thread inside Interrupt() or Shutdown() gets on with it.  *)
(* Nobody has to send a message, answer a tool call or interrupt.          *)
Fairness ==
  /\ WF_vars(Start) /\ WF_vars(LoopStep) /\ WF_vars(EffectStep)
  /\ WF_vars(LlmStep) /\ WF_vars(FinishInterrupt) /\ WF_vars(Terminate)
  /\ WF_vars(Tick)

FairSpec == Spec /\ Fairness

-----------------------------------------------------------------------------
(* Properties.                                                             *)

(* The loop thread waits for an observation or a timer.                    *)
Resting == pc = "wait" /\ ~Busy

(* Every variable keeps its type.                                          *)
TypeOK ==
  /\ fsm \in States
  /\ ds \in DialogueState
  /\ agenda \in Seq(Effect)
  /\ pc \in {"off", "wait", "timers", "observation", "done"}
  /\ call \in Nat /\ bargeIn \in Nat
  /\ due \in [TimerIds -> Int] /\ batch \in [TimerIds -> Int]
  /\ queue \in Seq(Observation)
  /\ irq \in BOOLEAN /\ shut \in BOOLEAN /\ toolOk \in BOOLEAN
  /\ agg \subseteq Nat /\ hist \subseteq Nat
  /\ callers \in [Callers -> {"outside", "checked", "flagged"}]
  /\ running \subseteq Tools /\ fresh \subseteq Tools
  /\ sent \in Nat /\ systemEvents \in Nat /\ interrupts \in Nat

Before(A, B) == \A a \in A, b \in B : a < b
BargingIn == IF bargeIn = 0 THEN {} ELSE {bargeIn}
Queued == {queue[i].msg : i \in {j \in DOMAIN queue :
                                   queue[j].type = "UserMessage"}}
QueueInOrder ==
  \A i, j \in DOMAIN queue :
    i < j /\ queue[i].type = "UserMessage" /\ queue[j].type = "UserMessage"
    => queue[i].msg < queue[j].msg

(* A user message is in one place at a time on its way through the queue,  *)
(* a barge-in, the aggregator and the workspace to the history, and none   *)
(* overtakes another: whatever interrupts, timers and flushes do, the      *)
(* model never sees a message twice or two of them swapped.                *)
InOrder ==
  /\ Before(hist, ds.fragments \cup agg \cup BargingIn \cup Queued)
  /\ Before(ds.fragments, agg \cup BargingIn \cup Queued)
  /\ Before(agg, BargingIn \cup Queued)
  /\ Before(BargingIn, Queued)
  /\ QueueInOrder
  /\ \A m \in Queued : m <= sent

(* The history only grows, and by messages sent after all it holds.        *)
HistoryGrowsInOrder ==
  [][hist \subseteq hist' /\ Before(hist, hist' \ hist)]_vars

(* A dialogue that debounces after an interrupt has a debounce timer to    *)
(* end it: armed, expired and about to be handled, or about to be armed.   *)
(* Nothing else leaves the debounce, which buffers every later message.    *)
DebounceArmed ==
  ds.cooldown = "Debouncing" =>
    \/ Armed(due, "debounce") \/ Armed(batch, "debounce")
    \/ \E i \in DOMAIN agenda : agenda[i] = ScheduleTimer("debounce")

(* A loop that rests while the dialogue awaits tool results has the timer  *)
(* armed that gives up on a tool that never answers.                       *)
ToolWaitBounded ==
  Resting /\ ds.deliberation = "AwaitingToolResults"
  => Armed(due, "tool_call_timeout")

(* A loop that rests with fragments in the aggregator has the timer armed  *)
(* that flushes them, whatever resets or refills the aggregator meanwhile: *)
(* half an utterance is not forgotten until the user speaks again.         *)
FragmentsTimed == Resting /\ agg # {} => Armed(due, "aggregation")

(* Between two user messages the LLM completes at most as often as the     *)
(* token budget allows, also when the policy denies every call it makes    *)
(* and thinking re-enters itself.                                          *)
BudgetHolds == ds.tokens <= TokenBudget

(* No turn hangs: unless shut down, the loop comes back to Listening or    *)
(* Idle (or Error), tools answering or not.                                *)
InTurn == fsm \in {"Thinking", "Routing", "Acting", "Responding"}
TurnEnds == InTurn ~> ~InTurn

(* Every message sent is committed to the history, unless the loop is shut *)
(* down or a budget runs out: stopping on one empties the queue, and in    *)
(* HandleThinking strands the dialogue in a deliberation with no turn.     *)
Stranded ==
  Resting /\ ds.deliberation = "Thinking" /\ fsm \in {"Idle", "Listening"}
MessageCommitted ==
  \A m \in 1..MaxMessages :
    sent = m ~> (m \in hist \/ shut \/ IsBudgetExhausted(ds) \/ Stranded)

(* The debounce ends, unless shut down first.                              *)
DebounceEnds ==
  ds.cooldown = "Debouncing" ~> (ds.cooldown = "None" \/ shut)

(* Shutdown() returns with the FSM in Terminated.                          *)
ShutdownTerminates == shut ~> fsm = "Terminated"

-----------------------------------------------------------------------------
(* What the repository says of the loop, and the code does not do.         *)

(* "Idle can be reawakened by a new user message after StopConditionMet":  *)
(* the message that wakes the loop goes to the workspace or the aggregator.*)
IdleReawakens ==
  [][fsm = "Idle" /\ pc = "timers" /\ pc' = "observation"
     /\ Head(queue).type = "UserMessage"
     => Head(queue).msg \in ds'.fragments \cup agg']_vars

(* A tool timeout is cancelled with the wait it bounds, lest a stale one   *)
(* "fire later and trigger a spurious RecordTimeoutResults + StartLlm      *)
(* continuation".                                                          *)
NoSpuriousToolTimeout ==
  Resting /\ Armed(due, "tool_call_timeout")
  => ds.deliberation = "AwaitingToolResults"

(* HandleThinking bails out "so the queued interruption can be processed   *)
(* on the next RunLoop iteration": a loop that rests in Thinking has an    *)
(* interruption queued, or an Interrupt() call about to queue it.          *)
InterruptionPending ==
  Resting /\ fsm = "Thinking" =>
    \/ \E i \in DOMAIN queue : queue[i].type = "Interruption"
    \/ \E c \in Callers : callers[c] = "flagged"

=============================================================================
