--------------------------- MODULE DialogueReducer ---------------------------
(***************************************************************************)
(* DefaultDialogueReducer: a pure function from a dialogue state and an    *)
(* event to a decision, the next dialogue state and the effects that the   *)
(* controller then applies in order.                                       *)
(*                                                                         *)
(* Data is abstracted to what the decisions read.  A user message is its   *)
(* number in sending order, a list of text fragments the set of the        *)
(* message numbers in it, a tool call its id, the tokens of one LLM        *)
(* completion one unit.  Effects that only write logs, activity events or  *)
(* entries other than user messages (RecordMemory of a system event,       *)
(* RecordToolCallDecision, RecordInterruptMemory, BufferToWorkspace,       *)
(* EmitActivityEffect, EmitDiagnosticEffect) are left out, as is the       *)
(* workspace's assistant_partial, which no code ever sets.                 *)
(***************************************************************************)
EXTENDS Naturals, Sequences, FiniteSets, ControllerFsm

CONSTANTS Tools,            \* tool call ids an LLM may use
          TokenBudget,      \* ControllerConfig.token_budget, in completions
          ActionLimit,      \* ControllerConfig.action_count_limit
          MaxContinuations  \* ControllerConfig.max_continuations

ASSUME BudgetAssumption ==
  /\ IsFiniteSet(Tools)
  /\ TokenBudget \in Nat /\ ActionLimit \in Nat /\ MaxContinuations \in Nat

TimerIds == {"debounce", "aggregation", "tool_call_timeout"}

DialogueState ==
  [cooldown : {"None", "Debouncing"},
   deliberation : {"Idle", "AwaitingTurnTrigger", "Thinking",
                   "AwaitingToolResults"},
   trigger : Nat, lastTrigger : Nat,
   fragments : SUBSET Nat,
   pending : SUBSET Tools, results : SUBSET Tools,
   tokens : Nat, actions : Nat, continuations : Nat]

InitialDialogue ==
  [cooldown |-> "None", deliberation |-> "Idle", trigger |-> 0,
   lastTrigger |-> 0, fragments |-> {}, pending |-> {}, results |-> {},
   tokens |-> 0, actions |-> 0, continuations |-> 0]

-----------------------------------------------------------------------------
(* Effects.                                                                *)

CommitWorkspace       == [op |-> "CommitWorkspace"]
CancelLlm             == [op |-> "CancelLlm"]
StartLlm              == [op |-> "StartLlm"]
StartLlmContinuation  == [op |-> "StartLlmContinuation"]
SignalBudgetExhausted == [op |-> "SignalBudgetExhausted"]
DeliverResponse       == [op |-> "DeliverResponse"]
RecordTimeoutResults  == [op |-> "RecordTimeoutResults"]
ScheduleTimer(id)     == [op |-> "ScheduleTimer", id |-> id]
CancelTimer(id)       == [op |-> "CancelTimer", id |-> id]
TransitionState(e)    == [op |-> "TransitionState", event |-> e]
StartTurnTriggerClassification(n) ==
  [op |-> "StartTurnTriggerClassification", trigger |-> n]
EmitToolCallFrames(calls) == [op |-> "EmitToolCallFrames", calls |-> calls]
RecordToolResult(ok)      == [op |-> "RecordToolResult", ok |-> ok]

Decision(s, effects) == [next |-> s, effects |-> effects]
NoOp(s) == Decision(s, <<>>)

-----------------------------------------------------------------------------
(* One operator per event handler.                                         *)

(* Mutant: the token budget may be overrun by one completion.              *)
IsBudgetOverrun(s) ==
  s.tokens > TokenBudget \/ s.actions > ActionLimit

IsBudgetExhausted(s) ==
  \/ s.tokens >= TokenBudget
  \/ s.actions >= ActionLimit
  \/ s.continuations >= MaxContinuations

(* Mutant: an interrupt in a plain LLM call schedules no debounce timer.   *)
HandleInterruptUnscheduled(s) ==
  Decision([s EXCEPT !.cooldown = "Debouncing", !.deliberation = "Idle",
                     !.trigger = 0, !.pending = {}, !.results = {}],
           <<CommitWorkspace, CancelLlm>>)

HandleInterrupt(s) ==
  Decision([s EXCEPT !.cooldown = "Debouncing", !.deliberation = "Idle",
                     !.trigger = 0, !.pending = {}, !.results = {}],
           (IF s.fragments # {} THEN <<CommitWorkspace>> ELSE <<>>)
           \o <<CancelLlm, ScheduleTimer("debounce")>>
           \o (IF s.deliberation = "AwaitingToolResults"
               THEN <<CancelTimer("tool_call_timeout")>> ELSE <<>>))

(* Mutant: the cooldown is not reset.                                      *)
HandleDebounceCooldownKept(s) ==
  Decision(s, <<CommitWorkspace, StartLlmContinuation>>)

HandleDebounceCooldownExpired(s) ==
  Decision([s EXCEPT !.cooldown = "None"],
           <<CommitWorkspace, IF IsBudgetExhausted(s)
                              THEN SignalBudgetExhausted
                              ELSE StartLlmContinuation>>)

(* Mutant: a message during the debounce is ignored.                       *)
HandleUserMessageUnbuffered(s, msgs) ==
  IF s.cooldown = "Debouncing" \/ s.deliberation # "Idle" THEN NoOp(s)
  ELSE LET n == s.lastTrigger + 1 IN
       Decision([s EXCEPT !.fragments = @ \cup msgs, !.lastTrigger = n,
                          !.trigger = n, !.deliberation = "AwaitingTurnTrigger"],
                <<CommitWorkspace, StartTurnTriggerClassification(n)>>)

(* A message during the debounce is buffered; one that finds no turn under *)
(* way (or one still being classified) starts a turn; any other is ignored.*)
HandleUserMessage(s, msgs) ==
  IF s.cooldown = "Debouncing"
  THEN NoOp([s EXCEPT !.fragments = @ \cup msgs])
  ELSE IF s.deliberation \in {"AwaitingTurnTrigger", "Idle"}
  THEN LET n == s.lastTrigger + 1 IN
       Decision([s EXCEPT !.tokens = 0, !.actions = 0, !.continuations = 0,
                          !.fragments = @ \cup msgs,
                          !.lastTrigger = n, !.trigger = n,
                          !.deliberation = "AwaitingTurnTrigger"],
                <<CommitWorkspace, StartTurnTriggerClassification(n)>>)
  ELSE NoOp(s)

(* The controller answers every classification with kRespondNow.           *)
HandleTurnTriggerClassified(s, n) ==
  IF n # s.trigger
  THEN NoOp(s)
  ELSE Decision([s EXCEPT !.trigger = 0, !.deliberation = "Thinking"],
                <<StartLlm>>)

(* Mutant: nobody gives up on a tool that does not answer.                 *)
AwaitToolResultsForever(s, calls) ==
  Decision([s EXCEPT !.deliberation = "AwaitingToolResults",
                     !.pending = calls, !.results = {}],
           <<EmitToolCallFrames(calls)>>)

(* The timer is scheduled after the calls have been emitted, or denied.    *)
AwaitToolResults(s, calls) ==
  Decision([s EXCEPT !.deliberation = "AwaitingToolResults",
                     !.pending = calls, !.results = {}],
           <<EmitToolCallFrames(calls), ScheduleTimer("tool_call_timeout")>>)

DeliverAnswer(s) ==
  Decision([s EXCEPT !.deliberation = "Idle"], <<DeliverResponse>>)

ContinueThinking(s) ==
  IF s.continuations + 1 >= MaxContinuations
  THEN Decision([s EXCEPT !.continuations = @ + 1, !.deliberation = "Idle"],
                <<SignalBudgetExhausted>>)
  ELSE Decision([s EXCEPT !.continuations = @ + 1, !.deliberation = "Thinking"],
                <<StartLlm>>)

CountCompletion(s) == [s EXCEPT !.tokens = @ + 1]

(* A completion of type "ToolCall" (with its calls), "Response" or         *)
(* "Continue".                                                             *)
HandleLlmCompleted(s, type, calls) ==
  CASE type = "ToolCall" -> AwaitToolResults(CountCompletion(s), calls)
    [] type = "Response" -> DeliverAnswer(CountCompletion(s))
    [] type = "Continue" -> ContinueThinking(CountCompletion(s))

HandleLlmFailed(s) ==
  Decision([s EXCEPT !.deliberation = "Idle"],
           <<TransitionState("LlmFailure")>>)

(* Any id counts as a result; the cycle is complete when every pending id  *)
(* has one, in particular when nothing is pending.                         *)
HandleToolResult(s, id, ok) ==
  IF s.pending \subseteq s.results \cup {id}
  THEN Decision([s EXCEPT !.deliberation = "Thinking",
                          !.pending = {}, !.results = {}],
                <<RecordToolResult(ok), CancelTimer("tool_call_timeout"),
                  StartLlm>>)
  ELSE Decision([s EXCEPT !.results = @ \cup {id}], <<RecordToolResult(ok)>>)

(* Mutant: the timeout is recorded, and nobody goes on thinking.           *)
HandleToolCallTimeoutOnly(s) ==
  Decision([s EXCEPT !.pending = {}, !.results = {}], <<RecordTimeoutResults>>)

HandleToolCallTimeout(s) ==
  Decision([s EXCEPT !.deliberation = "Thinking",
                     !.pending = {}, !.results = {}],
           <<RecordTimeoutResults, StartLlm>>)

HandleSystemEvent(s) ==
  IF s.deliberation # "Idle"
  THEN NoOp(s)
  ELSE Decision([s EXCEPT !.deliberation = "Thinking"], <<StartLlm>>)

=============================================================================
