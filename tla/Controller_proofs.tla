------------------------- MODULE Controller_proofs -------------------------
(***************************************************************************)
(* Theorems about the reasoning loop, for any tools, budgets, durations,   *)
(* bounds and environment.  First what every reducer decision is made of   *)
(* and the type invariant; then the budget and the debounce; then the      *)
(* timers that end a wait; at last the way of a user message through the   *)
(* loop.                                                                   *)
(***************************************************************************)
EXTENDS Controller, FiniteSetTheorems, SequenceTheorems, TLAPS

-----------------------------------------------------------------------------
(* The FSM's table leads to states.                                        *)
LEMMA AfterType == \A s \in States, e \in Events : After(s, e) \in States
<1> SUFFICES ASSUME NEW s \in States, NEW e \in Events, CanFire(s, e)
             PROVE  Transition[s][e] \in States
  BY DEF After
<1>1. CASE s = "Idle"
  BY <1>1 DEF CanFire, Transition, States
<1>2. CASE s = "Listening"
  BY <1>2 DEF CanFire, Transition, States
<1>3. CASE s = "Thinking"
  BY <1>3 DEF CanFire, Transition, States
<1>4. CASE s = "Routing"
  BY <1>4 DEF CanFire, Transition, States
<1>5. CASE s = "Acting"
  BY <1>5 DEF CanFire, Transition, States
<1>6. CASE s = "Responding"
  BY <1>6 DEF CanFire, Transition, States
<1>7. CASE s = "Error"
  BY <1>7 DEF CanFire, Transition, States
<1>8. CASE s = "Terminated"
  BY <1>8 DEF CanFire, Transition
<1> QED
  BY <1>1, <1>2, <1>3, <1>4, <1>5, <1>6, <1>7, <1>8 DEF States

-----------------------------------------------------------------------------
(* Short sequences.                                                        *)
LEMMA SeqOf0 == ASSUME NEW S PROVE <<>> \in Seq(S)
OBVIOUS
LEMMA SeqOf1 == ASSUME NEW S, NEW a \in S PROVE <<a>> \in Seq(S)
OBVIOUS
LEMMA SeqOf2 == ASSUME NEW S, NEW a \in S, NEW b \in S PROVE <<a, b>> \in Seq(S)
OBVIOUS
LEMMA SeqOf3 ==
  ASSUME NEW S, NEW a \in S, NEW b \in S, NEW c \in S
  PROVE  <<a, b, c>> \in Seq(S)
OBVIOUS
LEMMA SeqConcat ==
  ASSUME NEW S, NEW s \in Seq(S), NEW t \in Seq(S)
  PROVE  s \o t \in Seq(S)
OBVIOUS

(* Every effect the controller and the reducer name is an Effect.          *)
LEMMA PlainEffects ==
  /\ CommitWorkspace \in Effect /\ CancelLlm \in Effect /\ StartLlm \in Effect
  /\ StartLlmContinuation \in Effect /\ SignalBudgetExhausted \in Effect
  /\ DeliverResponse \in Effect /\ RecordTimeoutResults \in Effect
  /\ HandleThinking \in Effect /\ HandleResponding \in Effect
  /\ UserMessageReceived \in Effect
BY DEF Effect, CommitWorkspace, CancelLlm, StartLlm, StartLlmContinuation,
       SignalBudgetExhausted, DeliverResponse, RecordTimeoutResults,
       HandleThinking, HandleResponding, UserMessageReceived

LEMMA TimerEffects ==
  \A id \in TimerIds : ScheduleTimer(id) \in Effect /\ CancelTimer(id) \in Effect
BY DEF Effect, ScheduleTimer, CancelTimer

LEMMA ParameterEffects ==
  /\ \A e \in Events : TransitionState(e) \in Effect
  /\ \A n \in Nat : StartTurnTriggerClassification(n) \in Effect
  /\ \A calls \in SUBSET Tools :
       EmitToolCallFrames(calls) \in Effect /\ HandleActing(calls) \in Effect
  /\ \A ok \in BOOLEAN : RecordToolResult(ok) \in Effect
BY DEF Effect, TransitionState, StartTurnTriggerClassification,
       EmitToolCallFrames, HandleActing, RecordToolResult

LEMMA EffectTypes ==
  \A e \in Effect :
    /\ e.op \in {"ScheduleTimer", "CancelTimer"} => e.id \in TimerIds
    /\ e.op = "TransitionState" => e.event \in Events
    /\ e.op = "StartTurnTriggerClassification" => e.trigger \in Nat
    /\ e.op \in {"EmitToolCallFrames", "HandleActing"} => e.calls \in SUBSET Tools
    /\ e.op = "RecordToolResult" => e.ok \in BOOLEAN
BY DEF Effect

-----------------------------------------------------------------------------
(* Every handler of the reducer returns a state and effects.               *)

DecisionOK(d) == d.next \in DialogueState /\ d.effects \in Seq(Effect)

LEMMA DecisionFields ==
  \A s, effects : Decision(s, effects).next = s
                  /\ Decision(s, effects).effects = effects
BY DEF Decision

LEMMA InterruptType ==
  ASSUME NEW s \in DialogueState PROVE DecisionOK(HandleInterrupt(s))
<1> DEFINE t == [s EXCEPT !.cooldown = "Debouncing", !.deliberation = "Idle",
                          !.trigger = 0, !.pending = {}, !.results = {}]
           a == IF s.fragments # {} THEN <<CommitWorkspace>> ELSE <<>>
           b == <<CancelLlm, ScheduleTimer("debounce")>>
           c == IF s.deliberation = "AwaitingToolResults"
                THEN <<CancelTimer("tool_call_timeout")>> ELSE <<>>
<1>1. t \in DialogueState
  BY DEF DialogueState
<1>2. a \in Seq(Effect)
  BY SeqOf0, SeqOf1, PlainEffects
<1>3. b \in Seq(Effect)
  BY SeqOf2, PlainEffects, TimerEffects DEF TimerIds
<1>4. c \in Seq(Effect)
  BY SeqOf0, SeqOf1, TimerEffects DEF TimerIds
<1>5. b \o c \in Seq(Effect)
  BY <1>3, <1>4, SeqConcat
<1>6. (a \o b) \o c \in Seq(Effect)
  <2>1. a \o b \in Seq(Effect)
    BY <1>2, <1>3, SeqConcat
  <2> QED BY <2>1, <1>4, SeqConcat
<1>7. HandleInterrupt(s) = Decision(t, (a \o b) \o c)
  BY Zenon DEF HandleInterrupt
<1> HIDE DEF t, a, b, c
<1> QED BY <1>1, <1>6, <1>7, DecisionFields DEF DecisionOK

LEMMA DebounceType ==
  ASSUME NEW s \in DialogueState
  PROVE  DecisionOK(HandleDebounceCooldownExpired(s))
<1> DEFINE t == [s EXCEPT !.cooldown = "None"]
           e == <<CommitWorkspace, IF IsBudgetExhausted(s)
                                   THEN SignalBudgetExhausted
                                   ELSE StartLlmContinuation>>
<1>1. t \in DialogueState
  BY DEF DialogueState
<1>2. e \in Seq(Effect)
  BY SeqOf2, PlainEffects
<1>3. HandleDebounceCooldownExpired(s) = Decision(t, e)
  BY DEF HandleDebounceCooldownExpired
<1> HIDE DEF t, e
<1> QED BY <1>1, <1>2, <1>3, DecisionFields DEF DecisionOK

LEMMA NoOpType == ASSUME NEW s \in DialogueState PROVE DecisionOK(NoOp(s))
BY SeqOf0, DecisionFields DEF DecisionOK, NoOp

LEMMA UserMessageType ==
  ASSUME NEW s \in DialogueState, NEW msgs \in SUBSET Nat
  PROVE  DecisionOK(HandleUserMessage(s, msgs))
<1> DEFINE n == s.lastTrigger + 1
           b == [s EXCEPT !.fragments = @ \cup msgs]
           t == [s EXCEPT !.tokens = 0, !.actions = 0, !.continuations = 0,
                          !.fragments = @ \cup msgs,
                          !.lastTrigger = n, !.trigger = n,
                          !.deliberation = "AwaitingTurnTrigger"]
           e == <<CommitWorkspace, StartTurnTriggerClassification(n)>>
<1>1. b \in DialogueState
  BY DEF DialogueState
<1>2. n \in Nat
  BY DEF DialogueState
<1>3. t \in DialogueState
  BY <1>2 DEF DialogueState
<1>4. e \in Seq(Effect)
  BY <1>2, SeqOf2, PlainEffects, ParameterEffects
<1>5. DecisionOK(Decision(t, e))
  BY <1>3, <1>4, DecisionFields DEF DecisionOK
<1>6. DecisionOK(NoOp(b)) /\ DecisionOK(NoOp(s))
  BY <1>1, NoOpType
<1>7. HandleUserMessage(s, msgs) \in {NoOp(b), NoOp(s), Decision(t, e)}
  BY DEF HandleUserMessage
<1> HIDE DEF b, t, e
<1> QED BY <1>5, <1>6, <1>7

LEMMA ClassifiedType ==
  ASSUME NEW s \in DialogueState, NEW n \in Nat
  PROVE  DecisionOK(HandleTurnTriggerClassified(s, n))
<1> DEFINE t == [s EXCEPT !.trigger = 0, !.deliberation = "Thinking"]
<1>1. t \in DialogueState
  BY DEF DialogueState
<1>2. <<StartLlm>> \in Seq(Effect)
  BY SeqOf1, PlainEffects
<1>3. DecisionOK(Decision(t, <<StartLlm>>)) /\ DecisionOK(NoOp(s))
  BY <1>1, <1>2, NoOpType, DecisionFields DEF DecisionOK
<1> QED BY <1>3 DEF HandleTurnTriggerClassified

LEMMA LlmCompletedType ==
  ASSUME NEW s \in DialogueState, NEW calls \in SUBSET Tools,
         NEW type \in {"ToolCall", "Response", "Continue"}
  PROVE  DecisionOK(HandleLlmCompleted(s, type, calls))
<1>0. s.tokens + 1 \in Nat
  BY DEF DialogueState
<1>1. PICK t \in DialogueState : t = CountCompletion(s)
  <2>1. CountCompletion(s) \in DialogueState
    BY <1>0 DEF DialogueState, CountCompletion
  <2> QED BY <2>1
<1>2. DecisionOK(AwaitToolResults(t, calls))
  <2> DEFINE u == [t EXCEPT !.deliberation = "AwaitingToolResults",
                            !.pending = calls, !.results = {}]
             e == <<EmitToolCallFrames(calls), ScheduleTimer("tool_call_timeout")>>
  <2>1. u \in DialogueState
    BY DEF DialogueState
  <2>2. e \in Seq(Effect)
    BY SeqOf2, ParameterEffects, TimerEffects DEF TimerIds
  <2>3. AwaitToolResults(t, calls) = Decision(u, e)
    BY DEF AwaitToolResults
  <2> HIDE DEF u, e
  <2> QED BY <2>1, <2>2, <2>3, DecisionFields DEF DecisionOK
<1>3. DecisionOK(DeliverAnswer(t))
  <2>1. [t EXCEPT !.deliberation = "Idle"] \in DialogueState
    BY DEF DialogueState
  <2>2. <<DeliverResponse>> \in Seq(Effect)
    BY SeqOf1, PlainEffects
  <2> QED BY <2>1, <2>2, DecisionFields DEF DecisionOK, DeliverAnswer
<1>4. DecisionOK(ContinueThinking(t))
  <2> DEFINE u == [t EXCEPT !.continuations = @ + 1, !.deliberation = "Idle"]
             v == [t EXCEPT !.continuations = @ + 1, !.deliberation = "Thinking"]
  <2>0. t.continuations + 1 \in Nat
    BY DEF DialogueState
  <2>1. u \in DialogueState
    BY <2>0 DEF DialogueState
  <2>2. v \in DialogueState
    BY <2>0 DEF DialogueState
  <2>3. <<SignalBudgetExhausted>> \in Seq(Effect) /\ <<StartLlm>> \in Seq(Effect)
    BY SeqOf1, PlainEffects
  <2>4. \/ ContinueThinking(t) = Decision(u, <<SignalBudgetExhausted>>)
        \/ ContinueThinking(t) = Decision(v, <<StartLlm>>)
    BY DEF ContinueThinking
  <2> HIDE DEF u, v
  <2>5. /\ DecisionOK(Decision(u, <<SignalBudgetExhausted>>))
        /\ DecisionOK(Decision(v, <<StartLlm>>))
    BY <2>1, <2>2, <2>3, DecisionFields DEF DecisionOK
  <2> QED BY <2>4, <2>5
<1> QED BY <1>1, <1>2, <1>3, <1>4 DEF HandleLlmCompleted

LEMMA LlmFailedType ==
  ASSUME NEW s \in DialogueState PROVE DecisionOK(HandleLlmFailed(s))
<1>1. [s EXCEPT !.deliberation = "Idle"] \in DialogueState
  BY DEF DialogueState
<1>2. <<TransitionState("LlmFailure")>> \in Seq(Effect)
  BY SeqOf1, ParameterEffects DEF Events
<1> QED BY <1>1, <1>2, DecisionFields DEF DecisionOK, HandleLlmFailed

LEMMA ToolResultType ==
  ASSUME NEW s \in DialogueState, NEW id \in Tools, NEW ok \in BOOLEAN
  PROVE  DecisionOK(HandleToolResult(s, id, ok))
<1> DEFINE t == [s EXCEPT !.deliberation = "Thinking", !.pending = {}, !.results = {}]
           u == [s EXCEPT !.results = @ \cup {id}]
           e == <<RecordToolResult(ok), CancelTimer("tool_call_timeout"), StartLlm>>
<1>1. t \in DialogueState /\ u \in DialogueState
  BY DEF DialogueState
<1>2. e \in Seq(Effect) /\ <<RecordToolResult(ok)>> \in Seq(Effect)
  BY SeqOf1, SeqOf3, PlainEffects, ParameterEffects, TimerEffects DEF TimerIds
<1>3. \/ HandleToolResult(s, id, ok) = Decision(t, e)
      \/ HandleToolResult(s, id, ok) = Decision(u, <<RecordToolResult(ok)>>)
  BY DEF HandleToolResult
<1> HIDE DEF t, u, e
<1>4. /\ DecisionOK(Decision(t, e))
      /\ DecisionOK(Decision(u, <<RecordToolResult(ok)>>))
  BY <1>1, <1>2, DecisionFields DEF DecisionOK
<1> QED BY <1>3, <1>4

LEMMA ToolCallTimeoutType ==
  ASSUME NEW s \in DialogueState PROVE DecisionOK(HandleToolCallTimeout(s))
<1>1. [s EXCEPT !.deliberation = "Thinking", !.pending = {}, !.results = {}]
        \in DialogueState
  BY DEF DialogueState
<1>2. <<RecordTimeoutResults, StartLlm>> \in Seq(Effect)
  BY SeqOf2, PlainEffects
<1> QED BY <1>1, <1>2, DecisionFields DEF DecisionOK, HandleToolCallTimeout

LEMMA SystemEventType ==
  ASSUME NEW s \in DialogueState PROVE DecisionOK(HandleSystemEvent(s))
<1>1. [s EXCEPT !.deliberation = "Thinking"] \in DialogueState
  BY DEF DialogueState
<1>2. <<StartLlm>> \in Seq(Effect)
  BY SeqOf1, PlainEffects
<1>3. DecisionOK(Decision([s EXCEPT !.deliberation = "Thinking"], <<StartLlm>>))
  BY <1>1, <1>2, DecisionFields DEF DecisionOK
<1> QED BY <1>3, NoOpType DEF HandleSystemEvent

LEMMA ResetType ==
  ASSUME NEW s \in DialogueState PROVE ResetBudgetWindow(s) \in DialogueState
BY DEF ResetBudgetWindow, DialogueState

LEMMA CountType ==
  ASSUME NEW s \in DialogueState, NEW calls \in SUBSET Tools
  PROVE  CountActions(s, calls) \in DialogueState
<1>1. Cardinality(calls) \in Nat
  BY BudgetAssumption, FS_Subset, FS_CardinalityType DEF BudgetAssumption
<1> QED BY <1>1 DEF CountActions, DialogueState

LEMMA InitialType == InitialDialogue \in DialogueState
BY DEF InitialDialogue, DialogueState

-----------------------------------------------------------------------------
(* Every expansion of an effect is made of effects.                        *)
LEMMA ExpansionType ==
  ASSUME NEW e \in Effect,
         e.op \in {"StartLlm", "StartLlmContinuation", "DeliverResponse",
                   "SignalBudgetExhausted", "RecordTimeoutResults"}
  PROVE  Expansion(e) \in Seq(Effect)
<1>0. \A ev \in {"UserObservation", "ActionComplete", "ActionFailed", "LlmResult",
                 "RouteToContinue", "RouteToResponse", "StopConditionMet"} :
        TransitionState(ev) \in Effect
  BY ParameterEffects DEF Events
<1>1. CASE e.op = "StartLlm"
  <2> DEFINE ev == IF toolOk THEN "ActionComplete" ELSE "ActionFailed"
  <2>1. <<TransitionState("UserObservation")>> \in Seq(Effect)
    BY <1>0, SeqOf1
  <2>2. <<TransitionState(ev)>> \in Seq(Effect)
    BY <1>0, SeqOf1
  <2>3. <<TransitionState("LlmResult"), TransitionState("RouteToContinue")>>
          \in Seq(Effect)
    BY <1>0, SeqOf2
  <2>4. EnterThinking \in Seq(Effect)
    BY <2>1, <2>2, <2>3, SeqOf0 DEF EnterThinking
  <2>5. <<HandleThinking>> \in Seq(Effect)
    BY PlainEffects, SeqOf1
  <2>6. EnterThinking \o <<HandleThinking>> \in Seq(Effect)
    BY <2>4, <2>5, SeqConcat
  <2> QED BY <2>6, <1>1 DEF Expansion
<1>2. CASE e.op = "StartLlmContinuation"
  <2>1. <<TransitionState("UserObservation"), HandleThinking>> \in Seq(Effect)
    BY <1>0, PlainEffects, SeqOf2
  <2> QED BY <2>1, <1>2 DEF Expansion
<1>3. CASE e.op = "DeliverResponse"
  <2>1. <<TransitionState("LlmResult"), TransitionState("RouteToResponse"),
          HandleResponding>> \in Seq(Effect)
    BY <1>0, PlainEffects, SeqOf3
  <2>2. <<HandleResponding>> \in Seq(Effect)
    BY PlainEffects, SeqOf1
  <2> QED BY <2>1, <2>2, <1>3 DEF Expansion
<1>4. CASE e.op = "SignalBudgetExhausted"
  <2>1. <<TransitionState("StopConditionMet")>> \in Seq(Effect)
    BY <1>0, SeqOf1
  <2> QED BY <2>1, <1>4 DEF Expansion
<1>5. CASE e.op = "RecordTimeoutResults"
  <2>1. <<TransitionState("ActionFailed")>> \in Seq(Effect)
    BY <1>0, SeqOf1
  <2> QED BY <2>1, SeqOf0, <1>5 DEF Expansion
<1> QED BY <1>1, <1>2, <1>3, <1>4, <1>5

-----------------------------------------------------------------------------
(* Type correctness: every step keeps the types.                           *)

LEMMA HeadType ==
  ASSUME TypeOK, agenda # <<>>
  PROVE  Head(agenda) \in Effect /\ Rest \in Seq(Effect)
<1>1. agenda \in Seq(Effect)
  BY DEF TypeOK
<1> QED BY <1>1 DEF Rest

LEMMA QueueType ==
  ASSUME TypeOK, queue # <<>>
  PROVE  Head(queue) \in Observation /\ Tail(queue) \in Seq(Observation)
<1>1. queue \in Seq(Observation)
  BY DEF TypeOK
<1> QED BY <1>1

LEMMA ObservationTypes ==
  /\ \A o \in Observation :
       /\ o.type = "UserMessage" => o.msg \in Nat
       /\ o.type = "ToolResult" => o.id \in Tools /\ o.ok \in BOOLEAN
  /\ \A m \in Nat : [type |-> "UserMessage", msg |-> m] \in Observation
  /\ \A id \in Tools, ok \in BOOLEAN :
       [type |-> "ToolResult", id |-> id, ok |-> ok] \in Observation
  /\ [type |-> "SystemEvent"] \in Observation
  /\ [type |-> "Interruption"] \in Observation
BY DEF Observation

LEMMA ApplyType ==
  ASSUME NEW d, DecisionOK(d), NEW rest \in Seq(Effect), Apply(d, rest)
  PROVE  ds' \in DialogueState /\ agenda' \in Seq(Effect)
BY SeqConcat DEF Apply, DecisionOK

LEMMA TransitionEffects ==
  \A ev \in Events : TransitionState(ev) \in Effect
                     /\ <<TransitionState(ev)>> \in Seq(Effect)
BY ParameterEffects, SeqOf1

LEMMA EffectStepType == ASSUME TypeOK, EffectStep PROVE TypeOK'
<1> USE DEF loopVars, timeVars, textVars, envVars
<1>1. agenda # <<>>
  BY DEF EffectStep, Doing, DoTransition, DoCommitWorkspace, DoCancelLlm, DoExpand,
         DoClassify, DoTimer, DoEmitToolCallFrames, DoActing, DoRecordToolResult,
         DoResponding, DoUserMessage, DoThinking
<1>2. Head(agenda) \in Effect /\ Rest \in Seq(Effect)
  BY <1>1, HeadType
<1>3. \A ev \in Events : <<TransitionState(ev)>> \o Rest \in Seq(Effect)
  BY <1>2, TransitionEffects, SeqConcat
<1>4. CASE DoTransition
  <2>1. fsm' \in States
    BY <1>2, <1>4, AfterType, EffectTypes DEF TypeOK, DoTransition, Doing
  <2>2. queue' \in Seq(Observation)
    BY <1>4 DEF TypeOK, DoTransition
  <2> QED BY <1>2, <1>4, <2>1, <2>2 DEF TypeOK, DoTransition
<1>5. CASE DoCommitWorkspace
  <2>1. ds' \in DialogueState /\ ds.fragments \subseteq Nat
    BY <1>5 DEF TypeOK, DoCommitWorkspace, DialogueState
  <2> QED BY <1>2, <1>5, <2>1 DEF TypeOK, DoCommitWorkspace
<1>6. CASE DoCancelLlm
  <2>1. agenda' \in Seq(Effect)
    BY <1>3, <1>6 DEF DoCancelLlm, Events
  <2> QED BY <1>6, <2>1 DEF TypeOK, DoCancelLlm
<1>7. CASE DoExpand
  <2>1. agenda' \in Seq(Effect)
    BY <1>2, <1>7, ExpansionType, SeqConcat DEF DoExpand
  <2> QED BY <1>7, <2>1 DEF TypeOK, DoExpand
<1>8. CASE DoClassify
  <2>1. DecisionOK(HandleTurnTriggerClassified(ds, Head(agenda).trigger))
    BY <1>2, <1>8, ClassifiedType, EffectTypes DEF TypeOK, DoClassify, Doing
  <2>2. ds' \in DialogueState /\ agenda' \in Seq(Effect)
    BY <1>2, <1>8, <2>1, ApplyType DEF DoClassify
  <2> QED BY <1>8, <2>2 DEF TypeOK, DoClassify
<1>9. CASE DoTimer
  <2>1. Head(agenda).id \in TimerIds
    BY <1>2, <1>9, EffectTypes DEF DoTimer, Doing
  <2>2. Duration[Head(agenda).id] \in Int /\ Off \in Int
    BY <2>1, ControllerAssumption DEF ControllerAssumption, Off
  <2>3. due' \in [TimerIds -> Int]
    BY <1>9, <2>2 DEF TypeOK, DoTimer
  <2> QED BY <1>2, <1>9, <2>3 DEF TypeOK, DoTimer
<1>10. CASE DoEmitToolCallFrames
  <2>1. Head(agenda).calls \in SUBSET Tools
    BY <1>2, <1>10, EffectTypes DEF DoEmitToolCallFrames, Doing
  <2>2. /\ <<TransitionState("LlmResult"), TransitionState("RouteToAction"),
             HandleActing(Head(agenda).calls)>> \in Seq(Effect)
        /\ <<TransitionState("LlmResult"), TransitionState("RouteToContinue"),
             HandleThinking>> \in Seq(Effect)
    BY <2>1, SeqOf3, PlainEffects, ParameterEffects DEF Events
  <2>3. agenda' \in Seq(Effect)
    BY <1>2, <1>10, <2>2, SeqConcat DEF DoEmitToolCallFrames
  <2>4. toolOk' \in BOOLEAN
    BY <1>10 DEF TypeOK, DoEmitToolCallFrames
  <2> QED BY <1>10, <2>3, <2>4 DEF TypeOK, DoEmitToolCallFrames
<1>11. CASE DoActing
  <2>1. Head(agenda).calls \in SUBSET Tools
    BY <1>2, <1>11, EffectTypes DEF DoActing, Doing
  <2>2. ds' \in DialogueState
    BY <1>11, <2>1, CountType DEF TypeOK, DoActing
  <2> QED BY <1>2, <1>11, <2>1, <2>2 DEF TypeOK, DoActing
<1>12. CASE DoRecordToolResult
  <2>1. toolOk' \in BOOLEAN
    BY <1>12 DEF TypeOK, DoRecordToolResult
  <2> QED BY <1>2, <1>12, <2>1 DEF TypeOK, DoRecordToolResult
<1>13. CASE DoResponding
  <2>1. agenda' \in Seq(Effect)
    BY <1>3, <1>13 DEF DoResponding, Events
  <2> QED BY <1>13, <2>1 DEF TypeOK, DoResponding
<1>14. CASE DoUserMessage
  <2>1. DecisionOK(HandleUserMessage(ds, {bargeIn}))
    BY UserMessageType DEF TypeOK
  <2>2. ds' \in DialogueState /\ agenda' \in Seq(Effect)
    BY <1>2, <1>14, <2>1, ApplyType DEF DoUserMessage
  <2> QED BY <1>14, <2>2 DEF TypeOK, DoUserMessage
<1>15. CASE DoThinking
  <2>1. /\ <<TransitionState("StopConditionMet")>> \o Rest \in Seq(Effect)
        /\ <<TransitionState("LlmFailure")>> \o Rest \in Seq(Effect)
    BY <1>3 DEF Events
  <2>2. agenda' \in Seq(Effect)
    BY <1>2, <1>15, <2>1 DEF DoThinking
  <2>3. call' \in Nat
    BY <1>15 DEF TypeOK, DoThinking
  <2> QED BY <1>15, <2>2, <2>3 DEF TypeOK, DoThinking
<1> QED
  BY <1>4, <1>5, <1>6, <1>7, <1>8, <1>9, <1>10, <1>11, <1>12, <1>13, <1>14, <1>15
  DEF EffectStep

LEMMA LlmStepType == ASSUME TypeOK, LlmStep PROVE TypeOK'
<1> USE DEF loopVars, timeVars, textVars, envVars
<1>1. agenda \in Seq(Effect) /\ ds \in DialogueState
  BY DEF TypeOK
<1>2. CASE LlmAbandoned
  BY <1>2 DEF TypeOK, LlmAbandoned
<1>3. ASSUME NEW type \in {"ToolCall", "Response", "Continue"},
             NEW calls \in SUBSET Tools, LlmReturns(type, calls)
      PROVE  TypeOK'
  <2>1. ds' \in DialogueState /\ agenda' \in Seq(Effect)
    BY <1>1, <1>3, LlmCompletedType, ApplyType DEF LlmReturns
  <2> QED BY <1>3, <2>1 DEF TypeOK, LlmReturns
<1>4. CASE LlmThrows
  <2>1. ds' \in DialogueState /\ agenda' \in Seq(Effect)
    BY <1>1, <1>4, LlmFailedType, ApplyType DEF LlmThrows
  <2>2. call' \in Nat
    BY <1>4 DEF TypeOK, LlmThrows
  <2> QED BY <1>4, <2>1, <2>2 DEF TypeOK, LlmThrows
<1>5. fresh \subseteq Tools
  BY DEF TypeOK
<1> QED BY <1>2, <1>3, <1>4, <1>5 DEF LlmStep

LEMMA LoopStepType == ASSUME TypeOK, LoopStep PROVE TypeOK'
<1> USE DEF loopVars, timeVars, textVars, envVars
<1>1. agenda \in Seq(Effect) /\ ds \in DialogueState /\ agg \subseteq Nat
  BY DEF TypeOK
<1>2. Off \in Int /\ \A id \in TimerIds : Duration[id] \in Int
  BY ControllerAssumption DEF ControllerAssumption, Off
<1>3. CASE Wake
  <2>1. due' \in [TimerIds -> Int] /\ batch' \in [TimerIds -> Int]
    BY <1>2, <1>3 DEF TypeOK, Wake
  <2> QED BY <1>3, <2>1 DEF TypeOK, Wake
<1>4. CASE LoopBreak
  BY <1>4 DEF TypeOK, LoopBreak
<1>5. CASE ExpireNext
  <2>1. batch' \in [TimerIds -> Int]
    BY <1>2, <1>5 DEF TypeOK, ExpireNext
  <2>2. /\ DecisionOK(HandleUserMessage(ds, agg))
        /\ DecisionOK(HandleDebounceCooldownExpired(ds))
        /\ DecisionOK(HandleToolCallTimeout(ds))
    BY <1>1, UserMessageType, DebounceType, ToolCallTimeoutType
  <2>3. ds' \in DialogueState /\ agenda' \in Seq(Effect)
    BY <1>1, <1>5, <2>2, ApplyType DEF ExpireNext, ExpireAggregation
  <2>4. agg' \subseteq Nat
    BY <1>1, <1>5 DEF ExpireNext, ExpireAggregation
  <2> QED BY <1>5, <2>1, <2>3, <2>4 DEF TypeOK, ExpireNext
<1>6. CASE EndIteration
  BY <1>6 DEF TypeOK, EndIteration
<1>7. ASSUME NEW type, Dequeue(type)
      PROVE  /\ queue' \in Seq(Observation) /\ pc' = "observation"
             /\ Head(queue) \in Observation /\ Head(queue).type = type
  BY <1>7, QueueType DEF Dequeue
<1>8. CASE HandleInterruption
  <2>1. ds' \in DialogueState /\ agenda' \in Seq(Effect)
    BY <1>1, <1>8, InterruptType, ApplyType DEF HandleInterruption
  <2> QED BY <1>7, <1>8, <2>1 DEF TypeOK, HandleInterruption
<1>9. CASE BargeIn
  <2>1. bargeIn' \in Nat
    BY <1>7, <1>9, ObservationTypes DEF BargeIn
  <2>2. <<UserMessageReceived, CommitWorkspace>> \in Seq(Effect)
    BY SeqOf2, PlainEffects
  <2>3. ds' \in DialogueState /\ agenda' \in Seq(Effect)
    BY <1>1, <1>9, <2>2, InterruptType, SeqConcat DEF BargeIn, DecisionOK
  <2> QED BY <1>7, <1>9, <2>1, <2>3 DEF TypeOK, BargeIn
<1>10. CASE HandleActingResult
  <2>1. DecisionOK(HandleToolResult(ds, Head(queue).id, Head(queue).ok))
    BY <1>1, <1>7, <1>10, ObservationTypes, ToolResultType DEF HandleActingResult
  <2>2. ds' \in DialogueState /\ agenda' \in Seq(Effect)
    BY <1>1, <1>10, <2>1, ApplyType DEF HandleActingResult
  <2> QED BY <1>7, <1>10, <2>2 DEF TypeOK, HandleActingResult
<1>11. CASE FeedUserMessage
  <2> DEFINE s == IF fsm = "Idle" THEN ResetBudgetWindow(ds) ELSE ds
             msgs == (IF fsm = "Idle" THEN {} ELSE agg) \cup {Head(queue).msg}
  <2>1. s \in DialogueState
    BY <1>1, ResetType
  <2>2. msgs \in SUBSET Nat
    BY <1>1, <1>7, <1>11, ObservationTypes DEF FeedUserMessage, Fed
  <2>3. agg' \subseteq Nat /\ due' \in [TimerIds -> Int]
    BY <1>2, <1>11, <2>2 DEF TypeOK, FeedUserMessage, Fed, TimerIds
  <2>4. /\ ds' \in DialogueState /\ agenda' \in Seq(Effect)
    BY <1>1, <1>11, <2>1, <2>2, UserMessageType, ApplyType DEF FeedUserMessage, Fed
  <2>5. fsm' \in States /\ irq' \in BOOLEAN
    BY <1>11 DEF TypeOK, FeedUserMessage, Fed, States
  <2> QED BY <1>7, <1>11, <2>3, <2>4, <2>5 DEF TypeOK, FeedUserMessage, Fed
<1>12. CASE FeedSystemEvent
  <2>1. ds' \in DialogueState /\ agenda' \in Seq(Effect)
    BY <1>1, <1>12, ResetType, SystemEventType, ApplyType DEF FeedSystemEvent
  <2>2. fsm' \in States /\ irq' \in BOOLEAN /\ agg' \subseteq Nat
    BY <1>1, <1>12 DEF TypeOK, FeedSystemEvent, States
  <2> QED BY <1>7, <1>12, <2>1, <2>2 DEF TypeOK, FeedSystemEvent
<1>13. CASE IgnoreObservation
  BY <1>7, <1>13 DEF TypeOK, IgnoreObservation
<1> QED
  BY <1>3, <1>4, <1>5, <1>6, <1>8, <1>9, <1>10, <1>11, <1>12, <1>13 DEF LoopStep

LEMMA EnvironmentStepType == ASSUME TypeOK, EnvironmentStep PROVE TypeOK'
<1> USE DEF loopVars, timeVars, textVars, envVars
<1>1. \A o \in Observation : Append(queue, o) \in Seq(Observation)
  <2>1. queue \in Seq(Observation)
    BY DEF TypeOK
  <2> QED BY <2>1
<1>2. CASE SendUser
  <2>1. sent' \in Nat
    BY <1>2 DEF TypeOK, SendUser
  <2>2. queue' \in Seq(Observation)
    BY <1>1, <1>2, <2>1, ObservationTypes DEF SendUser, Enqueue
  <2> QED BY <1>2, <2>1, <2>2 DEF TypeOK, SendUser
<1>3. CASE SendSystemEvent
  <2>1. queue' \in Seq(Observation)
    BY <1>1, <1>3, ObservationTypes DEF SendSystemEvent, Enqueue
  <2> QED BY <1>3, <2>1 DEF TypeOK, SendSystemEvent
<1>4. CASE ToolAnswers
  <2>1. queue' \in Seq(Observation)
    BY <1>1, <1>4, ObservationTypes DEF TypeOK, ToolAnswers, Enqueue
  <2> QED BY <1>4, <2>1 DEF TypeOK, ToolAnswers
<1>5. ASSUME NEW c \in Callers, InterruptCheck(c) PROVE TypeOK'
  BY <1>5 DEF TypeOK, InterruptCheck
<1>6. ASSUME NEW c \in Callers, InterruptFlag(c) PROVE TypeOK'
  BY <1>6 DEF TypeOK, InterruptFlag
<1>7. ASSUME NEW c \in Callers, InterruptEnqueue(c) PROVE TypeOK'
  <2>1. queue' \in Seq(Observation)
    BY <1>1, <1>7, ObservationTypes DEF InterruptEnqueue, Enqueue
  <2> QED BY <1>7, <2>1 DEF TypeOK, InterruptEnqueue
<1>8. CASE RequestShutdown
  BY <1>8 DEF TypeOK, RequestShutdown
<1> QED
  BY <1>2, <1>3, <1>4, <1>5, <1>6, <1>7, <1>8
  DEF EnvironmentStep, FinishInterrupt

LEMMA TypeStep == TypeOK /\ [Next]_vars => TypeOK'
<1> SUFFICES ASSUME TypeOK, [Next]_vars PROVE TypeOK'
  OBVIOUS
<1> USE DEF loopVars, timeVars, textVars, envVars
<1>1. CASE Start
  BY <1>1, AfterType DEF TypeOK, Start, States, Events
<1>2. CASE Terminate
  BY <1>2, AfterType DEF TypeOK, Terminate, Events
<1>3. CASE Tick
  <2>1. due' \in [TimerIds -> Int]
    BY <1>3, ControllerAssumption DEF TypeOK, Tick, Off, ControllerAssumption
  <2> QED BY <1>3, <2>1 DEF TypeOK, Tick
<1>4. CASE UNCHANGED vars
  BY <1>4 DEF TypeOK, vars
<1> QED
  BY <1>1, <1>2, <1>3, <1>4, EffectStepType, LlmStepType, LoopStepType,
     EnvironmentStepType DEF Next

(* Every variable of the loop keeps its type, whatever the reducer decides *)
(* and the other threads do.                                               *)
THEOREM TypeCorrect == Spec => []TypeOK
<1>1. Init => TypeOK
  <2> SUFFICES ASSUME Init PROVE TypeOK
    OBVIOUS
  <2>1. Off \in Int
    BY ControllerAssumption DEF ControllerAssumption, Off
  <2>2. due \in [TimerIds -> Int] /\ batch \in [TimerIds -> Int]
    BY <2>1 DEF Init, NoTimers
  <2>3. agenda \in Seq(Effect) /\ queue \in Seq(Observation)
    BY SeqOf0 DEF Init
  <2> QED BY <2>2, <2>3, InitialType DEF Init, TypeOK, States
<1> QED BY <1>1, TypeStep, PTL DEF Spec

-----------------------------------------------------------------------------
(* The token budget.  A completion is counted only when an LLM call ends,  *)
(* and a call under way was started within the budget, which no other step *)
(* spends meanwhile.                                                       *)

CallWithinBudget == call # 0 => ~IsBudgetExhausted(ds)
BudgetInv == BudgetHolds /\ CallWithinBudget

(* What a decision leaves of the tokens and the cooldown.                  *)
Leaves(d, tokens, cooldown) == d.next.tokens = tokens /\ d.next.cooldown = cooldown

LEMMA DecisionLeaves ==
  ASSUME NEW t, NEW effects PROVE Leaves(Decision(t, effects), t.tokens, t.cooldown)
BY DecisionFields DEF Leaves

LEMMA InterruptLeaves ==
  ASSUME NEW s \in DialogueState
  PROVE  Leaves(HandleInterrupt(s), s.tokens, "Debouncing")
<1> DEFINE t == [s EXCEPT !.cooldown = "Debouncing", !.deliberation = "Idle",
                          !.trigger = 0, !.pending = {}, !.results = {}]
<1>1. t.tokens = s.tokens /\ t.cooldown = "Debouncing"
  BY DEF DialogueState
<1>2. \E effects : HandleInterrupt(s) = Decision(t, effects)
  BY Zenon DEF HandleInterrupt
<1> HIDE DEF t
<1> QED BY <1>1, <1>2, DecisionLeaves

LEMMA DebounceLeaves ==
  ASSUME NEW s \in DialogueState
  PROVE  Leaves(HandleDebounceCooldownExpired(s), s.tokens, "None")
<1> DEFINE t == [s EXCEPT !.cooldown = "None"]
<1>1. t.tokens = s.tokens /\ t.cooldown = "None"
  BY DEF DialogueState
<1>2. \E effects : HandleDebounceCooldownExpired(s) = Decision(t, effects)
  BY Zenon DEF HandleDebounceCooldownExpired
<1> HIDE DEF t
<1> QED BY <1>1, <1>2, DecisionLeaves

LEMMA UserMessageLeaves ==
  ASSUME NEW s \in DialogueState, NEW msgs
  PROVE  \/ Leaves(HandleUserMessage(s, msgs), s.tokens, s.cooldown)
         \/ Leaves(HandleUserMessage(s, msgs), 0, s.cooldown)
<1> DEFINE n == s.lastTrigger + 1
           b == [s EXCEPT !.fragments = @ \cup msgs]
           t == [s EXCEPT !.tokens = 0, !.actions = 0, !.continuations = 0,
                          !.fragments = @ \cup msgs,
                          !.lastTrigger = n, !.trigger = n,
                          !.deliberation = "AwaitingTurnTrigger"]
           e == <<CommitWorkspace, StartTurnTriggerClassification(n)>>
<1>1. b.tokens = s.tokens /\ b.cooldown = s.cooldown
  BY DEF DialogueState
<1>2. t.tokens = 0 /\ t.cooldown = s.cooldown
  BY DEF DialogueState
<1>3. \/ HandleUserMessage(s, msgs) = Decision(b, <<>>)
      \/ HandleUserMessage(s, msgs) = Decision(s, <<>>)
      \/ HandleUserMessage(s, msgs) = Decision(t, e)
  BY DEF HandleUserMessage, NoOp
<1> HIDE DEF b, t, e
<1> QED BY <1>1, <1>2, <1>3, DecisionLeaves

LEMMA OtherLeaves ==
  ASSUME NEW s \in DialogueState
  PROVE  /\ \A n : Leaves(HandleTurnTriggerClassified(s, n), s.tokens, s.cooldown)
         /\ Leaves(HandleLlmFailed(s), s.tokens, s.cooldown)
         /\ \A id, ok : Leaves(HandleToolResult(s, id, ok), s.tokens, s.cooldown)
         /\ Leaves(HandleToolCallTimeout(s), s.tokens, s.cooldown)
         /\ Leaves(HandleSystemEvent(s), s.tokens, s.cooldown)
<1> DEFINE classified == [s EXCEPT !.trigger = 0, !.deliberation = "Thinking"]
           failed == [s EXCEPT !.deliberation = "Idle"]
           complete == [s EXCEPT !.deliberation = "Thinking",
                                 !.pending = {}, !.results = {}]
           partial(id) == [s EXCEPT !.results = @ \cup {id}]
           thinking == [s EXCEPT !.deliberation = "Thinking"]
           Same(t) == t.tokens = s.tokens /\ t.cooldown = s.cooldown
<1>1. Same(classified) /\ Same(failed) /\ Same(complete) /\ Same(thinking)
  BY DEF DialogueState
<1>2. \A id : Same(partial(id))
  BY DEF DialogueState
<1>3. \A t, e : Same(t) => Leaves(Decision(t, e), s.tokens, s.cooldown)
  BY DecisionLeaves
<1>4. \A n : \/ HandleTurnTriggerClassified(s, n) = Decision(s, <<>>)
             \/ HandleTurnTriggerClassified(s, n) = Decision(classified, <<StartLlm>>)
  BY Zenon DEF HandleTurnTriggerClassified, NoOp
<1>5. \E e : HandleLlmFailed(s) = Decision(failed, e)
  BY Zenon DEF HandleLlmFailed
<1>6. \A id, ok : \E e : \/ HandleToolResult(s, id, ok) = Decision(complete, e)
                         \/ HandleToolResult(s, id, ok) = Decision(partial(id), e)
  BY Zenon DEF HandleToolResult
<1>7. \E e : HandleToolCallTimeout(s) = Decision(complete, e)
  BY Zenon DEF HandleToolCallTimeout
<1>8. \/ HandleSystemEvent(s) = Decision(s, <<>>)
      \/ HandleSystemEvent(s) = Decision(thinking, <<StartLlm>>)
  BY Zenon DEF HandleSystemEvent, NoOp
<1>9. Same(s)
  OBVIOUS
<1> HIDE DEF classified, failed, complete, partial, thinking, Same
<1> QED BY <1>1, <1>2, <1>3, <1>4, <1>5, <1>6, <1>7, <1>8, <1>9

LEMMA LlmCompletedLeaves ==
  ASSUME NEW s \in DialogueState, NEW calls,
         NEW type \in {"ToolCall", "Response", "Continue"}
  PROVE  Leaves(HandleLlmCompleted(s, type, calls), s.tokens + 1, s.cooldown)
<1>0. s.tokens + 1 \in Nat
  BY DEF DialogueState
<1>1. CountCompletion(s) \in DialogueState
  BY <1>0 DEF DialogueState, CountCompletion
<1>2. /\ CountCompletion(s).tokens = s.tokens + 1
      /\ CountCompletion(s).cooldown = s.cooldown
  BY DEF DialogueState, CountCompletion
<1>3. PICK t \in DialogueState : /\ t = CountCompletion(s)
                                 /\ t.tokens = s.tokens + 1
                                 /\ t.cooldown = s.cooldown
  BY <1>1, <1>2
<1> DEFINE waiting == [t EXCEPT !.deliberation = "AwaitingToolResults",
                                !.pending = calls, !.results = {}]
           idle == [t EXCEPT !.deliberation = "Idle"]
           stopped == [t EXCEPT !.continuations = @ + 1, !.deliberation = "Idle"]
           again == [t EXCEPT !.continuations = @ + 1, !.deliberation = "Thinking"]
           Same(u) == u.tokens = t.tokens /\ u.cooldown = t.cooldown
<1>4. Same(waiting) /\ Same(idle) /\ Same(stopped) /\ Same(again)
  BY DEF DialogueState
<1>5. \E e : AwaitToolResults(t, calls) = Decision(waiting, e)
  BY Zenon DEF AwaitToolResults
<1>6. \E e : DeliverAnswer(t) = Decision(idle, e)
  BY Zenon DEF DeliverAnswer
<1>7. \E e : ContinueThinking(t) = Decision(stopped, e)
             \/ ContinueThinking(t) = Decision(again, e)
  BY Zenon DEF ContinueThinking
<1>8. \A u, e : Same(u) => Leaves(Decision(u, e), t.tokens, t.cooldown)
  BY DecisionLeaves
<1>9. \/ HandleLlmCompleted(s, type, calls) = AwaitToolResults(t, calls)
      \/ HandleLlmCompleted(s, type, calls) = DeliverAnswer(t)
      \/ HandleLlmCompleted(s, type, calls) = ContinueThinking(t)
  BY <1>3 DEF HandleLlmCompleted
<1> HIDE DEF waiting, idle, stopped, again, Same
<1> QED BY <1>3, <1>4, <1>5, <1>6, <1>7, <1>8, <1>9

LEMMA StateLeaves ==
  ASSUME NEW s \in DialogueState
  PROVE  /\ \A calls : /\ CountActions(s, calls).tokens = s.tokens
                       /\ CountActions(s, calls).cooldown = s.cooldown
         /\ ResetBudgetWindow(s).tokens = 0
         /\ ResetBudgetWindow(s).cooldown = s.cooldown
BY DEF DialogueState, CountActions, ResetBudgetWindow

LEMMA TokensKept ==
  ASSUME NEW s \in DialogueState
  PROVE  /\ HandleInterrupt(s).next.tokens = s.tokens
         /\ HandleDebounceCooldownExpired(s).next.tokens = s.tokens
         /\ \A msgs : HandleUserMessage(s, msgs).next.tokens \in {0, s.tokens}
         /\ \A n : HandleTurnTriggerClassified(s, n).next.tokens = s.tokens
         /\ HandleLlmFailed(s).next.tokens = s.tokens
         /\ \A id, ok : HandleToolResult(s, id, ok).next.tokens = s.tokens
         /\ HandleToolCallTimeout(s).next.tokens = s.tokens
         /\ HandleSystemEvent(s).next.tokens = s.tokens
         /\ \A calls : CountActions(s, calls).tokens = s.tokens
         /\ ResetBudgetWindow(s).tokens = 0
BY InterruptLeaves, DebounceLeaves, UserMessageLeaves, OtherLeaves, StateLeaves
   DEF Leaves

LEMMA TokensCounted ==
  ASSUME NEW s \in DialogueState, NEW calls,
         NEW type \in {"ToolCall", "Response", "Continue"}
  PROVE  HandleLlmCompleted(s, type, calls).next.tokens = s.tokens + 1
BY LlmCompletedLeaves DEF Leaves

LEMMA BudgetStep == TypeOK /\ BudgetInv /\ [Next]_vars => BudgetInv'
<1> SUFFICES ASSUME TypeOK, BudgetInv, [Next]_vars PROVE BudgetInv'
  OBVIOUS
<1>1. ds \in DialogueState /\ ds.tokens \in Nat /\ TokenBudget \in Nat
  BY BudgetAssumption DEF TypeOK, DialogueState, BudgetAssumption
<1>2. ASSUME call' = 0, ds'.tokens \in {0, ds.tokens} PROVE BudgetInv'
  BY <1>1, <1>2 DEF BudgetInv, BudgetHolds, CallWithinBudget
<1>3. ASSUME call' = call, ds' = ds PROVE BudgetInv'
  BY <1>3 DEF BudgetInv, BudgetHolds, CallWithinBudget, IsBudgetExhausted
<1>4. CASE EffectStep
  <2>1. call = 0
    BY <1>4 DEF EffectStep, Doing, DoTransition, DoCommitWorkspace, DoCancelLlm,
           DoExpand, DoClassify, DoTimer, DoEmitToolCallFrames, DoActing,
           DoRecordToolResult, DoResponding, DoUserMessage, DoThinking
  <2>2. CASE DoCommitWorkspace
    BY <1>1, <1>2, <2>1, <2>2 DEF DoCommitWorkspace, DialogueState
  <2>3. CASE DoClassify
    BY <1>1, <1>2, <2>1, <2>3, TokensKept DEF DoClassify, Apply
  <2>4. CASE DoActing
    BY <1>1, <1>2, <2>1, <2>4, TokensKept DEF DoActing
  <2>5. CASE DoUserMessage
    BY <1>1, <1>2, <2>1, <2>5, TokensKept DEF DoUserMessage, Apply
  <2>6. CASE DoThinking
    <3>1. CASE call' = call
      BY <1>3, <2>6, <3>1 DEF DoThinking
    <3>2. CASE call' # call
      BY <2>6, <3>2 DEF DoThinking, BudgetInv, BudgetHolds, CallWithinBudget,
                        IsBudgetExhausted
    <3> QED BY <3>1, <3>2
  <2> QED
    BY <1>3, <1>4, <2>2, <2>3, <2>4, <2>5, <2>6
    DEF EffectStep, DoTransition, DoCancelLlm, DoExpand, DoTimer,
        DoEmitToolCallFrames, DoRecordToolResult, DoResponding
<1>5. CASE LlmStep
  <2>1. CASE LlmAbandoned
    BY <1>2, <2>1 DEF LlmAbandoned
  <2>2. ASSUME NEW type \in {"ToolCall", "Response", "Continue"}, NEW calls,
               LlmReturns(type, calls)
        PROVE  BudgetInv'
    <3>1. ds'.tokens = ds.tokens + 1 /\ call' = 0 /\ ds.tokens < TokenBudget
      BY <1>1, <2>2, TokensCounted
      DEF LlmReturns, Apply, BudgetInv, CallWithinBudget, IsBudgetExhausted
    <3> QED BY <1>1, <3>1 DEF BudgetInv, BudgetHolds, CallWithinBudget
  <2>3. CASE LlmThrows
    <3>1. CASE call > MaxRetries
      BY <1>1, <1>2, <2>3, <3>1, TokensKept DEF LlmThrows, Apply
    <3>2. CASE ~(call > MaxRetries)
      BY <2>3, <3>2 DEF LlmThrows, BudgetInv, BudgetHolds, CallWithinBudget,
                        IsBudgetExhausted
    <3> QED BY <3>1, <3>2
  <2> QED BY <1>5, <2>1, <2>2, <2>3 DEF LlmStep
<1>6. CASE LoopStep
  <2>1. CASE ExpireNext
    BY <1>1, <1>2, <2>1, TokensKept
    DEF ExpireNext, ExpireAggregation, Busy, Apply
  <2>2. CASE HandleInterruption
    BY <1>1, <1>2, <2>2, TokensKept DEF HandleInterruption, Dequeue, Busy, Apply
  <2>3. CASE BargeIn
    BY <1>1, <1>2, <2>3, TokensKept DEF BargeIn, Dequeue, Busy
  <2>4. CASE HandleActingResult
    BY <1>1, <1>2, <2>4, TokensKept DEF HandleActingResult, Dequeue, Busy, Apply
  <2>5. PICK s \in DialogueState :
          /\ s = IF fsm = "Idle" THEN ResetBudgetWindow(ds) ELSE ds
          /\ s.tokens \in {0, ds.tokens}
    BY <1>1, ResetType, TokensKept
  <2>6. CASE FeedUserMessage
    <3>1. call' = 0 /\ \/ ds' = s
                       \/ \E msgs : ds' = HandleUserMessage(s, msgs).next
      BY <2>5, <2>6 DEF FeedUserMessage, Fed, Dequeue, Busy, Apply
    <3>2. ds'.tokens \in {0, ds.tokens}
      BY <2>5, <3>1, TokensKept
    <3> QED BY <1>2, <3>1, <3>2
  <2>7. CASE FeedSystemEvent
    <3>1. call' = 0 /\ ds' = HandleSystemEvent(s).next
      BY <2>5, <2>7 DEF FeedSystemEvent, Dequeue, Busy, Apply
    <3>2. ds'.tokens \in {0, ds.tokens}
      BY <2>5, <3>1, TokensKept
    <3> QED BY <1>2, <3>1, <3>2
  <2> QED
    BY <1>3, <1>6, <2>1, <2>2, <2>3, <2>4, <2>6, <2>7
    DEF LoopStep, Wake, LoopBreak, EndIteration, IgnoreObservation
<1>7. CASE EnvironmentStep
  BY <1>3, <1>7
  DEF EnvironmentStep, SendUser, SendSystemEvent, ToolAnswers, InterruptCheck,
      FinishInterrupt, InterruptFlag, InterruptEnqueue, RequestShutdown, loopVars
<1>8. CASE Start \/ Terminate \/ Tick \/ UNCHANGED vars
  BY <1>3, <1>8 DEF Start, Terminate, Tick, vars, loopVars
<1> QED BY <1>4, <1>5, <1>6, <1>7, <1>8 DEF Next

(* Between two resets of the counters the LLM completes at most as often   *)
(* as the token budget allows, through denials, retries, continuations,    *)
(* tool cycles and timers.                                                 *)
THEOREM BudgetIsHeld == Spec => []BudgetHolds
<1>1. Init => BudgetInv
  BY BudgetAssumption
  DEF Init, InitialDialogue, BudgetInv, BudgetHolds, CallWithinBudget, BudgetAssumption
<1>2. BudgetInv => BudgetHolds
  BY DEF BudgetInv
<1> QED BY <1>1, <1>2, BudgetStep, TypeCorrect, PTL DEF Spec

-----------------------------------------------------------------------------
(* The debounce timer.  No handler ever cancels it, so that from the       *)
(* interrupt that starts the debounce on, its timer is first among the     *)
(* effects to apply, then armed, then expired, until it is handled.        *)

Has(e, s) == \E i \in DOMAIN s : s[i] = e
Quiet(s) == ~Has(CancelTimer("debounce"), s)
DebounceInv == DebounceArmed /\ Quiet(agenda)

LEMMA HasConcat ==
  ASSUME NEW S, NEW s \in Seq(S), NEW t \in Seq(S), NEW e
  PROVE  Has(e, s \o t) <=> Has(e, s) \/ Has(e, t)
<1>1. /\ Len(s) \in Nat /\ Len(t) \in Nat
      /\ DOMAIN s = 1..Len(s) /\ DOMAIN t = 1..Len(t)
      /\ DOMAIN (s \o t) = 1..(Len(s) + Len(t))
  OBVIOUS
<1>2. \A i \in DOMAIN s : (s \o t)[i] = s[i]
  OBVIOUS
<1>3. \A i \in DOMAIN t : (s \o t)[Len(s) + i] = t[i]
  OBVIOUS
<1>4. ASSUME Has(e, s \o t) PROVE Has(e, s) \/ Has(e, t)
  <2>1. PICK i \in DOMAIN (s \o t) : (s \o t)[i] = e
    BY <1>4 DEF Has
  <2>2. CASE i <= Len(s)
    BY <1>1, <1>2, <2>1, <2>2 DEF Has
  <2>3. CASE i > Len(s)
    <3>1. i - Len(s) \in DOMAIN t /\ i = Len(s) + (i - Len(s))
      BY <1>1, <2>1, <2>3
    <3>2. t[i - Len(s)] = e
      BY <1>3, <2>1, <3>1
    <3> QED BY <3>1, <3>2 DEF Has
  <2> QED BY <1>1, <2>1, <2>2, <2>3
<1>5. ASSUME Has(e, s) PROVE Has(e, s \o t)
  <2>1. PICK i \in DOMAIN s : s[i] = e
    BY <1>5 DEF Has
  <2>2. i \in DOMAIN (s \o t) /\ (s \o t)[i] = e
    BY <1>1, <1>2, <2>1
  <2> QED BY <2>2 DEF Has
<1>6. ASSUME Has(e, t) PROVE Has(e, s \o t)
  <2>1. PICK i \in DOMAIN t : t[i] = e
    BY <1>6 DEF Has
  <2>2. Len(s) + i \in DOMAIN (s \o t) /\ (s \o t)[Len(s) + i] = e
    BY <1>1, <1>3, <2>1
  <2> QED BY <2>2 DEF Has
<1> QED BY <1>4, <1>5, <1>6

LEMMA HasHead ==
  ASSUME NEW S, NEW s \in Seq(S), s # <<>>, NEW e
  PROVE  Has(e, s) <=> e = Head(s) \/ Has(e, Tail(s))
<1>1. <<Head(s)>> \in Seq(S) /\ Tail(s) \in Seq(S) /\ s = <<Head(s)>> \o Tail(s)
  OBVIOUS
<1>2. PICK h, t : h = <<Head(s)>> /\ t = Tail(s)
  OBVIOUS
<1>3. Has(e, h \o t) <=> Has(e, h) \/ Has(e, t)
  BY <1>1, <1>2, HasConcat
<1>4. Has(e, <<Head(s)>>) <=> e = Head(s)
  BY DEF Has
<1>5. h \o t = s
  BY <1>1, <1>2
<1> QED BY <1>2, <1>3, <1>4, <1>5

LEMMA HasShort ==
  ASSUME NEW e, NEW a, NEW b, NEW c
  PROVE  /\ ~Has(e, <<>>)
         /\ Has(e, <<a>>) <=> e = a
         /\ Has(e, <<a, b>>) <=> e \in {a, b}
         /\ Has(e, <<a, b, c>>) <=> e \in {a, b, c}
<1>1. ~Has(e, <<>>)
  BY DEF Has
<1>2. Has(e, <<a>>) <=> e = a
  BY DEF Has
<1>3. Has(e, <<a, b>>) <=> e \in {a, b}
  <2>1. DOMAIN <<a, b>> = {1, 2} /\ <<a, b>>[1] = a /\ <<a, b>>[2] = b
    OBVIOUS
  <2> QED BY <2>1 DEF Has
<1>4. Has(e, <<a, b, c>>) <=> e \in {a, b, c}
  <2>1. /\ DOMAIN <<a, b, c>> = {1, 2, 3}
        /\ <<a, b, c>>[1] = a /\ <<a, b, c>>[2] = b /\ <<a, b, c>>[3] = c
    OBVIOUS
  <2> QED BY <2>1 DEF Has
<1> QED BY <1>1, <1>2, <1>3, <1>4

LEMMA QuietConcat ==
  ASSUME NEW S, NEW s \in Seq(S), NEW t \in Seq(S), Quiet(s), Quiet(t)
  PROVE  Quiet(s \o t)
BY HasConcat DEF Quiet

LEMMA Quiet0 == Quiet(<<>>)
BY DEF Quiet, Has

LEMMA Quiet1 ==
  ASSUME NEW a, a # CancelTimer("debounce") PROVE Quiet(<<a>>)
BY DEF Quiet, Has

LEMMA Quiet2 ==
  ASSUME NEW a, NEW b, a # CancelTimer("debounce"), b # CancelTimer("debounce")
  PROVE  Quiet(<<a, b>>)
<1>1. DOMAIN <<a, b>> = {1, 2} /\ <<a, b>>[1] = a /\ <<a, b>>[2] = b
  OBVIOUS
<1> QED BY <1>1 DEF Quiet, Has

LEMMA Quiet3 ==
  ASSUME NEW a, NEW b, NEW c, a # CancelTimer("debounce"),
         b # CancelTimer("debounce"), c # CancelTimer("debounce")
  PROVE  Quiet(<<a, b, c>>)
<1>1. /\ DOMAIN <<a, b, c>> = {1, 2, 3}
      /\ <<a, b, c>>[1] = a /\ <<a, b, c>>[2] = b /\ <<a, b, c>>[3] = c
  OBVIOUS
<1> QED BY <1>1 DEF Quiet, Has

(* The one effect that would cancel the debounce is none of these.         *)
LEMMA QuietEffects ==
  LET x == CancelTimer("debounce") IN
  /\ x # CommitWorkspace /\ x # CancelLlm /\ x # StartLlm
  /\ x # StartLlmContinuation /\ x # SignalBudgetExhausted
  /\ x # DeliverResponse /\ x # RecordTimeoutResults /\ x # HandleThinking
  /\ x # HandleResponding /\ x # UserMessageReceived
  /\ \A id : x # ScheduleTimer(id)
  /\ x # CancelTimer("tool_call_timeout")
  /\ \A e : x # TransitionState(e)
  /\ \A n : x # StartTurnTriggerClassification(n)
  /\ \A calls : x # EmitToolCallFrames(calls) /\ x # HandleActing(calls)
  /\ \A ok : x # RecordToolResult(ok)
BY DEF CancelTimer, CommitWorkspace, CancelLlm, StartLlm, StartLlmContinuation,
       SignalBudgetExhausted, DeliverResponse, RecordTimeoutResults,
       HandleThinking, HandleResponding, UserMessageReceived, ScheduleTimer,
       TransitionState, StartTurnTriggerClassification, EmitToolCallFrames,
       HandleActing, RecordToolResult

(* What the decisions of the handlers add to the agenda.                   *)
LEMMA DecisionQuiet ==
  ASSUME NEW t, NEW e, Quiet(e) PROVE Quiet(Decision(t, e).effects)
BY DecisionFields

LEMMA InterruptEffects ==
  ASSUME NEW s \in DialogueState
  PROVE  /\ HandleInterrupt(s).effects \in Seq(Effect)
         /\ Quiet(HandleInterrupt(s).effects)
         /\ Has(ScheduleTimer("debounce"), HandleInterrupt(s).effects)
<1>1. PICK a, b, t :
        /\ HandleInterrupt(s) =
             Decision(t, a \o <<CancelLlm, ScheduleTimer("debounce")>> \o b)
        /\ a \in {<<>>, <<CommitWorkspace>>}
        /\ b \in {<<>>, <<CancelTimer("tool_call_timeout")>>}
  <2> DEFINE t == [s EXCEPT !.cooldown = "Debouncing", !.deliberation = "Idle",
                            !.trigger = 0, !.pending = {}, !.results = {}]
             a == IF s.fragments # {} THEN <<CommitWorkspace>> ELSE <<>>
             b == IF s.deliberation = "AwaitingToolResults"
                  THEN <<CancelTimer("tool_call_timeout")>> ELSE <<>>
  <2>1. HandleInterrupt(s) =
          Decision(t, a \o <<CancelLlm, ScheduleTimer("debounce")>> \o b)
    BY Zenon DEF HandleInterrupt
  <2>2. a \in {<<>>, <<CommitWorkspace>>}
    OBVIOUS
  <2>3. b \in {<<>>, <<CancelTimer("tool_call_timeout")>>}
    OBVIOUS
  <2> HIDE DEF t, a, b
  <2> QED BY <2>1, <2>2, <2>3, Zenon
<1>2. PICK m : m = <<CancelLlm, ScheduleTimer("debounce")>>
  OBVIOUS
<1>3. a \in Seq(Effect) /\ b \in Seq(Effect) /\ m \in Seq(Effect)
  BY <1>1, <1>2, SeqOf0, SeqOf1, SeqOf2, PlainEffects, TimerEffects DEF TimerIds
<1>4. Quiet(a) /\ Quiet(b) /\ Quiet(m)
  BY <1>1, <1>2, Quiet0, Quiet1, Quiet2, QuietEffects
<1>5. Has(ScheduleTimer("debounce"), m)
  <2>1. DOMAIN m = {1, 2} /\ m[2] = ScheduleTimer("debounce")
    BY <1>2
  <2> QED BY <2>1 DEF Has
<1>6. a \o m \in Seq(Effect) /\ a \o m \o b \in Seq(Effect)
  BY <1>3, SeqConcat
<1>7. Quiet(a \o m) /\ Quiet(a \o m \o b)
  BY <1>3, <1>4, <1>6, QuietConcat
<1>8. Has(ScheduleTimer("debounce"), a \o m \o b)
  BY <1>3, <1>5, <1>6, HasConcat
<1>9. HandleInterrupt(s).effects = a \o m \o b
  <2>1. PICK e : e = a \o m \o b
    OBVIOUS
  <2>2. HandleInterrupt(s) = Decision(t, e)
    BY <1>1, <1>2, <2>1
  <2> QED BY <2>1, <2>2, DecisionFields
<1> QED BY <1>6, <1>7, <1>8, <1>9

LEMMA HandlerQuiet ==
  ASSUME NEW s
  PROVE  /\ Quiet(HandleDebounceCooldownExpired(s).effects)
         /\ \A msgs : Quiet(HandleUserMessage(s, msgs).effects)
         /\ \A n : Quiet(HandleTurnTriggerClassified(s, n).effects)
         /\ Quiet(HandleLlmFailed(s).effects)
         /\ \A id, ok : Quiet(HandleToolResult(s, id, ok).effects)
         /\ Quiet(HandleToolCallTimeout(s).effects)
         /\ Quiet(HandleSystemEvent(s).effects)
<1>1. Quiet(HandleDebounceCooldownExpired(s).effects)
  <2>1. \E t : \/ HandleDebounceCooldownExpired(s) =
                   Decision(t, <<CommitWorkspace, SignalBudgetExhausted>>)
              \/ HandleDebounceCooldownExpired(s) =
                   Decision(t, <<CommitWorkspace, StartLlmContinuation>>)
    BY Zenon DEF HandleDebounceCooldownExpired
  <2>2. /\ Quiet(<<CommitWorkspace, SignalBudgetExhausted>>)
        /\ Quiet(<<CommitWorkspace, StartLlmContinuation>>)
    BY Quiet2, QuietEffects
  <2> QED BY <2>1, <2>2, DecisionQuiet
<1>2. ASSUME NEW msgs PROVE Quiet(HandleUserMessage(s, msgs).effects)
  <2> DEFINE n == s.lastTrigger + 1
             e == <<CommitWorkspace, StartTurnTriggerClassification(n)>>
  <2>1. \E t : \/ HandleUserMessage(s, msgs) = Decision(t, <<>>)
              \/ HandleUserMessage(s, msgs) = Decision(t, e)
    BY Zenon DEF HandleUserMessage, NoOp
  <2>2. Quiet(e)
    BY Quiet2, QuietEffects
  <2> HIDE DEF e
  <2> QED BY <2>1, <2>2, Quiet0, DecisionQuiet
<1>3. ASSUME NEW n PROVE Quiet(HandleTurnTriggerClassified(s, n).effects)
  <2>1. \E t : \/ HandleTurnTriggerClassified(s, n) = Decision(t, <<>>)
              \/ HandleTurnTriggerClassified(s, n) = Decision(t, <<StartLlm>>)
    BY Zenon DEF HandleTurnTriggerClassified, NoOp
  <2>2. Quiet(<<StartLlm>>)
    BY Quiet1, QuietEffects
  <2> QED BY <2>1, <2>2, Quiet0, DecisionQuiet
<1>4. Quiet(HandleLlmFailed(s).effects)
  <2>1. \E t : HandleLlmFailed(s) = Decision(t, <<TransitionState("LlmFailure")>>)
    BY Zenon DEF HandleLlmFailed
  <2>2. Quiet(<<TransitionState("LlmFailure")>>)
    BY Quiet1, QuietEffects
  <2> QED BY <2>1, <2>2, DecisionQuiet
<1>5. ASSUME NEW id, NEW ok PROVE Quiet(HandleToolResult(s, id, ok).effects)
  <2> DEFINE e == <<RecordToolResult(ok), CancelTimer("tool_call_timeout"), StartLlm>>
  <2>1. \E t : \/ HandleToolResult(s, id, ok) = Decision(t, e)
              \/ HandleToolResult(s, id, ok) = Decision(t, <<RecordToolResult(ok)>>)
    BY Zenon DEF HandleToolResult
  <2>2. Quiet(e) /\ Quiet(<<RecordToolResult(ok)>>)
    BY Quiet1, Quiet3, QuietEffects
  <2> HIDE DEF e
  <2> QED BY <2>1, <2>2, DecisionQuiet
<1>6. Quiet(HandleToolCallTimeout(s).effects)
  <2>1. \E t : HandleToolCallTimeout(s) =
                Decision(t, <<RecordTimeoutResults, StartLlm>>)
    BY Zenon DEF HandleToolCallTimeout
  <2>2. Quiet(<<RecordTimeoutResults, StartLlm>>)
    BY Quiet2, QuietEffects
  <2> QED BY <2>1, <2>2, DecisionQuiet
<1>7. Quiet(HandleSystemEvent(s).effects)
  <2>1. \E t : \/ HandleSystemEvent(s) = Decision(t, <<>>)
              \/ HandleSystemEvent(s) = Decision(t, <<StartLlm>>)
    BY Zenon DEF HandleSystemEvent, NoOp
  <2>2. Quiet(<<StartLlm>>)
    BY Quiet1, QuietEffects
  <2> QED BY <2>1, <2>2, Quiet0, DecisionQuiet
<1> QED BY <1>1, <1>2, <1>3, <1>4, <1>5, <1>6, <1>7

LEMMA CompletedQuiet ==
  ASSUME NEW s, NEW calls,
         NEW type \in {"ToolCall", "Response", "Continue"}
  PROVE  Quiet(HandleLlmCompleted(s, type, calls).effects)
<1> DEFINE e == <<EmitToolCallFrames(calls), ScheduleTimer("tool_call_timeout")>>
<1>1. \A c : \E t : AwaitToolResults(c, calls) = Decision(t, e)
  BY Zenon DEF AwaitToolResults
<1>2. \A c : \E t : DeliverAnswer(c) = Decision(t, <<DeliverResponse>>)
  BY Zenon DEF DeliverAnswer
<1>3. \A c : \E t : \/ ContinueThinking(c) = Decision(t, <<SignalBudgetExhausted>>)
                   \/ ContinueThinking(c) = Decision(t, <<StartLlm>>)
  BY Zenon DEF ContinueThinking
<1>4. /\ Quiet(e) /\ Quiet(<<DeliverResponse>>)
      /\ Quiet(<<SignalBudgetExhausted>>) /\ Quiet(<<StartLlm>>)
  BY Quiet1, Quiet2, QuietEffects
<1>5. \/ HandleLlmCompleted(s, type, calls) = AwaitToolResults(CountCompletion(s), calls)
      \/ HandleLlmCompleted(s, type, calls) = DeliverAnswer(CountCompletion(s))
      \/ HandleLlmCompleted(s, type, calls) = ContinueThinking(CountCompletion(s))
  BY DEF HandleLlmCompleted
<1> HIDE DEF e
<1> QED BY <1>1, <1>2, <1>3, <1>4, <1>5, DecisionQuiet

LEMMA ExpansionQuiet ==
  ASSUME NEW e \in Effect,
         e.op \in {"StartLlm", "StartLlmContinuation", "DeliverResponse",
                   "SignalBudgetExhausted", "RecordTimeoutResults"}
  PROVE  Quiet(Expansion(e))
<1>1. \A ev : Quiet(<<TransitionState(ev)>>)
  BY Quiet1, QuietEffects
<1>2. \A ev, next : Quiet(<<TransitionState(ev), TransitionState(next)>>)
  BY Quiet2, QuietEffects
<1>3. CASE e.op = "StartLlm"
  <2>1. PICK first : first = EnterThinking
    OBVIOUS
  <2>2. Quiet(first)
    <3> DEFINE ev == IF toolOk THEN "ActionComplete" ELSE "ActionFailed"
    <3>1. \/ first = <<TransitionState("UserObservation")>>
          \/ first = <<TransitionState(ev)>>
          \/ first = <<TransitionState("LlmResult"), TransitionState("RouteToContinue")>>
          \/ first = <<>>
      BY <2>1 DEF EnterThinking
    <3> HIDE DEF ev
    <3> QED BY <3>1, <1>1, <1>2, Quiet0
  <2>3. first \in Seq(Effect)
    <3>1. \A ev \in Events : <<TransitionState(ev)>> \in Seq(Effect)
      BY ParameterEffects, SeqOf1
    <3>2. \A ev, next \in Events :
            <<TransitionState(ev), TransitionState(next)>> \in Seq(Effect)
      BY ParameterEffects, SeqOf2
    <3> DEFINE ev == IF toolOk THEN "ActionComplete" ELSE "ActionFailed"
    <3>3. \/ first = <<TransitionState("UserObservation")>>
          \/ first = <<TransitionState(ev)>>
          \/ first = <<TransitionState("LlmResult"), TransitionState("RouteToContinue")>>
          \/ first = <<>>
      BY <2>1 DEF EnterThinking
    <3>4. /\ ev \in Events /\ "UserObservation" \in Events
          /\ "LlmResult" \in Events /\ "RouteToContinue" \in Events
      BY DEF Events
    <3> HIDE DEF ev
    <3> QED BY <3>1, <3>2, <3>3, <3>4, SeqOf0
  <2>4. PICK last : last = <<HandleThinking>>
    OBVIOUS
  <2>5. Quiet(last) /\ last \in Seq(Effect)
    BY <2>4, Quiet1, QuietEffects, PlainEffects, SeqOf1
  <2>6. Quiet(first \o last)
    BY <2>2, <2>3, <2>5, QuietConcat
  <2>7. Expansion(e) = first \o last
    BY <1>3, <2>1, <2>4 DEF Expansion
  <2> QED BY <2>6, <2>7
<1>4. CASE e.op = "StartLlmContinuation"
  <2>1. Quiet(<<TransitionState("UserObservation"), HandleThinking>>)
    BY Quiet2, QuietEffects
  <2> QED BY <2>1, <1>4 DEF Expansion
<1>5. CASE e.op = "DeliverResponse"
  <2>1. Quiet(<<TransitionState("LlmResult"), TransitionState("RouteToResponse"),
                HandleResponding>>)
    BY Quiet3, QuietEffects
  <2>2. Quiet(<<HandleResponding>>)
    BY Quiet1, QuietEffects
  <2> QED BY <2>1, <2>2, <1>5 DEF Expansion
<1>6. CASE e.op = "SignalBudgetExhausted"
  BY <1>1, <1>6 DEF Expansion
<1>7. CASE e.op = "RecordTimeoutResults"
  BY <1>1, <1>7, Quiet0 DEF Expansion
<1> QED BY <1>3, <1>4, <1>5, <1>6, <1>7

(* Whatever the dialogue, the agenda and the timers do, the guard stands   *)
(* as long as the debounce timer and the effect that schedules it stay.    *)
LEMMA KeepGuard ==
  ASSUME DebounceInv,
         ds'.cooldown = ds.cooldown \/ ds'.cooldown = "None",
         Armed(due, "debounce") => Armed(due', "debounce"),
         Armed(batch, "debounce") => Armed(batch', "debounce"),
         Has(ScheduleTimer("debounce"), agenda)
           => Has(ScheduleTimer("debounce"), agenda') \/ Armed(due', "debounce"),
         Quiet(agenda')
  PROVE  DebounceInv'
BY DEF DebounceInv, DebounceArmed, Has

(* The head of the agenda is replaced by other steps.                      *)
LEMMA Popped ==
  ASSUME TypeOK, agenda # <<>>, Quiet(agenda),
         NEW X \in Seq(Effect), Quiet(X), agenda' = X \o Rest
  PROVE  /\ Quiet(agenda')
         /\ Head(agenda) # CancelTimer("debounce")
         /\ Has(ScheduleTimer("debounce"), agenda)
              => \/ Head(agenda) = ScheduleTimer("debounce")
                 \/ Has(ScheduleTimer("debounce"), agenda')
<1>1. agenda \in Seq(Effect) /\ Rest \in Seq(Effect)
  BY HeadType DEF TypeOK
<1>2. \A e : Has(e, agenda) <=> e = Head(agenda) \/ Has(e, Rest)
  BY <1>1, HasHead DEF Rest
<1>3. \A e : Has(e, X \o Rest) <=> Has(e, X) \/ Has(e, Rest)
  BY <1>1, HasConcat
<1>4. PICK t : t = X \o Rest
  OBVIOUS
<1> QED BY <1>2, <1>3, <1>4 DEF Quiet

LEMMA Popped0 ==
  ASSUME TypeOK, agenda # <<>>, Quiet(agenda), agenda' = Rest
  PROVE  /\ Quiet(agenda')
         /\ Head(agenda) # CancelTimer("debounce")
         /\ Has(ScheduleTimer("debounce"), agenda)
              => \/ Head(agenda) = ScheduleTimer("debounce")
                 \/ Has(ScheduleTimer("debounce"), agenda')
<1>1. agenda \in Seq(Effect) /\ Rest \in Seq(Effect)
  BY HeadType DEF TypeOK
<1>2. \A e : Has(e, agenda) <=> e = Head(agenda) \/ Has(e, Rest)
  BY <1>1, HasHead DEF Rest
<1> QED BY <1>2 DEF Quiet

LEMMA KeepDebounce ==
  ASSUME TypeOK, DebounceInv, agenda # <<>>, call = 0,
         Head(agenda) # ScheduleTimer("debounce"),
         NEW X \in Seq(Effect), Quiet(X), agenda' = X \o Rest,
         ds'.cooldown = ds.cooldown \/ ds'.cooldown = "None",
         UNCHANGED timeVars
  PROVE  DebounceInv'
<1>1. Quiet(agenda)
  BY DEF DebounceInv
<1>2. /\ Quiet(agenda')
      /\ Has(ScheduleTimer("debounce"), agenda)
           => Has(ScheduleTimer("debounce"), agenda')
  BY <1>1, Popped
<1> QED BY <1>2, KeepGuard DEF timeVars

LEMMA KeepDebounce0 ==
  ASSUME TypeOK, DebounceInv, agenda # <<>>,
         Head(agenda) # ScheduleTimer("debounce"), agenda' = Rest,
         ds'.cooldown = ds.cooldown \/ ds'.cooldown = "None",
         UNCHANGED timeVars
  PROVE  DebounceInv'
<1>1. Quiet(agenda)
  BY DEF DebounceInv
<1>2. /\ Quiet(agenda')
      /\ Has(ScheduleTimer("debounce"), agenda)
           => Has(ScheduleTimer("debounce"), agenda')
  BY <1>1, Popped0
<1> QED BY <1>2, KeepGuard DEF timeVars

(* A timer that is scheduled or runs is armed, since Off is out of reach.  *)
LEMMA ArmedTimer ==
  /\ Off \in Int /\ \A id \in TimerIds : Duration[id] # Off
  /\ \A n \in Int : n > -MaxLate => n - 1 # Off
<1>1. MaxLate \in Nat /\ \A id \in TimerIds : Duration[id] \in Nat \ {0}
  BY ControllerAssumption DEF ControllerAssumption
<1> QED BY <1>1 DEF Off

LEMMA TransitionsQuiet ==
  /\ \A ev \in Events : <<TransitionState(ev)>> \in Seq(Effect)
  /\ \A ev : Quiet(<<TransitionState(ev)>>)
  /\ \A ev, next \in Events, e \in Effect :
       <<TransitionState(ev), TransitionState(next), e>> \in Seq(Effect)
  /\ \A ev, next, e : e # CancelTimer("debounce") =>
       Quiet(<<TransitionState(ev), TransitionState(next), e>>)
<1>1. \A ev \in Events : TransitionState(ev) \in Effect
  BY ParameterEffects
<1>2. \A ev : CancelTimer("debounce") # TransitionState(ev)
  BY QuietEffects
<1>3. \A ev \in Events : <<TransitionState(ev)>> \in Seq(Effect)
  BY <1>1, SeqOf1
<1>4. \A ev : Quiet(<<TransitionState(ev)>>)
  BY <1>2, Quiet1
<1>5. \A ev, next \in Events, e \in Effect :
       <<TransitionState(ev), TransitionState(next), e>> \in Seq(Effect)
  BY <1>1, SeqOf3
<1>6. \A ev, next, e : e # CancelTimer("debounce") =>
       Quiet(<<TransitionState(ev), TransitionState(next), e>>)
  BY <1>2, Quiet3
<1> QED BY <1>3, <1>4, <1>5, <1>6

LEMMA EffectStepArmed ==
  ASSUME TypeOK, TypeOK', DebounceInv, EffectStep PROVE DebounceInv'
<1>0. /\ agenda # <<>> /\ call = 0 /\ Head(agenda) \in Effect
      /\ Rest \in Seq(Effect) /\ ds \in DialogueState
  <2>1. agenda # <<>> /\ call = 0
    BY DEF EffectStep, DoTransition, DoCommitWorkspace, DoCancelLlm, DoExpand,
           DoClassify, DoTimer, DoEmitToolCallFrames, DoActing,
           DoRecordToolResult, DoResponding, DoUserMessage, DoThinking, Doing
  <2> QED BY <2>1, HeadType DEF TypeOK
<1>1. Head(agenda).op # "ScheduleTimer" => Head(agenda) # ScheduleTimer("debounce")
  BY DEF ScheduleTimer
<1>2. CASE DoTransition
  <2>1. /\ Head(agenda).op = "TransitionState" /\ agenda' = Rest
        /\ ds' = ds /\ UNCHANGED timeVars
    BY <1>2 DEF DoTransition, Doing
  <2> QED BY <2>1, <1>0, <1>1, KeepDebounce0
<1>3. CASE DoCommitWorkspace
  <2>1. /\ Head(agenda).op = "CommitWorkspace" /\ agenda' = Rest
        /\ ds' = [ds EXCEPT !.fragments = {}] /\ UNCHANGED timeVars
    BY <1>3 DEF DoCommitWorkspace, Doing
  <2>2. ds'.cooldown = ds.cooldown
    BY <2>1, <1>0 DEF DialogueState
  <2> QED BY <2>1, <2>2, <1>0, <1>1, KeepDebounce0
<1>4. CASE DoCancelLlm
  <2>1. /\ Head(agenda).op = "CancelLlm"
        /\ agenda' = <<TransitionState("Interrupt")>> \o Rest
        /\ ds' = ds /\ UNCHANGED timeVars
    BY <1>4 DEF DoCancelLlm, Doing
  <2>2. "Interrupt" \in Events
    BY DEF Events
  <2>3. PICK X : X = <<TransitionState("Interrupt")>>
    OBVIOUS
  <2>4. X \in Seq(Effect) /\ Quiet(X) /\ agenda' = X \o Rest
    BY <2>1, <2>2, <2>3, TransitionsQuiet
  <2> QED BY <2>1, <2>4, <1>0, <1>1, KeepDebounce
<1>5. CASE DoExpand
  <2>1. /\ Head(agenda).op \in {"StartLlm", "StartLlmContinuation", "DeliverResponse",
                                "SignalBudgetExhausted", "RecordTimeoutResults"}
        /\ agenda' = Expansion(Head(agenda)) \o Rest
        /\ ds' = ds /\ UNCHANGED timeVars
    BY <1>5 DEF DoExpand
  <2>2. PICK X : X = Expansion(Head(agenda))
    OBVIOUS
  <2>3. X \in Seq(Effect) /\ Quiet(X) /\ agenda' = X \o Rest
    BY <2>1, <2>2, <1>0, ExpansionType, ExpansionQuiet
  <2> QED BY <2>1, <2>3, <1>0, <1>1, KeepDebounce
<1>6. CASE DoClassify
  <2>1. PICK d : /\ d = HandleTurnTriggerClassified(ds, Head(agenda).trigger)
                 /\ ds' = d.next /\ agenda' = d.effects \o Rest
    BY <1>6 DEF DoClassify, Apply
  <2>2. Head(agenda).op = "StartTurnTriggerClassification" /\ UNCHANGED timeVars
    BY <1>6 DEF DoClassify, Doing
  <2>3. Head(agenda).trigger \in Nat
    BY <2>2, <1>0, EffectTypes
  <2>4. d.effects \in Seq(Effect) /\ Quiet(d.effects) /\ d.next.cooldown = ds.cooldown
    BY <2>1, <2>3, <1>0, ClassifiedType, HandlerQuiet, OtherLeaves
    DEF Leaves, DecisionOK
  <2> QED BY <2>1, <2>2, <2>4, <1>0, <1>1, KeepDebounce
<1>7. CASE DoTimer
  <2>1. agenda' = Rest /\ ds' = ds /\ batch' = batch
    BY <1>7 DEF DoTimer
  <2>2. Quiet(agenda)
    BY DEF DebounceInv
  <2>3. /\ Quiet(agenda') /\ Head(agenda) # CancelTimer("debounce")
        /\ Has(ScheduleTimer("debounce"), agenda)
             => \/ Head(agenda) = ScheduleTimer("debounce")
                \/ Has(ScheduleTimer("debounce"), agenda')
    BY <2>1, <2>2, <1>0, Popped0
  <2>4. "debounce" \in TimerIds /\ due \in [TimerIds -> Int]
    BY DEF TypeOK, TimerIds
  <2>5. /\ Armed(due, "debounce") => Armed(due', "debounce")
        /\ Head(agenda) = ScheduleTimer("debounce") => Armed(due', "debounce")
    <3>1. CASE /\ Head(agenda).op = "ScheduleTimer"
               /\ due' = [due EXCEPT ![Head(agenda).id] = Duration[Head(agenda).id]]
      <4>1. Head(agenda) = ScheduleTimer("debounce") => Head(agenda).id = "debounce"
        BY DEF ScheduleTimer
      <4>2. Duration["debounce"] # Off
        BY <2>4, ArmedTimer
      <4> QED BY <3>1, <2>4, <4>1, <4>2 DEF Armed
    <3>2. CASE /\ Head(agenda).op = "CancelTimer"
               /\ due' = [due EXCEPT ![Head(agenda).id] = Off]
      <4>1. Head(agenda).id # "debounce"
        BY <3>2, <2>3, <1>0 DEF Effect, CancelTimer
      <4>2. Head(agenda) # ScheduleTimer("debounce")
        BY <3>2 DEF ScheduleTimer
      <4> QED BY <3>2, <4>1, <4>2, <2>4 DEF Armed
    <3> QED BY <1>7, <3>1, <3>2 DEF DoTimer, Doing
  <2> QED BY <2>1, <2>3, <2>5, KeepGuard
<1>8. CASE DoEmitToolCallFrames
  <2>1. Head(agenda).op = "EmitToolCallFrames" /\ ds' = ds /\ UNCHANGED timeVars
    BY <1>8 DEF DoEmitToolCallFrames, Doing
  <2>2. Head(agenda).calls \in SUBSET Tools
    BY <2>1, <1>0 DEF Effect
  <2>3. HandleActing(Head(agenda).calls) \in Effect /\ HandleThinking \in Effect
    BY <2>2, ParameterEffects, PlainEffects
  <2>4. /\ HandleActing(Head(agenda).calls) # CancelTimer("debounce")
        /\ HandleThinking # CancelTimer("debounce")
    BY QuietEffects
  <2>5. {"LlmResult", "RouteToAction", "RouteToContinue"} \subseteq Events
    BY DEF Events
  <2>6. PICK r, e : /\ agenda' = <<TransitionState("LlmResult"), TransitionState(r), e>> \o Rest
                    /\ r \in Events /\ e \in Effect /\ e # CancelTimer("debounce")
    BY <1>8, <2>3, <2>4, <2>5 DEF DoEmitToolCallFrames
  <2>7. PICK X : X = <<TransitionState("LlmResult"), TransitionState(r), e>>
    OBVIOUS
  <2>8. X \in Seq(Effect) /\ Quiet(X) /\ agenda' = X \o Rest
    BY <2>5, <2>6, <2>7, TransitionsQuiet
  <2> QED BY <2>1, <2>8, <1>0, <1>1, KeepDebounce
<1>9. CASE DoActing
  <2>1. /\ Head(agenda).op = "HandleActing" /\ agenda' = Rest
        /\ ds' = CountActions(ds, Head(agenda).calls) /\ UNCHANGED timeVars
    BY <1>9 DEF DoActing, Doing
  <2>2. ds'.cooldown = ds.cooldown
    BY <2>1, <1>0 DEF CountActions, DialogueState
  <2> QED BY <2>1, <2>2, <1>0, <1>1, KeepDebounce0
<1>10. CASE DoRecordToolResult
  <2>1. /\ Head(agenda).op = "RecordToolResult" /\ agenda' = Rest
        /\ ds' = ds /\ UNCHANGED timeVars
    BY <1>10 DEF DoRecordToolResult, Doing
  <2> QED BY <2>1, <1>0, <1>1, KeepDebounce0
<1>11. CASE DoResponding
  <2>1. Head(agenda).op = "HandleResponding" /\ ds' = ds /\ UNCHANGED timeVars
    BY <1>11 DEF DoResponding, Doing
  <2>2. {"ResponseDelivered", "StopConditionMet"} \subseteq Events
    BY DEF Events
  <2>3. PICK r \in Events : agenda' = <<TransitionState(r)>> \o Rest
    BY <1>11, <2>2 DEF DoResponding
  <2>4. PICK X : X = <<TransitionState(r)>>
    OBVIOUS
  <2>5. X \in Seq(Effect) /\ Quiet(X) /\ agenda' = X \o Rest
    BY <2>3, <2>4, TransitionsQuiet
  <2> QED BY <2>1, <2>5, <1>0, <1>1, KeepDebounce
<1>12. CASE DoUserMessage
  <2>1. PICK d : /\ d = HandleUserMessage(ds, {bargeIn})
                 /\ ds' = d.next /\ agenda' = d.effects \o Rest
    BY <1>12 DEF DoUserMessage, Apply
  <2>2. Head(agenda).op = "UserMessageReceived" /\ UNCHANGED timeVars
    BY <1>12 DEF DoUserMessage, Doing
  <2>3. {bargeIn} \subseteq Nat
    BY DEF TypeOK
  <2>4. d.effects \in Seq(Effect) /\ Quiet(d.effects) /\ d.next.cooldown = ds.cooldown
    BY <2>1, <2>3, <1>0, UserMessageType, HandlerQuiet, UserMessageLeaves
    DEF Leaves, DecisionOK
  <2> QED BY <2>1, <2>2, <2>4, <1>0, <1>1, KeepDebounce
<1>13. CASE DoThinking
  <2>1. Head(agenda).op = "HandleThinking" /\ ds' = ds /\ UNCHANGED timeVars
    BY <1>13 DEF DoThinking, Doing
  <2>2. CASE agenda' = Rest
    BY <2>1, <2>2, <1>0, <1>1, KeepDebounce0
  <2>3. CASE \E ev \in Events : agenda' = <<TransitionState(ev)>> \o Rest
    <3>1. PICK ev \in Events : agenda' = <<TransitionState(ev)>> \o Rest
      BY <2>3
    <3>2. PICK X : X = <<TransitionState(ev)>>
      OBVIOUS
    <3>3. X \in Seq(Effect) /\ Quiet(X) /\ agenda' = X \o Rest
      BY <3>1, <3>2, TransitionsQuiet
    <3> QED BY <2>1, <3>3, <1>0, <1>1, KeepDebounce
  <2> QED BY <1>13, <2>2, <2>3 DEF DoThinking, Events
<1> QED BY <1>2, <1>3, <1>4, <1>5, <1>6, <1>7, <1>8, <1>9, <1>10, <1>11, <1>12,
           <1>13 DEF EffectStep

(* A decision taken between two steps comes before the rest of the agenda. *)
LEMMA KeepPushed ==
  ASSUME TypeOK, DebounceInv, NEW X \in Seq(Effect), Quiet(X),
         agenda' = X \o agenda,
         ds'.cooldown = ds.cooldown \/ ds'.cooldown = "None",
         due'["debounce"] = due["debounce"],
         batch'["debounce"] = batch["debounce"] \/ ds'.cooldown = "None"
  PROVE  DebounceInv'
<1>1. agenda \in Seq(Effect) /\ Quiet(agenda)
  BY DEF TypeOK, DebounceInv
<1>2. Quiet(agenda')
  BY <1>1, QuietConcat
<1>3. \A e : Has(e, agenda) => Has(e, agenda')
  BY <1>1, HasConcat
<1>4. CASE ds'.cooldown = "None"
  BY <1>2, <1>4 DEF DebounceInv, DebounceArmed
<1>5. CASE ds'.cooldown # "None"
  <2>1. /\ ds'.cooldown = ds.cooldown
        /\ Armed(due, "debounce") => Armed(due', "debounce")
        /\ Armed(batch, "debounce") => Armed(batch', "debounce")
    BY <1>5 DEF Armed
  <2> QED BY <1>2, <1>3, <2>1, KeepGuard
<1> QED BY <1>4, <1>5

LEMMA KeepSame ==
  ASSUME DebounceInv, UNCHANGED <<agenda, due, batch>>, ds'.cooldown = ds.cooldown
  PROVE  DebounceInv'
BY DEF DebounceInv, DebounceArmed, Quiet, Has, Armed

(* The timers of a batch are handled before the loop goes on.              *)
BatchHandled == pc # "timers" => batch = NoTimers

LEMMA BatchStep == BatchHandled /\ [Next]_vars => BatchHandled'
<1> SUFFICES ASSUME BatchHandled, [Next]_vars PROVE BatchHandled'
  OBVIOUS
<1> USE DEF loopVars, timeVars, BatchHandled
<1>1. CASE EffectStep
  BY <1>1 DEF EffectStep, DoTransition, DoCommitWorkspace, DoCancelLlm, DoExpand,
              DoClassify, DoTimer, DoEmitToolCallFrames, DoActing,
              DoRecordToolResult, DoResponding, DoUserMessage, DoThinking
<1>2. CASE LlmStep
  BY <1>2 DEF LlmStep, LlmAbandoned, LlmReturns, LlmThrows
<1>3. CASE LoopStep
  BY <1>3 DEF LoopStep, Wake, LoopBreak, ExpireNext, EndIteration,
              HandleInterruption, BargeIn, HandleActingResult, FeedUserMessage,
              FeedSystemEvent, IgnoreObservation, Dequeue
<1>4. CASE EnvironmentStep
  BY <1>4 DEF EnvironmentStep, SendUser, SendSystemEvent, ToolAnswers,
              InterruptCheck, FinishInterrupt, InterruptFlag, InterruptEnqueue,
              RequestShutdown
<1>5. CASE Start \/ Terminate \/ Tick \/ UNCHANGED vars
  BY <1>5 DEF Start, Terminate, Tick, vars
<1> QED BY <1>1, <1>2, <1>3, <1>4, <1>5 DEF Next

LEMMA LlmStepArmed ==
  ASSUME TypeOK, DebounceInv, LlmStep PROVE DebounceInv'
<1>1. ds \in DialogueState /\ fresh \subseteq Tools
  BY DEF TypeOK
<1>2. CASE LlmAbandoned
  BY <1>2, KeepSame DEF LlmAbandoned, timeVars
<1>3. ASSUME NEW type \in {"ToolCall", "Response", "Continue"},
             NEW calls \in SUBSET Tools, LlmReturns(type, calls)
      PROVE  DebounceInv'
  <2>1. PICK d : /\ d = HandleLlmCompleted(ds, type, calls)
                 /\ ds' = d.next /\ agenda' = d.effects \o agenda
                 /\ UNCHANGED timeVars
    BY <1>3 DEF LlmReturns, Apply
  <2>2. d.effects \in Seq(Effect) /\ Quiet(d.effects) /\ d.next.cooldown = ds.cooldown
    BY <1>1, <2>1, LlmCompletedType, CompletedQuiet, LlmCompletedLeaves
    DEF Leaves, DecisionOK
  <2> QED BY <2>1, <2>2, KeepPushed DEF timeVars
<1>4. CASE LlmThrows
  <2>1. CASE UNCHANGED <<ds, agenda>>
    BY <1>4, <2>1, KeepSame DEF LlmThrows, timeVars
  <2>2. CASE Apply(HandleLlmFailed(ds), agenda)
    <3>1. PICK d : /\ d = HandleLlmFailed(ds)
                   /\ ds' = d.next /\ agenda' = d.effects \o agenda
                   /\ UNCHANGED timeVars
      BY <1>4, <2>2 DEF LlmThrows, Apply
    <3>2. d.effects \in Seq(Effect) /\ Quiet(d.effects) /\ d.next.cooldown = ds.cooldown
      BY <1>1, <3>1, LlmFailedType, HandlerQuiet, OtherLeaves DEF Leaves, DecisionOK
    <3> QED BY <3>1, <3>2, KeepPushed DEF timeVars
  <2> QED BY <1>4, <2>1, <2>2 DEF LlmThrows
<1> QED BY <1>1, <1>2, <1>3, <1>4 DEF LlmStep

LEMMA WakeArmed ==
  ASSUME TypeOK, DebounceInv, BatchHandled, Wake PROVE DebounceInv'
<1>1. "debounce" \in TimerIds
  BY DEF TimerIds
<1>2. ~Armed(batch, "debounce")
  BY <1>1 DEF Wake, BatchHandled, NoTimers, Armed
<1>3. Armed(due, "debounce") =>
        Armed(due', "debounce") \/ Armed(batch', "debounce")
  BY <1>1 DEF Wake, Armed, Due
<1>4. UNCHANGED <<ds, agenda>>
  BY DEF Wake
<1> QED BY <1>2, <1>3, <1>4 DEF DebounceInv, DebounceArmed, Quiet, Has

LEMMA ExpireArmed ==
  ASSUME TypeOK, DebounceInv, ExpireNext PROVE DebounceInv'
<1>1. ds \in DialogueState /\ agg \in SUBSET Nat
  BY DEF TypeOK
<1>2. PICK id \in TimerIds :
        /\ batch' = [batch EXCEPT ![id] = Off]
        /\ \/ id = "aggregation" /\ ExpireAggregation
           \/ id = "debounce" /\ Apply(HandleDebounceCooldownExpired(ds), agenda)
           \/ id = "tool_call_timeout" /\ Apply(HandleToolCallTimeout(ds), agenda)
  BY DEF ExpireNext
<1>3. due' = due
  BY DEF ExpireNext
<1>4. batch \in [TimerIds -> Int] /\ "debounce" \in TimerIds
  BY DEF TypeOK, TimerIds
<1>5. id # "debounce" => batch'["debounce"] = batch["debounce"]
  BY <1>2, <1>4
<1>6. CASE id = "aggregation"
  <2>1. CASE UNCHANGED <<ds, agenda>>
    BY <1>3, <1>5, <1>6, <2>1 DEF DebounceInv, DebounceArmed, Quiet, Has, Armed
  <2>2. CASE Apply(HandleUserMessage(ds, agg), agenda)
    <3>1. PICK d : /\ d = HandleUserMessage(ds, agg)
                   /\ ds' = d.next /\ agenda' = d.effects \o agenda
      BY <2>2 DEF Apply
    <3>2. d.effects \in Seq(Effect) /\ Quiet(d.effects) /\ d.next.cooldown = ds.cooldown
      BY <1>1, <3>1, UserMessageType, HandlerQuiet, UserMessageLeaves
      DEF Leaves, DecisionOK
    <3> QED BY <1>3, <1>5, <1>6, <3>1, <3>2, KeepPushed
  <2> QED BY <1>2, <1>6, <2>1, <2>2 DEF ExpireAggregation
<1>7. CASE id = "debounce"
  <2>1. PICK d : /\ d = HandleDebounceCooldownExpired(ds)
                 /\ ds' = d.next /\ agenda' = d.effects \o agenda
    BY <1>2, <1>7 DEF Apply
  <2>2. d.effects \in Seq(Effect) /\ Quiet(d.effects) /\ d.next.cooldown = "None"
    BY <1>1, <2>1, DebounceType, HandlerQuiet, DebounceLeaves DEF Leaves, DecisionOK
  <2> QED BY <1>3, <2>1, <2>2, KeepPushed
<1>8. CASE id = "tool_call_timeout"
  <2>1. PICK d : /\ d = HandleToolCallTimeout(ds)
                 /\ ds' = d.next /\ agenda' = d.effects \o agenda
    BY <1>2, <1>8 DEF Apply
  <2>2. d.effects \in Seq(Effect) /\ Quiet(d.effects) /\ d.next.cooldown = ds.cooldown
    BY <1>1, <2>1, ToolCallTimeoutType, HandlerQuiet, OtherLeaves
    DEF Leaves, DecisionOK
  <2> QED BY <1>3, <1>5, <1>8, <2>1, <2>2, KeepPushed
<1> QED BY <1>6, <1>7, <1>8 DEF TimerIds

(* The interrupt brings its own timer with it.                             *)
LEMMA InterruptArmed ==
  ASSUME TypeOK, NEW rest \in Seq(Effect), Quiet(rest),
         agenda' = HandleInterrupt(ds).effects \o rest
  PROVE  DebounceInv'
<1>1. PICK X : X = HandleInterrupt(ds).effects
  OBVIOUS
<1>2. X \in Seq(Effect) /\ Quiet(X) /\ Has(ScheduleTimer("debounce"), X)
  BY <1>1, InterruptEffects DEF TypeOK
<1>3. Quiet(agenda') /\ Has(ScheduleTimer("debounce"), agenda')
  BY <1>1, <1>2, QuietConcat, HasConcat
<1> QED BY <1>3 DEF DebounceInv, DebounceArmed, Has

LEMMA FeedArmed ==
  ASSUME TypeOK, TypeOK', DebounceInv, FeedUserMessage \/ FeedSystemEvent
  PROVE  DebounceInv'
<1>1. /\ ds \in DialogueState /\ agenda \in Seq(Effect)
      /\ due \in [TimerIds -> Int] /\ "debounce" \in TimerIds
  BY DEF TypeOK, TimerIds
<1>2. PICK s \in DialogueState :
        /\ s = IF fsm = "Idle" THEN ResetBudgetWindow(ds) ELSE ds
        /\ s.cooldown = ds.cooldown
  BY <1>1, ResetType, StateLeaves
<1>3. CASE FeedUserMessage
  <2>1. due'["debounce"] = due["debounce"] /\ batch' = batch
    BY <1>1, <1>3 DEF FeedUserMessage, Fed
  <2>2. PICK msgs : /\ msgs = (IF fsm = "Idle" THEN {} ELSE agg) \cup {Head(queue).msg}
                    /\ \/ ds' = s /\ agenda' = agenda
                       \/ Apply(HandleUserMessage(s, msgs), agenda)
    BY <1>2, <1>3 DEF FeedUserMessage, Fed
  <2>3. msgs \in SUBSET Nat
    <3>1. Head(queue) \in Observation /\ Head(queue).type = "UserMessage"
      BY <1>3, QueueType DEF FeedUserMessage, Fed, Dequeue
    <3> QED BY <2>2, <3>1, ObservationTypes DEF TypeOK
  <2>4. CASE ds' = s /\ agenda' = agenda
    BY <1>2, <2>1, <2>4 DEF DebounceInv, DebounceArmed, Quiet, Has, Armed
  <2>5. CASE Apply(HandleUserMessage(s, msgs), agenda)
    <3>1. PICK d : /\ d = HandleUserMessage(s, msgs)
                   /\ ds' = d.next /\ agenda' = d.effects \o agenda
      BY <2>5 DEF Apply
    <3>2. d.effects \in Seq(Effect) /\ Quiet(d.effects) /\ d.next.cooldown = ds.cooldown
      BY <1>2, <2>3, <3>1, UserMessageType, HandlerQuiet, UserMessageLeaves
      DEF Leaves, DecisionOK
    <3> QED BY <2>1, <3>1, <3>2, KeepPushed
  <2> QED BY <2>2, <2>4, <2>5
<1>4. CASE FeedSystemEvent
  <2>1. Apply(HandleSystemEvent(s), agenda) /\ UNCHANGED timeVars
    BY <1>2, <1>4 DEF FeedSystemEvent
  <2>2. PICK d : /\ d = HandleSystemEvent(s)
                 /\ ds' = d.next /\ agenda' = d.effects \o agenda
    BY <2>1 DEF Apply
  <2>3. d.effects \in Seq(Effect) /\ Quiet(d.effects) /\ d.next.cooldown = ds.cooldown
    BY <1>2, <2>2, SystemEventType, HandlerQuiet, OtherLeaves
    DEF Leaves, DecisionOK
  <2> QED BY <2>1, <2>2, <2>3, KeepPushed DEF timeVars
<1> QED BY <1>3, <1>4

LEMMA LoopStepArmed ==
  ASSUME TypeOK, TypeOK', DebounceInv, BatchHandled, LoopStep PROVE DebounceInv'
<1>1. ds \in DialogueState /\ agenda \in Seq(Effect) /\ Quiet(agenda)
  BY DEF TypeOK, DebounceInv
<1>2. CASE Wake
  BY <1>2, WakeArmed
<1>3. CASE ExpireNext
  BY <1>3, ExpireArmed
<1>4. CASE HandleInterruption
  BY <1>1, <1>4, InterruptArmed DEF HandleInterruption, Apply
<1>5. CASE BargeIn
  <2>1. PICK rest : rest = <<UserMessageReceived, CommitWorkspace>>
    OBVIOUS
  <2>2. rest \in Seq(Effect) /\ Quiet(rest)
    BY <2>1, SeqOf2, PlainEffects, Quiet2, QuietEffects
  <2>3. agenda' = HandleInterrupt(ds).effects \o rest
    BY <1>5, <2>1 DEF BargeIn
  <2> QED BY <2>2, <2>3, InterruptArmed
<1>6. CASE HandleActingResult
  <2>1. PICK d : /\ d = HandleToolResult(ds, Head(queue).id, Head(queue).ok)
                 /\ ds' = d.next /\ agenda' = d.effects \o agenda
    BY <1>6 DEF HandleActingResult, Apply
  <2>2. Head(queue) \in Observation /\ Head(queue).type = "ToolResult"
    BY <1>6, QueueType DEF HandleActingResult, Dequeue
  <2>3. d.effects \in Seq(Effect) /\ Quiet(d.effects) /\ d.next.cooldown = ds.cooldown
    BY <1>1, <2>1, <2>2, ObservationTypes, ToolResultType, HandlerQuiet, OtherLeaves
    DEF Leaves, DecisionOK
  <2>4. UNCHANGED timeVars
    BY <1>6 DEF HandleActingResult
  <2> QED BY <2>1, <2>3, <2>4, KeepPushed DEF timeVars
<1>7. CASE FeedUserMessage \/ FeedSystemEvent
  BY <1>7, FeedArmed
<1>8. CASE LoopBreak \/ EndIteration \/ IgnoreObservation
  BY <1>8, KeepSame DEF LoopBreak, EndIteration, IgnoreObservation, timeVars
<1> QED BY <1>2, <1>3, <1>4, <1>5, <1>6, <1>7, <1>8 DEF LoopStep

LEMMA TickArmed == ASSUME TypeOK, DebounceInv, Tick PROVE DebounceInv'
<1>1. /\ due["debounce"] \in Int /\ "debounce" \in TimerIds
  BY DEF TypeOK, TimerIds
<1>2. UNCHANGED <<ds, agenda, batch>>
  BY DEF Tick, loopVars
<1>3. Armed(due, "debounce") => Armed(due', "debounce")
  <2>1. ASSUME Armed(due, "debounce") PROVE due'["debounce"] # Off
    <3>1. due["debounce"] > -MaxLate /\ due'["debounce"] = due["debounce"] - 1
      BY <1>1, <2>1 DEF Tick
    <3> QED BY <1>1, <3>1, ArmedTimer
  <2> QED BY <2>1 DEF Armed
<1> QED BY <1>2, <1>3 DEF DebounceInv, DebounceArmed, Quiet, Has, Armed

LEMMA DebounceStep ==
  TypeOK /\ TypeOK' /\ DebounceInv /\ BatchHandled /\ [Next]_vars => DebounceInv'
<1> SUFFICES ASSUME TypeOK, TypeOK', DebounceInv, BatchHandled, [Next]_vars
             PROVE  DebounceInv'
  OBVIOUS
<1>1. CASE EffectStep
  BY <1>1, EffectStepArmed
<1>2. CASE LlmStep
  BY <1>2, LlmStepArmed
<1>3. CASE LoopStep
  BY <1>3, LoopStepArmed
<1>4. CASE EnvironmentStep
  BY <1>4, KeepSame
  DEF EnvironmentStep, SendUser, SendSystemEvent, ToolAnswers, InterruptCheck,
      FinishInterrupt, InterruptFlag, InterruptEnqueue, RequestShutdown,
      loopVars, timeVars
<1>5. CASE Tick
  BY <1>5, TickArmed
<1>6. CASE Start \/ Terminate \/ UNCHANGED vars
  BY <1>6, KeepSame DEF Start, Terminate, vars, loopVars, timeVars
<1> QED BY <1>1, <1>2, <1>3, <1>4, <1>5, <1>6 DEF Next

(* A debouncing dialogue always has a timer, armed, expired or about to be *)
(* scheduled, that ends the debounce: no interleaving of interrupts,       *)
(* barge-ins, tool timeouts and completions loses it.                      *)
THEOREM DebounceIsArmed == Spec => []DebounceArmed
<1>1. Init => DebounceInv /\ BatchHandled
  BY DEF Init, InitialDialogue, DebounceInv, DebounceArmed, BatchHandled, Quiet, Has
<1>2. DebounceInv => DebounceArmed
  BY DEF DebounceInv
<1> QED BY <1>1, <1>2, DebounceStep, BatchStep, TypeCorrect, PTL DEF Spec

-----------------------------------------------------------------------------
(* The timers that end a wait.  First what a step does to the agenda,      *)
(* whichever handler runs: it takes off the first effect and puts others   *)
(* in front of what was left.                                              *)

(* Most effects neither cancel a timer nor feed the barge-in's message.    *)
Ordinary == {e \in Effect : e.op \notin {"CancelTimer", "UserMessageReceived"}}

LEMMA OrdinaryEffects ==
  /\ CommitWorkspace \in Ordinary /\ CancelLlm \in Ordinary /\ StartLlm \in Ordinary
  /\ StartLlmContinuation \in Ordinary /\ SignalBudgetExhausted \in Ordinary
  /\ DeliverResponse \in Ordinary /\ RecordTimeoutResults \in Ordinary
  /\ HandleThinking \in Ordinary /\ HandleResponding \in Ordinary
BY PlainEffects
DEF Ordinary, CommitWorkspace, CancelLlm, StartLlm, StartLlmContinuation,
    SignalBudgetExhausted, DeliverResponse, RecordTimeoutResults,
    HandleThinking, HandleResponding

LEMMA OrdinaryParameters ==
  /\ \A id \in TimerIds : ScheduleTimer(id) \in Ordinary
  /\ \A e \in Events : TransitionState(e) \in Ordinary
  /\ \A n \in Nat : StartTurnTriggerClassification(n) \in Ordinary
  /\ \A calls \in SUBSET Tools :
       EmitToolCallFrames(calls) \in Ordinary /\ HandleActing(calls) \in Ordinary
  /\ \A ok \in BOOLEAN : RecordToolResult(ok) \in Ordinary
BY TimerEffects, ParameterEffects
DEF Ordinary, ScheduleTimer, TransitionState, StartTurnTriggerClassification,
    EmitToolCallFrames, HandleActing, RecordToolResult

LEMMA OrdinaryTransitions ==
  /\ \A e \in Events : <<TransitionState(e)>> \in Seq(Ordinary)
  /\ \A e, f \in Events : <<TransitionState(e), TransitionState(f)>> \in Seq(Ordinary)
  /\ \A e, f \in Events, g \in Ordinary :
       <<TransitionState(e), TransitionState(f), g>> \in Seq(Ordinary)
<1>1. \A e \in Events : TransitionState(e) \in Ordinary
  BY OrdinaryParameters
<1> QED BY <1>1, SeqOf1, SeqOf2, SeqOf3

(* What a handler decides leaves the wait for tools alone, or ends it.     *)
Awaits(s) == s.deliberation = "AwaitingToolResults"

DecisionOrdinary(d, s) ==
  d.effects \in Seq(Ordinary) /\ (Awaits(d.next) => Awaits(s))

LEMMA OrdinaryDecision ==
  ASSUME NEW t, NEW e \in Seq(Ordinary), NEW s, Awaits(t) => Awaits(s)
  PROVE  DecisionOrdinary(Decision(t, e), s)
BY DecisionFields DEF DecisionOrdinary

LEMMA NoOpOrdinary ==
  ASSUME NEW s, NEW t, Awaits(t) => Awaits(s) PROVE DecisionOrdinary(NoOp(t), s)
BY SeqOf0, OrdinaryDecision DEF NoOp

LEMMA DebounceOrdinary ==
  ASSUME NEW s \in DialogueState
  PROVE  DecisionOrdinary(HandleDebounceCooldownExpired(s), s)
<1> DEFINE t == [s EXCEPT !.cooldown = "None"]
           e == <<CommitWorkspace, IF IsBudgetExhausted(s)
                                   THEN SignalBudgetExhausted
                                   ELSE StartLlmContinuation>>
<1>1. Awaits(t) => Awaits(s)
  BY DEF Awaits, DialogueState
<1>2. e \in Seq(Ordinary)
  BY SeqOf2, OrdinaryEffects
<1>3. HandleDebounceCooldownExpired(s) = Decision(t, e)
  BY DEF HandleDebounceCooldownExpired
<1> HIDE DEF t, e
<1> QED BY <1>1, <1>2, <1>3, OrdinaryDecision

LEMMA UserMessageOrdinary ==
  ASSUME NEW s \in DialogueState, NEW msgs \in SUBSET Nat
  PROVE  DecisionOrdinary(HandleUserMessage(s, msgs), s)
<1> DEFINE n == s.lastTrigger + 1
           b == [s EXCEPT !.fragments = @ \cup msgs]
           t == [s EXCEPT !.tokens = 0, !.actions = 0, !.continuations = 0,
                          !.fragments = @ \cup msgs,
                          !.lastTrigger = n, !.trigger = n,
                          !.deliberation = "AwaitingTurnTrigger"]
           e == <<CommitWorkspace, StartTurnTriggerClassification(n)>>
<1>1. Awaits(b) => Awaits(s)
  BY DEF Awaits, DialogueState
<1>2. ~Awaits(t)
  BY DEF Awaits, DialogueState
<1>3. n \in Nat
  BY DEF DialogueState
<1>4. e \in Seq(Ordinary)
  BY <1>3, SeqOf2, OrdinaryEffects, OrdinaryParameters
<1>5. HandleUserMessage(s, msgs) \in {NoOp(b), NoOp(s), Decision(t, e)}
  BY DEF HandleUserMessage
<1> HIDE DEF b, t, e
<1>6. /\ DecisionOrdinary(NoOp(b), s) /\ DecisionOrdinary(NoOp(s), s)
      /\ DecisionOrdinary(Decision(t, e), s)
  BY <1>1, <1>2, <1>4, NoOpOrdinary, OrdinaryDecision
<1> QED BY <1>5, <1>6

LEMMA ClassifiedOrdinary ==
  ASSUME NEW s \in DialogueState, NEW n
  PROVE  DecisionOrdinary(HandleTurnTriggerClassified(s, n), s)
<1> DEFINE t == [s EXCEPT !.trigger = 0, !.deliberation = "Thinking"]
<1>1. ~Awaits(t)
  BY DEF Awaits, DialogueState
<1>2. <<StartLlm>> \in Seq(Ordinary)
  BY SeqOf1, OrdinaryEffects
<1>3. HandleTurnTriggerClassified(s, n) \in {NoOp(s), Decision(t, <<StartLlm>>)}
  BY DEF HandleTurnTriggerClassified
<1> HIDE DEF t
<1>4. DecisionOrdinary(NoOp(s), s) /\ DecisionOrdinary(Decision(t, <<StartLlm>>), s)
  BY <1>1, <1>2, NoOpOrdinary, OrdinaryDecision
<1> QED BY <1>3, <1>4

LEMMA LlmFailedOrdinary ==
  ASSUME NEW s \in DialogueState PROVE DecisionOrdinary(HandleLlmFailed(s), s)
<1>1. ~Awaits([s EXCEPT !.deliberation = "Idle"])
  BY DEF Awaits, DialogueState
<1>2. <<TransitionState("LlmFailure")>> \in Seq(Ordinary)
  BY OrdinaryTransitions DEF Events
<1> QED BY <1>1, <1>2, OrdinaryDecision DEF HandleLlmFailed

LEMMA ToolCallTimeoutOrdinary ==
  ASSUME NEW s \in DialogueState
  PROVE  /\ DecisionOrdinary(HandleToolCallTimeout(s), s)
         /\ ~Awaits(HandleToolCallTimeout(s).next)
<1> DEFINE t == [s EXCEPT !.deliberation = "Thinking", !.pending = {}, !.results = {}]
<1>1. ~Awaits(t)
  BY DEF Awaits, DialogueState
<1>2. <<RecordTimeoutResults, StartLlm>> \in Seq(Ordinary)
  BY SeqOf2, OrdinaryEffects
<1>3. HandleToolCallTimeout(s) = Decision(t, <<RecordTimeoutResults, StartLlm>>)
  BY DEF HandleToolCallTimeout
<1> HIDE DEF t
<1>4. DecisionOrdinary(Decision(t, <<RecordTimeoutResults, StartLlm>>), s)
  BY <1>1, <1>2, OrdinaryDecision
<1>5. Decision(t, <<RecordTimeoutResults, StartLlm>>).next = t
  BY DecisionFields
<1> QED BY <1>1, <1>3, <1>4, <1>5

LEMMA SystemEventOrdinary ==
  ASSUME NEW s \in DialogueState PROVE DecisionOrdinary(HandleSystemEvent(s), s)
<1> DEFINE t == [s EXCEPT !.deliberation = "Thinking"]
<1>1. ~Awaits(t)
  BY DEF Awaits, DialogueState
<1>2. <<StartLlm>> \in Seq(Ordinary)
  BY SeqOf1, OrdinaryEffects
<1>3. HandleSystemEvent(s) \in {NoOp(s), Decision(t, <<StartLlm>>)}
  BY DEF HandleSystemEvent
<1> HIDE DEF t
<1>4. DecisionOrdinary(NoOp(s), s) /\ DecisionOrdinary(Decision(t, <<StartLlm>>), s)
  BY <1>1, <1>2, NoOpOrdinary, OrdinaryDecision
<1> QED BY <1>3, <1>4

(* A completion that requests tools begins the wait, and brings its timer. *)
LEMMA CompletedOrdinary ==
  ASSUME NEW s \in DialogueState, NEW calls \in SUBSET Tools,
         NEW type \in {"ToolCall", "Response", "Continue"}
  PROVE  LET d == HandleLlmCompleted(s, type, calls) IN
         /\ d.effects \in Seq(Ordinary)
         /\ Awaits(d.next) =>
              Awaits(s) \/ Has(ScheduleTimer("tool_call_timeout"), d.effects)
<1> DEFINE e == <<EmitToolCallFrames(calls), ScheduleTimer("tool_call_timeout")>>
           c == CountCompletion(s)
<1>0. c \in DialogueState
  <2>1. s.tokens + 1 \in Nat
    BY DEF DialogueState
  <2> QED BY <2>1 DEF CountCompletion, DialogueState
<1>1. e \in Seq(Ordinary) /\ Has(ScheduleTimer("tool_call_timeout"), e)
  <2>1. e \in Seq(Ordinary)
    BY SeqOf2, OrdinaryParameters DEF TimerIds
  <2>2. DOMAIN e = {1, 2} /\ e[2] = ScheduleTimer("tool_call_timeout")
    OBVIOUS
  <2> QED BY <2>1, <2>2 DEF Has
<1>2. /\ <<DeliverResponse>> \in Seq(Ordinary) /\ <<SignalBudgetExhausted>> \in Seq(Ordinary)
      /\ <<StartLlm>> \in Seq(Ordinary)
  BY SeqOf1, OrdinaryEffects
<1>3. \E t : AwaitToolResults(c, calls) = Decision(t, e)
  BY Zenon DEF AwaitToolResults
<1>4. \E t : ~Awaits(t) /\ DeliverAnswer(c) = Decision(t, <<DeliverResponse>>)
  <2>1. ~Awaits([c EXCEPT !.deliberation = "Idle"])
    BY <1>0 DEF Awaits, DialogueState
  <2> QED BY <2>1, Zenon DEF DeliverAnswer
<1>5. \E t : /\ ~Awaits(t)
             /\ \/ ContinueThinking(c) = Decision(t, <<SignalBudgetExhausted>>)
                \/ ContinueThinking(c) = Decision(t, <<StartLlm>>)
  <2> DEFINE u == [c EXCEPT !.continuations = @ + 1, !.deliberation = "Idle"]
             v == [c EXCEPT !.continuations = @ + 1, !.deliberation = "Thinking"]
  <2>1. ~Awaits(u) /\ ~Awaits(v)
    BY <1>0 DEF Awaits, DialogueState
  <2>2. \/ ContinueThinking(c) = Decision(u, <<SignalBudgetExhausted>>)
        \/ ContinueThinking(c) = Decision(v, <<StartLlm>>)
    BY Zenon DEF ContinueThinking
  <2> HIDE DEF u, v
  <2> QED BY <2>1, <2>2
<1>6. HandleLlmCompleted(s, type, calls) \in
        {AwaitToolResults(c, calls), DeliverAnswer(c), ContinueThinking(c)}
  BY DEF HandleLlmCompleted
<1> HIDE DEF e, c
<1>7. PICK t, x : /\ HandleLlmCompleted(s, type, calls) = Decision(t, x)
                  /\ x \in Seq(Ordinary)
                  /\ ~Awaits(t) \/ Has(ScheduleTimer("tool_call_timeout"), x)
  BY <1>1, <1>2, <1>3, <1>4, <1>5, <1>6
<1> QED BY <1>7, DecisionFields

-----------------------------------------------------------------------------
(* What the steps do to the agenda.                                        *)

(* The effects that start nothing: the controller is done with them before *)
(* it goes on to the next.                                                 *)
Harmless == {e \in Effect : e.op \in {"CommitWorkspace", "CancelLlm", "TransitionState",
                                      "ScheduleTimer", "CancelTimer", "RecordToolResult"}}

LEMMA ExpansionOrdinary ==
  ASSUME NEW e \in Effect,
         e.op \in {"StartLlm", "StartLlmContinuation", "DeliverResponse",
                   "SignalBudgetExhausted", "RecordTimeoutResults"}
  PROVE  Expansion(e) \in Seq(Ordinary)
<1>0. /\ {"UserObservation", "ActionComplete", "ActionFailed", "LlmResult",
          "RouteToContinue", "RouteToResponse", "StopConditionMet"} \subseteq Events
      /\ HandleThinking \in Ordinary /\ HandleResponding \in Ordinary
  BY OrdinaryEffects DEF Events
<1>1. CASE e.op = "StartLlm"
  <2>1. PICK first : first = EnterThinking
    OBVIOUS
  <2>2. first \in Seq(Ordinary)
    <3> DEFINE ev == IF toolOk THEN "ActionComplete" ELSE "ActionFailed"
    <3>1. ev \in Events
      BY <1>0
    <3>2. \/ first = <<TransitionState("UserObservation")>>
          \/ first = <<TransitionState(ev)>>
          \/ first = <<TransitionState("LlmResult"), TransitionState("RouteToContinue")>>
          \/ first = <<>>
      BY <2>1 DEF EnterThinking
    <3> HIDE DEF ev
    <3> QED BY <1>0, <3>1, <3>2, OrdinaryTransitions, SeqOf0
  <2>3. PICK last : last = <<HandleThinking>>
    OBVIOUS
  <2>4. last \in Seq(Ordinary)
    BY <1>0, <2>3, SeqOf1
  <2>5. Expansion(e) = first \o last
    BY <1>1, <2>1, <2>3 DEF Expansion
  <2> QED BY <2>2, <2>4, <2>5, SeqConcat
<1>2. CASE e.op = "StartLlmContinuation"
  <2>1. <<TransitionState("UserObservation"), HandleThinking>> \in Seq(Ordinary)
    BY <1>0, OrdinaryParameters, SeqOf2
  <2> QED BY <1>2, <2>1 DEF Expansion
<1>3. CASE e.op = "DeliverResponse"
  <2>1. <<TransitionState("LlmResult"), TransitionState("RouteToResponse"),
          HandleResponding>> \in Seq(Ordinary)
    BY <1>0, OrdinaryTransitions
  <2>2. <<HandleResponding>> \in Seq(Ordinary)
    BY <1>0, SeqOf1
  <2> QED BY <1>3, <2>1, <2>2 DEF Expansion
<1>4. CASE e.op = "SignalBudgetExhausted"
  BY <1>0, <1>4, OrdinaryTransitions DEF Expansion
<1>5. CASE e.op = "RecordTimeoutResults"
  BY <1>0, <1>5, OrdinaryTransitions, SeqOf0 DEF Expansion
<1> QED BY <1>1, <1>2, <1>3, <1>4, <1>5

(* An effect is applied: X comes in its place.                             *)
Applied(X) ==
  /\ X \in Seq(Ordinary) /\ agenda' = X \o Rest
  /\ Head(agenda) \in Harmless => X \in Seq(Harmless) /\ call' = 0
  /\ Awaits(ds') => Awaits(ds)

LEMMA NothingApplied ==
  ASSUME TypeOK, agenda # <<>>, agenda' = Rest, Awaits(ds') => Awaits(ds),
         Head(agenda) \in Harmless => call' = 0
  PROVE  \E X : Applied(X)
<1>1. Rest \in Seq(Effect)
  BY HeadType DEF TypeOK
<1>2. PICK X : X = <<>>
  OBVIOUS
<1>3. X \o Rest = Rest
  BY <1>1, <1>2
<1>4. X \in Seq(Ordinary) /\ X \in Seq(Harmless)
  BY <1>2, SeqOf0
<1> QED BY <1>3, <1>4 DEF Applied

LEMMA EffectAgenda ==
  ASSUME TypeOK, EffectStep
  PROVE  /\ agenda # <<>> /\ call = 0 /\ agenda \in Seq(Effect)
         /\ Head(agenda) \in Effect /\ Rest \in Seq(Effect)
         /\ \E X : Applied(X)
<1>0. /\ agenda # <<>> /\ call = 0 /\ Head(agenda) \in Effect
      /\ Rest \in Seq(Effect) /\ ds \in DialogueState /\ agenda \in Seq(Effect)
  <2>1. agenda # <<>> /\ call = 0
    BY DEF EffectStep, DoTransition, DoCommitWorkspace, DoCancelLlm, DoExpand,
           DoClassify, DoTimer, DoEmitToolCallFrames, DoActing,
           DoRecordToolResult, DoResponding, DoUserMessage, DoThinking, Doing
  <2> QED BY <2>1, HeadType DEF TypeOK
<1>1. CASE DoTransition \/ DoTimer \/ DoRecordToolResult
  <2>1. agenda' = Rest /\ ds' = ds /\ call' = call
    BY <1>1 DEF DoTransition, DoTimer, DoRecordToolResult
  <2> QED BY <1>0, <2>1, NothingApplied
<1>2. CASE DoCommitWorkspace
  <2>1. agenda' = Rest /\ ds' = [ds EXCEPT !.fragments = {}] /\ call' = call
    BY <1>2 DEF DoCommitWorkspace
  <2>2. Awaits(ds') => Awaits(ds)
    BY <1>0, <2>1 DEF Awaits, DialogueState
  <2> QED BY <1>0, <2>1, <2>2, NothingApplied
<1>3. CASE DoCancelLlm
  <2>1. PICK X : X = <<TransitionState("Interrupt")>>
    OBVIOUS
  <2>2. agenda' = X \o Rest /\ ds' = ds /\ call' = call
    BY <1>3, <2>1 DEF DoCancelLlm
  <2>3. X \in Seq(Ordinary) /\ X \in Seq(Harmless)
    <3>1. "Interrupt" \in Events
      BY DEF Events
    <3>2. TransitionState("Interrupt") \in Harmless
      BY <3>1, ParameterEffects DEF Harmless, TransitionState
    <3> QED BY <2>1, <3>1, <3>2, OrdinaryTransitions, SeqOf1
  <2> QED BY <1>0, <2>2, <2>3 DEF Applied
<1>4. CASE DoExpand
  <2>1. /\ Head(agenda).op \in {"StartLlm", "StartLlmContinuation", "DeliverResponse",
                                "SignalBudgetExhausted", "RecordTimeoutResults"}
        /\ agenda' = Expansion(Head(agenda)) \o Rest /\ ds' = ds
    BY <1>4 DEF DoExpand
  <2>2. Expansion(Head(agenda)) \in Seq(Ordinary) /\ Head(agenda) \notin Harmless
    BY <1>0, <2>1, ExpansionOrdinary DEF Harmless
  <2> QED BY <1>0, <2>1, <2>2 DEF Applied
<1>5. CASE DoClassify
  <2>1. PICK d : /\ d = HandleTurnTriggerClassified(ds, Head(agenda).trigger)
                 /\ ds' = d.next /\ agenda' = d.effects \o Rest
                 /\ Head(agenda).op = "StartTurnTriggerClassification"
    BY <1>5 DEF DoClassify, Apply, Doing
  <2>2. DecisionOrdinary(d, ds) /\ Head(agenda) \notin Harmless
    BY <1>0, <2>1, ClassifiedOrdinary DEF Harmless
  <2> QED BY <1>0, <2>1, <2>2 DEF Applied, DecisionOrdinary
<1>6. CASE DoEmitToolCallFrames
  <2>1. Head(agenda).op = "EmitToolCallFrames" /\ ds' = ds
    BY <1>6 DEF DoEmitToolCallFrames, Doing
  <2>2. Head(agenda).calls \in SUBSET Tools /\ Head(agenda) \notin Harmless
    BY <1>0, <2>1, EffectTypes DEF Harmless
  <2>3. HandleActing(Head(agenda).calls) \in Ordinary /\ HandleThinking \in Ordinary
    BY <2>2, OrdinaryParameters, OrdinaryEffects
  <2>4. {"LlmResult", "RouteToAction", "RouteToContinue"} \subseteq Events
    BY DEF Events
  <2>5. PICK r, e : /\ agenda' = <<TransitionState("LlmResult"), TransitionState(r), e>> \o Rest
                    /\ r \in Events /\ e \in Ordinary
    BY <1>6, <2>3, <2>4 DEF DoEmitToolCallFrames
  <2>6. PICK X : X = <<TransitionState("LlmResult"), TransitionState(r), e>>
    OBVIOUS
  <2>7. X \in Seq(Ordinary) /\ agenda' = X \o Rest
    BY <2>4, <2>5, <2>6, OrdinaryTransitions
  <2> QED BY <1>0, <2>1, <2>2, <2>7 DEF Applied
<1>7. CASE DoActing
  <2>1. /\ Head(agenda).op = "HandleActing" /\ agenda' = Rest
        /\ ds' = CountActions(ds, Head(agenda).calls) /\ call' = call
    BY <1>7 DEF DoActing, Doing
  <2>2. Awaits(ds') => Awaits(ds)
    BY <1>0, <2>1 DEF Awaits, CountActions, DialogueState
  <2> QED BY <1>0, <2>1, <2>2, NothingApplied
<1>8. CASE DoResponding
  <2>1. Head(agenda).op = "HandleResponding" /\ ds' = ds
    BY <1>8 DEF DoResponding, Doing
  <2>2. {"ResponseDelivered", "StopConditionMet"} \subseteq Events
    BY DEF Events
  <2>3. PICK r \in Events : agenda' = <<TransitionState(r)>> \o Rest
    BY <1>8, <2>2 DEF DoResponding
  <2>4. <<TransitionState(r)>> \in Seq(Ordinary) /\ Head(agenda) \notin Harmless
    BY <2>1, OrdinaryTransitions DEF Harmless
  <2> QED BY <1>0, <2>1, <2>3, <2>4 DEF Applied
<1>9. CASE DoUserMessage
  <2>1. PICK d : /\ d = HandleUserMessage(ds, {bargeIn})
                 /\ ds' = d.next /\ agenda' = d.effects \o Rest
                 /\ Head(agenda).op = "UserMessageReceived"
    BY <1>9 DEF DoUserMessage, Apply, Doing
  <2>2. {bargeIn} \in SUBSET Nat
    BY DEF TypeOK
  <2>3. DecisionOrdinary(d, ds) /\ Head(agenda) \notin Harmless
    BY <1>0, <2>1, <2>2, UserMessageOrdinary DEF Harmless
  <2> QED BY <1>0, <2>1, <2>3 DEF Applied, DecisionOrdinary
<1>10. CASE DoThinking
  <2>1. Head(agenda).op = "HandleThinking" /\ ds' = ds
    BY <1>10 DEF DoThinking, Doing
  <2>2. Head(agenda) \notin Harmless
    BY <2>1 DEF Harmless
  <2>3. CASE agenda' = Rest
    BY <1>0, <2>1, <2>2, <2>3, NothingApplied
  <2>4. CASE \E ev \in Events : agenda' = <<TransitionState(ev)>> \o Rest
    <3>1. PICK ev \in Events : agenda' = <<TransitionState(ev)>> \o Rest
      BY <2>4
    <3>2. <<TransitionState(ev)>> \in Seq(Ordinary)
      BY OrdinaryTransitions
    <3> QED BY <1>0, <2>1, <2>2, <3>1, <3>2 DEF Applied
  <2> QED BY <1>10, <2>3, <2>4 DEF DoThinking, Events
<1> QED BY <1>0, <1>1, <1>2, <1>3, <1>4, <1>5, <1>6, <1>7, <1>8, <1>9, <1>10
        DEF EffectStep

LEMMA HasIn ==
  ASSUME NEW S, NEW s \in Seq(S), NEW e, Has(e, s) PROVE e \in S
BY DEF Has

LEMMA OrdinaryHasNot ==
  ASSUME NEW s \in Seq(Ordinary), NEW id PROVE ~Has(CancelTimer(id), s)
BY HasIn DEF Ordinary, CancelTimer

LEMMA AppliedHas ==
  ASSUME TypeOK, EffectStep, NEW X, Applied(X), NEW e
  PROVE  /\ Has(e, agenda) <=> e = Head(agenda) \/ Has(e, Rest)
         /\ Has(e, agenda') <=> Has(e, X) \/ Has(e, Rest)
<1>1. agenda \in Seq(Effect) /\ agenda # <<>> /\ Rest \in Seq(Effect)
  BY EffectAgenda
<1>2. X \in Seq(Effect) /\ agenda' = X \o Rest
  BY DEF Applied, Ordinary
<1>3. Has(e, X \o Rest) <=> Has(e, X) \/ Has(e, Rest)
  BY <1>1, <1>2, HasConcat
<1>4. PICK t : t = X \o Rest
  OBVIOUS
<1> QED BY <1>1, <1>2, <1>3, <1>4, HasHead DEF Rest

(* Only its own effects schedule and cancel a timer.                       *)
LEMMA TimerApplied ==
  ASSUME TypeOK, EffectStep, NEW id \in TimerIds, Head(agenda) # CancelTimer(id)
  PROVE  /\ batch' = batch
         /\ Armed(due, id) => Armed(due', id)
         /\ Head(agenda) = ScheduleTimer(id) => Armed(due', id)
<1>0. due \in [TimerIds -> Int] /\ Head(agenda) \in Effect
  BY EffectAgenda DEF TypeOK
<1>1. CASE /\ Head(agenda).op = "ScheduleTimer"
           /\ due' = [due EXCEPT ![Head(agenda).id] = Duration[Head(agenda).id]]
           /\ batch' = batch
  <2>1. Head(agenda) = ScheduleTimer(id) => Head(agenda).id = id
    BY DEF ScheduleTimer
  <2>2. Duration[id] # Off
    BY ArmedTimer
  <2> QED BY <1>0, <1>1, <2>1, <2>2 DEF Armed
<1>2. CASE /\ Head(agenda).op = "CancelTimer"
           /\ due' = [due EXCEPT ![Head(agenda).id] = Off]
           /\ batch' = batch
  <2>1. Head(agenda).id # id
    BY <1>0, <1>2 DEF Effect, CancelTimer
  <2>2. Head(agenda) # ScheduleTimer(id)
    BY <1>2 DEF ScheduleTimer
  <2> QED BY <1>0, <1>2, <2>1, <2>2 DEF Armed
<1>3. CASE UNCHANGED timeVars /\ Head(agenda).op # "ScheduleTimer"
  <2>1. Head(agenda) # ScheduleTimer(id)
    BY <1>3 DEF ScheduleTimer
  <2> QED BY <1>3, <2>1 DEF timeVars
<1> QED
  BY <1>1, <1>2, <1>3
  DEF EffectStep, DoTransition, DoCommitWorkspace, DoCancelLlm, DoExpand,
      DoClassify, DoTimer, DoEmitToolCallFrames, DoActing,
      DoRecordToolResult, DoResponding, DoUserMessage, DoThinking, Doing

(* A completion comes before what its caller has left.                     *)
LEMMA LlmAgenda ==
  ASSUME TypeOK, LlmStep
  PROVE  /\ call # 0 /\ UNCHANGED timeVars /\ agg' = agg /\ agenda \in Seq(Effect)
         /\ \E X \in Seq(Ordinary) :
              /\ agenda' = X \o agenda
              /\ Awaits(ds') =>
                   Awaits(ds) \/ Has(ScheduleTimer("tool_call_timeout"), X)
<1>0. ds \in DialogueState /\ fresh \subseteq Tools /\ agenda \in Seq(Effect)
  BY DEF TypeOK
<1>1. CASE UNCHANGED <<ds, agenda, timeVars, textVars>> /\ call # 0
  <2>1. PICK X : X = <<>>
    OBVIOUS
  <2>2. X \in Seq(Ordinary) /\ agenda' = X \o agenda
    BY <1>0, <1>1, <2>1, SeqOf0
  <2> QED BY <1>0, <1>1, <2>2 DEF textVars
<1>2. ASSUME NEW type \in {"ToolCall", "Response", "Continue"},
             NEW calls \in SUBSET Tools, LlmReturns(type, calls)
      PROVE  /\ call # 0 /\ UNCHANGED timeVars /\ agg' = agg
             /\ \E X \in Seq(Ordinary) :
                  /\ agenda' = X \o agenda
                  /\ Awaits(ds') =>
                       Awaits(ds) \/ Has(ScheduleTimer("tool_call_timeout"), X)
  <2>1. PICK d : /\ d = HandleLlmCompleted(ds, type, calls)
                 /\ ds' = d.next /\ agenda' = d.effects \o agenda
                 /\ UNCHANGED <<timeVars, textVars>> /\ call # 0
    BY <1>2 DEF LlmReturns, Apply
  <2>2. /\ d.effects \in Seq(Ordinary)
        /\ Awaits(d.next) =>
             Awaits(ds) \/ Has(ScheduleTimer("tool_call_timeout"), d.effects)
    BY <1>0, <2>1, CompletedOrdinary
  <2> QED BY <2>1, <2>2 DEF textVars
<1>3. CASE Apply(HandleLlmFailed(ds), agenda) /\ UNCHANGED <<timeVars, textVars>> /\ call # 0
  <2>1. PICK d : d = HandleLlmFailed(ds) /\ ds' = d.next /\ agenda' = d.effects \o agenda
    BY <1>3 DEF Apply
  <2>2. DecisionOrdinary(d, ds)
    BY <1>0, <2>1, LlmFailedOrdinary
  <2> QED BY <1>0, <1>3, <2>1, <2>2 DEF textVars, DecisionOrdinary
<1>4. CASE LlmAbandoned \/ LlmThrows
  BY <1>1, <1>3, <1>4 DEF LlmAbandoned, LlmThrows
<1> QED BY <1>0, <1>2, <1>4 DEF LlmStep

(* Between two iterations the agenda is empty.                             *)
Decided(X) ==
  /\ agenda = <<>> /\ call = 0 /\ call' = 0
  /\ agenda' = X /\ X \in Seq(Ordinary)
  /\ Awaits(ds') => Awaits(ds)

LEMMA NotBusy == ASSUME ~Busy PROVE agenda = <<>> /\ call = 0
BY DEF Busy

LEMMA DecidedBy ==
  ASSUME ~Busy, call' = call, NEW d, Apply(d, agenda), NEW s, DecisionOrdinary(d, s),
         Awaits(s) => Awaits(ds)
  PROVE  \E X : Decided(X)
<1>1. agenda = <<>> /\ call = 0 /\ ds' = d.next /\ agenda' = d.effects \o agenda
  BY NotBusy DEF Apply
<1>2. d.effects \in Seq(Ordinary) /\ (Awaits(d.next) => Awaits(s))
  BY DEF DecisionOrdinary
<1>3. d.effects \o <<>> = d.effects
  BY <1>2
<1> QED BY <1>1, <1>2, <1>3 DEF Decided

LEMMA DecidedNothing ==
  ASSUME ~Busy, UNCHANGED <<call, agenda>>, Awaits(ds') => Awaits(ds)
  PROVE  \E X : Decided(X)
BY NotBusy, SeqOf0 DEF Decided

LEMMA WindowAwaits ==
  ASSUME NEW s \in DialogueState PROVE Awaits(ResetBudgetWindow(s)) => Awaits(s)
BY DEF Awaits, ResetBudgetWindow, DialogueState

LEMMA ExpireAgenda == ASSUME TypeOK, ExpireNext PROVE \E X : Decided(X)
<1>0. ds \in DialogueState /\ agg \in SUBSET Nat /\ ~Busy /\ call' = call
  BY DEF TypeOK, ExpireNext
<1>1. CASE Apply(HandleUserMessage(ds, agg), agenda)
  BY <1>0, <1>1, UserMessageOrdinary, DecidedBy
<1>2. CASE Apply(HandleDebounceCooldownExpired(ds), agenda)
  BY <1>0, <1>2, DebounceOrdinary, DecidedBy
<1>3. CASE Apply(HandleToolCallTimeout(ds), agenda)
  BY <1>0, <1>3, ToolCallTimeoutOrdinary, DecidedBy
<1>4. CASE UNCHANGED <<ds, agenda>>
  BY <1>0, <1>4, DecidedNothing
<1> QED BY <1>1, <1>2, <1>3, <1>4 DEF ExpireNext, ExpireAggregation

LEMMA FeedAgenda ==
  ASSUME TypeOK, FeedUserMessage \/ FeedSystemEvent PROVE \E X : Decided(X)
<1>0. ds \in DialogueState /\ ~Busy /\ call' = call
  BY DEF TypeOK, FeedUserMessage, FeedSystemEvent, Dequeue
<1>1. PICK s \in DialogueState :
        /\ s = IF fsm = "Idle" THEN ResetBudgetWindow(ds) ELSE ds
        /\ Awaits(s) => Awaits(ds)
  BY <1>0, ResetType, WindowAwaits
<1>2. CASE FeedUserMessage
  <2>1. PICK msgs : /\ msgs = (IF fsm = "Idle" THEN {} ELSE agg) \cup {Head(queue).msg}
                    /\ \/ ds' = s /\ agenda' = agenda
                       \/ Apply(HandleUserMessage(s, msgs), agenda)
    BY <1>1, <1>2 DEF FeedUserMessage, Fed
  <2>2. msgs \in SUBSET Nat
    <3>1. Head(queue) \in Observation /\ Head(queue).type = "UserMessage"
      BY <1>2, QueueType DEF FeedUserMessage, Dequeue
    <3> QED BY <2>1, <3>1, ObservationTypes DEF TypeOK
  <2>3. CASE ds' = s /\ agenda' = agenda
    BY <1>0, <1>1, <2>3, DecidedNothing
  <2>4. CASE Apply(HandleUserMessage(s, msgs), agenda)
    <3>1. DecisionOrdinary(HandleUserMessage(s, msgs), s)
      BY <1>1, <2>2, UserMessageOrdinary
    <3> QED BY <1>0, <1>1, <2>4, <3>1, DecidedBy
  <2> QED BY <2>1, <2>3, <2>4
<1>3. CASE FeedSystemEvent
  <2>1. Apply(HandleSystemEvent(s), agenda)
    BY <1>1, <1>3 DEF FeedSystemEvent
  <2>2. DecisionOrdinary(HandleSystemEvent(s), s)
    BY <1>1, SystemEventOrdinary
  <2> QED BY <1>0, <1>1, <2>1, <2>2, DecidedBy
<1> QED BY <1>2, <1>3

(* A tool result ends the wait, or leaves it as it is.                     *)
ResultEffects(ok) == {RecordToolResult(ok), CancelTimer("tool_call_timeout"), StartLlm}

LEMMA ResultAgenda ==
  ASSUME TypeOK, HandleActingResult
  PROVE  /\ agenda = <<>> /\ call = 0 /\ call' = 0 /\ UNCHANGED <<timeVars, agg>>
         /\ \E ok \in BOOLEAN :
              \/ agenda' = <<RecordToolResult(ok)>> /\ (Awaits(ds') => Awaits(ds))
              \/ /\ agenda' = <<RecordToolResult(ok), CancelTimer("tool_call_timeout"), StartLlm>>
                 /\ ~Awaits(ds')
<1>0. ds \in DialogueState /\ agenda = <<>> /\ call = 0 /\ call' = 0
      /\ UNCHANGED <<timeVars, agg>>
  BY NotBusy DEF TypeOK, HandleActingResult, Dequeue, textVars
<1>1. Head(queue) \in Observation /\ Head(queue).type = "ToolResult"
  BY QueueType DEF HandleActingResult, Dequeue
<1>2. PICK id \in Tools, ok \in BOOLEAN :
        Apply(HandleToolResult(ds, id, ok), agenda)
  BY <1>1, ObservationTypes DEF HandleActingResult
<1> DEFINE t == [ds EXCEPT !.deliberation = "Thinking", !.pending = {}, !.results = {}]
           u == [ds EXCEPT !.results = @ \cup {id}]
           e == <<RecordToolResult(ok), CancelTimer("tool_call_timeout"), StartLlm>>
           f == <<RecordToolResult(ok)>>
<1>3. ~Awaits(t) /\ (Awaits(u) => Awaits(ds))
  BY <1>0 DEF Awaits, DialogueState
<1>4. e \o <<>> = e /\ f \o <<>> = f
  OBVIOUS
<1>5. HandleToolResult(ds, id, ok) \in {Decision(t, e), Decision(u, f)}
  BY DEF HandleToolResult
<1> HIDE DEF t, u, e, f
<1>6. \/ ds' = t /\ agenda' = e
      \/ ds' = u /\ agenda' = f
  BY <1>0, <1>2, <1>4, <1>5, DecisionFields DEF Apply
<1> QED BY <1>0, <1>3, <1>6 DEF e, f

(* An interrupt cancels the tool timer only, and ends the wait.            *)
InterruptEffectSet ==
  {CommitWorkspace, CancelLlm, ScheduleTimer("debounce"), CancelTimer("tool_call_timeout")}

LEMMA InterruptDecision ==
  ASSUME NEW s \in DialogueState
  PROVE  /\ HandleInterrupt(s).effects \in Seq(InterruptEffectSet)
         /\ ~Awaits(HandleInterrupt(s).next)
         /\ HandleInterrupt(s).next.fragments = s.fragments
         /\ Has(CancelLlm, HandleInterrupt(s).effects)
<1> DEFINE t == [s EXCEPT !.cooldown = "Debouncing", !.deliberation = "Idle",
                          !.trigger = 0, !.pending = {}, !.results = {}]
           a == IF s.fragments # {} THEN <<CommitWorkspace>> ELSE <<>>
           m == <<CancelLlm, ScheduleTimer("debounce")>>
           b == IF s.deliberation = "AwaitingToolResults"
                THEN <<CancelTimer("tool_call_timeout")>> ELSE <<>>
<1>1. HandleInterrupt(s) = Decision(t, a \o m \o b)
  BY Zenon DEF HandleInterrupt
<1>2. ~Awaits(t) /\ t.fragments = s.fragments
  BY DEF Awaits, DialogueState
<1>3. a \in Seq(InterruptEffectSet) /\ b \in Seq(InterruptEffectSet)
  BY SeqOf0, SeqOf1 DEF InterruptEffectSet
<1>4. m \in Seq(InterruptEffectSet) /\ Has(CancelLlm, m)
  <2>1. DOMAIN m = {1, 2} /\ m[1] = CancelLlm
    OBVIOUS
  <2> QED BY <2>1, SeqOf2 DEF InterruptEffectSet, Has
<1> HIDE DEF t, a, m, b
<1>5. a \o m \in Seq(InterruptEffectSet) /\ Has(CancelLlm, a \o m)
  BY <1>3, <1>4, SeqConcat, HasConcat
<1>6. a \o m \o b \in Seq(InterruptEffectSet) /\ Has(CancelLlm, a \o m \o b)
  BY <1>3, <1>5, SeqConcat, HasConcat
<1>7. PICK x : x = a \o m \o b
  OBVIOUS
<1> QED BY <1>1, <1>2, <1>6, <1>7, DecisionFields

LEMMA InterruptHarmless == InterruptEffectSet \subseteq Harmless
BY PlainEffects, TimerEffects
DEF InterruptEffectSet, Harmless, CommitWorkspace, CancelLlm, ScheduleTimer,
    CancelTimer, TimerIds

-----------------------------------------------------------------------------
(* A timer that guards a wait: armed, or expired and not yet handled.      *)
Guarded(id) == Armed(due, id) \/ Armed(batch, id)

LEMMA WakeKeeps ==
  ASSUME BatchHandled, Wake, NEW id \in TimerIds, Guarded(id) PROVE Guarded(id)'
<1>1. ~Armed(batch, id)
  BY DEF Wake, BatchHandled, NoTimers, Armed
<1>2. Armed(due, id) => Armed(due', id) \/ Armed(batch', id)
  BY DEF Wake, Due, Armed
<1> QED BY <1>1, <1>2 DEF Guarded, Armed

LEMMA TickKeeps ==
  ASSUME TypeOK, Tick, NEW id \in TimerIds, Guarded(id) PROVE Guarded(id)'
<1>1. due[id] \in Int /\ batch' = batch
  BY DEF TypeOK, Tick
<1>2. ASSUME Armed(due, id) PROVE due'[id] # Off
  <2>1. due[id] > -MaxLate /\ due'[id] = due[id] - 1
    BY <1>1, <1>2 DEF Tick
  <2> QED BY <1>1, <2>1, ArmedTimer
<1> QED BY <1>1, <1>2 DEF Guarded, Armed

(* The timer that is handled ends its wait.                                *)
LEMMA ExpireKeeps ==
  ASSUME TypeOK, ExpireNext
  PROVE  \E fired \in TimerIds :
           /\ \A id \in TimerIds : id # fired /\ Guarded(id) => Guarded(id)'
           /\ IF fired = "aggregation" THEN agg' = {} ELSE agg' = agg
           /\ fired = "tool_call_timeout" => ~Awaits(ds')
<1>1. PICK fired \in TimerIds :
        /\ batch' = [batch EXCEPT ![fired] = Off]
        /\ \/ fired = "aggregation" /\ ExpireAggregation
           \/ /\ fired = "debounce" /\ agg' = agg
           \/ /\ fired = "tool_call_timeout"
              /\ Apply(HandleToolCallTimeout(ds), agenda) /\ agg' = agg
  BY DEF ExpireNext
<1>2. due' = due /\ batch \in [TimerIds -> Int] /\ ds \in DialogueState
  BY DEF ExpireNext, TypeOK
<1>3. \A id \in TimerIds : id # fired => batch'[id] = batch[id]
  BY <1>1, <1>2
<1>4. \A id \in TimerIds : id # fired /\ Guarded(id) => Guarded(id)'
  BY <1>2, <1>3 DEF Guarded, Armed
<1>5. IF fired = "aggregation" THEN agg' = {} ELSE agg' = agg
  BY <1>1 DEF ExpireAggregation
<1>6. fired = "tool_call_timeout" => ~Awaits(ds')
  BY <1>1, <1>2, ToolCallTimeoutOrdinary DEF Apply
<1> QED BY <1>4, <1>5, <1>6

-----------------------------------------------------------------------------
(* Half an utterance in the aggregator.  Nobody cancels its timer but Feed *)
(* itself, which empties the aggregator or arms the timer anew.            *)
FragmentsInv ==
  /\ agg # {} => Guarded("aggregation")
  /\ ~Has(CancelTimer("aggregation"), agenda)

LEMMA KeepFragments ==
  ASSUME FragmentsInv, agg' = {} \/ agg' = agg,
         Guarded("aggregation") => Guarded("aggregation")',
         ~Has(CancelTimer("aggregation"), agenda')
  PROVE  FragmentsInv'
BY DEF FragmentsInv, Has

LEMMA KeepFragmentsAll ==
  ASSUME FragmentsInv, UNCHANGED <<agg, timeVars, agenda>> PROVE FragmentsInv'
BY DEF FragmentsInv, Has, Guarded, Armed, timeVars

LEMMA InterruptFragments ==
  /\ \A e \in InterruptEffectSet : e # CancelTimer("aggregation")
  /\ UserMessageReceived # CancelTimer("aggregation")
  /\ CommitWorkspace # CancelTimer("aggregation")
BY DEF InterruptEffectSet, CommitWorkspace, CancelLlm, ScheduleTimer, CancelTimer,
       UserMessageReceived

LEMMA EffectStepFragments ==
  ASSUME TypeOK, FragmentsInv, EffectStep PROVE FragmentsInv'
<1>1. PICK X : Applied(X)
  BY EffectAgenda
<1>2. X \in Seq(Ordinary) /\ ~Has(CancelTimer("aggregation"), agenda)
  BY <1>1 DEF Applied, FragmentsInv
<1>3. /\ Head(agenda) # CancelTimer("aggregation")
      /\ ~Has(CancelTimer("aggregation"), agenda')
  BY <1>1, <1>2, AppliedHas, OrdinaryHasNot
<1>4. Guarded("aggregation") => Guarded("aggregation")'
  BY <1>3, TimerApplied DEF Guarded, Armed, TimerIds
<1>5. agg' = {} \/ agg' = agg
  BY DEF EffectStep, DoTransition, DoCommitWorkspace, DoCancelLlm, DoExpand,
         DoClassify, DoTimer, DoEmitToolCallFrames, DoActing,
         DoRecordToolResult, DoResponding, DoUserMessage, DoThinking, textVars
<1> QED BY <1>3, <1>4, <1>5, KeepFragments

LEMMA DecidedHasNot ==
  ASSUME NEW X, Decided(X), NEW id PROVE ~Has(CancelTimer(id), agenda')
BY OrdinaryHasNot DEF Decided

LEMMA InterruptStepFragments ==
  ASSUME TypeOK, FragmentsInv, HandleInterruption \/ BargeIn PROVE FragmentsInv'
<1> DEFINE no(s) == ~Has(CancelTimer("aggregation"), s)
<1>1. PICK X : X = HandleInterrupt(ds).effects
  OBVIOUS
<1>2. X \in Seq(InterruptEffectSet)
  BY <1>1, InterruptDecision DEF TypeOK
<1>3. no(X)
  BY <1>2, HasIn, InterruptFragments
<1>4. X \in Seq(Effect)
  BY <1>2, InterruptHarmless DEF Harmless
<1>5. PICK rest \in Seq(Effect) : agenda' = X \o rest /\ no(rest)
  <2>1. CASE HandleInterruption
    BY <1>1, <2>1 DEF HandleInterruption, Apply, TypeOK, FragmentsInv
  <2>2. CASE BargeIn
    <3>1. PICK rest : rest = <<UserMessageReceived, CommitWorkspace>>
      OBVIOUS
    <3>2. rest \in Seq(Effect) /\ no(rest)
      BY <3>1, SeqOf2, PlainEffects, HasShort, InterruptFragments
    <3>3. agenda' = X \o rest
      BY <1>1, <2>2, <3>1 DEF BargeIn
    <3> QED BY <3>2, <3>3
  <2> QED BY <2>1, <2>2
<1>6. no(agenda')
  BY <1>3, <1>4, <1>5, HasConcat
<1>7. agg' = agg /\ UNCHANGED timeVars
  BY DEF HandleInterruption, BargeIn, textVars
<1> QED BY <1>6, <1>7, KeepFragments DEF Guarded, Armed, timeVars

LEMMA FeedFragments ==
  ASSUME TypeOK, FragmentsInv, FeedUserMessage \/ FeedSystemEvent
  PROVE  FragmentsInv'
<1>1. ~Has(CancelTimer("aggregation"), agenda')
  BY FeedAgenda, DecidedHasNot
<1>2. CASE FeedSystemEvent
  <2>1. (agg' = {} \/ agg' = agg) /\ UNCHANGED timeVars
    BY <1>2 DEF FeedSystemEvent
  <2> QED BY <1>1, <2>1, KeepFragments DEF Guarded, Armed, timeVars
<1>3. CASE FeedUserMessage
  <2>1. due \in [TimerIds -> Int] /\ "aggregation" \in TimerIds
    BY DEF TypeOK, TimerIds
  <2>2. \/ agg' = {}
        \/ due' = [due EXCEPT !["aggregation"] = Duration["aggregation"]]
    BY <1>3 DEF FeedUserMessage
  <2>3. agg' = {} \/ Armed(due', "aggregation")
    BY <2>1, <2>2, ArmedTimer DEF Armed
  <2> QED BY <1>1, <2>3 DEF FragmentsInv, Guarded, Armed, Has
<1> QED BY <1>2, <1>3

LEMMA LoopStepFragments ==
  ASSUME TypeOK, BatchHandled, FragmentsInv, LoopStep PROVE FragmentsInv'
<1>1. "aggregation" \in TimerIds /\ ~Has(CancelTimer("aggregation"), agenda)
  BY DEF TimerIds, FragmentsInv
<1>2. CASE Wake
  <2>1. UNCHANGED <<agg, agenda>>
    BY <1>2 DEF Wake, textVars
  <2>2. Guarded("aggregation") => Guarded("aggregation")'
    BY <1>1, <1>2, WakeKeeps
  <2> QED BY <1>1, <2>1, <2>2, KeepFragments DEF Has
<1>3. CASE ExpireNext
  <2>1. ~Has(CancelTimer("aggregation"), agenda')
    BY <1>3, ExpireAgenda, DecidedHasNot
  <2>2. \/ agg' = {}
        \/ agg' = agg /\ (Guarded("aggregation") => Guarded("aggregation")')
    BY <1>1, <1>3, ExpireKeeps
  <2>3. CASE agg' = {}
    BY <2>1, <2>3 DEF FragmentsInv, Has
  <2> QED BY <2>1, <2>2, <2>3, KeepFragments
<1>4. CASE HandleInterruption \/ BargeIn
  BY <1>4, InterruptStepFragments
<1>5. CASE HandleActingResult
  <2>1. PICK ok \in BOOLEAN :
          \/ agenda' = <<RecordToolResult(ok)>>
          \/ agenda' = <<RecordToolResult(ok), CancelTimer("tool_call_timeout"), StartLlm>>
    BY <1>5, ResultAgenda
  <2>2. /\ CancelTimer("aggregation") # RecordToolResult(ok)
        /\ CancelTimer("aggregation") # CancelTimer("tool_call_timeout")
        /\ CancelTimer("aggregation") # StartLlm
    BY DEF RecordToolResult, CancelTimer, StartLlm
  <2>3. ~Has(CancelTimer("aggregation"), agenda')
    <3>1. PICK c, r, t, l :
            /\ c = CancelTimer("aggregation") /\ r = RecordToolResult(ok)
            /\ t = CancelTimer("tool_call_timeout") /\ l = StartLlm
      OBVIOUS
    <3>2. c \notin {r, t, l}
      BY <2>2, <3>1
    <3>3. ~Has(c, <<r>>) /\ ~Has(c, <<r, t, l>>)
      BY <3>2, HasShort
    <3> QED BY <2>1, <3>1, <3>3
  <2>4. UNCHANGED <<timeVars, agg>>
    BY <1>5, ResultAgenda
  <2> QED BY <2>3, <2>4, KeepFragments DEF Guarded, Armed, timeVars
<1>6. CASE FeedUserMessage \/ FeedSystemEvent
  BY <1>6, FeedFragments
<1>7. CASE LoopBreak \/ EndIteration \/ IgnoreObservation
  BY <1>7, KeepFragmentsAll DEF LoopBreak, EndIteration, IgnoreObservation, textVars
<1> QED BY <1>2, <1>3, <1>4, <1>5, <1>6, <1>7 DEF LoopStep

LEMMA LlmStepFragments ==
  ASSUME TypeOK, FragmentsInv, LlmStep PROVE FragmentsInv'
<1>1. PICK X \in Seq(Ordinary) : agenda' = X \o agenda
  BY LlmAgenda
<1>2. /\ UNCHANGED timeVars /\ agg' = agg /\ agenda \in Seq(Effect)
      /\ X \in Seq(Effect)
  BY <1>1, LlmAgenda DEF Ordinary
<1>3. ~Has(CancelTimer("aggregation"), agenda')
  BY <1>1, <1>2, HasConcat, OrdinaryHasNot DEF FragmentsInv
<1> QED BY <1>2, <1>3, KeepFragments DEF Guarded, Armed, timeVars

LEMMA FragmentsStep ==
  TypeOK /\ BatchHandled /\ FragmentsInv /\ [Next]_vars => FragmentsInv'
<1> SUFFICES ASSUME TypeOK, BatchHandled, FragmentsInv, [Next]_vars PROVE FragmentsInv'
  OBVIOUS
<1>1. CASE EffectStep
  BY <1>1, EffectStepFragments
<1>2. CASE LlmStep
  BY <1>2, LlmStepFragments
<1>3. CASE LoopStep
  BY <1>3, LoopStepFragments
<1>4. CASE EnvironmentStep
  BY <1>4, KeepFragmentsAll
  DEF EnvironmentStep, SendUser, SendSystemEvent, ToolAnswers, InterruptCheck,
      FinishInterrupt, InterruptFlag, InterruptEnqueue, RequestShutdown,
      loopVars, textVars
<1>5. CASE Tick
  <2>1. UNCHANGED <<agg, agenda>>
    BY <1>5 DEF Tick, loopVars, textVars
  <2>2. Guarded("aggregation") => Guarded("aggregation")'
    BY <1>5, TickKeeps DEF TimerIds
  <2> QED BY <2>1, <2>2, KeepFragments DEF FragmentsInv, Has
<1>6. CASE Start \/ Terminate \/ UNCHANGED vars
  BY <1>6, KeepFragmentsAll DEF Start, Terminate, vars, loopVars, textVars
<1> QED BY <1>1, <1>2, <1>3, <1>4, <1>5, <1>6 DEF Next

(* A loop that rests has the aggregator's timer armed as long as fragments *)
(* wait in it: whatever resets, refills and interrupts come in between,    *)
(* half an utterance is flushed in time.                                   *)
THEOREM FragmentsAreTimed == Spec => []FragmentsTimed
<1>1. Init => FragmentsInv /\ BatchHandled
  BY DEF Init, FragmentsInv, BatchHandled, Has
<1>2. FragmentsInv /\ BatchHandled => FragmentsTimed
  <2>1. ~Armed(NoTimers, "aggregation")
    BY DEF NoTimers, Armed, TimerIds
  <2> QED BY <2>1 DEF FragmentsInv, BatchHandled, FragmentsTimed, Resting, Guarded
<1> QED BY <1>1, <1>2, FragmentsStep, BatchStep, TypeCorrect, PTL DEF Spec

-----------------------------------------------------------------------------
(* The wait for tools.  Its timer is cancelled with it: an effect that     *)
(* cancels it comes after steps that start nothing, and the dialogue no    *)
(* longer waits.                                                           *)
ToolTimer == ScheduleTimer("tool_call_timeout")
NoCancel == {e \in Effect : e # CancelTimer("tool_call_timeout")}

CancelsFirst(s) == \E p \in Seq(Harmless), q \in Seq(NoCancel) : s = p \o q

ToolInv ==
  /\ CancelsFirst(agenda)
  /\ call # 0 \/ Awaits(ds) => agenda \in Seq(NoCancel)
  /\ Awaits(ds) => Guarded("tool_call_timeout") \/ Has(ToolTimer, agenda)

LEMMA OrdinaryNoCancel == Ordinary \subseteq NoCancel
BY DEF Ordinary, NoCancel, CancelTimer

LEMMA NoCancelFirst == ASSUME NEW s \in Seq(NoCancel) PROVE CancelsFirst(s)
<1>1. PICK p : p = <<>>
  OBVIOUS
<1>2. p \in Seq(Harmless) /\ s = p \o s
  BY <1>1, SeqOf0
<1> QED BY <1>2 DEF CancelsFirst

LEMMA HeadOfConcat ==
  ASSUME NEW S, NEW p \in Seq(S), p # <<>>, NEW q \in Seq(S)
  PROVE  Head(p \o q) = Head(p) /\ Tail(p \o q) = Tail(p) \o q
         /\ Head(p) \in S /\ Tail(p) \in Seq(S)
OBVIOUS

LEMMA HarmlessEffects == Harmless \subseteq Effect /\ NoCancel \subseteq Effect
BY DEF Harmless, NoCancel

(* Without an effect that cancels the timer, the wait stays guarded.       *)
LEMMA WaitApplied ==
  ASSUME TypeOK, EffectStep, ToolInv, NEW X, Applied(X), agenda \in Seq(NoCancel)
  PROVE  /\ agenda' \in Seq(NoCancel)
         /\ Awaits(ds') => Guarded("tool_call_timeout")' \/ Has(ToolTimer, agenda')
<1>1. /\ agenda # <<>> /\ agenda' = X \o Rest /\ X \in Seq(NoCancel)
      /\ Awaits(ds') => Awaits(ds)
  BY EffectAgenda, OrdinaryNoCancel DEF Applied
<1>2. Head(agenda) \in NoCancel /\ Rest \in Seq(NoCancel)
  BY <1>1 DEF Rest
<1>3. agenda' \in Seq(NoCancel)
  BY <1>1, <1>2, SeqConcat
<1>4. "tool_call_timeout" \in TimerIds /\ Head(agenda) # CancelTimer("tool_call_timeout")
  BY <1>2 DEF NoCancel, TimerIds
<1>5. Guarded("tool_call_timeout") => Guarded("tool_call_timeout")'
  BY <1>4, TimerApplied DEF Guarded, Armed
<1>6. Has(ToolTimer, agenda) => Guarded("tool_call_timeout")' \/ Has(ToolTimer, agenda')
  BY <1>4, TimerApplied, AppliedHas DEF Guarded, ToolTimer
<1> QED BY <1>1, <1>3, <1>5, <1>6 DEF ToolInv

LEMMA EffectStepTool ==
  ASSUME TypeOK, ToolInv, EffectStep PROVE ToolInv'
<1>1. PICK X : Applied(X)
  BY EffectAgenda
<1>2. CASE agenda \in Seq(NoCancel)
  BY <1>1, <1>2, WaitApplied, NoCancelFirst DEF ToolInv
<1>3. CASE agenda \notin Seq(NoCancel)
  <2>1. ~Awaits(ds)
    BY <1>3 DEF ToolInv
  <2>2. PICK p \in Seq(Harmless), q \in Seq(NoCancel) : agenda = p \o q
    BY DEF ToolInv, CancelsFirst
  <2>3. p # <<>>
    BY <1>3, <2>2
  <2>4. p \in Seq(Effect) /\ q \in Seq(Effect)
    BY <2>2, HarmlessEffects
  <2>5. /\ Head(agenda) = Head(p) /\ Rest = Tail(p) \o q
        /\ Tail(p) \in Seq(Harmless) /\ Head(p) \in Harmless
    BY <2>2, <2>3, <2>4, HeadOfConcat DEF Rest
  <2>6. X \in Seq(Harmless) /\ call' = 0 /\ agenda' = X \o Rest /\ ~Awaits(ds')
    BY <1>1, <2>1, <2>5 DEF Applied
  <2>7. PICK r : r = Tail(p)
    OBVIOUS
  <2>8. PICK y : y = X \o r
    OBVIOUS
  <2>9. y \in Seq(Harmless)
    BY <2>5, <2>6, <2>7, <2>8, SeqConcat
  <2>10. agenda' = y \o q
    <3>1. X \in Seq(Effect) /\ r \in Seq(Effect)
      BY <2>5, <2>6, <2>7, HarmlessEffects
    <3>2. X \o (r \o q) = (X \o r) \o q
      BY <2>4, <3>1, ConcatAssociative
    <3> QED BY <2>5, <2>6, <2>7, <2>8, <3>2, Zenon
  <2> QED BY <2>2, <2>6, <2>9, <2>10 DEF ToolInv, CancelsFirst
<1> QED BY <1>2, <1>3

LEMMA LlmStepTool ==
  ASSUME TypeOK, ToolInv, LlmStep PROVE ToolInv'
<1>1. PICK X \in Seq(Ordinary) :
        /\ agenda' = X \o agenda
        /\ Awaits(ds') => Awaits(ds) \/ Has(ToolTimer, X)
  BY LlmAgenda DEF ToolTimer
<1>2. call # 0 /\ UNCHANGED timeVars /\ agenda \in Seq(Effect)
  BY LlmAgenda
<1>3. X \in Seq(NoCancel) /\ agenda \in Seq(NoCancel) /\ X \in Seq(Effect)
  BY <1>1, <1>2, OrdinaryNoCancel DEF ToolInv, Ordinary
<1>4. agenda' \in Seq(NoCancel)
  BY <1>1, <1>3, SeqConcat
<1>5. Has(ToolTimer, agenda') <=> Has(ToolTimer, X) \/ Has(ToolTimer, agenda)
  BY <1>1, <1>2, <1>3, HasConcat
<1>6. Guarded("tool_call_timeout") => Guarded("tool_call_timeout")'
  BY <1>2 DEF Guarded, Armed, timeVars
<1> QED BY <1>1, <1>4, <1>5, <1>6, NoCancelFirst DEF ToolInv

(* Between two iterations nothing is left to schedule the timer.           *)
LEMMA DecidedTool ==
  ASSUME ToolInv, NEW X, Decided(X),
         Guarded("tool_call_timeout") /\ Awaits(ds') => Guarded("tool_call_timeout")'
  PROVE  ToolInv'
<1>1. agenda = <<>> /\ agenda' \in Seq(NoCancel) /\ (Awaits(ds') => Awaits(ds))
  BY OrdinaryNoCancel DEF Decided
<1>2. ~Has(ToolTimer, agenda)
  BY <1>1 DEF Has
<1> QED BY <1>1, <1>2, NoCancelFirst DEF ToolInv

LEMMA KeepTool ==
  ASSUME ToolInv, UNCHANGED <<call, ds, agenda>>,
         Guarded("tool_call_timeout") => Guarded("tool_call_timeout")'
  PROVE  ToolInv'
BY DEF ToolInv, CancelsFirst, Has

LEMMA KeepToolAll ==
  ASSUME ToolInv, UNCHANGED <<call, ds, agenda, timeVars>> PROVE ToolInv'
BY DEF ToolInv, CancelsFirst, Has, Guarded, Armed, timeVars

LEMMA InterruptTool ==
  ASSUME TypeOK, HandleInterruption \/ BargeIn PROVE ToolInv'
<1>1. PICK X : X = HandleInterrupt(ds).effects
  OBVIOUS
<1>2. X \in Seq(Harmless) /\ X \in Seq(Effect)
  BY <1>1, InterruptDecision, InterruptHarmless, HarmlessEffects DEF TypeOK
<1>3. call' = 0 /\ ~Awaits(ds')
  BY InterruptDecision, NotBusy
  DEF HandleInterruption, BargeIn, Dequeue, Apply, TypeOK
<1>4. CASE HandleInterruption
  <2>1. agenda' = X \o agenda /\ agenda = <<>>
    BY <1>1, <1>4, NotBusy DEF HandleInterruption, Apply, Dequeue
  <2>2. agenda \in Seq(NoCancel)
    BY <2>1, SeqOf0
  <2> QED BY <1>2, <1>3, <2>1, <2>2 DEF ToolInv, CancelsFirst
<1>5. CASE BargeIn
  <2>1. PICK q : q = <<UserMessageReceived, CommitWorkspace>>
    OBVIOUS
  <2>2. q \in Seq(NoCancel)
    <3>1. UserMessageReceived \in NoCancel /\ CommitWorkspace \in NoCancel
      BY PlainEffects DEF NoCancel, UserMessageReceived, CommitWorkspace, CancelTimer
    <3> QED BY <2>1, <3>1, SeqOf2
  <2>3. agenda' = X \o q
    BY <1>1, <1>5, <2>1 DEF BargeIn
  <2> QED BY <1>2, <1>3, <2>2, <2>3 DEF ToolInv, CancelsFirst
<1> QED BY <1>4, <1>5

LEMMA ResultTool ==
  ASSUME TypeOK, ToolInv, HandleActingResult PROVE ToolInv'
<1>0. /\ agenda = <<>> /\ call' = 0 /\ UNCHANGED timeVars
      /\ "tool_call_timeout" \in TimerIds
  BY ResultAgenda DEF TimerIds
<1>1. PICK ok \in BOOLEAN :
        \/ agenda' = <<RecordToolResult(ok)>> /\ (Awaits(ds') => Awaits(ds))
        \/ /\ agenda' = <<RecordToolResult(ok), CancelTimer("tool_call_timeout"), StartLlm>>
           /\ ~Awaits(ds')
  BY ResultAgenda
<1>2. CASE agenda' = <<RecordToolResult(ok)>> /\ (Awaits(ds') => Awaits(ds))
  <2>1. RecordToolResult(ok) \in NoCancel
    BY ParameterEffects DEF NoCancel, RecordToolResult, CancelTimer
  <2>2. agenda' \in Seq(NoCancel)
    BY <1>2, <2>1, SeqOf1
  <2>3. ~Has(ToolTimer, agenda)
    BY <1>0 DEF Has
  <2>4. Guarded("tool_call_timeout") => Guarded("tool_call_timeout")'
    BY <1>0 DEF Guarded, Armed, timeVars
  <2> QED BY <1>2, <2>2, <2>3, <2>4, NoCancelFirst DEF ToolInv
<1>3. CASE /\ agenda' = <<RecordToolResult(ok), CancelTimer("tool_call_timeout"), StartLlm>>
           /\ ~Awaits(ds')
  <2>1. PICK p : p = <<RecordToolResult(ok), CancelTimer("tool_call_timeout")>>
    OBVIOUS
  <2>2. PICK q : q = <<StartLlm>>
    OBVIOUS
  <2>3. p \in Seq(Harmless)
    <3>1. /\ RecordToolResult(ok) \in Harmless
          /\ CancelTimer("tool_call_timeout") \in Harmless
      BY <1>0, TimerEffects, ParameterEffects
      DEF Harmless, RecordToolResult, CancelTimer
    <3> QED BY <2>1, <3>1, SeqOf2
  <2>4. q \in Seq(NoCancel)
    <3>1. StartLlm \in NoCancel
      BY PlainEffects DEF NoCancel, StartLlm, CancelTimer
    <3> QED BY <2>2, <3>1, SeqOf1
  <2>5. agenda' = p \o q
    BY <1>3, <2>1, <2>2
  <2> QED BY <1>0, <1>3, <2>3, <2>4, <2>5 DEF ToolInv, CancelsFirst
<1> QED BY <1>1, <1>2, <1>3

LEMMA LoopStepTool ==
  ASSUME TypeOK, BatchHandled, ToolInv, LoopStep PROVE ToolInv'
<1>0. "tool_call_timeout" \in TimerIds
  BY DEF TimerIds
<1>1. CASE Wake
  <2>1. UNCHANGED <<call, ds, agenda>>
    BY <1>1 DEF Wake
  <2>2. Guarded("tool_call_timeout") => Guarded("tool_call_timeout")'
    BY <1>0, <1>1, WakeKeeps
  <2> QED BY <2>1, <2>2, KeepTool
<1>2. CASE ExpireNext
  <2>1. PICK X : Decided(X)
    BY <1>2, ExpireAgenda
  <2>2. Guarded("tool_call_timeout") /\ Awaits(ds') => Guarded("tool_call_timeout")'
    BY <1>0, <1>2, ExpireKeeps
  <2> QED BY <2>1, <2>2, DecidedTool
<1>3. CASE HandleInterruption \/ BargeIn
  BY <1>3, InterruptTool
<1>4. CASE HandleActingResult
  BY <1>4, ResultTool
<1>5. CASE FeedUserMessage \/ FeedSystemEvent
  <2>1. PICK X : Decided(X)
    BY <1>5, FeedAgenda
  <2>2. /\ batch' = batch
        /\ due'["tool_call_timeout"] = due["tool_call_timeout"]
    BY <1>0, <1>5 DEF FeedUserMessage, FeedSystemEvent, timeVars, TypeOK
  <2> QED BY <2>1, <2>2, DecidedTool DEF Guarded, Armed
<1>6. CASE LoopBreak \/ EndIteration \/ IgnoreObservation
  BY <1>6, KeepToolAll DEF LoopBreak, EndIteration, IgnoreObservation
<1> QED BY <1>1, <1>2, <1>3, <1>4, <1>5, <1>6 DEF LoopStep

LEMMA ToolStep ==
  TypeOK /\ BatchHandled /\ ToolInv /\ [Next]_vars => ToolInv'
<1> SUFFICES ASSUME TypeOK, BatchHandled, ToolInv, [Next]_vars PROVE ToolInv'
  OBVIOUS
<1>1. CASE EffectStep
  BY <1>1, EffectStepTool
<1>2. CASE LlmStep
  BY <1>2, LlmStepTool
<1>3. CASE LoopStep
  BY <1>3, LoopStepTool
<1>4. CASE EnvironmentStep
  BY <1>4, KeepToolAll
  DEF EnvironmentStep, SendUser, SendSystemEvent, ToolAnswers, InterruptCheck,
      FinishInterrupt, InterruptFlag, InterruptEnqueue, RequestShutdown, loopVars
<1>5. CASE Tick
  <2>1. UNCHANGED <<call, ds, agenda>>
    BY <1>5 DEF Tick, loopVars
  <2>2. Guarded("tool_call_timeout") => Guarded("tool_call_timeout")'
    BY <1>5, TickKeeps DEF TimerIds
  <2> QED BY <2>1, <2>2, KeepTool
<1>6. CASE Start \/ Terminate \/ UNCHANGED vars
  BY <1>6, KeepToolAll DEF Start, Terminate, vars, loopVars
<1> QED BY <1>1, <1>2, <1>3, <1>4, <1>5, <1>6 DEF Next

(* A loop that rests while the dialogue awaits tool results has the timer  *)
(* armed that gives up on them: no order of nested completions, denied     *)
(* calls, results, interrupts and stale timeouts leaves the wait unbounded.*)
THEOREM ToolWaitIsBounded == Spec => []ToolWaitBounded
<1>1. Init => ToolInv /\ BatchHandled
  <2>1. Init => agenda \in Seq(NoCancel) /\ call = 0 /\ ~Awaits(ds) /\ batch = NoTimers
    BY SeqOf0 DEF Init, InitialDialogue, Awaits
  <2> QED BY <2>1, NoCancelFirst DEF ToolInv, BatchHandled
<1>2. ToolInv /\ BatchHandled => ToolWaitBounded
  <2>1. ~Armed(NoTimers, "tool_call_timeout")
    BY DEF NoTimers, Armed, TimerIds
  <2>2. agenda = <<>> => ~Has(ToolTimer, agenda)
    BY DEF Has
  <2> QED BY <2>1, <2>2
          DEF ToolInv, BatchHandled, ToolWaitBounded, Resting, Busy, Guarded, Awaits
<1> QED BY <1>1, <1>2, ToolStep, BatchStep, TypeCorrect, PTL DEF Spec

-----------------------------------------------------------------------------
(* The way of a user message: from the queue, perhaps by a barge-in, to    *)
(* the aggregator, the workspace and the history, without overtaking       *)
(* another.                                                                *)

(* The places a message passes through, the oldest messages farthest on:   *)
(* h(istory), f(ragments), a(ggregator), b(arge-in), q(ueue), sent up to n.*)
Chain(h, f, a, b, q, n) ==
  /\ Before(h, f \cup a \cup b \cup q) /\ Before(f, a \cup b \cup q)
  /\ Before(a, b \cup q) /\ Before(b, q)
  /\ h \cup f \cup a \cup b \cup q \subseteq 1..n

LEMMA ChainLoses ==
  ASSUME NEW n \in Nat, NEW h, NEW f, NEW a, NEW b, NEW q, Chain(h, f, a, b, q, n),
         NEW g \in SUBSET f, NEW c \in SUBSET a, NEW d \in SUBSET b, NEW r \in SUBSET q
  PROVE  Chain(h, g, c, d, r, n)
BY DEF Chain, Before

LEMMA ChainCommits ==
  ASSUME NEW n \in Nat, NEW h, NEW f, NEW a, NEW b, NEW q, Chain(h, f, a, b, q, n)
  PROVE  Chain(h \cup f, {}, a, b, q, n)
BY DEF Chain, Before

LEMMA ChainFlushes ==
  ASSUME NEW n \in Nat, NEW h, NEW f, NEW a, NEW b, NEW q, Chain(h, f, a, b, q, n)
  PROVE  Chain(h, f \cup a, {}, b, q, n)
BY DEF Chain, Before

LEMMA ChainDequeues ==
  ASSUME NEW n \in Nat, NEW h, NEW f, NEW a, NEW q, Chain(h, f, a, {}, q, n),
         NEW m \in q, NEW r \in SUBSET q, Before({m}, r)
  PROVE  /\ Chain(h, f, a, {m}, r, n)
         /\ Chain(h, f, a \cup {m}, {}, r, n)
         /\ Chain(h, f \cup (a \cup {m}), {}, {}, r, n)
BY DEF Chain, Before

LEMMA ChainBuffers ==
  ASSUME NEW n \in Nat, NEW h, NEW f, NEW b, NEW q, Chain(h, f, {}, b, q, n)
  PROVE  Chain(h, f \cup b, {}, {}, q, n)
BY DEF Chain, Before

LEMMA ChainSends ==
  ASSUME NEW n \in Nat, NEW h, NEW f, NEW a, NEW b, NEW q, Chain(h, f, a, b, q, n)
  PROVE  Chain(h, f, a, b, q \cup {n + 1}, n + 1)
<1>1. \A x \in 1..n : x < n + 1 /\ x \in 1..(n + 1)
  OBVIOUS
<1>2. n + 1 \in 1..(n + 1)
  OBVIOUS
<1>3. h \cup f \cup a \cup b \cup (q \cup {n + 1}) \subseteq 1..(n + 1)
  BY <1>1, <1>2 DEF Chain
<1>4. /\ Before(h, f \cup a \cup b \cup (q \cup {n + 1}))
      /\ Before(f, a \cup b \cup (q \cup {n + 1}))
      /\ Before(a, b \cup (q \cup {n + 1})) /\ Before(b, q \cup {n + 1})
  BY <1>1 DEF Chain, Before
<1> QED BY <1>3, <1>4 DEF Chain

-----------------------------------------------------------------------------
(* The messages in a queue of observations.                                *)
IsUser(o) == o.type = "UserMessage"
Msgs(q) == {q[i].msg : i \in {j \in DOMAIN q : q[j].type = "UserMessage"}}
Ordered(q) ==
  \A i, j \in DOMAIN q : i < j /\ IsUser(q[i]) /\ IsUser(q[j]) => q[i].msg < q[j].msg

LEMMA QueueParts == Queued = Msgs(queue) /\ (QueueInOrder <=> Ordered(queue))
BY DEF Queued, Msgs, QueueInOrder, Ordered, IsUser

LEMMA EmptyQueue == Msgs(<<>>) = {} /\ Ordered(<<>>)
BY DEF Msgs, Ordered

LEMMA ShorterQueue ==
  ASSUME NEW q \in Seq(Observation), q # <<>>, Ordered(q)
  PROVE  /\ Ordered(Tail(q)) /\ Msgs(Tail(q)) \subseteq Msgs(q)
         /\ IsUser(Head(q)) => Head(q).msg \in Msgs(q)
         /\ IsUser(Head(q)) => Before({Head(q).msg}, Msgs(Tail(q)))
<1>1. PICK t : t = Tail(q)
  OBVIOUS
<1>2. /\ t \in Seq(Observation) /\ Len(q) \in Nat /\ Len(q) > 0
      /\ Len(t) = Len(q) - 1 /\ DOMAIN q = 1..Len(q) /\ DOMAIN t = 1..Len(t)
      /\ 1 \in DOMAIN q /\ Head(q) = q[1]
  BY <1>1
<1>3. \A i \in DOMAIN t : i + 1 \in DOMAIN q /\ t[i] = q[i + 1] /\ 1 < i + 1
  BY <1>1, <1>2
<1>4. Ordered(t)
  <2>1. SUFFICES ASSUME NEW i \in DOMAIN t, NEW j \in DOMAIN t, i < j,
                        IsUser(t[i]), IsUser(t[j])
                 PROVE  t[i].msg < t[j].msg
    BY DEF Ordered
  <2>2. i + 1 < j + 1
    BY <1>2, <2>1
  <2> QED BY <1>3, <2>1, <2>2 DEF Ordered
<1>5. \A m \in Msgs(t) : \E k \in DOMAIN q : 1 < k /\ IsUser(q[k]) /\ q[k].msg = m
  BY <1>3 DEF Msgs, IsUser
<1>6. Msgs(t) \subseteq Msgs(q)
  BY <1>5 DEF Msgs, IsUser
<1>7. ASSUME IsUser(Head(q)) PROVE Head(q).msg \in Msgs(q) /\ Before({Head(q).msg}, Msgs(t))
  <2>1. Head(q).msg \in Msgs(q)
    BY <1>2, <1>7 DEF Msgs, IsUser
  <2>2. ASSUME NEW m \in Msgs(t) PROVE Head(q).msg < m
    <3>1. PICK k \in DOMAIN q : 1 < k /\ IsUser(q[k]) /\ q[k].msg = m
      BY <1>5, <2>2
    <3>2. IsUser(q[1])
      BY <1>2, <1>7
    <3>3. q[1].msg < q[k].msg
      BY <1>2, <3>1, <3>2 DEF Ordered
    <3> QED BY <1>2, <3>1, <3>3
  <2> QED BY <2>1, <2>2 DEF Before
<1> QED BY <1>1, <1>4, <1>6, <1>7

LEMMA LongerQueue ==
  ASSUME NEW q \in Seq(Observation), NEW o \in Observation, Ordered(q),
         IsUser(o) => \A m \in Msgs(q) : m < o.msg
  PROVE  /\ Ordered(Append(q, o))
         /\ Msgs(Append(q, o)) = IF IsUser(o) THEN Msgs(q) \cup {o.msg} ELSE Msgs(q)
<1>1. PICK t : t = Append(q, o)
  OBVIOUS
<1>2. /\ Len(q) \in Nat /\ DOMAIN q = 1..Len(q) /\ DOMAIN t = 1..(Len(q) + 1)
      /\ t[Len(q) + 1] = o /\ \A i \in DOMAIN q : t[i] = q[i]
  BY <1>1
<1>3. /\ \A i \in DOMAIN t : i \in DOMAIN q \/ i = Len(q) + 1
      /\ \A i \in DOMAIN q : i \in DOMAIN t /\ i < Len(q) + 1
      /\ Len(q) + 1 \in DOMAIN t
  BY <1>2
<1>4. Msgs(t) = IF IsUser(o) THEN Msgs(q) \cup {o.msg} ELSE Msgs(q)
  BY <1>2, <1>3 DEF Msgs, IsUser
<1>5. Ordered(t)
  <2>1. SUFFICES ASSUME NEW i \in DOMAIN t, NEW j \in DOMAIN t, i < j,
                        IsUser(t[i]), IsUser(t[j])
                 PROVE  t[i].msg < t[j].msg
    BY DEF Ordered
  <2>2. i \in DOMAIN q
    BY <1>2, <2>1
  <2>3. CASE j \in DOMAIN q
    BY <1>2, <2>1, <2>2, <2>3 DEF Ordered
  <2>4. CASE j = Len(q) + 1
    <3>1. q[i].msg \in Msgs(q)
      BY <1>2, <2>1, <2>2 DEF Msgs, IsUser
    <3> QED BY <1>2, <2>1, <2>2, <2>4, <3>1
  <2> QED BY <1>3, <2>3, <2>4
<1> QED BY <1>1, <1>4, <1>5

-----------------------------------------------------------------------------
(* A user message adds to the fragments, no other event touches them.      *)
LEMMA DecisionNext == ASSUME NEW s, NEW e PROVE Decision(s, e).next = s
BY DecisionFields

LEMMA UserMessageFragments ==
  ASSUME NEW s \in DialogueState, NEW msgs
  PROVE  HandleUserMessage(s, msgs).next.fragments
           \in {s.fragments, s.fragments \cup msgs}
<1> DEFINE n == s.lastTrigger + 1
           b == [s EXCEPT !.fragments = @ \cup msgs]
           t == [s EXCEPT !.tokens = 0, !.actions = 0, !.continuations = 0,
                          !.fragments = @ \cup msgs,
                          !.lastTrigger = n, !.trigger = n,
                          !.deliberation = "AwaitingTurnTrigger"]
           e == <<CommitWorkspace, StartTurnTriggerClassification(n)>>
<1>1. b.fragments = s.fragments \cup msgs /\ t.fragments = s.fragments \cup msgs
  BY DEF DialogueState
<1>2. HandleUserMessage(s, msgs) \in {NoOp(b), NoOp(s), Decision(t, e)}
  BY DEF HandleUserMessage
<1> HIDE DEF b, t, e
<1> QED BY <1>1, <1>2, DecisionNext DEF NoOp

LEMMA SameFragments ==
  ASSUME NEW s \in DialogueState
  PROVE  /\ HandleDebounceCooldownExpired(s).next.fragments = s.fragments
         /\ \A n : HandleTurnTriggerClassified(s, n).next.fragments = s.fragments
         /\ HandleLlmFailed(s).next.fragments = s.fragments
         /\ HandleToolCallTimeout(s).next.fragments = s.fragments
         /\ HandleSystemEvent(s).next.fragments = s.fragments
         /\ \A id, ok : HandleToolResult(s, id, ok).next.fragments = s.fragments
         /\ ResetBudgetWindow(s).fragments = s.fragments
         /\ \A calls : CountActions(s, calls).fragments = s.fragments
<1>1. HandleDebounceCooldownExpired(s).next.fragments = s.fragments
  BY DEF HandleDebounceCooldownExpired, Decision, DialogueState
<1>2. \A n : HandleTurnTriggerClassified(s, n).next.fragments = s.fragments
  BY DEF HandleTurnTriggerClassified, NoOp, Decision, DialogueState
<1>3. HandleLlmFailed(s).next.fragments = s.fragments
  BY DEF HandleLlmFailed, Decision, DialogueState
<1>4. HandleToolCallTimeout(s).next.fragments = s.fragments
  BY DEF HandleToolCallTimeout, Decision, DialogueState
<1>5. HandleSystemEvent(s).next.fragments = s.fragments
  BY DEF HandleSystemEvent, NoOp, Decision, DialogueState
<1>6. \A id, ok : HandleToolResult(s, id, ok).next.fragments = s.fragments
  BY DEF HandleToolResult, Decision, DialogueState
<1>7. ResetBudgetWindow(s).fragments = s.fragments
  BY DEF ResetBudgetWindow, DialogueState
<1>8. \A calls : CountActions(s, calls).fragments = s.fragments
  BY DEF CountActions, DialogueState
<1> QED BY <1>1, <1>2, <1>3, <1>4, <1>5, <1>6, <1>7, <1>8

LEMMA CompletedFragments ==
  ASSUME NEW s \in DialogueState, NEW calls,
         NEW type \in {"ToolCall", "Response", "Continue"}
  PROVE  HandleLlmCompleted(s, type, calls).next.fragments = s.fragments
<1>1. PICK c : c = CountCompletion(s)
  OBVIOUS
<1>2. c.fragments = s.fragments /\ c \in DialogueState
  <2>1. s.tokens + 1 \in Nat
    BY DEF DialogueState
  <2> QED BY <1>1, <2>1 DEF CountCompletion, DialogueState
<1>3. AwaitToolResults(c, calls).next.fragments = c.fragments
  BY <1>2 DEF AwaitToolResults, Decision, DialogueState
<1>4. DeliverAnswer(c).next.fragments = c.fragments
  BY <1>2 DEF DeliverAnswer, Decision, DialogueState
<1>5. ContinueThinking(c).next.fragments = c.fragments
  BY <1>2 DEF ContinueThinking, Decision, DialogueState
<1> QED BY <1>1, <1>2, <1>3, <1>4, <1>5 DEF HandleLlmCompleted

-----------------------------------------------------------------------------
(* The inductive invariant.  A barge-in's message waits behind effects     *)
(* that start nothing, among them the one that empties the aggregator.     *)
Chained == Chain(hist, ds.fragments, agg, BargingIn, Msgs(queue), sent)
Buffering == <<UserMessageReceived, CommitWorkspace>>

BargeInv ==
  /\ bargeIn = 0 => ~Has(UserMessageReceived, agenda)
  /\ bargeIn # 0 =>
       /\ call = 0
       /\ \E p \in Seq(Harmless) : /\ agenda = p \o Buffering
                                   /\ agg = {} \/ Has(CancelLlm, p)

OrderInv == Chained /\ Ordered(queue) /\ BargeInv

LEMMA OrderImplies == OrderInv => InOrder
<1>1. Chained <=> Chain(hist, ds.fragments, agg, BargingIn, Queued, sent)
  BY QueueParts DEF Chained
<1> QED BY <1>1, QueueParts DEF OrderInv, InOrder, Chain

LEMMA BufferingEffects ==
  /\ Buffering \in Seq(Effect) /\ Buffering # <<>>
  /\ Head(Buffering) = UserMessageReceived /\ Tail(Buffering) = <<CommitWorkspace>>
  /\ UserMessageReceived \notin Ordinary /\ UserMessageReceived \notin Harmless
  /\ CommitWorkspace # UserMessageReceived
BY PlainEffects, SeqOf2
DEF Buffering, Ordinary, Harmless, UserMessageReceived, CommitWorkspace

LEMMA NoBargeIn ==
  ASSUME TypeOK, BargeInv, call # 0 \/ agenda = <<>>
  PROVE  bargeIn = 0 /\ BargingIn = {} /\ ~Has(UserMessageReceived, agenda)
<1>1. ASSUME bargeIn # 0 PROVE FALSE
  <2>1. PICK p \in Seq(Harmless) : agenda = p \o Buffering /\ call = 0
    BY <1>1 DEF BargeInv
  <2>2. agenda # <<>>
    <3>1. PICK b : b = Buffering
      OBVIOUS
    <3>2. p \in Seq(Effect) /\ b \in Seq(Effect) /\ b # <<>>
      BY <2>1, <3>1, BufferingEffects, HarmlessEffects
    <3>3. Len(p \o b) = Len(p) + Len(b) /\ Len(p) \in Nat /\ Len(b) \in Nat /\ Len(b) > 0
      BY <3>2
    <3>4. p \o b # <<>>
      BY <3>3
    <3> QED BY <2>1, <3>1, <3>4
  <2> QED BY <2>1, <2>2
<1> QED BY <1>1 DEF BargeInv, BargingIn

LEMMA OrdinaryHasNoMessage ==
  ASSUME NEW s \in Seq(Ordinary) PROVE ~Has(UserMessageReceived, s)
BY HasIn, BufferingEffects

LEMMA KeepOrderAll ==
  ASSUME OrderInv, UNCHANGED <<hist, ds, agg, bargeIn, queue, sent, agenda, call>>
  PROVE  OrderInv'
BY DEF OrderInv, Chained, BargeInv, BargingIn, Msgs, Ordered, Has

-----------------------------------------------------------------------------
(* The barge-in's part of the invariant.                                   *)
LEMMA EffectStepBarge ==
  ASSUME TypeOK, BargeInv, EffectStep
  PROVE  /\ BargeInv'
         /\ Head(agenda).op = "UserMessageReceived" => agg = {} /\ bargeIn # 0
<1>1. PICK X : Applied(X)
  BY EffectAgenda
<1>2. /\ agenda \in Seq(Effect) /\ agenda # <<>> /\ Head(agenda) \in Effect
      /\ Rest \in Seq(Effect) /\ X \in Seq(Ordinary) /\ agenda' = X \o Rest
      /\ ~Has(UserMessageReceived, X)
  BY <1>1, EffectAgenda, OrdinaryHasNoMessage DEF Applied
<1>3. Head(agenda).op = "UserMessageReceived" <=> Head(agenda) = UserMessageReceived
  BY <1>2 DEF Effect, UserMessageReceived
<1>4. /\ agg' = agg \/ agg' = {}
      /\ Head(agenda) = CancelLlm => agg' = {}
      /\ Head(agenda).op # "UserMessageReceived" => bargeIn' = bargeIn
      /\ Head(agenda).op = "UserMessageReceived" => bargeIn' = 0
  BY DEF EffectStep, DoTransition, DoCommitWorkspace, DoCancelLlm, DoExpand,
         DoClassify, DoTimer, DoEmitToolCallFrames, DoActing,
         DoRecordToolResult, DoResponding, DoUserMessage, DoThinking, textVars,
         Doing, CancelLlm
<1>5. CASE bargeIn = 0
  <2>1. ~Has(UserMessageReceived, agenda)
    BY <1>5 DEF BargeInv
  <2>2. /\ Head(agenda) # UserMessageReceived
        /\ ~Has(UserMessageReceived, agenda')
    BY <1>1, <1>2, <2>1, AppliedHas
  <2> QED BY <1>3, <1>4, <1>5, <2>2 DEF BargeInv
<1>6. CASE bargeIn # 0
  <2>1. PICK p \in Seq(Harmless) :
          agenda = p \o Buffering /\ (agg = {} \/ Has(CancelLlm, p))
    BY <1>6 DEF BargeInv
  <2>2. CASE p = <<>>
    <3>1. agenda = Buffering
      BY <2>1, <2>2, BufferingEffects
    <3>2. Head(agenda) = UserMessageReceived /\ Rest = <<CommitWorkspace>>
      BY <3>1, BufferingEffects DEF Rest
    <3>3. ~Has(UserMessageReceived, Rest)
      BY <3>2, BufferingEffects DEF Has
    <3>4. ~Has(UserMessageReceived, agenda')
      BY <1>1, <1>2, <3>3, AppliedHas
    <3>5. agg = {}
      BY <2>1, <2>2 DEF Has
    <3> QED BY <1>3, <1>4, <1>6, <3>2, <3>4, <3>5 DEF BargeInv
  <2>3. CASE p # <<>>
    <3>1. p \in Seq(Effect) /\ Buffering \in Seq(Effect)
      BY <2>1, BufferingEffects, HarmlessEffects
    <3>2. PICK q \in Seq(Effect) : q = Buffering
      BY <3>1
    <3>3. PICK r : r = Tail(p)
      OBVIOUS
    <3>4. /\ Head(agenda) = Head(p) /\ Rest = r \o q
          /\ r \in Seq(Harmless) /\ Head(p) \in Harmless
      BY <2>1, <2>3, <3>1, <3>2, <3>3, HeadOfConcat DEF Rest
    <3>5. X \in Seq(Harmless) /\ call' = 0
      BY <1>1, <3>4 DEF Applied
    <3>6. PICK y : y = X \o r
      OBVIOUS
    <3>7. y \in Seq(Harmless) /\ X \in Seq(Effect) /\ r \in Seq(Effect)
      BY <3>4, <3>5, <3>6, SeqConcat, HarmlessEffects
    <3>8. agenda' = y \o q
      <4>1. X \o (r \o q) = (X \o r) \o q
        BY <3>2, <3>7, ConcatAssociative
      <4> QED BY <1>2, <3>4, <3>6, <4>1, Zenon
    <3>9. Head(agenda).op # "UserMessageReceived" /\ bargeIn' = bargeIn
      BY <1>3, <1>4, <3>4, BufferingEffects
    <3>10. agg' = {} \/ Has(CancelLlm, y)
      <4>1. CASE Head(agenda) = CancelLlm
        BY <1>4, <4>1
      <4>2. CASE Head(agenda) # CancelLlm /\ agg' # {}
        <5>1. Has(CancelLlm, p)
          BY <1>4, <2>1, <4>2
        <5>2. Has(CancelLlm, r)
          BY <2>3, <3>1, <3>3, <3>4, <4>2, <5>1, HasHead
        <5> QED BY <3>6, <3>7, <5>2, HasConcat
      <4> QED BY <4>1, <4>2
    <3> QED BY <1>6, <3>2, <3>5, <3>7, <3>8, <3>9, <3>10 DEF BargeInv
  <2> QED BY <2>2, <2>3
<1> QED BY <1>5, <1>6

LEMMA LlmStepBarge ==
  ASSUME TypeOK, BargeInv, LlmStep PROVE BargeInv' /\ bargeIn' = 0 /\ bargeIn = 0
<1>1. PICK X \in Seq(Ordinary) : agenda' = X \o agenda
  BY LlmAgenda
<1>2. call # 0 /\ agenda \in Seq(Effect) /\ X \in Seq(Effect)
  BY <1>1, LlmAgenda DEF Ordinary
<1>3. bargeIn = 0 /\ ~Has(UserMessageReceived, agenda)
  BY <1>2, NoBargeIn
<1>4. bargeIn' = bargeIn
  BY DEF LlmStep, LlmAbandoned, LlmReturns, LlmThrows
<1>5. ~Has(UserMessageReceived, agenda')
  BY <1>1, <1>2, <1>3, HasConcat, OrdinaryHasNoMessage
<1> QED BY <1>3, <1>4, <1>5 DEF BargeInv

LEMMA DecidedBarge ==
  ASSUME bargeIn' = 0, NEW X, Decided(X) PROVE BargeInv'
BY OrdinaryHasNoMessage DEF Decided, BargeInv

LEMMA BargeInBarge ==
  ASSUME TypeOK, BargeIn, bargeIn' # 0 PROVE BargeInv'
<1>1. PICK p : p = HandleInterrupt(ds).effects
  OBVIOUS
<1>2. p \in Seq(Harmless) /\ Has(CancelLlm, p)
  BY <1>1, InterruptDecision, InterruptHarmless DEF TypeOK
<1>3. agenda' = p \o Buffering /\ call' = 0
  BY <1>1, NotBusy DEF BargeIn, Dequeue, Buffering
<1> QED BY <1>2, <1>3 DEF BargeInv

-----------------------------------------------------------------------------
(* The messages' part of the invariant.                                    *)
LEMMA EffectStepOrder ==
  ASSUME TypeOK, OrderInv, EffectStep PROVE OrderInv'
<1>0. /\ ds \in DialogueState /\ sent \in Nat /\ bargeIn \in Nat
      /\ Chained /\ Ordered(queue)
  BY DEF TypeOK, OrderInv
<1>1. /\ BargeInv'
      /\ Head(agenda).op = "UserMessageReceived" => agg = {} /\ bargeIn # 0
  BY EffectStepBarge DEF OrderInv
<1>2. sent' = sent
  BY DEF EffectStep, DoTransition, DoCommitWorkspace, DoCancelLlm, DoExpand,
         DoClassify, DoTimer, DoEmitToolCallFrames, DoActing,
         DoRecordToolResult, DoResponding, DoUserMessage, DoThinking, envVars
<1>3. CASE /\ UNCHANGED <<hist, agg, bargeIn, queue>>
           /\ ds'.fragments = ds.fragments
  BY <1>0, <1>1, <1>2, <1>3 DEF OrderInv, Chained, BargingIn, Msgs, Ordered
<1>4. CASE DoTransition
  <2>1. UNCHANGED <<hist, agg, bargeIn, ds>> /\ (queue' = queue \/ queue' = <<>>)
    BY <1>4 DEF DoTransition, textVars
  <2>2. CASE queue' = queue
    BY <1>3, <2>1, <2>2
  <2>3. CASE queue' = <<>>
    <3>1. Msgs(queue') = {} /\ Ordered(queue')
      BY <2>3, EmptyQueue
    <3>2. Chain(hist, ds.fragments, agg, BargingIn, {}, sent)
      BY <1>0, ChainLoses DEF Chained
    <3> QED BY <1>1, <1>2, <2>1, <3>1, <3>2 DEF OrderInv, Chained, BargingIn
  <2> QED BY <2>1, <2>2, <2>3
<1>5. CASE DoCommitWorkspace
  <2>1. /\ hist' = hist \cup ds.fragments /\ ds'.fragments = {}
        /\ UNCHANGED <<agg, bargeIn, queue>>
    BY <1>0, <1>5 DEF DoCommitWorkspace, DialogueState
  <2>2. Chain(hist \cup ds.fragments, {}, agg, BargingIn, Msgs(queue), sent)
    BY <1>0, ChainCommits DEF Chained
  <2> QED BY <1>0, <1>1, <1>2, <2>1, <2>2 DEF OrderInv, Chained, BargingIn
<1>6. CASE DoCancelLlm
  <2>1. agg' = {} /\ UNCHANGED <<hist, ds, bargeIn, queue>>
    BY <1>6 DEF DoCancelLlm
  <2>2. Chain(hist, ds.fragments, {}, BargingIn, Msgs(queue), sent)
    BY <1>0, ChainLoses DEF Chained
  <2> QED BY <1>0, <1>1, <1>2, <2>1, <2>2 DEF OrderInv, Chained, BargingIn
<1>7. CASE DoUserMessage
  <2>1. /\ ds' = HandleUserMessage(ds, {bargeIn}).next /\ bargeIn' = 0
        /\ UNCHANGED <<hist, agg, queue>> /\ Head(agenda).op = "UserMessageReceived"
    BY <1>7 DEF DoUserMessage, Apply, Doing, textVars
  <2>2. agg = {} /\ BargingIn = {bargeIn} /\ BargingIn' = {}
    BY <1>1, <2>1 DEF BargingIn
  <2>3. /\ Chain(hist, ds.fragments, {}, {}, Msgs(queue), sent)
        /\ Chain(hist, ds.fragments \cup {bargeIn}, {}, {}, Msgs(queue), sent)
    BY <1>0, <2>2, ChainBuffers, ChainLoses DEF Chained
  <2>4. ds'.fragments \in {ds.fragments, ds.fragments \cup {bargeIn}}
    BY <1>0, <2>1, UserMessageFragments
  <2> QED BY <1>0, <1>1, <1>2, <2>1, <2>2, <2>3, <2>4 DEF OrderInv, Chained
<1>8. CASE DoClassify \/ DoActing
  BY <1>0, <1>3, <1>8, SameFragments DEF DoClassify, DoActing, Apply, textVars
<1>9. CASE \/ DoExpand \/ DoTimer \/ DoEmitToolCallFrames
           \/ DoRecordToolResult \/ DoResponding \/ DoThinking
  BY <1>3, <1>9 DEF DoExpand, DoTimer, DoEmitToolCallFrames, DoRecordToolResult,
                    DoResponding, DoThinking, textVars
<1> QED BY <1>4, <1>5, <1>6, <1>7, <1>8, <1>9 DEF EffectStep

LEMMA LlmStepOrder ==
  ASSUME TypeOK, OrderInv, LlmStep PROVE OrderInv'
<1>1. BargeInv' /\ bargeIn' = 0 /\ bargeIn = 0
  BY LlmStepBarge DEF OrderInv
<1>2. UNCHANGED <<hist, agg, queue, sent>>
  BY DEF LlmStep, LlmAbandoned, LlmReturns, LlmThrows, textVars, envVars
<1>3. ds'.fragments = ds.fragments
  <2>1. CASE ds' = ds
    BY <2>1
  <2>2. ASSUME NEW type \in {"ToolCall", "Response", "Continue"}, NEW calls,
               LlmReturns(type, calls)
        PROVE  ds'.fragments = ds.fragments
    BY <2>2, CompletedFragments DEF LlmReturns, Apply, TypeOK
  <2>3. CASE Apply(HandleLlmFailed(ds), agenda)
    BY <2>3, SameFragments DEF Apply, TypeOK
  <2> QED BY <2>1, <2>2, <2>3 DEF LlmStep, LlmAbandoned, LlmThrows
<1> QED BY <1>1, <1>2, <1>3 DEF OrderInv, Chained, BargingIn, Msgs, Ordered

LEMMA ExpireOrder ==
  ASSUME TypeOK, OrderInv, ExpireNext PROVE OrderInv'
<1>0. /\ ds \in DialogueState /\ sent \in Nat /\ Chained
      /\ UNCHANGED <<hist, bargeIn, queue, sent>>
  BY DEF TypeOK, OrderInv, ExpireNext, envVars
<1>1. PICK X : Decided(X)
  BY ExpireAgenda
<1>2. bargeIn' = 0 /\ bargeIn = 0 /\ BargingIn = {} /\ BargingIn' = {}
  BY <1>0, <1>1, NoBargeIn DEF Decided, OrderInv, BargingIn
<1>3. BargeInv'
  BY <1>1, <1>2, DecidedBarge
<1>4. \/ agg' = agg /\ ds'.fragments = ds.fragments
      \/ agg' = {} /\ ds'.fragments \in {ds.fragments, ds.fragments \cup agg}
  BY <1>0, SameFragments, UserMessageFragments
  DEF ExpireNext, ExpireAggregation, Apply
<1>5. /\ Chain(hist, ds.fragments \cup agg, {}, {}, Msgs(queue), sent)
      /\ Chain(hist, ds.fragments, {}, {}, Msgs(queue), sent)
  BY <1>0, <1>2, ChainFlushes, ChainLoses DEF Chained
<1> QED BY <1>0, <1>2, <1>3, <1>4, <1>5 DEF OrderInv, Chained

(* An observation is taken from the front of the queue.                    *)
LEMMA DequeueOrder ==
  ASSUME TypeOK, OrderInv, NEW type, Dequeue(type)
  PROVE  /\ Ordered(queue') /\ Msgs(queue') \subseteq Msgs(queue)
         /\ bargeIn = 0 /\ BargingIn = {} /\ agenda = <<>>
         /\ type = "UserMessage" =>
              /\ Head(queue).msg \in Msgs(queue) /\ Head(queue).msg \in Nat \ {0}
              /\ Before({Head(queue).msg}, Msgs(queue'))
<1>1. /\ queue \in Seq(Observation) /\ queue # <<>> /\ queue' = Tail(queue)
      /\ Ordered(queue) /\ agenda = <<>> /\ Head(queue).type = type
  BY NotBusy DEF TypeOK, OrderInv, Dequeue
<1>2. bargeIn = 0 /\ BargingIn = {}
  BY <1>1, NoBargeIn DEF OrderInv
<1>3. Ordered(queue') /\ Msgs(queue') \subseteq Msgs(queue)
  BY <1>1, ShorterQueue
<1>4. ASSUME type = "UserMessage"
      PROVE  /\ Head(queue).msg \in Msgs(queue) /\ Head(queue).msg \in Nat \ {0}
             /\ Before({Head(queue).msg}, Msgs(queue'))
  <2>1. /\ Head(queue).msg \in Msgs(queue)
        /\ Before({Head(queue).msg}, Msgs(queue'))
    BY <1>1, <1>4, ShorterQueue DEF IsUser
  <2>2. Msgs(queue) \subseteq 1..sent /\ sent \in Nat
    BY DEF OrderInv, Chained, Chain, TypeOK
  <2> QED BY <2>1, <2>2
<1> QED BY <1>1, <1>2, <1>3, <1>4

LEMMA InterruptOrder ==
  ASSUME TypeOK, OrderInv, HandleInterruption \/ BargeIn PROVE OrderInv'
<1>0. /\ ds \in DialogueState /\ sent \in Nat /\ Chained
      /\ UNCHANGED <<hist, agg, sent>> /\ ds' = HandleInterrupt(ds).next
  BY DEF TypeOK, OrderInv, HandleInterruption, BargeIn, Apply, textVars, envVars
<1>1. ds'.fragments = ds.fragments
  BY <1>0, InterruptDecision
<1>2. CASE HandleInterruption
  <2>1. /\ Ordered(queue') /\ Msgs(queue') \subseteq Msgs(queue)
        /\ bargeIn = 0 /\ BargingIn = {} /\ bargeIn' = 0
    BY <1>2, DequeueOrder DEF HandleInterruption
  <2>2. PICK X : X = HandleInterrupt(ds).effects
    OBVIOUS
  <2>3. X \in Seq(InterruptEffectSet) /\ agenda' = X \o <<>>
    BY <1>0, <1>2, <2>2, InterruptDecision, NotBusy
    DEF HandleInterruption, Dequeue, Apply
  <2>4. UserMessageReceived \notin InterruptEffectSet
    BY InterruptHarmless, BufferingEffects
  <2>5. ~Has(UserMessageReceived, agenda')
    BY <2>3, <2>4, HasIn
  <2>6. Chain(hist, ds.fragments, agg, {}, Msgs(queue'), sent)
    BY <1>0, <2>1, ChainLoses DEF Chained
  <2> QED BY <1>0, <1>1, <2>1, <2>5, <2>6 DEF OrderInv, Chained, BargeInv, BargingIn
<1>3. CASE BargeIn
  <2>1. /\ Ordered(queue') /\ Msgs(queue') \subseteq Msgs(queue) /\ BargingIn = {}
        /\ Head(queue).msg \in Msgs(queue) /\ Head(queue).msg \in Nat \ {0}
        /\ Before({Head(queue).msg}, Msgs(queue'))
    BY <1>3, DequeueOrder DEF BargeIn
  <2>2. bargeIn' = Head(queue).msg
    BY <1>3 DEF BargeIn
  <2>3. BargeInv' /\ BargingIn' = {Head(queue).msg}
    BY <1>3, <2>1, <2>2, BargeInBarge DEF BargingIn
  <2>4. Chain(hist, ds.fragments, agg, {Head(queue).msg}, Msgs(queue'), sent)
    BY <1>0, <2>1, ChainDequeues DEF Chained
  <2> QED BY <1>0, <1>1, <2>1, <2>3, <2>4 DEF OrderInv, Chained
<1> QED BY <1>2, <1>3

LEMMA FeedOrder ==
  ASSUME TypeOK, OrderInv, FeedUserMessage \/ FeedSystemEvent PROVE OrderInv'
<1>0. /\ ds \in DialogueState /\ sent \in Nat /\ Chained
      /\ UNCHANGED <<hist, sent, bargeIn>>
  BY DEF TypeOK, OrderInv, FeedUserMessage, FeedSystemEvent, envVars
<1>1. PICK s \in DialogueState :
        /\ s = IF fsm = "Idle" THEN ResetBudgetWindow(ds) ELSE ds
        /\ s.fragments = ds.fragments
  BY <1>0, ResetType, SameFragments
<1>2. PICK X : Decided(X)
  BY FeedAgenda
<1>3. /\ Ordered(queue') /\ Msgs(queue') \subseteq Msgs(queue)
      /\ bargeIn' = 0 /\ BargingIn = {} /\ BargingIn' = {} /\ BargeInv'
  BY <1>0, <1>2, DequeueOrder, DecidedBarge
  DEF FeedUserMessage, FeedSystemEvent, BargingIn
<1>4. CASE FeedSystemEvent
  <2>1. ds'.fragments = ds.fragments /\ agg' \in {agg, {}}
    <3>1. HandleSystemEvent(s).next.fragments = ds.fragments
      BY <1>1, SameFragments
    <3> QED BY <1>1, <1>4, <3>1 DEF FeedSystemEvent, Apply
  <2>2. /\ Chain(hist, ds.fragments, agg, {}, Msgs(queue'), sent)
        /\ Chain(hist, ds.fragments, {}, {}, Msgs(queue'), sent)
    BY <1>0, <1>3, ChainLoses DEF Chained
  <2> QED BY <1>0, <1>3, <2>1, <2>2 DEF OrderInv, Chained
<1>5. CASE FeedUserMessage
  <2>1. PICK m, a :
          /\ m = Head(queue).msg /\ a = IF fsm = "Idle" THEN {} ELSE agg
          /\ \/ agg' = {} /\ ds' = HandleUserMessage(s, a \cup {m}).next
             \/ agg' = a \cup {m} /\ ds' = s
    BY <1>1, <1>5 DEF FeedUserMessage, Fed, Apply
  <2>2. m \in Msgs(queue) /\ Before({m}, Msgs(queue'))
    BY <1>5, <2>1, DequeueOrder DEF FeedUserMessage
  <2>3. \/ agg' = {} /\ ds'.fragments \in {ds.fragments, ds.fragments \cup (a \cup {m})}
        \/ agg' = a \cup {m} /\ ds'.fragments = ds.fragments
    BY <1>1, <2>1, UserMessageFragments
  <2>4. Chain(hist, ds.fragments, a, {}, Msgs(queue), sent)
    BY <1>0, <1>3, <2>1, ChainLoses DEF Chained
  <2>5. /\ Chain(hist, ds.fragments, a \cup {m}, {}, Msgs(queue'), sent)
        /\ Chain(hist, ds.fragments \cup (a \cup {m}), {}, {}, Msgs(queue'), sent)
        /\ Chain(hist, ds.fragments, {}, {}, Msgs(queue'), sent)
    BY <1>0, <1>3, <2>2, <2>4, ChainDequeues, ChainLoses
  <2> QED BY <1>0, <1>3, <2>3, <2>5 DEF OrderInv, Chained
<1> QED BY <1>4, <1>5

LEMMA LoopStepOrder ==
  ASSUME TypeOK, OrderInv, LoopStep PROVE OrderInv'
<1>0. ds \in DialogueState /\ sent \in Nat /\ Chained
  BY DEF TypeOK, OrderInv
<1>1. CASE ExpireNext
  BY <1>1, ExpireOrder
<1>2. CASE HandleInterruption \/ BargeIn
  BY <1>2, InterruptOrder
<1>3. CASE FeedUserMessage \/ FeedSystemEvent
  BY <1>3, FeedOrder
<1>4. CASE HandleActingResult
  <2>1. /\ UNCHANGED <<hist, agg, bargeIn, sent>>
        /\ \E id, ok : ds' = HandleToolResult(ds, id, ok).next
    BY <1>4 DEF HandleActingResult, Apply, textVars, envVars
  <2>2. ds'.fragments = ds.fragments
    BY <1>0, <2>1, SameFragments
  <2>3. /\ Ordered(queue') /\ Msgs(queue') \subseteq Msgs(queue)
        /\ bargeIn = 0 /\ BargingIn = {}
    BY <1>4, DequeueOrder DEF HandleActingResult
  <2>4. PICK ok \in BOOLEAN :
          \/ agenda' = <<RecordToolResult(ok)>>
          \/ agenda' = <<RecordToolResult(ok), CancelTimer("tool_call_timeout"), StartLlm>>
    BY <1>4, ResultAgenda
  <2>5. ~Has(UserMessageReceived, agenda')
    <3>1. /\ UserMessageReceived # RecordToolResult(ok)
          /\ UserMessageReceived # CancelTimer("tool_call_timeout")
          /\ UserMessageReceived # StartLlm
      BY DEF UserMessageReceived, RecordToolResult, CancelTimer, StartLlm
    <3>2. PICK u, r, t, l :
            /\ u = UserMessageReceived /\ r = RecordToolResult(ok)
            /\ t = CancelTimer("tool_call_timeout") /\ l = StartLlm
      OBVIOUS
    <3>3. u \notin {r, t, l}
      BY <3>1, <3>2
    <3>4. ~Has(u, <<r>>) /\ ~Has(u, <<r, t, l>>)
      BY <3>3, HasShort
    <3> QED BY <2>4, <3>2, <3>4
  <2>6. Chain(hist, ds.fragments, agg, {}, Msgs(queue'), sent)
    BY <1>0, <2>3, ChainLoses DEF Chained
  <2> QED BY <2>1, <2>2, <2>3, <2>5, <2>6 DEF OrderInv, Chained, BargeInv, BargingIn
<1>5. CASE IgnoreObservation
  <2>1. UNCHANGED <<hist, agg, bargeIn, sent, ds, agenda, call>>
    BY <1>5 DEF IgnoreObservation, textVars, envVars
  <2>2. PICK type : Dequeue(type)
    BY <1>5 DEF IgnoreObservation
  <2>3. /\ Ordered(queue') /\ Msgs(queue') \subseteq Msgs(queue)
        /\ bargeIn = 0 /\ BargingIn = {}
    BY <2>2, DequeueOrder
  <2>4. Chain(hist, ds.fragments, agg, {}, Msgs(queue'), sent)
    BY <1>0, <2>3, ChainLoses DEF Chained
  <2> QED BY <2>1, <2>3, <2>4 DEF OrderInv, Chained, BargeInv, BargingIn, Has
<1>6. CASE Wake \/ LoopBreak \/ EndIteration
  BY <1>6, KeepOrderAll DEF Wake, LoopBreak, EndIteration, textVars, envVars
<1> QED BY <1>1, <1>2, <1>3, <1>4, <1>5, <1>6 DEF LoopStep

(* Other threads only append, and user messages get the next number.       *)
LEMMA EnqueueOrder ==
  ASSUME TypeOK, OrderInv, NEW o \in Observation, Enqueue(o),
         UNCHANGED <<hist, ds, agg, bargeIn, agenda, call>>,
         IF IsUser(o) THEN sent' = sent + 1 /\ o.msg = sent' ELSE sent' = sent
  PROVE  OrderInv'
<1>0. /\ queue \in Seq(Observation) /\ sent \in Nat /\ Chained /\ Ordered(queue)
      /\ queue' = Append(queue, o)
  BY DEF TypeOK, OrderInv, Enqueue
<1>1. IsUser(o) => \A m \in Msgs(queue) : m < o.msg
  <2>1. Msgs(queue) \subseteq 1..sent
    BY <1>0 DEF Chained, Chain
  <2> QED BY <1>0, <2>1
<1>2. /\ Ordered(queue')
      /\ Msgs(queue') = IF IsUser(o) THEN Msgs(queue) \cup {o.msg} ELSE Msgs(queue)
  BY <1>0, <1>1, LongerQueue
<1>3. Chain(hist, ds.fragments, agg, BargingIn, Msgs(queue'), sent')
  BY <1>0, <1>2, ChainSends DEF Chained
<1>4. BargeInv' /\ BargingIn' = BargingIn
  BY DEF OrderInv, BargeInv, BargingIn, Has
<1> QED BY <1>2, <1>3, <1>4 DEF OrderInv, Chained

LEMMA EnvironmentStepOrder ==
  ASSUME TypeOK, OrderInv, EnvironmentStep PROVE OrderInv'
<1>1. CASE SendUser
  <2>1. sent \in Nat /\ sent' = sent + 1
    BY <1>1 DEF SendUser, TypeOK
  <2>2. PICK o : o = [type |-> "UserMessage", msg |-> sent']
    OBVIOUS
  <2>3. o \in Observation /\ IsUser(o) /\ o.msg = sent'
    BY <2>1, <2>2 DEF Observation, IsUser
  <2>4. Enqueue(o) /\ UNCHANGED <<hist, ds, agg, bargeIn, agenda, call>>
    BY <1>1, <2>2 DEF SendUser, loopVars, textVars
  <2> QED BY <2>1, <2>3, <2>4, EnqueueOrder
<1>2. CASE SendSystemEvent \/ ToolAnswers \/ \E c \in Callers : InterruptEnqueue(c)
  <2>1. PICK o \in Observation : Enqueue(o) /\ ~IsUser(o)
    <3>1. CASE SendSystemEvent
      <4>1. /\ [type |-> "SystemEvent"] \in Observation
            /\ ~IsUser([type |-> "SystemEvent"])
        BY DEF Observation, IsUser
      <4> QED BY <3>1, <4>1 DEF SendSystemEvent
    <3>2. CASE ToolAnswers
      <4>1. PICK id \in Tools, ok \in BOOLEAN :
              Enqueue([type |-> "ToolResult", id |-> id, ok |-> ok])
        BY <3>2 DEF ToolAnswers, TypeOK
      <4>2. /\ [type |-> "ToolResult", id |-> id, ok |-> ok] \in Observation
            /\ ~IsUser([type |-> "ToolResult", id |-> id, ok |-> ok])
        BY DEF Observation, IsUser
      <4> QED BY <4>1, <4>2
    <3>3. CASE \E c \in Callers : InterruptEnqueue(c)
      <4>1. /\ [type |-> "Interruption"] \in Observation
            /\ ~IsUser([type |-> "Interruption"])
        BY DEF Observation, IsUser
      <4> QED BY <3>3, <4>1 DEF InterruptEnqueue
    <3> QED BY <1>2, <3>1, <3>2, <3>3
  <2>2. UNCHANGED <<hist, ds, agg, bargeIn, agenda, call, sent>>
    BY <1>2 DEF SendSystemEvent, ToolAnswers, InterruptEnqueue, loopVars, textVars
  <2> QED BY <2>1, <2>2, EnqueueOrder
<1>3. CASE \/ \E c \in Callers : InterruptCheck(c) \/ InterruptFlag(c)
           \/ RequestShutdown
  BY <1>3, KeepOrderAll
  DEF InterruptCheck, InterruptFlag, RequestShutdown, loopVars, textVars, envVars
<1> QED BY <1>1, <1>2, <1>3 DEF EnvironmentStep, FinishInterrupt

LEMMA OrderStep == TypeOK /\ OrderInv /\ [Next]_vars => OrderInv'
<1> SUFFICES ASSUME TypeOK, OrderInv, [Next]_vars PROVE OrderInv'
  OBVIOUS
<1>1. CASE EffectStep
  BY <1>1, EffectStepOrder
<1>2. CASE LlmStep
  BY <1>2, LlmStepOrder
<1>3. CASE LoopStep
  BY <1>3, LoopStepOrder
<1>4. CASE EnvironmentStep
  BY <1>4, EnvironmentStepOrder
<1>5. CASE Start \/ Terminate \/ Tick \/ UNCHANGED vars
  BY <1>5, KeepOrderAll DEF Start, Terminate, Tick, vars, loopVars, textVars, envVars
<1> QED BY <1>1, <1>2, <1>3, <1>4, <1>5 DEF Next

LEMMA OrderInit == Init => OrderInv
<1> SUFFICES ASSUME Init PROVE OrderInv
  OBVIOUS
<1>1. /\ hist = {} /\ ds.fragments = {} /\ agg = {} /\ bargeIn = 0
      /\ queue = <<>> /\ sent = 0 /\ agenda = <<>>
  BY DEF Init, InitialDialogue
<1>2. Msgs(queue) = {} /\ Ordered(queue) /\ BargingIn = {}
  BY <1>1, EmptyQueue DEF BargingIn
<1>3. BargeInv
  BY <1>1 DEF BargeInv, Has
<1> QED BY <1>1, <1>2, <1>3 DEF OrderInv, Chained, Chain, Before

(* A user message is in one place at a time, and none overtakes another on *)
(* its way through queue, barge-in, aggregator and workspace to history.   *)
THEOREM MessagesStayInOrder == Spec => []InOrder
<1> QED BY OrderInit, OrderStep, OrderImplies, TypeCorrect, PTL DEF Spec

LEMMA HistoryStep ==
  OrderInv /\ [Next]_vars => [hist \subseteq hist' /\ Before(hist, hist' \ hist)]_vars
<1> SUFFICES ASSUME OrderInv, [Next]_vars
             PROVE  hist \subseteq hist' /\ Before(hist, hist' \ hist)
  OBVIOUS
<1>1. hist' = hist \/ hist' = hist \cup ds.fragments
  <2>1. CASE EffectStep
    BY <2>1 DEF EffectStep, DoTransition, DoCommitWorkspace, DoCancelLlm, DoExpand,
                DoClassify, DoTimer, DoEmitToolCallFrames, DoActing,
                DoRecordToolResult, DoResponding, DoUserMessage, DoThinking, textVars
  <2>2. CASE LlmStep
    BY <2>2 DEF LlmStep, LlmAbandoned, LlmReturns, LlmThrows, textVars
  <2>3. CASE LoopStep
    BY <2>3 DEF LoopStep, Wake, LoopBreak, ExpireNext, EndIteration,
                HandleInterruption, BargeIn, HandleActingResult, FeedUserMessage,
                FeedSystemEvent, IgnoreObservation, textVars
  <2>4. CASE EnvironmentStep
    BY <2>4 DEF EnvironmentStep, SendUser, SendSystemEvent, ToolAnswers,
                InterruptCheck, FinishInterrupt, InterruptFlag, InterruptEnqueue,
                RequestShutdown, textVars
  <2>5. CASE Start \/ Terminate \/ Tick \/ UNCHANGED vars
    BY <2>5 DEF Start, Terminate, Tick, vars, textVars
  <2> QED BY <2>1, <2>2, <2>3, <2>4, <2>5 DEF Next
<1>2. Before(hist, ds.fragments)
  BY DEF OrderInv, Chained, Chain, Before
<1> QED BY <1>1, <1>2 DEF Before

(* The history the LLM reads only grows, and by messages sent after all it *)
(* holds: what an interrupt or a timeout commits never goes back in time.  *)
THEOREM HistoryGrows == Spec => HistoryGrowsInOrder
<1> QED
  BY OrderInit, OrderStep, HistoryStep, TypeCorrect, PTL DEF Spec, HistoryGrowsInOrder

=============================================================================
