---------------------------- MODULE ControllerFsm ----------------------------
(***************************************************************************)
(* The finite state machine of core/controller: its states, its events and *)
(* kTransitionTable.  The table is a record of records: Transition[s] has  *)
(* one field per event that state s accepts.  Terminated accepts nothing.  *)
(***************************************************************************)

States == {"Idle", "Listening", "Thinking", "Routing", "Acting",
           "Responding", "Error", "Terminated"}

Events == {"Start", "Stop", "Shutdown", "UserObservation", "LlmResult",
           "LlmFailure", "RouteToAction", "RouteToResponse",
           "RouteToContinue", "ActionComplete", "ActionFailed",
           "ResponseDelivered", "StopConditionMet", "Interrupt", "Recover"}

(* kTransitionTable: the 24 transitions.                                   *)
Transition ==
  [Idle       |-> [Start            |-> "Listening",
                   Shutdown         |-> "Terminated"],
   Listening  |-> [UserObservation  |-> "Thinking",
                   Shutdown         |-> "Terminated",
                   Stop             |-> "Idle"],
   Thinking   |-> [LlmResult        |-> "Routing",
                   LlmFailure       |-> "Error",
                   Interrupt        |-> "Listening",
                   StopConditionMet |-> "Idle",
                   Shutdown         |-> "Terminated"],
   Routing    |-> [RouteToAction    |-> "Acting",
                   RouteToResponse  |-> "Responding",
                   RouteToContinue  |-> "Thinking",
                   Interrupt        |-> "Listening",
                   Shutdown         |-> "Terminated"],
   Acting     |-> [ActionComplete   |-> "Thinking",
                   ActionFailed     |-> "Thinking",
                   Interrupt        |-> "Listening",
                   Shutdown         |-> "Terminated"],
   Responding |-> [ResponseDelivered |-> "Listening",
                   StopConditionMet |-> "Idle",
                   Shutdown         |-> "Terminated"],
   Error      |-> [Recover          |-> "Idle",
                   Shutdown         |-> "Terminated"]]

CanFire(s, e) == s \in DOMAIN Transition /\ e \in DOMAIN Transition[s]

(* TryTransition: the state after event e; an undefined pair leaves it.    *)
After(s, e) == IF CanFire(s, e) THEN Transition[s][e] ELSE s

(* The states in which Interrupt() and a barge-in act on the turn.         *)
Interruptible == {"Thinking", "Routing", "Acting"}

=============================================================================
