---------------------------- MODULE MCController ----------------------------
(***************************************************************************)
(* Controller on small instances.  The three timers keep the order of      *)
(* their real durations (0.5 s, 5 s, 30 s).                                *)
(***************************************************************************)
EXTENDS Controller

MCDuration ==
  [id \in TimerIds |-> CASE id = "debounce" -> 1
                         [] id = "aggregation" -> 2
                         [] id = "tool_call_timeout" -> 3]

=============================================================================
