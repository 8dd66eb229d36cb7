---------------------------- MODULE ArmedTimers ----------------------------
(***************************************************************************)
(* What the reasoning loop relies on of its timers: at most one deadline   *)
(* per timer id, replaced by scheduling it again and forgotten by          *)
(* cancelling it.  A harvest fires the timers due when it began, earliest  *)
(* first, and does not end before all of them have fired; a query answers  *)
(* with the earliest deadline.  Controller keeps the same state, as the    *)
(* time left of each timer, in its variables "due" and "batch".            *)
(***************************************************************************)
EXTENDS Naturals, Sequences

CONSTANTS Ids,     \* timer ids
          Delays   \* delays a timer may be scheduled with

VARIABLES armed,   \* the armed timers, records [id, at]
          now,     \* the clock
          op,      \* the call in progress
          cutoff,  \* the time for which the harvest in progress was asked
          fired,   \* what the last harvest fired, in order
          next     \* answer to the last query: {} or {deadline}

vars == <<armed, now, op, cutoff, fired, next>>

Without(id) == {t \in armed : t.id # id}

Init ==
  /\ armed = {} /\ now = 0 /\ op = "none" /\ cutoff = 0
  /\ fired = <<>> /\ next = {}

Schedule(id, d) ==
  /\ op = "none"
  /\ armed' = Without(id) \cup {[id |-> id, at |-> now + d]}
  /\ UNCHANGED <<now, op, cutoff, fired, next>>

Cancel(id) ==
  /\ op = "none"
  /\ armed' = Without(id)
  /\ UNCHANGED <<now, op, cutoff, fired, next>>

Harvest ==
  /\ op = "none"
  /\ op' = "PopExpired" /\ cutoff' = now /\ fired' = <<>>
  /\ UNCHANGED <<armed, now, next>>

Fire(t) ==
  /\ op = "PopExpired"
  /\ t.at <= cutoff /\ \A u \in armed : t.at <= u.at
  /\ armed' = armed \ {t}
  /\ fired' = Append(fired, t)
  /\ UNCHANGED <<now, op, cutoff, next>>

Harvested ==
  /\ op = "PopExpired" /\ \A t \in armed : t.at > cutoff
  /\ op' = "none"
  /\ UNCHANGED <<armed, now, cutoff, fired, next>>

Query ==
  /\ op = "none"
  /\ op' = "NextDeadline"
  /\ UNCHANGED <<armed, now, cutoff, fired, next>>

Answered ==
  /\ op = "NextDeadline" /\ op' = "none"
  /\ \/ armed = {} /\ next' = {}
     \/ \E t \in armed : (\A u \in armed : t.at <= u.at) /\ next' = {t.at}
  /\ UNCHANGED <<armed, now, cutoff, fired>>

Advance ==
  /\ now' = now + 1
  /\ UNCHANGED <<armed, op, cutoff, fired, next>>

Next ==
  \/ \E id \in Ids, d \in Delays : Schedule(id, d)
  \/ \E id \in Ids : Cancel(id)
  \/ Harvest \/ (\E t \in armed : Fire(t)) \/ Harvested
  \/ Query \/ Answered \/ Advance

Spec == Init /\ [][Next]_vars

=============================================================================
