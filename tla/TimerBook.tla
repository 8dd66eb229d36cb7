----------------------------- MODULE TimerBook -----------------------------
(***************************************************************************)
(* core/dialogue/timer_book: a heap of entries and a generation per timer  *)
(* id.  Scheduling and cancelling only raise the generation, so the heap   *)
(* keeps stale entries, which PopExpired, NextDeadline and Empty skip when *)
(* they reach the top.  The heap is a set (an id and a generation identify *)
(* an entry); its top is any entry with the least deadline.                *)
(***************************************************************************)
EXTENDS Naturals, Sequences

CONSTANTS Ids,            \* timer ids in use
          Delays,         \* delays a timer may be scheduled with
          MaxGeneration,  \* bound on the generations
          MaxTime         \* bound on the clock

ASSUME TimerBookAssumption ==
  Delays \subseteq Nat /\ MaxGeneration \in Nat /\ MaxTime \in Nat

VARIABLES heap,         \* heap_
          generations,  \* generations_
          now,          \* steady_clock
          op,           \* the call in progress: "none" or its name
          cutoff,       \* PopExpired's parameter now
          result,       \* what PopExpired has collected, its last result
          next          \* the last answer of NextDeadline, {} for nullopt

vars == <<heap, generations, now, op, cutoff, result, next>>

TimerEntry == [id : Ids, generation : Nat, at : Nat]

Init ==
  /\ heap = {} /\ generations = [id \in Ids |-> 0]
  /\ now = 0 /\ op = "none" /\ cutoff = 0 /\ result = <<>> /\ next = {}

(* Mutant: scheduling an armed timer again leaves its generation as it is. *)
ScheduleSameGeneration(id, d) ==
  /\ op = "none" /\ generations[id] < MaxGeneration
  /\ heap' = heap \cup
       {[id |-> id, generation |-> generations[id], at |-> now + d]}
  /\ UNCHANGED <<generations, now, op, cutoff, result, next>>

Schedule(id, d) ==
  /\ op = "none" /\ generations[id] < MaxGeneration
  /\ generations' = [generations EXCEPT ![id] = @ + 1]
  /\ heap' = heap \cup
       {[id |-> id, generation |-> generations[id] + 1, at |-> now + d]}
  /\ UNCHANGED <<now, op, cutoff, result, next>>

(* Mutant: cancelling goes back to the previous generation.                *)
CancelBack(id) ==
  /\ op = "none" /\ generations[id] < MaxGeneration
  /\ generations' = [generations EXCEPT ![id] = @ - 1]
  /\ UNCHANGED <<heap, now, op, cutoff, result, next>>

Cancel(id) ==
  /\ op = "none" /\ generations[id] < MaxGeneration
  /\ generations' = [generations EXCEPT ![id] = @ + 1]
  /\ UNCHANGED <<heap, now, op, cutoff, result, next>>

(* Mutant: any entry may be on top of the heap.                            *)
AnyTop(e) == e \in heap

Top(e) == e \in heap /\ \A f \in heap : e.at <= f.at
Stale(e) == e.generation # generations[e.id]

PopExpired ==
  /\ op = "none"
  /\ op' = "PopExpired" /\ cutoff' = now /\ result' = <<>>
  /\ UNCHANGED <<heap, generations, now, next>>

(* DiscardStale of NextDeadline and Empty, and the stale case of PopExpired *)
DiscardStale(e) ==
  /\ op # "none" /\ Top(e) /\ Stale(e)
  /\ heap' = heap \ {e}
  /\ UNCHANGED <<generations, now, op, cutoff, result, next>>

PopDue(e) ==
  /\ op = "PopExpired" /\ Top(e) /\ ~Stale(e) /\ e.at <= cutoff
  /\ heap' = heap \ {e}
  /\ result' = Append(result, [id |-> e.id, at |-> e.at])
  /\ UNCHANGED <<generations, now, op, cutoff, next>>

PopExpiredReturns ==
  /\ op = "PopExpired"
  /\ heap = {} \/ \E e \in heap : Top(e) /\ ~Stale(e) /\ e.at > cutoff
  /\ op' = "none"
  /\ UNCHANGED <<heap, generations, now, cutoff, result, next>>

NextDeadline ==
  /\ op = "none"
  /\ op' = "NextDeadline"
  /\ UNCHANGED <<heap, generations, now, cutoff, result, next>>

NextDeadlineReturns ==
  /\ op = "NextDeadline"
  /\ \/ heap = {} /\ next' = {}
     \/ \E e \in heap : Top(e) /\ ~Stale(e) /\ next' = {e.at}
  /\ op' = "none"
  /\ UNCHANGED <<heap, generations, now, cutoff, result>>

Advance ==
  /\ now < MaxTime
  /\ now' = now + 1
  /\ UNCHANGED <<heap, generations, op, cutoff, result, next>>

Next ==
  \/ \E id \in Ids, d \in Delays : Schedule(id, d)
  \/ \E id \in Ids : Cancel(id)
  \/ \E e \in heap : DiscardStale(e) \/ PopDue(e)
  \/ PopExpired \/ PopExpiredReturns
  \/ NextDeadline \/ NextDeadlineReturns
  \/ Advance

Spec == Init /\ [][Next]_vars

-----------------------------------------------------------------------------
(* Properties.                                                             *)

(* Every variable keeps its type, and no entry is from a generation to     *)
(* come.                                                                   *)
TypeOK ==
  /\ heap \subseteq TimerEntry
  /\ generations \in [Ids -> Nat]
  /\ now \in Nat /\ cutoff \in Nat
  /\ op \in {"none", "PopExpired", "NextDeadline"}
  /\ result \in Seq([id : Ids, at : Nat])
  /\ next \subseteq Nat
  /\ \A e \in heap : e.generation <= generations[e.id]

(* "Pops all non-stale timers ... Returns in deadline order": the stale    *)
(* entries among the ones popped do not disturb the order.                 *)
DeadlineOrder ==
  \A i, j \in DOMAIN result : i < j => result[i].at <= result[j].at

Armed == {[id |-> e.id, at |-> e.at] : e \in {f \in heap : ~Stale(f)}}

(* With the stale entries hidden, the timer book is a set of armed timers: *)
(* no cancelled or replaced timer ever fires, a harvest misses no due one, *)
(* and the loop never sleeps past a deadline nor wakes for a stale one.    *)
Abstract == INSTANCE ArmedTimers WITH armed <- Armed, fired <- result
ImplementsArmedTimers == Abstract!Spec

=============================================================================
