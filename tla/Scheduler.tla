------------------------------- MODULE Scheduler -------------------------------
(***************************************************************************)
(* app/scheduler/scheduler_device.cpp: items are appended to a vector by    *)
(* any thread; the timer thread sleeps until the earliest is due, collects  *)
(* POINTERS to the due ones, releases the mutex, and emits and marks them   *)
(* one by one through the pointers.                                         *)
(*                                                                          *)
(* The vector is its elements, its capacity and the number of its buffer,   *)
(* which a reallocation changes: a pointer is a buffer and an index.  Time  *)
(* is a counter of minutes; Day is the 24 hours the scan starts from.       *)
(***************************************************************************)
EXTENDS Sequences, Enumerations

CONSTANTS Day,           \* how far ahead the scan looks
          MaxTime,       \* bound on the clock
          MaxItems       \* bound on the items of a behaviour

ASSUME SchedulerAssumption == Day \in Nat \ {0} /\ MaxTime \in Nat /\ MaxItems \in Nat

VARIABLES items,         \* items_: [id, trigger_time, fired]
          capacity,      \* of the vector
          buffer,        \* how often the vector has been reallocated
          tpc,           \* where the timer thread is
          earliest,      \* the deadline of wait_until
          ready,         \* the pointers to emit: [buffer, at, id]
          stop,          \* stop_
          timer_woken,   \* a notification reached the sleeping thread
          timer_joiner,  \* how far Stop() has come
          timer_missed,  \* history: Stop() notified between predicate and wait
          clock,         \* system_clock
          scheduled,     \* history: the trigger time of every item, by id
          fires,         \* history: the scheduler/event frames: [id, early]
          cancelled,     \* history: the ids Cancel() returned true for
          disturbed      \* history: a collected element was moved or freed

schedulerVars == <<items, capacity, buffer, tpc, earliest, ready, stop,
                   timer_woken, timer_joiner, timer_missed, clock, scheduled,
                   fires, cancelled, disturbed>>

SchedulerInit ==
  /\ items = <<>> /\ capacity = 0 /\ buffer = 0 /\ tpc = "looping"
  /\ earliest = 0 /\ ready = <<>> /\ stop = FALSE
  /\ timer_woken = FALSE /\ timer_joiner = "none" /\ timer_missed = FALSE
  /\ clock = 0 /\ scheduled = <<>> /\ fires = <<>> /\ cancelled = {}
  /\ disturbed = FALSE

Asleep == tpc \in {"asleep", "timed_asleep"}
Testing == tpc \in {"testing", "timed_testing"}
ItemsMutexFree == ~Testing
Holding == tpc \in {"emitting", "marking"} /\ ready # <<>>

-----------------------------------------------------------------------------
\* Schedule() and Cancel(), on any thread

Full == Len(items) = capacity

\* push_back: a full vector moves to a buffer of twice the size.
PushBack(item) ==
  /\ items' = Append(items, item)
  /\ capacity' = IF ~Full THEN capacity ELSE IF capacity = 0 THEN 1 ELSE 2 * capacity
  /\ buffer' = IF Full THEN buffer + 1 ELSE buffer
  /\ disturbed' = (disturbed \/ (Full /\ Holding))

NotifyOne == timer_woken' = (Asleep \/ timer_woken)

\* Schedule() without its notification.
NotifyNoOne == UNCHANGED timer_woken

ScheduleWakes == NotifyOne

Schedule(delay) ==
  /\ ItemsMutexFree
  /\ Len(scheduled) < MaxItems
  /\ PushBack([id |-> Len(scheduled) + 1, trigger_time |-> clock + delay, fired |-> FALSE])
  /\ scheduled' = Append(scheduled, clock + delay)
  /\ ScheduleWakes
  /\ UNCHANGED <<tpc, earliest, ready, stop, timer_joiner, timer_missed,
                 clock, fires, cancelled>>

\* erase() shifts the later elements down by one, under the pointers.
CancelItem(id) ==
  /\ ItemsMutexFree
  /\ \E k \in 1 .. Len(items) :
       /\ items[k].id = id /\ ~items[k].fired
       /\ cancelled' = cancelled \cup {id}
       /\ items' = SubSeq(items, 1, k - 1) \o SubSeq(items, k + 1, Len(items))
       /\ disturbed' =
            (disturbed \/ (Holding /\ \E p \in 1 .. Len(ready) : ready[p].at >= k))
  /\ UNCHANGED <<capacity, buffer, tpc, earliest, ready, stop, timer_woken,
                 timer_joiner, timer_missed, clock, scheduled, fires>>

-----------------------------------------------------------------------------
\* TimerLoop

Unfired == {k \in 1 .. Len(items) : ~items[k].fired}
Pending == {k \in Unfired : items[k].trigger_time < clock + Day}
EarliestTime == CHOOSE t \in {items[k].trigger_time : k \in Pending} :
                  \A k \in Pending : t <= items[k].trigger_time

Unchanged == UNCHANGED <<items, capacity, buffer, stop, timer_joiner, timer_missed,
                         clock, scheduled, fires, cancelled, disturbed>>

LoopTest ==
  /\ tpc = "looping"
  /\ tpc' = IF stop THEN "exited" ELSE "scanning"
  /\ UNCHANGED <<earliest, ready, timer_woken>> /\ Unchanged

\* Pointers to elements, in the order of the vector.
PointersTo(places) ==
  [p \in 1 .. Cardinality(places) |->
     [buffer |-> buffer, at |-> Ascending(places)[p], id |-> items[Ascending(places)[p]].id]]

Due == PointersTo({k \in Unfired : items[k].trigger_time <= clock})

\* Collects what is due within the day, as if the deadline were not compared.
DueToday == PointersTo({k \in 1 .. Len(items) : items[k].trigger_time < clock + Day})

Collect == Due

\* The scan under the mutex, up to the predicate of one of the two waits.  With
\* items left but none within a day the predicate of the untimed wait is true:
\* the loop goes round at once, and again.
Scan ==
  /\ tpc = "scanning"
  /\ timer_woken' = FALSE
  /\ IF Pending = {}
     THEN /\ tpc' = IF stop \/ items # <<>> THEN "looping" ELSE "testing"
          /\ UNCHANGED <<earliest, ready>>
     ELSE IF EarliestTime > clock
     THEN /\ tpc' = IF stop THEN "exited" ELSE "timed_testing"
          /\ earliest' = EarliestTime
          /\ UNCHANGED ready
     ELSE /\ ready' = Collect
          /\ tpc' = "emitting"
          /\ UNCHANGED earliest
  /\ Unchanged

TimerSleep ==
  /\ Testing
  /\ tpc' = IF tpc = "testing" THEN "asleep" ELSE "timed_asleep"
  /\ timer_woken' = FALSE
  /\ UNCHANGED <<earliest, ready>> /\ Unchanged

\* A notified or expired wait evaluates its predicate again.
Wake ==
  /\ \/ /\ tpc = "asleep" /\ timer_woken
        /\ tpc' = IF stop \/ items # <<>> THEN "looping" ELSE "testing"
     \/ /\ tpc = "timed_asleep"
        /\ timer_woken \/ clock >= earliest
        /\ tpc' = IF stop THEN "exited"
                  ELSE IF \/ clock >= earliest
                          \/ \E k \in Unfired : items[k].trigger_time < earliest
                  THEN "looping" ELSE "timed_testing"
  /\ timer_woken' = FALSE
  /\ UNCHANGED <<earliest, ready>> /\ Unchanged

\* What a pointer refers to now: its element, another one that was shifted
\* into its place, or nothing (0) when the buffer is gone or the place is
\* beyond the end.  Memory that was freed may still read as it did.
InPlace(p) == p.buffer = buffer /\ p.at <= Len(items)
Reads(p) == IF InPlace(p) THEN {items[p.at].id} ELSE {0, p.id}

\* Whether a frame for this item comes before its trigger time.
TooEarly(id) == id # 0 /\ clock < scheduled[id]

\* Emits the first ready item, with no lock held.
Emit ==
  /\ tpc = "emitting" /\ ready # <<>>
  /\ \E id \in Reads(Head(ready)) : fires' = Append(fires, [id |-> id, early |-> TooEarly(id)])
  /\ tpc' = "marking"
  /\ UNCHANGED <<items, capacity, buffer, earliest, ready, stop, timer_woken,
                 timer_joiner, timer_missed, clock, scheduled, cancelled, disturbed>>

\* item->fired = true, under the mutex but through the old pointer.
MarkFired ==
  LET p == Head(ready)
  IN items' = IF InPlace(p) THEN [items EXCEPT ![p.at].fired = TRUE] ELSE items

\* Marking left to the cleanup, which then finds nothing to remove.
MarkNothing == UNCHANGED items

Marking == MarkFired

Mark ==
  /\ tpc = "marking"
  /\ Marking
  /\ ready' = Tail(ready)
  /\ tpc' = "emitting"
  /\ UNCHANGED <<capacity, buffer, earliest, stop, timer_woken, timer_joiner,
                 timer_missed, clock, scheduled, fires, cancelled, disturbed>>

CleanUp ==
  /\ tpc = "emitting" /\ ready = <<>>
  /\ items' = [p \in 1 .. Cardinality(Unfired) |-> items[Ascending(Unfired)[p]]]
  /\ tpc' = "looping"
  /\ UNCHANGED <<capacity, buffer, earliest, ready, stop, timer_woken,
                 timer_joiner, timer_missed, clock, scheduled, fires, cancelled, disturbed>>

Timer == LoopTest \/ Scan \/ TimerSleep \/ Wake \/ Emit \/ Mark \/ CleanUp

Tick ==
  /\ clock < MaxTime /\ clock' = clock + 1
  /\ UNCHANGED <<items, capacity, buffer, tpc, earliest, ready, stop,
                 timer_woken, timer_joiner, timer_missed, scheduled, fires, cancelled, disturbed>>

-----------------------------------------------------------------------------
\* Stop(): the flag and the notification are both outside the mutex.

TimerStopFlag ==
  /\ timer_joiner = "none"
  /\ stop' = TRUE /\ timer_joiner' = "flagged"
  /\ UNCHANGED <<items, capacity, buffer, tpc, earliest, ready, timer_woken,
                 timer_missed, clock, scheduled, fires, cancelled, disturbed>>

TimerStopNotify ==
  /\ timer_joiner = "flagged"
  /\ timer_woken' = (Asleep \/ timer_woken)
  /\ timer_missed' = Testing
  /\ timer_joiner' = "joining"
  /\ UNCHANGED <<items, capacity, buffer, tpc, earliest, ready, stop, clock,
                 scheduled, fires, cancelled, disturbed>>

TimerStopJoin ==
  /\ timer_joiner = "joining" /\ tpc = "exited"
  /\ timer_joiner' = "joined"
  /\ UNCHANGED <<items, capacity, buffer, tpc, earliest, ready, stop,
                 timer_woken, timer_missed, clock, scheduled, fires, cancelled, disturbed>>

-----------------------------------------------------------------------------
\* An item fires at most once, never before its time and not when Cancel() has
\* returned true for it, although the timer
\* thread emits it outside the lock and marks it afterwards, as long as no
\* element it points to is moved meanwhile.
FiresOnceWhenDue ==
  ~disturbed =>
    \A i \in 1 .. Len(fires) :
      /\ fires[i].id \notin cancelled \cup {0}
      /\ ~fires[i].early
      /\ \A j \in 1 .. Len(fires) : fires[i].id = fires[j].id => i = j
=============================================================================
