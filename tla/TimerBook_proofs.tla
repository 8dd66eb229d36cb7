-------------------------- MODULE TimerBook_proofs --------------------------
(***************************************************************************)
(* The timer book implements ArmedTimers, for all ids, delays and bounds.  *)
(* The inductive invariant: no entry is from a generation to come, an id   *)
(* and a generation identify an entry, and a harvest has collected nothing *)
(* later than what the heap still holds, in order.                         *)
(***************************************************************************)
EXTENDS TimerBook, TLAPS

OneEntry ==
  \A e, f \in heap : e.id = f.id /\ e.generation = f.generation => e = f

CollectedFirst ==
  op = "PopExpired" =>
    \A i \in DOMAIN result, e \in heap : result[i].at <= e.at

IInv == TypeOK /\ OneEntry /\ CollectedFirst /\ DeadlineOrder

USE TimerBookAssumption

LEMMA InitInv == Init => IInv
BY DEF Init, IInv, TypeOK, OneEntry, CollectedFirst, DeadlineOrder

(* Scheduling keeps the invariant: the new entry is of a new generation.   *)
LEMMA ScheduleInv ==
  ASSUME IInv, NEW id \in Ids, NEW d \in Delays, Schedule(id, d)
  PROVE  IInv'
<1> DEFINE n == [id |-> id, generation |-> generations[id] + 1, at |-> now + d]
<1>1. n \in TimerEntry
  BY DEF IInv, TypeOK, TimerEntry
<1>2. TypeOK'
  BY <1>1 DEF IInv, TypeOK, Schedule, TimerEntry
<1>3. \A e \in heap : e.id = id => e.generation # n.generation
  BY DEF IInv, TypeOK, TimerEntry
<1>4. OneEntry'
  BY <1>3 DEF IInv, OneEntry, Schedule
<1>5. CollectedFirst' /\ DeadlineOrder'
  BY DEF IInv, Schedule, CollectedFirst, DeadlineOrder
<1> QED BY <1>2, <1>4, <1>5 DEF IInv

(* Collecting the top keeps the collection in order.                       *)
LEMMA PopDueInv ==
  ASSUME IInv, NEW e \in heap, PopDue(e)
  PROVE  IInv'
<1> DEFINE t == [id |-> e.id, at |-> e.at]
<1>1. e \in TimerEntry /\ t \in [id : Ids, at : Nat] /\ t.at = e.at
  BY DEF IInv, TypeOK, TimerEntry
<1>2. result \in Seq([id : Ids, at : Nat]) /\ result' = Append(result, t)
  BY DEF IInv, TypeOK, PopDue
<1>3. result' \in Seq([id : Ids, at : Nat])
  BY <1>1, <1>2
<1>4. TypeOK' /\ OneEntry'
  BY <1>3 DEF IInv, TypeOK, OneEntry, PopDue
<1>5. /\ DOMAIN result = 1..Len(result) /\ Len(result) \in Nat
      /\ DOMAIN result' = 1..(Len(result) + 1)
      /\ \A i \in DOMAIN result : result'[i] = result[i]
      /\ result'[Len(result) + 1] = t
  BY <1>1, <1>2
<1>6. \A i \in DOMAIN result : result[i].at <= t.at
  BY <1>1 DEF IInv, CollectedFirst, PopDue
<1>7. \A f \in heap' : f \in heap /\ t.at <= f.at
  BY <1>1 DEF PopDue, Top
<1>8. CollectedFirst'
  <2> SUFFICES ASSUME NEW i \in DOMAIN result', NEW f \in heap'
               PROVE  result'[i].at <= f.at
    BY DEF CollectedFirst
  <2>1. CASE i = Len(result) + 1
    BY <2>1, <1>5, <1>7
  <2>2. CASE i # Len(result) + 1
    BY <2>2, <1>5, <1>7 DEF IInv, CollectedFirst, PopDue
  <2> QED BY <2>1, <2>2
<1>9. DeadlineOrder'
  <2> SUFFICES ASSUME NEW i \in DOMAIN result', NEW j \in DOMAIN result', i < j
               PROVE  result'[i].at <= result'[j].at
    BY DEF DeadlineOrder
  <2>1. i \in DOMAIN result
    BY <1>5
  <2>2. CASE j = Len(result) + 1
    BY <2>1, <2>2, <1>5, <1>6
  <2>3. CASE j # Len(result) + 1
    BY <2>1, <2>3, <1>5 DEF IInv, DeadlineOrder
  <2> QED BY <2>2, <2>3
<1> QED BY <1>4, <1>8, <1>9 DEF IInv

LEMMA StepInv == IInv /\ [Next]_vars => IInv'
<1> SUFFICES ASSUME IInv, [Next]_vars PROVE IInv'
  OBVIOUS
<1>1. CASE \E id \in Ids, d \in Delays : Schedule(id, d)
  BY <1>1, ScheduleInv
<1>2. ASSUME NEW id \in Ids, Cancel(id) PROVE IInv'
  <2>1. TypeOK'
    BY <1>2 DEF IInv, TypeOK, Cancel, TimerEntry
  <2> QED BY <2>1, <1>2 DEF IInv, OneEntry, CollectedFirst, DeadlineOrder, Cancel
<1>3. ASSUME NEW e \in heap, DiscardStale(e) PROVE IInv'
  BY <1>3 DEF IInv, TypeOK, OneEntry, CollectedFirst, DeadlineOrder, DiscardStale
<1>4. ASSUME NEW e \in heap, PopDue(e) PROVE IInv'
  BY <1>4, PopDueInv
<1>5. CASE PopExpired
  BY <1>5 DEF IInv, TypeOK, OneEntry, CollectedFirst, DeadlineOrder, PopExpired
<1>6. CASE PopExpiredReturns
  BY <1>6 DEF IInv, TypeOK, OneEntry, CollectedFirst, DeadlineOrder,
              PopExpiredReturns
<1>7. CASE NextDeadline
  BY <1>7 DEF IInv, TypeOK, OneEntry, CollectedFirst, DeadlineOrder, NextDeadline
<1>8. CASE NextDeadlineReturns
  <2>1. \A e \in heap : e.at \in Nat
    BY DEF IInv, TypeOK, TimerEntry
  <2>2. next' \subseteq Nat
    BY <1>8, <2>1 DEF NextDeadlineReturns
  <2> QED BY <1>8, <2>2 DEF IInv, TypeOK, OneEntry, CollectedFirst, DeadlineOrder,
                            NextDeadlineReturns
<1>9. CASE Advance
  BY <1>9 DEF IInv, TypeOK, OneEntry, CollectedFirst, DeadlineOrder, Advance
<1>10. CASE UNCHANGED vars
  BY <1>10 DEF vars, IInv, TypeOK, OneEntry, CollectedFirst, DeadlineOrder, Stale
<1> QED
  BY <1>1, <1>2, <1>3, <1>4, <1>5, <1>6, <1>7, <1>8, <1>9, <1>10 DEF Next

LEMMA Invariance == Spec => []IInv
BY InitInv, StepInv, PTL DEF Spec

(* The timer book's variables keep their types, and no entry is from a     *)
(* generation to come.                                                     *)
THEOREM TypeCorrect == Spec => []TypeOK
<1>1. IInv => TypeOK
  BY DEF IInv
<1> QED BY <1>1, Invariance, PTL

(* PopExpired returns the timers in deadline order, however many stale     *)
(* entries it skips on the way.                                            *)
THEOREM InDeadlineOrder == Spec => []DeadlineOrder
<1>1. IInv => DeadlineOrder
  BY DEF IInv
<1> QED BY <1>1, Invariance, PTL

-----------------------------------------------------------------------------
(* The step simulation.                                                    *)

LEMMA ArmedEntry ==
  ASSUME NEW t
  PROVE  t \in Armed <=> \E e \in heap : ~Stale(e) /\ t = [id |-> e.id, at |-> e.at]
BY DEF Armed

LEMMA ArmedEntryPrimed ==
  ASSUME NEW t
  PROVE  t \in Armed' <=>
           \E e \in heap' : ~Stale(e)' /\ t = [id |-> e.id, at |-> e.at]
BY DEF Armed

(* Scheduling replaces the armed timer of the id.                          *)
LEMMA SimulateSchedule ==
  ASSUME IInv, NEW id \in Ids, NEW d \in Delays, Schedule(id, d)
  PROVE  Abstract!Schedule(id, d)
<1>0. PICK n : n = [id |-> id, generation |-> generations[id] + 1, at |-> now + d]
  OBVIOUS
<1> DEFINE t == [id |-> id, at |-> now + d]
<1>1. /\ heap' = heap \cup {n} /\ n.id = id /\ n.at = now + d
      /\ generations' = [generations EXCEPT ![id] = @ + 1]
      /\ generations \in [Ids -> Nat]
  BY <1>0 DEF Schedule, IInv, TypeOK
<1>2. ~Stale(n)'
  BY <1>0, <1>1 DEF Stale
<1>3. \A e \in heap : Stale(e)' <=> (Stale(e) \/ e.id = id)
  BY <1>1 DEF IInv, TypeOK, TimerEntry, Stale
<1>4. \A u \in Armed' : u \in {v \in Armed : v.id # id} \cup {t}
  <2> SUFFICES ASSUME NEW u \in Armed' 
               PROVE u \in {v \in Armed : v.id # id} \cup {t}
    OBVIOUS
  <2>1. PICK e \in heap' : ~Stale(e)' /\ u = [id |-> e.id, at |-> e.at]
    BY ArmedEntryPrimed
  <2>2. CASE e = n
    BY <2>1, <2>2, <1>1
  <2>3. CASE e \in heap
    BY <2>1, <2>3, <1>3, ArmedEntry
  <2> QED BY <2>2, <2>3, <1>1
<1>5. \A u \in {v \in Armed : v.id # id} \cup {t} : u \in Armed'
  <2> SUFFICES ASSUME NEW u \in {v \in Armed : v.id # id} \cup {t}
               PROVE  u \in Armed'
    OBVIOUS
  <2>1. CASE u = t
    BY <2>1, <1>1, <1>2, ArmedEntryPrimed
  <2>2. CASE u \in Armed /\ u.id # id
    <3>1. PICK e \in heap : ~Stale(e) /\ u = [id |-> e.id, at |-> e.at]
      BY <2>2, ArmedEntry
    <3>2. ~Stale(e)' /\ e \in heap'
      BY <3>1, <2>2, <1>1, <1>3
    <3> QED BY <3>1, <3>2, ArmedEntryPrimed
  <2> QED BY <2>1, <2>2
<1>6. Armed' = {v \in Armed : v.id # id} \cup {t}
  BY <1>4, <1>5
<1> QED BY <1>6 DEF Schedule, Abstract!Schedule, Abstract!Without

(* Cancelling disarms the timer of the id.                                 *)
LEMMA SimulateCancel ==
  ASSUME IInv, NEW id \in Ids, Cancel(id)
  PROVE  Abstract!Cancel(id)
<1>1. \A e \in heap : Stale(e)' <=> (Stale(e) \/ e.id = id)
  BY DEF Cancel, IInv, TypeOK, TimerEntry, Stale
<1>2. heap' = heap
  BY DEF Cancel
<1>3. \A u : u \in Armed' <=> u \in Armed /\ u.id # id
  BY <1>1, <1>2, ArmedEntry, ArmedEntryPrimed
<1>4. Armed' = {v \in Armed : v.id # id}
  BY <1>3
<1> QED BY <1>4 DEF Cancel, Abstract!Cancel, Abstract!Without

(* Collecting the top fires the one armed timer it stands for.             *)
LEMMA SimulatePopDue ==
  ASSUME IInv, NEW e \in heap, PopDue(e)
  PROVE  \E t \in Armed : Abstract!Fire(t)
<1> DEFINE t == [id |-> e.id, at |-> e.at]
<1>1. heap' = heap \ {e} /\ ~Stale(e) /\ \A f \in heap : Stale(f)' <=> Stale(f)
  BY DEF PopDue, Stale
<1>2. t \in Armed /\ \A u \in Armed : t.at <= u.at
  BY <1>1, ArmedEntry DEF PopDue, Top
<1>3. \A f \in heap : ~Stale(f) /\ t = [id |-> f.id, at |-> f.at] => f = e
  BY <1>1 DEF Stale, IInv, OneEntry
<1>4. \A u : u \in Armed' <=> u \in Armed /\ u # t
  BY <1>1, <1>3, ArmedEntry, ArmedEntryPrimed
<1>5. Armed' = Armed \ {t}
  BY <1>4
<1>6. Abstract!Fire(t)
  BY <1>2, <1>5 DEF PopDue, Abstract!Fire
<1> QED BY <1>2, <1>6

LEMMA SameArmed ==
  ASSUME heap' = heap, generations' = generations
  PROVE  Armed' = Armed
BY DEF Armed, Stale

LEMMA StepSimulation == IInv /\ [Next]_vars => [Abstract!Next]_(Abstract!vars)
<1> SUFFICES ASSUME IInv, [Next]_vars PROVE [Abstract!Next]_(Abstract!vars)
  OBVIOUS
<1>1. CASE \E id \in Ids, d \in Delays : Schedule(id, d)
  BY <1>1, SimulateSchedule DEF Abstract!Next
<1>2. CASE \E id \in Ids : Cancel(id)
  BY <1>2, SimulateCancel DEF Abstract!Next
<1>3. ASSUME NEW e \in heap, DiscardStale(e) PROVE UNCHANGED Abstract!vars
  <2>1. \A u : u \in Armed' <=> u \in Armed
    BY <1>3, ArmedEntry, ArmedEntryPrimed DEF DiscardStale, Stale
  <2>2. Armed' = Armed
    BY <2>1
  <2> QED BY <2>2, <1>3 DEF DiscardStale, Abstract!vars
<1>4. ASSUME NEW e \in heap, PopDue(e) PROVE Abstract!Next
  BY <1>4, SimulatePopDue DEF Abstract!Next
<1>5. CASE PopExpired
  BY <1>5, SameArmed DEF PopExpired, Abstract!Next, Abstract!Harvest
<1>6. CASE PopExpiredReturns
  <2>1. \A t \in Armed : t.at > cutoff
    BY <1>6, ArmedEntry DEF PopExpiredReturns, Top, IInv, TypeOK, TimerEntry
  <2> QED BY <2>1, <1>6, SameArmed
          DEF PopExpiredReturns, Abstract!Next, Abstract!Harvested
<1>7. CASE NextDeadline
  BY <1>7, SameArmed DEF NextDeadline, Abstract!Next, Abstract!Query
<1>8. CASE NextDeadlineReturns
  <2>1. CASE heap = {} /\ next' = {}
    <3>1. Armed = {}
      BY <2>1, ArmedEntry
    <3> QED BY <2>1, <3>1, <1>8, SameArmed
            DEF NextDeadlineReturns, Abstract!Next, Abstract!Answered
  <2>2. ASSUME NEW e \in heap, Top(e), ~Stale(e), next' = {e.at}
        PROVE  Abstract!Next
    <3> DEFINE t == [id |-> e.id, at |-> e.at]
    <3>1. t \in Armed /\ \A u \in Armed : t.at <= u.at
      BY <2>2, ArmedEntry DEF Top
    <3>2. \E v \in Armed : (\A u \in Armed : v.at <= u.at) /\ next' = {v.at}
      BY <3>1, <2>2
    <3> QED BY <3>2, <1>8, SameArmed
            DEF NextDeadlineReturns, Abstract!Next, Abstract!Answered
  <2> QED BY <1>8, <2>1, <2>2 DEF NextDeadlineReturns
<1>9. CASE Advance
  BY <1>9, SameArmed DEF Advance, Abstract!Next, Abstract!Advance
<1>10. CASE UNCHANGED vars
  BY <1>10, SameArmed DEF vars, Abstract!vars
<1> QED
  BY <1>1, <1>2, <1>3, <1>4, <1>5, <1>6, <1>7, <1>8, <1>9, <1>10 DEF Next

(* The heap with its generations implements the set of armed timers.       *)
THEOREM Implementation == Spec => ImplementsArmedTimers
<1>1. Init => Abstract!Init
  BY DEF Init, Abstract!Init, Armed
<1> QED
  BY <1>1, Invariance, StepSimulation, PTL
  DEF Spec, ImplementsArmedTimers, Abstract!Spec

=============================================================================
