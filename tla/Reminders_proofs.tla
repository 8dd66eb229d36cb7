---------------------------- MODULE Reminders_proofs ----------------------------
(***************************************************************************)
(* Theorems about the tool calls and the timer of Reminders, for any        *)
(* requests, any registry and any number of calls and reminders.            *)
(***************************************************************************)
EXTENDS Reminders, Enumerations_proofs, SequenceTheorems

(* The calls accepted are numbered as they come; the first are answered, the *)
(* next is in the worker's hands if it has one, and the others are queued.   *)
Call == [call : Nat, tool : STRING \cup {Unnamed}, good : BOOLEAN, minutes : Nat]
Busy == wpc \in {"dispatching", "emitting"}
InHand == IF Busy THEN 1 ELSE 0
IdOf(t, i) == IF t.tool = Malformed THEN 0 ELSE i

CallsInv ==
  /\ accepted \in Seq(Call) /\ task_queue \in Seq(Call) /\ task \in Call
  /\ results \in Seq([tool_call_id : Nat, success : BOOLEAN]) /\ outcome \in BOOLEAN
  /\ Len(accepted) = Len(results) + InHand + Len(task_queue)
  /\ \A i \in 1 .. Len(accepted) : accepted[i].call = i
  /\ Busy => task = accepted[Len(results) + 1]
  /\ \A k \in 1 .. Len(task_queue) : task_queue[k] = accepted[Len(results) + InHand + k]
  /\ \A i \in 1 .. Len(results) : results[i].tool_call_id = IdOf(accepted[i], i)

LEMMA CallsInit == Init => CallsInv
<1> SUFFICES ASSUME Init PROVE CallsInv
  OBVIOUS
<1>1. /\ accepted = <<>> /\ task_queue = <<>> /\ results = <<>> /\ task = NoTask
      /\ wpc = "locking" /\ outcome = FALSE
  BY DEF Init, ToolInit
<1>2. NoTask \in Call
  BY DEF NoTask, Call, Unnamed
<1>3. ~Busy
  BY <1>1 DEF Busy
<1>4. outcome \in BOOLEAN
  BY <1>1
<1> QED BY <1>1, <1>2, <1>3, <1>4 DEF CallsInv, InHand

(* What the invariant speaks of.                                            *)
callVars == <<accepted, task_queue, task, results, outcome, wpc>>

LEMMA CallsKept == CallsInv /\ UNCHANGED callVars => CallsInv'
BY DEF callVars, CallsInv, Busy, InHand

LEMMA OnInputKeeps ==
  ASSUME CallsInv, NEW request \in Requests, OnInput(request)
  PROVE  CallsInv'
<1> DEFINE t == [request EXCEPT !.call = Len(accepted) + 1]
           n == Len(accepted)
<1>1. /\ accepted' = Append(accepted, t) /\ task_queue' = Append(task_queue, t)
      /\ task' = task /\ results' = results /\ outcome' = outcome /\ wpc' = wpc
  BY DEF OnInput
<1>2. n \in Nat /\ Len(task_queue) \in Nat /\ Len(results) \in Nat
  BY LenProperties DEF CallsInv
<1>3. t \in Call /\ t.call = n + 1
  <2>1. request \in [call : {0}, tool : STRING, good : BOOLEAN, minutes : Nat]
    BY ToolAssumption DEF ToolAssumption
  <2> QED BY <1>2, <2>1 DEF Call
<1> HIDE DEF t
<1>4. /\ accepted' \in Seq(Call) /\ Len(accepted') = n + 1
      /\ \A i \in 1 .. n : accepted'[i] = accepted[i]
      /\ accepted'[n + 1] = t
      /\ task_queue' \in Seq(Call) /\ Len(task_queue') = Len(task_queue) + 1
      /\ \A k \in 1 .. Len(task_queue) : task_queue'[k] = task_queue[k]
      /\ task_queue'[Len(task_queue) + 1] = t
  BY <1>1, <1>3, AppendProperties DEF CallsInv
<1>5. InHand' = InHand /\ Busy' = Busy /\ InHand \in {0, 1} /\ (Busy => InHand = 1)
  BY <1>1 DEF InHand, Busy
<1>6. n = Len(results) + InHand + Len(task_queue)
  BY DEF CallsInv
<1>7. \A i \in 1 .. Len(accepted') : accepted'[i].call = i
  <2> SUFFICES ASSUME NEW i \in 1 .. n + 1 PROVE accepted'[i].call = i
    BY <1>4
  <2>1. CASE i = n + 1
    BY <1>3, <1>4, <2>1
  <2>2. CASE i \in 1 .. n
    BY <1>4, <2>2 DEF CallsInv
  <2> QED BY <1>2, <2>1, <2>2
<1>8. Busy' => task' = accepted'[Len(results') + 1]
  BY <1>1, <1>2, <1>4, <1>5, <1>6 DEF CallsInv
<1>9. \A k \in 1 .. Len(task_queue') : task_queue'[k] = accepted'[Len(results') + InHand' + k]
  <2> SUFFICES ASSUME NEW k \in 1 .. Len(task_queue')
               PROVE  task_queue'[k] = accepted'[Len(results') + InHand' + k]
    OBVIOUS
  <2>1. CASE k = Len(task_queue) + 1
    BY <1>1, <1>2, <1>4, <1>5, <1>6, <2>1
  <2>2. CASE k \in 1 .. Len(task_queue)
    <3>1. Len(results) + InHand + k \in 1 .. n
      BY <1>2, <1>5, <1>6, <2>2
    <3> QED BY <1>1, <1>4, <1>5, <2>2, <3>1 DEF CallsInv
  <2> QED BY <1>2, <1>4, <2>1, <2>2
<1>10. \A i \in 1 .. Len(results') : results'[i].tool_call_id = IdOf(accepted'[i], i)
  <2> SUFFICES ASSUME NEW i \in 1 .. Len(results)
               PROVE  results[i].tool_call_id = IdOf(accepted'[i], i)
    BY <1>1
  <2>1. i \in 1 .. n
    BY <1>2, <1>5, <1>6
  <2> QED BY <1>4, <2>1 DEF CallsInv
<1>11. Len(accepted') = Len(results') + InHand' + Len(task_queue')
  BY <1>1, <1>2, <1>4, <1>5, <1>6
<1>12. outcome' \in BOOLEAN
  BY <1>1 DEF CallsInv
<1> QED BY <1>1, <1>4, <1>7, <1>8, <1>9, <1>10, <1>11, <1>12 DEF CallsInv

LEMMA TakeKeeps ==
  ASSUME CallsInv, Take
  PROVE  CallsInv'
<1>1. /\ accepted' = accepted /\ results' = results /\ outcome' = outcome
      /\ wpc \in {"locking", "asleep"}
      /\ IF task_queue # <<>>
         THEN wpc' = "dispatching" /\ task' = Head(task_queue) /\ task_queue' = Tail(task_queue)
         ELSE /\ wpc' \in {"exited", "testing"}
              /\ task' = task /\ task_queue' = task_queue
  BY DEF Take, TakeDrained, WorkerQuiet
<1>2. InHand = 0 /\ ~Busy /\ Len(results) \in Nat /\ outcome' \in BOOLEAN
  BY <1>1, LenProperties DEF InHand, Busy, CallsInv
<1>3. CASE task_queue = <<>>
  <2>1. InHand' = 0 /\ ~Busy' /\ task' = task /\ task_queue' = task_queue
    BY <1>1, <1>3 DEF InHand, Busy
  <2> QED BY <1>1, <1>2, <2>1 DEF CallsInv
<1>4. CASE task_queue # <<>>
  <2>1. InHand' = 1 /\ Busy' /\ task' = Head(task_queue) /\ task_queue' = Tail(task_queue)
    BY <1>1, <1>4 DEF InHand, Busy
  <2> DEFINE q == task_queue
  <2>2. /\ q \in Seq(Call) /\ Len(q) \in Nat /\ Len(q) > 0
        /\ \A k \in 1 .. Len(q) : q[k] = accepted[Len(results) + k]
        /\ Len(accepted) = Len(results) + Len(q)
    BY <1>2, <1>4, EmptySeq, LenProperties DEF CallsInv
  <2>3. /\ task' = q[1] /\ task' \in Call
        /\ task_queue' \in Seq(Call) /\ Len(task_queue') = Len(q) - 1
        /\ \A k \in 1 .. Len(task_queue') : task_queue'[k] = q[k + 1]
    BY <1>4, <2>1, <2>2, HeadTailProperties
  <2>4. task' = accepted[Len(results) + 1]
    BY <2>2, <2>3
  <2>5. \A k \in 1 .. Len(task_queue') : task_queue'[k] = accepted[Len(results) + 1 + k]
    <3> SUFFICES ASSUME NEW k \in 1 .. Len(task_queue')
                 PROVE  task_queue'[k] = accepted[Len(results) + 1 + k]
      OBVIOUS
    <3>1. k + 1 \in 1 .. Len(q)
      BY <2>2, <2>3
    <3>2. Len(results) + (k + 1) = Len(results) + 1 + k
      BY <1>2, <2>2, <2>3
    <3> QED BY <2>2, <2>3, <3>1, <3>2
  <2>6. Len(accepted') = Len(results') + InHand' + Len(task_queue')
    BY <1>1, <1>2, <2>1, <2>2, <2>3
  <2> QED BY <1>1, <1>2, <2>1, <2>3, <2>4, <2>5, <2>6 DEF CallsInv
<1> QED BY <1>3, <1>4

LEMMA InvokeKeeps ==
  ASSUME CallsInv, Invoke
  PROVE  CallsInv'
<1>1. /\ accepted' = accepted /\ results' = results /\ task' = task /\ task_queue' = task_queue
      /\ wpc = "dispatching" /\ wpc' = "emitting"
      /\ outcome' \in IF Runs(task) THEN Returns(task) ELSE {FALSE}
  BY DEF Invoke
<1>2. InHand' = InHand /\ Busy /\ Busy'
  BY <1>1 DEF InHand, Busy
<1>3. outcome' \in BOOLEAN
  <2>1. task.good \in BOOLEAN
    BY DEF CallsInv, Call
  <2>2. Returns(task) \subseteq BOOLEAN
    BY <2>1 DEF Returns
  <2> QED BY <1>1, <2>2
<1> QED BY <1>1, <1>2, <1>3 DEF CallsInv

LEMMA EmitKeeps ==
  ASSUME CallsInv, EmitResult
  PROVE  CallsInv'
<1> DEFINE n == Len(results)
           r == ResultOf(task, outcome)
<1>1. /\ accepted' = accepted /\ task_queue' = task_queue /\ task' = NoTask /\ outcome' = FALSE
      /\ wpc = "emitting" /\ wpc' = "locking" /\ results' = Append(results, r)
  BY DEF EmitResult
<1>2. InHand = 1 /\ Busy /\ InHand' = 0 /\ ~Busy'
  BY <1>1 DEF InHand, Busy
<1>3. /\ n \in Nat /\ Len(task_queue) \in Nat /\ Len(accepted) = n + 1 + Len(task_queue)
      /\ task = accepted[n + 1] /\ n + 1 \in 1 .. Len(accepted)
  BY <1>2, LenProperties DEF CallsInv
<1>4. task.call = n + 1
  BY <1>3 DEF CallsInv
<1>5. r \in [tool_call_id : Nat, success : BOOLEAN] /\ r.tool_call_id = IdOf(accepted[n + 1], n + 1)
  BY <1>3, <1>4 DEF ResultOf, IdOf, CallsInv
<1> HIDE DEF r
<1>6. /\ results' \in Seq([tool_call_id : Nat, success : BOOLEAN]) /\ Len(results') = n + 1
      /\ \A i \in 1 .. n : results'[i] = results[i]
      /\ results'[n + 1] = r
  BY <1>1, <1>5, AppendProperties DEF CallsInv
<1>7. \A i \in 1 .. Len(results') : results'[i].tool_call_id = IdOf(accepted'[i], i)
  BY <1>1, <1>3, <1>5, <1>6 DEF CallsInv
<1>8. \A k \in 1 .. Len(task_queue') : task_queue'[k] = accepted'[Len(results') + InHand' + k]
  <2> SUFFICES ASSUME NEW k \in 1 .. Len(task_queue)
               PROVE  task_queue[k] = accepted[Len(results') + InHand' + k]
    BY <1>1
  <2>1. task_queue[k] = accepted[n + InHand + k]
    BY DEF CallsInv
  <2>2. n + InHand + k = Len(results') + InHand' + k
    BY <1>2, <1>3, <1>6
  <2> QED BY <2>1, <2>2
<1>9. NoTask \in Call
  BY DEF NoTask, Call, Unnamed
<1>11. outcome' \in BOOLEAN
  BY <1>1
<1>10. Len(accepted') = Len(results') + InHand' + Len(task_queue')
  BY <1>1, <1>2, <1>3, <1>6
<1> QED BY <1>1, <1>2, <1>6, <1>7, <1>8, <1>9, <1>10, <1>11 DEF CallsInv

LEMMA CallsStep == CallsInv /\ [Next]_vars => CallsInv'
<1> SUFFICES ASSUME CallsInv, [Next]_vars PROVE CallsInv'
  OBVIOUS
<1>1. CASE \E request \in Requests : ToolCall(request)
  BY <1>1, OnInputKeeps DEF ToolCall
<1>2. CASE RunTool
  BY <1>2, InvokeKeeps DEF RunTool
<1>3. CASE Take
  BY <1>3, TakeKeeps
<1>4. CASE EmitResult
  BY <1>4, EmitKeeps
<1>5. CASE WorkerSleep
  <2>1. /\ wpc = "testing" /\ wpc' = "asleep"
        /\ UNCHANGED <<accepted, task_queue, task, results, outcome>>
    BY <1>5 DEF WorkerSleep, WorkerQuiet
  <2>2. ~Busy /\ ~Busy' /\ InHand' = InHand
    BY <2>1 DEF Busy, InHand
  <2> QED BY <2>1, <2>2 DEF CallsInv
<1>6. CASE WorkerStopFlag \/ WorkerStopNotify \/ WorkerStopJoin
  BY <1>6, CallsKept DEF callVars, WorkerStopFlag, WorkerStopNotify, WorkerStopJoin
<1>7. CASE UNCHANGED toolVars
  BY <1>7, CallsKept DEF toolVars, callVars
<1> QED
  BY <1>1, <1>2, <1>3, <1>4, <1>5, <1>6, <1>7
     DEF Next, WorkerThread, TimerThread, CancelReminder, Time, ShutdownBegins, Shutdown,
         StopScheduler, StopToolDispatch, vars

(* A sequence that is cut in three is its parts, put together again.        *)
Parts(s, n, b, c) ==
  /\ Len(s) = n + Len(b) + Len(c)
  /\ \A i \in 1 .. Len(b) : b[i] = s[n + i]
  /\ \A i \in 1 .. Len(c) : c[i] = s[n + Len(b) + i]

LEMMA ThreeParts ==
  ASSUME NEW S, NEW s \in Seq(S), NEW n \in Nat, NEW b \in Seq(S), NEW c \in Seq(S),
         Parts(s, n, b, c)
  PROVE  s = SubSeq(s, 1, n) \o b \o c
<1> DEFINE a == SubSeq(s, 1, n)
<1>1. Len(s) \in Nat /\ Len(b) \in Nat /\ Len(c) \in Nat /\ n <= Len(s)
  BY LenProperties DEF Parts
<1>2. \A i \in 1 .. n : s[i] \in S
  BY <1>1, ElementOfSeq
<1>3. a \in Seq(S) /\ Len(a) = n /\ \A i \in 1 .. n : a[i] = s[i]
  BY <1>1, <1>2, SubSeqProperties
<1> HIDE DEF a
<1> DEFINE ab == a \o b
<1>4. /\ ab \in Seq(S) /\ Len(ab) = n + Len(b)
      /\ \A i \in 1 .. n + Len(b) : ab[i] = s[i]
  <2>1. /\ ab \in Seq(S) /\ Len(ab) = Len(a) + Len(b)
        /\ \A i \in 1 .. Len(a) : ab[i] = a[i]
        /\ \A i \in 1 .. Len(b) : ab[Len(a) + i] = b[i]
    <3>1. a \in Seq(S)
      BY <1>3
    <3> QED BY <3>1
  <2> HIDE DEF ab
  <2>2. ASSUME NEW i \in 1 .. n + Len(b) PROVE ab[i] = s[i]
    <3>1. CASE i <= n
      BY <1>1, <1>3, <2>1, <3>1
    <3>2. CASE i > n
      <4>1. i - n \in 1 .. Len(b) /\ n + (i - n) = i
        BY <1>1, <3>2
      <4>2. ab[n + (i - n)] = b[i - n]
        BY <1>3, <2>1, <4>1
      <4>3. b[i - n] = s[n + (i - n)]
        BY <4>1 DEF Parts
      <4> QED BY <4>1, <4>2, <4>3
    <3> QED BY <1>1, <3>1, <3>2
  <2> QED BY <1>3, <2>1, <2>2
<1> HIDE DEF ab
<1>5. /\ ab \o c \in Seq(S) /\ Len(ab \o c) = Len(s)
      /\ \A i \in 1 .. Len(s) : (ab \o c)[i] = s[i]
  <2> DEFINE all == ab \o c
             m == n + Len(b)
  <2>1. /\ all \in Seq(S) /\ Len(all) = Len(ab) + Len(c)
        /\ \A i \in 1 .. Len(ab) : all[i] = ab[i]
        /\ \A i \in 1 .. Len(c) : all[Len(ab) + i] = c[i]
    <3>1. ab \in Seq(S)
      BY <1>4
    <3> QED BY <3>1
  <2>2. m \in Nat /\ Len(ab) = m /\ Len(s) = m + Len(c)
    BY <1>1, <1>4 DEF Parts
  <2>3. /\ \A i \in 1 .. m : ab[i] = s[i]
        /\ \A i \in 1 .. Len(c) : c[i] = s[m + i]
    BY <1>4 DEF Parts
  <2> HIDE DEF all, m
  <2>4. ASSUME NEW i \in 1 .. Len(s) PROVE all[i] = s[i]
    <3>1. CASE i <= m
      BY <1>1, <2>1, <2>2, <2>3, <3>1
    <3>2. CASE i > m
      <4>1. i - m \in 1 .. Len(c) /\ m + (i - m) = i
        BY <1>1, <2>2, <3>2
      <4>2. all[m + (i - m)] = c[i - m]
        BY <2>1, <2>2, <4>1
      <4>3. c[i - m] = s[m + (i - m)]
        BY <2>3, <4>1
      <4> QED BY <4>1, <4>2, <4>3
    <3> QED BY <1>1, <2>2, <3>1, <3>2
  <2> QED BY <2>1, <2>2, <2>4 DEF all
<1>6. s = ab \o c
  BY <1>5, SeqEqual
<1> QED BY <1>6 DEF ab, a

(* Every tool call that is queued is answered once, in its turn and under   *)
(* its own id.                                                              *)
THEOREM CallsAnsweredOnce == Spec => []EachCallAnsweredOnce
<1>1. CallsInv => EachCallAnsweredOnce
  <2> SUFFICES ASSUME CallsInv PROVE EachCallAnsweredOnce
    OBVIOUS
  <2> DEFINE n == Len(results)
             hand == IF wpc \in {"dispatching", "emitting"} THEN <<task>> ELSE <<>>
             answered == SubSeq(accepted, 1, n)
  <2>1. /\ n \in Nat /\ Len(task_queue) \in Nat /\ Len(accepted) \in Nat
        /\ accepted \in Seq(Call) /\ task_queue \in Seq(Call) /\ task \in Call
    BY LenProperties DEF CallsInv
  <2>2. /\ hand \in Seq(Call) /\ Len(hand) = InHand /\ InHand \in {0, 1}
        /\ InHand = 1 => Busy /\ hand[1] = task
    BY <2>1 DEF InHand, Busy
  <2> HIDE DEF hand
  <2>3. accepted = answered \o hand \o task_queue
    <3>1. \A i \in 1 .. Len(hand) : hand[i] = accepted[n + i]
      BY <2>1, <2>2 DEF CallsInv
    <3>2. Len(accepted) = n + Len(hand) + Len(task_queue)
      BY <2>2 DEF CallsInv
    <3>3. \A i \in 1 .. Len(task_queue) : task_queue[i] = accepted[n + Len(hand) + i]
      BY <2>2 DEF CallsInv
    <3>4. accepted = SubSeq(accepted, 1, n) \o hand \o task_queue
      <4>1. accepted \in Seq(Call) /\ n \in Nat /\ hand \in Seq(Call) /\ task_queue \in Seq(Call)
        BY <2>1, <2>2
      <4>2. Parts(accepted, n, hand, task_queue)
        BY <3>1, <3>2, <3>3 DEF Parts
      <4> HIDE DEF n
      <4> QED BY <4>1, <4>2, ThreeParts
    <3> QED BY <3>4
  <2>4. \A i \in 1 .. n : answered[i] = accepted[i]
    <3>1. n <= Len(accepted)
      BY <2>1, <2>2 DEF CallsInv
    <3>2. \A i \in 1 .. n : accepted[i] \in Call
      BY <2>1, <3>1, ElementOfSeq
    <3> QED BY <2>1, <3>2, SubSeqProperties
  <2> QED BY <2>3, <2>4 DEF EachCallAnsweredOnce, CallsInv, IdOf, hand
<1> QED
  BY <1>1, CallsInit, CallsStep, PTL DEF Spec

-----------------------------------------------------------------------------
Item == [id : Nat, trigger_time : Nat, fired : BOOLEAN]
Pointer == [buffer : Nat, at : Nat, id : Nat]

(* The items are numbered as they are scheduled, the vector keeps that order *)
(* and has lost what was cancelled.                                          *)
ItemsInv ==
  /\ items \in Seq(Item) /\ scheduled \in Seq(Nat) /\ buffer \in Nat /\ clock \in Nat
  /\ \A k \in 1 .. Len(items) :
       /\ items[k].id \in 1 .. Len(scheduled) /\ items[k].id \notin cancelled
       /\ items[k].trigger_time = scheduled[items[k].id]
  /\ \A j, k \in 1 .. Len(items) : j < k => items[j].id < items[k].id
  /\ cancelled \subseteq 1 .. Len(scheduled)

(* What was collected is where the pointers say, due and not yet marked.    *)
ReadyInv ==
  /\ ready \in Seq(Pointer)
  /\ tpc \notin {"emitting", "marking"} => ready = <<>>
  /\ tpc = "marking" => ready # <<>>
  /\ \A p \in 1 .. Len(ready) :
       /\ ready[p].buffer = buffer /\ ready[p].at \in 1 .. Len(items)
       /\ items[ready[p].at].id = ready[p].id /\ ~items[ready[p].at].fired
       /\ items[ready[p].at].trigger_time <= clock
  /\ \A p, q \in 1 .. Len(ready) : p < q => ready[p].at < ready[q].at

(* What was emitted is marked, or is what the thread is about to mark, or is *)
(* no longer in the vector.                                                  *)
Settled(k) == items[k].fired \/ (tpc = "marking" /\ ready[1].at = k)

FiresInv ==
  /\ fires \in Seq([id : Nat, early : BOOLEAN])
  /\ \A i \in 1 .. Len(fires) :
       /\ fires[i].id \in 1 .. Len(scheduled) /\ fires[i].id \notin cancelled
       /\ ~fires[i].early
       /\ \A k \in 1 .. Len(items) :
            items[k].id = fires[i].id => Settled(k)
  /\ \A i, j \in 1 .. Len(fires) : fires[i].id = fires[j].id => i = j

(* Once an element was moved under the pointers nothing is claimed.         *)
SchedulerInv ==
  /\ disturbed \in BOOLEAN
  /\ ~disturbed => ItemsInv /\ ReadyInv /\ FiresInv

LEMMA SchedulerStarts == Init => SchedulerInv
<1> SUFFICES ASSUME Init PROVE SchedulerInv
  OBVIOUS
<1>1. /\ items = <<>> /\ buffer = 0 /\ tpc = "looping" /\ ready = <<>> /\ clock = 0
      /\ scheduled = <<>> /\ fires = <<>> /\ cancelled = {} /\ disturbed = FALSE
  BY DEF Init, SchedulerInit
<1>2. ItemsInv
  BY <1>1 DEF ItemsInv
<1>3. ReadyInv
  BY <1>1 DEF ReadyInv
<1>4. FiresInv
  BY <1>1 DEF FiresInv
<1> QED BY <1>1, <1>2, <1>3, <1>4 DEF SchedulerInv

(* What the invariant speaks of, but for where the thread is.               *)
heldVars == <<items, buffer, ready, clock, scheduled, fires, cancelled, disturbed>>

(* A thread that holds no pointers may go anywhere but to where it would.   *)
LEMMA ElsewhereKeeps ==
  ASSUME SchedulerInv, UNCHANGED heldVars,
         \/ tpc' = tpc
         \/ tpc \notin {"emitting", "marking"} /\ tpc' \notin {"emitting", "marking"}
  PROVE  SchedulerInv'
<1>1. CASE disturbed
  BY <1>1 DEF SchedulerInv, heldVars
<1>2. CASE ~disturbed
  <2>1. ItemsInv'
    BY <1>2 DEF SchedulerInv, heldVars, ItemsInv
  <2>2. ReadyInv'
    BY <1>2 DEF SchedulerInv, heldVars, ReadyInv
  <2>3. FiresInv'
    BY <1>2 DEF SchedulerInv, heldVars, FiresInv, Settled
  <2> QED BY <2>1, <2>2, <2>3 DEF SchedulerInv, heldVars
<1> QED BY <1>1, <1>2

LEMMA ScheduleKeeps ==
  ASSUME SchedulerInv, NEW delay \in Nat, Schedule(delay)
  PROVE  SchedulerInv'
<1>1. disturbed' \in BOOLEAN /\ (~disturbed' => ~disturbed /\ ~(Full /\ Holding))
  BY DEF Schedule, PushBack, SchedulerInv
<1> SUFFICES ASSUME ~disturbed' PROVE ItemsInv' /\ ReadyInv' /\ FiresInv'
  BY <1>1 DEF SchedulerInv
<1>2. ItemsInv /\ ReadyInv /\ FiresInv
  BY <1>1 DEF SchedulerInv
<1> DEFINE n == Len(scheduled)
           m == Len(items)
<1>3. PICK item : item = [id |-> n + 1, trigger_time |-> clock + delay, fired |-> FALSE]
  OBVIOUS
<1>4. /\ items' = Append(items, item) /\ scheduled' = Append(scheduled, clock + delay)
      /\ buffer' = IF Full THEN buffer + 1 ELSE buffer
      /\ UNCHANGED <<tpc, ready, clock, fires, cancelled>>
  BY <1>3 DEF Schedule, PushBack
<1>5. /\ n \in Nat /\ m \in Nat /\ item \in Item /\ clock + delay \in Nat
      /\ item.id = n + 1 /\ item.trigger_time = clock + delay
  BY <1>2, <1>3, LenProperties DEF ItemsInv, Item
<1>6. /\ items' \in Seq(Item) /\ Len(items') = m + 1 /\ items'[m + 1] = item
      /\ \A k \in 1 .. m : items'[k] = items[k]
      /\ scheduled' \in Seq(Nat) /\ Len(scheduled') = n + 1 /\ scheduled'[n + 1] = clock + delay
      /\ \A i \in 1 .. n : scheduled'[i] = scheduled[i]
  BY <1>2, <1>4, <1>5, AppendProperties DEF ItemsInv
<1>7. ItemsInv'
  <2>1. items' \in Seq(Item) /\ scheduled' \in Seq(Nat) /\ buffer' \in Nat /\ clock' \in Nat
    BY <1>2, <1>4, <1>6 DEF ItemsInv
  <2>2. cancelled' \subseteq 1 .. Len(scheduled')
    BY <1>2, <1>4, <1>5, <1>6 DEF ItemsInv
  <2>3. ASSUME NEW k \in 1 .. Len(items')
        PROVE  /\ items'[k].id \in 1 .. Len(scheduled') /\ items'[k].id \notin cancelled'
               /\ items'[k].trigger_time = scheduled'[items'[k].id]
    <3>1. CASE k = m + 1
      BY <1>2, <1>4, <1>5, <1>6, <3>1 DEF ItemsInv
    <3>2. CASE k \in 1 .. m
      BY <1>2, <1>4, <1>5, <1>6, <3>2 DEF ItemsInv
    <3> QED BY <1>5, <1>6, <3>1, <3>2
  <2>4. ASSUME NEW j \in 1 .. Len(items'), NEW k \in 1 .. Len(items'), j < k
        PROVE  items'[j].id < items'[k].id
    <3>1. j \in 1 .. m /\ items[j].id \in 1 .. n /\ items'[j] = items[j]
      BY <1>2, <1>5, <1>6, <2>4 DEF ItemsInv
    <3>2. CASE k = m + 1
      BY <1>5, <1>6, <3>1, <3>2
    <3>3. CASE k \in 1 .. m
      BY <1>2, <1>6, <2>4, <3>1, <3>3 DEF ItemsInv
    <3> QED BY <1>5, <1>6, <3>2, <3>3
  <2> QED BY <2>1, <2>2, <2>3, <2>4 DEF ItemsInv
<1>8. ReadyInv'
  <2>1. CASE ready = <<>>
    BY <1>2, <1>4, <2>1 DEF ReadyInv
  <2>2. CASE ready # <<>>
    <3>1. buffer' = buffer
      BY <1>1, <1>2, <1>4, <2>2 DEF ReadyInv, Holding
    <3>2. \A p \in 1 .. Len(ready) : items'[ready[p].at] = items[ready[p].at] /\ ready[p].at \in 1 .. Len(items')
      BY <1>2, <1>5, <1>6 DEF ReadyInv
    <3> QED BY <1>2, <1>4, <3>1, <3>2 DEF ReadyInv
  <2> QED BY <2>1, <2>2
<1>9. FiresInv'
  <2> SUFFICES ASSUME NEW i \in 1 .. Len(fires)
               PROVE  /\ fires[i].id \in 1 .. Len(scheduled')
                      /\ \A k \in 1 .. Len(items') :
                           items'[k].id = fires[i].id => Settled(k)'
    BY <1>2, <1>4 DEF FiresInv
  <2>1. fires[i].id \in 1 .. n
    BY <1>2 DEF FiresInv
  <2>2. ASSUME NEW k \in 1 .. Len(items'), items'[k].id = fires[i].id
        PROVE  Settled(k)'
    <3>1. k \in 1 .. m
      BY <1>5, <1>6, <2>1, <2>2
    <3>2. items'[k] = items[k]
      BY <1>6, <3>1
    <3>3. Settled(k)
      BY <1>2, <2>2, <3>1, <3>2 DEF FiresInv
    <3> QED BY <1>4, <3>2, <3>3 DEF Settled
  <2> QED BY <1>5, <1>6, <2>1, <2>2
<1> QED BY <1>7, <1>8, <1>9

LEMMA Joined ==
  ASSUME NEW S, NEW a \in Seq(S), NEW b \in Seq(S)
  PROVE  /\ a \o b \in Seq(S) /\ Len(a \o b) = Len(a) + Len(b)
         /\ \A i \in 1 .. Len(a) : (a \o b)[i] = a[i]
         /\ \A i \in 1 .. Len(b) : (a \o b)[Len(a) + i] = b[i]
OBVIOUS

(* erase(): the later elements move down by one.                            *)
LEMMA Erased ==
  ASSUME NEW S, NEW s \in Seq(S), NEW k \in 1 .. Len(s),
         NEW r, r = SubSeq(s, 1, k - 1) \o SubSeq(s, k + 1, Len(s))
  PROVE  /\ r \in Seq(S) /\ Len(r) = Len(s) - 1
         /\ \A i \in 1 .. k - 1 : r[i] = s[i]
         /\ \A i \in k .. Len(s) - 1 : r[i] = s[i + 1]
<1>1. Len(s) \in Nat /\ \A i \in 1 .. Len(s) : s[i] \in S
  BY LenProperties, ElementOfSeq
<1>2. PICK a \in Seq(S) :
        a = SubSeq(s, 1, k - 1) /\ Len(a) = k - 1 /\ \A i \in 1 .. k - 1 : a[i] = s[i]
  <2>1. \A i \in 1 .. k - 1 : s[i] \in S
    BY <1>1
  <2>2. PICK a : a = SubSeq(s, 1, k - 1)
    OBVIOUS
  <2>3. a \in Seq(S) /\ Len(a) = k - 1 /\ \A i \in 1 .. k - 1 : a[i] = s[i]
    BY <1>1, <2>1, <2>2, SubSeqProperties
  <2> QED BY <2>2, <2>3
<1>3. PICK b \in Seq(S) :
        b = SubSeq(s, k + 1, Len(s)) /\ Len(b) = Len(s) - k /\ \A i \in 1 .. Len(s) - k : b[i] = s[k + i]
  <2>1. \A i \in k + 1 .. Len(s) : s[i] \in S
    BY <1>1
  <2>2. PICK b : b = SubSeq(s, k + 1, Len(s))
    OBVIOUS
  <2>3. /\ b \in Seq(S) /\ Len(b) = IF k + 1 <= Len(s) THEN Len(s) - (k + 1) + 1 ELSE 0
        /\ \A i \in 1 .. Len(s) - (k + 1) + 1 : b[i] = s[(k + 1) + i - 1]
    BY <1>1, <2>1, <2>2, SubSeqProperties
  <2>4. Len(b) = Len(s) - k
    BY <1>1, <2>3
  <2>5. ASSUME NEW i \in 1 .. Len(s) - k PROVE b[i] = s[k + i]
    <3>1. (k + 1) + i - 1 = k + i /\ i \in 1 .. Len(s) - (k + 1) + 1
      BY <1>1
    <3> QED BY <2>3, <3>1
  <2> QED BY <2>2, <2>3, <2>4, <2>5
<1>4. Len(a) = k - 1 /\ \A i \in 1 .. k - 1 : a[i] = s[i]
  BY <1>2
<1>5. Len(b) = Len(s) - k /\ \A i \in 1 .. Len(s) - k : b[i] = s[k + i]
  BY <1>3
<1>6. r = a \o b
  BY <1>2, <1>3
<1>7. /\ r \in Seq(S) /\ Len(r) = Len(a) + Len(b)
      /\ \A i \in 1 .. Len(a) : r[i] = a[i]
      /\ \A i \in 1 .. Len(b) : r[Len(a) + i] = b[i]
  <2>1. /\ a \o b \in Seq(S) /\ Len(a \o b) = Len(a) + Len(b)
        /\ \A i \in 1 .. Len(a) : (a \o b)[i] = a[i]
        /\ \A i \in 1 .. Len(b) : (a \o b)[Len(a) + i] = b[i]
    BY Joined
  <2> QED BY <1>6, <2>1, Zenon
<1>8. ASSUME NEW i \in k .. Len(s) - 1 PROVE r[i] = s[i + 1]
  <2>1. i - k + 1 \in 1 .. Len(s) - k /\ (k - 1) + (i - k + 1) = i /\ k + (i - k + 1) = i + 1
    BY <1>1
  <2>2. r[(k - 1) + (i - k + 1)] = b[i - k + 1]
    BY <1>4, <1>5, <1>7, <2>1
  <2> QED BY <1>5, <2>1, <2>2
<1>9. Len(r) = Len(s) - 1
  <2>1. Len(r) = Len(a) + Len(b) /\ Len(a) = k - 1 /\ Len(b) = Len(s) - k /\ Len(s) \in Nat
    BY <1>1, <1>4, <1>5, <1>7
  <2>2. k \in Nat /\ (k - 1) + (Len(s) - k) = Len(s) - 1
    BY <2>1
  <2> QED BY <2>1, <2>2
<1> QED BY <1>4, <1>7, <1>8, <1>9

LEMMA CancelKeeps ==
  ASSUME SchedulerInv, NEW id, CancelItem(id)
  PROVE  SchedulerInv'
<1> DEFINE m == Len(items)
<1>1. PICK k \in 1 .. m :
        /\ items[k].id = id /\ ~items[k].fired
        /\ cancelled' = cancelled \cup {id}
        /\ items' = SubSeq(items, 1, k - 1) \o SubSeq(items, k + 1, Len(items))
        /\ disturbed' =
             (disturbed \/ (Holding /\ \E p \in 1 .. Len(ready) : ready[p].at >= k))
  BY DEF CancelItem
<1>2. UNCHANGED <<buffer, tpc, ready, clock, scheduled, fires>>
  BY DEF CancelItem
<1>3. /\ disturbed' \in BOOLEAN
      /\ ~disturbed' => ~disturbed /\ (Holding => \A p \in 1 .. Len(ready) : ~(ready[p].at >= k))
  BY <1>1 DEF SchedulerInv
<1> SUFFICES ASSUME ~disturbed' PROVE ItemsInv' /\ ReadyInv' /\ FiresInv'
  BY <1>3 DEF SchedulerInv
<1>4. ItemsInv /\ ReadyInv /\ FiresInv
  BY <1>3 DEF SchedulerInv
<1>5. /\ m \in Nat /\ items' \in Seq(Item) /\ Len(items') = m - 1
      /\ \A i \in 1 .. k - 1 : items'[i] = items[i]
      /\ \A i \in k .. m - 1 : items'[i] = items[i + 1]
  <2>1. items \in Seq(Item) /\ m \in Nat
    BY <1>4, LenProperties DEF ItemsInv
  <2>2. items' = SubSeq(items, 1, k - 1) \o SubSeq(items, k + 1, Len(items))
    BY <1>1
  <2>3. PICK r : r = items'
    OBVIOUS
  <2>4. /\ r \in Seq(Item) /\ Len(r) = m - 1
        /\ \A i \in 1 .. k - 1 : r[i] = items[i]
        /\ \A i \in k .. m - 1 : r[i] = items[i + 1]
    BY <2>1, <2>2, <2>3, Erased
  <2> QED BY <2>1, <2>3, <2>4
<1>6. \A p \in 1 .. Len(ready) : ready[p].at \in 1 .. k - 1
  <2>1. CASE ready = <<>>
    BY <2>1
  <2>2. CASE ready # <<>>
    <3>1. Holding
      BY <1>4, <2>2 DEF ReadyInv, Holding
    <3> QED BY <1>3, <1>4, <3>1 DEF ReadyInv
  <2> QED BY <2>1, <2>2
<1>7. \A j \in 1 .. Len(items') :
        \E i \in 1 .. m : i # k /\ items'[j] = items[i] /\ i = IF j < k THEN j ELSE j + 1
  <2> SUFFICES ASSUME NEW j \in 1 .. Len(items')
               PROVE  \E i \in 1 .. m : i # k /\ items'[j] = items[i] /\ i = IF j < k THEN j ELSE j + 1
    OBVIOUS
  <2>1. CASE j < k
    BY <1>5, <2>1
  <2>2. CASE ~(j < k)
    BY <1>5, <2>2
  <2> QED BY <2>1, <2>2
<1>8. ItemsInv'
  <2>1. \A i \in 1 .. m : i # k => items[i].id # id
    <3> SUFFICES ASSUME NEW i \in 1 .. m, i # k PROVE items[i].id # id
      OBVIOUS
    <3>1. items[i].id \in Nat /\ id \in Nat
      BY <1>1, <1>4 DEF ItemsInv
    <3>2. CASE i < k
      <4>1. items[i].id < items[k].id
        BY <1>4, <3>2 DEF ItemsInv
      <4> QED BY <1>1, <3>1, <4>1
    <3>3. CASE k < i
      <4>1. items[k].id < items[i].id
        BY <1>4, <3>3 DEF ItemsInv
      <4> QED BY <1>1, <3>1, <4>1
    <3> QED BY <1>5, <3>2, <3>3
  <2>2. items' \in Seq(Item) /\ scheduled' \in Seq(Nat) /\ buffer' \in Nat /\ clock' \in Nat
    BY <1>2, <1>4, <1>5 DEF ItemsInv
  <2>3. cancelled' \subseteq 1 .. Len(scheduled')
    BY <1>1, <1>2, <1>4 DEF ItemsInv
  <2>4. ASSUME NEW j \in 1 .. Len(items')
        PROVE  /\ items'[j].id \in 1 .. Len(scheduled') /\ items'[j].id \notin cancelled'
               /\ items'[j].trigger_time = scheduled'[items'[j].id]
    <3>1. PICK i \in 1 .. m : i # k /\ items'[j] = items[i]
      BY <1>7
    <3> QED BY <1>1, <1>2, <1>4, <2>1, <3>1 DEF ItemsInv
  <2>5. ASSUME NEW j \in 1 .. Len(items'), NEW l \in 1 .. Len(items'), j < l
        PROVE  items'[j].id < items'[l].id
    <3>1. PICK i \in 1 .. m : items'[j] = items[i] /\ i = IF j < k THEN j ELSE j + 1
      BY <1>7
    <3>2. PICK h \in 1 .. m : items'[l] = items[h] /\ h = IF l < k THEN l ELSE l + 1
      BY <1>7
    <3>3. i < h
      BY <1>5, <2>5, <3>1, <3>2
    <3> QED BY <1>4, <3>1, <3>2, <3>3 DEF ItemsInv
  <2> QED BY <2>2, <2>3, <2>4, <2>5 DEF ItemsInv
<1>9. ReadyInv'
  <2>1. \A p \in 1 .. Len(ready) :
          items'[ready[p].at] = items[ready[p].at] /\ ready[p].at \in 1 .. Len(items')
    BY <1>5, <1>6
  <2> QED BY <1>2, <1>4, <2>1 DEF ReadyInv
<1>10. ASSUME NEW i \in 1 .. Len(fires) PROVE fires[i].id # id
  <2> SUFFICES ASSUME fires[i].id = id PROVE FALSE
    OBVIOUS
  <2>1. Settled(k)
    BY <1>1, <1>4 DEF FiresInv
  <2>2. tpc = "marking" /\ ready[1].at = k
    BY <1>1, <2>1 DEF Settled
  <2>3. 1 \in 1 .. Len(ready)
    BY <1>4, <2>2, EmptySeq, LenProperties DEF ReadyInv
  <2> QED BY <1>6, <2>2, <2>3
<1>11. FiresInv'
  <2> SUFFICES ASSUME NEW i \in 1 .. Len(fires)
               PROVE  /\ fires[i].id \notin cancelled'
                      /\ \A j \in 1 .. Len(items') : items'[j].id = fires[i].id => Settled(j)'
    BY <1>2, <1>4 DEF FiresInv
  <2>1. fires[i].id \notin cancelled'
    BY <1>1, <1>4, <1>10 DEF FiresInv
  <2>2. ASSUME NEW j \in 1 .. Len(items'), items'[j].id = fires[i].id
        PROVE  Settled(j)'
    <3>1. PICK h \in 1 .. m : items'[j] = items[h] /\ h = IF j < k THEN j ELSE j + 1
      BY <1>7
    <3>2. Settled(h)
      BY <1>4, <2>2, <3>1 DEF FiresInv
    <3>3. CASE items[h].fired
      BY <3>1, <3>3 DEF Settled
    <3>4. CASE tpc = "marking" /\ ready[1].at = h
      <4>1. 1 \in 1 .. Len(ready)
        BY <1>4, <3>4, EmptySeq, LenProperties DEF ReadyInv
      <4>2. h < k
        BY <1>6, <3>4, <4>1
      <4>3. h = j
        BY <1>5, <3>1, <4>2
      <4> QED BY <1>2, <3>4, <4>3 DEF Settled
    <3> QED BY <3>2, <3>3, <3>4 DEF Settled
  <2> QED BY <2>1, <2>2
<1> QED BY <1>8, <1>9, <1>11

(* The places of the unfired items, and of those that are due.              *)
LEMMA ScanKeeps ==
  ASSUME SchedulerInv, Scan
  PROVE  SchedulerInv'
<1>1. CASE ready' = ready /\ tpc' \notin {"emitting", "marking"}
  BY <1>1, ElsewhereKeeps DEF Scan, Unchanged, heldVars
<1>2. CASE ~(ready' = ready /\ tpc' \notin {"emitting", "marking"})
  <2>1. /\ tpc = "scanning" /\ tpc' = "emitting" /\ ready' = Due
        /\ UNCHANGED <<items, buffer, clock, scheduled, fires, cancelled, disturbed>>
    BY <1>2 DEF Scan, Collect, Unchanged
  <2>2. CASE disturbed
    BY <2>1, <2>2 DEF SchedulerInv
  <2>3. CASE ~disturbed
    <3> SUFFICES ItemsInv' /\ ReadyInv' /\ FiresInv'
      BY <2>1, <2>3 DEF SchedulerInv
    <3>1. ItemsInv /\ ReadyInv /\ FiresInv
      BY <2>3 DEF SchedulerInv
    <3> DEFINE m == Len(items)
    <3>2. PICK places : places = {k \in Unfired : items[k].trigger_time <= clock}
      OBVIOUS
    <3>3. m \in Nat /\ places \in SUBSET (1 .. m)
      BY <3>1, <3>2, LenProperties DEF ItemsInv, Unfired
    <3>4. PICK order : order = Ascending(places) /\ Enumerates(order, places)
      BY <3>3, AscendingEnumerates
    <3>5. PICK c \in Nat : c = Cardinality(places)
      <4>1. IsFiniteSet(1 .. m)
        BY <3>3, FS_Interval
      <4> QED BY <3>3, <4>1, FS_Subset, FS_CardinalityType
    <3>6. ready' = [p \in 1 .. c |-> [buffer |-> buffer, at |-> order[p], id |-> items[order[p]].id]]
      BY <2>1, <3>2, <3>4, <3>5 DEF Due, PointersTo
    <3>7. /\ \A p \in 1 .. c : order[p] \in places
          /\ \A p, q \in 1 .. c : p < q => order[p] < order[q]
      BY <3>4, <3>5 DEF Enumerates
    <3>8. \A p \in 1 .. c :
            /\ order[p] \in 1 .. m /\ ~items[order[p]].fired
            /\ items[order[p]].trigger_time <= clock
            /\ items[order[p]].id \in Nat
      BY <3>1, <3>2, <3>7 DEF Unfired, ItemsInv
    <3>9. ready' \in Seq(Pointer) /\ Len(ready') = c
      BY <3>1, <3>6, <3>8 DEF Pointer, ItemsInv
    <3>10. \A p \in 1 .. Len(ready') :
             ready'[p] = [buffer |-> buffer, at |-> order[p], id |-> items[order[p]].id]
      BY <3>6, <3>9
    <3>11. ItemsInv'
      BY <2>1, <3>1 DEF ItemsInv
    <3>12. ReadyInv'
      BY <2>1, <3>7, <3>8, <3>9, <3>10 DEF ReadyInv
    <3>13. FiresInv'
      <4>1. \A k : Settled(k) => Settled(k)'
        BY <2>1 DEF Settled
      <4> QED BY <2>1, <3>1, <4>1 DEF FiresInv
    <3> QED BY <3>11, <3>12, <3>13
  <2> QED BY <2>2, <2>3
<1> QED BY <1>1, <1>2

LEMMA EmitFiresKeeps ==
  ASSUME SchedulerInv, Emit
  PROVE  SchedulerInv'
<1>1. /\ tpc = "emitting" /\ ready # <<>> /\ tpc' = "marking"
      /\ UNCHANGED <<items, buffer, ready, clock, scheduled, cancelled, disturbed>>
  BY DEF Emit
<1>2. CASE disturbed
  BY <1>1, <1>2 DEF SchedulerInv
<1>3. CASE ~disturbed
  <2> SUFFICES ItemsInv' /\ ReadyInv' /\ FiresInv'
    BY <1>1, <1>3 DEF SchedulerInv
  <2>1. ItemsInv /\ ReadyInv /\ FiresInv
    BY <1>3 DEF SchedulerInv
  <2>2. 1 \in 1 .. Len(ready) /\ Head(ready) = ready[1]
    BY <1>1, <2>1, EmptySeq, LenProperties, HeadTailProperties DEF ReadyInv
  <2>3. PICK k \in 1 .. Len(items) : k = ready[1].at
    BY <2>1, <2>2 DEF ReadyInv
  <2>4. PICK id \in Nat : id = items[k].id
    BY <2>1 DEF ItemsInv
  <2>5. ~items[k].fired /\ scheduled[id] <= clock /\ id \in 1 .. Len(scheduled) /\ id \notin cancelled
    BY <2>1, <2>2, <2>3, <2>4 DEF ReadyInv, ItemsInv
  <2>6. InPlace(Head(ready))
    BY <2>1, <2>2, <2>3, LenProperties DEF ReadyInv, ItemsInv, InPlace
  <2>7. Reads(Head(ready)) = {id}
    BY <2>2, <2>3, <2>4, <2>6 DEF Reads
  <2>8. TooEarly(id) = FALSE
    <3>1. scheduled[id] \in Nat /\ clock \in Nat
      BY <2>1, <2>5 DEF ItemsInv
    <3> QED BY <2>5, <3>1 DEF TooEarly
  <2>9. PICK frame \in [id : Nat, early : BOOLEAN] :
          frame.id = id /\ frame.early = FALSE /\ fires' = Append(fires, frame)
    <3>1. fires' = Append(fires, [id |-> id, early |-> FALSE])
      BY <2>7, <2>8 DEF Emit
    <3> QED BY <3>1
  <2> DEFINE n == Len(fires)
  <2>10. /\ n \in Nat /\ fires' \in Seq([id : Nat, early : BOOLEAN]) /\ Len(fires') = n + 1
         /\ \A i \in 1 .. n : fires'[i] = fires[i]
         /\ fires'[n + 1] = frame
    BY <2>1, <2>9, AppendProperties, LenProperties DEF FiresInv
  <2>11. \A j \in 1 .. Len(items) : items[j].id = id => j = k
    <3> SUFFICES ASSUME NEW j \in 1 .. Len(items), items[j].id = id, j # k PROVE FALSE
      OBVIOUS
    <3>1. Len(items) \in Nat
      BY <2>1, LenProperties DEF ItemsInv
    <3>2. j < k \/ k < j
      BY <3>1
    <3>3. items[j].id < items[k].id \/ items[k].id < items[j].id
      BY <2>1, <3>2 DEF ItemsInv
    <3> QED BY <2>4, <3>3
  <2>12. \A i \in 1 .. n : fires[i].id # id
    <3> SUFFICES ASSUME NEW i \in 1 .. n, fires[i].id = id PROVE FALSE
      OBVIOUS
    <3>1. Settled(k)
      BY <2>1, <2>4 DEF FiresInv
    <3> QED BY <1>1, <2>5, <3>1 DEF Settled
  <2>13. ItemsInv'
    BY <1>1, <2>1 DEF ItemsInv
  <2>14. ReadyInv'
    BY <1>1, <2>1 DEF ReadyInv
  <2>15. FiresInv'
    <3>1. ASSUME NEW i \in 1 .. Len(fires')
          PROVE  /\ fires'[i].id \in 1 .. Len(scheduled') /\ fires'[i].id \notin cancelled'
                 /\ ~fires'[i].early
                 /\ \A j \in 1 .. Len(items') : items'[j].id = fires'[i].id => Settled(j)'
      <4>1. CASE i = n + 1
        <5>1. fires'[i].id = id /\ fires'[i].early = FALSE
          BY <2>9, <2>10, <4>1
        <5>2. Settled(k)'
          BY <1>1, <2>3 DEF Settled
        <5> QED BY <1>1, <2>5, <2>11, <5>1, <5>2
      <4>2. CASE i \in 1 .. n
        <5>1. fires'[i] = fires[i]
          BY <2>10, <4>2
        <5>2. \A j : Settled(j) => Settled(j)'
          BY <1>1 DEF Settled
        <5> QED BY <1>1, <2>1, <4>2, <5>1, <5>2 DEF FiresInv
      <4> QED BY <2>10, <4>1, <4>2
    <3>2. ASSUME NEW i \in 1 .. Len(fires'), NEW j \in 1 .. Len(fires'), fires'[i].id = fires'[j].id
          PROVE  i = j
      <4>1. CASE i \in 1 .. n /\ j \in 1 .. n
        BY <2>1, <2>10, <3>2, <4>1 DEF FiresInv
      <4>2. CASE i \in 1 .. n /\ j = n + 1
        BY <2>9, <2>10, <2>12, <3>2, <4>2
      <4>3. CASE i = n + 1 /\ j \in 1 .. n
        BY <2>9, <2>10, <2>12, <3>2, <4>3
      <4> QED BY <2>10, <4>1, <4>2, <4>3
    <3> QED BY <2>10, <3>1, <3>2 DEF FiresInv
  <2> QED BY <2>13, <2>14, <2>15
<1> QED BY <1>2, <1>3

LEMMA MarkKeeps ==
  ASSUME SchedulerInv, Mark
  PROVE  SchedulerInv'
<1>1. /\ tpc = "marking" /\ tpc' = "emitting" /\ ready' = Tail(ready) /\ MarkFired
      /\ UNCHANGED <<buffer, clock, scheduled, fires, cancelled, disturbed>>
  BY DEF Mark, Marking
<1>2. CASE disturbed
  BY <1>1, <1>2 DEF SchedulerInv
<1>3. CASE ~disturbed
  <2> SUFFICES ItemsInv' /\ ReadyInv' /\ FiresInv'
    BY <1>1, <1>3 DEF SchedulerInv
  <2>1. ItemsInv /\ ReadyInv /\ FiresInv
    BY <1>3 DEF SchedulerInv
  <2> DEFINE m == Len(items)
             r == Len(ready)
  <2>2. /\ r \in Nat /\ r > 0 /\ m \in Nat /\ Head(ready) = ready[1]
        /\ ready' \in Seq(Pointer) /\ Len(ready') = r - 1
        /\ \A p \in 1 .. r - 1 : ready'[p] = ready[p + 1]
    BY <1>1, <2>1, EmptySeq, LenProperties, HeadTailProperties DEF ReadyInv, ItemsInv
  <2>3. PICK k \in 1 .. m : k = ready[1].at
    BY <2>1, <2>2 DEF ReadyInv
  <2>4. InPlace(Head(ready))
    BY <2>1, <2>2, <2>3 DEF ReadyInv, InPlace
  <2>5. items' = [items EXCEPT ![k].fired = TRUE]
    BY <1>1, <2>2, <2>3, <2>4 DEF MarkFired
  <2>6. /\ items' \in Seq(Item) /\ Len(items') = m
        /\ \A j \in 1 .. m : j # k => items'[j] = items[j]
        /\ items'[k].id = items[k].id /\ items'[k].trigger_time = items[k].trigger_time
        /\ items'[k].fired
    <3>1. items \in Seq(Item) /\ items[k] \in Item
      BY <2>1, ElementOfSeq DEF ItemsInv
    <3>2. PICK item : item = [items[k] EXCEPT !.fired = TRUE]
      OBVIOUS
    <3>3. item \in Item /\ item.id = items[k].id /\ item.trigger_time = items[k].trigger_time /\ item.fired
      BY <3>1, <3>2 DEF Item
    <3>4. items' = [items EXCEPT ![k] = item]
      BY <2>5, <3>2
    <3> QED BY <3>1, <3>3, <3>4, ExceptSeq
  <2>7. ItemsInv'
    <3>1. \A j \in 1 .. m : items'[j].id = items[j].id /\ items'[j].trigger_time = items[j].trigger_time
      BY <2>6
    <3> QED BY <1>1, <2>1, <2>6, <3>1 DEF ItemsInv
  <2>8. ReadyInv'
    <3>1. ASSUME NEW p \in 1 .. Len(ready')
          PROVE  /\ ready'[p] = ready[p + 1] /\ p + 1 \in 1 .. r
                 /\ ready[p + 1].at \in 1 .. m /\ ready[p + 1].at # k
                 /\ items'[ready[p + 1].at] = items[ready[p + 1].at]
      <4>1. p + 1 \in 1 .. r /\ 1 \in 1 .. r /\ 1 < p + 1
        BY <2>2
      <4>2. ready[1].at < ready[p + 1].at /\ ready[p + 1].at \in 1 .. m
        BY <2>1, <4>1 DEF ReadyInv
      <4>3. ready[p + 1].at # k
        BY <2>3, <4>2
      <4> QED BY <2>2, <2>6, <4>1, <4>2, <4>3
    <3>2. ASSUME NEW p \in 1 .. Len(ready'), NEW q \in 1 .. Len(ready'), p < q
          PROVE  ready'[p].at < ready'[q].at
      <4>1. p + 1 < q + 1
        BY <2>2, <3>2
      <4> QED BY <2>1, <3>1, <4>1 DEF ReadyInv
    <3> QED BY <1>1, <2>1, <2>2, <2>6, <3>1, <3>2 DEF ReadyInv
  <2>9. FiresInv'
    <3> SUFFICES ASSUME NEW i \in 1 .. Len(fires), NEW j \in 1 .. m, items'[j].id = fires[i].id
                 PROVE  Settled(j)'
      BY <1>1, <2>1, <2>6 DEF FiresInv
    <3>1. CASE j = k
      BY <2>6, <3>1 DEF Settled
    <3>2. CASE j # k
      <4>1. Settled(j) /\ items'[j] = items[j]
        BY <2>1, <2>6, <3>2 DEF FiresInv
      <4> QED BY <2>3, <3>2, <4>1 DEF Settled
    <3> QED BY <3>1, <3>2
  <2> QED BY <2>7, <2>8, <2>9
<1> QED BY <1>2, <1>3

LEMMA CleanUpKeeps ==
  ASSUME SchedulerInv, CleanUp
  PROVE  SchedulerInv'
<1>1. /\ tpc = "emitting" /\ tpc' = "looping" /\ ready = <<>>
      /\ UNCHANGED <<buffer, ready, clock, scheduled, fires, cancelled, disturbed>>
  BY DEF CleanUp
<1>2. CASE disturbed
  BY <1>1, <1>2 DEF SchedulerInv
<1>3. CASE ~disturbed
  <2> SUFFICES ItemsInv' /\ ReadyInv' /\ FiresInv'
    BY <1>1, <1>3 DEF SchedulerInv
  <2>1. ItemsInv /\ ReadyInv /\ FiresInv
    BY <1>3 DEF SchedulerInv
  <2> DEFINE m == Len(items)
  <2>2. m \in Nat /\ Unfired \in SUBSET (1 .. m)
    BY <2>1, LenProperties DEF ItemsInv, Unfired
  <2>3. PICK order : order = Ascending(Unfired) /\ Enumerates(order, Unfired)
    BY <2>2, AscendingEnumerates
  <2>4. PICK c \in Nat : c = Cardinality(Unfired)
    <3>1. IsFiniteSet(1 .. m)
      BY <2>2, FS_Interval
    <3> QED BY <2>2, <3>1, FS_Subset, FS_CardinalityType
  <2>5. items' = [p \in 1 .. c |-> items[order[p]]]
    BY <2>3, <2>4 DEF CleanUp
  <2>6. /\ \A p \in 1 .. c : order[p] \in 1 .. m /\ items[order[p]] \in Item
        /\ \A p, q \in 1 .. c : p < q => order[p] < order[q]
    <3>1. \A p \in 1 .. c : order[p] \in Unfired
      BY <2>3, <2>4 DEF Enumerates
    <3> QED BY <2>1, <2>2, <2>3, <2>4, <3>1, ElementOfSeq DEF Enumerates, ItemsInv
  <2>7. items' \in Seq(Item) /\ Len(items') = c /\ \A p \in 1 .. c : items'[p] = items[order[p]]
    BY <2>5, <2>6
  <2>8. ItemsInv'
    BY <1>1, <2>1, <2>6, <2>7 DEF ItemsInv
  <2>9. ReadyInv'
    BY <1>1, <2>1 DEF ReadyInv
  <2>10. FiresInv'
    <3> SUFFICES ASSUME NEW i \in 1 .. Len(fires), NEW p \in 1 .. c, items'[p].id = fires[i].id
                 PROVE  Settled(p)'
      BY <1>1, <2>1, <2>7 DEF FiresInv
    <3>1. Settled(order[p]) /\ items'[p] = items[order[p]]
      BY <2>1, <2>6, <2>7 DEF FiresInv
    <3> QED BY <1>1, <3>1 DEF Settled
  <2> QED BY <2>8, <2>9, <2>10
<1> QED BY <1>2, <1>3

LEMMA TickKeeps ==
  ASSUME SchedulerInv, Tick
  PROVE  SchedulerInv'
<1>1. /\ clock' = clock + 1
      /\ UNCHANGED <<items, buffer, tpc, ready, scheduled, fires, cancelled, disturbed>>
  BY DEF Tick
<1>2. CASE disturbed
  BY <1>1, <1>2 DEF SchedulerInv
<1>3. CASE ~disturbed
  <2>1. ItemsInv /\ ReadyInv /\ FiresInv
    BY <1>3 DEF SchedulerInv
  <2>2. ItemsInv'
    <3>1. clock' \in Nat
      BY <1>1, <2>1 DEF ItemsInv
    <3> QED BY <1>1, <2>1, <3>1 DEF ItemsInv
  <2>3. ReadyInv'
    <3>1. \A p \in 1 .. Len(ready) : items[ready[p].at].trigger_time <= clock'
      <4> SUFFICES ASSUME NEW p \in 1 .. Len(ready)
                   PROVE  items[ready[p].at].trigger_time <= clock'
        OBVIOUS
      <4>1. items[ready[p].at].trigger_time \in Nat /\ clock \in Nat
        <5>1. ready[p].at \in 1 .. Len(items) /\ items \in Seq(Item) /\ clock \in Nat
          BY <2>1 DEF ReadyInv, ItemsInv
        <5>2. items[ready[p].at] \in Item
          BY <5>1, ElementOfSeq
        <5> QED BY <5>1, <5>2 DEF Item
      <4>2. items[ready[p].at].trigger_time <= clock
        BY <2>1 DEF ReadyInv
      <4> QED BY <1>1, <4>1, <4>2
    <3> QED BY <1>1, <2>1, <3>1 DEF ReadyInv
  <2>4. FiresInv'
    BY <1>1, <2>1 DEF FiresInv, Settled
  <2> QED BY <1>1, <1>3, <2>2, <2>3, <2>4 DEF SchedulerInv
<1> QED BY <1>2, <1>3

LEMMA SchedulerStep == CallsInv /\ SchedulerInv /\ [Next]_vars => SchedulerInv'
<1> SUFFICES ASSUME CallsInv, SchedulerInv, [Next]_vars PROVE SchedulerInv'
  OBVIOUS
<1>1. CASE UNCHANGED schedulerVars
  BY <1>1, ElsewhereKeeps DEF schedulerVars, heldVars
<1>2. ASSUME RunTool, ~UNCHANGED schedulerVars PROVE SchedulerInv'
  <2>1. Schedule(Minutes(task))
    BY <1>2 DEF RunTool
  <2>2. Minutes(task) \in Nat
    BY DEF Minutes, CallsInv, Call
  <2> QED BY <2>1, <2>2, ScheduleKeeps
<1>3. CASE LoopTest
  BY <1>3, ElsewhereKeeps DEF LoopTest, Unchanged, heldVars
<1>4. CASE TimerSleep
  <2>1. tpc \notin {"emitting", "marking"} /\ tpc' \notin {"emitting", "marking"}
    BY <1>4 DEF TimerSleep, Testing
  <2> QED BY <1>4, <2>1, ElsewhereKeeps DEF TimerSleep, Unchanged, heldVars
<1>5. CASE Wake
  BY <1>5, ElsewhereKeeps DEF Wake, Unchanged, heldVars
<1>6. CASE Scan \/ Emit \/ Mark \/ CleanUp \/ Tick
  BY <1>6, ScanKeeps, EmitFiresKeeps, MarkKeeps, CleanUpKeeps, TickKeeps
<1>7. ASSUME NEW id, CancelItem(id) PROVE SchedulerInv'
  BY <1>7, CancelKeeps
<1>8. CASE TimerStopFlag \/ TimerStopNotify \/ TimerStopJoin
  BY <1>8, ElsewhereKeeps DEF TimerStopFlag, TimerStopNotify, TimerStopJoin, heldVars
<1> QED
  BY <1>1, <1>2, <1>3, <1>4, <1>5, <1>6, <1>7, <1>8
     DEF Next, ToolCall, WorkerThread, TimerThread, Timer, CancelReminder, Time,
         ShutdownBegins, Shutdown, StopScheduler, StopToolDispatch, vars

(* An item fires at most once, not before its time, and never once Cancel() *)
(* has returned true for it, although the timer thread emits it outside the *)
(* mutex and marks it through a pointer afterwards, as long as no element   *)
(* was moved under the pointers.                                            *)
THEOREM RemindersFireOnceWhenDue == Spec => []FiresOnceWhenDue
<1>1. SchedulerInv => FiresOnceWhenDue
  <2> SUFFICES ASSUME SchedulerInv, ~disturbed, NEW i \in 1 .. Len(fires)
               PROVE  /\ fires[i].id \notin cancelled \cup {0}
                      /\ ~fires[i].early
                      /\ \A j \in 1 .. Len(fires) : fires[i].id = fires[j].id => i = j
    BY DEF FiresOnceWhenDue
  <2>1. FiresInv
    BY DEF SchedulerInv
  <2> QED BY <2>1 DEF FiresInv
<1>2. Init => CallsInv /\ SchedulerInv
  BY CallsInit, SchedulerStarts
<1>3. CallsInv /\ SchedulerInv /\ [Next]_vars => CallsInv' /\ SchedulerInv'
  BY CallsStep, SchedulerStep
<1> QED
  BY <1>1, <1>2, <1>3, PTL DEF Spec
=============================================================================
