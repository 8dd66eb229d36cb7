------------------------- MODULE AudioPlayer_proofs -------------------------
(***************************************************************************)
(* Theorems about the ring buffer and its player, for any capacity, chunk  *)
(* and payload sizes, callback period, waits, and number of flushers.      *)
(***************************************************************************)
EXTENDS AudioPlayer, TLAPS

-----------------------------------------------------------------------------
(* Arithmetic: no index is ever as much as twice the capacity.             *)

LEMMA Modulo ==
  ASSUME NEW x \in Nat, x < 2 * Capacity
  PROVE  x % Capacity = IF x < Capacity THEN x ELSE x - Capacity
BY PlayerAssumption DEF PlayerAssumption

LEMMA AheadIs ==
  \A p \in Positions, n \in Nat :
    n <= Capacity =>
      Ahead(p, n) = IF p + n < Capacity THEN p + n ELSE p + n - Capacity
<1> SUFFICES ASSUME NEW p \in Positions, NEW n \in Nat, n <= Capacity
             PROVE  Ahead(p, n) = IF p + n < Capacity THEN p + n
                                  ELSE p + n - Capacity
  OBVIOUS
<1>1. PICK x \in Nat : x = p + n /\ x < 2 * Capacity
  BY PlayerAssumption DEF PlayerAssumption, Positions
<1>2. PICK y : y = x % Capacity
  OBVIOUS
<1>3. y = IF x < Capacity THEN x ELSE x - Capacity
  BY <1>1, <1>2, Modulo
<1>4. Ahead(p, n) = y
  BY <1>1, <1>2, Zenon DEF Ahead
<1> QED
  BY <1>1, <1>3, <1>4, PlayerAssumption DEF PlayerAssumption, Positions

LEMMA AheadType ==
  \A p \in Positions, n \in Nat : n <= Capacity => Ahead(p, n) \in Positions
BY AheadIs, PlayerAssumption DEF PlayerAssumption, Positions

LEMMA AvailableType ==
  ASSUME NEW wp \in Positions, NEW rp \in Positions
  PROVE  /\ AvailableRead(wp, rp) \in Positions
         /\ AvailableWrite(wp, rp) \in Positions
BY PlayerAssumption
DEF PlayerAssumption, Positions, AvailableRead, AvailableWrite

(* The available samples are the distance from the reader to the writer.   *)
LEMMA Distance ==
  ASSUME NEW rp \in Positions, NEW d \in Positions
  PROVE  AvailableRead(Ahead(rp, d), rp) = d
BY AheadIs, PlayerAssumption DEF PlayerAssumption, Positions, AvailableRead

(* Moving on from a position moved to.                                     *)
LEMMA Further ==
  ASSUME NEW p \in Positions, NEW a \in Nat, NEW b \in Nat, a + b < Capacity
  PROVE  Ahead(Ahead(p, a), b) = Ahead(p, a + b)
<1>1. a <= Capacity /\ b <= Capacity /\ a + b \in Nat /\ a + b <= Capacity
  BY PlayerAssumption DEF PlayerAssumption
<1>2. PICK q \in Positions :
        q = Ahead(p, a) /\ q = IF p + a < Capacity THEN p + a ELSE p + a - Capacity
  BY <1>1, AheadType, AheadIs
<1>3. Ahead(q, b) = IF q + b < Capacity THEN q + b ELSE q + b - Capacity
  BY <1>1, AheadIs
<1>4. Ahead(p, a + b)
        = IF p + (a + b) < Capacity THEN p + (a + b) ELSE p + (a + b) - Capacity
  BY <1>1, AheadIs
<1>5. Ahead(q, b) = Ahead(p, a + b)
  BY <1>2, <1>3, <1>4, PlayerAssumption DEF PlayerAssumption, Positions
<1> QED BY <1>2, <1>5

(* Different offsets are different cells.                                  *)
LEMMA Apart ==
  ASSUME NEW p \in Positions, NEW a \in Positions, NEW b \in Positions,
         Ahead(p, a) = Ahead(p, b)
  PROVE  a = b
BY AheadIs, PlayerAssumption DEF PlayerAssumption, Positions

-----------------------------------------------------------------------------
(* Type correctness.                                                       *)

WriterType ==
  [pc : {"idle", "chunk", "wait", "decide"} \cup Writing,
   left : Nat, waited : Nat, seen : Positions, pos : Positions,
   n : Nat, i : Nat]

LEMMA ReturnedType ==
  ASSUME writer \in WriterType PROVE Returned(writer) \in WriterType
<1>1. Chunk \in Nat /\ Chunk <= writer.left
  BY PlayerAssumption DEF PlayerAssumption, WriterType, Chunk, Least
<1>2. writer.left - Chunk \in Nat
  BY <1>1 DEF WriterType
<1> QED BY <1>2 DEF Returned, WriterType

LEMMA WriterStepType == ASSUME TypeOK, WriterStep PROVE TypeOK'
<1>0. writer \in WriterType /\ Returned(writer) \in WriterType
  BY ReturnedType DEF TypeOK, WriterType
<1>1. disturbed' \in BOOLEAN
  BY DEF WriterStep, Remember, TypeOK, Overlap
<1>2. Capacity \in Nat /\ 0 \in Positions
  BY PlayerAssumption DEF PlayerAssumption, Positions
<1>3. CASE BeginWrite
  BY <1>1, <1>3, <1>0 DEF TypeOK, BeginWrite, WriterAt, ring, WriterType
<1>4. CASE Sleep
  <2>1. Least(writer.waited + 1, MaxWait) \in Nat
    BY <1>0, PlayerAssumption DEF PlayerAssumption, Least, WriterType
  <2> QED BY <1>1, <1>4, <1>0, <2>1 DEF TypeOK, Sleep, WriterAt, ring, WriterType
<1>5. CASE StopWaiting \/ EnterBuffer
  BY <1>1, <1>5, <1>0
  DEF TypeOK, StopWaiting, EnterBuffer, WriterAt, ring, WriterType, Writing
<1>6. CASE DiscardChunk
  BY <1>1, <1>6, <1>0 DEF TypeOK, DiscardChunk, WriterAt, ring, WriterType
<1>7. CASE WriteLoad
  BY <1>1, <1>7, <1>0 DEF TypeOK, WriteLoad, WriterAt, ring, WriterType, Writing
<1>8. CASE WriteSize
  <2> DEFINE n == Least(Chunk, AvailableWrite(writer.seen, readPos))
  <2>1. AvailableWrite(writer.seen, readPos) \in Nat
    <3>1. writer.seen \in Positions /\ readPos \in Positions
      BY <1>0 DEF TypeOK, WriterType
    <3>2. AvailableWrite(writer.seen, readPos) \in Positions
      BY <3>1, AvailableType
    <3> QED BY <3>2, <1>2 DEF Positions
  <2>2. Chunk \in Nat
    BY <1>0, PlayerAssumption DEF PlayerAssumption, WriterType, Chunk, Least
  <2>3. n \in Nat
    BY <2>1, <2>2 DEF Least
  <2>4. writer' \in WriterType
    <3> HIDE DEF n
    <3>1. [writer EXCEPT !.pc = "writePos", !.n = n] \in WriterType
      BY <1>0, <2>3 DEF WriterType, Writing
    <3>2. writer' \in {Returned(writer), [writer EXCEPT !.pc = "writePos", !.n = n]}
      BY <1>8 DEF WriteSize, n
    <3> QED BY <1>0, <3>1, <3>2
  <2> QED BY <1>1, <1>8, <2>4 DEF TypeOK, WriteSize, WriterAt, ring, WriterType
<1>9. CASE WritePosition
  BY <1>1, <1>9, <1>0
  DEF TypeOK, WritePosition, WriterAt, ring, WriterType, Writing
<1>10. CASE WriteCell
  <2>1. put + writer.i \in Int /\ writer.i + 1 \in Nat
    BY <1>0 DEF TypeOK, WriterType
  <2>2. cells' \in [Positions -> Int]
    BY <1>10, <2>1 DEF TypeOK, WriteCell
  <2>3. writer' \in WriterType
    BY <1>10, <1>0, <2>1 DEF WriteCell, WriterType
  <2> QED BY <1>1, <1>10, <2>2, <2>3 DEF TypeOK, WriteCell, WriterAt, WriterType
<1>11. CASE WriteStore
  <2>1. writePos' \in Positions
    <3>1. writer.pos + writer.n \in Nat
      BY <1>0, <1>2 DEF WriterType, Positions
    <3>2. PICK x \in Nat : x = writer.pos + writer.n
      BY <3>1
    <3>3. x % Capacity \in Positions
      BY PlayerAssumption DEF PlayerAssumption, Positions
    <3> QED BY <1>11, <3>2, <3>3, Zenon DEF WriteStore, Ahead
  <2>2. put + writer.n \in Nat
    BY <1>0 DEF TypeOK, WriterType
  <2> QED BY <1>0, <1>1, <1>11, <2>1, <2>2 DEF TypeOK, WriteStore, WriterAt, WriterType
<1> QED
  BY <1>3, <1>4, <1>5, <1>6, <1>7, <1>8, <1>9, <1>10, <1>11 DEF WriterStep

ReaderType ==
  [pc : {"idle"} \cup Reading, seen : Positions, pos : Positions,
   n : Nat, i : Nat, floor : Nat, heard : Int]

LEMMA ReaderStepType == ASSUME TypeOK, ReaderStep PROVE TypeOK'
<1>0. reader \in ReaderType
  BY DEF TypeOK, ReaderType
<1>1. disturbed' \in BOOLEAN
  BY DEF ReaderStep, Remember, TypeOK, Overlap
<1>2. Capacity \in Nat /\ 0 \in Positions
  BY PlayerAssumption DEF PlayerAssumption, Positions
<1>3. CASE PaCallback \/ ReadLoad
  BY <1>1, <1>3, <1>0
  DEF TypeOK, PaCallback, ReadLoad, ReaderAt, ReaderType, Reading
<1>4. CASE ReadSize
  <2> DEFINE n == Least(Period, AvailableRead(reader.seen, readPos))
  <2>1. AvailableRead(reader.seen, readPos) \in Nat
    <3>1. reader.seen \in Positions /\ readPos \in Positions
      BY <1>0 DEF TypeOK, ReaderType
    <3>2. AvailableRead(reader.seen, readPos) \in Positions
      BY <3>1, AvailableType
    <3> QED BY <3>2, <1>2 DEF Positions
  <2>2. n \in Nat
    BY <2>1, PlayerAssumption DEF PlayerAssumption, Least
  <2>3. reader' \in ReaderType
    <3> HIDE DEF n
    <3>1. reader' = [reader EXCEPT !.pc = IF n = 0 THEN "idle" ELSE "readPos",
                                   !.n = n]
      BY <1>4 DEF ReadSize, n
    <3> QED BY <1>0, <2>2, <3>1 DEF ReaderType, Reading
  <2> QED BY <1>1, <1>4, <2>3 DEF TypeOK, ReadSize, ReaderAt, ReaderType
<1>5. CASE ReadPosition
  BY <1>1, <1>5, <1>0 DEF TypeOK, ReadPosition, ReaderAt, ReaderType, Reading
<1>6. CASE ReadCell
  <2>1. reader.i + 1 \in Nat
    BY <1>0 DEF ReaderType
  <2>2. cells[Ahead(reader.pos, reader.i)] \in Int
    <3>1. PICK x \in Nat : x = reader.pos + reader.i
      BY <1>0, <1>2 DEF ReaderType, Positions
    <3>2. x % Capacity \in Positions
      BY PlayerAssumption DEF PlayerAssumption, Positions
    <3>3. Ahead(reader.pos, reader.i) \in Positions
      BY <3>1, <3>2, Zenon DEF Ahead
    <3> QED BY <3>3 DEF TypeOK
  <2>3. reader' \in ReaderType
    BY <1>6, <1>0, <2>1, <2>2 DEF ReadCell, ReaderType
  <2> QED BY <1>1, <1>6, <2>3 DEF TypeOK, ReadCell, ReaderAt, ReaderType
<1>7. CASE ReadStore
  <2>1. readPos' \in Positions
    <3>1. PICK x \in Nat : x = reader.pos + reader.n
      BY <1>0, <1>2 DEF ReaderType, Positions
    <3>2. x % Capacity \in Positions
      BY PlayerAssumption DEF PlayerAssumption, Positions
    <3> QED BY <1>7, <3>1, <3>2, Zenon DEF ReadStore, Ahead
  <2>2. taken + reader.n \in Nat
    BY <1>0 DEF TypeOK, ReaderType
  <2> QED BY <1>0, <1>1, <1>7, <2>1, <2>2 DEF TypeOK, ReadStore, ReaderAt, ReaderType
<1> QED BY <1>3, <1>4, <1>5, <1>6, <1>7 DEF ReaderStep

LEMMA FlusherStepType == ASSUME TypeOK, FlusherStep PROVE TypeOK'
<1>1. disturbed' \in BOOLEAN
  BY DEF FlusherStep, Remember, TypeOK, Overlap
<1>2. 0 \in Positions
  BY PlayerAssumption DEF PlayerAssumption, Positions
<1>3. PICK f \in Flushers : Flush(f) \/ ResetRead(f) \/ ResetWrite(f)
  BY DEF FlusherStep
<1>4. CASE Flush(f)
  <2>1. flushes + 1 \in Nat
    BY DEF TypeOK
  <2> QED BY <1>1, <1>4, <2>1 DEF TypeOK, Flush, FlusherAt, Resetting
<1>5. CASE ResetRead(f)
  BY <1>1, <1>2, <1>5 DEF TypeOK, ResetRead, FlusherAt, Resetting
<1>6. CASE ResetWrite(f)
  BY <1>1, <1>2, <1>6 DEF TypeOK, ResetWrite, FlusherAt, Resetting
<1> QED BY <1>3, <1>4, <1>5, <1>6

LEMMA OtherStepType == ASSUME TypeOK, OtherStep PROVE TypeOK'
<1>1. disturbed' \in BOOLEAN
  BY DEF OtherStep, Remember, TypeOK, Overlap
<1>2. CASE \E size \in PayloadSizes : OnInput(size)
  <2>1. PICK size \in PayloadSizes : OnInput(size)
    BY <1>2
  <2>2. size \in Nat /\ sent + size \in Nat
    BY PlayerAssumption DEF PlayerAssumption, TypeOK
  <2> QED BY <1>1, <2>1, <2>2 DEF TypeOK, OnInput, WriterAt, ring
<1>3. CASE StopStream \/ Stop
  BY <1>1, <1>3 DEF TypeOK, StopStream, Stop, ring, history
<1> QED BY <1>2, <1>3 DEF OtherStep

(* Whatever the threads do, the positions stay inside the ring.            *)
THEOREM TypeCorrect == Spec => []TypeOK
<1>1. Init => TypeOK
  <2>1. 0 \in Positions
    BY PlayerAssumption DEF PlayerAssumption, Positions
  <2>2. -1 \in Int /\ [p \in Positions |-> -1] \in [Positions -> Int]
    OBVIOUS
  <2> SUFFICES ASSUME Init PROVE TypeOK
    OBVIOUS
  <2>3. writer \in WriterType /\ reader \in ReaderType
    BY <2>1, <2>2 DEF Init, WriterType, ReaderType
  <2>4. flusher \in [Flushers -> [pc : {"idle"} \cup Resetting, mark : Nat]]
    BY DEF Init
  <2> QED BY <2>1, <2>2, <2>3, <2>4 DEF Init, TypeOK, WriterType, ReaderType
<1>2. TypeOK /\ [Next]_vars => TypeOK'
  <2>1. TypeOK /\ UNCHANGED vars => TypeOK'
    BY DEF TypeOK, vars, ring, history
  <2> QED
    BY <2>1, WriterStepType, ReaderStepType, FlusherStepType, OtherStepType DEF Next
<1> QED BY <1>1, <1>2, PTL DEF Spec

-----------------------------------------------------------------------------
(* The inductive invariant, as long as no reset overlapped a Write or Read *)

Held == put - taken
Calm == \A f \in Flushers : flusher[f].pc \notin Resetting

(* A reset has the buffer to itself, and has gone half way once the read   *)
(* position is 0; what it discards has been accepted before.               *)
FlushInv ==
  /\ Held \in Positions
  /\ floor <= taken
  /\ \A f \in Flushers : flusher[f].mark <= put
  /\ \A f \in Flushers : flusher[f].pc = "resetWrite" => readPos = 0
  /\ ~Overlap

(* The write position is as far ahead as there are samples, which are in   *)
(* the cells between the two positions.                                    *)
RingInv ==
  Calm =>
    /\ writePos = Ahead(readPos, Held)
    /\ \A k \in Positions : k < Held => cells[Ahead(readPos, k)] = taken + k

(* What the writer takes to be free is free, and it fills it up in order.  *)
WriteInv ==
  /\ writer.pc = "writeSize" => writer.seen = writePos
  /\ writer.pc \in {"writePos", "writeCopy"} =>
       writer.n \in 1 .. Capacity - 1 - Held
  /\ writer.pc = "writeCopy" =>
       /\ writer.pos = writePos /\ writer.i \in 0 .. writer.n
       /\ \A k \in Positions :
            k < writer.i => cells[Ahead(writePos, k)] = put + k

(* What the reader takes to be there is there.                             *)
ReadInv ==
  /\ reader.pc = "readSize" => AvailableRead(reader.seen, readPos) <= Held
  /\ reader.pc \in {"readPos", "readCopy"} => reader.n \in 1 .. Held
  /\ reader.pc = "readCopy" =>
       /\ reader.pos = readPos /\ reader.i \in 0 .. reader.n
       /\ reader.i > 0 => reader.heard = taken + reader.i - 1
  /\ reader.pc \in Reading => reader.floor <= taken

IInv == FlushInv /\ RingInv /\ WriteInv /\ ReadInv
UndisturbedInv == ~disturbed => IInv

LEMMA Undisturbed ==
  ASSUME TypeOK, TypeOK', UndisturbedInv, Remember, ~disturbed'
  PROVE  IInv /\ ~Overlap'
BY DEF UndisturbedInv, Remember, TypeOK

(* Inside the buffer, nobody resets it.                                    *)
LEMMA CalmInside ==
  ASSUME IInv, writer.pc \in Writing \/ reader.pc \in Reading
  PROVE  Calm
BY DEF IInv, FlushInv, Overlap, Calm

LEMMA Numbers ==
  ASSUME TypeOK
  PROVE  /\ Capacity \in Nat /\ Capacity > 0 /\ Positions = 0 .. Capacity - 1
         /\ put \in Nat /\ taken \in Nat /\ floor \in Nat
         /\ readPos \in Positions /\ writePos \in Positions
         /\ writer \in WriterType /\ reader \in ReaderType
BY PlayerAssumption
DEF PlayerAssumption, Positions, TypeOK, WriterType, ReaderType

(* A step outside the buffer.                                              *)
LEMMA WriterOutside ==
  ASSUME TypeOK, IInv, ~Overlap', writer'.pc \notin Writing,
         UNCHANGED <<ring, put, taken, floor, reader, flusher>>
  PROVE  IInv'
<1>1. FlushInv'
  BY DEF IInv, FlushInv, Held, ring
<1>2. RingInv'
  BY DEF IInv, RingInv, Calm, Held, ring
<1>3. WriteInv'
  BY DEF WriteInv, Writing
<1>4. ReadInv'
  BY DEF IInv, ReadInv, Held, ring, AvailableRead
<1> QED BY <1>1, <1>2, <1>3, <1>4 DEF IInv

(* A step of the writer inside the buffer that changes nothing shared.     *)
LEMMA WriterInside ==
  ASSUME TypeOK, IInv, ~Overlap', WriteInv',
         UNCHANGED <<ring, put, taken, floor, reader, flusher>>
  PROVE  IInv'
<1>1. FlushInv'
  BY DEF IInv, FlushInv, Held, ring
<1>2. RingInv'
  BY DEF IInv, RingInv, Calm, Held, ring
<1>4. ReadInv'
  BY DEF IInv, ReadInv, Held, ring, AvailableRead
<1> QED BY <1>1, <1>2, <1>4 DEF IInv

LEMMA ReturnedPc == Returned(writer).pc \notin Writing
<1>1. CASE writer \in WriterType
  BY <1>1 DEF Returned, WriterType, Writing
<1> QED BY <1>1 DEF Returned, Writing

LEMMA WriteSizeKeeps ==
  ASSUME TypeOK, TypeOK', IInv, ~Overlap', WriteSize PROVE IInv'
<1> DEFINE n == Least(Chunk, AvailableWrite(writer.seen, readPos))
<1>0. UNCHANGED <<ring, put, taken, floor, reader, flusher>>
  BY DEF WriteSize, WriterAt
<1>1. writer' = IF n = 0 THEN Returned(writer)
                ELSE [writer EXCEPT !.pc = "writePos", !.n = n]
  BY DEF WriteSize
<1>2. CASE n = 0
  <2>1. writer'.pc \notin Writing
    BY <1>1, <1>2, ReturnedPc, Numbers
  <2> QED BY <1>0, <2>1, WriterOutside
<1>3. CASE n # 0
  <2>1. writer.pc = "writeSize" /\ Calm
    BY CalmInside DEF WriteSize, WriterAt, Writing
  <2>2. writer.seen = writePos /\ writePos = Ahead(readPos, Held)
        /\ Held \in Positions
    BY <2>1 DEF IInv, WriteInv, RingInv, FlushInv
  <2>3. AvailableRead(writer.seen, readPos) = Held
    BY <2>2, Numbers, Distance
  <2>4. AvailableWrite(writer.seen, readPos) = Capacity - 1 - Held
    BY <2>3 DEF AvailableWrite
  <2>5. n \in Nat
    <3>1. Chunk \in Nat
      BY Numbers, PlayerAssumption DEF PlayerAssumption, WriterType, Chunk, Least
    <3>2. Capacity - 1 - Held \in Nat
      BY <2>2, Numbers
    <3> QED BY <2>4, <3>1, <3>2 DEF Least
  <2>6. n <= Capacity - 1 - Held
    <3>1. Chunk \in Nat /\ Capacity - 1 - Held \in Nat
      BY <2>2, Numbers, PlayerAssumption
      DEF PlayerAssumption, WriterType, Chunk, Least
    <3> QED BY <2>4, <3>1 DEF Least
  <2> HIDE DEF n
  <2>7. n \in 1 .. Capacity - 1 - Held
    BY <1>3, <2>2, <2>5, <2>6, Numbers
  <2>8. writer'.pc = "writePos" /\ writer'.n = n
    BY <1>1, <1>3, Numbers DEF WriterType
  <2>9. Held' = Held
    BY <1>0 DEF Held
  <2>10. WriteInv'
    BY <2>7, <2>8, <2>9 DEF WriteInv
  <2> QED BY <1>0, <2>10, WriterInside
<1> QED BY <1>2, <1>3

LEMMA WriteCellKeeps ==
  ASSUME TypeOK, TypeOK', IInv, ~Overlap', WriteCell PROVE IInv'
<1>0. /\ writer.pc = "writeCopy" /\ writer.i < writer.n
      /\ cells' = [cells EXCEPT ![Ahead(writer.pos, writer.i)] = put + writer.i]
      /\ writer' = [writer EXCEPT !.i = @ + 1]
      /\ UNCHANGED <<readPos, writePos, put, taken, floor, reader, flusher>>
  BY DEF WriteCell, WriterAt
<1>1. Calm
  BY <1>0, CalmInside DEF Writing
<1>2. /\ writer.pos = writePos /\ writer.i \in 0 .. writer.n
      /\ writer.n \in 1 .. Capacity - 1 - Held
      /\ writePos = Ahead(readPos, Held) /\ Held \in Positions
  BY <1>0, <1>1 DEF IInv, WriteInv, RingInv, FlushInv
<1>3. PICK i \in Positions :
        i = writer.i /\ Held + i \in Positions /\ i \in Nat /\ Held \in Nat
  BY <1>0, <1>2, Numbers
<1>4. Ahead(writePos, i) = Ahead(readPos, Held + i)
  BY <1>2, <1>3, Numbers, Further
<1>5. Ahead(writePos, i) \in Positions
  <2>1. i <= Capacity
    BY <1>3, Numbers
  <2> QED BY <1>3, <2>1, Numbers, AheadType
<1>6. cells' = [cells EXCEPT ![Ahead(writePos, i)] = put + i]
  BY <1>0, <1>2, <1>3
<1>7. ASSUME NEW k \in Positions, k < Held
      PROVE  cells'[Ahead(readPos, k)] = cells[Ahead(readPos, k)]
  <2>1. k # Held + i
    BY <1>3, <1>7, Numbers
  <2>2. Ahead(readPos, k) # Ahead(readPos, Held + i)
    BY <1>3, <2>1, Numbers, Apart
  <2> QED BY <1>4, <1>6, <2>2 DEF TypeOK
<1>8. ASSUME NEW k \in Positions, k < i + 1
      PROVE  cells'[Ahead(writePos, k)] = put + k
  <2>1. CASE k = i
    BY <1>5, <1>6, <2>1 DEF TypeOK
  <2>2. CASE k # i
    <3>1. k < i
      BY <1>3, <1>8, <2>2, Numbers
    <3>2. cells[Ahead(writePos, k)] = put + k
      BY <1>0, <1>3, <3>1 DEF IInv, WriteInv
    <3>3. Ahead(writePos, k) # Ahead(writePos, i)
      BY <1>3, <2>2, Numbers, Apart
    <3> QED BY <1>6, <3>2, <3>3 DEF TypeOK
  <2> QED BY <2>1, <2>2
<1>9. writer'.pc = "writeCopy" /\ writer'.i = i + 1 /\ writer'.n = writer.n
      /\ writer'.pos = writePos
  BY <1>0, <1>2, <1>3, Numbers DEF WriterType
<1>10. UNCHANGED <<Held, Calm>>
  BY <1>0 DEF Held, Calm
<1>11. FlushInv'
  BY <1>0, <1>10 DEF IInv, FlushInv
<1>12. RingInv'
  BY <1>0, <1>7, <1>10 DEF IInv, RingInv
<1>13. WriteInv'
  <2>1. i + 1 \in 0 .. writer.n
    BY <1>0, <1>2, <1>3, Numbers DEF WriterType
  <2> QED BY <1>0, <1>2, <1>8, <1>9, <1>10, <2>1 DEF WriteInv
<1>14. ReadInv'
  BY <1>0, <1>10 DEF IInv, ReadInv, AvailableRead
<1> QED BY <1>11, <1>12, <1>13, <1>14 DEF IInv

LEMMA WriteStoreKeeps ==
  ASSUME TypeOK, TypeOK', IInv, ~Overlap', WriteStore PROVE IInv'
<1>0. /\ writer.pc = "writeCopy" /\ writer.i = writer.n
      /\ writePos' = Ahead(writer.pos, writer.n)
      /\ put' = put + writer.n
      /\ writer' = Returned(writer)
      /\ UNCHANGED <<cells, readPos, taken, floor, reader, flusher>>
  BY DEF WriteStore, WriterAt
<1>1. Calm
  BY <1>0, CalmInside DEF Writing
<1>2. PICK n \in Nat :
        /\ n = writer.n /\ n \in 1 .. Capacity - 1 - Held
        /\ writer.pos = writePos
  BY <1>0, Numbers DEF IInv, WriteInv, WriterType
<1>3. writePos = Ahead(readPos, Held) /\ Held \in Positions /\ Held \in Nat
  BY <1>1, Numbers DEF IInv, RingInv, FlushInv
<1>4. Held' = Held + n /\ Held + n \in Positions
  <2>1. put' - taken' = (put - taken) + n
    BY <1>0, <1>2, Numbers
  <2>2. Held + n \in Positions
    BY <1>2, <1>3, Numbers
  <2> QED BY <2>1, <2>2 DEF Held
<1>5. writePos' = Ahead(readPos, Held + n)
  BY <1>0, <1>2, <1>3, <1>4, Numbers, Further
<1>6. ASSUME NEW k \in Positions, k < Held + n
      PROVE  cells[Ahead(readPos, k)] = taken + k
  <2>1. CASE k < Held
    BY <1>1, <2>1 DEF IInv, RingInv
  <2>2. CASE ~(k < Held)
    <3>1. PICK j \in Positions : j = k - Held /\ j < n /\ k = Held + j /\ j \in Nat
      BY <1>2, <1>3, <1>6, <2>2, Numbers
    <3>2. cells[Ahead(writePos, j)] = put + j
      BY <1>0, <1>2, <3>1 DEF IInv, WriteInv
    <3>3. Ahead(writePos, j) = Ahead(readPos, Held + j)
      BY <1>3, <3>1, Numbers, Further
    <3>4. put + j = taken + k
      BY <3>1, Numbers DEF Held
    <3> QED BY <3>1, <3>2, <3>3, <3>4
  <2> QED BY <2>1, <2>2
<1>7. UNCHANGED Calm
  BY <1>0 DEF Calm
<1>8. FlushInv'
  <2>1. ASSUME NEW f \in Flushers PROVE flusher[f].mark <= put'
    <3>1. flusher[f].mark \in Nat /\ flusher[f].mark <= put
      BY DEF TypeOK, IInv, FlushInv
    <3>2. put' = put + n
      BY <1>0, <1>2
    <3> QED BY <3>1, <3>2, Numbers
  <2> QED BY <1>0, <1>4, <2>1 DEF IInv, FlushInv
<1>9. RingInv'
  BY <1>0, <1>4, <1>5, <1>6 DEF RingInv
<1>10. WriteInv'
  BY <1>0, ReturnedPc DEF WriteInv, Writing
<1>11. ReadInv'
  <2>1. Held <= Held'
    BY <1>2, <1>3, <1>4
  <2>2. reader.pc = "readSize" => AvailableRead(reader.seen, readPos)' <= Held'
    <3>1. AvailableRead(reader.seen, readPos)' = AvailableRead(reader.seen, readPos)
      BY <1>0 DEF AvailableRead
    <3>2. AvailableRead(reader.seen, readPos) \in Nat
      <4>1. AvailableRead(reader.seen, readPos) \in Positions
        BY Numbers, AvailableType DEF ReaderType
      <4> QED BY <4>1, Numbers
    <3> QED BY <1>3, <1>4, <2>1, <3>1, <3>2, Numbers DEF IInv, ReadInv
  <2>3. reader.pc \in {"readPos", "readCopy"} => reader.n \in 1 .. Held'
    BY <1>3, <1>4, <2>1, Numbers DEF IInv, ReadInv, ReaderType
  <2> QED BY <1>0, <2>2, <2>3 DEF IInv, ReadInv
<1> QED BY <1>8, <1>9, <1>10, <1>11 DEF IInv

LEMMA WriterStepKeeps ==
  ASSUME TypeOK, TypeOK', IInv, ~Overlap', WriterStep PROVE IInv'
<1>1. CASE BeginWrite \/ Sleep \/ StopWaiting \/ DiscardChunk
  <2>1. writer'.pc \notin Writing
    BY <1>1, Numbers, ReturnedPc
    DEF BeginWrite, Sleep, StopWaiting, DiscardChunk, WriterAt, WriterType, Writing
  <2>2. UNCHANGED <<ring, put, taken, floor, reader, flusher>>
    BY <1>1 DEF BeginWrite, Sleep, StopWaiting, DiscardChunk, WriterAt
  <2> QED BY <2>1, <2>2, WriterOutside
<1>2. CASE EnterBuffer \/ WriteLoad
  <2>1. WriteInv'
    BY <1>2, Numbers
    DEF EnterBuffer, WriteLoad, WriterAt, WriterType, WriteInv, ring
  <2>2. UNCHANGED <<ring, put, taken, floor, reader, flusher>>
    BY <1>2 DEF EnterBuffer, WriteLoad, WriterAt
  <2> QED BY <2>1, <2>2, WriterInside
<1>3. CASE WritePosition
  <2>1. UNCHANGED <<ring, put, taken, floor, reader, flusher>>
    BY <1>3 DEF WritePosition, WriterAt
  <2>2. /\ writer'.pc = "writeCopy" /\ writer'.pos = writePos /\ writer'.i = 0
        /\ writer'.n = writer.n /\ writer.pc = "writePos"
    BY <1>3, Numbers DEF WritePosition, WriterAt, WriterType
  <2>3. writer.n \in 1 .. Capacity - 1 - Held /\ Held' = Held
    BY <2>1, <2>2 DEF IInv, WriteInv, Held
  <2>4. 0 \in 0 .. writer.n /\ ~\E k \in Positions : k < 0
    BY Numbers DEF WriterType
  <2>5. WriteInv'
    BY <2>1, <2>2, <2>3, <2>4 DEF WriteInv, ring
  <2> QED BY <2>1, <2>5, WriterInside
<1> QED
  BY <1>1, <1>2, <1>3, WriteSizeKeeps, WriteCellKeeps, WriteStoreKeeps
  DEF WriterStep

(* A step of the reader that ends up outside the buffer, or that changes   *)
(* nothing but its own progress.                                           *)
LEMMA ReaderAlone ==
  ASSUME TypeOK, IInv, ~Overlap', ReadInv',
         UNCHANGED <<ring, put, taken, floor, writer, flusher>>
  PROVE  IInv'
<1>1. FlushInv'
  BY DEF IInv, FlushInv, Held, ring
<1>2. RingInv'
  BY DEF IInv, RingInv, Calm, Held, ring
<1>3. WriteInv'
  BY DEF IInv, WriteInv, Held, ring
<1> QED BY <1>1, <1>2, <1>3 DEF IInv

LEMMA ReadSizeKeeps ==
  ASSUME TypeOK, TypeOK', IInv, ~Overlap', ReadSize PROVE IInv'
<1> DEFINE n == Least(Period, AvailableRead(reader.seen, readPos))
<1>0. UNCHANGED <<ring, put, taken, floor, writer, flusher>>
  BY DEF ReadSize, ReaderAt, ring
<1>1. AvailableRead(reader.seen, readPos) \in Nat
  <2>1. AvailableRead(reader.seen, readPos) \in Positions
    BY Numbers, AvailableType DEF ReaderType
  <2> QED BY <2>1, Numbers
<1>2. AvailableRead(reader.seen, readPos) <= Held /\ reader.floor <= taken
      /\ Held \in Positions
  BY DEF ReadSize, ReaderAt, Reading, IInv, ReadInv, FlushInv
<1>3. n \in Nat /\ n <= Held
  BY <1>1, <1>2, Numbers, PlayerAssumption DEF PlayerAssumption, Least
<1>4. reader' = [reader EXCEPT !.pc = IF n = 0 THEN "idle" ELSE "readPos", !.n = n]
  BY DEF ReadSize
<1> HIDE DEF n
<1>5. /\ reader'.pc = IF n = 0 THEN "idle" ELSE "readPos"
      /\ reader'.n = n /\ reader'.floor = reader.floor
  BY <1>4, Numbers DEF ReaderType
<1>6. n # 0 => n \in 1 .. Held
  BY <1>2, <1>3, Numbers
<1>7. UNCHANGED <<Held, taken>>
  BY <1>0 DEF Held
<1>8. ReadInv'
  BY <1>2, <1>5, <1>6, <1>7 DEF ReadInv, Reading
<1> QED BY <1>0, <1>8, ReaderAlone

LEMMA ReadCellKeeps ==
  ASSUME TypeOK, TypeOK', IInv, ~Overlap', ReadCell PROVE IInv'
<1>0. /\ reader.pc = "readCopy" /\ reader.i < reader.n
      /\ reader' = [reader EXCEPT !.i = @ + 1,
                       !.heard = cells[Ahead(reader.pos, reader.i)]]
      /\ UNCHANGED <<ring, put, taken, floor, writer, flusher>>
  BY DEF ReadCell, ReaderAt, ring
<1>1. Calm
  BY <1>0, CalmInside DEF Reading
<1>2. /\ reader.pos = readPos /\ reader.i \in 0 .. reader.n
      /\ reader.n \in 1 .. Held /\ Held \in Positions /\ reader.floor <= taken
  BY <1>0 DEF IInv, ReadInv, FlushInv, Reading
<1>3. reader.i \in Positions /\ reader.i < Held /\ reader.i + 1 \in 0 .. reader.n
      /\ reader.i \in Nat
  BY <1>0, <1>2, Numbers DEF ReaderType
<1>4. cells[Ahead(reader.pos, reader.i)] = taken + reader.i
  BY <1>1, <1>2, <1>3 DEF IInv, RingInv
<1>5. /\ reader'.pc = "readCopy" /\ reader'.i = reader.i + 1
      /\ reader'.heard = taken + reader.i
      /\ reader'.pos = reader.pos /\ reader'.n = reader.n
      /\ reader'.floor = reader.floor
  BY <1>0, <1>4, Numbers DEF ReaderType
<1>6. taken + reader.i = taken + reader'.i - 1
  BY <1>3, <1>5, Numbers
<1>7. UNCHANGED <<Held, taken, readPos>>
  BY <1>0 DEF Held, ring
<1>8. ReadInv'
  BY <1>2, <1>3, <1>5, <1>6, <1>7 DEF ReadInv
<1> QED BY <1>0, <1>8, ReaderAlone

LEMMA ReadStoreKeeps ==
  ASSUME TypeOK, TypeOK', IInv, ~Overlap', ReadStore PROVE IInv'
<1>0. /\ reader.pc = "readCopy" /\ reader.i = reader.n /\ reader'.pc = "idle"
      /\ readPos' = Ahead(reader.pos, reader.n)
      /\ taken' = taken + reader.n
      /\ UNCHANGED <<cells, writePos, put, floor, writer, flusher>>
  BY Numbers DEF ReadStore, ReaderAt, ReaderType
<1>1. Calm
  BY <1>0, CalmInside DEF Reading
<1>2. PICK n \in Nat : n = reader.n /\ n \in 1 .. Held /\ reader.pos = readPos
  BY <1>0, Numbers DEF IInv, ReadInv, ReaderType
<1>3. writePos = Ahead(readPos, Held) /\ Held \in Positions /\ Held \in Nat
  BY <1>1, Numbers DEF IInv, RingInv, FlushInv
<1>4. PICK d \in Nat : d = Held - n /\ d \in Positions /\ n + d = Held /\ d <= Held
  BY <1>2, <1>3, Numbers
<1>5. Held' = d
  <2>1. put' - taken' = (put - taken) - n
    BY <1>0, <1>2, Numbers
  <2> QED BY <1>4, <2>1 DEF Held
<1>6. readPos' = Ahead(readPos, n) /\ n + d < Capacity
  BY <1>0, <1>2, <1>3, <1>4, Numbers
<1>7. writePos = Ahead(readPos', d)
  <2>1. Ahead(Ahead(readPos, n), d) = Ahead(readPos, n + d)
    BY <1>6, Numbers, Further
  <2> QED BY <1>3, <1>4, <1>6, <2>1
<1>8. ASSUME NEW k \in Positions, k < d
      PROVE  cells[Ahead(readPos', k)] = taken' + k
  <2>1. k \in Nat /\ n + k < Capacity /\ n + k \in Positions /\ n + k < Held
    <3>1. k \in Nat /\ Held < Capacity /\ Capacity \in Nat
      BY <1>3, Numbers
    <3>2. n + k < n + d
      BY <1>8, <3>1
    <3> QED BY <1>3, <1>4, <3>1, <3>2, Numbers
  <2>2. Ahead(readPos', k) = Ahead(readPos, n + k)
    BY <1>6, <2>1, Numbers, Further
  <2>3. cells[Ahead(readPos, n + k)] = taken + (n + k)
    BY <1>1, <2>1 DEF IInv, RingInv
  <2>4. taken + (n + k) = taken' + k
    BY <1>0, <1>2, <2>1, Numbers
  <2> QED BY <2>2, <2>3, <2>4
<1>9. FlushInv'
  <2>1. floor <= taken'
    BY <1>0, <1>2, Numbers DEF IInv, FlushInv
  <2>2. \A f \in Flushers : flusher[f].pc # "resetWrite"
    BY <1>1 DEF Calm, Resetting
  <2> QED BY <1>0, <1>4, <1>5, <2>1, <2>2 DEF IInv, FlushInv
<1>10. RingInv'
  BY <1>0, <1>5, <1>7, <1>8 DEF RingInv
<1>11. WriteInv'
  <2>1. writer.pc \in {"writePos", "writeCopy"} =>
          writer.n \in 1 .. Capacity - 1 - Held'
    BY <1>3, <1>4, <1>5, Numbers DEF IInv, WriteInv, WriterType
  <2> QED BY <1>0, <2>1 DEF IInv, WriteInv
<1>12. ReadInv'
  BY <1>0 DEF ReadInv, Reading
<1> QED BY <1>9, <1>10, <1>11, <1>12 DEF IInv

LEMMA ReaderStepKeeps ==
  ASSUME TypeOK, TypeOK', IInv, ~Overlap', ReaderStep PROVE IInv'
<1>1. CASE PaCallback
  <2>1. UNCHANGED <<ring, put, taken, floor, writer, flusher>>
    BY <1>1 DEF PaCallback, ReaderAt, ring
  <2>2. reader'.pc = "readLoad" /\ reader'.floor = floor
    BY <1>1, Numbers DEF PaCallback, ReaderType
  <2>3. ReadInv'
    BY <2>1, <2>2 DEF ReadInv, IInv, FlushInv
  <2> QED BY <2>1, <2>3, ReaderAlone
<1>2. CASE ReadLoad
  <2>1. UNCHANGED <<ring, put, taken, floor, writer, flusher>>
    BY <1>2 DEF ReadLoad, ReaderAt, ring
  <2>2. /\ reader.pc = "readLoad" /\ reader'.pc = "readSize"
        /\ reader'.seen = writePos /\ reader'.floor = reader.floor
    BY <1>2, Numbers DEF ReadLoad, ReaderAt, ReaderType
  <2>3. writePos = Ahead(readPos, Held) /\ Held \in Positions
    BY <2>2, CalmInside DEF Reading, IInv, RingInv, FlushInv
  <2>4. AvailableRead(writePos, readPos) = Held
    BY <2>3, Numbers, Distance
  <2>5. AvailableRead(reader.seen, readPos)' = Held' /\ Held' \in Nat
    <3>1. Held' = Held /\ Held \in Nat
      BY <2>1, <2>3, Numbers DEF Held
    <3>2. AvailableRead(reader.seen, readPos)' = AvailableRead(writePos, readPos)
      BY <2>1, <2>2 DEF AvailableRead, ring
    <3> QED BY <2>4, <3>1, <3>2
  <2>6. ReadInv'
    BY <2>1, <2>2, <2>5 DEF ReadInv, IInv, Reading
  <2> QED BY <2>1, <2>6, ReaderAlone
<1>3. CASE ReadPosition
  <2>1. UNCHANGED <<ring, put, taken, floor, writer, flusher>>
    BY <1>3 DEF ReadPosition, ReaderAt, ring
  <2>2. /\ reader.pc = "readPos" /\ reader'.pc = "readCopy"
        /\ reader'.pos = readPos /\ reader'.i = 0 /\ reader'.n = reader.n
        /\ reader'.floor = reader.floor
    BY <1>3, Numbers DEF ReadPosition, ReaderAt, ReaderType
  <2>3. 0 \in 0 .. reader.n /\ ~(0 > 0) /\ Held' = Held
    BY <2>1, Numbers DEF ReaderType, Held
  <2>4. ReadInv'
    BY <2>1, <2>2, <2>3 DEF ReadInv, IInv, Reading, ring
  <2> QED BY <2>1, <2>4, ReaderAlone
<1> QED
  BY <1>1, <1>2, <1>3, ReadSizeKeeps, ReadCellKeeps, ReadStoreKeeps
  DEF ReaderStep

(* While a reset is under way, what only matters inside the buffer holds.  *)
LEMMA ResettingKeeps ==
  ASSUME FlushInv', \E f \in Flushers : flusher'[f].pc \in Resetting
  PROVE  IInv'
<1>1. writer'.pc \notin Writing /\ reader'.pc \notin Reading
  BY DEF FlushInv, Overlap
<1>2. ~Calm'
  BY DEF Calm
<1> QED BY <1>1, <1>2 DEF IInv, RingInv, WriteInv, ReadInv, Writing, Reading

LEMMA FlusherStepKeeps ==
  ASSUME TypeOK, TypeOK', IInv, ~Overlap', FlusherStep PROVE IInv'
<1>0. PICK f \in Flushers : Flush(f) \/ ResetRead(f) \/ ResetWrite(f)
  BY DEF FlusherStep
<1>1. CASE Flush(f)
  <2>1. /\ flusher' = [flusher EXCEPT ![f] = [pc |-> "resetRead", mark |-> put]]
        /\ UNCHANGED <<ring, put, taken, floor>>
    BY <1>1 DEF Flush, FlusherAt, ring
  <2>2. FlushInv'
    <3>1. ASSUME NEW g \in Flushers
          PROVE  /\ flusher'[g].mark <= put'
                 /\ flusher'[g].pc = "resetWrite" => readPos' = 0
      <4>1. CASE g = f
        BY <2>1, <4>1, Numbers DEF TypeOK
      <4>2. CASE g # f
        BY <2>1, <4>2 DEF TypeOK, ring, IInv, FlushInv
      <4> QED BY <4>1, <4>2
    <3> QED BY <2>1, <3>1 DEF IInv, FlushInv, Held
  <2>3. flusher'[f].pc \in Resetting
    BY <2>1 DEF TypeOK, Resetting
  <2> QED BY <2>2, <2>3, ResettingKeeps
<1>2. CASE ResetRead(f)
  <2>1. /\ flusher' = [flusher EXCEPT ![f].pc = "resetWrite"]
        /\ readPos' = 0
        /\ UNCHANGED <<put, taken, floor>>
    BY <1>2 DEF ResetRead, FlusherAt
  <2>2. \A g \in Flushers : flusher'[g].mark = flusher[g].mark
    BY <2>1 DEF TypeOK
  <2>3. FlushInv'
    BY <2>1, <2>2 DEF IInv, FlushInv, Held
  <2>4. flusher'[f].pc \in Resetting
    BY <2>1 DEF TypeOK, Resetting
  <2> QED BY <2>3, <2>4, ResettingKeeps
<1>3. CASE ResetWrite(f)
  <2>0. flusher[f].pc = "resetWrite"
    BY <1>3 DEF ResetWrite, FlusherAt
  <2>1. /\ flusher' = [flusher EXCEPT ![f].pc = "idle"]
        /\ writePos' = 0 /\ taken' = put
        /\ floor' = IF floor < flusher[f].mark THEN flusher[f].mark ELSE floor
        /\ UNCHANGED <<cells, readPos, put, writer, reader>>
    BY <1>3 DEF ResetWrite, FlusherAt
  <2>2. readPos = 0 /\ 0 \in Positions /\ 0 \in Nat
    BY <2>0, Numbers DEF IInv, FlushInv
  <2>3. Held' = 0
    BY <2>1, Numbers DEF Held
  <2>4. floor' <= taken'
    <3>1. floor <= put
      BY Numbers DEF IInv, FlushInv, Held
    <3>2. flusher[f].mark <= put
      BY DEF IInv, FlushInv
    <3> QED BY <2>1, <3>1, <3>2
  <2>5. \A g \in Flushers : flusher'[g].mark = flusher[g].mark
                            /\ flusher'[g].pc = "resetWrite" => readPos' = 0
    BY <2>1, <2>2 DEF TypeOK
  <2>6. FlushInv'
    BY <2>1, <2>2, <2>3, <2>4, <2>5 DEF IInv, FlushInv
  <2>7. RingInv'
    <3>1. Ahead(0, 0) = 0
      BY AheadIs, PlayerAssumption DEF PlayerAssumption, Positions
    <3>2. ~\E k \in Positions : k < 0
      BY Numbers
    <3> QED BY <2>1, <2>2, <2>3, <3>1, <3>2 DEF RingInv
  <2>8. writer.pc \notin Writing /\ reader.pc \notin Reading
    BY <2>0 DEF IInv, FlushInv, Overlap, Resetting
  <2>9. WriteInv' /\ ReadInv'
    BY <2>1, <2>8 DEF WriteInv, ReadInv, Writing, Reading
  <2> QED BY <2>6, <2>7, <2>9 DEF IInv
<1> QED BY <1>0, <1>1, <1>2, <1>3

LEMMA OtherStepKeeps ==
  ASSUME TypeOK, TypeOK', IInv, ~Overlap', OtherStep PROVE IInv'
<1>1. CASE \E size \in PayloadSizes : OnInput(size)
  <2>1. PICK size \in PayloadSizes : OnInput(size)
    BY <1>1
  <2>2. writer'.pc \notin Writing
    BY <2>1, Numbers DEF OnInput, WriterType, Writing
  <2>3. UNCHANGED <<ring, put, taken, floor, reader, flusher>>
    BY <2>1 DEF OnInput, WriterAt
  <2> QED BY <2>2, <2>3, WriterOutside
<1>2. CASE StopStream \/ Stop
  <2>1. UNCHANGED <<ring, put, taken, floor, writer, reader, flusher>>
    BY <1>2 DEF StopStream, Stop, history
  <2>2. ReadInv'
    BY <2>1 DEF IInv, ReadInv, Held, AvailableRead, ring
  <2> QED BY <2>1, <2>2, ReaderAlone
<1> QED BY <1>1, <1>2 DEF OtherStep

LEMMA InvStep ==
  TypeOK /\ TypeOK' /\ UndisturbedInv /\ [Next]_vars => UndisturbedInv'
<1> SUFFICES ASSUME TypeOK, TypeOK', UndisturbedInv, [Next]_vars
             PROVE  UndisturbedInv'
  OBVIOUS
<1>1. CASE UNCHANGED vars
  <2>1. UNCHANGED <<ring, put, taken, floor, writer, reader, flusher, disturbed>>
    BY <1>1 DEF vars, history
  <2>2. ASSUME IInv PROVE IInv'
    <3>1. ReadInv'
      BY <2>1, <2>2 DEF IInv, ReadInv, Held, AvailableRead, ring
    <3>2. ~Overlap'
      BY <2>1, <2>2 DEF IInv, FlushInv, Overlap
    <3> QED BY <2>1, <2>2, <3>1, <3>2, ReaderAlone
  <2> QED BY <2>1, <2>2 DEF UndisturbedInv
<1>2. CASE Next
  <2>1. Remember
    BY <1>2 DEF Next, WriterStep, ReaderStep, FlusherStep, OtherStep
  <2>2. ASSUME ~disturbed' PROVE IInv'
    <3>1. IInv /\ ~Overlap'
      BY <2>1, <2>2, Undisturbed
    <3> QED
      BY <1>2, <3>1, WriterStepKeeps, ReaderStepKeeps, FlusherStepKeeps,
         OtherStepKeeps
      DEF Next
  <2> QED BY <2>2 DEF UndisturbedInv
<1> QED BY <1>1, <1>2

(* The inductive invariant: it holds as long as no reset has overlapped a  *)
(* Write or a Read, and relates the positions to the samples not yet read. *)
THEOREM Invariant == Spec => []UndisturbedInv
<1>1. Init => UndisturbedInv
  <2> SUFFICES ASSUME Init PROVE IInv
    BY DEF UndisturbedInv
  <2>1. 0 \in Positions /\ Ahead(0, 0) = 0 /\ ~\E k \in Positions : k < 0
    BY AheadIs, PlayerAssumption DEF PlayerAssumption, Positions
  <2>2. put = 0 /\ taken = 0 /\ Held = 0
    BY DEF Init, Held
  <2>3. FlushInv
    BY <2>1, <2>2 DEF Init, FlushInv, Overlap, Resetting
  <2>4. RingInv
    BY <2>1, <2>2 DEF Init, RingInv
  <2>5. WriteInv /\ ReadInv
    BY DEF Init, WriteInv, ReadInv, Reading
  <2> QED BY <2>3, <2>4, <2>5 DEF IInv
<1> QED BY <1>1, InvStep, TypeCorrect, PTL DEF Spec

-----------------------------------------------------------------------------
(* What follows from the invariant.                                        *)

(* As long as no reset overlapped a Write or a Read, the callback hears    *)
(* the samples the buffer accepted, each once and in order.                *)
THEOREM InOrder == Spec => []HeardInOrder
<1>1. TypeOK /\ UndisturbedInv => HeardInOrder
  <2> SUFFICES ASSUME TypeOK, IInv, reader.pc = "readCopy", reader.i > 0
               PROVE  reader.heard = taken + reader.i - 1 /\ reader.heard < put
    BY DEF HeardInOrder, UndisturbedInv
  <2>1. /\ reader.heard = taken + reader.i - 1
        /\ reader.i \in 0 .. reader.n /\ reader.n \in 1 .. Held
    BY DEF IInv, ReadInv
  <2> QED BY <2>1, Numbers DEF Held, ReaderType
<1> QED BY <1>1, TypeCorrect, Invariant, PTL

(* Nor are the samples raced for.                                          *)
THEOREM NotShared == Spec => []NoCellShared
<1>1. TypeOK /\ UndisturbedInv => NoCellShared
  <2> SUFFICES ASSUME TypeOK, IInv,
                      writer.pc = "writeCopy", reader.pc = "readCopy",
                      NEW a \in 0 .. writer.n - 1, NEW b \in 0 .. reader.n - 1
               PROVE  Ahead(writer.pos, a) # Ahead(reader.pos, b)
    BY DEF NoCellShared, UndisturbedInv, CellsOf
  <2>1. /\ writer.pos = writePos /\ writer.n \in 1 .. Capacity - 1 - Held
        /\ reader.pos = readPos /\ reader.n \in 1 .. Held
        /\ writePos = Ahead(readPos, Held) /\ Held \in Positions
    BY CalmInside DEF IInv, WriteInv, ReadInv, RingInv, FlushInv, Writing
  <2>2. /\ a \in Nat /\ Held \in Nat /\ Held + a < Capacity
        /\ Held + a \in Positions /\ b \in Positions /\ b # Held + a
    <3>1. /\ Capacity \in Nat /\ writer.n \in Nat /\ reader.n \in Nat
          /\ Positions = 0 .. Capacity - 1
      BY Numbers DEF WriterType, ReaderType
    <3>2. /\ a \in Nat /\ b \in Nat /\ Held \in Nat
          /\ a < writer.n /\ b < reader.n
          /\ writer.n <= Capacity - 1 - Held /\ reader.n <= Held
          /\ Held < Capacity
      BY <2>1, <3>1
    <3> QED BY <3>1, <3>2
  <2>3. Ahead(writePos, a) = Ahead(readPos, Held + a)
    BY <2>1, <2>2, Numbers, Further
  <2> QED BY <2>1, <2>2, <2>3, Numbers, Apart
<1> QED BY <1>1, TypeCorrect, Invariant, PTL

(* And a callback that starts after a flush hears nothing from before.     *)
THEOREM FlushedIsGone == Spec => []QuietFlushDiscards
<1>1. TypeOK /\ UndisturbedInv => QuietFlushDiscards
  <2> SUFFICES ASSUME TypeOK, IInv, reader.pc = "readCopy", reader.i > 0
               PROVE  reader.heard >= reader.floor
    BY DEF QuietFlushDiscards, FlushDiscards, UndisturbedInv
  <2>1. reader.heard = taken + reader.i - 1 /\ reader.floor <= taken
    BY DEF IInv, ReadInv, Reading
  <2> QED BY <2>1, Numbers DEF ReaderType
<1> QED BY <1>1, TypeCorrect, Invariant, PTL

-----------------------------------------------------------------------------
(* What the wait loop saw stays true until the buffer measures again.      *)

(* The chunk fits, into the whole ring and, unless a reset is under way,   *)
(* into what is free of it now.                                            *)
Room == Chunk <= Capacity - 1 /\ (Calm => Chunk <= Capacity - 1 - Held)

Entering == {"decide", "writeLoad", "writeSize"}

RoomInv ==
  /\ writer.pc = "wait" => writer.waited <= MaxWait
  /\ writer.pc \in Entering =>
       \/ writer.waited = MaxWait \/ ~playing \/ Room
       \/ writer.pc = "decide" /\ flushed
UndisturbedRoom == ~disturbed => RoomInv

LEMMA ChunkType == TypeOK => Chunk \in Nat
BY Numbers, PlayerAssumption DEF PlayerAssumption, WriterType, Chunk, Least

(* With nobody resetting, the free space is what the samples held leave.   *)
LEMMA FreeIs ==
  ASSUME TypeOK, IInv, Calm
  PROVE  AvailableWrite(writePos, readPos) = Capacity - 1 - Held
<1>1. writePos = Ahead(readPos, Held) /\ Held \in Positions
  BY DEF IInv, RingInv, FlushInv
<1>2. AvailableRead(writePos, readPos) = Held
  BY <1>1, Numbers, Distance
<1> QED BY <1>2 DEF AvailableWrite

LEMMA StopWaitingKeepsRoom ==
  ASSUME TypeOK, IInv, RoomInv, StopWaiting PROVE RoomInv'
<1>1. /\ writer.pc = "wait" /\ ~MustWait /\ writer.waited <= MaxWait
      /\ writer' = [writer EXCEPT !.pc = "decide"]
      /\ UNCHANGED <<ring, flushed, playing, flusher, put, taken>>
  BY DEF StopWaiting, WriterAt, RoomInv
<1>2. /\ writer'.pc = "decide" /\ writer'.waited = writer.waited
      /\ writer'.left = writer.left
  BY <1>1, Numbers DEF WriterType
<1>3. Chunk' = Chunk /\ Held' = Held /\ Calm' = Calm
  BY <1>1, <1>2 DEF Chunk, Held, Calm
<1>4. CASE writer.waited < MaxWait /\ playing /\ ~flushed
  <2>1. AvailableWrite(writePos, readPos) \in Positions
    BY Numbers, AvailableType
  <2>2. AvailableWrite(writePos, readPos) >= Chunk
    BY <1>1, <1>4, <2>1, ChunkType, Numbers DEF MustWait
  <2>3. Chunk <= Capacity - 1
    BY <2>1, <2>2, ChunkType, Numbers
  <2>4. Calm => Chunk <= Capacity - 1 - Held
    BY <2>2, FreeIs
  <2>5. Room'
    BY <1>3, <2>3, <2>4 DEF Room
  <2> QED BY <1>2, <2>5 DEF RoomInv
<1>5. CASE ~(writer.waited < MaxWait)
  <2>1. writer.waited = MaxWait
    BY <1>1, <1>5, Numbers, PlayerAssumption DEF PlayerAssumption, WriterType
  <2> QED BY <1>2, <2>1 DEF RoomInv
<1>6. CASE ~playing \/ flushed
  BY <1>1, <1>2, <1>6 DEF RoomInv
<1> QED BY <1>4, <1>5, <1>6

LEMMA WriterKeepsRoom ==
  ASSUME TypeOK, IInv, RoomInv, WriterStep PROVE RoomInv'
<1>1. CASE BeginWrite
  <2>1. writer'.pc = "wait" /\ writer'.waited = 0
    BY <1>1, Numbers DEF BeginWrite, WriterType
  <2> QED BY <2>1, PlayerAssumption DEF RoomInv, Entering, PlayerAssumption
<1>2. CASE Sleep
  <2>1. writer'.pc = "wait" /\ writer'.waited = Least(writer.waited + 1, MaxWait)
    BY <1>2, Numbers DEF Sleep, WriterAt, WriterType
  <2>2. writer'.waited <= MaxWait
    BY <2>1, Numbers, PlayerAssumption DEF Least, PlayerAssumption, WriterType
  <2> QED BY <2>1, <2>2 DEF RoomInv, Entering
<1>3. CASE StopWaiting
  BY <1>3, StopWaitingKeepsRoom
<1>4. CASE EnterBuffer \/ WriteLoad
  <2>1. /\ writer.pc \in {"decide", "writeLoad"} /\ (writer.pc = "decide" => ~flushed)
        /\ writer'.pc \in {"writeLoad", "writeSize"}
        /\ writer'.waited = writer.waited /\ writer'.left = writer.left
        /\ UNCHANGED <<ring, flushed, playing, flusher, put, taken>>
    BY <1>4, Numbers DEF EnterBuffer, WriteLoad, WriterAt, WriterType
  <2>2. Room' = Room
    BY <2>1 DEF Room, Chunk, Held, Calm
  <2> QED BY <2>1, <2>2 DEF RoomInv, Entering
<1>5. CASE DiscardChunk \/ WriteSize \/ WritePosition \/ WriteCell \/ WriteStore
  <2>1. Returned(writer).pc \in {"chunk", "idle"}
    BY Numbers DEF Returned, WriterType
  <2>2. writer'.pc \in {"chunk", "idle", "writePos", "writeCopy"}
    BY <1>5, <2>1, Numbers
    DEF DiscardChunk, WriteSize, WritePosition, WriteCell, WriteStore, WriterAt, WriterType
  <2> QED BY <2>2 DEF RoomInv, Entering
<1> QED BY <1>1, <1>2, <1>3, <1>4, <1>5 DEF WriterStep

(* Others only make room, or begin a reset; a reset that ends has made all *)
(* of the ring free.                                                       *)
LEMMA RoomStays ==
  ASSUME TypeOK, TypeOK', IInv, RoomInv,
         UNCHANGED writer, ~playing => ~playing',
         flushed => flushed', Room => Room'
  PROVE  RoomInv'
BY DEF RoomInv, Entering

LEMMA ReaderKeepsRoom ==
  ASSUME TypeOK, TypeOK', IInv, RoomInv, ReaderStep PROVE RoomInv'
<1>1. UNCHANGED <<writer, playing, flushed, flusher, put>>
  BY DEF ReaderStep, PaCallback, ReadLoad, ReadSize, ReadPosition, ReadCell, ReadStore,
         ReaderAt
<1>2. taken' >= taken
  <2>1. CASE ReadStore
    <3>1. taken' = taken + reader.n
      BY <2>1 DEF ReadStore
    <3>2. reader.n \in Nat /\ taken \in Nat
      BY Numbers DEF ReaderType
    <3> QED BY <3>1, <3>2
  <2>2. CASE UNCHANGED taken
    BY <2>2, Numbers
  <2> QED BY <2>1, <2>2 DEF ReaderStep, PaCallback, ReadLoad, ReadSize, ReadPosition, ReadCell
<1>3. Held' <= Held /\ Held \in Int /\ Held' \in Int
  <2>1. put \in Nat /\ taken \in Nat /\ taken' \in Nat /\ put' = put
    BY <1>1 DEF TypeOK
  <2>2. PICK h : h = put - taken'
    OBVIOUS
  <2>3. h <= put - taken /\ put - taken \in Int /\ h \in Int
    <3>1. PICK later : later = taken'
      OBVIOUS
    <3>2. later \in Nat /\ later >= taken /\ h = put - later
      BY <1>2, <2>1, <2>2, <3>1
    <3> QED BY <2>1, <3>2
  <2>4. Held' = h
    BY <2>1, <2>2 DEF Held
  <2> QED BY <2>3, <2>4 DEF Held
<1>4. Chunk' = Chunk /\ Calm' = Calm
  BY <1>1 DEF Chunk, Calm
<1>5. Room => Room'
  <2>1. Chunk \in Int /\ Capacity \in Int
    BY ChunkType, Numbers
  <2>2. Chunk <= Capacity - 1 - Held => Chunk <= Capacity - 1 - Held'
    <3> DEFINE h == Held
               k == Held'
               c == Chunk
    <3>1. h \in Int /\ k \in Int /\ c \in Int /\ k <= h
      BY <1>3, <2>1
    <3> HIDE DEF h, k, c
    <3>2. c <= Capacity - 1 - h => c <= Capacity - 1 - k
      BY <2>1, <3>1
    <3> QED BY <3>2 DEF h, k, c
  <2> QED BY <1>4, <2>2 DEF Room
<1> QED BY <1>1, <1>5, RoomStays

LEMMA FlusherKeepsRoom ==
  ASSUME TypeOK, TypeOK', IInv, RoomInv, FlusherStep PROVE RoomInv'
<1>0. PICK f \in Flushers : Flush(f) \/ ResetRead(f) \/ ResetWrite(f)
  BY DEF FlusherStep
<1>1. UNCHANGED <<writer, playing, put>> /\ (flushed => flushed')
  BY <1>0 DEF Flush, ResetRead, ResetWrite, FlusherAt
<1>2. Chunk' = Chunk
  BY <1>1 DEF Chunk
<1>3. CASE Flush(f) \/ ResetRead(f)
  <2>1. flusher'[f].pc \in Resetting
    BY <1>3 DEF Flush, ResetRead, FlusherAt, Resetting, TypeOK
  <2>2. ~Calm'
    BY <2>1 DEF Calm
  <2> QED BY <1>1, <1>2, <2>2, RoomStays DEF Room
<1>4. CASE ResetWrite(f)
  <2>1. taken' = put /\ put' = put
    BY <1>1, <1>4 DEF ResetWrite
  <2>2. Held' = 0
    BY <2>1, Numbers DEF Held
  <2>3. Room => Room'
    BY <1>2, <2>2, ChunkType, Numbers DEF Room
  <2> QED BY <1>1, <2>3, RoomStays
<1> QED BY <1>0, <1>3, <1>4

LEMMA OtherKeepsRoom ==
  ASSUME TypeOK, TypeOK', IInv, RoomInv, OtherStep \/ UNCHANGED vars PROVE RoomInv'
<1>1. CASE \E size \in PayloadSizes : OnInput(size)
  <2>1. writer'.pc = "chunk"
    BY <1>1, Numbers DEF OnInput, WriterType
  <2> QED BY <2>1 DEF RoomInv, Entering
<1>2. CASE StopStream \/ Stop \/ UNCHANGED vars
  <2>1. UNCHANGED <<writer, flushed, flusher, put, taken>> /\ (~playing => ~playing')
    BY <1>2 DEF StopStream, Stop, vars, ring, history
  <2>2. Room' = Room
    BY <2>1 DEF Room, Chunk, Held, Calm
  <2> QED BY <2>1, <2>2, RoomStays
<1> QED BY <1>1, <1>2 DEF OtherStep

LEMMA RoomStep ==
  TypeOK /\ TypeOK' /\ UndisturbedInv /\ UndisturbedRoom /\ [Next]_vars => UndisturbedRoom'
<1> SUFFICES ASSUME TypeOK, TypeOK', UndisturbedInv, UndisturbedRoom, [Next]_vars, ~disturbed'
             PROVE  RoomInv'
  BY DEF UndisturbedRoom
<1>1. ~disturbed
  <2>1. CASE UNCHANGED vars
    BY <2>1 DEF vars
  <2>2. CASE Next
    BY <2>2 DEF Next, WriterStep, ReaderStep, FlusherStep, OtherStep, Remember, TypeOK
  <2> QED BY <2>1, <2>2
<1>2. IInv /\ RoomInv
  BY <1>1 DEF UndisturbedInv, UndisturbedRoom
<1> QED BY <1>2, WriterKeepsRoom, ReaderKeepsRoom, FlusherKeepsRoom, OtherKeepsRoom DEF Next

(* A chunk loses samples only after the whole wait, or once playback has   *)
(* stopped: what the loop saw to be free is still free in the buffer.      *)
THEOREM NothingLostEarly == Spec => []DropsOnlyAfterWait
<1>1. Init => UndisturbedRoom
  BY DEF Init, UndisturbedRoom, RoomInv, Entering
<1>2. TypeOK /\ UndisturbedInv /\ UndisturbedRoom => DropsOnlyAfterWait
  <2> SUFFICES ASSUME TypeOK, UndisturbedInv, UndisturbedRoom, ~disturbed, playing,
                      writer.pc = "writeSize", writer.waited # MaxWait
               PROVE  ~(AvailableWrite(writer.seen, readPos) < Chunk)
    BY DEF DropsOnlyAfterWait
  <2>1. IInv /\ RoomInv /\ Calm
    BY CalmInside DEF UndisturbedInv, UndisturbedRoom, Writing
  <2>2. Room /\ writer.seen = writePos
    BY <2>1 DEF RoomInv, Entering, IInv, WriteInv
  <2>3. AvailableWrite(writer.seen, readPos) = Capacity - 1 - Held
    BY <2>1, <2>2, FreeIs
  <2>4. Chunk <= Capacity - 1 - Held /\ Held \in Positions
    BY <2>1, <2>2 DEF Room, IInv, FlushInv
  <2> QED BY <2>3, <2>4, ChunkType, Numbers
<1> QED BY <1>1, <1>2, RoomStep, TypeCorrect, Invariant, PTL DEF Spec

=============================================================================
