---------------------------- MODULE AudioPlayer ----------------------------
(***************************************************************************)
(* io/audio: the playout device, the player and its lock-free ring buffer. *)
(*                                                                         *)
(* Three kinds of threads: the writer, which brings payloads to the        *)
(* playout device and cuts them into chunks; the reader, the audio         *)
(* library's real-time callback; and flushers, the threads on which a      *)
(* cancel frame arrives.  Every load and store of a shared variable is a   *)
(* step, the samples are copied one by one.                                *)
(*                                                                         *)
(* A sample is its number in the order in which the buffer accepted them.  *)
(***************************************************************************)
EXTENDS Integers

CONSTANTS Capacity,      \* buffer_capacity_samples
          ChunkSize,     \* kMaxSamplesPerFrame
          PayloadSizes,  \* sizes of the payloads, in samples
          Period,        \* frames_per_buffer
          MaxWait,       \* kMaxWaitMs / kSleepMs
          Flushers,      \* threads that may call Flush()
          MaxSamples,    \* bound on the samples sent
          MaxFlushes     \* bound on the calls of Flush()

ASSUME PlayerAssumption ==
  /\ Capacity \in Nat \ {0} /\ ChunkSize \in Nat \ {0} /\ Period \in Nat \ {0}
  /\ PayloadSizes \subseteq Nat \ {0}
  /\ MaxWait \in Nat /\ MaxSamples \in Nat /\ MaxFlushes \in Nat

VARIABLES
  cells, readPos, writePos,  \* the ring: buffer_, read_pos_, write_pos_
  flushed,                   \* flushed_
  playing,                   \* playing_
  stream,                    \* the callback is called
  writer, reader,            \* progress of the writer and of the reader
  flusher,                   \* progress of each flusher
  sent, flushes,             \* inputs so far
  put, taken,                \* history: samples accepted, and done with
  disturbed,                 \* history: a reset met a Write or a Read
  floor                      \* history: samples a flush has discarded

ring == <<cells, readPos, writePos>>
history == <<put, taken, floor>>
vars == <<ring, flushed, playing, stream, writer, reader, flusher, sent,
          flushes, history, disturbed>>

Positions == 0 .. Capacity - 1
Least(a, b) == IF a <= b THEN a ELSE b

(* The steps of PaPlayer::Write and, inside it, of AudioBuffer::Write; and *)
(* those of AudioBuffer::Read.                                             *)
Writing == {"writeLoad", "writeSize", "writePos", "writeCopy"}
Reading == {"readLoad", "readSize", "readPos", "readCopy"}
Resetting == {"resetRead", "resetWrite"}

Init ==
  /\ cells = [p \in Positions |-> -1] /\ readPos = 0 /\ writePos = 0
  /\ flushed = FALSE /\ playing = TRUE /\ stream = TRUE
  /\ writer = [pc |-> "idle", left |-> 0, waited |-> 0, seen |-> 0,
               pos |-> 0, n |-> 0, i |-> 0]
  /\ reader = [pc |-> "idle", seen |-> 0, pos |-> 0, n |-> 0, i |-> 0,
               floor |-> 0, heard |-> -1]
  /\ flusher = [f \in Flushers |-> [pc |-> "idle", mark |-> 0]]
  /\ sent = 0 /\ flushes = 0
  /\ put = 0 /\ taken = 0 /\ disturbed = FALSE /\ floor = 0

(* A reset is under way while another thread is inside the buffer.         *)
Overlap ==
  /\ writer.pc \in Writing \/ reader.pc \in Reading
  /\ \E f \in Flushers : flusher[f].pc \in Resetting

(* Part of every step: the history remembers an overlap.                   *)
Remember == disturbed' = (disturbed \/ Overlap')

-----------------------------------------------------------------------------
(* The ring buffer's arithmetic.                                           *)

(* The position n samples ahead.                                           *)
Ahead(position, n) == (position + n) % Capacity

(* Mutant: a wrapped buffer is measured one short.                         *)
AvailableReadShort(wp, rp) ==
  IF wp >= rp THEN wp - rp ELSE Capacity - 1 - rp + wp

AvailableRead(wp, rp) == IF wp >= rp THEN wp - rp ELSE Capacity - rp + wp

(* Mutant: no slot is kept free, so that full looks like empty.            *)
AvailableWriteFull(wp, rp) == Capacity - AvailableRead(wp, rp)

AvailableWrite(wp, rp) == Capacity - 1 - AvailableRead(wp, rp)

-----------------------------------------------------------------------------
(* The writer.                                                             *)

Chunk == Least(writer.left, ChunkSize)

WriterAt(pc) ==
  /\ writer.pc = pc
  /\ UNCHANGED <<playing, stream, reader, flusher, flushes, taken, floor>>

(* OnInput: discard the payload when playout is stopped.                   *)
OnInput(size) ==
  /\ WriterAt("idle") /\ playing
  /\ sent + size <= MaxSamples
  /\ sent' = sent + size
  /\ writer' = [writer EXCEPT !.pc = "chunk", !.left = size]
  /\ UNCHANGED <<ring, flushed, put>>

(* Write: forget an earlier flush, then wait for space.                    *)
BeginWrite ==
  /\ WriterAt("chunk")
  /\ flushed' = FALSE
  /\ writer' = [writer EXCEPT !.pc = "wait", !.waited = 0, !.n = 0]
  /\ UNCHANGED <<ring, sent, put>>

(* Mutant: wait only while the buffer is full.                             *)
MustWaitFull ==
  /\ AvailableWrite(writePos, readPos) = 0
  /\ writer.waited < MaxWait /\ playing /\ ~flushed

(* Mutant: wait for as long as it takes.                                   *)
MustWaitForever ==
  /\ AvailableWrite(writePos, readPos) < Chunk
  /\ playing /\ ~flushed

(* The condition of the wait loop.  Its loads are one step: a torn reading *)
(* makes the writer sleep once more, or measure again in AudioBuffer.      *)
MustWait ==
  /\ AvailableWrite(writePos, readPos) < Chunk
  /\ writer.waited < MaxWait /\ playing /\ ~flushed

Sleep ==
  /\ WriterAt("wait") /\ MustWait
  /\ writer' = [writer EXCEPT !.waited = Least(@ + 1, MaxWait)]
  /\ UNCHANGED <<ring, flushed, sent, put>>

StopWaiting ==
  /\ WriterAt("wait") /\ ~MustWait
  /\ writer' = [writer EXCEPT !.pc = "decide"]
  /\ UNCHANGED <<ring, flushed, sent, put>>

(* The chunk is done with, whether it was written or not.                  *)
Returned(w) ==
  [w EXCEPT !.left = @ - Chunk,
            !.pc = IF writer.left > Chunk THEN "chunk" ELSE "idle"]

(* Flushed while waiting: discard the chunk.                               *)
DiscardChunk ==
  /\ WriterAt("decide") /\ flushed
  /\ writer' = Returned(writer)
  /\ UNCHANGED <<ring, flushed, sent, put>>

EnterBuffer ==
  /\ WriterAt("decide") /\ ~flushed
  /\ writer' = [writer EXCEPT !.pc = "writeLoad"]
  /\ UNCHANGED <<ring, flushed, sent, put>>

(* AudioBuffer::Write: load both positions, then the own one again.        *)
WriteLoad ==
  /\ WriterAt("writeLoad")
  /\ writer' = [writer EXCEPT !.pc = "writeSize", !.seen = writePos]
  /\ UNCHANGED <<ring, flushed, sent, put>>

WriteSize ==
  /\ WriterAt("writeSize")
  /\ LET n == Least(Chunk, AvailableWrite(writer.seen, readPos)) IN
     writer' = IF n = 0 THEN Returned(writer)
               ELSE [writer EXCEPT !.pc = "writePos", !.n = n]
  /\ UNCHANGED <<ring, flushed, sent, put>>

WritePosition ==
  /\ WriterAt("writePos")
  /\ writer' = [writer EXCEPT !.pc = "writeCopy", !.pos = writePos, !.i = 0]
  /\ UNCHANGED <<ring, flushed, sent, put>>

WriteCell ==
  /\ WriterAt("writeCopy") /\ writer.i < writer.n
  /\ cells' = [cells EXCEPT ![Ahead(writer.pos, writer.i)] = put + writer.i]
  /\ writer' = [writer EXCEPT !.i = @ + 1]
  /\ UNCHANGED <<readPos, writePos, flushed, sent, put>>

(* Mutant: the new position is not wrapped.                                *)
WriteStoreUnwrapped ==
  /\ WriterAt("writeCopy") /\ writer.i = writer.n
  /\ writePos' = writer.pos + writer.n
  /\ put' = put + writer.n
  /\ writer' = Returned(writer)
  /\ UNCHANGED <<cells, readPos, flushed, sent>>

WriteStore ==
  /\ WriterAt("writeCopy") /\ writer.i = writer.n
  /\ writePos' = Ahead(writer.pos, writer.n)
  /\ put' = put + writer.n
  /\ writer' = Returned(writer)
  /\ UNCHANGED <<cells, readPos, flushed, sent>>

WriterStep ==
  /\ \/ BeginWrite \/ Sleep \/ StopWaiting \/ DiscardChunk \/ EnterBuffer
     \/ WriteLoad \/ WriteSize \/ WritePosition \/ WriteCell \/ WriteStore
  /\ Remember

-----------------------------------------------------------------------------
(* The reader.                                                             *)

ReaderAt(pc) ==
  /\ reader.pc = pc
  /\ UNCHANGED <<cells, writePos, flushed, playing, stream, writer, flusher,
                 sent, flushes, put, floor>>

(* The callback, as long as the stream runs.  A short read is filled up    *)
(* with silence.                                                           *)
PaCallback ==
  /\ ReaderAt("idle") /\ stream
  /\ reader' = [reader EXCEPT !.pc = "readLoad", !.floor = floor]
  /\ UNCHANGED <<readPos, taken>>

ReadLoad ==
  /\ ReaderAt("readLoad")
  /\ reader' = [reader EXCEPT !.pc = "readSize", !.seen = writePos]
  /\ UNCHANGED <<readPos, taken>>

ReadSize ==
  /\ ReaderAt("readSize")
  /\ LET n == Least(Period, AvailableRead(reader.seen, readPos)) IN
     reader' = [reader EXCEPT !.pc = IF n = 0 THEN "idle" ELSE "readPos",
                              !.n = n]
  /\ UNCHANGED <<readPos, taken>>

ReadPosition ==
  /\ ReaderAt("readPos")
  /\ reader' = [reader EXCEPT !.pc = "readCopy", !.pos = readPos, !.i = 0]
  /\ UNCHANGED <<readPos, taken>>

ReadCell ==
  /\ ReaderAt("readCopy") /\ reader.i < reader.n
  /\ reader' = [reader EXCEPT !.i = @ + 1,
                  !.heard = cells[Ahead(reader.pos, reader.i)]]
  /\ UNCHANGED <<readPos, taken>>

ReadStore ==
  /\ ReaderAt("readCopy") /\ reader.i = reader.n
  /\ readPos' = Ahead(reader.pos, reader.n)
  /\ taken' = taken + reader.n
  /\ reader' = [reader EXCEPT !.pc = "idle"]

ReaderStep ==
  /\ \/ PaCallback \/ ReadLoad \/ ReadSize \/ ReadPosition \/ ReadCell
     \/ ReadStore
  /\ Remember

-----------------------------------------------------------------------------
(* The flushers, and Stop().                                               *)

FlusherAt(f, pc) ==
  /\ flusher[f].pc = pc
  /\ UNCHANGED <<cells, playing, stream, writer, reader, sent, put>>

Flush(f) ==
  /\ FlusherAt(f, "idle") /\ flushes < MaxFlushes
  /\ flushed' = TRUE
  /\ flushes' = flushes + 1
  /\ flusher' = [flusher EXCEPT ![f] = [pc |-> "resetRead", mark |-> put]]
  /\ UNCHANGED <<readPos, writePos, taken, floor>>

ResetRead(f) ==
  /\ FlusherAt(f, "resetRead")
  /\ readPos' = 0
  /\ flusher' = [flusher EXCEPT ![f].pc = "resetWrite"]
  /\ UNCHANGED <<writePos, flushed, flushes, taken, floor>>

(* Mutant: only the reader goes back to the start.                         *)
ResetWriteKept(f) ==
  /\ FlusherAt(f, "resetWrite")
  /\ taken' = put
  /\ floor' = IF floor < flusher[f].mark THEN flusher[f].mark ELSE floor
  /\ flusher' = [flusher EXCEPT ![f].pc = "idle"]
  /\ UNCHANGED <<readPos, writePos, flushed, flushes>>

ResetWrite(f) ==
  /\ FlusherAt(f, "resetWrite")
  /\ writePos' = 0
  /\ taken' = put
  /\ floor' = IF floor < flusher[f].mark THEN flusher[f].mark ELSE floor
  /\ flusher' = [flusher EXCEPT ![f].pc = "idle"]
  /\ UNCHANGED <<readPos, flushed, flushes>>

FlusherStep ==
  /\ \E f \in Flushers : Flush(f) \/ ResetRead(f) \/ ResetWrite(f)
  /\ Remember

(* Pa_StopStream lets a callback under way return.                         *)
StopStream ==
  /\ stream /\ reader.pc = "idle"
  /\ stream' = FALSE
  /\ UNCHANGED <<ring, flushed, playing, writer, reader, flusher, sent,
                 flushes, history>>

Stop ==
  /\ ~stream /\ playing
  /\ playing' = FALSE
  /\ UNCHANGED <<ring, flushed, stream, writer, reader, flusher, sent,
                 flushes, history>>

-----------------------------------------------------------------------------

OtherStep ==
  /\ (\E size \in PayloadSizes : OnInput(size)) \/ StopStream \/ Stop
  /\ Remember

Next == WriterStep \/ ReaderStep \/ FlusherStep \/ OtherStep

Spec == Init /\ [][Next]_vars

(* The thread that writes is scheduled, and the audio library calls back   *)
(* while the stream runs.                                                  *)
FairSpec == Spec /\ WF_vars(WriterStep) /\ WF_vars(ReaderStep)

-----------------------------------------------------------------------------
(* Properties.                                                             *)

(* Every variable keeps its type; the positions stay inside the ring.      *)
TypeOK ==
  /\ cells \in [Positions -> Int]
  /\ readPos \in Positions /\ writePos \in Positions
  /\ flushed \in BOOLEAN /\ playing \in BOOLEAN /\ stream \in BOOLEAN
  /\ writer \in [pc : {"idle", "chunk", "wait", "decide"} \cup Writing,
                 left : Nat, waited : Nat, seen : Positions, pos : Positions,
                 n : Nat, i : Nat]
  /\ reader \in [pc : {"idle"} \cup Reading, seen : Positions,
                 pos : Positions, n : Nat, i : Nat, floor : Nat, heard : Int]
  /\ flusher \in [Flushers -> [pc : {"idle"} \cup Resetting, mark : Nat]]
  /\ sent \in Nat /\ flushes \in Nat
  /\ put \in Nat /\ taken \in Nat /\ floor \in Nat /\ disturbed \in BOOLEAN

(* "Lock-free single-producer single-consumer ring buffer": as long as no  *)
(* reset overlapped a Write or a Read, the callback hears every sample the *)
(* buffer accepted, in order, once, and none that is not published yet.    *)
HeardInOrder ==
  ~disturbed /\ reader.pc = "readCopy" /\ reader.i > 0
  => reader.heard = taken + reader.i - 1 /\ reader.heard < put

(* The cells being written and the cells being read are never the same:    *)
(* the samples, which are not atomic, are not raced for.                   *)
CellsOf(p) == {Ahead(p.pos, k) : k \in 0 .. p.n - 1}
NoCellShared ==
  ~disturbed /\ writer.pc = "writeCopy" /\ reader.pc = "readCopy"
  => CellsOf(writer) \cap CellsOf(reader) = {}

(* "Discard all buffered audio immediately": a callback that starts after  *)
(* Flush() has returned hears nothing the buffer held before.              *)
FlushDiscards ==
  reader.pc = "readCopy" /\ reader.i > 0 => reader.heard >= reader.floor

(* It does so as long as no reset overlapped a Write or a Read.            *)
QuietFlushDiscards == ~disturbed => FlushDiscards

(* A chunk is cut short only after the whole wait, or once stopped: what   *)
(* the wait loop saw to be free is still free in AudioBuffer::Write.       *)
DropsOnlyAfterWait ==
  writer.pc = "writeSize" /\ AvailableWrite(writer.seen, readPos) < Chunk
  => writer.waited = MaxWait \/ ~playing \/ disturbed

(* The dispatching thread comes back from the playout device, though the   *)
(* callback may stall, a flush come at any time, or playout stop.          *)
WriteReturns == writer.pc # "idle" ~> writer.pc = "idle"

(* What the buffer accepted is played or flushed while the stream runs:    *)
(* with a bounded input it is empty again and again.                       *)
AcceptedIsPlayed == put > taken ~> (put = taken \/ ~stream \/ disturbed)

=============================================================================
