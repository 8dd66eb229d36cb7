--------------------------- MODULE SpeechRecognizer ---------------------------
(***************************************************************************)
(* io/asr/baidu/baidu_asr_device.cpp: audio is gathered in a buffer, a      *)
(* flush makes a task of it, and a worker thread has the tasks transcribed  *)
(* one after the other.  Every change of the queue and of the stop flag is  *)
(* made under worker_mutex_ before the worker is notified, so that its wait *)
(* is for the predicate itself.                                             *)
(***************************************************************************)
EXTENDS Naturals, Sequences

VARIABLES asr_active,
          audio_buffer,  \* the frames gathered
          task_queue,    \* the utterances flushed
          transcribing,  \* the one in the worker's hands, <<>> for none
          asr_stop,      \* worker_stop_
          asr_ended      \* the worker thread has returned

asrVars == <<asr_active, audio_buffer, task_queue, transcribing, asr_stop, asr_ended>>

AsrInit ==
  /\ asr_active = TRUE /\ audio_buffer = <<>> /\ task_queue = <<>>
  /\ transcribing = <<>> /\ asr_stop = FALSE /\ asr_ended = FALSE

AsrAudio(frame) ==
  /\ audio_buffer' = IF asr_active THEN Append(audio_buffer, frame) ELSE audio_buffer
  /\ UNCHANGED <<asr_active, task_queue, transcribing, asr_stop, asr_ended>>

CancelTranscription ==
  /\ audio_buffer' = <<>>
  /\ UNCHANGED <<asr_active, task_queue, transcribing, asr_stop, asr_ended>>

Flushes == asr_active /\ audio_buffer # <<>>

Flush ==
  /\ IF Flushes
     THEN audio_buffer' = <<>> /\ task_queue' = Append(task_queue, audio_buffer)
     ELSE UNCHANGED <<audio_buffer, task_queue>>
  /\ UNCHANGED <<asr_active, transcribing, asr_stop, asr_ended>>

AsrTake ==
  /\ ~asr_ended /\ transcribing = <<>> /\ task_queue # <<>>
  /\ transcribing' = Head(task_queue) /\ task_queue' = Tail(task_queue)
  /\ UNCHANGED <<asr_active, audio_buffer, asr_stop, asr_ended>>

\* The service has answered, with a transcript or with none.
Transcribed ==
  /\ transcribing # <<>> /\ transcribing' = <<>>
  /\ UNCHANGED <<asr_active, audio_buffer, task_queue, asr_stop, asr_ended>>

DrainedFirst == asr_stop /\ task_queue = <<>>

\* Leaves the queued tasks behind.
AtOnce == asr_stop

AsrMayEnd == DrainedFirst

AsrEnds ==
  /\ ~asr_ended /\ transcribing = <<>> /\ AsrMayEnd
  /\ asr_ended' = TRUE
  /\ UNCHANGED <<asr_active, audio_buffer, task_queue, transcribing, asr_stop>>

\* The steps of Stop(), which ends when the worker has.
AsrInactive ==
  /\ asr_active' = FALSE
  /\ UNCHANGED <<audio_buffer, task_queue, transcribing, asr_stop, asr_ended>>

AsrStopFlag ==
  /\ asr_stop' = TRUE
  /\ UNCHANGED <<asr_active, audio_buffer, task_queue, transcribing, asr_ended>>

-----------------------------------------------------------------------------
AsrTypeOK ==
  /\ asr_active \in BOOLEAN /\ asr_stop \in BOOLEAN /\ asr_ended \in BOOLEAN
  /\ audio_buffer \in Seq(Nat) /\ transcribing \in Seq(Nat)
  /\ task_queue \in Seq(Seq(Nat) \ {<<>>})
=============================================================================
