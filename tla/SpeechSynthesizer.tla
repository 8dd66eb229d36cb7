--------------------------- MODULE SpeechSynthesizer ---------------------------
(***************************************************************************)
(* io/tts/elevenlabs/elevenlabs_tts_device.cpp with                         *)
(* services/tts/elevenlabs/elevenlabs_client.cpp: texts are queued and a    *)
(* worker thread has them spoken one after the other; the client streams    *)
(* the audio and looks at its cancel flag whenever data arrive.  Texts are  *)
(* numbered.  The queue and the stop flag change under worker_mutex_ before *)
(* the worker is notified, so that its wait is for the predicate itself.    *)
(***************************************************************************)
EXTENDS Naturals, Sequences

VARIABLES tts_active,
          cancel_requested,  \* the client's flag
          text_queue,
          text,              \* the one in the worker's hands, 0 for none
          streaming,         \* the client is receiving its audio
          tts_stop,          \* worker_stop_
          tts_ended          \* the worker thread has returned

ttsVars == <<tts_active, cancel_requested, text_queue, text, streaming, tts_stop, tts_ended>>

TtsInit ==
  /\ tts_active = TRUE /\ cancel_requested = FALSE /\ text_queue = <<>>
  /\ text = 0 /\ streaming = FALSE /\ tts_stop = FALSE /\ tts_ended = FALSE

\* OnInput, once it has seen that the device is active.
PushText(id) ==
  /\ text_queue' = Append(text_queue, id)
  /\ UNCHANGED <<tts_active, cancel_requested, text, streaming, tts_stop, tts_ended>>

\* The steps of CancelSynthesis.
TtsInactive ==
  /\ tts_active' = FALSE
  /\ UNCHANGED <<cancel_requested, text_queue, text, streaming, tts_stop, tts_ended>>

CancelClient ==
  /\ cancel_requested' = TRUE
  /\ UNCHANGED <<tts_active, text_queue, text, streaming, tts_stop, tts_ended>>

Empty(queue) == <<>>

\* The queue as it was.
Untouched(queue) == queue

Drained(queue) == Empty(queue)

Drain ==
  /\ text_queue' = Drained(text_queue) /\ tts_active' = TRUE
  /\ UNCHANGED <<cancel_requested, text, streaming, tts_stop, tts_ended>>

\* The worker.
PopText ==
  /\ ~tts_ended /\ text = 0 /\ text_queue # <<>>
  /\ text' = Head(text_queue) /\ text_queue' = Tail(text_queue)
  /\ UNCHANGED <<tts_active, cancel_requested, streaming, tts_stop, tts_ended>>

\* Synthesize of the client forgets a cancellation that came before it.
BeginSynthesis ==
  /\ text # 0 /\ ~streaming
  /\ streaming' = TRUE /\ cancel_requested' = FALSE
  /\ UNCHANGED <<tts_active, text_queue, text, tts_stop, tts_ended>>

\* A chunk of audio that goes on to the playout.
EmitsAudio == streaming /\ ~cancel_requested /\ tts_active

\* The stream is complete, failed, or given up.
EndSynthesis ==
  /\ streaming /\ streaming' = FALSE /\ text' = 0
  /\ UNCHANGED <<tts_active, cancel_requested, text_queue, tts_stop, tts_ended>>

TtsEnds ==
  /\ ~tts_ended /\ text = 0 /\ tts_stop /\ text_queue = <<>>
  /\ tts_ended' = TRUE
  /\ UNCHANGED <<tts_active, cancel_requested, text_queue, text, streaming, tts_stop>>

\* Stop() is TtsInactive, CancelClient, this, and waits for the worker.
TtsStopFlag ==
  /\ tts_stop' = TRUE
  /\ UNCHANGED <<tts_active, cancel_requested, text_queue, text, streaming, tts_ended>>

-----------------------------------------------------------------------------
TtsTypeOK ==
  /\ tts_active \in BOOLEAN /\ cancel_requested \in BOOLEAN /\ streaming \in BOOLEAN
  /\ tts_stop \in BOOLEAN /\ tts_ended \in BOOLEAN
  /\ text_queue \in Seq(Nat \ {0}) /\ text \in Nat
  /\ streaming => text # 0
=============================================================================
