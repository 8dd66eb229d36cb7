--------------------------------- MODULE Voice ---------------------------------
(***************************************************************************)
(* A spoken conversation: the voice activity detection, the recogniser, the *)
(* core and the synthesiser as shizuru_bridge.cpp and app_runtime.cpp wire  *)
(* them.  A frame of the bus is a call, so that the thread that captures    *)
(* runs the detector, the cancellation of a barge-in and the appending of   *)
(* audio, while the controller's loop thread, with its own cancellations,   *)
(* runs beside it.  calls[t] is what thread t still has to call.            *)
(*                                                                          *)
(* Of the core there is what these threads share: the interrupt flag, the   *)
(* cancel flag of the LLM client, the observation queue and the segments of *)
(* the streamed answer.  What is left out of the loop the Controller module *)
(* has: aggregator, filter, tools, timers, and the messages that are typed. *)
(* MaxTexts bounds the segments spoken.                                     *)
(***************************************************************************)
EXTENDS VoiceActivity, SpeechRecognizer, SpeechSynthesizer, AnswerStream, FiniteSets

CONSTANT MaxTexts

ASSUME VoiceAssumption == MaxTexts \in Nat

VARIABLES calls,
          turn,                 \* the controller is in a turn (Thinking)
          loop,                 \* where the loop thread is
          observations,         \* the observation queue
          interrupt_requested,
          llm_cancelled,        \* the LLM client's cancel flag
          main,                 \* how far the destruction of the app has come
          texts,                \* counter of the segments
          onset, cut,           \* history: the first frame of speech, and the
                                \* last one before a cancellation by the loop
          utterances,           \* history: what was flushed to the recogniser
          voiced,               \* history: the kinds of text made into segments
          stale, heard_stale, drained_by
                                \* history: the texts handed over before the last
                                \* cancellation, those heard after it, its thread

loopVars == <<turn, loop, observations, interrupt_requested, llm_cancelled>>
coreVars == <<loopVars, streamVars, voiced>>
speechHistory == <<onset, cut, utterances>>
cancelHistory == <<stale, heard_stale, drained_by>>
vars == <<vadVars, asrVars, ttsVars, coreVars, calls, main, texts,
          speechHistory, cancelHistory>>

Threads == {"capture", "loop"}

Init ==
  /\ VadInit /\ AsrInit /\ TtsInit
  /\ calls = [t \in Threads |-> <<>>]
  /\ turn = FALSE /\ loop = "wait" /\ observations = <<>> /\ interrupt_requested = FALSE
  /\ llm_cancelled = FALSE /\ StreamInit /\ voiced = {}
  /\ main = "running" /\ texts = 0
  /\ onset = 0 /\ cut = 0 /\ utterances = <<>>
  /\ stale = {} /\ heard_stale = {} /\ drained_by = "none"

Routed == main \in {"running", "captured"}
CoreActive == Routed

\* A cancel frame of the core: its routes lead to the recogniser and then to the
\* synthesiser, whose CancelSynthesis takes three steps.
CancelFrame ==
  <<Call("asr_cancel", 0), Call("tts_inactive", 0), Call("tts_cancel", 0), Call("tts_drain", 0)>>

-----------------------------------------------------------------------------
\* The thread that captures

Capture(loud) ==
  /\ main = "running" /\ calls["capture"] = <<>>
  /\ VadInput(loud)
  /\ calls' = [calls EXCEPT !["capture"] = Emitted(loud)]
  /\ onset' = IF Starts(loud) THEN ThisFrame - SpeechOnsetFrames + 1 ELSE onset
  /\ cut' = IF Starts(loud) THEN 0 ELSE cut
  /\ UNCHANGED <<asrVars, ttsVars, coreVars, main, texts, utterances, cancelHistory>>

Unchanging == UNCHANGED <<vadVars, main, texts>>

\* Thread t makes its next call.
Next1(t, op) == calls[t] # <<>> /\ Head(calls[t]).op = op
Done(t) == calls' = [calls EXCEPT ![t] = Tail(@)]

PassAudio(t) ==
  /\ Next1(t, "asr_audio") /\ AsrAudio(Head(calls[t]).arg)
  /\ Done(t) /\ Unchanging /\ UNCHANGED <<ttsVars, coreVars, speechHistory, cancelHistory>>

FlushSpeech(t) ==
  /\ Next1(t, "asr_flush") /\ Flush
  /\ utterances' = IF Flushes
                   THEN Append(utterances, [onset |-> onset, cut |-> cut, frames |-> audio_buffer])
                   ELSE utterances
  /\ Done(t) /\ Unchanging /\ UNCHANGED <<ttsVars, coreVars, onset, cut, cancelHistory>>

CancelSpeech(t) ==
  /\ Next1(t, "asr_cancel") /\ CancelTranscription
  /\ cut' = IF t = "loop" /\ audio_buffer # <<>> THEN audio_buffer[Len(audio_buffer)] ELSE cut
  /\ Done(t) /\ Unchanging /\ UNCHANGED <<ttsVars, coreVars, onset, utterances, cancelHistory>>

CancelSynthesis(t) ==
  /\ \/ Next1(t, "tts_inactive") /\ TtsInactive
     \/ Next1(t, "tts_cancel") /\ CancelClient
  /\ Done(t) /\ Unchanging /\ UNCHANGED <<asrVars, coreVars, speechHistory, cancelHistory>>

DrainTexts(t) ==
  /\ Next1(t, "tts_drain") /\ Drain
  /\ stale' = 1 .. texts /\ heard_stale' = {} /\ drained_by' = t
  /\ Done(t) /\ Unchanging /\ UNCHANGED <<asrVars, coreVars, speechHistory>>

SpeakText(t) ==
  /\ Next1(t, "tts_text") /\ PushText(Head(calls[t]).arg)
  /\ Done(t) /\ Unchanging /\ UNCHANGED <<asrVars, coreVars, speechHistory, cancelHistory>>

\* interrupt_in of the core: first the cancel frame, then Interrupt(), whose two
\* flags are one step here: the loop reads both only between tokens.
BargeIn(t) ==
  /\ Next1(t, "interrupt")
  /\ calls' = [calls EXCEPT ![t] = CancelFrame \o <<Call("request", 0)>> \o Tail(@)]
  /\ Unchanging /\ UNCHANGED <<asrVars, ttsVars, coreVars, speechHistory, cancelHistory>>

RequestInterrupt(t) ==
  /\ Next1(t, "request")
  /\ IF turn
     THEN /\ interrupt_requested' = TRUE /\ llm_cancelled' = TRUE
          /\ observations' = Append(observations, "interrupt")
     ELSE UNCHANGED <<interrupt_requested, llm_cancelled, observations>>
  /\ Done(t) /\ Unchanging
  /\ UNCHANGED <<asrVars, ttsVars, turn, loop, streamVars, voiced, speechHistory, cancelHistory>>

CallStep(t) ==
  \/ PassAudio(t) \/ FlushSpeech(t) \/ CancelSpeech(t)
  \/ CancelSynthesis(t) \/ DrainTexts(t) \/ SpeakText(t)
  \/ BargeIn(t) \/ RequestInterrupt(t)

-----------------------------------------------------------------------------
\* The controller's loop thread

LoopFree == calls["loop"] = <<>>
LoopFrame == UNCHANGED <<vadVars, asrVars, ttsVars, main, speechHistory, cancelHistory>>

\* A frame of the loop thread: a text for an inactive device is dropped.
Send(frames) == calls' = [calls EXCEPT !["loop"] = IF Routed THEN frames ELSE <<>>]
SendText(kinds) ==
  /\ texts < MaxTexts /\ texts' = texts + 1
  /\ voiced' = voiced \cup kinds
  /\ Send(IF tts_active THEN <<Call("tts_text", texts')>> ELSE <<>>)
Quiet == UNCHANGED <<calls, texts, voiced>>
StreamKept == UNCHANGED streamVars

\* CancelLlm: the callback cancels once, the transition to Listening once more.
InterruptTurn ==
  /\ interrupt_requested' = FALSE /\ llm_cancelled' = TRUE /\ FlushBuffer
  /\ turn' = FALSE
  /\ Send(CancelFrame \o CancelFrame)
  /\ UNCHANGED <<loop, texts, voiced, attempt, last_tag, in_thinking_block>>

\* The reducer drops an interruption that comes too soon after another.
TakeInterrupt ==
  /\ loop = "wait" /\ observations # <<>> /\ Head(observations) = "interrupt"
  /\ observations' = Tail(observations)
  /\ \/ turn /\ InterruptTurn
     \/ Quiet /\ StreamKept /\ UNCHANGED <<turn, loop, interrupt_requested, llm_cancelled>>

\* A message to a turn that is left interrupts it, and is taken afterwards.
TakeMessage ==
  /\ loop = "wait" /\ observations # <<>> /\ Head(observations) = "message"
  /\ IF turn
     THEN InterruptTurn /\ UNCHANGED observations
     ELSE /\ observations' = Tail(observations)
          /\ turn' = TRUE /\ loop' = "check"
          /\ Quiet /\ StreamKept /\ UNCHANGED <<interrupt_requested, llm_cancelled>>

CheckInterrupt ==
  /\ loop = "check"
  /\ IF interrupt_requested
     THEN loop' = "wait" /\ UNCHANGED in_thinking_block
     ELSE loop' = "submit" /\ NewCall
  /\ Quiet /\ UNCHANGED <<turn, observations, interrupt_requested, llm_cancelled>>
  /\ UNCHANGED <<attempt, last_tag, buffered>>

\* SubmitStreaming forgets a cancellation that came before it.
Submit ==
  /\ loop = "submit" /\ loop' = "stream" /\ llm_cancelled' = FALSE
  /\ Quiet /\ StreamKept /\ UNCHANGED <<turn, observations, interrupt_requested>>

\* A token makes a segment ready, of which a rest may stay in the strategy, or
\* stays there itself; one that is not to be spoken leaves the buffer alone.
Token(kind) ==
  /\ loop = "stream" /\ ~llm_cancelled /\ ~interrupt_requested
  /\ LET tag == TagOf(kind)
         clean == Clean(tag, {kind})
     IN /\ Parse(tag) /\ Filter(tag)
        /\ IF clean = {} THEN Quiet /\ UNCHANGED buffered
           ELSE \/ /\ SendText(buffered \cup clean) /\ ReadyLength(buffered \cup clean)
                   /\ buffered' # {} => texts' < MaxTexts
                \/ /\ buffered = {} /\ texts < MaxTexts
                   /\ buffered' = clean /\ Quiet
  /\ UNCHANGED <<loopVars, attempt>>

\* A stream that is cancelled or fails throws.  With an interruption asked for
\* the turn is left as it is for the queued one to end, otherwise it is tried
\* again; that the last attempt fails is the Controller module's.
StreamThrows ==
  /\ loop = "stream"
  /\ \/ interrupt_requested /\ loop' = "wait" /\ EndCall
     \/ ~interrupt_requested /\ loop' = "submit" /\ NextAttempt
  /\ Quiet /\ UNCHANGED <<turn, observations, interrupt_requested, llm_cancelled>>
  /\ UNCHANGED <<in_thinking_block, buffered>>

\* A complete stream, or one that just ends: what is buffered is spoken even when
\* an interruption has been asked for meanwhile.
StreamComplete ==
  /\ loop = "stream" /\ ~llm_cancelled
  /\ \E tag \in {"none"} \cup (IF interrupt_requested THEN {} ELSE {DoneTag}) :
       LET all == buffered \cup Clean(tag, {})
       IN /\ Filter(tag)
          /\ IF all # {} THEN SendText(all) ELSE Quiet
  /\ FlushBuffer /\ EndCall /\ loop' = "route"
  /\ UNCHANGED <<turn, observations, interrupt_requested, llm_cancelled>>

RouteResult ==
  /\ loop = "route"
  /\ turn' = interrupt_requested
  /\ loop' = "wait"
  /\ Quiet /\ StreamKept /\ UNCHANGED <<observations, interrupt_requested, llm_cancelled>>

Loop ==
  /\ LoopFree /\ LoopFrame
  /\ \/ TakeInterrupt \/ TakeMessage \/ CheckInterrupt \/ Submit
     \/ \E kind \in Kinds : Token(kind)
     \/ StreamThrows \/ StreamComplete \/ RouteResult

-----------------------------------------------------------------------------
\* The workers of the devices

AsrWorker ==
  /\ \/ AsrTake /\ UNCHANGED observations
     \/ /\ Transcribed
        /\ \/ CoreActive /\ observations' = Append(observations, "message")
           \/ UNCHANGED observations
     \/ AsrEnds /\ UNCHANGED observations
  /\ UNCHANGED <<vadVars, ttsVars, turn, loop, interrupt_requested, llm_cancelled, streamVars,
                 voiced, calls, main, texts, speechHistory, cancelHistory>>

Hear ==
  /\ EmitsAudio /\ Routed
  /\ heard_stale' = heard_stale \cup ({text} \cap stale)
  /\ UNCHANGED <<ttsVars, stale, drained_by>>

TtsWorker ==
  /\ \/ Hear
     \/ (PopText \/ BeginSynthesis \/ EndSynthesis \/ TtsEnds) /\ UNCHANGED cancelHistory
  /\ UNCHANGED <<vadVars, asrVars, coreVars, calls, main, texts, speechHistory>>

-----------------------------------------------------------------------------
\* shizuru_destroy: the capture stream is stopped, which waits for its thread;
\* the bus is emptied, which waits for every dispatch; then the devices stop in
\* the reverse order of their registration: core, synthesiser, recogniser.

MainStep(from, to) == main = from /\ main' = to
MainOnly == UNCHANGED <<vadVars, coreVars, calls, texts, speechHistory, cancelHistory>>

Destroy ==
  \/ MainStep("running", "captured") /\ calls["capture"] = <<>> /\ UNCHANGED <<asrVars, ttsVars>>
  \/ MainStep("captured", "emptied") /\ LoopFree /\ UNCHANGED <<asrVars, ttsVars>>
  \/ /\ MainStep("emptied", "core_stopped") /\ loop = "wait" /\ LoopFree
     /\ UNCHANGED <<asrVars, ttsVars>>
  \/ MainStep("core_stopped", "tts_inactive") /\ TtsInactive /\ UNCHANGED asrVars
  \/ MainStep("tts_inactive", "tts_cancelled") /\ CancelClient /\ UNCHANGED asrVars
  \/ MainStep("tts_cancelled", "tts_stopping") /\ TtsStopFlag /\ UNCHANGED asrVars
  \/ MainStep("tts_stopping", "tts_stopped") /\ tts_ended /\ UNCHANGED <<asrVars, ttsVars>>
  \/ MainStep("tts_stopped", "asr_inactive") /\ AsrInactive /\ UNCHANGED ttsVars
  \/ MainStep("asr_inactive", "asr_stopping") /\ AsrStopFlag /\ UNCHANGED ttsVars
  \/ MainStep("asr_stopping", "done") /\ asr_ended /\ UNCHANGED <<asrVars, ttsVars>>

Next ==
  \/ \E loud \in BOOLEAN : Capture(loud)
  \/ \E t \in Threads : CallStep(t)
  \/ Loop
  \/ AsrWorker
  \/ TtsWorker
  \/ Destroy /\ MainOnly

\* Threads that can run do, a server ends its answers, and a destruction that
\* has begun goes on; nobody need speak or quit.
Fairness ==
  /\ \A t \in Threads : WF_vars(CallStep(t))
  /\ WF_vars(Loop) /\ WF_vars(AsrWorker) /\ WF_vars(TtsWorker)
  /\ WF_vars(main # "running" /\ Destroy /\ MainOnly)

Spec == Init /\ [][Next]_vars /\ Fairness

-----------------------------------------------------------------------------
TypeOK ==
  /\ VadTypeOK /\ AsrTypeOK /\ TtsTypeOK
  /\ turn \in BOOLEAN
  /\ interrupt_requested \in BOOLEAN /\ llm_cancelled \in BOOLEAN
  /\ loop \in {"wait", "check", "submit", "stream", "route"}
  /\ loop # "wait" => turn
  /\ observations \in Seq({"interrupt", "message"})
  /\ heard_stale \subseteq stale
  /\ texts \in 0 .. MaxTexts

\* What the recogniser is given of an utterance is its frames without a gap and
\* in order, from the frame at which the speech set in: the frames that passed
\* while it was not yet certain included, though the interruption that the same
\* event causes empties the recogniser's buffer.  Only a cancellation by the
\* loop thread, which comes some time after, takes the beginning away.
UtterancesWhole ==
  \A i \in DOMAIN utterances :
    LET u == utterances[i]
    IN /\ \A k \in 1 .. Len(u.frames) - 1 : u.frames[k + 1] = u.frames[k] + 1
       /\ u.frames[1] <= u.onset \/ u.frames[1] = u.cut + 1

\* After a cancellation no text handed over before it is heard, but for the one
\* the synthesiser's worker had already taken from the queue and, when it was not
\* the loop thread that cancelled, the one this thread was just handing over.
CancelledTextsSilent ==
  Cardinality(heard_stale) <= IF drained_by = "loop" THEN 1 ELSE 2

\* The reasoning of the model is never spoken, in whatever order it comes with
\* the answer and wherever an attempt breaks off; and while nothing has broken
\* off, the filter leaves out nothing but the reasoning: it is in a block exactly
\* when the text that the parser has accumulated is.
ThoughtsUnspoken ==
  /\ voiced \subseteq {"answer"} /\ buffered \subseteq {"answer"}
  /\ loop = "stream" /\ attempt = 0 /\ ~interrupt_requested =>
       (in_thinking_block <=> last_tag = "open")

\* Every utterance flushed is transcribed, the ones the shutdown finds in the
\* queue included.
FlushedSpeechTranscribed == task_queue # <<>> ~> task_queue = <<>> /\ transcribing = <<>>
=============================================================================
