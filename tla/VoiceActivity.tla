----------------------------- MODULE VoiceActivity -----------------------------
(***************************************************************************)
(* io/vad/energy_vad_device.cpp with io/vad/vad_event_device.cpp: frames of *)
(* captured audio are numbered, loud or not; speech begins after so many    *)
(* loud frames and ends after so many quiet ones, and only the frames of    *)
(* speech are passed on.  All of it runs on the thread that captures, and   *)
(* what a frame makes the device emit is the sequence of calls that thread  *)
(* goes on to make.                                                         *)
(***************************************************************************)
EXTENDS Naturals, Sequences

CONSTANTS RmsWindowFrames, SpeechOnsetFrames, SilenceHangoverFrames, PreRollFrames,
          MaxFrames      \* bound on the frames captured

ASSUME VadAssumption ==
  /\ RmsWindowFrames \in Nat \ {0} /\ SpeechOnsetFrames \in Nat \ {0}
  /\ SilenceHangoverFrames \in Nat \ {0} /\ PreRollFrames \in Nat /\ MaxFrames \in Nat

VARIABLES captured,      \* the frames that have reached the device
          rms_window,    \* which of the last ones were loud
          in_speech, onset_counter, hangover_counter,
          pre_roll_buf   \* the last frames before speech

vadVars == <<captured, rms_window, in_speech, onset_counter, hangover_counter, pre_roll_buf>>

VadInit ==
  /\ captured = 0 /\ rms_window = <<>> /\ in_speech = FALSE
  /\ onset_counter = 0 /\ hangover_counter = 0 /\ pre_roll_buf = <<>>

\* What is left of a deque when it is cut down to n from the front.
Newest(s, n) == IF Len(s) > n THEN SubSeq(s, Len(s) - n + 1, Len(s)) ELSE s

Call(op, arg) == [op |-> op, arg |-> arg]

EmitAudio(frame) == <<Call("asr_audio", frame)>>
EmitSpeechStart == <<Call("interrupt", 0)>>     \* VadEventDevice: barge-in to the core
EmitSpeechEnd == <<Call("asr_flush", 0)>>       \* VadEventDevice: flush to the recogniser

Window(loud) == Newest(Append(rms_window, loud), RmsWindowFrames)
IsSpeech(loud) == \E i \in DOMAIN Window(loud) : Window(loud)[i]
ThisFrame == captured + 1
PreRoll == Newest(Append(pre_roll_buf, ThisFrame), PreRollFrames)

\* Wants one loud frame more.
StartsLate(loud) == ~in_speech /\ IsSpeech(loud) /\ onset_counter >= SpeechOnsetFrames

Starts(loud) == ~in_speech /\ IsSpeech(loud) /\ onset_counter + 1 >= SpeechOnsetFrames

Ends(loud) == in_speech /\ ~IsSpeech(loud) /\ hangover_counter + 1 >= SilenceHangoverFrames

EventFirst(event, frames) == event \o frames

\* The frames are passed on before the interruption they cause.
FramesFirst(event, frames) == frames \o event

Announce(event, frames) == EventFirst(event, frames)

FlushPreRoll ==
  IF PreRollFrames = 0 THEN EmitAudio(ThisFrame)
  ELSE [i \in DOMAIN PreRoll |-> Call("asr_audio", PreRoll[i])]

Emitted(loud) ==
  IF in_speech
  THEN EmitAudio(ThisFrame) \o (IF Ends(loud) THEN EmitSpeechEnd ELSE <<>>)
  ELSE IF Starts(loud) THEN Announce(EmitSpeechStart, FlushPreRoll) ELSE <<>>

\* OnInput of the detector, as to its own state.
VadInput(loud) ==
  /\ captured < MaxFrames
  /\ captured' = ThisFrame /\ rms_window' = Window(loud)
  /\ in_speech' = (Starts(loud) \/ (in_speech /\ ~Ends(loud)))
  /\ onset_counter' = IF ~in_speech /\ IsSpeech(loud) /\ ~Starts(loud)
                      THEN onset_counter + 1 ELSE 0
  /\ hangover_counter' = IF IsSpeech(loud) \/ Ends(loud) THEN 0
                         ELSE IF in_speech THEN hangover_counter + 1 ELSE hangover_counter
  /\ pre_roll_buf' = IF in_speech \/ Starts(loud) THEN <<>> ELSE PreRoll

-----------------------------------------------------------------------------
VadTypeOK ==
  /\ captured \in 0 .. MaxFrames
  /\ rms_window \in Seq(BOOLEAN) /\ Len(rms_window) <= RmsWindowFrames
  /\ in_speech \in BOOLEAN
  /\ onset_counter \in 0 .. SpeechOnsetFrames - 1
  /\ hangover_counter \in 0 .. SilenceHangoverFrames - 1
  /\ pre_roll_buf \in Seq(1 .. captured) /\ Len(pre_roll_buf) <= PreRollFrames
  /\ in_speech => onset_counter = 0 /\ pre_roll_buf = <<>>
=============================================================================
