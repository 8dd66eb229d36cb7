------------------------------ MODULE Voice_proofs ------------------------------
(***************************************************************************)
(* Theorems about a spoken conversation, for any number of frames, texts and *)
(* retries: the reasoning of the model stays unspoken, a cancellation        *)
(* silences, the types, and what the recogniser is given of an utterance.    *)
(***************************************************************************)
EXTENDS Voice, FiniteSetTheorems, SequenceTheorems, Integers, TLAPS

-----------------------------------------------------------------------------
(* While an attempt streams and its turn has not been interrupted, text is  *)
(* let through only outside of a block that the parser has opened; a broken *)
(* attempt may leave the filter inside a block, never the parser.           *)
FilterInv ==
  /\ attempt \in Nat
  /\ last_tag \in {"none", "open", "close"}
  /\ in_thinking_block \in BOOLEAN
  /\ buffered \subseteq {"answer"} /\ voiced \subseteq {"answer"}
  /\ loop # "stream" => last_tag = "none"
  /\ loop \in {"wait", "check", "route"} => attempt = 0
  /\ last_tag = "open" => in_thinking_block
  /\ loop \in {"submit", "stream"} /\ attempt = 0 /\ last_tag # "open" => ~in_thinking_block

(* What the filter lets through of a token.                                 *)
LEMMA CleanIsAnswer ==
  ASSUME FilterInv, loop = "stream", NEW kind \in Kinds
  PROVE  Clean(TagOf(kind), {kind}) \subseteq {"answer"}
BY DEF FilterInv, Kinds, TagOf, ReasoningTag, Opening, ContentTag, Clean, InBlockAfter

LEMMA FilterInit == Init => FilterInv
<1> SUFFICES ASSUME Init PROVE FilterInv
  OBVIOUS
<1>1. /\ attempt = 0 /\ last_tag = "none" /\ buffered = {} /\ voiced = {} /\ loop = "wait"
      /\ in_thinking_block = FALSE
  BY DEF Init, StreamInit
<1> QED BY <1>1 DEF FilterInv

(* The state that the invariant speaks of.                                  *)
filterVars == <<streamVars, voiced, loop>>

LEMMA FilterKept == FilterInv /\ UNCHANGED filterVars => FilterInv'
BY DEF filterVars, streamVars, FilterInv

LEMMA TokenKeeps ==
  ASSUME FilterInv, NEW kind \in Kinds, Token(kind)
  PROVE  FilterInv'
<1> DEFINE tag == TagOf(kind)
           clean == Clean(tag, {kind})
<1>1. /\ loop = "stream" /\ loop' = "stream" /\ attempt' = attempt
      /\ last_tag' = (IF tag = "none" THEN last_tag ELSE tag)
      /\ in_thinking_block' = InBlockAfter(tag)
  BY DEF Token, Parse, Filter, loopVars
<1>2. buffered' \subseteq {"answer"} /\ voiced' \subseteq {"answer"}
  <2>1. clean \subseteq {"answer"}
    BY <1>1, CleanIsAnswer
  <2>2. \/ voiced' = voiced /\ buffered' = buffered
        \/ /\ voiced' = voiced \cup (buffered \cup clean)
           /\ buffered' \in {{}, buffered \cup clean}
        \/ voiced' = voiced /\ buffered' = clean
    BY DEF Token, SendText, Quiet, ReadyLength
  <2> QED BY <2>1, <2>2 DEF FilterInv
<1>3. tag \in {"none", "open", "close"}
  BY DEF TagOf, ReasoningTag, Opening, ContentTag
<1>4. /\ last_tag' \in {"none", "open", "close"} /\ in_thinking_block' \in BOOLEAN
      /\ last_tag' = "open" => in_thinking_block'
      /\ attempt = 0 /\ last_tag' # "open" => ~in_thinking_block'
  BY <1>1, <1>3 DEF FilterInv, InBlockAfter, TagOf, ReasoningTag, Opening, ContentTag, Kinds
<1> QED
  BY <1>1, <1>2, <1>4 DEF FilterInv

LEMMA CompleteKeeps ==
  ASSUME FilterInv, StreamComplete
  PROVE  FilterInv'
<1>1. PICK tag \in {"none", DoneTag} :
        LET all == buffered \cup Clean(tag, {})
        IN /\ Filter(tag)
           /\ IF all # {} THEN SendText(all) ELSE Quiet
  BY DEF StreamComplete
<1>2. /\ loop = "stream" /\ loop' = "route" /\ attempt' = 0 /\ last_tag' = "none"
      /\ buffered' = {}
  BY DEF StreamComplete, FlushBuffer, EndCall
<1>3. Clean(tag, {}) = {}
  BY <1>2 DEF FilterInv, Clean, DoneTag, ContentTag
<1>4. voiced' \subseteq {"answer"} /\ in_thinking_block' \in BOOLEAN
  BY <1>1, <1>3 DEF FilterInv, SendText, Quiet, Filter, InBlockAfter
<1> QED
  BY <1>2, <1>4 DEF FilterInv

LEMMA ThrowKeeps ==
  ASSUME FilterInv, StreamThrows
  PROVE  FilterInv'
<1>1. /\ voiced' = voiced /\ buffered' = buffered /\ in_thinking_block' = in_thinking_block
      /\ last_tag' = "none"
      /\ \/ loop' = "wait" /\ attempt' = 0
         \/ loop' = "submit" /\ attempt' = attempt + 1
  BY DEF StreamThrows, EndCall, NextAttempt, Quiet
<1> QED
  BY <1>1 DEF FilterInv

LEMMA CheckKeeps ==
  ASSUME FilterInv, CheckInterrupt
  PROVE  FilterInv'
<1>1. /\ voiced' = voiced /\ buffered' = buffered /\ last_tag' = last_tag /\ attempt' = attempt
      /\ \/ loop' = "wait" /\ in_thinking_block' = in_thinking_block
         \/ loop' = "submit" /\ in_thinking_block' = FALSE
  BY DEF CheckInterrupt, Quiet, NewCall
<1> QED
  BY <1>1 DEF FilterInv, CheckInterrupt

(* An interruption, a message and the end of a call leave the filter alone. *)
LEMMA WaitingKeeps ==
  ASSUME FilterInv, TakeInterrupt \/ TakeMessage \/ Submit \/ RouteResult
  PROVE  FilterInv'
<1>1. /\ voiced' = voiced /\ buffered' \in {buffered, {}} /\ last_tag' = last_tag
      /\ attempt' = attempt /\ in_thinking_block' = in_thinking_block
  BY DEF TakeInterrupt, TakeMessage, Submit, RouteResult, InterruptTurn, FlushBuffer,
         Quiet, StreamKept, streamVars
<1>2. \/ loop = "wait" /\ loop' \in {"wait", "check"}
      \/ loop = "submit" /\ loop' = "stream"
      \/ loop = "route" /\ loop' = "wait"
  BY DEF TakeInterrupt, TakeMessage, Submit, RouteResult, InterruptTurn
<1> QED
  BY <1>1, <1>2 DEF FilterInv

LEMMA FilterStep == FilterInv /\ [Next]_vars => FilterInv'
<1> SUFFICES ASSUME FilterInv, [Next]_vars PROVE FilterInv'
  OBVIOUS
<1>1. CASE \E loud \in BOOLEAN : Capture(loud)
  BY <1>1, FilterKept DEF Capture, filterVars, coreVars, loopVars
<1>2. CASE \E t \in Threads : CallStep(t)
  <2> PICK t \in Threads : CallStep(t) BY <1>2
  <2> UNCHANGED filterVars
    BY DEF CallStep, PassAudio, FlushSpeech, CancelSpeech, CancelSynthesis, DrainTexts,
           SpeakText, BargeIn, RequestInterrupt, filterVars, coreVars, loopVars
  <2> QED BY FilterKept
<1>3. CASE Loop
  BY <1>3, TokenKeeps, CompleteKeeps, ThrowKeeps, CheckKeeps, WaitingKeeps DEF Loop
<1>4. CASE AsrWorker \/ TtsWorker
  BY <1>4, FilterKept DEF AsrWorker, TtsWorker, filterVars, coreVars, loopVars
<1>5. CASE Destroy /\ MainOnly
  BY <1>5, FilterKept DEF MainOnly, filterVars, coreVars, loopVars
<1>6. CASE UNCHANGED vars
  BY <1>6, FilterKept DEF vars, filterVars, coreVars, loopVars
<1> QED BY <1>1, <1>2, <1>3, <1>4, <1>5, <1>6 DEF Next

(* The reasoning of the model is never made into a text for the synthesiser.*)
THEOREM ThoughtsStayUnspoken == Spec => []ThoughtsUnspoken
<1>1. FilterInv => ThoughtsUnspoken
  BY DEF FilterInv, ThoughtsUnspoken
<1> QED
  BY <1>1, FilterInit, FilterStep, PTL DEF Spec

-----------------------------------------------------------------------------
(* The texts that can still be heard, or were, of those handed over before  *)
(* the last cancellation: in the synthesiser's hands, in its queue, or in   *)
(* the loop thread's next call.                                             *)
Wordless == [op : {"asr_audio", "asr_flush", "asr_cancel", "interrupt", "request",
                   "tts_inactive", "tts_cancel", "tts_drain"}, arg : Nat]
CallRecord == Wordless \cup [op : {"tts_text"}, arg : Nat]
Pending(id) == \E i \in 1 .. Len(calls["loop"]) : calls["loop"][i] = Call("tts_text", id)
Queued(id) == \E i \in 1 .. Len(text_queue) : text_queue[i] = id

Remaining == {id \in stale : id \in heard_stale \/ id = text \/ Queued(id) \/ Pending(id)}

CallsInv ==
  /\ calls \in [Threads -> Seq(CallRecord)]
  /\ \A i \in 1 .. Len(calls["capture"]) : calls["capture"][i].op # "tts_text"
  /\ \A i \in 1 .. Len(calls["loop"]) :
       calls["loop"][i].op = "tts_text" => Len(calls["loop"]) = 1
  /\ captured \in Nat /\ pre_roll_buf \in Seq(Nat)

TextsInv ==
  /\ texts \in Nat /\ stale \subseteq 1 .. texts /\ heard_stale \subseteq stale
  /\ text \in Nat /\ text_queue \in Seq(Nat)
  /\ \E a, b : Remaining \subseteq {a, b} /\ (drained_by = "loop" => a = b)

(* One call less of thread t.                                               *)
LEMMA DoneKeeps ==
  ASSUME CallsInv, NEW t \in Threads, calls[t] # <<>>, Done(t),
         captured' = captured, pre_roll_buf' = pre_roll_buf
  PROVE  /\ CallsInv'
         /\ \A id : Pending(id)' => Pending(id)
         /\ t = "loop" => \A id : ~Pending(id)'
<1> DEFINE s == calls[t]
<1>1. s \in Seq(CallRecord)
  BY DEF CallsInv
<1>2. /\ Tail(s) \in Seq(CallRecord) /\ Len(Tail(s)) = Len(s) - 1 /\ Len(s) \in Nat
      /\ \A i \in 1 .. Len(Tail(s)) : Tail(s)[i] = s[i + 1] /\ i + 1 \in 1 .. Len(s)
  BY <1>1, HeadTailProperties, LenProperties
<1>3. calls' = [calls EXCEPT ![t] = Tail(s)]
  BY DEF Done
<1>4. calls' \in [Threads -> Seq(CallRecord)]
  BY <1>2, <1>3 DEF CallsInv
<1>5. CASE t = "loop"
  <2>1. calls'["loop"] = Tail(s) /\ calls'["capture"] = calls["capture"]
    BY <1>3, <1>5 DEF CallsInv, Threads
  <2>2. \A i \in 1 .. Len(Tail(s)) : Tail(s)[i].op # "tts_text"
    BY <1>2, <1>5 DEF CallsInv
  <2>3. \A id : ~Pending(id)'
    BY <2>1, <2>2 DEF Pending, Call
  <2> QED BY <1>4, <2>1, <2>2, <2>3 DEF CallsInv
<1>6. CASE t = "capture"
  <2>1. calls'["loop"] = calls["loop"] /\ calls'["capture"] = Tail(s)
    BY <1>3, <1>6 DEF CallsInv, Threads
  <2>2. \A i \in 1 .. Len(Tail(s)) : Tail(s)[i].op # "tts_text"
    BY <1>2, <1>6 DEF CallsInv
  <2> QED BY <1>4, <1>6, <2>1, <2>2 DEF CallsInv, Pending
<1> QED BY <1>5, <1>6 DEF Threads

(* What keeps, or empties, the places a stale text can be in.               *)
LEMMA NoMoreRemain ==
  ASSUME TextsInv, texts' \in Nat, texts' >= texts,
         stale' = stale, heard_stale' \subseteq stale, drained_by' = drained_by,
         text' \in Nat, text_queue' \in Seq(Nat),
         \A id \in stale : (id \in heard_stale \/ id = text \/ Queued(id) \/ Pending(id))'
                            => id \in Remaining
  PROVE  TextsInv'
<1>1. Remaining' \subseteq Remaining
  BY DEF Remaining
<1>2. stale' \subseteq 1 .. texts'
  BY DEF TextsInv
<1>3. PICK a, b : Remaining \subseteq {a, b} /\ (drained_by = "loop" => a = b)
  BY DEF TextsInv
<1>4. \E c, d : Remaining' \subseteq {c, d} /\ (drained_by' = "loop" => c = d)
  BY <1>1, <1>3
<1> QED BY <1>2, <1>4 DEF TextsInv

LEMMA CancelInit == Init => CallsInv /\ TextsInv
<1> SUFFICES ASSUME Init PROVE CallsInv /\ TextsInv
  OBVIOUS
<1>1. /\ calls = [t \in Threads |-> <<>>] /\ captured = 0 /\ pre_roll_buf = <<>>
      /\ texts = 0 /\ stale = {} /\ heard_stale = {} /\ text = 0 /\ text_queue = <<>>
  BY DEF Init, VadInit, TtsInit
<1>2. CallsInv
  BY <1>1 DEF CallsInv, Threads
<1>3. Remaining \subseteq {0, 0} /\ (drained_by = "loop" => 0 = 0)
  BY <1>1 DEF Remaining
<1>4. \E a, b : Remaining \subseteq {a, b} /\ (drained_by = "loop" => a = b)
  BY <1>3
<1>5. texts \in Nat /\ text \in Nat /\ text_queue \in Seq(Nat) /\ stale \subseteq 1 .. texts
  BY <1>1
<1> QED BY <1>1, <1>2, <1>4, <1>5 DEF TextsInv

LEMMA OneCall ==
  ASSUME NEW S, NEW c \in S
  PROVE  <<c>> \in Seq(S)
OBVIOUS

(* What the detector emits, which has no text in it.                        *)
LEMMA EmittedCalls ==
  ASSUME captured \in Nat, pre_roll_buf \in Seq(Nat), NEW loud \in BOOLEAN
  PROVE  /\ Emitted(loud) \in Seq(CallRecord)
         /\ \A i \in 1 .. Len(Emitted(loud)) : Emitted(loud)[i].op # "tts_text"
<1>1. /\ ThisFrame \in Nat
      /\ EmitAudio(ThisFrame) \in Seq(Wordless)
      /\ EmitSpeechStart \in Seq(Wordless) /\ EmitSpeechEnd \in Seq(Wordless)
  <2>1. ThisFrame \in Nat
    BY DEF ThisFrame
  <2>2. /\ Call("asr_audio", ThisFrame) \in Wordless /\ Call("interrupt", 0) \in Wordless
        /\ Call("asr_flush", 0) \in Wordless
    BY <2>1 DEF Call, Wordless, CallRecord
  <2> QED BY <2>1, <2>2, OneCall DEF EmitAudio, EmitSpeechStart, EmitSpeechEnd
<1>2. PreRoll \in Seq(Nat)
  <2>1. Append(pre_roll_buf, ThisFrame) \in Seq(Nat)
    BY <1>1
  <2> QED BY <2>1, VadAssumption DEF PreRoll, Newest, VadAssumption
<1>3. FlushPreRoll \in Seq(Wordless)
  <2>1. /\ DOMAIN PreRoll = 1 .. Len(PreRoll) /\ Len(PreRoll) \in Nat
        /\ \A i \in DOMAIN PreRoll : PreRoll[i] \in Nat
    BY <1>2
  <2>2. ASSUME NEW f \in Nat PROVE Call("asr_audio", f) \in Wordless
    BY DEF Call, Wordless, CallRecord
  <2>3. [i \in DOMAIN PreRoll |-> Call("asr_audio", PreRoll[i])] \in Seq(Wordless)
    <3> DEFINE audio == [i \in 1 .. Len(PreRoll) |-> Call("asr_audio", PreRoll[i])]
    <3>1. audio \in [1 .. Len(PreRoll) -> Wordless]
      BY <2>1, <2>2
    <3>2. audio \in Seq(Wordless)
      BY <2>1, <3>1, SeqDef
    <3> QED BY <2>1, <3>2
  <2> QED BY <1>1, <2>3 DEF FlushPreRoll
<1>4. Emitted(loud) \in Seq(Wordless)
  <2>1. <<>> \in Seq(Wordless)
    OBVIOUS
  <2>2. \A a, b \in Seq(Wordless) : a \o b \in Seq(Wordless)
    OBVIOUS
  <2> QED BY <1>1, <1>3, <2>1, <2>2 DEF Emitted, Announce, EventFirst
<1>5. /\ Emitted(loud) \in Seq(CallRecord)
      /\ \A i \in 1 .. Len(Emitted(loud)) : Emitted(loud)[i] \in Wordless
  <2> Wordless \subseteq CallRecord
    BY DEF CallRecord
  <2> QED BY <1>4, SeqMonotonic, ElementOfSeq
<1> QED BY <1>5 DEF Wordless

LEMMA CaptureKeeps ==
  ASSUME CallsInv, TextsInv, NEW loud \in BOOLEAN, Capture(loud)
  PROVE  CallsInv' /\ TextsInv'
<1>1. /\ calls' = [calls EXCEPT !["capture"] = Emitted(loud)]
      /\ captured' = ThisFrame
      /\ pre_roll_buf' \in {<<>>, PreRoll}
      /\ texts' = texts /\ UNCHANGED cancelHistory /\ text' = text /\ text_queue' = text_queue
  BY DEF Capture, VadInput, ttsVars
<1>2. captured' \in Nat /\ pre_roll_buf' \in Seq(Nat)
  <2>1. ThisFrame \in Nat /\ Append(pre_roll_buf, ThisFrame) \in Seq(Nat)
    BY DEF ThisFrame, CallsInv
  <2>2. PreRoll \in Seq(Nat)
    BY <2>1, VadAssumption DEF PreRoll, Newest, VadAssumption
  <2>3. <<>> \in Seq(Nat)
    OBVIOUS
  <2> QED BY <1>1, <2>1, <2>2, <2>3
<1>3. calls' \in [Threads -> Seq(CallRecord)]
  BY <1>1, EmittedCalls DEF CallsInv
<1>4. calls'["loop"] = calls["loop"] /\ calls'["capture"] = Emitted(loud)
  BY <1>1 DEF CallsInv, Threads
<1>5. CallsInv'
  BY <1>2, <1>3, <1>4, EmittedCalls DEF CallsInv
<1>6. TextsInv'
  <2>1. texts' \in Nat /\ texts' >= texts /\ text' \in Nat /\ text_queue' \in Seq(Nat)
        /\ stale' = stale /\ heard_stale' \subseteq stale /\ drained_by' = drained_by
    BY <1>1 DEF TextsInv, cancelHistory
  <2>2. \A id : /\ Queued(id)' = Queued(id) /\ Pending(id)' = Pending(id)
    BY <1>1, <1>4 DEF Queued, Pending
  <2>3. ASSUME NEW id \in stale, (id \in heard_stale \/ id = text \/ Queued(id) \/ Pending(id))'
        PROVE  id \in Remaining
    BY <1>1, <2>2, <2>3 DEF Remaining, cancelHistory
  <2> QED BY <2>1, <2>3, NoMoreRemain
<1> QED BY <1>5, <1>6

(* The calls that touch neither the texts nor the history of them.          *)
LEMMA QuietCallKeeps ==
  ASSUME CallsInv, TextsInv, NEW t \in Threads,
         calls[t] # <<>>, Done(t), captured' = captured, pre_roll_buf' = pre_roll_buf,
         texts' = texts, UNCHANGED cancelHistory, text' = text, text_queue' = text_queue
  PROVE  CallsInv' /\ TextsInv'
<1>1. CallsInv' /\ \A id : Pending(id)' => Pending(id)
  BY DoneKeeps
<1>2. TextsInv'
  BY <1>1, NoMoreRemain DEF TextsInv, Remaining, Queued, cancelHistory
<1> QED BY <1>1, <1>2

LEMMA SpeakKeeps ==
  ASSUME CallsInv, TextsInv, NEW t \in Threads, SpeakText(t)
  PROVE  CallsInv' /\ TextsInv'
<1>1. /\ calls[t] # <<>> /\ Head(calls[t]).op = "tts_text" /\ Done(t)
      /\ text_queue' = Append(text_queue, Head(calls[t]).arg)
      /\ captured' = captured /\ pre_roll_buf' = pre_roll_buf
      /\ texts' = texts /\ UNCHANGED cancelHistory /\ text' = text
  BY DEF SpeakText, Next1, PushText, Unchanging, vadVars, ttsVars
<1>2. CallsInv' /\ (\A id : Pending(id)' => Pending(id))
  BY <1>1, DoneKeeps
<1>3. /\ Len(calls[t]) \in Nat \ {0} /\ Head(calls[t]) = calls[t][1]
      /\ calls[t][1] \in CallRecord
  BY <1>1, EmptySeq, ElementOfSeq DEF CallsInv
<1>4. t = "loop"
  BY <1>1, <1>3 DEF CallsInv, Threads
<1>5. Pending(Head(calls[t]).arg) /\ Head(calls[t]).arg \in Nat
  <2> DEFINE c == calls[t][1]
  <2>1. c \in CallRecord /\ c.op = "tts_text"
    BY <1>1, <1>3
  <2> HIDE DEF c
  <2>2. c \in [op : {"tts_text"}, arg : Nat]
    BY <2>1 DEF CallRecord, Wordless
  <2>3. c.arg \in Nat /\ c = Call("tts_text", c.arg)
    BY <2>2 DEF Call
  <2> QED BY <1>3, <1>4, <2>3 DEF Pending, c
<1>6. /\ text_queue' \in Seq(Nat)
      /\ \A id : Queued(id)' => Queued(id) \/ id = Head(calls[t]).arg
  BY <1>1, <1>5 DEF TextsInv, Queued
<1>7. TextsInv'
  <2>1. ASSUME NEW id \in stale, (id \in heard_stale \/ id = text \/ Queued(id) \/ Pending(id))'
        PROVE  id \in Remaining
    BY <1>1, <1>2, <1>5, <1>6, <2>1 DEF Remaining, cancelHistory
  <2>2. texts' \in Nat /\ texts' >= texts /\ text' \in Nat /\ text_queue' \in Seq(Nat)
        /\ stale' = stale /\ heard_stale' \subseteq stale /\ drained_by' = drained_by
    BY <1>1, <1>6 DEF TextsInv, cancelHistory
  <2> QED BY <2>1, <2>2, NoMoreRemain
<1> QED BY <1>2, <1>7

LEMMA DrainKeeps ==
  ASSUME CallsInv, TextsInv, NEW t \in Threads, DrainTexts(t)
  PROVE  CallsInv' /\ TextsInv'
<1>1. /\ calls[t] # <<>> /\ Head(calls[t]).op = "tts_drain" /\ Done(t)
      /\ text_queue' = <<>> /\ text' = text /\ texts' = texts
      /\ captured' = captured /\ pre_roll_buf' = pre_roll_buf
      /\ stale' = 1 .. texts /\ heard_stale' = {} /\ drained_by' = t
  BY DEF DrainTexts, Next1, Drain, Drained, Empty, Unchanging, vadVars
<1>2. CallsInv' /\ (t = "loop" => \A id : ~Pending(id)')
  BY <1>1, DoneKeeps
<1>3. \A id : ~Queued(id)'
  BY <1>1 DEF Queued
<1>4. PICK b : \A id : Pending(id)' => id = b
  <2>1. /\ calls' \in [Threads -> Seq(CallRecord)]
        /\ \A i \in 1 .. Len(calls'["loop"]) :
             calls'["loop"][i].op = "tts_text" => Len(calls'["loop"]) = 1
    BY <1>2 DEF CallsInv
  <2>2. calls'["loop"] \in Seq(CallRecord) /\ Len(calls'["loop"]) \in Nat
    BY <2>1 DEF Threads
  <2>3. ASSUME NEW id, Pending(id)' PROVE calls'["loop"][1] = Call("tts_text", id)
    <3> PICK i \in 1 .. Len(calls'["loop"]) : calls'["loop"][i] = Call("tts_text", id)
      BY <2>3 DEF Pending
    <3>1. calls'["loop"][i].op = "tts_text"
      BY DEF Call
    <3> QED BY <2>1, <2>2, <3>1
  <2> DEFINE c == calls'["loop"][1]
  <2>4. ASSUME NEW id, Pending(id)' PROVE id = c.arg
    <3>1. c = Call("tts_text", id)
      BY <2>3, <2>4
    <3> HIDE DEF c
    <3> QED BY <3>1 DEF Call
  <2> QED BY <2>4
<1>5. Remaining' \subseteq {text, IF t = "loop" THEN text ELSE b}
  BY <1>1, <1>2, <1>3, <1>4 DEF Remaining
<1>6. \E c, d : Remaining' \subseteq {c, d} /\ (drained_by' = "loop" => c = d)
  BY <1>1, <1>5
<1>7. text_queue' \in Seq(Nat) /\ texts' \in Nat /\ text' \in Nat /\ stale' \subseteq 1 .. texts'
  BY <1>1 DEF TextsInv
<1>8. TextsInv'
  BY <1>1, <1>6, <1>7 DEF TextsInv
<1> QED BY <1>2, <1>8
LEMMA CancelKept ==
  CallsInv /\ TextsInv
    /\ UNCHANGED <<calls, captured, pre_roll_buf, texts, cancelHistory, text, text_queue>>
  => CallsInv' /\ TextsInv'
BY DEF CallsInv, TextsInv, Remaining, Pending, Queued, cancelHistory

(* An interruption makes a thread cancel, which hands over no text.         *)
LEMMA WordlessKeeps ==
  ASSUME CallsInv, NEW t \in Threads, NEW s \in Seq(Wordless),
         calls' = [calls EXCEPT ![t] = s],
         captured' = captured, pre_roll_buf' = pre_roll_buf
  PROVE  CallsInv' /\ \A id : Pending(id)' => Pending(id)
<1>1. s \in Seq(CallRecord) /\ \A i \in 1 .. Len(s) : s[i].op # "tts_text"
  <2>1. Wordless \subseteq CallRecord
    BY DEF CallRecord
  <2>2. s \in Seq(CallRecord)
    BY <2>1, SeqMonotonic
  <2>3. \A i \in 1 .. Len(s) : s[i] \in Wordless
    BY ElementOfSeq
  <2> QED BY <2>2, <2>3 DEF Wordless
<1>2. calls' \in [Threads -> Seq(CallRecord)]
  BY <1>1 DEF CallsInv
<1>3. CASE t = "loop"
  <2>1. calls'["loop"] = s /\ calls'["capture"] = calls["capture"]
    BY <1>3 DEF CallsInv, Threads
  <2>2. \A id : ~Pending(id)'
    BY <1>1, <2>1 DEF Pending, Call
  <2> QED BY <1>1, <1>2, <2>1, <2>2 DEF CallsInv
<1>4. CASE t = "capture"
  <2>1. calls'["loop"] = calls["loop"] /\ calls'["capture"] = s
    BY <1>4 DEF CallsInv, Threads
  <2> QED BY <1>1, <1>2, <2>1 DEF CallsInv, Pending
<1> QED BY <1>3, <1>4 DEF Threads

LEMMA FourCalls ==
  ASSUME NEW S, NEW a \in S, NEW b \in S, NEW c \in S, NEW d \in S
  PROVE  <<a, b, c, d>> \in Seq(S)
OBVIOUS

LEMMA CancelFrameType == CancelFrame \in Seq(Wordless)
<1>1. /\ Call("asr_cancel", 0) \in Wordless /\ Call("tts_inactive", 0) \in Wordless
      /\ Call("tts_cancel", 0) \in Wordless /\ Call("tts_drain", 0) \in Wordless
  BY DEF Call, Wordless
<1> QED BY <1>1, FourCalls DEF CancelFrame

LEMMA TailWordless ==
  ASSUME CallsInv, NEW t \in Threads, calls[t] # <<>>
  PROVE  Tail(calls[t]) \in Seq(Wordless)
<1> DEFINE s == calls[t]
<1>1. s \in Seq(CallRecord)
  BY DEF CallsInv
<1>2. /\ Tail(s) \in Seq(CallRecord) /\ Len(Tail(s)) = Len(s) - 1 /\ Len(s) \in Nat
      /\ \A i \in 1 .. Len(Tail(s)) : Tail(s)[i] = s[i + 1] /\ i + 1 \in 1 .. Len(s)
  BY <1>1, HeadTailProperties, LenProperties
<1>3. \A i \in 1 .. Len(Tail(s)) : Tail(s)[i] \in CallRecord
  BY <1>2, ElementOfSeq
<1>4. \A i \in 1 .. Len(Tail(s)) : Tail(s)[i].op # "tts_text"
  <2>1. CASE t = "loop"
    BY <1>2, <2>1 DEF CallsInv
  <2>2. CASE t = "capture"
    BY <1>2, <2>2 DEF CallsInv
  <2> QED BY <2>1, <2>2 DEF Threads
<1> DEFINE rest == Tail(s)
<1>5. rest \in Seq(CallRecord) /\ Len(rest) \in Nat
      /\ \A i \in 1 .. Len(rest) : rest[i] \in CallRecord /\ rest[i].op # "tts_text"
  BY <1>2, <1>3, <1>4
<1> HIDE DEF rest
<1>6. \A i \in 1 .. Len(rest) : rest[i] \in Wordless
  BY <1>5 DEF CallRecord
<1>7. rest \in [1 .. Len(rest) -> Wordless]
  BY <1>5, <1>6, LenProperties
<1>8. rest \in Seq(Wordless)
  BY <1>5, <1>7, SeqDef
<1> QED BY <1>8 DEF rest

LEMMA BargeInKeeps ==
  ASSUME CallsInv, TextsInv, NEW t \in Threads, BargeIn(t)
  PROVE  CallsInv' /\ TextsInv'
<1>1. /\ calls[t] # <<>>
      /\ captured' = captured /\ pre_roll_buf' = pre_roll_buf
      /\ texts' = texts /\ UNCHANGED cancelHistory /\ text' = text /\ text_queue' = text_queue
  BY DEF BargeIn, Next1, Unchanging, vadVars, ttsVars
<1> DEFINE frames == CancelFrame \o <<Call("request", 0)>> \o Tail(calls[t])
<1>2. calls' = [calls EXCEPT ![t] = frames]
  BY DEF BargeIn
<1>3. frames \in Seq(Wordless)
  <2>1. Call("request", 0) \in Wordless
    BY DEF Call, Wordless
  <2>2. <<Call("request", 0)>> \in Seq(Wordless)
    BY <2>1, OneCall
  <2> DEFINE rest == Tail(calls[t])
             one == <<Call("request", 0)>>
  <2>3. rest \in Seq(Wordless)
    BY <1>1, TailWordless
  <2> HIDE DEF rest, one
  <2>4. one \in Seq(Wordless) /\ CancelFrame \in Seq(Wordless)
    BY <2>2, CancelFrameType DEF one
  <2>5. (CancelFrame \o one) \o rest \in Seq(Wordless)
    BY <2>3, <2>4
  <2> QED BY <2>5 DEF rest, one
<1> HIDE DEF frames
<1>4. CallsInv' /\ \A id : Pending(id)' => Pending(id)
  BY <1>1, <1>2, <1>3, WordlessKeeps
<1>5. TextsInv'
  BY <1>1, <1>4, NoMoreRemain DEF TextsInv, Remaining, Queued, cancelHistory
<1> QED BY <1>4, <1>5

LEMMA CallStepKeeps ==
  ASSUME CallsInv, TextsInv, NEW t \in Threads, CallStep(t)
  PROVE  CallsInv' /\ TextsInv'
<1>1. CASE PassAudio(t) \/ FlushSpeech(t) \/ CancelSpeech(t) \/ CancelSynthesis(t)
           \/ RequestInterrupt(t)
  <2>1. /\ calls[t] # <<>> /\ Done(t) /\ captured' = captured /\ pre_roll_buf' = pre_roll_buf
        /\ texts' = texts /\ UNCHANGED cancelHistory /\ text' = text /\ text_queue' = text_queue
    BY <1>1 DEF PassAudio, FlushSpeech, CancelSpeech, CancelSynthesis, RequestInterrupt, Next1,
                TtsInactive, CancelClient, Unchanging, vadVars, ttsVars
  <2> QED BY <2>1, QuietCallKeeps
<1>2. CASE DrainTexts(t)
  BY <1>2, DrainKeeps
<1>3. CASE SpeakText(t)
  BY <1>3, SpeakKeeps
<1>4. CASE BargeIn(t)
  BY <1>4, BargeInKeeps
<1> QED BY <1>1, <1>2, <1>3, <1>4 DEF CallStep

(* The loop thread sends a text no cancellation knows of, or cancels, or    *)
(* leaves the calls alone.                                                  *)
LEMMA LoopSends ==
  ASSUME Loop
  PROVE  \/ Quiet
         \/ \E kinds : SendText(kinds)
         \/ Send(CancelFrame \o CancelFrame) /\ texts' = texts
<1>1. CASE TakeInterrupt \/ TakeMessage
  BY <1>1 DEF TakeInterrupt, TakeMessage, InterruptTurn
<1>2. CASE CheckInterrupt \/ Submit \/ StreamThrows \/ RouteResult
  BY <1>2 DEF CheckInterrupt, Submit, StreamThrows, RouteResult
<1>3. CASE \E kind \in Kinds : Token(kind)
  BY <1>3 DEF Token
<1>4. CASE StreamComplete
  BY <1>4 DEF StreamComplete
<1> QED BY <1>1, <1>2, <1>3, <1>4 DEF Loop

LEMMA LoopKeeps ==
  ASSUME CallsInv, TextsInv, Loop
  PROVE  CallsInv' /\ TextsInv'
<1>1. /\ calls["loop"] = <<>> /\ captured' = captured /\ pre_roll_buf' = pre_roll_buf
      /\ UNCHANGED cancelHistory /\ text' = text /\ text_queue' = text_queue
  BY DEF Loop, LoopFree, LoopFrame, vadVars, ttsVars
<1>2. "loop" \in Threads
  BY DEF Threads
<1>3. CASE Quiet
  BY <1>1, <1>3, CancelKept DEF Quiet, cancelHistory
<1>4. CASE Send(CancelFrame \o CancelFrame) /\ texts' = texts
  <2>1. PICK frames \in Seq(Wordless) : calls' = [calls EXCEPT !["loop"] = frames]
    <3>1. CancelFrame \o CancelFrame \in Seq(Wordless) /\ <<>> \in Seq(Wordless)
      BY CancelFrameType
    <3> QED BY <1>4, <3>1 DEF Send
  <2>2. CallsInv' /\ \A id : Pending(id)' => Pending(id)
    BY <1>1, <1>2, <2>1, WordlessKeeps
  <2>3. TextsInv'
    BY <1>1, <1>4, <2>2, NoMoreRemain DEF TextsInv, Remaining, Queued, cancelHistory
  <2> QED BY <2>2, <2>3
<1>5. CASE \E kinds : SendText(kinds)
  <2> DEFINE new == Call("tts_text", texts + 1)
  <2>1. /\ texts' = texts + 1
        /\ \/ calls' = [calls EXCEPT !["loop"] = <<new>>]
           \/ calls' = [calls EXCEPT !["loop"] = <<>>]
    BY <1>5 DEF SendText, Send
  <2>2. texts \in Nat /\ new \in CallRecord /\ new.op = "tts_text" /\ new.arg = texts + 1
    BY DEF TextsInv, CallRecord, Call
  <2> HIDE DEF new
  <2>3. calls'["capture"] = calls["capture"] /\ calls'["loop"] \in {<<new>>, <<>>}
    BY <2>1 DEF CallsInv, Threads
  <2>4. <<new>> \in Seq(CallRecord) /\ <<>> \in Seq(CallRecord)
    BY <2>2, OneCall
  <2>5. calls' \in [Threads -> Seq(CallRecord)]
    BY <1>2, <2>1, <2>4 DEF CallsInv
  <2>6. CallsInv'
    BY <1>1, <2>3, <2>5 DEF CallsInv
  <2>7. \A id : Pending(id)' => id = texts + 1
    <3> SUFFICES ASSUME NEW id, NEW i \in 1 .. Len(calls'["loop"]),
                        calls'["loop"][i] = Call("tts_text", id)
                 PROVE  id = texts + 1
      BY DEF Pending
    <3>1. calls'["loop"][i] = new
      BY <2>3
    <3>2. new.arg = id
      BY <3>1 DEF Call
    <3> QED BY <2>2, <3>2
  <2>8. TextsInv'
    <3>1. \A id \in stale : id # texts + 1
      BY DEF TextsInv
    <3>2. texts' \in Nat /\ texts' >= texts
      BY <2>1, <2>2
    <3> QED BY <1>1, <2>7, <3>1, <3>2, NoMoreRemain DEF TextsInv, Remaining, Queued, cancelHistory
  <2> QED BY <2>6, <2>8
<1> QED BY <1>3, <1>4, <1>5, LoopSends

LEMMA TtsWorkerKeeps ==
  ASSUME CallsInv, TextsInv, TtsWorker
  PROVE  CallsInv' /\ TextsInv'
<1>1. calls' = calls /\ captured' = captured /\ pre_roll_buf' = pre_roll_buf /\ texts' = texts
  BY DEF TtsWorker, vadVars
<1>2. CallsInv' /\ \A id : Pending(id)' = Pending(id)
  BY <1>1 DEF CallsInv, Pending
<1>3. CASE Hear
  <2>1. /\ text' = text /\ text_queue' = text_queue /\ stale' = stale
        /\ drained_by' = drained_by /\ heard_stale' = heard_stale \cup ({text} \cap stale)
    BY <1>3 DEF Hear, ttsVars
  <2> QED BY <1>1, <1>2, <2>1, NoMoreRemain DEF TextsInv, Remaining, Queued
<1>4. CASE PopText /\ UNCHANGED cancelHistory
  <2>1. text_queue \in Seq(Nat) /\ text_queue # <<>>
        /\ text' = Head(text_queue) /\ text_queue' = Tail(text_queue)
    BY <1>4 DEF PopText, TextsInv
  <2>2. /\ text' \in Nat /\ text' = text_queue[1] /\ 1 \in 1 .. Len(text_queue)
        /\ text_queue' \in Seq(Nat) /\ Len(text_queue') = Len(text_queue) - 1
        /\ \A i \in 1 .. Len(text_queue') :
             text_queue'[i] = text_queue[i + 1] /\ i + 1 \in 1 .. Len(text_queue)
    BY <2>1, HeadTailProperties, LenProperties, EmptySeq
  <2>3. \A id : id = text' \/ Queued(id)' => Queued(id)
    BY <2>2 DEF Queued
  <2>4. stale' = stale /\ heard_stale' = heard_stale /\ drained_by' = drained_by
    BY <1>4 DEF cancelHistory
  <2> QED BY <1>1, <1>2, <2>2, <2>3, <2>4, NoMoreRemain DEF TextsInv, Remaining
<1>5. CASE (BeginSynthesis \/ EndSynthesis \/ TtsEnds) /\ UNCHANGED cancelHistory
  <2>1. /\ text' \in {text, 0} /\ text_queue' = text_queue
        /\ stale' = stale /\ heard_stale' = heard_stale /\ drained_by' = drained_by
    BY <1>5 DEF BeginSynthesis, EndSynthesis, TtsEnds, cancelHistory
  <2>2. \A id \in stale : id # 0
    BY DEF TextsInv
  <2>3. \A id : Queued(id)' = Queued(id)
    BY <2>1 DEF Queued
  <2>4. ASSUME NEW id \in stale, (id \in heard_stale \/ id = text \/ Queued(id) \/ Pending(id))'
        PROVE  id \in Remaining
    BY <1>2, <2>1, <2>2, <2>3, <2>4 DEF Remaining
  <2>5. texts' \in Nat /\ texts' >= texts /\ text_queue' \in Seq(Nat) /\ heard_stale' \subseteq stale
    BY <1>1, <2>1 DEF TextsInv
  <2>6. text' \in Nat
    BY <2>1 DEF TextsInv
  <2> QED BY <1>2, <2>1, <2>4, <2>5, <2>6, NoMoreRemain
<1> QED BY <1>3, <1>4, <1>5 DEF TtsWorker

LEMMA CancelStep == CallsInv /\ TextsInv /\ [Next]_vars => CallsInv' /\ TextsInv'
<1> SUFFICES ASSUME CallsInv, TextsInv, [Next]_vars PROVE CallsInv' /\ TextsInv'
  OBVIOUS
<1>1. CASE \E loud \in BOOLEAN : Capture(loud)
  BY <1>1, CaptureKeeps
<1>2. CASE \E t \in Threads : CallStep(t)
  BY <1>2, CallStepKeeps
<1>3. CASE Loop
  BY <1>3, LoopKeeps
<1>4. CASE AsrWorker
  BY <1>4, CancelKept DEF AsrWorker, vadVars, ttsVars
<1>5. CASE TtsWorker
  BY <1>5, TtsWorkerKeeps
<1>6. CASE Destroy /\ MainOnly
  <2>1. text' = text /\ text_queue' = text_queue
    BY <1>6 DEF Destroy, ttsVars, TtsInactive, CancelClient, TtsStopFlag
  <2> QED BY <1>6, <2>1, CancelKept DEF MainOnly, vadVars
<1>7. CASE UNCHANGED vars
  BY <1>7, CancelKept DEF vars, vadVars, ttsVars
<1> QED BY <1>1, <1>2, <1>3, <1>4, <1>5, <1>6, <1>7 DEF Next

(* After a cancellation at most the text in the synthesiser's hands and the *)
(* one being handed over are heard, of those that came before it.           *)
THEOREM CancellationSilences == Spec => []CancelledTextsSilent
<1>1. CallsInv /\ TextsInv => CancelledTextsSilent
  <2> SUFFICES ASSUME TextsInv PROVE CancelledTextsSilent
    OBVIOUS
  <2>1. PICK a, b : Remaining \subseteq {a, b} /\ (drained_by = "loop" => a = b)
    BY DEF TextsInv
  <2>2. heard_stale \subseteq {a, b}
    BY <2>1 DEF TextsInv, Remaining
  <2>3. /\ IsFiniteSet({b}) /\ Cardinality({b}) = 1
        /\ IsFiniteSet({b} \cup {a}) /\ Cardinality({b} \cup {a}) <= 2
        /\ Cardinality({b} \cup {a}) \in Nat
    <3>1. IsFiniteSet({b}) /\ Cardinality({b}) = 1
      BY FS_Singleton
    <3>2. /\ IsFiniteSet({b} \cup {a})
          /\ Cardinality({b} \cup {a}) = IF a \in {b} THEN Cardinality({b}) ELSE Cardinality({b}) + 1
      BY <3>1, FS_AddElement, Zenon
    <3>3. Cardinality({b} \cup {a}) = 1 \/ Cardinality({b} \cup {a}) = 2
      BY <3>1, <3>2
    <3> QED BY <3>1, <3>2, <3>3
  <2>4. {a, b} = {b} \cup {a} /\ (a = b => {a, b} = {b})
    OBVIOUS
  <2>5. /\ Cardinality(heard_stale) \in Nat
        /\ Cardinality(heard_stale) <= Cardinality({a, b})
    BY <2>2, <2>3, <2>4, FS_Subset, FS_CardinalityType
  <2> QED BY <2>1, <2>3, <2>4, <2>5 DEF CancelledTextsSilent
<1> QED
  BY <1>1, CancelInit, CancelStep, PTL DEF Spec

-----------------------------------------------------------------------------
(* The calls of each thread.  Frames and flushes are the capturing thread's, *)
(* texts the loop's.                                                         *)
CaptureCall == [op : {"asr_audio", "asr_flush", "interrupt", "request", "asr_cancel",
                      "tts_inactive", "tts_cancel", "tts_drain"}, arg : Nat]
LoopCall == [op : {"asr_cancel", "tts_inactive", "tts_cancel", "tts_drain"}, arg : Nat]
              \cup [op : {"tts_text"}, arg : Nat \ {0}]

CallTypes ==
  /\ DOMAIN calls = Threads
  /\ calls["capture"] \in Seq(CaptureCall) /\ calls["loop"] \in Seq(LoopCall)

(* The parts of the type invariant that change together.                    *)
LoopTypes ==
  /\ turn \in BOOLEAN /\ interrupt_requested \in BOOLEAN /\ llm_cancelled \in BOOLEAN
  /\ loop \in {"wait", "check", "submit", "stream", "route"}
  /\ loop # "wait" => turn
  /\ observations \in Seq({"interrupt", "message"})

TextTypes == heard_stale \subseteq stale /\ texts \in 0 .. MaxTexts

VoiceInv == VadTypeOK /\ AsrTypeOK /\ TtsTypeOK /\ LoopTypes /\ TextTypes /\ CallTypes


LEMMA VoiceInit == Init => VoiceInv
<1> SUFFICES ASSUME Init PROVE VoiceInv
  OBVIOUS
<1>1. VadTypeOK
  <2>1. /\ captured = 0 /\ rms_window = <<>> /\ in_speech = FALSE
        /\ onset_counter = 0 /\ hangover_counter = 0 /\ pre_roll_buf = <<>>
    BY DEF Init, VadInit
  <2>2. /\ 0 \in 0 .. MaxFrames /\ 0 \in 0 .. SpeechOnsetFrames - 1
        /\ 0 \in 0 .. SilenceHangoverFrames - 1
    BY VadAssumption DEF VadAssumption
  <2>3. \A S : <<>> \in Seq(S)
    OBVIOUS
  <2>4. Len(<<>>) = 0 /\ 0 <= RmsWindowFrames /\ 0 <= PreRollFrames
    BY VadAssumption DEF VadAssumption
  <2> QED BY <2>1, <2>2, <2>3, <2>4 DEF VadTypeOK
<1>2. AsrTypeOK
  <2>1. /\ asr_active = TRUE /\ audio_buffer = <<>> /\ task_queue = <<>>
        /\ transcribing = <<>> /\ asr_stop = FALSE /\ asr_ended = FALSE
    BY DEF Init, AsrInit
  <2>2. <<>> \in Seq(Nat) /\ <<>> \in Seq(Seq(Nat) \ {<<>>})
    OBVIOUS
  <2> QED BY <2>1, <2>2 DEF AsrTypeOK
<1>3. TtsTypeOK
  <2>1. /\ tts_active = TRUE /\ cancel_requested = FALSE /\ text_queue = <<>>
        /\ text = 0 /\ streaming = FALSE /\ tts_stop = FALSE /\ tts_ended = FALSE
    BY DEF Init, TtsInit
  <2>2. <<>> \in Seq(Nat \ {0}) /\ 0 \in Nat
    OBVIOUS
  <2> QED BY <2>1, <2>2 DEF TtsTypeOK
<1>4. LoopTypes
  <2>1. /\ turn = FALSE /\ loop = "wait" /\ observations = <<>> /\ interrupt_requested = FALSE
        /\ llm_cancelled = FALSE
    BY DEF Init
  <2>2. <<>> \in Seq({"interrupt", "message"})
    OBVIOUS
  <2> QED BY <2>1, <2>2 DEF LoopTypes
<1>5. TextTypes
  BY VoiceAssumption DEF Init, TextTypes, VoiceAssumption
<1>6. CallTypes
  <2>1. calls = [t \in Threads |-> <<>>]
    BY DEF Init
  <2>2. \A S : <<>> \in Seq(S)
    OBVIOUS
  <2> QED BY <2>1, <2>2 DEF CallTypes, Threads
<1> QED BY <1>1, <1>2, <1>3, <1>4, <1>5, <1>6 DEF VoiceInv

(* A deque cut down from the front.                                         *)
EndOf(r, s, n) ==
  /\ r = Newest(s, n) /\ Len(r) <= n /\ Len(r) = IF Len(s) > n THEN n ELSE Len(s)
  /\ \A i \in 1 .. Len(r) : r[i] = s[Len(s) - Len(r) + i]

LEMMA NewestOf ==
  ASSUME NEW S, NEW s \in Seq(S), NEW n \in Nat
  PROVE  \E r \in Seq(S) : EndOf(r, s, n)
<1> PICK r : r = Newest(s, n)
  OBVIOUS
<1> SUFFICES r \in Seq(S) /\ EndOf(r, s, n)
  OBVIOUS
<1>1. Len(s) \in Nat /\ \A i \in 1 .. Len(s) : s[i] \in S
  BY LenProperties, ElementOfSeq
<1>2. CASE Len(s) > n
  <2>1. PICK m : m = Len(s) - n + 1 /\ m \in Int /\ m >= 1
    BY <1>1, <1>2
  <2>2. r = SubSeq(s, m, Len(s))
    BY <1>2, <2>1 DEF Newest
  <2>3. \A i \in m .. Len(s) : s[i] \in S
    BY <1>1, <2>1
  <2>4. /\ r \in Seq(S) /\ Len(r) = IF m <= Len(s) THEN Len(s) - m + 1 ELSE 0
        /\ \A i \in 1 .. Len(s) - m + 1 : r[i] = s[m + i - 1]
    BY <1>1, <2>1, <2>2, <2>3, SubSeqProperties
  <2>5. Len(r) = n
    BY <1>1, <2>1, <2>4
  <2>6. ASSUME NEW i \in 1 .. Len(r) PROVE r[i] = s[Len(s) - Len(r) + i]
    <3>1. i \in 1 .. Len(s) - m + 1 /\ m + i - 1 = Len(s) - Len(r) + i
      BY <1>1, <2>1, <2>5
    <3> QED BY <2>4, <3>1
  <2> QED BY <1>2, <2>4, <2>5, <2>6 DEF EndOf
<1>3. CASE ~(Len(s) > n)
  <2>1. r = s
    BY <1>3 DEF Newest
  <2> QED BY <1>1, <1>3, <2>1 DEF EndOf
<1> QED BY <1>2, <1>3

LEMMA CaptureTypes ==
  ASSUME VadTypeOK, NEW loud \in BOOLEAN, VadInput(loud)
  PROVE  VadTypeOK'
<1>1. /\ RmsWindowFrames \in Nat /\ SpeechOnsetFrames \in Nat \ {0}
      /\ SilenceHangoverFrames \in Nat \ {0} /\ PreRollFrames \in Nat /\ MaxFrames \in Nat
  BY VadAssumption DEF VadAssumption
<1>2. captured \in Nat /\ captured' = captured + 1 /\ captured' \in 0 .. MaxFrames
  BY <1>1 DEF VadTypeOK, VadInput, ThisFrame
<1>3. rms_window' \in Seq(BOOLEAN) /\ Len(rms_window') <= RmsWindowFrames
  <2> Append(rms_window, loud) \in Seq(BOOLEAN)
    BY AppendProperties DEF VadTypeOK
  <2>1. PICK s \in Seq(BOOLEAN) : s = Append(rms_window, loud)
    OBVIOUS
  <2>2. rms_window' = Newest(s, RmsWindowFrames)
    BY <2>1 DEF VadInput, Window
  <2> QED BY <1>1, <2>2, NewestOf DEF EndOf
<1>4. in_speech' \in BOOLEAN
  BY DEF VadTypeOK, VadInput
<1>5. onset_counter' \in 0 .. SpeechOnsetFrames - 1
  BY <1>1 DEF VadTypeOK, VadInput, Starts
<1>6. hangover_counter' \in 0 .. SilenceHangoverFrames - 1
  BY <1>1 DEF VadTypeOK, VadInput, Ends
<1>7. PreRoll \in Seq(1 .. captured') /\ Len(PreRoll) <= PreRollFrames
  <2>1. 1 .. captured \subseteq 1 .. captured' /\ captured' \in 1 .. captured'
    BY <1>2
  <2>2. pre_roll_buf \in Seq(1 .. captured')
    BY <2>1, SeqMonotonic DEF VadTypeOK
  <2> Append(pre_roll_buf, captured') \in Seq(1 .. captured')
    BY <2>1, <2>2, AppendProperties
  <2>3. PICK s \in Seq(1 .. captured') : s = Append(pre_roll_buf, captured')
    OBVIOUS
  <2>4. PICK r : r = PreRoll
    OBVIOUS
  <2>5. r = Newest(s, PreRollFrames)
    BY <1>2, <2>3, <2>4 DEF PreRoll, ThisFrame
  <2> QED BY <1>1, <2>4, <2>5, NewestOf DEF EndOf
<1>8. pre_roll_buf' \in Seq(1 .. captured') /\ Len(pre_roll_buf') <= PreRollFrames
  <2>1. <<>> \in Seq(1 .. captured') /\ Len(<<>>) <= PreRollFrames
    BY <1>1
  <2> QED BY <1>7, <2>1 DEF VadInput
<1>9. in_speech' => onset_counter' = 0 /\ pre_roll_buf' = <<>>
  BY DEF VadInput
<1> QED BY <1>2, <1>3, <1>4, <1>5, <1>6, <1>8, <1>9 DEF VadTypeOK

(* The next call of a thread, and what is left after it.                    *)
LEMMA NextCall ==
  ASSUME CallTypes, NEW t \in Threads, calls[t] # <<>>
  PROVE  /\ Head(calls[t]).arg \in Nat
         /\ Head(calls[t]).op = "tts_text" => t = "loop" /\ Head(calls[t]).arg # 0
         /\ Head(calls[t]).op \in {"asr_audio", "asr_flush", "interrupt", "request"} => t = "capture"
         /\ Done(t) => CallTypes'
<1>1. CASE t = "capture"
  <2>1. PICK s \in Seq(CaptureCall) : s = calls[t] /\ s # <<>>
    BY <1>1 DEF CallTypes
  <2>2. Head(s) \in CaptureCall /\ Tail(s) \in Seq(CaptureCall)
    BY <2>1
  <2>3. Done(t) => CallTypes'
    BY <1>1, <2>1, <2>2 DEF Done, CallTypes, Threads
  <2> QED BY <1>1, <2>1, <2>2, <2>3 DEF CaptureCall
<1>2. CASE t = "loop"
  <2>1. PICK s \in Seq(LoopCall) : s = calls[t] /\ s # <<>>
    BY <1>2 DEF CallTypes
  <2>2. Head(s) \in LoopCall /\ Tail(s) \in Seq(LoopCall)
    BY <2>1
  <2>3. Done(t) => CallTypes'
    BY <1>2, <2>1, <2>2 DEF Done, CallTypes, Threads
  <2> QED BY <1>2, <2>1, <2>2, <2>3 DEF LoopCall
<1> QED BY <1>1, <1>2 DEF Threads

AsrStep ==
  \/ \E frame \in Nat : AsrAudio(frame)
  \/ CancelTranscription \/ Flush \/ AsrTake \/ Transcribed \/ AsrEnds
  \/ AsrInactive \/ AsrStopFlag \/ UNCHANGED asrVars

LEMMA AsrTypes == AsrTypeOK /\ AsrStep => AsrTypeOK'
<1> SUFFICES ASSUME AsrTypeOK, AsrStep PROVE AsrTypeOK'
  OBVIOUS
<1>1. /\ asr_active' \in BOOLEAN /\ asr_stop' \in BOOLEAN /\ asr_ended' \in BOOLEAN
  <2>1. /\ asr_active' \in {asr_active, FALSE} /\ asr_stop' \in {asr_stop, TRUE}
        /\ asr_ended' \in {asr_ended, TRUE}
    BY DEF AsrStep, AsrAudio, CancelTranscription, Flush, AsrTake, Transcribed, AsrEnds,
           AsrInactive, AsrStopFlag, asrVars
  <2> QED BY <2>1 DEF AsrTypeOK
<1>2. audio_buffer' \in Seq(Nat)
  <2>1. CASE \E frame \in Nat : AsrAudio(frame)
    BY <2>1, AppendProperties DEF AsrAudio, AsrTypeOK
  <2>2. CASE ~\E frame \in Nat : AsrAudio(frame)
    <3>1. audio_buffer' = audio_buffer \/ audio_buffer' = <<>>
      BY <2>2 DEF AsrStep, CancelTranscription, Flush, AsrTake, Transcribed, AsrEnds,
             AsrInactive, AsrStopFlag, asrVars
    <3>2. <<>> \in Seq(Nat)
      OBVIOUS
    <3> QED BY <3>1, <3>2 DEF AsrTypeOK
  <2> QED BY <2>1, <2>2
<1>3. CASE Flush /\ Flushes
  <2>1. audio_buffer \in Seq(Nat) /\ audio_buffer # <<>> /\ transcribing' = transcribing
        /\ task_queue' = Append(task_queue, audio_buffer)
    BY <1>3 DEF Flush, Flushes, AsrTypeOK
  <2>2. audio_buffer \in Seq(Nat) \ {<<>>}
    BY <2>1
  <2>3. task_queue' \in Seq(Seq(Nat) \ {<<>>})
    BY <2>1, <2>2, AppendProperties DEF AsrTypeOK
  <2> QED BY <1>1, <1>2, <2>1, <2>3 DEF AsrTypeOK
<1>4. CASE AsrTake
  <2>1. /\ task_queue \in Seq(Seq(Nat) \ {<<>>}) /\ task_queue # <<>>
        /\ transcribing' = Head(task_queue) /\ task_queue' = Tail(task_queue)
    BY <1>4 DEF AsrTake, AsrTypeOK
  <2>2. transcribing' \in Seq(Nat) \ {<<>>} /\ task_queue' \in Seq(Seq(Nat) \ {<<>>})
    BY <2>1, HeadTailProperties
  <2> QED BY <1>1, <1>2, <2>2 DEF AsrTypeOK
<1>5. CASE ~(Flush /\ Flushes) /\ ~AsrTake
  <2>1. task_queue' = task_queue
    BY <1>5 DEF AsrStep, AsrAudio, CancelTranscription, Flush, Transcribed, AsrEnds,
           AsrInactive, AsrStopFlag, asrVars
  <2>2. transcribing' = transcribing \/ transcribing' = <<>>
    BY <1>5 DEF AsrStep, AsrAudio, CancelTranscription, Flush, Transcribed, AsrEnds,
           AsrInactive, AsrStopFlag, asrVars
  <2>3. <<>> \in Seq(Nat)
    OBVIOUS
  <2> QED BY <1>1, <1>2, <2>1, <2>2, <2>3 DEF AsrTypeOK
<1> QED BY <1>3, <1>4, <1>5

TtsStep ==
  \/ \E id \in Nat \ {0} : PushText(id)
  \/ TtsInactive \/ CancelClient \/ Drain \/ PopText \/ BeginSynthesis \/ EndSynthesis
  \/ TtsEnds \/ TtsStopFlag \/ UNCHANGED ttsVars

LEMMA TtsTypes == TtsTypeOK /\ TtsStep => TtsTypeOK'
<1> SUFFICES ASSUME TtsTypeOK, TtsStep PROVE TtsTypeOK'
  OBVIOUS
<1>1. /\ tts_active' \in {tts_active, TRUE, FALSE} /\ tts_stop' \in {tts_stop, TRUE}
      /\ cancel_requested' \in {cancel_requested, TRUE, FALSE}
      /\ streaming' \in {streaming, TRUE, FALSE} /\ tts_ended' \in {tts_ended, TRUE}
  BY DEF TtsStep, PushText, TtsInactive, CancelClient, Drain, PopText, BeginSynthesis,
         EndSynthesis, TtsEnds, TtsStopFlag, ttsVars
<1>2. /\ tts_active' \in BOOLEAN /\ cancel_requested' \in BOOLEAN /\ streaming' \in BOOLEAN
      /\ tts_stop' \in BOOLEAN /\ tts_ended' \in BOOLEAN
  BY <1>1 DEF TtsTypeOK
<1>3. CASE \E id \in Nat \ {0} : PushText(id)
  <2>1. PICK id \in Nat \ {0} : PushText(id)
    BY <1>3
  <2>2. text_queue' \in Seq(Nat \ {0})
    BY <2>1, AppendProperties DEF PushText, TtsTypeOK
  <2> QED BY <1>2, <2>1, <2>2 DEF PushText, TtsTypeOK
<1>4. CASE PopText
  <2>1. /\ text_queue \in Seq(Nat \ {0}) /\ text_queue # <<>> /\ streaming' = streaming
        /\ text' = Head(text_queue) /\ text_queue' = Tail(text_queue)
    BY <1>4 DEF PopText, TtsTypeOK
  <2>2. text' \in Nat \ {0} /\ text_queue' \in Seq(Nat \ {0})
    BY <2>1, HeadTailProperties
  <2> QED BY <1>2, <2>2 DEF TtsTypeOK
<1>5. CASE ~PopText /\ ~\E id \in Nat \ {0} : PushText(id)
  <2>1. text_queue' = text_queue \/ text_queue' = <<>>
    BY <1>5 DEF TtsStep, TtsInactive, CancelClient, Drain, Drained, Empty, BeginSynthesis,
           EndSynthesis, TtsEnds, TtsStopFlag, ttsVars
  <2>2. <<>> \in Seq(Nat \ {0})
    OBVIOUS
  <2>3. /\ text' = text \/ text' = 0
        /\ streaming' => text' # 0
    BY <1>5 DEF TtsStep, TtsInactive, CancelClient, Drain, BeginSynthesis,
           EndSynthesis, TtsEnds, TtsStopFlag, ttsVars, TtsTypeOK
  <2>4. text_queue' \in Seq(Nat \ {0})
    BY <2>1, <2>2 DEF TtsTypeOK
  <2>5. text' \in Nat
    BY <2>3 DEF TtsTypeOK
  <2> QED BY <1>2, <2>3, <2>4, <2>5 DEF TtsTypeOK
<1> QED BY <1>3, <1>4, <1>5

(* What the loop thread and the requests of others make of its state.       *)
LEMMA LoopMoves ==
  ASSUME LoopTypes,
         \/ \E kind \in Kinds : Token(kind)
         \/ TakeInterrupt \/ TakeMessage \/ CheckInterrupt \/ Submit
         \/ StreamThrows \/ StreamComplete \/ RouteResult
  PROVE  LoopTypes'
<1>1. /\ turn' \in {turn, TRUE, FALSE, interrupt_requested}
      /\ interrupt_requested' \in {interrupt_requested, FALSE}
      /\ llm_cancelled' \in {llm_cancelled, TRUE, FALSE}
  BY DEF Token, TakeInterrupt, TakeMessage, InterruptTurn, CheckInterrupt, Submit, StreamThrows,
         StreamComplete, RouteResult, loopVars
<1>2. /\ loop' \in {"wait", "check", "submit", "stream", "route"}
      /\ loop' # "wait" => turn'
  BY DEF Token, TakeInterrupt, TakeMessage, InterruptTurn, CheckInterrupt, Submit, StreamThrows,
         StreamComplete, RouteResult, loopVars, LoopTypes
<1>3. observations' \in Seq({"interrupt", "message"})
  <2>1. \/ observations' = observations
        \/ observations # <<>> /\ observations' = Tail(observations)
    BY DEF Token, TakeInterrupt, TakeMessage, InterruptTurn, CheckInterrupt, Submit, StreamThrows,
           StreamComplete, RouteResult, loopVars
  <2> QED BY <2>1, HeadTailProperties DEF LoopTypes
<1> QED BY <1>1, <1>2, <1>3 DEF LoopTypes

LEMMA ObservationAdded ==
  ASSUME LoopTypes, NEW o \in {"interrupt", "message"}, turn' = turn, loop' = loop,
         observations' \in {observations, Append(observations, o)},
         interrupt_requested' \in {TRUE, interrupt_requested},
         llm_cancelled' \in {TRUE, llm_cancelled}
  PROVE  LoopTypes'
<1>1. Append(observations, o) \in Seq({"interrupt", "message"})
  BY AppendProperties DEF LoopTypes
<1> QED BY <1>1 DEF LoopTypes

(* The calls that a cancel frame, an interruption and a captured frame make.*)
LEMMA CaptureCalls ==
  ASSUME VadTypeOK, NEW loud \in BOOLEAN
  PROVE  Emitted(loud) \in Seq(CaptureCall)
<1>1. /\ captured \in Nat /\ ThisFrame \in Nat /\ PreRollFrames \in Nat
      /\ pre_roll_buf \in Seq(1 .. captured)
  BY VadAssumption DEF VadTypeOK, VadAssumption, ThisFrame
<1>2. \A frame \in Nat : Call("asr_audio", frame) \in CaptureCall
  BY DEF Call, CaptureCall
<1>3. Call("interrupt", 0) \in CaptureCall /\ Call("asr_flush", 0) \in CaptureCall
  BY DEF Call, CaptureCall
<1>4. /\ EmitAudio(ThisFrame) \in Seq(CaptureCall) /\ EmitSpeechStart \in Seq(CaptureCall)
      /\ EmitSpeechEnd \in Seq(CaptureCall) /\ <<>> \in Seq(CaptureCall)
  BY <1>1, <1>2, <1>3, OneCall DEF EmitAudio, EmitSpeechStart, EmitSpeechEnd
<1>5. FlushPreRoll \in Seq(CaptureCall)
  <2> Append(pre_roll_buf, ThisFrame) \in Seq(Nat)
    <3>1. pre_roll_buf \in Seq(Nat)
      BY <1>1, SeqMonotonic
    <3> QED BY <1>1, <3>1, AppendProperties
  <2>1. PICK s \in Seq(Nat) : s = Append(pre_roll_buf, ThisFrame)
    OBVIOUS
  <2>2. PICK r : r = PreRoll
    OBVIOUS
  <2>3. r = Newest(s, PreRollFrames)
    BY <2>1, <2>2 DEF PreRoll
  <2>4. r \in Seq(Nat)
    BY <1>1, <2>3, NewestOf DEF EndOf
  <2>5. Len(r) \in Nat /\ DOMAIN r = 1 .. Len(r) /\ \A i \in 1 .. Len(r) : r[i] \in Nat
    BY <2>4, ElementOfSeq, LenProperties
  <2>6. [i \in DOMAIN r |-> Call("asr_audio", r[i])] \in Seq(CaptureCall)
    BY <1>2, <2>5, SeqDef
  <2> QED BY <1>4, <2>2, <2>6 DEF FlushPreRoll
<1> DEFINE end == IF Ends(loud) THEN EmitSpeechEnd ELSE <<>>
<1>6. end \in Seq(CaptureCall)
  BY <1>4
<1>7. EmitAudio(ThisFrame) \o end \in Seq(CaptureCall)
  <2> HIDE DEF end
  <2> QED BY <1>4, <1>6, ConcatProperties
<1>8. EmitSpeechStart \o FlushPreRoll \in Seq(CaptureCall)
  BY <1>4, <1>5, ConcatProperties
<1> QED BY <1>4, <1>7, <1>8 DEF Emitted, Announce, EventFirst

(* The calls that a cancel frame makes are ones of either thread.           *)
LEMMA CancelFrameCalls == CancelFrame \in Seq(CaptureCall) /\ CancelFrame \in Seq(LoopCall)
<1>1. /\ Call("asr_cancel", 0) \in CaptureCall /\ Call("tts_inactive", 0) \in CaptureCall
      /\ Call("tts_cancel", 0) \in CaptureCall /\ Call("tts_drain", 0) \in CaptureCall
  BY DEF Call, CaptureCall
<1>2. /\ Call("asr_cancel", 0) \in LoopCall /\ Call("tts_inactive", 0) \in LoopCall
      /\ Call("tts_cancel", 0) \in LoopCall /\ Call("tts_drain", 0) \in LoopCall
  BY DEF Call, LoopCall
<1> QED BY <1>1, <1>2, FourCalls DEF CancelFrame

LEMMA BargeInCalls ==
  ASSUME CallTypes, NEW t \in Threads, BargeIn(t)
  PROVE  CallTypes'
<1>1. /\ calls[t] # <<>> /\ Head(calls[t]).op = "interrupt"
      /\ calls' = [calls EXCEPT ![t] = CancelFrame \o <<Call("request", 0)>> \o Tail(calls[t])]
  BY DEF BargeIn, Next1
<1>2. t = "capture"
  BY <1>1, NextCall
<1>3. Tail(calls["capture"]) \in Seq(CaptureCall)
  BY <1>1, <1>2, HeadTailProperties DEF CallTypes
<1>4. <<Call("request", 0)>> \in Seq(CaptureCall)
  <2>1. Call("request", 0) \in CaptureCall
    BY DEF Call, CaptureCall
  <2> QED BY <2>1, OneCall
<1>5. CancelFrame \o <<Call("request", 0)>> \o Tail(calls["capture"]) \in Seq(CaptureCall)
  BY <1>3, <1>4, CancelFrameCalls, ConcatProperties
<1> QED BY <1>1, <1>2, <1>5 DEF CallTypes, Threads

LEMMA LoopCalls ==
  ASSUME CallTypes, texts \in Nat, Loop
  PROVE  CallTypes' /\ texts' \in {texts, texts + 1} /\ (texts' # texts => texts < MaxTexts)
<1>1. CASE Quiet
  BY <1>1 DEF Quiet, CallTypes
<1>2. CASE \E kinds : SendText(kinds)
  <2>1. PICK kinds : SendText(kinds)
    BY <1>2
  <2>2. Call("tts_text", texts') \in LoopCall /\ texts' = texts + 1 /\ texts < MaxTexts
    BY <2>1 DEF SendText, Call, LoopCall
  <2>3. <<Call("tts_text", texts')>> \in Seq(LoopCall) /\ <<>> \in Seq(LoopCall)
    BY <2>2, OneCall
  <2>4. \/ calls' = [calls EXCEPT !["loop"] = <<Call("tts_text", texts')>>]
        \/ calls' = [calls EXCEPT !["loop"] = <<>>]
    BY <2>1 DEF SendText, Send
  <2> QED BY <2>2, <2>3, <2>4 DEF CallTypes, Threads
<1>3. CASE Send(CancelFrame \o CancelFrame) /\ texts' = texts
  <2>1. CancelFrame \o CancelFrame \in Seq(LoopCall) /\ <<>> \in Seq(LoopCall)
    BY CancelFrameCalls, ConcatProperties
  <2>2. \/ calls' = [calls EXCEPT !["loop"] = CancelFrame \o CancelFrame]
        \/ calls' = [calls EXCEPT !["loop"] = <<>>]
    BY <1>3 DEF Send
  <2> QED BY <1>3, <2>1, <2>2 DEF CallTypes, Threads
<1> QED BY <1>1, <1>2, <1>3, LoopSends

LEMMA CallStepTypes ==
  ASSUME VoiceInv, NEW t \in Threads, CallStep(t)
  PROVE  VoiceInv'
<1>1. VadTypeOK' /\ texts' = texts
  <2>1. UNCHANGED vadVars /\ texts' = texts
    BY DEF CallStep, PassAudio, FlushSpeech, CancelSpeech, CancelSynthesis, DrainTexts, SpeakText,
           BargeIn, RequestInterrupt, Unchanging
  <2> QED BY <2>1 DEF vadVars, VoiceInv, VadTypeOK
<1>2. CallTypes' /\ calls[t] # <<>>
  <2>1. CASE BargeIn(t)
    BY <2>1, BargeInCalls DEF VoiceInv, BargeIn, Next1
  <2>2. CASE ~BargeIn(t)
    <3>1. Done(t) /\ calls[t] # <<>>
      BY <2>2 DEF CallStep, PassAudio, FlushSpeech, CancelSpeech, CancelSynthesis, DrainTexts,
             SpeakText, RequestInterrupt, Next1
    <3> QED BY <3>1, NextCall DEF VoiceInv
  <2> QED BY <2>1, <2>2
<1>3. Head(calls[t]).arg \in Nat /\ (Head(calls[t]).op = "tts_text" => Head(calls[t]).arg # 0)
  BY <1>2, NextCall DEF VoiceInv
<1>4. AsrTypeOK'
  <2>1. AsrStep
    BY <1>3 DEF CallStep, PassAudio, FlushSpeech, CancelSpeech, CancelSynthesis, DrainTexts,
           SpeakText, BargeIn, RequestInterrupt, AsrStep
  <2> QED BY <2>1, AsrTypes DEF VoiceInv
<1>5. TtsTypeOK'
  <2>1. TtsStep
    BY <1>3 DEF CallStep, PassAudio, FlushSpeech, CancelSpeech, CancelSynthesis, DrainTexts,
           SpeakText, BargeIn, RequestInterrupt, Next1, TtsStep
  <2> QED BY <2>1, TtsTypes DEF VoiceInv
<1>6. LoopTypes'
  <2>1. CASE RequestInterrupt(t)
    BY <2>1, ObservationAdded DEF RequestInterrupt, VoiceInv
  <2>2. CASE ~RequestInterrupt(t)
    <3>1. UNCHANGED loopVars
      BY <2>2 DEF CallStep, PassAudio, FlushSpeech, CancelSpeech, CancelSynthesis, DrainTexts,
             SpeakText, BargeIn, coreVars
    <3> QED BY <3>1 DEF loopVars, VoiceInv, LoopTypes
  <2> QED BY <2>1, <2>2
<1>7. TextTypes'
  <2>1. heard_stale' \subseteq stale'
    BY DEF CallStep, PassAudio, FlushSpeech, CancelSpeech, CancelSynthesis, DrainTexts, SpeakText,
           BargeIn, RequestInterrupt, cancelHistory, VoiceInv, TextTypes
  <2> QED BY <1>1, <2>1 DEF VoiceInv, TextTypes
<1> QED BY <1>1, <1>2, <1>4, <1>5, <1>6, <1>7 DEF VoiceInv

LEMMA VoiceStep == VoiceInv /\ [Next]_vars => VoiceInv'
<1> SUFFICES ASSUME VoiceInv, [Next]_vars PROVE VoiceInv'
  OBVIOUS
<1>1. ASSUME NEW loud \in BOOLEAN, Capture(loud) PROVE VoiceInv'
  <2>1. VadTypeOK'
    BY <1>1, CaptureTypes DEF Capture, VoiceInv
  <2>2. CallTypes'
    BY <1>1, CaptureCalls DEF Capture, VoiceInv, CallTypes, Threads
  <2>3. AsrTypeOK' /\ TtsTypeOK'
    BY <1>1, AsrTypes, TtsTypes DEF Capture, VoiceInv, AsrStep, TtsStep
  <2>4. LoopTypes' /\ TextTypes'
    BY <1>1 DEF Capture, VoiceInv, LoopTypes, TextTypes, coreVars, loopVars, cancelHistory
  <2> QED BY <2>1, <2>2, <2>3, <2>4 DEF VoiceInv
<1>2. ASSUME NEW t \in Threads, CallStep(t) PROVE VoiceInv'
  BY <1>2, CallStepTypes
<1>3. CASE Loop
  <2>1. VadTypeOK' /\ AsrTypeOK' /\ TtsTypeOK'
    BY <1>3, AsrTypes, TtsTypes DEF Loop, LoopFrame, VoiceInv, AsrStep, TtsStep, VadTypeOK, vadVars
  <2>2. LoopTypes'
    BY <1>3, LoopMoves DEF Loop, VoiceInv
  <2>3. CallTypes' /\ TextTypes'
    BY <1>3, LoopCalls, VoiceAssumption
       DEF Loop, LoopFrame, VoiceInv, TextTypes, cancelHistory, VoiceAssumption
  <2> QED BY <2>1, <2>2, <2>3 DEF VoiceInv
<1>4. CASE AsrWorker
  <2>1. AsrTypeOK'
    BY <1>4, AsrTypes DEF AsrWorker, VoiceInv, AsrStep
  <2>2. LoopTypes'
    BY <1>4, ObservationAdded DEF AsrWorker, VoiceInv
  <2>3. TtsTypeOK'
    BY <1>4, TtsTypes DEF AsrWorker, VoiceInv, TtsStep
  <2> QED BY <1>4, <2>1, <2>2, <2>3
          DEF AsrWorker, VoiceInv, VadTypeOK, vadVars, CallTypes, TextTypes, cancelHistory
<1>5. CASE TtsWorker
  <2>1. TtsTypeOK'
    BY <1>5, TtsTypes DEF TtsWorker, Hear, VoiceInv, TtsStep
  <2>2. AsrTypeOK' /\ LoopTypes'
    BY <1>5, AsrTypes DEF TtsWorker, VoiceInv, AsrStep, coreVars, loopVars, LoopTypes
  <2>3. TextTypes'
    BY <1>5 DEF TtsWorker, Hear, VoiceInv, TextTypes, cancelHistory
  <2> QED BY <1>5, <2>1, <2>2, <2>3 DEF TtsWorker, VoiceInv, VadTypeOK, vadVars, CallTypes
<1>6. CASE Destroy /\ MainOnly
  <2>1. AsrTypeOK'
    BY <1>6, AsrTypes DEF Destroy, VoiceInv, AsrStep
  <2>2. TtsTypeOK'
    BY <1>6, TtsTypes DEF Destroy, VoiceInv, TtsStep
  <2> QED BY <1>6, <2>1, <2>2
          DEF MainOnly, VoiceInv, VadTypeOK, vadVars, CallTypes, TextTypes, cancelHistory,
              LoopTypes, coreVars, loopVars
<1>7. CASE UNCHANGED vars
  <2>1. AsrTypeOK' /\ TtsTypeOK'
    BY <1>7, AsrTypes, TtsTypes DEF vars, VoiceInv, AsrStep, TtsStep
  <2> QED BY <1>7, <2>1
          DEF vars, VoiceInv, VadTypeOK, vadVars, CallTypes, TextTypes, cancelHistory,
              LoopTypes, coreVars, loopVars
<1> QED BY <1>1, <1>2, <1>3, <1>4, <1>5, <1>6, <1>7 DEF Next

(* Type correctness of the voice module.                                    *)
THEOREM VoiceTypes == Spec => []TypeOK
<1>1. VoiceInv => TypeOK
  BY DEF VoiceInv, LoopTypes, TextTypes, TypeOK
<1> QED BY <1>1, VoiceInit, VoiceStep, PTL DEF Spec

-----------------------------------------------------------------------------
(* The frames kept before speech are the last ones, the onset's among them. *)
PreRollInv ==
  /\ \A i \in 1 .. Len(pre_roll_buf) : pre_roll_buf[i] = captured - Len(pre_roll_buf) + i
  /\ onset_counter <= Len(pre_roll_buf)

(* Of the calls that the capturing thread has still to make the first s      *)
(* belong to an interruption; the others pass on frames, up to the last one  *)
(* captured, and end with the flush when the speech has ended.               *)
Waiting == calls["capture"]
FrameCalls == IF in_speech \/ Waiting = <<>> THEN Len(Waiting) ELSE Len(Waiting) - 1
NextFrame(s) == captured + s + 1 - FrameCalls
Plain(op) == op \notin {"asr_audio", "asr_flush"}

Ordered(s) ==
  /\ s <= FrameCalls
  /\ \A i \in 1 .. s : Plain(Waiting[i].op)
  /\ \A i \in s + 1 .. FrameCalls :
       Waiting[i].op = "asr_audio" /\ Waiting[i].arg = captured + i - FrameCalls
  /\ ~in_speech /\ Waiting # <<>> => s = 0 /\ Waiting[Len(Waiting)].op = "asr_flush"

(* The buffer of the recogniser ends where the waiting frames begin.        *)
Begins(frame, from, after) == frame <= from \/ frame = after + 1
Gapless(frames) == \A k \in 1 .. Len(frames) - 1 : frames[k + 1] = frames[k] + 1

Gathered(s) ==
  /\ audio_buffer # <<>> =>
       /\ s = 0 /\ Gapless(audio_buffer) /\ Begins(audio_buffer[1], onset, cut)
       /\ audio_buffer[Len(audio_buffer)] = NextFrame(s) - 1
  /\ audio_buffer = <<>> /\ (in_speech \/ Waiting # <<>>) => Begins(NextFrame(s), onset, cut)
  /\ ~in_speech /\ Waiting = <<>> => audio_buffer = <<>>

Utterance ==
  {u \in [onset : Int, cut : Nat, frames : Seq(Nat)] :
     Gapless(u.frames) /\ Begins(u.frames[1], u.onset, u.cut)}

(* Only while the app runs is there anything to pass on, and then the       *)
(* recogniser is active.                                                    *)
SpeechInv ==
  /\ PreRollInv
  /\ main = "running" => asr_active
  /\ Waiting # <<>> => main = "running"
  /\ onset \in Int /\ cut \in Nat
  /\ \E s \in Nat : Ordered(s) /\ Gathered(s)
  /\ utterances \in Seq(Utterance)

LEMMA SpeechInit == Init => SpeechInv
<1> SUFFICES ASSUME Init PROVE SpeechInv
  OBVIOUS
<1>1. /\ captured = 0 /\ in_speech = FALSE /\ onset_counter = 0 /\ pre_roll_buf = <<>>
      /\ asr_active = TRUE /\ audio_buffer = <<>> /\ main = "running"
      /\ onset = 0 /\ cut = 0 /\ utterances = <<>>
  BY DEF Init, VadInit, AsrInit
<1>2. Waiting = <<>>
  BY DEF Init, Threads, Waiting
<1>3. PreRollInv
  BY <1>1 DEF PreRollInv
<1>4. Ordered(0) /\ Gathered(0)
  BY <1>1, <1>2 DEF Ordered, Gathered, FrameCalls
<1>5. utterances \in Seq(Utterance)
  BY <1>1
<1> QED BY <1>1, <1>2, <1>3, <1>4, <1>5 DEF SpeechInv

(* What the invariant speaks of.                                            *)
speechVars == <<Waiting, captured, in_speech, audio_buffer, onset, cut>>

LEMMA GatheredKept ==
  ASSUME UNCHANGED speechVars, NEW s
  PROVE  Ordered(s)' = Ordered(s) /\ Gathered(s)' = Gathered(s)
<1>1. FrameCalls' = FrameCalls
  BY DEF speechVars, FrameCalls
<1>2. NextFrame(s)' = NextFrame(s)
  BY <1>1 DEF speechVars, NextFrame
<1> QED BY <1>1, <1>2 DEF speechVars, Ordered, Gathered

(* What the next call tells.                                                *)
LEMMA FirstCall ==
  ASSUME VoiceInv, NEW s \in Nat, Ordered(s), Waiting # <<>>
  PROVE  /\ Waiting \in Seq(CaptureCall) /\ FrameCalls \in Nat
         /\ FrameCalls = IF in_speech THEN Len(Waiting) ELSE Len(Waiting) - 1
         /\ Plain(Waiting[1].op) => s >= 1 /\ in_speech
         /\ Waiting[1].op = "asr_audio" =>
              s = 0 /\ FrameCalls >= 1 /\ Waiting[1].arg = NextFrame(0)
         /\ Waiting[1].op = "asr_flush" => s = 0 /\ ~in_speech /\ Len(Waiting) = 1
<1>1. /\ Waiting \in Seq(CaptureCall) /\ Len(Waiting) \in Nat \ {0}
      /\ in_speech \in BOOLEAN /\ captured \in Nat
  BY EmptySeq DEF VoiceInv, CallTypes, VadTypeOK, Waiting
<1>2. FrameCalls \in Nat /\ FrameCalls = IF in_speech THEN Len(Waiting) ELSE Len(Waiting) - 1
  BY <1>1 DEF FrameCalls
<1>3. s >= 1 => Plain(Waiting[1].op)
  BY DEF Ordered
<1>4. ASSUME s = 0, FrameCalls >= 1
      PROVE  Waiting[1].op = "asr_audio" /\ Waiting[1].arg = NextFrame(0)
  <2>1. 1 \in s + 1 .. FrameCalls
    BY <1>2, <1>4
  <2>2. Waiting[1].op = "asr_audio" /\ Waiting[1].arg = captured + 1 - FrameCalls
    BY <2>1 DEF Ordered
  <2> QED BY <1>1, <1>2, <2>2 DEF NextFrame
<1>5. s = 0 /\ FrameCalls = 0 => ~in_speech /\ Len(Waiting) = 1 /\ Waiting[1].op = "asr_flush"
  BY <1>1, <1>2 DEF Ordered
<1>6. ~in_speech => s = 0
  BY DEF Ordered
<1>7. (s = 0 \/ s >= 1) /\ (FrameCalls = 0 \/ FrameCalls >= 1)
  <2>1. \A n \in Nat : n = 0 \/ n >= 1
    OBVIOUS
  <2> QED BY <1>2, <2>1
<1>8. Plain(Waiting[1].op) => s >= 1 /\ in_speech
  <2>1. Plain(Waiting[1].op) => Waiting[1].op # "asr_audio" /\ Waiting[1].op # "asr_flush"
    BY DEF Plain
  <2>2. s >= 1 => s # 0
    OBVIOUS
  <2> QED BY <1>4, <1>5, <1>6, <1>7, <2>1, <2>2, Zenon
<1>9. Waiting[1].op = "asr_audio" => s = 0 /\ FrameCalls >= 1 /\ Waiting[1].arg = NextFrame(0)
  <2>1. Waiting[1].op = "asr_audio" => ~Plain(Waiting[1].op) /\ Waiting[1].op # "asr_flush"
    BY DEF Plain
  <2> QED BY <1>3, <1>4, <1>5, <1>7, <2>1, Zenon
<1>10. Waiting[1].op = "asr_flush" => s = 0 /\ ~in_speech /\ Len(Waiting) = 1
  <2>1. Waiting[1].op = "asr_flush" => ~Plain(Waiting[1].op) /\ Waiting[1].op # "asr_audio"
    BY DEF Plain
  <2> QED BY <1>3, <1>4, <1>5, <1>7, <2>1, Zenon
<1> QED BY <1>1, <1>2, <1>8, <1>9, <1>10

(* A call of the capturing thread is made.                                  *)
LEMMA OneCallLess ==
  ASSUME VoiceInv, NEW s \in Nat, Ordered(s), Waiting # <<>>,
         Waiting' = Tail(Waiting), captured' = captured, in_speech' = in_speech
  PROVE  /\ s >= 1 => Ordered(s - 1)' /\ NextFrame(s - 1)' = NextFrame(s)
         /\ s = 0 => Ordered(0)'
         /\ s = 0 /\ FrameCalls >= 1 =>
              NextFrame(0)' = NextFrame(0) + 1 /\ (in_speech \/ Waiting' # <<>>)
<1>1. /\ Waiting \in Seq(CaptureCall) /\ Len(Waiting) \in Nat \ {0}
      /\ in_speech \in BOOLEAN /\ captured \in Nat
  BY EmptySeq DEF VoiceInv, CallTypes, VadTypeOK, Waiting
<1>2. /\ Waiting' \in Seq(CaptureCall) /\ Len(Waiting') = Len(Waiting) - 1
      /\ \A i \in 1 .. Len(Waiting) - 1 : Waiting'[i] = Waiting[i + 1]
  BY <1>1, HeadTailProperties
<1>3. Waiting' = <<>> <=> Len(Waiting) = 1
  <2>1. Waiting' = <<>> => Len(Waiting') = 0
    OBVIOUS
  <2>2. Waiting' # <<>> => Len(Waiting') # 0
    BY <1>2, EmptySeq
  <2> QED BY <1>1, <1>2, <2>1, <2>2
<1> PICK n \in Nat \ {0} : n = Len(Waiting)
  BY <1>1
<1> PICK m \in Nat : m = FrameCalls
  BY <1>1 DEF FrameCalls
<1>4. m = IF in_speech THEN n ELSE n - 1
  BY DEF FrameCalls
<1>5. FrameCalls' = IF m >= 1 THEN m - 1 ELSE 0
  <2>1. CASE in_speech
    BY <1>1, <1>2, <1>4, <2>1 DEF FrameCalls
  <2>2. CASE ~in_speech /\ n = 1
    <3>1. Waiting' = <<>> /\ Len(Waiting') = 0 /\ m = 0
      BY <1>2, <1>3, <1>4, <2>2
    <3> QED BY <3>1 DEF FrameCalls
  <2>3. CASE ~in_speech /\ n # 1
    <3>1. Waiting' # <<>> /\ Len(Waiting') = n - 1 /\ m = n - 1 /\ m >= 1
      BY <1>2, <1>3, <1>4, <2>3
    <3>2. FrameCalls' = Len(Waiting') - 1
      BY <2>3, <3>1 DEF FrameCalls
    <3> QED BY <3>1, <3>2
  <2> QED BY <1>1, <2>1, <2>2, <2>3
<1>6. \A i \in s + 1 .. m : Waiting[i].op = "asr_audio" /\ Waiting[i].arg = captured + i - m
  BY DEF Ordered
<1>7. s <= m /\ m <= n /\ \A i \in 1 .. s : Plain(Waiting[i].op)
  BY <1>4 DEF Ordered
<1>8. ~in_speech => s = 0 /\ Waiting[n].op = "asr_flush"
  BY DEF Ordered
<1>9. ASSUME s >= 1
      PROVE  Ordered(s - 1)' /\ NextFrame(s - 1)' = NextFrame(s)
  <2>1. in_speech' /\ m >= 1 /\ FrameCalls' = m - 1 /\ m = n
    BY <1>4, <1>5, <1>7, <1>8, <1>9
  <2>2. ASSUME NEW i \in 1 .. s - 1 PROVE Plain(Waiting[i].op)'
    <3>1. i \in 1 .. n - 1 /\ i + 1 \in 1 .. s
      BY <1>7, <1>9
    <3> QED BY <1>2, <1>7, <3>1 DEF Plain
  <2>3. ASSUME NEW i \in (s - 1) + 1 .. m - 1
        PROVE  Waiting'[i].op = "asr_audio" /\ Waiting'[i].arg = captured + i - (m - 1)
    <3>1. i \in 1 .. n - 1 /\ i + 1 \in s + 1 .. m /\ captured + (i + 1) - m = captured + i - (m - 1)
      BY <1>1, <1>7, <1>9
    <3> QED BY <1>2, <1>6, <3>1
  <2>4. Ordered(s - 1)'
    BY <1>1, <1>7, <1>9, <2>1, <2>2, <2>3 DEF Ordered
  <2>5. NextFrame(s - 1)' = NextFrame(s)
    BY <1>1, <1>9, <2>1 DEF NextFrame
  <2> QED BY <2>4, <2>5
<1>10. ASSUME s = 0 PROVE Ordered(0)'
  <2>1. FrameCalls' \in Nat /\ FrameCalls' <= n - 1
    BY <1>5, <1>7
  <2>2. ASSUME NEW i \in 0 + 1 .. FrameCalls'
        PROVE  Waiting'[i].op = "asr_audio" /\ Waiting'[i].arg = captured' + i - FrameCalls'
    <3>1. /\ i \in 1 .. n - 1 /\ i + 1 \in s + 1 .. m
          /\ captured + (i + 1) - m = captured + i - FrameCalls'
      BY <1>1, <1>5, <1>7, <1>10, <2>1
    <3> QED BY <1>2, <1>6, <3>1
  <2>3. ~in_speech' /\ Waiting' # <<>> => Waiting'[Len(Waiting')].op = "asr_flush"
    <3>1. Waiting' # <<>> => n - 1 \in 1 .. n - 1 /\ (n - 1) + 1 = n
      BY <1>3
    <3> QED BY <1>2, <1>8, <3>1
  <2>4. \A i \in 1 .. 0 : Plain(Waiting'[i].op)
    OBVIOUS
  <2>5. 0 <= FrameCalls'
    BY <2>1
  <2> QED BY <2>2, <2>3, <2>4, <2>5, Zenon DEF Ordered
<1>11. ASSUME s = 0, FrameCalls >= 1
       PROVE  NextFrame(0)' = NextFrame(0) + 1 /\ (in_speech \/ Waiting' # <<>>)
  <2>1. NextFrame(0)' = NextFrame(0) + 1
    BY <1>1, <1>5, <1>11 DEF NextFrame
  <2>2. ~in_speech => Waiting' # <<>>
    BY <1>3, <1>4, <1>11
  <2> QED BY <2>1, <2>2
<1> QED BY <1>9, <1>10, <1>11

LEMMA AudioPassed ==
  ASSUME VoiceInv, SpeechInv, NEW t \in Threads, PassAudio(t)
  PROVE  SpeechInv'
<1>1. /\ calls[t] # <<>> /\ Head(calls[t]).op = "asr_audio" /\ AsrAudio(Head(calls[t]).arg)
      /\ Done(t) /\ UNCHANGED <<vadVars, main, asr_active, onset, cut, utterances>>
  BY DEF PassAudio, Next1, AsrAudio, Unchanging, speechHistory
<1>2. t = "capture"
  BY <1>1, NextCall DEF VoiceInv
<1>3. /\ Waiting # <<>> /\ Waiting' = Tail(Waiting) /\ Head(Waiting) = Waiting[1]
      /\ Waiting[1].op = "asr_audio" /\ captured' = captured /\ in_speech' = in_speech
      /\ pre_roll_buf' = pre_roll_buf /\ onset_counter' = onset_counter
  BY <1>1, <1>2 DEF Waiting, Done, VoiceInv, CallTypes, Threads, vadVars
<1>4. PICK s \in Nat : Ordered(s) /\ Gathered(s)
  BY DEF SpeechInv
<1>5. s = 0 /\ FrameCalls >= 1 /\ Waiting[1].arg = NextFrame(0)
  BY <1>3, <1>4, FirstCall
<1>6. Ordered(0)' /\ NextFrame(0)' = NextFrame(0) + 1 /\ (in_speech \/ Waiting' # <<>>)
  BY <1>3, <1>4, <1>5, OneCallLess
<1>7. main = "running" /\ asr_active
  BY <1>3 DEF SpeechInv
<1>8. audio_buffer' = Append(audio_buffer, NextFrame(0)) /\ audio_buffer \in Seq(Nat)
      /\ NextFrame(0) \in Nat
  BY <1>1, <1>2, <1>3, <1>5, <1>7, NextCall DEF AsrAudio, VoiceInv, AsrTypeOK, Waiting
<1>9. Gathered(0)'
  <2>1. /\ Len(audio_buffer') = Len(audio_buffer) + 1 /\ Len(audio_buffer) \in Nat
        /\ audio_buffer'[Len(audio_buffer) + 1] = NextFrame(0) /\ audio_buffer' # <<>>
        /\ \A i \in 1 .. Len(audio_buffer) : audio_buffer'[i] = audio_buffer[i]
    BY <1>8, AppendProperties, LenProperties
  <2>2. CASE audio_buffer = <<>>
    <3>1. Len(audio_buffer) = 0
      BY <2>2
    <3>2. Gapless(audio_buffer')
      BY <2>1, <3>1 DEF Gapless
    <3>3. Begins(NextFrame(0), onset, cut)
      BY <1>3, <1>4, <1>5, <2>2 DEF Gathered
    <3> QED BY <1>1, <1>3, <1>6, <1>8, <2>1, <3>1, <3>2, <3>3 DEF Gathered, Begins
  <2>3. CASE audio_buffer # <<>>
    <3>1. /\ Gapless(audio_buffer) /\ Begins(audio_buffer[1], onset, cut)
          /\ audio_buffer[Len(audio_buffer)] = NextFrame(0) - 1 /\ Len(audio_buffer) >= 1
      BY <1>4, <1>5, <1>8, <2>1, <2>3, EmptySeq DEF Gathered
    <3>2. Gapless(audio_buffer')
      <4>1. ASSUME NEW k \in 1 .. Len(audio_buffer') - 1
            PROVE  audio_buffer'[k + 1] = audio_buffer'[k] + 1
        <5>1. CASE k = Len(audio_buffer)
          BY <1>8, <2>1, <3>1, <5>1
        <5>2. CASE k # Len(audio_buffer)
          <6>1. k \in 1 .. Len(audio_buffer) - 1 /\ k \in 1 .. Len(audio_buffer)
                /\ k + 1 \in 1 .. Len(audio_buffer)
            BY <2>1, <5>2
          <6> QED BY <2>1, <3>1, <6>1 DEF Gapless
        <5> QED BY <5>1, <5>2
      <4> QED BY <4>1 DEF Gapless
    <3>3. audio_buffer'[1] = audio_buffer[1]
      BY <2>1, <3>1
    <3> QED BY <1>1, <1>3, <1>6, <1>8, <2>1, <3>1, <3>2, <3>3 DEF Gathered, Begins
  <2> QED BY <2>2, <2>3
<1>10. PreRollInv'
  BY <1>3 DEF SpeechInv, PreRollInv
<1> QED BY <1>1, <1>3, <1>6, <1>7, <1>9, <1>10 DEF SpeechInv

LEMMA SpeechFlushed ==
  ASSUME VoiceInv, SpeechInv, NEW t \in Threads, FlushSpeech(t)
  PROVE  SpeechInv'
<1>1. /\ calls[t] # <<>> /\ Head(calls[t]).op = "asr_flush" /\ Flush
      /\ utterances' = IF Flushes
                       THEN Append(utterances, [onset |-> onset, cut |-> cut, frames |-> audio_buffer])
                       ELSE utterances
      /\ Done(t) /\ UNCHANGED <<vadVars, main, asr_active, onset, cut>>
  BY DEF FlushSpeech, Next1, Flush, Unchanging
<1>2. t = "capture"
  BY <1>1, NextCall DEF VoiceInv
<1>3. /\ Waiting # <<>> /\ Waiting' = Tail(Waiting) /\ Head(Waiting) = Waiting[1]
      /\ Waiting[1].op = "asr_flush" /\ captured' = captured /\ in_speech' = in_speech
      /\ pre_roll_buf' = pre_roll_buf /\ onset_counter' = onset_counter
  BY <1>1, <1>2 DEF Waiting, Done, VoiceInv, CallTypes, Threads, vadVars
<1>4. PICK s \in Nat : Ordered(s) /\ Gathered(s)
  BY DEF SpeechInv
<1>5. s = 0 /\ ~in_speech /\ Len(Waiting) = 1 /\ Waiting \in Seq(CaptureCall)
  BY <1>3, <1>4, FirstCall
<1>6. Waiting' = <<>>
  <2>1. Waiting' \in Seq(CaptureCall) /\ Len(Waiting') = 0
    BY <1>3, <1>5, HeadTailProperties
  <2> QED BY <2>1, EmptySeq
<1>7. main = "running" /\ asr_active
  BY <1>3 DEF SpeechInv
<1>8. audio_buffer' = <<>>
  BY <1>1, <1>7 DEF Flush, Flushes
<1>9. utterances' \in Seq(Utterance)
  <2>1. CASE Flushes
    <3>1. audio_buffer \in Seq(Nat) /\ Gapless(audio_buffer) /\ Begins(audio_buffer[1], onset, cut)
      BY <1>4, <2>1 DEF Flushes, Gathered, VoiceInv, AsrTypeOK
    <3>2. [onset |-> onset, cut |-> cut, frames |-> audio_buffer] \in Utterance
      BY <3>1 DEF Utterance, SpeechInv
    <3> QED BY <1>1, <2>1, <3>2, AppendProperties DEF SpeechInv
  <2>2. CASE ~Flushes
    BY <1>1, <2>2 DEF SpeechInv
  <2> QED BY <2>1, <2>2
<1>10. Ordered(0)' /\ Gathered(0)'
  <2>1. Ordered(0)'
    BY <1>3, <1>4, <1>5, OneCallLess
  <2> QED BY <1>3, <1>5, <1>6, <1>8, <2>1 DEF Gathered
<1>11. PreRollInv'
  BY <1>3 DEF SpeechInv, PreRollInv
<1> QED BY <1>1, <1>3, <1>6, <1>7, <1>9, <1>10, <1>11 DEF SpeechInv

(* A call that belongs to an interruption.                                  *)
LEMMA PlainCallMade ==
  ASSUME VoiceInv, SpeechInv, Waiting # <<>>, Plain(Waiting[1].op), Waiting' = Tail(Waiting),
         UNCHANGED <<vadVars, main, asr_active, onset, cut, utterances>>,
         audio_buffer' \in {audio_buffer, <<>>}
  PROVE  SpeechInv'
<1>1. captured' = captured /\ in_speech' = in_speech
      /\ pre_roll_buf' = pre_roll_buf /\ onset_counter' = onset_counter
  BY DEF vadVars
<1>2. PICK s \in Nat : Ordered(s) /\ Gathered(s)
  BY DEF SpeechInv
<1>3. s >= 1 /\ in_speech
  BY <1>2, FirstCall
<1>4. Ordered(s - 1)' /\ NextFrame(s - 1)' = NextFrame(s)
  BY <1>1, <1>2, <1>3, OneCallLess
<1>5. audio_buffer = <<>> /\ Begins(NextFrame(s), onset, cut)
  BY <1>2, <1>3 DEF Gathered
<1>6. audio_buffer' = <<>>
  BY <1>5
<1>7. Gathered(s - 1)'
  BY <1>1, <1>3, <1>4, <1>5, <1>6 DEF Gathered, Begins
<1>8. s - 1 \in Nat
  BY <1>3
<1>9. PreRollInv'
  BY <1>1 DEF SpeechInv, PreRollInv
<1> QED BY <1>4, <1>7, <1>8, <1>9 DEF SpeechInv

(* The loop thread empties the recogniser's buffer.                         *)
LEMMA SpeechCancelled ==
  ASSUME VoiceInv, SpeechInv, NEW t \in Threads, CancelSpeech(t)
  PROVE  SpeechInv'
<1>1. /\ calls[t] # <<>> /\ Head(calls[t]).op = "asr_cancel" /\ audio_buffer' = <<>> /\ Done(t)
      /\ cut' = IF t = "loop" /\ audio_buffer # <<>> THEN audio_buffer[Len(audio_buffer)] ELSE cut
      /\ UNCHANGED <<vadVars, main, asr_active, onset, utterances>>
  BY DEF CancelSpeech, Next1, CancelTranscription, Unchanging
<1>2. CASE t = "capture"
  <2>1. /\ Waiting # <<>> /\ Waiting' = Tail(Waiting) /\ Head(Waiting) = Waiting[1] /\ cut' = cut
        /\ Plain(Waiting[1].op)
    BY <1>1, <1>2 DEF Waiting, Done, VoiceInv, CallTypes, Threads, Plain
  <2> QED BY <1>1, <2>1, PlainCallMade
<1>3. CASE t = "loop"
  <2>1. Waiting' = Waiting /\ captured' = captured /\ in_speech' = in_speech
        /\ pre_roll_buf' = pre_roll_buf /\ onset_counter' = onset_counter
    BY <1>1, <1>3 DEF Waiting, Done, VoiceInv, CallTypes, Threads, vadVars
  <2>2. PICK s \in Nat : Ordered(s) /\ Gathered(s)
    BY DEF SpeechInv
  <2>3. FrameCalls' = FrameCalls
    BY <2>1 DEF FrameCalls
  <2>4. Ordered(s)' /\ NextFrame(s)' = NextFrame(s)
    BY <2>1, <2>2, <2>3 DEF Ordered, NextFrame
  <2>5. Gathered(s)' /\ cut' \in Nat
    <3>1. CASE audio_buffer = <<>>
      BY <1>1, <2>1, <2>2, <2>4, <3>1 DEF Gathered, Begins, SpeechInv
    <3>2. CASE audio_buffer # <<>>
      <4>1. /\ audio_buffer \in Seq(Nat) /\ Len(audio_buffer) \in Nat \ {0}
            /\ cut' = audio_buffer[Len(audio_buffer)] /\ cut' = NextFrame(s) - 1
        BY <1>1, <1>3, <2>2, <3>2, EmptySeq DEF Gathered, VoiceInv, AsrTypeOK
      <4>2. cut' \in Nat
        <5>1. Len(audio_buffer) \in 1 .. Len(audio_buffer)
          BY <4>1
        <5>2. \A i \in 1 .. Len(audio_buffer) : audio_buffer[i] \in Nat
          BY <4>1, ElementOfSeq
        <5> QED BY <4>1, <5>1, <5>2
      <4>3. NextFrame(s) \in Int
        <5>1. Waiting \in Seq(CaptureCall) /\ captured \in Nat /\ in_speech \in BOOLEAN
          BY DEF VoiceInv, CallTypes, VadTypeOK, Waiting
        <5> QED BY <5>1, LenProperties DEF NextFrame, FrameCalls
      <4>4. NextFrame(s) = cut' + 1
        BY <4>1, <4>2, <4>3
      <4> QED BY <1>1, <2>1, <2>4, <4>2, <4>4 DEF Gathered, Begins
    <3> QED BY <3>1, <3>2
  <2>6. PreRollInv'
    BY <2>1 DEF SpeechInv, PreRollInv
  <2> QED BY <1>1, <2>1, <2>4, <2>5, <2>6 DEF SpeechInv
<1> QED BY <1>2, <1>3 DEF Threads

LEMMA FourThenOne ==
  ASSUME NEW S, NEW a \in S, NEW b \in S, NEW c \in S, NEW d \in S, NEW e \in S
  PROVE  <<a, b, c, d>> \o <<e>> = <<a, b, c, d, e>>
<1> <<a, b, c, d>> \in Seq(S) /\ <<e>> \in Seq(S) /\ <<a, b, c, d, e>> \in Seq(S)
  OBVIOUS
<1> PICK p \in Seq(S) : p = <<a, b, c, d>>
  OBVIOUS
<1> PICK q \in Seq(S) : q = <<e>>
  OBVIOUS
<1> PICK r \in Seq(S) : r = <<a, b, c, d, e>>
  OBVIOUS
<1>1. Len(p) = 4 /\ Len(q) = 1 /\ Len(r) = 5
  OBVIOUS
<1>2. /\ p \o q \in Seq(S) /\ Len(p \o q) = Len(p) + Len(q)
      /\ \A i \in 1 .. Len(p) + Len(q) :
           (p \o q)[i] = IF i <= Len(p) THEN p[i] ELSE q[i - Len(p)]
  BY ConcatProperties
<1>3. p[1] = r[1] /\ p[2] = r[2] /\ p[3] = r[3] /\ p[4] = r[4] /\ q[1] = r[5]
  OBVIOUS
<1>4. ASSUME NEW i \in 1 .. 5 PROVE (p \o q)[i] = r[i]
  <2>1. (p \o q)[i] = IF i <= 4 THEN p[i] ELSE q[i - 4]
    BY <1>1, <1>2
  <2>2. i \in {1, 2, 3, 4, 5} /\ (i > 4 => i - 4 = 1)
    OBVIOUS
  <2> QED BY <1>3, <2>1, <2>2
<1>5. p \o q = r
  <2>1. Len(p \o q) = 5 /\ Len(p \o q) = Len(r)
    BY <1>1, <1>2
  <2>2. \A i \in 1 .. Len(p \o q) : (p \o q)[i] = r[i]
    BY <1>4, <2>1
  <2>3. p \o q \in Seq(S)
    BY <1>2
  <2> QED BY <2>1, <2>2, <2>3, SeqEqual
<1> QED BY <1>5

LEMMA BargedIn ==
  ASSUME VoiceInv, SpeechInv, NEW t \in Threads, BargeIn(t)
  PROVE  SpeechInv'
<1>1. /\ calls[t] # <<>> /\ Head(calls[t]).op = "interrupt"
      /\ calls' = [calls EXCEPT ![t] = CancelFrame \o <<Call("request", 0)>> \o Tail(calls[t])]
      /\ UNCHANGED <<vadVars, main, asr_active, audio_buffer, onset, cut, utterances>>
  BY DEF BargeIn, Next1, Unchanging, asrVars, speechHistory
<1>2. t = "capture"
  BY <1>1, NextCall DEF VoiceInv
<1>3. /\ Waiting # <<>> /\ Head(Waiting) = Waiting[1] /\ Plain(Waiting[1].op)
      /\ Waiting' = (CancelFrame \o <<Call("request", 0)>>) \o Tail(Waiting)
      /\ captured' = captured /\ in_speech' = in_speech
      /\ pre_roll_buf' = pre_roll_buf /\ onset_counter' = onset_counter
  BY <1>1, <1>2 DEF Waiting, VoiceInv, CallTypes, Threads, vadVars, Plain
<1>4. PICK s \in Nat : Ordered(s) /\ Gathered(s)
  BY DEF SpeechInv
<1>5. /\ s >= 1 /\ in_speech /\ Waiting \in Seq(CaptureCall) /\ FrameCalls = Len(Waiting)
      /\ captured \in Nat /\ in_speech \in BOOLEAN
  BY <1>3, <1>4, FirstCall DEF VoiceInv, VadTypeOK
<1> PICK n \in Nat \ {0} : n = Len(Waiting)
  BY <1>3, <1>5, EmptySeq
<1>6. /\ Len(Waiting') = n + 4 /\ Waiting' # <<>>
      /\ \A i \in 1 .. 5 : Plain(Waiting'[i].op)
      /\ \A i \in 6 .. n + 4 : Waiting'[i] = Waiting[i - 4]
  <2>1. /\ Call("asr_cancel", 0) \in CaptureCall /\ Call("tts_inactive", 0) \in CaptureCall
        /\ Call("tts_cancel", 0) \in CaptureCall /\ Call("tts_drain", 0) \in CaptureCall
        /\ Call("request", 0) \in CaptureCall
    BY DEF Call, CaptureCall
  <2> CancelFrame \o <<Call("request", 0)>> \in Seq(CaptureCall)
    BY <2>1, CancelFrameCalls, OneCall, ConcatProperties
  <2>2. PICK a \in Seq(CaptureCall) : a = CancelFrame \o <<Call("request", 0)>>
    OBVIOUS
  <2>3. a = <<Call("asr_cancel", 0), Call("tts_inactive", 0), Call("tts_cancel", 0),
              Call("tts_drain", 0), Call("request", 0)>>
    BY <2>1, <2>2, FourThenOne DEF CancelFrame
  <2>4. Len(a) = 5 /\ \A i \in 1 .. 5 : Plain(a[i].op)
    BY <2>3 DEF Call, Plain
  <2>5. Tail(Waiting) \in Seq(CaptureCall) /\ Len(Tail(Waiting)) = n - 1
        /\ \A i \in 1 .. n - 1 : Tail(Waiting)[i] = Waiting[i + 1]
    BY <1>3, <1>5, HeadTailProperties
  <2>6. PICK b \in Seq(CaptureCall) : b = Tail(Waiting)
    BY <2>5
  <2>7. Waiting' = a \o b
    BY <1>3, <2>2, <2>6
  <2>8. Len(b) = n - 1 /\ \A i \in 1 .. n - 1 : b[i] = Waiting[i + 1]
    BY <2>5, <2>6
  <2>9. /\ Len(a \o b) = n + 4
        /\ \A i \in 1 .. n + 4 : (a \o b)[i] = IF i <= 5 THEN a[i] ELSE b[i - 5]
    <3>1. /\ Len(a \o b) = Len(a) + Len(b)
          /\ \A i \in 1 .. Len(a) + Len(b) :
               (a \o b)[i] = IF i <= Len(a) THEN a[i] ELSE b[i - Len(a)]
      BY ConcatProperties
    <3>2. Len(a) = 5 /\ Len(a) + Len(b) = n + 4
      BY <2>4, <2>8
    <3> QED BY <3>1, <3>2
  <2>10. /\ Len(Waiting') = n + 4
         /\ \A i \in 1 .. n + 4 : Waiting'[i] = IF i <= 5 THEN a[i] ELSE b[i - 5]
    BY <2>7, <2>9, Zenon
  <2>11. \A i \in 1 .. 5 : Plain(Waiting'[i].op)
    <3> TAKE i \in 1 .. 5
    <3>1. Waiting'[i] = a[i]
      BY <2>10
    <3> QED BY <2>4, <3>1
  <2>12. ASSUME NEW i \in 6 .. n + 4 PROVE Waiting'[i] = Waiting[i - 4]
    <3>1. i \in 1 .. n + 4 /\ ~(i <= 5) /\ i - 5 \in 1 .. n - 1 /\ (i - 5) + 1 = i - 4
      OBVIOUS
    <3> QED BY <2>8, <2>10, <3>1
  <2>13. Waiting' # <<>>
    <3>1. Len(<<>>) = 0
      OBVIOUS
    <3> QED BY <2>10, <3>1
  <2> QED BY <2>10, <2>11, <2>12, <2>13
<1>7. FrameCalls' = n + 4
  BY <1>3, <1>5, <1>6 DEF FrameCalls
<1>8. Ordered(s + 4)'
  <2>1. /\ s <= n /\ \A i \in 1 .. s : Plain(Waiting[i].op)
        /\ \A i \in s + 1 .. n :
             Waiting[i].op = "asr_audio" /\ Waiting[i].arg = captured + i - n
    BY <1>4, <1>5 DEF Ordered
  <2>2. ASSUME NEW i \in 1 .. s + 4 PROVE Plain(Waiting'[i].op)
    <3>1. CASE i <= 5
      BY <1>6, <3>1
    <3>2. CASE i > 5
      <4>1. i \in 6 .. n + 4 /\ i - 4 \in 1 .. s
        BY <2>1, <3>2
      <4> QED BY <1>6, <2>1, <4>1
    <3> QED BY <3>1, <3>2
  <2>3. ASSUME NEW i \in (s + 4) + 1 .. n + 4
        PROVE  Waiting'[i].op = "asr_audio" /\ Waiting'[i].arg = captured' + i - (n + 4)
    <3>1. i \in 6 .. n + 4 /\ i - 4 \in s + 1 .. n /\ captured + (i - 4) - n = captured + i - (n + 4)
      BY <1>5
    <3> QED BY <1>3, <1>6, <2>1, <3>1
  <2>4. s + 4 <= FrameCalls'
    BY <1>7, <2>1
  <2>5. in_speech'
    BY <1>3, <1>5
  <2> QED BY <1>7, <2>2, <2>3, <2>4, <2>5, Zenon DEF Ordered
<1>9. Gathered(s + 4)'
  <2>1. NextFrame(s + 4)' = NextFrame(s)
    BY <1>3, <1>5, <1>7 DEF NextFrame
  <2>2. audio_buffer = <<>> /\ Begins(NextFrame(s), onset, cut)
    BY <1>4, <1>5 DEF Gathered
  <2> QED BY <1>1, <1>3, <1>5, <2>1, <2>2 DEF Gathered, Begins
<1>10. PreRollInv' /\ s + 4 \in Nat
  BY <1>3 DEF SpeechInv, PreRollInv
<1> QED BY <1>1, <1>3, <1>8, <1>9, <1>10 DEF SpeechInv

(* The frames that the onset of speech passes on.                           *)
LEMMA PreRollOf ==
  ASSUME VoiceInv, PreRollInv
  PROVE  /\ PreRoll \in Seq(Nat)
         /\ Len(PreRoll) = IF Len(pre_roll_buf) + 1 > PreRollFrames THEN PreRollFrames
                           ELSE Len(pre_roll_buf) + 1
         /\ \A i \in 1 .. Len(PreRoll) : PreRoll[i] = ThisFrame - Len(PreRoll) + i
<1>1. captured \in Nat /\ PreRollFrames \in Nat /\ pre_roll_buf \in Seq(1 .. captured)
      /\ 1 .. captured \subseteq Nat
  BY VadAssumption DEF VadAssumption, VoiceInv, VadTypeOK
<1>2. pre_roll_buf \in Seq(Nat)
  BY <1>1, SeqMonotonic
<1> PICK k \in Nat : k = Len(pre_roll_buf)
  BY <1>2, LenProperties
<1>3. \A i \in 1 .. k : pre_roll_buf[i] = captured - k + i
  BY DEF PreRollInv
<1> Append(pre_roll_buf, captured + 1) \in Seq(Nat)
  BY <1>1, <1>2, AppendProperties
<1> PICK s \in Seq(Nat) : s = Append(pre_roll_buf, captured + 1)
  OBVIOUS
<1>4. Len(s) = k + 1 /\ s[k + 1] = captured + 1 /\ \A i \in 1 .. k : s[i] = pre_roll_buf[i]
  BY <1>1, <1>2, AppendProperties
<1>5. \A i \in 1 .. k + 1 : s[i] = captured - k + i
  <2> TAKE i \in 1 .. k + 1
  <2>1. CASE i = k + 1
    BY <1>1, <1>4, <2>1
  <2>2. CASE i # k + 1
    BY <1>3, <1>4, <2>2
  <2> QED BY <2>1, <2>2
<1>6. PreRoll = Newest(s, PreRollFrames)
  BY DEF PreRoll, ThisFrame
<1>7. PICK r \in Seq(Nat) :
        /\ r = PreRoll /\ Len(r) = IF Len(s) > PreRollFrames THEN PreRollFrames ELSE Len(s)
        /\ \A i \in 1 .. Len(r) : r[i] = s[Len(s) - Len(r) + i]
  <2>1. PICK r \in Seq(Nat) : EndOf(r, s, PreRollFrames)
    BY <1>1, NewestOf
  <2> WITNESS r \in Seq(Nat)
  <2> QED BY <1>6, <2>1 DEF EndOf
<1> PICK m \in Nat : m = Len(r)
  BY <1>7, LenProperties
<1>8. m = IF k + 1 > PreRollFrames THEN PreRollFrames ELSE k + 1
  BY <1>4, <1>7
<1>9. ASSUME NEW i \in 1 .. m PROVE r[i] = (captured + 1) - m + i
  <2>1. r[i] = s[(k + 1) - m + i]
    BY <1>4, <1>7
  <2>2. (k + 1) - m + i \in 1 .. k + 1
    BY <1>1, <1>8
  <2>3. r[i] = captured - k + ((k + 1) - m + i)
    BY <1>5, <2>1, <2>2
  <2> QED BY <1>1, <2>3
<1> QED BY <1>7, <1>8, <1>9 DEF ThisFrame

LEMMA OnsetCaptured ==
  ASSUME SpeechOnsetFrames <= PreRollFrames, VoiceInv, SpeechInv,
         NEW loud \in BOOLEAN, Capture(loud), Starts(loud)
  PROVE  Ordered(1)' /\ Gathered(1)' /\ PreRollInv' /\ Waiting' # <<>>
<1>1. /\ main = "running" /\ Waiting = <<>> /\ ~in_speech
      /\ captured' = captured + 1 /\ in_speech' = TRUE /\ pre_roll_buf' = <<>> /\ onset_counter' = 0
      /\ Waiting' = Emitted(loud) /\ audio_buffer' = audio_buffer
      /\ onset' = (captured + 1) - SpeechOnsetFrames + 1
      /\ onset_counter + 1 >= SpeechOnsetFrames
  <2>1. /\ main = "running" /\ Waiting = <<>> /\ captured' = captured + 1 /\ in_speech' = TRUE
        /\ pre_roll_buf' = <<>> /\ onset_counter' = 0 /\ audio_buffer' = audio_buffer
        /\ onset' = (captured + 1) - SpeechOnsetFrames + 1
    <3>1. /\ main = "running" /\ Waiting = <<>> /\ captured' = captured + 1
          /\ audio_buffer' = audio_buffer /\ in_speech' = TRUE
      BY DEF Capture, VadInput, Waiting, ThisFrame, asrVars
    <3>2. pre_roll_buf' = <<>> /\ onset_counter' = 0
      BY DEF Capture, VadInput
    <3>3. onset' = (captured + 1) - SpeechOnsetFrames + 1
      BY DEF Capture, ThisFrame
    <3> QED BY <3>1, <3>2, <3>3
  <2>2. ~in_speech /\ onset_counter + 1 >= SpeechOnsetFrames
    BY DEF Starts
  <2>3. Waiting' = Emitted(loud)
    BY DEF Capture, Waiting, VoiceInv, CallTypes, Threads
  <2> QED BY <2>1, <2>2, <2>3
<1>2. /\ captured \in Nat /\ PreRollFrames \in Nat /\ SpeechOnsetFrames \in Nat \ {0}
      /\ onset_counter \in Nat /\ pre_roll_buf \in Seq(1 .. captured)
  BY VadAssumption DEF VadAssumption, VoiceInv, VadTypeOK
<1> PICK k \in Nat : k = Len(pre_roll_buf)
  BY <1>2, LenProperties
<1>3. PreRollInv /\ onset_counter <= k
  BY DEF SpeechInv, PreRollInv
<1> PreRoll \in Seq(Nat)
  BY <1>3, PreRollOf
<1> PICK r \in Seq(Nat) : r = PreRoll
  OBVIOUS
<1>4. /\ r \in Seq(Nat) /\ Len(r) = IF k + 1 > PreRollFrames THEN PreRollFrames ELSE k + 1
      /\ \A i \in 1 .. Len(r) : r[i] = (captured + 1) - Len(r) + i
  BY <1>3, PreRollOf DEF ThisFrame
<1> PICK m \in Nat : m = Len(r)
  BY <1>4, LenProperties
<1>5. m >= SpeechOnsetFrames /\ m >= 1
  BY <1>1, <1>2, <1>3, <1>4
<1> DEFINE F == [i \in 1 .. m |-> Call("asr_audio", r[i])]
<1>6. F \in Seq(CaptureCall) /\ Len(F) = m /\ \A i \in 1 .. m : F[i] = Call("asr_audio", r[i])
  <2>1. ASSUME NEW i \in 1 .. m PROVE Call("asr_audio", r[i]) \in CaptureCall
    <3>1. r[i] \in Nat
      BY <1>4, ElementOfSeq
    <3> QED BY <3>1 DEF Call, CaptureCall
  <2> QED BY <2>1, IsASeq
<1>7. FlushPreRoll = F
  <2>1. DOMAIN r = 1 .. m /\ PreRollFrames # 0
    BY <1>2, <1>4, LenProperties
  <2> QED BY <2>1 DEF FlushPreRoll
<1> HIDE DEF F
<1> EmitSpeechStart \in Seq(CaptureCall)
  <2>1. Call("interrupt", 0) \in CaptureCall
    BY DEF Call, CaptureCall
  <2> QED BY <2>1, OneCall DEF EmitSpeechStart
<1> PICK e \in Seq(CaptureCall) : e = EmitSpeechStart
  OBVIOUS
<1>8. Len(e) = 1 /\ e[1].op = "interrupt"
  BY DEF EmitSpeechStart, Call
<1>9. Waiting' = e \o F
  BY <1>1, <1>7 DEF Emitted, Announce, EventFirst, Starts
<1>10. /\ Len(Waiting') = m + 1 /\ Waiting'[1].op = "interrupt"
       /\ \A i \in 2 .. m + 1 : Waiting'[i] = F[i - 1]
  <2>1. /\ Len(e \o F) = Len(e) + Len(F)
        /\ \A i \in 1 .. Len(e) + Len(F) :
             (e \o F)[i] = IF i <= Len(e) THEN e[i] ELSE F[i - Len(e)]
    BY <1>6, ConcatProperties
  <2>2. Len(e) + Len(F) = m + 1
    BY <1>6, <1>8
  <2>3. Len(e \o F) = m + 1 /\ (e \o F)[1] = e[1] /\ \A i \in 2 .. m + 1 : (e \o F)[i] = F[i - 1]
    BY <1>8, <2>1, <2>2
  <2> QED BY <1>8, <1>9, <2>3, Zenon
<1>11. FrameCalls' = m + 1 /\ Waiting' # <<>>
  <2>1. Waiting' # <<>>
    <3>1. Len(<<>>) = 0
      OBVIOUS
    <3> QED BY <1>10, <3>1
  <2> QED BY <1>1, <1>10, <2>1 DEF FrameCalls
<1>12. Ordered(1)'
  <2>1. \A i \in 1 .. 1 : Plain(Waiting'[i].op)
    BY <1>10 DEF Plain
  <2>2. ASSUME NEW i \in 1 + 1 .. m + 1
        PROVE  Waiting'[i].op = "asr_audio" /\ Waiting'[i].arg = captured' + i - (m + 1)
    <3>1. i \in 2 .. m + 1 /\ i - 1 \in 1 .. m
      OBVIOUS
    <3>2. Waiting'[i] = Call("asr_audio", r[i - 1])
      BY <1>6, <1>10, <3>1
    <3>3. r[i - 1] = (captured + 1) - m + (i - 1)
      BY <1>4, <3>1
    <3>4. (captured + 1) - m + (i - 1) = captured' + i - (m + 1)
      BY <1>1, <1>2
    <3> QED BY <3>2, <3>3, <3>4 DEF Call
  <2>3. 1 <= m + 1 /\ in_speech'
    BY <1>1
  <2> QED BY <1>11, <2>1, <2>2, <2>3, Zenon DEF Ordered
<1>13. Gathered(1)'
  <2>1. PICK s \in Nat : Ordered(s) /\ Gathered(s)
    BY DEF SpeechInv
  <2>2. audio_buffer' = <<>>
    BY <1>1, <2>1 DEF Gathered
  <2>3. NextFrame(1)' = captured + 2 - m
    BY <1>1, <1>2, <1>11 DEF NextFrame
  <2>4. NextFrame(1)' <= onset'
    BY <1>1, <1>2, <1>5, <2>3
  <2> QED BY <1>1, <2>2, <2>4 DEF Gathered, Begins
<1>14. PreRollInv'
  BY <1>1 DEF PreRollInv
<1> QED BY <1>11, <1>12, <1>13, <1>14

(* A frame while nobody speaks, or while somebody does.                     *)
LEMMA FrameCaptured ==
  ASSUME SpeechOnsetFrames <= PreRollFrames, VoiceInv, SpeechInv,
         NEW loud \in BOOLEAN, Capture(loud), ~Starts(loud)
  PROVE  Ordered(0)' /\ Gathered(0)' /\ PreRollInv'
<1>1. /\ main = "running" /\ Waiting = <<>> /\ captured' = captured + 1
      /\ audio_buffer' = audio_buffer /\ onset' = onset /\ cut' = cut
  BY DEF Capture, VadInput, Waiting, ThisFrame, asrVars
<1>2. Waiting' = Emitted(loud)
  BY DEF Capture, Waiting, VoiceInv, CallTypes, Threads
<1>3. captured \in Nat /\ in_speech \in BOOLEAN
  BY DEF VoiceInv, VadTypeOK
<1>4. Gathered(0)
  <2>1. PICK s \in Nat : Ordered(s) /\ Gathered(s)
    BY DEF SpeechInv
  <2>2. s = 0
    BY <1>1, <2>1 DEF Ordered, FrameCalls
  <2> QED BY <2>1, <2>2
<1>5. NextFrame(0) = captured + 1
  BY <1>1, <1>3 DEF NextFrame, FrameCalls
<1>6. CASE ~in_speech
  <2>1. Waiting' = <<>> /\ in_speech' = FALSE /\ audio_buffer' = <<>>
    <3>1. audio_buffer = <<>>
      BY <1>1, <1>4, <1>6 DEF Gathered
    <3>2. in_speech' = FALSE
      BY <1>6 DEF Capture, VadInput
    <3>3. Emitted(loud) = <<>>
      BY <1>6 DEF Emitted
    <3> QED BY <1>1, <1>2, <3>1, <3>2, <3>3
  <2>2. FrameCalls' = 0
    BY <2>1 DEF FrameCalls
  <2>3. Ordered(0)' /\ Gathered(0)'
    BY <2>1, <2>2 DEF Ordered, Gathered
  <2>4. PreRollInv'
    <3>1. pre_roll_buf' = PreRoll /\ (onset_counter' = onset_counter + 1 \/ onset_counter' = 0)
          /\ (onset_counter' # 0 => ~(onset_counter + 1 >= SpeechOnsetFrames))
      BY <1>6 DEF Capture, VadInput, Starts
    <3>2. /\ onset_counter \in Nat /\ pre_roll_buf \in Seq(1 .. captured) /\ PreRollFrames \in Nat
          /\ SpeechOnsetFrames \in Nat /\ onset_counter <= Len(pre_roll_buf) /\ PreRollInv
      BY VadAssumption DEF VadAssumption, VoiceInv, VadTypeOK, SpeechInv, PreRollInv
    <3> PICK k \in Nat : k = Len(pre_roll_buf)
      BY <3>2, LenProperties
    <3> PreRoll \in Seq(Nat)
      BY <3>2, PreRollOf
    <3> PICK r \in Seq(Nat) : r = PreRoll
      OBVIOUS
    <3>3. /\ Len(r) = IF k + 1 > PreRollFrames THEN PreRollFrames ELSE k + 1
          /\ \A i \in 1 .. Len(r) : r[i] = (captured + 1) - Len(r) + i
      BY <3>2, PreRollOf DEF ThisFrame
    <3>4. onset_counter' <= Len(r)
      BY <3>1, <3>2, <3>3
    <3> QED BY <1>1, <3>1, <3>3, <3>4 DEF PreRollInv
  <2> QED BY <2>3, <2>4
<1>7. CASE in_speech
  <2>1. PreRollInv'
    <3>1. pre_roll_buf' = <<>> /\ onset_counter' = 0
      BY <1>7 DEF Capture, VadInput
    <3> QED BY <3>1 DEF PreRollInv
  <2>2. in_speech' = ~Ends(loud)
    BY <1>7 DEF Capture, VadInput
  <2>3. /\ Len(Waiting') = IF Ends(loud) THEN 2 ELSE 1
        /\ Waiting'[1] = Call("asr_audio", captured + 1)
        /\ Ends(loud) => Waiting'[2].op = "asr_flush"
    <3>1. Call("asr_audio", captured + 1) \in CaptureCall /\ Call("asr_flush", 0) \in CaptureCall
      BY <1>3 DEF Call, CaptureCall
    <3> EmitAudio(ThisFrame) \in Seq(CaptureCall)
      BY <3>1, OneCall DEF EmitAudio, ThisFrame
    <3> PICK a \in Seq(CaptureCall) : a = EmitAudio(ThisFrame)
      OBVIOUS
    <3>2. Len(a) = 1 /\ a[1] = Call("asr_audio", captured + 1)
      BY DEF EmitAudio, ThisFrame
    <3>3. CASE Ends(loud)
      <4> EmitSpeechEnd \in Seq(CaptureCall)
        BY <3>1, OneCall DEF EmitSpeechEnd
      <4> PICK b \in Seq(CaptureCall) : b = EmitSpeechEnd
        OBVIOUS
      <4>1. Len(b) = 1 /\ b[1].op = "asr_flush"
        BY DEF EmitSpeechEnd, Call
      <4>2. /\ Len(a \o b) = Len(a) + Len(b)
            /\ \A i \in 1 .. Len(a) + Len(b) :
                 (a \o b)[i] = IF i <= Len(a) THEN a[i] ELSE b[i - Len(a)]
        BY ConcatProperties
      <4>3. Len(a \o b) = 2 /\ (a \o b)[1] = a[1] /\ (a \o b)[2] = b[1]
        BY <3>2, <4>1, <4>2
      <4>4. Waiting' = a \o b
        BY <1>2, <1>7, <3>3 DEF Emitted
      <4> QED BY <3>2, <3>3, <4>1, <4>3, <4>4, Zenon
    <3>4. CASE ~Ends(loud)
      <4>1. a \o <<>> = a
        BY ConcatEmptySeq
      <4>2. Waiting' = a \o <<>>
        BY <1>2, <1>7, <3>4 DEF Emitted
      <4> QED BY <3>2, <3>4, <4>1, <4>2, Zenon
    <3> QED BY <3>3, <3>4
  <2>4. Waiting' # <<>>
    <3>1. Len(<<>>) = 0
      OBVIOUS
    <3> QED BY <2>3, <3>1
  <2>5. FrameCalls' = 1
    <3>1. CASE Ends(loud)
      <4>1. ~in_speech' /\ Len(Waiting') = 2
        BY <2>2, <2>3, <3>1
      <4> QED BY <2>4, <4>1 DEF FrameCalls
    <3>2. CASE ~Ends(loud)
      BY <2>2, <2>3, <2>4, <3>2 DEF FrameCalls
    <3> QED BY <3>1, <3>2
  <2>6. NextFrame(0)' = NextFrame(0)
    BY <1>1, <1>3, <1>5, <2>5 DEF NextFrame
  <2>7. Ordered(0)'
    <3>1. \A i \in 0 + 1 .. 1 : Waiting'[i].op = "asr_audio" /\ Waiting'[i].arg = captured' + i - 1
      <4> TAKE i \in 0 + 1 .. 1
      <4>1. i = 1
        OBVIOUS
      <4>2. Waiting'[1].op = "asr_audio" /\ Waiting'[1].arg = captured + 1
        BY <2>3 DEF Call
      <4> QED BY <1>1, <1>3, <4>1, <4>2
    <3>2. ~in_speech' => Waiting'[Len(Waiting')].op = "asr_flush"
      BY <2>2, <2>3
    <3>3. \A i \in 1 .. 0 : Plain(Waiting'[i].op)
      OBVIOUS
    <3> QED BY <2>5, <3>1, <3>2, <3>3 DEF Ordered
  <2>8. Gathered(0)'
    BY <1>1, <1>4, <1>7, <2>4, <2>6 DEF Gathered, Begins
  <2> QED BY <2>1, <2>7, <2>8
<1> QED BY <1>3, <1>6, <1>7

LEMMA SpeechStep ==
  ASSUME SpeechOnsetFrames <= PreRollFrames, VoiceInv, SpeechInv, [Next]_vars
  PROVE  SpeechInv'
<1>1. ASSUME NEW loud \in BOOLEAN, Capture(loud) PROVE SpeechInv'
  <2>1. /\ main = "running" /\ main' = main /\ asr_active' = asr_active /\ utterances' = utterances
        /\ onset' \in {onset, ThisFrame - SpeechOnsetFrames + 1} /\ cut' \in {cut, 0}
    BY <1>1 DEF Capture, asrVars
  <2>2. onset' \in Int /\ cut' \in Nat
    <3>1. ThisFrame - SpeechOnsetFrames + 1 \in Int
      BY VadAssumption DEF VoiceInv, VadTypeOK, VadAssumption, ThisFrame
    <3> QED BY <2>1, <3>1 DEF SpeechInv
  <2>3. PreRollInv' /\ \E s \in Nat : Ordered(s)' /\ Gathered(s)'
    <3>1. CASE Starts(loud)
      BY <1>1, <3>1, OnsetCaptured
    <3>2. CASE ~Starts(loud)
      BY <1>1, <3>2, FrameCaptured
    <3> QED BY <3>1, <3>2
  <2> QED BY <2>1, <2>2, <2>3 DEF SpeechInv
<1>2. ASSUME UNCHANGED <<Waiting, captured, in_speech, pre_roll_buf, onset_counter, audio_buffer>>,
             UNCHANGED <<onset, cut, utterances>>,
             main' = "running" => main = "running" /\ asr_active' = asr_active,
             main = "running" /\ main' # "running" => Waiting = <<>>
      PROVE  SpeechInv'
  <2>1. PICK s \in Nat : Ordered(s) /\ Gathered(s)
    BY DEF SpeechInv
  <2>2. Ordered(s)' /\ Gathered(s)'
    BY <1>2, <2>1, GatheredKept DEF speechVars
  <2>3. PreRollInv'
    BY <1>2 DEF SpeechInv, PreRollInv
  <2> QED BY <1>2, <2>2, <2>3 DEF SpeechInv
<1>3. ASSUME NEW t \in Threads, CallStep(t) PROVE SpeechInv'
  <2>1. CASE PassAudio(t) \/ FlushSpeech(t) \/ CancelSpeech(t) \/ BargeIn(t)
    BY <2>1, AudioPassed, SpeechFlushed, SpeechCancelled, BargedIn
  <2>2. CASE CancelSynthesis(t) \/ DrainTexts(t) \/ SpeakText(t) \/ RequestInterrupt(t)
    <3>1. /\ calls[t] # <<>> /\ Done(t)
          /\ Head(calls[t]).op \in {"tts_inactive", "tts_cancel", "tts_drain", "tts_text", "request"}
          /\ UNCHANGED <<vadVars, main, asrVars, speechHistory>>
      BY <2>2 DEF CancelSynthesis, DrainTexts, SpeakText, RequestInterrupt, Next1, Unchanging
    <3>2. CASE t = "capture"
      <4>1. /\ Waiting # <<>> /\ Waiting' = Tail(Waiting) /\ Head(Waiting) = Waiting[1]
            /\ Plain(Waiting[1].op)
        BY <3>1, <3>2 DEF Waiting, Done, VoiceInv, CallTypes, Threads, Plain
      <4> QED BY <3>1, <4>1, PlainCallMade DEF asrVars, speechHistory
    <3>3. CASE t = "loop"
      <4>1. Waiting' = Waiting
        BY <3>1, <3>3 DEF Waiting, Done, VoiceInv, CallTypes, Threads
      <4> QED BY <1>2, <3>1, <4>1 DEF vadVars, asrVars, speechHistory
    <3> QED BY <3>2, <3>3 DEF Threads
  <2> QED BY <1>3, <2>1, <2>2 DEF CallStep
<1>4. CASE Loop
  <2>1. Waiting' = Waiting
    <3>1. calls' = calls \/ \E q : calls' = [calls EXCEPT !["loop"] = q]
      BY <1>4, LoopSends DEF Quiet, SendText, Send
    <3> QED BY <3>1 DEF Waiting, VoiceInv, CallTypes, Threads
  <2> QED BY <1>2, <1>4, <2>1 DEF Loop, LoopFrame, vadVars, asrVars, speechHistory
<1>5. CASE AsrWorker
  <2>1. UNCHANGED <<vadVars, calls, main, speechHistory>>
        /\ asr_active' = asr_active /\ audio_buffer' = audio_buffer
    BY <1>5 DEF AsrWorker, AsrTake, Transcribed, AsrEnds
  <2> QED BY <1>2, <2>1 DEF vadVars, speechHistory, Waiting
<1>6. CASE TtsWorker
  BY <1>2, <1>6 DEF TtsWorker, vadVars, asrVars, speechHistory, Waiting
<1>7. CASE Destroy /\ MainOnly
  <2>1. /\ UNCHANGED <<vadVars, calls, speechHistory, audio_buffer>>
        /\ main = "running" => Waiting = <<>> /\ asr_active' = asr_active
        /\ main' # "running"
    BY <1>7 DEF Destroy, MainOnly, MainStep, asrVars, AsrInactive, AsrStopFlag, Waiting
  <2> QED BY <1>2, <2>1 DEF vadVars, speechHistory, Waiting
<1>8. CASE UNCHANGED vars
  BY <1>2, <1>8 DEF vars, vadVars, asrVars, speechHistory, Waiting
<1> QED BY <1>1, <1>3, <1>4, <1>5, <1>6, <1>7, <1>8 DEF Next

(* An utterance reaches the recogniser whole, from the onset of speech on or *)
(* from where the loop thread last emptied the buffer, provided that the     *)
(* frames kept before speech are as many as the onset takes, as every        *)
(* assembly of the device in the repository configures them.                *)
THEOREM UtterancesStayWhole ==
  ASSUME SpeechOnsetFrames <= PreRollFrames
  PROVE  Spec => []UtterancesWhole
<1>1. SpeechInv => UtterancesWhole
  <2> SUFFICES ASSUME SpeechInv, NEW i \in DOMAIN utterances
               PROVE  /\ Gapless(utterances[i].frames)
                      /\ Begins(utterances[i].frames[1], utterances[i].onset, utterances[i].cut)
    BY DEF UtterancesWhole, Gapless, Begins
  <2>1. utterances \in Seq(Utterance) /\ DOMAIN utterances = 1 .. Len(utterances)
    BY LenProperties DEF SpeechInv
  <2>2. utterances[i] \in Utterance
    BY <2>1, ElementOfSeq
  <2> QED BY <2>2 DEF Utterance
<1>2. Init => VoiceInv /\ SpeechInv
  BY VoiceInit, SpeechInit
<1>3. VoiceInv /\ SpeechInv /\ [Next]_vars => (VoiceInv /\ SpeechInv)'
  BY VoiceStep, SpeechStep
<1> QED BY <1>1, <1>2, <1>3, PTL DEF Spec
=============================================================================
