---------------------------- MODULE AnswerStream ----------------------------
(***************************************************************************)
(* What one LLM call streams, on its way to be spoken: the parser of the    *)
(* stream (services/llm/openai/json_parser.cpp), which puts the reasoning   *)
(* of the model between <think> tags, the filter in the controller's token  *)
(* callback, which takes it out again, and the segment strategy             *)
(* (core/strategies/tts_segment_strategy.h), which collects the rest.       *)
(*                                                                          *)
(* A chunk of the stream carries a piece of reasoning ("thought") or of     *)
(* content ("answer"); one that carries both is one after the other.  Of    *)
(* the accumulated text there is the last tag in it, of the strategy's      *)
(* buffer the kinds of text that are in it.  A token brings at most one     *)
(* tag, in front, so that the filter, which looks at each character, is one *)
(* step here.  Tool calls are left out, and tags that the model itself      *)
(* writes into its content.                                                 *)
(***************************************************************************)
EXTENDS Naturals

CONSTANT MaxRetries

ASSUME StreamAssumption == MaxRetries \in Nat

VARIABLES attempt,              \* of the LLM call
          last_tag,             \* in accumulated_content
          in_thinking_block,    \* of the controller's filter
          buffered              \* the segment strategy's buffer_

streamVars == <<attempt, last_tag, in_thinking_block, buffered>>

Kinds == {"thought", "answer"}

StreamInit == attempt = 0 /\ last_tag = "none" /\ in_thinking_block = FALSE /\ buffered = {}

-----------------------------------------------------------------------------
\* The parser

\* Reasoning opens a block unless one is open, the first one and every further.
Opening == IF last_tag # "open" THEN "open" ELSE "none"

\* Opens the first block only.
OpenedBefore == IF last_tag = "none" THEN "open" ELSE "none"

ReasoningTag == Opening

\* Content closes the block that is open.
ContentTag == IF last_tag = "open" THEN "close" ELSE "none"

\* The end of the stream closes it, too, and the tag is a token of its own.
DoneTag == ContentTag

TagOf(kind) == IF kind = "thought" THEN ReasoningTag ELSE ContentTag
Parse(tag) == last_tag' = IF tag = "none" THEN last_tag ELSE tag

-----------------------------------------------------------------------------
\* The filter: within a block it looks for the end, outside for the beginning.
InBlockAfter(tag) == IF in_thinking_block THEN tag # "close" ELSE tag = "open"
Filter(tag) == in_thinking_block' = InBlockAfter(tag)

Clean(tag, texts) ==
  (IF ~in_thinking_block /\ tag = "close" THEN {"tag"} ELSE {})
    \cup (IF InBlockAfter(tag) THEN {} ELSE texts)

-----------------------------------------------------------------------------
\* The segment strategy.  A segment is everything up to the last punctuation, or
\* everything when that is much: a rest of the same text may stay.
ReadyLength(all) == buffered' \in {{}, all}
FlushBuffer == buffered' = {}

\* HandleThinking begins a call of the LLM; the strategy's buffer is as it was.
NewCall == in_thinking_block' = FALSE

\* A failed attempt leaves the filter and the buffer as they are; what the parser
\* has accumulated goes with SubmitStreaming.
NextAttempt == attempt < MaxRetries /\ attempt' = attempt + 1 /\ last_tag' = "none"
EndCall == attempt' = 0 /\ last_tag' = "none"
=============================================================================
