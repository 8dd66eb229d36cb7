---------------------------- MODULE ContextStrategy ----------------------------
(***************************************************************************)
(* core/context/context_strategy.cpp: the choice of the memory entries that *)
(* go into a prompt.  An entry is its kind, the id of the tool call it      *)
(* belongs to (0 for none), the ids of all the calls it requests, and its   *)
(* size in tokens.  controller.cpp gives a tool call entry the id of the    *)
(* FIRST call it requests.                                                  *)
(*                                                                          *)
(* What the system instruction and the current observation take is taken    *)
(* off the budget beforehand, down to nothing.                              *)
(***************************************************************************)
EXTENDS Naturals, Sequences, FiniteSets

MemoryEntry(kind, calls, id, tokens) ==
  [type |-> kind, calls |-> calls, tool_call_id |-> id, tokens |-> tokens]

NoCall == 0
FirstToolCallId(calls) == IF calls = <<>> THEN NoCall ELSE Head(calls)

UserEntry == MemoryEntry("user", <<>>, NoCall, 1)
AnswerEntry == MemoryEntry("assistant", <<>>, NoCall, 2)
InterruptEntry == MemoryEntry("assistant", <<>>, NoCall, 1)
CallEntry(calls) == MemoryEntry("tool_call", calls, FirstToolCallId(calls), 1)
ResultEntry(id) == MemoryEntry("tool_result", <<>>, id, 2)
DenialEntry == MemoryEntry("tool_result", <<>>, NoCall, 1)
SummaryEntry == MemoryEntry("summary", <<>>, NoCall, 1)

MemoryEntries == [type : STRING, calls : Seq(Nat), tool_call_id : Nat, tokens : Nat]

-----------------------------------------------------------------------------
\* A prompt: the tokens of the instruction and of the observation, which are 0 for
\* the continuation after a tool result, as it adds no message.
Fixed(prompt) == prompt.system + prompt.observation

RemainingBudget(max_tokens, prompt) ==
  IF Fixed(prompt) <= max_tokens THEN max_tokens - Fixed(prompt) ELSE 0

\* A selection: which of the fetched entries are included, and their tokens.
Including(s, all, k) == [in |-> s.in \cup {k}, tokens |-> s.tokens + all[k].tokens]
Excluding(s, all, k) == [in |-> s.in \ {k}, tokens |-> s.tokens - all[k].tokens]

\* From newest to oldest, whatever still fits.
Fitting(all, budget) ==
  LET n == Len(all)
      take[i \in 0 .. n] ==
        IF i = 0 THEN [in |-> {}, tokens |-> 0]
        ELSE LET s == take[i - 1]
                 k == n - i + 1
             IN IF s.tokens + all[k].tokens <= budget THEN Including(s, all, k) ELSE s
  IN take[n]

\* The other half of a tool cycle: the nearest call before a result, or the
\* nearest result after a call, with the same tool_call_id; 0 when there is none.
Partner(all, k) ==
  LET other == IF all[k].type = "tool_result"
               THEN {j \in 1 .. k - 1 : /\ all[j].type = "tool_call"
                                        /\ all[j].tool_call_id = all[k].tool_call_id}
               ELSE {j \in k + 1 .. Len(all) : /\ all[k].type = "tool_call"
                                               /\ all[j].type = "tool_result"
                                               /\ all[j].tool_call_id = all[k].tool_call_id}
  IN IF other = {} THEN 0
     ELSE CHOOSE j \in other :
            \A i \in other : IF all[k].type = "tool_result" THEN i <= j ELSE j <= i

\* An included half brings in the other one, or is left out with it.
PairOrDrop(s, all, budget, k) ==
  LET p == Partner(all, k)
  IN IF k \notin s.in \/ p = 0 \/ p \in s.in THEN s
     ELSE IF s.tokens + all[p].tokens <= budget THEN Including(s, all, p)
     ELSE Excluding(s, all, k)

\* Brings in the other half whatever it costs.
PairAlways(s, all, budget, k) ==
  LET p == Partner(all, k)
  IN IF k \notin s.in \/ p = 0 \/ p \in s.in THEN s ELSE Including(s, all, p)

\* Keeps the half whose other half does not fit.
PairIfItFits(s, all, budget, k) ==
  LET p == Partner(all, k)
  IN IF k \notin s.in \/ p = 0 \/ p \in s.in THEN s
     ELSE IF s.tokens + all[p].tokens <= budget THEN Including(s, all, p) ELSE s

Paired(s, all, budget, k) == PairOrDrop(s, all, budget, k)

\* The entries of the prompt: chosen greedily, then paired from the oldest on.
BuildContext(all, budget) ==
  LET pass[k \in 0 .. Len(all)] ==
        IF k = 0 THEN Fitting(all, budget) ELSE Paired(pass[k - 1], all, budget, k)
  IN pass[Len(all)]

\* When RecordTurn has appended one entry too many, the older half goes.
ExceedsByOne(total, threshold) == total > threshold

\* An off-by-one.
ExceedsByTwo(total, threshold) == total > threshold + 1

Exceeds(total, threshold) == ExceedsByOne(total, threshold)

MustSummarize(total, threshold) == Exceeds(total, threshold) /\ total \div 2 > 0
=============================================================================
