----------------------------- MODULE AgentSession -----------------------------
(***************************************************************************)
(* core/session/session.cpp: the context strategy, the policy layer and the *)
(* memory store of one session, driven by the controller's loop thread as   *)
(* its effects record a turn: the message, the tool calls, their results or *)
(* a denial, an interruption, the answer.  RecordTurn appends, counts and   *)
(* summarises under three separate locks, and the UI thread may clear the   *)
(* database between them.  The process may end at any step and be started   *)
(* again on the same database.                                              *)
(*                                                                          *)
(* The loop's own decisions are the Controller module's; here they are      *)
(* choices, in the order in which that module allows them.                  *)
(***************************************************************************)
EXTENDS SqliteMemoryStore, ContextStrategy, PolicyLayer

CONSTANTS Threshold,     \* config_.summarization_threshold
          FetchLimit,    \* kMaxContextFetchEntries
          Batches,       \* the batches of tool calls an LLM may request
          Actions,       \* the tools they call
          MaxContextTokens, \* config_.max_context_tokens
          Prompts,       \* the instructions and observations looked at
          MaxFaults      \* bound on failing statements and crashes

ASSUME SessionAssumption ==
  /\ Threshold \in Nat /\ FetchLimit \in Nat /\ MaxFaults \in Nat /\ MaxContextTokens \in Nat
  /\ Prompts \subseteq [system : Nat, observation : Nat]
  /\ Batches \subseteq Seq(Nat) /\ Entries \subseteq MemoryEntries
  /\ {UserEntry, AnswerEntry, InterruptEntry, DenialEntry, SummaryEntry} \subseteq Entries
  /\ \A batch \in Batches : /\ CallEntry(batch) \in Entries
                            /\ \A i \in DOMAIN batch : ResultEntry(batch[i]) \in Entries

VARIABLES phase,         \* what the loop is doing
          todo,          \* the entries its current effects still record
          recording,     \* the step RecordTurn has come to
          total,         \* what Count() returned
          caught,        \* an exception here is caught by the loop
          calls,         \* the batch of tool calls of the current cycle
          pending,       \* those not answered yet
          faults         \* failed statements and crashes so far

loopVars == <<phase, todo, recording, total, caught, calls, pending>>
vars == <<storeVars, policyVars, loopVars, faults>>

LoopInit ==
  /\ phase = "listening" /\ todo = <<>> /\ recording = "append" /\ total = 0
  /\ caught = FALSE /\ calls = <<>> /\ pending = {}

Init == StoreInit /\ PolicyInit /\ LoopInit /\ faults = 0

-----------------------------------------------------------------------------
\* RecordTurn, called for each entry of todo

Ready == todo = <<>>

\* The next phase, and what is recorded before it.
Record(entries, next, guarded) ==
  /\ Ready
  /\ todo' = entries /\ phase' = next /\ caught' = guarded
  /\ UNCHANGED <<storeVars, policyVars, recording, total, faults>>

AppendStep ==
  /\ ~Ready /\ recording = "append"
  /\ AppendRow(Head(todo))
  /\ recording' = "count"
  /\ UNCHANGED <<policyVars, phase, todo, total, caught, calls, pending, faults>>

Recorded == todo' = Tail(todo) /\ recording' = "append"

CountStep ==
  /\ recording = "count" /\ MutexFree
  /\ total' = Count
  /\ IF MustSummarize(Count, Threshold)
     THEN recording' = "summarize" /\ UNCHANGED todo
     ELSE Recorded
  /\ UNCHANGED <<storeVars, policyVars, phase, caught, calls, pending, faults>>

\* Summarize(0, half): the call, which returns when there is nothing to select,
\* and its statements.
SummarizeCall ==
  /\ recording = "summarize"
  /\ SelectIds(0, total \div 2)
  /\ IF statement' = "none" THEN Recorded ELSE recording' = "statements" /\ UNCHANGED todo
  /\ UNCHANGED <<policyVars, phase, total, caught, calls, pending, faults>>

SummarizeStatement ==
  /\ Begin \/ Update(SummaryEntry) \/ DeleteNext
  /\ UNCHANGED <<policyVars, loopVars, faults>>

SummarizeCommit ==
  /\ Commit
  /\ Recorded
  /\ UNCHANGED <<policyVars, phase, total, caught, calls, pending, faults>>

\* A statement throws, of RecordTurn or of the reading for a prompt.  Inside
\* StartLlm the loop catches it and the controller goes to Error, which it does
\* not leave; elsewhere it ends the process.
Throw ==
  /\ faults < MaxFaults /\ faults' = faults + 1
  /\ ~Ready \/ phase = "thinking"
  /\ IF statement # "none" THEN Fail ELSE MutexFree /\ UNCHANGED storeVars
  /\ phase' = IF caught \/ Ready THEN "error" ELSE "ended"
  /\ todo' = <<>> /\ recording' = "append"
  /\ UNCHANGED <<policyVars, total, caught, calls, pending>>

-----------------------------------------------------------------------------
\* The loop's effects

UserMessage ==
  /\ phase = "listening"
  /\ Record(<<UserEntry>>, "thinking", TRUE)
  /\ UNCHANGED <<calls, pending>>

Answer ==
  /\ phase = "thinking"
  /\ Record(<<AnswerEntry>>, "listening", TRUE)
  /\ UNCHANGED <<calls, pending>>

\* RecordToolCallDecision comes before the permission is asked for.
RequestTools(batch) ==
  /\ phase = "thinking"
  /\ Record(<<CallEntry(batch)>>, "routing", TRUE)
  /\ calls' = batch /\ UNCHANGED pending

Route(action, outcome) ==
  /\ phase = "routing" /\ Ready
  /\ CheckPermission(action, outcome)
  /\ IF outcome = "allow"
     THEN /\ phase' = "acting" /\ pending' = {calls[i] : i \in DOMAIN calls}
          /\ UNCHANGED todo
     ELSE phase' = "thinking" /\ todo' = <<DenialEntry>> /\ UNCHANGED pending
  /\ UNCHANGED <<storeVars, recording, total, caught, calls, faults>>

ToolResult(id) ==
  /\ phase = "acting" /\ id \in pending
  /\ pending' = pending \ {id}
  /\ Record(<<ResultEntry(id)>>, IF pending = {id} THEN "thinking" ELSE "acting", FALSE)
  /\ UNCHANGED calls

\* The missing results are made up, in the order of the calls.
ToolTimeout ==
  /\ phase = "acting"
  /\ LET missing == Ascending({i \in DOMAIN calls : calls[i] \in pending})
     IN Record([k \in DOMAIN missing |-> ResultEntry(calls[missing[k]])], "thinking", FALSE)
  /\ pending' = {} /\ UNCHANGED calls

Interrupted ==
  /\ phase \in {"thinking", "acting"}
  /\ Record(<<InterruptEntry>>, "listening", FALSE)
  /\ pending' = {} /\ UNCHANGED calls

-----------------------------------------------------------------------------
\* Other threads, and the end of the process

\* ClearDatabase also releases and initialises the context of the session, with
\* the instruction it had.
ClearDatabase == Clear /\ UNCHANGED <<policyVars, loopVars, faults>>

ChangePolicy ==
  /\ \/ \E c \in DefaultCapabilities : GrantCapability(c) \/ RevokeCapability(c)
     \/ \E r \in pending_approvals : ResolveApproval(r)
  /\ UNCHANGED <<storeVars, loopVars, faults>>

Restarted ==
  /\ phase' = "listening" /\ todo' = <<>> /\ recording' = "append" /\ total' = 0
  /\ caught' = FALSE /\ calls' = <<>> /\ pending' = {}
  /\ capabilities' = DefaultCapabilities /\ next_request_id' = 1
  /\ pending_approvals' = {} /\ UNCHANGED rules

\* A new process opens the database the last one left.
Restart ==
  /\ \/ phase = "ended" /\ UNCHANGED faults
     \/ phase # "ended" /\ faults < MaxFaults /\ faults' = faults + 1
  /\ CrashStore
  /\ Restarted

Next ==
  \/ AppendStep \/ CountStep \/ SummarizeCall \/ SummarizeStatement \/ SummarizeCommit
  \/ Throw
  \/ UserMessage \/ Answer
  \/ \E batch \in Batches : RequestTools(batch)
  \/ \E action \in Actions, outcome \in {"allow", "deny", "require_approval"} :
       Route(action, outcome)
  \/ \E id \in pending : ToolResult(id)
  \/ ToolTimeout \/ Interrupted
  \/ ClearDatabase \/ ChangePolicy \/ Restart

Spec == Init /\ [][Next]_vars

-----------------------------------------------------------------------------
TypeOK ==
  /\ StoreTypeOK
  /\ phase \in {"listening", "thinking", "routing", "acting", "error", "ended"}
  /\ todo \in Seq(Entries) /\ total \in 0 .. MaxRows
  /\ recording \in {"append", "count", "summarize", "statements"}
  /\ statement # "none" <=> recording = "statements"
  /\ caught \in BOOLEAN /\ calls \in Batches \cup {<<>>}
  /\ pending \subseteq {calls[i] : i \in DOMAIN calls}
  /\ capabilities \subseteq DefaultCapabilities
  /\ pending_approvals \subseteq 1 .. next_request_id - 1
  /\ faults \in 0 .. MaxFaults

Fetched == Abstract!GetRecent(GetAll, FetchLimit)
Selected(prompt) == BuildContext(Fetched, RemainingBudget(MaxContextTokens, prompt))

\* Whatever the history has become, a prompt with its instruction and observation
\* is within the limit, or has no entries but for those two, and the estimate
\* that goes with it is the sum of what is in it, through all that the pairing
\* adds and takes out again.
WindowWithinBudget ==
  \A prompt \in Prompts :
    LET s == Selected(prompt)
        sum[k \in 0 .. Len(Fetched)] ==
          IF k = 0 THEN 0
          ELSE sum[k - 1] + IF k \in s.in THEN Fetched[k].tokens ELSE 0
    IN /\ s.tokens = sum[Len(Fetched)]
       /\ Fixed(prompt) + s.tokens <= MaxContextTokens \/ s.tokens = 0

\* A tool call that stands alone in its batch and its one result are in the
\* prompt together or not at all, when both are among the entries fetched: an
\* LLM refuses the one without the other.
PairsTogether ==
  \A prompt \in Prompts :
    LET included == Selected(prompt).in
        OfCall(kind, id) == {k \in DOMAIN Fetched : /\ Fetched[k].type = kind
                                                    /\ Fetched[k].tool_call_id = id}
    IN \A call, result \in DOMAIN Fetched :
         LET id == Fetched[call].tool_call_id
         IN /\ id # NoCall /\ Len(Fetched[call].calls) = 1 /\ call < result
            /\ OfCall("tool_call", id) = {call} /\ OfCall("tool_result", id) = {result}
            => (call \in included <=> result \in included)

\* The history stays about as long as the threshold: it grows beyond only when
\* a summary failed or a crash came before it, once for each.  A threshold below
\* three does as three: half of two or three entries is one, and a summary in its
\* place saves nothing.
HistoryBounded ==
  Ready => Count <= (IF Threshold < 3 THEN 3 ELSE Threshold) + faults
=============================================================================
