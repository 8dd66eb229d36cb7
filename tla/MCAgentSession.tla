---------------------------- MODULE MCAgentSession ----------------------------
\* A batch of one call and a batch of two; a rule list as the UI bridge sets it
\* up and one with three rules, two of them of equal priority.
EXTENDS AgentSession

MCBatches == {<<1>>, <<2, 3>>}

\* A turn, a continuation, and an instruction too long for any entry.
MCPrompts == {[system |-> 3, observation |-> 1], [system |-> 3, observation |-> 0],
              [system |-> 6, observation |-> 2]}

MCEntries ==
  {UserEntry, AnswerEntry, InterruptEntry, DenialEntry, SummaryEntry}
    \cup {CallEntry(batch) : batch \in MCBatches} \cup {ResultEntry(id) : id \in 1 .. 3}

MCRuleLists ==
  {<<Rule(0, Any, "builtin", "allow")>>,
   <<Rule(1, "save_note", None, "allow"), Rule(0, Any, "builtin", "deny"),
     Rule(1, "save_note", None, "require_approval")>>}
=============================================================================
