------------------------------ MODULE MemoryStore ------------------------------
(***************************************************************************)
(* What core/interfaces/memory_store.h promises of one session's history,   *)
(* as services/memory/in_memory_store.h keeps it: a list, each call one     *)
(* step.  The SQLite store is shown to implement it.                        *)
(***************************************************************************)
EXTENDS Naturals, Sequences

CONSTANT Entries         \* the memory entries a session may hold

VARIABLE entries         \* the session's list

Init == entries = <<>>

\* Append() itself is the Append of Sequences.
AppendEntry(entry) == entries' = Append(entries, entry)

GetRecent(list, count) ==
  IF count >= Len(list) THEN list ELSE SubSeq(list, Len(list) - count + 1, Len(list))

\* The range start_index (inclusive) to end_index (exclusive), counted from 0;
\* a range that is empty or reaches beyond the list changes nothing.
Summarize(start_index, end_index, summary) ==
  /\ start_index < end_index /\ end_index <= Len(entries)
  /\ entries' = SubSeq(entries, 1, start_index) \o <<summary>>
                  \o SubSeq(entries, end_index + 1, Len(entries))

Clear == entries' = <<>>

\* The one caller, ContextStrategy, has the older half summarised.
Next ==
  \/ \E entry \in Entries : AppendEntry(entry)
  \/ \E entry \in Entries : Summarize(0, Len(entries) \div 2, entry)
  \/ Clear

Spec == Init /\ [][Next]_entries
=============================================================================
