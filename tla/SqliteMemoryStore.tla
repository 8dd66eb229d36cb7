--------------------------- MODULE SqliteMemoryStore ---------------------------
(***************************************************************************)
(* app/memory/sqlite_memory_store.cpp: the history of one session is the    *)
(* rows of a table, read in the order of their ids.  Every method holds one *)
(* mutex from beginning to end; Summarize is several statements, any of     *)
(* which may fail and throw, and the process may end between them: SQLite   *)
(* keeps what was committed.                                                *)
(***************************************************************************)
EXTENDS Sequences, Enumerations

CONSTANTS Entries,       \* the memory entries a session may hold
          MaxRows        \* bound on the rows ever inserted

ASSUME StoreAssumption == MaxRows \in Nat

VARIABLES rows,          \* the committed table: a set of [id, entry]
          txn,           \* the table as the open transaction sees it
          statement,     \* the step Summarize has come to
          ids,           \* the ids it has selected
          next_id        \* AUTOINCREMENT

storeVars == <<rows, txn, statement, ids, next_id>>

StoreInit ==
  /\ rows = {} /\ txn = {} /\ statement = "none" /\ ids = <<>> /\ next_id = 1

MutexFree == statement = "none"

\* ORDER BY id
IdsOf(table) == Ascending({r.id : r \in table})

EntryAt(table, i) == (CHOOSE r \in table : r.id = i).entry

Listed(table) == LET order == IdsOf(table)
                 IN [k \in DOMAIN order |-> EntryAt(table, order[k])]

\* GetAll, and GetRecent, which selects by descending id, cuts off at its own
\* limit and reverses.
GetAll == Listed(rows)

Count == Cardinality(rows)

AppendRow(entry) ==
  /\ MutexFree /\ next_id <= MaxRows
  /\ rows' = rows \cup {[id |-> next_id, entry |-> entry]}
  /\ next_id' = next_id + 1
  /\ UNCHANGED <<txn, statement, ids>>

Clear ==
  /\ MutexFree
  /\ rows' = {}
  /\ UNCHANGED <<txn, statement, ids, next_id>>

\* SELECT id ... LIMIT span OFFSET start: nothing left to summarise ends it.
SelectIds(start_index, end_index) ==
  /\ MutexFree
  /\ LET order == IdsOf(rows)
         last == IF end_index <= Len(order) THEN end_index ELSE Len(order)
         span == SubSeq(order, start_index + 1, last)
     IN IF start_index >= end_index \/ span = <<>>
        THEN UNCHANGED <<statement, ids>>
        ELSE statement' = "selected" /\ ids' = span
  /\ UNCHANGED <<rows, txn, next_id>>

\* BEGIN IMMEDIATE, which waits for the write lock of the database.
Begin ==
  /\ statement = "selected"
  /\ txn' = rows /\ statement' = "begun"
  /\ UNCHANGED <<rows, ids, next_id>>

\* A statement inside the transaction shows in the table only when committed.
InTransaction(table) == txn' = table /\ UNCHANGED rows

\* The same statements with no transaction around them.
AutoCommit(table) == txn' = table /\ rows' = table

Execute(table) == InTransaction(table)

\* The row of the first id becomes the summary, so that it keeps its place.
Update(summary) ==
  /\ statement = "begun"
  /\ Execute({IF r.id = Head(ids) THEN [r EXCEPT !.entry = summary] ELSE r : r \in txn})
  /\ ids' = Tail(ids) /\ statement' = "updated"
  /\ UNCHANGED next_id

DeleteNext ==
  /\ statement = "updated" /\ ids # <<>>
  /\ Execute({r \in txn : r.id # Head(ids)})
  /\ ids' = Tail(ids)
  /\ UNCHANGED <<statement, next_id>>

CloseTransaction == txn' = {} /\ statement' = "none" /\ ids' = <<>>

Commit ==
  /\ statement = "updated" /\ ids = <<>>
  /\ rows' = txn
  /\ CloseTransaction
  /\ UNCHANGED next_id

\* The catch of Summarize.
RollBack == CloseTransaction /\ UNCHANGED <<rows, next_id>>

\* A failed statement that leaves the method with the transaction still open.
LeaveOpen == statement' = "none" /\ ids' = <<>> /\ UNCHANGED <<rows, txn, next_id>>

Undo == RollBack

\* Any statement of Summarize fails: what the transaction did is undone.
Fail == statement # "none" /\ Undo

\* The process ends: the open transaction is gone with it.
CrashStore == CloseTransaction /\ UNCHANGED <<rows, next_id>>

-----------------------------------------------------------------------------
StoreTypeOK ==
  LET Rows == [id : 1 .. MaxRows, entry : Entries]
  IN /\ rows \subseteq Rows /\ txn \subseteq Rows
     /\ statement \in {"none", "selected", "begun", "updated"}
     /\ ids \in Seq(1 .. MaxRows)
     /\ next_id \in 1 .. MaxRows + 1
     /\ statement \in {"none", "selected"} => txn = {}

\* The table, whatever a transaction has done so far, is the list the interface
\* promises: Summarize happens at its commit or, when a statement fails or the
\* process ends, not at all.
Abstract == INSTANCE MemoryStore WITH entries <- Listed(rows)

ImplementsMemoryStore == Abstract!Spec
=============================================================================
