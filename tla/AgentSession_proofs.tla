-------------------------- MODULE AgentSession_proofs --------------------------
(***************************************************************************)
(* Theorems about a session, for any entries, batches, rules, prompts,      *)
(* threshold and limits, and any number of failures and restarts.  First    *)
(* the types, then the table and what a transaction has made of it, its     *)
(* size, and that the store implements the list; then what a prompt is made *)
(* of and what the policy decides.                                          *)
(***************************************************************************)
EXTENDS AgentSession, Enumerations_proofs, SequenceTheorems

Row == [id : 1 .. MaxRows, entry : Entries]
RowIds(table) == {r.id : r \in table}

(* No two rows have the same id, and the ids to come are all greater.       *)
Keyed(table, next) == \A r, s \in table : r.id < next /\ (r.id = s.id => r = s)

StoreInv ==
  /\ StoreTypeOK /\ Keyed(rows, next_id) /\ Keyed(txn, next_id)
  /\ statement \in {"selected", "begun"} => ids # <<>>

PolicyInv ==
  /\ rules \in RuleLists /\ capabilities \subseteq DefaultCapabilities
  /\ next_request_id \in Nat \ {0} /\ pending_approvals \subseteq 1 .. next_request_id - 1

LoopInv ==
  /\ phase \in {"listening", "thinking", "routing", "acting", "error", "ended"}
  /\ todo \in Seq(Entries) /\ total \in 0 .. MaxRows
  /\ recording \in {"append", "count", "summarize", "statements"}
  /\ recording # "append" => todo # <<>>
  /\ statement # "none" <=> recording = "statements"
  /\ caught \in BOOLEAN /\ calls \in Batches \cup {<<>>}
  /\ pending \subseteq {calls[i] : i \in DOMAIN calls}
  /\ phase \in {"listening", "thinking", "routing"} => pending = {}
  /\ phase = "ended" => todo = <<>>
  /\ faults \in 0 .. MaxFaults

(* While a summary is to be made the table is as it was counted, or empty:   *)
(* only the UI thread comes between.                                        *)
CountInv ==
  recording \in {"summarize", "statements"} =>
    /\ total \div 2 > 0
    /\ total = Cardinality(rows) \/ (recording = "summarize" /\ rows = {})

LEMMA StoreNumbers == MaxRows \in Nat
BY StoreAssumption DEF StoreAssumption

LEMMA SessionEntries ==
  /\ UserEntry \in Entries /\ AnswerEntry \in Entries /\ InterruptEntry \in Entries
  /\ DenialEntry \in Entries /\ SummaryEntry \in Entries
  /\ \A batch \in Batches : CallEntry(batch) \in Entries
  /\ \A batch \in Batches : \A i \in DOMAIN batch : ResultEntry(batch[i]) \in Entries
BY SessionAssumption, Zenon DEF SessionAssumption

LEMMA SessionNumbers ==
  /\ Threshold \in Nat /\ FetchLimit \in Nat /\ MaxFaults \in Nat /\ MaxContextTokens \in Nat
  /\ Batches \subseteq Seq(Nat)
BY SessionAssumption DEF SessionAssumption

LEMMA ResultsAreEntries ==
  ASSUME LoopInv, NEW id \in {calls[i] : i \in DOMAIN calls}
  PROVE  ResultEntry(id) \in Entries
<1>1. PICK i \in DOMAIN calls : id = calls[i]
  OBVIOUS
<1>2. calls # <<>>
  <2>1. DOMAIN <<>> = {}
    OBVIOUS
  <2> QED BY <1>1, <2>1
<1>3. calls \in Batches
  BY <1>2 DEF LoopInv
<1> QED BY <1>1, <1>3, SessionEntries

-----------------------------------------------------------------------------
(* The policy layer.                                                        *)
LEMMA PolicyStarts == Init => PolicyInv
BY DEF Init, PolicyInit, PolicyInv

LEMMA CheckKeeps ==
  ASSUME PolicyInv, NEW action, NEW outcome, CheckPermission(action, outcome)
  PROVE  PolicyInv'
<1>1. rules' = rules /\ capabilities' = capabilities
  BY DEF CheckPermission
<1>2. CASE outcome = "require_approval"
  <2>1. /\ next_request_id' = next_request_id + 1
        /\ pending_approvals' = pending_approvals \cup {next_request_id}
    BY <1>2 DEF CheckPermission
  <2>2. next_request_id \in Nat \ {0} /\ pending_approvals \subseteq 1 .. next_request_id - 1
    BY DEF PolicyInv
  <2>3. next_request_id' \in Nat \ {0} /\ next_request_id' - 1 = next_request_id
    BY <2>1, <2>2
  <2>4. pending_approvals' \subseteq 1 .. next_request_id
    BY <2>1, <2>2
  <2> QED BY <1>1, <2>3, <2>4 DEF PolicyInv
<1>3. CASE outcome # "require_approval"
  BY <1>1, <1>3 DEF CheckPermission, PolicyInv
<1> QED BY <1>2, <1>3

LEMMA PolicyStep == PolicyInv /\ [Next]_vars => PolicyInv'
<1> SUFFICES ASSUME PolicyInv, [Next]_vars PROVE PolicyInv'
  OBVIOUS
<1>1. CASE UNCHANGED policyVars
  BY <1>1 DEF policyVars, PolicyInv
<1>2. CASE \E action \in Actions, outcome \in {"allow", "deny", "require_approval"} :
             Route(action, outcome)
  BY <1>2, CheckKeeps DEF Route
<1>3. CASE ChangePolicy
  <2>1. ASSUME NEW c \in DefaultCapabilities, GrantCapability(c) \/ RevokeCapability(c)
        PROVE  PolicyInv'
    BY <2>1 DEF GrantCapability, RevokeCapability, PolicyInv
  <2>2. ASSUME NEW r \in pending_approvals, ResolveApproval(r)
        PROVE  PolicyInv'
    BY <2>2 DEF ResolveApproval, PolicyInv
  <2> QED BY <1>3, <2>1, <2>2 DEF ChangePolicy
<1>4. CASE Restart
  <2>1. /\ capabilities' = DefaultCapabilities /\ next_request_id' = 1
        /\ pending_approvals' = {} /\ rules' = rules
    BY <1>4 DEF Restart, Restarted
  <2> QED BY <2>1 DEF PolicyInv
<1>5. UNCHANGED policyVars \/ ChangePolicy \/ Restart
      \/ \E action \in Actions, outcome \in {"allow", "deny", "require_approval"} :
           Route(action, outcome)
  BY DEF Next, vars, AppendStep, CountStep, SummarizeCall, SummarizeStatement, SummarizeCommit,
         Throw, UserMessage, Answer, RequestTools, ToolResult, ToolTimeout, Interrupted,
         Record, ClearDatabase
<1> QED BY <1>1, <1>2, <1>3, <1>4, <1>5

-----------------------------------------------------------------------------
(* The table.                                                               *)
LEMMA TableIsFinite ==
  ASSUME NEW table \in SUBSET Row, NEW next \in Nat, Keyed(table, next)
  PROVE  /\ IsFiniteSet(table) /\ Cardinality(table) \in Nat /\ Cardinality(table) <= MaxRows
         /\ RowIds(table) \in SUBSET Nat /\ IsFiniteSet(RowIds(table))
         /\ Cardinality(RowIds(table)) = Cardinality(table)
<1> DEFINE f == [i \in RowIds(table) |-> CHOOSE r \in table : r.id = i]
<1>1. ASSUME NEW i \in RowIds(table) PROVE f[i] \in table /\ f[i].id = i
  <2>1. \E r \in table : r.id = i
    BY DEF RowIds
  <2> QED BY <2>1
<1>2. f \in [RowIds(table) -> table]
  BY <1>1
<1>3. RowIds(table) \in SUBSET (1 .. MaxRows)
  BY DEF RowIds, Row
<1> HIDE DEF f
<1>4. ExistsBijection(RowIds(table), table)
  <2>1. \A i, j \in RowIds(table) : f[i] = f[j] => i = j
    BY <1>1
  <2>2. \A r \in table : \E i \in RowIds(table) : f[i] = r
    <3> SUFFICES ASSUME NEW r \in table PROVE \E i \in RowIds(table) : f[i] = r
      OBVIOUS
    <3>1. r.id \in RowIds(table)
      BY DEF RowIds
    <3>2. f[r.id] \in table /\ f[r.id].id = r.id
      BY <1>1, <3>1
    <3> QED BY <3>1, <3>2 DEF Keyed
  <2>3. f \in Bijection(RowIds(table), table)
    BY <1>2, <2>1, <2>2 DEF Bijection, Injection, Surjection, IsInjective
  <2> QED BY <2>3 DEF ExistsBijection
<1>5. IsFiniteSet(1 .. MaxRows) /\ Cardinality(1 .. MaxRows) = MaxRows
  <2>1. 1 \in Int /\ MaxRows \in Int /\ MaxRows \in Nat
    BY StoreNumbers
  <2>2. IsFiniteSet(1 .. MaxRows)
        /\ Cardinality(1 .. MaxRows) = (IF 1 > MaxRows THEN 0 ELSE MaxRows - 1 + 1)
    BY <2>1, FS_Interval
  <2> QED BY <2>1, <2>2
<1>6. IsFiniteSet(RowIds(table)) /\ Cardinality(RowIds(table)) <= MaxRows
  BY <1>3, <1>5, FS_Subset
<1>8. IsFiniteSet(table) /\ Cardinality(table) = Cardinality(RowIds(table))
  BY <1>4, <1>6, FS_Bijection
<1>9. Cardinality(table) \in Nat
  BY <1>8, FS_CardinalityType
<1>10. RowIds(table) \in SUBSET Nat
  BY <1>3
<1> QED BY <1>6, <1>8, <1>9, <1>10

LEMMA StoreFacts ==
  ASSUME StoreInv
  PROVE  /\ rows \in SUBSET Row /\ txn \in SUBSET Row /\ next_id \in Nat
         /\ IsFiniteSet(rows) /\ Count \in 0 .. MaxRows
         /\ IdsOf(rows) \in [1 .. Count -> RowIds(rows)] /\ RowIds(rows) \in SUBSET (1 .. MaxRows)
         /\ \A p, q \in 1 .. Count : p < q => IdsOf(rows)[p] < IdsOf(rows)[q]
         /\ \A i \in RowIds(rows) : \E p \in 1 .. Count : IdsOf(rows)[p] = i
<1>1. rows \in SUBSET Row /\ txn \in SUBSET Row /\ next_id \in Nat /\ Keyed(rows, next_id)
  BY StoreNumbers DEF StoreInv, StoreTypeOK, Row
<1>2. /\ IsFiniteSet(rows) /\ Count \in 0 .. MaxRows
      /\ RowIds(rows) \in SUBSET Nat /\ IsFiniteSet(RowIds(rows))
      /\ Cardinality(RowIds(rows)) = Count
  BY <1>1, TableIsFinite, StoreNumbers DEF Count
<1>3. IdsOf(rows) = Ascending(RowIds(rows))
  BY DEF IdsOf, RowIds
<1>4. RowIds(rows) \in SUBSET (1 .. MaxRows)
  BY <1>1 DEF RowIds, Row
<1> QED BY <1>1, <1>2, <1>3, <1>4, AscendingSorts DEF Enumerates

LEMMA StoreStarts == StoreInit => StoreInv
BY StoreNumbers DEF StoreInit, StoreInv, StoreTypeOK, Keyed

(* The table with another entry under an id.                                *)
Renewed(table, id, entry) == {IF r.id = id THEN [r EXCEPT !.entry = entry] ELSE r : r \in table}

LEMMA RowsKept ==
  ASSUME NEW table \in SUBSET Row, NEW next \in Nat, Keyed(table, next), NEW id,
         NEW summary \in Entries
  PROVE  Renewed(table, id, summary) \in SUBSET Row /\ Keyed(Renewed(table, id, summary), next)
<1> PICK t : t = Renewed(table, id, summary)
  OBVIOUS
<1> DEFINE new(r) == IF r.id = id THEN [r EXCEPT !.entry = summary] ELSE r
<1>1. ASSUME NEW r \in table PROVE new(r) \in Row /\ new(r).id = r.id
  BY DEF Row
<1>2. t = {new(r) : r \in table}
  BY DEF Renewed
<1> HIDE DEF new
<1>3. t \in SUBSET Row
  BY <1>1, <1>2
<1>4. ASSUME NEW r \in t, NEW s \in t PROVE r.id < next /\ (r.id = s.id => r = s)
  <2>1. PICK a \in table, b \in table : r = new(a) /\ s = new(b)
    BY <1>2
  <2> QED BY <1>1, <2>1 DEF Keyed
<1> QED BY <1>3, <1>4 DEF Keyed

LEMMA AppendRowKeeps ==
  ASSUME StoreInv, NEW entry \in Entries, AppendRow(entry)
  PROVE  StoreInv'
<1> DEFINE new == [id |-> next_id, entry |-> entry]
<1>1. /\ rows' = rows \cup {new} /\ next_id' = next_id + 1 /\ next_id <= MaxRows
      /\ UNCHANGED <<txn, statement, ids>> /\ next_id \in 1 .. MaxRows + 1
  BY DEF AppendRow, StoreInv, StoreTypeOK
<1>2. next_id \in 1 .. MaxRows /\ next_id' \in 1 .. MaxRows + 1 /\ next_id' = next_id + 1
  BY <1>1, StoreNumbers
<1>3. new \in [id : 1 .. MaxRows, entry : Entries] /\ new.id = next_id
  BY <1>2
<1> HIDE DEF new
<1>4. \A r \in rows : r.id < next_id /\ r.id \in Nat
  BY StoreFacts DEF StoreInv, Keyed, Row
<1>5. \A r \in rows : r.id < next_id'
  BY <1>2, <1>4
<1>6. \A r \in rows : r.id # new.id
  BY <1>2, <1>3, <1>4
<1>7. Keyed(rows', next_id')
  <2>1. new.id < next_id'
    BY <1>2, <1>3
  <2> QED BY <1>1, <1>5, <1>6, <2>1 DEF StoreInv, Keyed
<1>8. Keyed(txn', next_id')
  <2>1. \A r \in txn : r.id < next_id /\ r.id \in Nat
    BY StoreFacts DEF StoreInv, Keyed, Row
  <2>2. \A r \in txn : r.id < next_id'
    BY <1>2, <2>1
  <2> QED BY <1>1, <2>2 DEF StoreInv, Keyed
<1>9. StoreTypeOK'
  BY <1>1, <1>2, <1>3 DEF StoreInv, StoreTypeOK
<1>10. statement' = "none"
  BY DEF AppendRow, MutexFree
<1> QED BY <1>7, <1>8, <1>9, <1>10 DEF StoreInv

LEMMA OrderIsSequence ==
  ASSUME StoreInv
  PROVE  IdsOf(rows) \in Seq(1 .. MaxRows) /\ Len(IdsOf(rows)) = Count /\ Count \in Nat
<1>1. PICK n \in Nat : n = Count /\ IdsOf(rows) \in [1 .. n -> 1 .. MaxRows]
  BY StoreFacts
<1>2. IdsOf(rows) \in Seq(1 .. MaxRows)
  BY <1>1, SeqDef
<1>3. PICK m \in Nat : m = Len(IdsOf(rows)) /\ DOMAIN IdsOf(rows) = 1 .. m
  BY <1>2, LenProperties
<1>4. DOMAIN IdsOf(rows) = 1 .. n
  BY <1>1
<1>5. m = n
  BY <1>3, <1>4
<1> QED BY <1>1, <1>2, <1>3, <1>5

LEMMA SelectKeeps ==
  ASSUME StoreInv, NEW last \in Nat, SelectIds(0, last)
  PROVE  /\ StoreInv'
         /\ UNCHANGED <<rows, txn, next_id>>
         /\ \/ /\ last = 0 \/ rows = {}
               /\ UNCHANGED <<statement, ids>>
            \/ /\ last > 0 /\ Count > 0 /\ statement' = "selected"
               /\ ids' = SubSeq(IdsOf(rows), 1, IF last <= Count THEN last ELSE Count)
<1>1. PICK order \in Seq(1 .. MaxRows) : order = IdsOf(rows) /\ Len(order) = Count
  BY OrderIsSequence
<1>2. Count \in Nat
  BY OrderIsSequence
<1>3. PICK end \in Nat : end = (IF last <= Count THEN last ELSE Count) /\ end <= Len(order)
  BY <1>1, <1>2
<1>4. SubSeq(order, 1, end) \in Seq(1 .. MaxRows) /\ Len(SubSeq(order, 1, end)) = end
  <2>1. \A i \in 1 .. end : order[i] \in 1 .. MaxRows
    <3>1. \A i \in 1 .. end : i \in 1 .. Len(order)
      BY <1>1, <1>2, <1>3
    <3> QED BY <3>1, ElementOfSeq
  <2>2. SubSeq(order, 1, end) \in Seq(1 .. MaxRows)
        /\ Len(SubSeq(order, 1, end)) = (IF 1 <= end THEN end - 1 + 1 ELSE 0)
    <3>1. 1 \in Int /\ end \in Int
      BY <1>3
    <3> QED BY <2>1, <3>1, SubSeqProperties
  <2> QED BY <2>2
<1>5. /\ statement = "none" /\ UNCHANGED <<rows, txn, next_id>>
      /\ IF 0 >= last \/ SubSeq(order, 0 + 1, end) = <<>>
         THEN UNCHANGED <<statement, ids>>
         ELSE statement' = "selected" /\ ids' = SubSeq(order, 0 + 1, end)
  BY <1>1, <1>3 DEF SelectIds, MutexFree
<1>6. 0 + 1 = 1
  OBVIOUS
<1>7. SubSeq(order, 1, end) = <<>> <=> end = 0
  <2>1. PICK q \in Seq(1 .. MaxRows) : q = SubSeq(order, 1, end) /\ Len(q) = end
    BY <1>4
  <2>2. q = <<>> <=> Len(q) = 0
    BY EmptySeq
  <2> QED BY <2>1, <2>2
<1>8. CASE last = 0 \/ SubSeq(order, 1, end) = <<>>
  <2>1. UNCHANGED <<statement, ids, rows, txn, next_id>>
    BY <1>5, <1>6, <1>8
  <2>2. StoreInv'
    BY <2>1 DEF StoreInv, StoreTypeOK, Keyed
  <2>3. last # 0 => Count = 0
    BY <1>2, <1>3, <1>7, <1>8
  <2>4. Count = 0 => rows = {}
    BY StoreFacts, FS_EmptySet DEF Count
  <2> QED BY <2>1, <2>2, <2>3, <2>4
<1>9. CASE last # 0 /\ SubSeq(order, 1, end) # <<>>
  <2>1. statement' = "selected" /\ ids' = SubSeq(order, 1, end)
    BY <1>5, <1>6, <1>9
  <2>2. last > 0 /\ Count > 0
    BY <1>2, <1>3, <1>7, <1>9
  <2>3. txn = {}
    BY <1>5 DEF StoreInv, StoreTypeOK
  <2>4. StoreInv'
    BY <1>4, <1>5, <1>9, <2>1, <2>3 DEF StoreInv, StoreTypeOK, Keyed
  <2> QED BY <1>1, <1>3, <1>5, <2>1, <2>2, <2>4
<1> QED BY <1>8, <1>9

LEMMA StatementsKeep ==
  ASSUME StoreInv, Begin \/ Update(SummaryEntry) \/ DeleteNext
  PROVE  /\ StoreInv' /\ UNCHANGED <<rows, next_id>>
         /\ statement # "none" /\ statement' # "none"
<1>1. /\ txn \in SUBSET Row /\ next_id \in Nat /\ Keyed(txn, next_id)
      /\ ids \in Seq(1 .. MaxRows) /\ \A r \in Row : r \in [id : 1 .. MaxRows, entry : Entries]
      /\ SummaryEntry \in Entries
  BY StoreFacts, SessionEntries DEF StoreInv, StoreTypeOK, Row
<1>2. CASE Begin
  BY <1>2 DEF Begin, StoreInv, StoreTypeOK, Keyed
<1>3. CASE Update(SummaryEntry)
  <2>1. /\ UNCHANGED <<rows, next_id>> /\ statement = "begun" /\ statement' = "updated"
        /\ txn' = {IF r.id = Head(ids) THEN [r EXCEPT !.entry = SummaryEntry] ELSE r : r \in txn}
        /\ ids' = Tail(ids)
    BY <1>3 DEF Update, Execute, InTransaction
  <2>2. txn' \in SUBSET Row /\ Keyed(txn', next_id)
    <3>1. txn' = Renewed(txn, Head(ids), SummaryEntry)
      BY <2>1 DEF Renewed
    <3> QED BY <1>1, <3>1, RowsKept
  <2>3. Tail(ids) \in Seq(1 .. MaxRows)
    BY <1>1, <2>1, HeadTailProperties DEF StoreInv
  <2>4. StoreTypeOK'
    BY <2>1, <2>2, <2>3 DEF StoreInv, StoreTypeOK, Row
  <2> QED BY <2>1, <2>2, <2>4 DEF StoreInv, Keyed
<1>4. CASE DeleteNext
  <2>1. /\ UNCHANGED <<rows, next_id, statement>> /\ statement = "updated"
        /\ txn' = {r \in txn : r.id # Head(ids)}
        /\ ids' = Tail(ids) /\ ids # <<>>
    BY <1>4 DEF DeleteNext, Execute, InTransaction
  <2>2. txn' \in SUBSET Row /\ Keyed(txn', next_id)
    BY <1>1, <2>1 DEF Keyed
  <2>3. Tail(ids) \in Seq(1 .. MaxRows)
    BY <1>1, <2>1, HeadTailProperties
  <2>4. StoreTypeOK'
    BY <2>1, <2>2, <2>3 DEF StoreInv, StoreTypeOK, Row
  <2> QED BY <2>1, <2>2, <2>4 DEF StoreInv, Keyed
<1> QED BY <1>2, <1>3, <1>4

LEMMA ClosedKeeps ==
  ASSUME StoreInv, CloseTransaction, next_id' = next_id, rows' \in {rows, txn}
  PROVE  StoreInv'
<1>1. <<>> \in Seq(1 .. MaxRows)
  OBVIOUS
<1>2. Keyed(rows', next_id')
  BY DEF StoreInv
<1>3. StoreTypeOK'
  BY <1>1 DEF StoreInv, StoreTypeOK, CloseTransaction
<1> QED BY <1>2, <1>3 DEF StoreInv, CloseTransaction, Keyed

(* What a step does to the table: RowEntry is what AppendRow may insert.    *)
LEMMA StoreStep == LoopInv /\ StoreInv /\ [Next]_vars => StoreInv'
<1> SUFFICES ASSUME LoopInv, StoreInv, [Next]_vars PROVE StoreInv'
  OBVIOUS
<1>1. CASE UNCHANGED storeVars
  BY <1>1 DEF storeVars, StoreInv, StoreTypeOK, Keyed
<1>2. CASE AppendStep
  <2>1. Head(todo) \in Entries
    BY <1>2, HeadTailProperties DEF AppendStep, Ready, LoopInv
  <2> QED BY <1>2, <2>1, AppendRowKeeps DEF AppendStep
<1>3. CASE SummarizeCall
  <2>1. total \div 2 \in Nat
    BY StoreNumbers DEF LoopInv
  <2> QED BY <1>3, <2>1, SelectKeeps DEF SummarizeCall
<1>4. CASE SummarizeStatement
  BY <1>4, StatementsKeep DEF SummarizeStatement
<1>5. CASE SummarizeCommit \/ Restart \/ (Throw /\ statement # "none")
  <2>1. CloseTransaction /\ next_id' = next_id /\ rows' \in {rows, txn}
    BY <1>5 DEF SummarizeCommit, Commit, Restart, CrashStore, Throw, Fail, Undo, RollBack
  <2> QED BY <2>1, ClosedKeeps
<1>6. CASE ClearDatabase
  <2>1. rows' = {} /\ UNCHANGED <<txn, statement, ids, next_id>>
    BY <1>6 DEF ClearDatabase, Clear
  <2> QED BY <2>1 DEF StoreInv, StoreTypeOK, Keyed
<1>7. \/ UNCHANGED storeVars \/ AppendStep \/ SummarizeCall \/ SummarizeStatement
      \/ SummarizeCommit \/ Restart \/ ClearDatabase \/ (Throw /\ statement # "none")
  BY DEF Next, vars, CountStep, Throw, UserMessage, Answer, RequestTools, Route, ToolResult,
         ToolTimeout, Interrupted, Record, ChangePolicy
<1> QED BY <1>1, <1>2, <1>3, <1>4, <1>5, <1>6, <1>7

-----------------------------------------------------------------------------
(* The loop.                                                                *)
LEMMA LoopStarts == Init => LoopInv
<1> SUFFICES ASSUME Init PROVE LoopInv
  OBVIOUS
<1>1. /\ phase = "listening" /\ todo = <<>> /\ recording = "append" /\ total = 0
      /\ caught = FALSE /\ calls = <<>> /\ pending = {} /\ faults = 0 /\ statement = "none"
  BY DEF Init, LoopInit, StoreInit
<1>2. caught \in BOOLEAN
  BY <1>1
<1> QED BY <1>1, <1>2, SessionNumbers, StoreNumbers DEF LoopInv

(* A handler that leaves the loop entries to record.                        *)
LEMMA RecordKeeps ==
  ASSUME LoopInv, NEW entries \in Seq(Entries),
         NEW next \in {"listening", "thinking", "routing", "acting"}, NEW guarded \in BOOLEAN,
         Record(entries, next, guarded),
         calls' \in Batches \cup {<<>>}, pending' \subseteq {calls'[i] : i \in DOMAIN calls'},
         next # "acting" => pending' = {}
  PROVE  LoopInv'
<1>1. /\ todo = <<>> /\ todo' = entries /\ phase' = next /\ caught' = guarded
      /\ statement' = statement /\ UNCHANGED <<recording, total, faults>>
  BY DEF Record, Ready, storeVars
<1>2. recording' = "append"
  BY <1>1 DEF LoopInv
<1>3. caught' \in BOOLEAN
  BY <1>1
<1> QED BY <1>1, <1>2, <1>3 DEF LoopInv

(* A step of RecordTurn.                                                    *)
LEMMA RecordingKeeps ==
  ASSUME LoopInv, todo # <<>>, UNCHANGED <<phase, caught, calls, pending, faults>>,
         total' \in 0 .. MaxRows,
         \/ /\ Recorded /\ statement' = "none"
         \/ /\ todo' = todo /\ recording' \in {"append", "count", "summarize", "statements"}
            /\ statement' # "none" <=> recording' = "statements"
  PROVE  LoopInv'
<1>1. Tail(todo) \in Seq(Entries) /\ phase # "ended"
  BY HeadTailProperties DEF LoopInv
<1>2. CASE Recorded /\ statement' = "none"
  BY <1>1, <1>2 DEF LoopInv, Recorded
<1>3. CASE ~(Recorded /\ statement' = "none")
  BY <1>1, <1>3 DEF LoopInv
<1> QED BY <1>2, <1>3

LEMMA ThrowKeeps ==
  ASSUME LoopInv, Throw
  PROVE  LoopInv'
<1>1. /\ faults < MaxFaults /\ faults' = faults + 1 /\ phase' \in {"error", "ended"}
      /\ todo' = <<>> /\ recording' = "append" /\ UNCHANGED <<total, caught, calls, pending>>
  BY DEF Throw
<1>2. statement' = "none"
  BY DEF Throw, Fail, Undo, RollBack, CloseTransaction, storeVars
<1>3. todo' \in Seq(Entries)
  BY <1>1
<1>4. faults' \in 0 .. MaxFaults
  BY <1>1, SessionNumbers DEF LoopInv
<1> QED BY <1>1, <1>2, <1>3, <1>4 DEF LoopInv

LEMMA RestartKeeps ==
  ASSUME LoopInv, Restart
  PROVE  LoopInv'
<1>1. /\ phase' = "listening" /\ todo' = <<>> /\ recording' = "append" /\ total' = 0
      /\ caught' = FALSE /\ calls' = <<>> /\ pending' = {} /\ statement' = "none"
  BY DEF Restart, Restarted, CrashStore, CloseTransaction
<1>2. faults' \in 0 .. MaxFaults
  BY SessionNumbers DEF LoopInv, Restart
<1>3. total' \in 0 .. MaxRows
  BY <1>1, StoreNumbers
<1>4. todo' \in Seq(Entries)
  BY <1>1
<1>5. caught' \in BOOLEAN
  BY <1>1
<1> QED BY <1>1, <1>2, <1>3, <1>4, <1>5 DEF LoopInv

LEMMA ToolTimeoutKeeps ==
  ASSUME LoopInv, ToolTimeout
  PROVE  LoopInv'
<1> DEFINE places == {i \in DOMAIN calls : calls[i] \in pending}
           missing == Ascending(places)
           made == [k \in DOMAIN missing |-> ResultEntry(calls[missing[k]])]
<1>1. Record(made, "thinking", FALSE) /\ pending' = {} /\ calls' = calls
  BY DEF ToolTimeout
<1>2. PICK n \in Nat : DOMAIN calls = 1 .. n
  <2>1. calls \in Seq(Nat) \/ calls = <<>>
    BY SessionNumbers DEF LoopInv
  <2>2. calls \in Seq(Nat)
    <3>1. <<>> \in Seq(Nat)
      OBVIOUS
    <3> QED BY <2>1, <3>1
  <2> QED BY <2>2, LenProperties
<1>3. PICK c \in Nat : missing \in [1 .. c -> places]
  <2>1. places \in SUBSET (1 .. n)
    BY <1>2
  <2>2. Enumerates(missing, places)
    BY <2>1, AscendingEnumerates
  <2>3. IsFiniteSet(places)
    <3>1. 1 \in Int /\ n \in Int
      OBVIOUS
    <3>2. IsFiniteSet(1 .. n)
      BY <3>1, FS_Interval
    <3> QED BY <2>1, <3>2, FS_Subset
  <2>4. Cardinality(places) \in Nat
    BY <2>3, FS_CardinalityType
  <2> QED BY <2>2, <2>4 DEF Enumerates
<1>4. \A i \in places : ResultEntry(calls[i]) \in Entries
  BY ResultsAreEntries
<1>5. made \in Seq(Entries)
  <2>1. \A k \in 1 .. c : missing[k] \in places
    BY <1>3
  <2>2. DOMAIN missing = 1 .. c
    BY <1>3
  <2> HIDE DEF missing, places
  <2>3. made \in [1 .. c -> Entries]
    BY <1>4, <2>1, <2>2
  <2> QED BY <2>3, SeqDef
<1> HIDE DEF made
<1>6. calls' \in Batches \cup {<<>>} /\ pending' \subseteq {calls'[i] : i \in DOMAIN calls'}
  BY <1>1 DEF LoopInv
<1>7. FALSE \in BOOLEAN
  OBVIOUS
<1> QED BY <1>1, <1>5, <1>6, <1>7, RecordKeeps

LEMMA OneEntry == \A e \in Entries : <<e>> \in Seq(Entries)
OBVIOUS

LEMMA LoopStep == LoopInv /\ StoreInv /\ [Next]_vars => LoopInv'
<1> SUFFICES ASSUME LoopInv, StoreInv, [Next]_vars PROVE LoopInv'
  OBVIOUS
<1> USE DEF Ready
<1>1. CASE UNCHANGED vars
  BY <1>1 DEF vars, loopVars, storeVars, LoopInv
<1>2. CASE AppendStep
  <2>1. /\ todo # <<>> /\ UNCHANGED <<phase, todo, total, caught, calls, pending, faults>>
        /\ recording' = "count" /\ statement' = statement /\ statement = "none"
    BY <1>2 DEF AppendStep, AppendRow, MutexFree
  <2>2. total' \in 0 .. MaxRows
    BY <2>1 DEF LoopInv
  <2> QED BY <2>1, <2>2, RecordingKeeps
<1>3. CASE CountStep
  <2>1. /\ recording = "count" /\ statement = "none" /\ statement' = "none" /\ total' = Count
        /\ UNCHANGED <<phase, caught, calls, pending, faults>>
        /\ Recorded \/ (recording' = "summarize" /\ todo' = todo)
    BY <1>3 DEF CountStep, MutexFree, storeVars
  <2>2. todo # <<>> /\ total' \in 0 .. MaxRows
    BY <2>1, StoreFacts DEF LoopInv
  <2> QED BY <2>1, <2>2, RecordingKeeps
<1>4. CASE SummarizeCall
  <2>1. /\ recording = "summarize" /\ UNCHANGED <<phase, total, caught, calls, pending, faults>>
        /\ SelectIds(0, total \div 2)
        /\ IF statement' = "none" THEN Recorded ELSE recording' = "statements" /\ todo' = todo
    BY <1>4 DEF SummarizeCall
  <2>2. todo # <<>> /\ total' \in 0 .. MaxRows
    BY <2>1 DEF LoopInv
  <2> QED BY <2>1, <2>2, RecordingKeeps
<1>5. CASE SummarizeStatement
  <2>1. UNCHANGED <<phase, todo, recording, total, caught, calls, pending, faults>>
    BY <1>5 DEF SummarizeStatement, loopVars
  <2>2. statement # "none" /\ statement' # "none"
    BY <1>5, StatementsKeep DEF SummarizeStatement
  <2> QED BY <2>1, <2>2 DEF LoopInv
<1>6. CASE SummarizeCommit
  <2>1. /\ Recorded /\ statement' = "none" /\ statement = "updated"
        /\ UNCHANGED <<phase, total, caught, calls, pending, faults>>
    BY <1>6 DEF SummarizeCommit, Commit, CloseTransaction
  <2>2. todo # <<>> /\ total' \in 0 .. MaxRows
    BY <2>1 DEF LoopInv
  <2> QED BY <2>1, <2>2, RecordingKeeps
<1>7. CASE Throw
  BY <1>7, ThrowKeeps
<1>8. CASE UserMessage \/ Answer \/ Interrupted
  <2>1. PICK e \in Entries, next \in {"thinking", "listening"}, guarded \in BOOLEAN :
          Record(<<e>>, next, guarded) /\ calls' = calls /\ pending' = {}
    <3>1. CASE UserMessage
      <4>1. Record(<<UserEntry>>, "thinking", TRUE) /\ calls' = calls /\ pending' = {}
        BY <3>1 DEF UserMessage, LoopInv
      <4> QED BY <4>1, SessionEntries
    <3>2. CASE Answer
      <4>1. Record(<<AnswerEntry>>, "listening", TRUE) /\ calls' = calls /\ pending' = {}
        BY <3>2 DEF Answer, LoopInv
      <4> QED BY <4>1, SessionEntries
    <3>3. CASE Interrupted
      <4>1. Record(<<InterruptEntry>>, "listening", FALSE) /\ calls' = calls /\ pending' = {}
        BY <3>3 DEF Interrupted
      <4> QED BY <4>1, SessionEntries
    <3> QED BY <1>8, <3>1, <3>2, <3>3
  <2>2. calls' \in Batches \cup {<<>>} /\ pending' \subseteq {calls'[i] : i \in DOMAIN calls'}
    BY <2>1 DEF LoopInv
  <2> QED BY <2>1, <2>2, OneEntry, RecordKeeps
<1>9. CASE \E batch \in Batches : RequestTools(batch)
  <2>1. PICK batch \in Batches : RequestTools(batch)
    BY <1>9
  <2>2. Record(<<CallEntry(batch)>>, "routing", TRUE) /\ calls' = batch /\ pending' = {}
    BY <2>1 DEF RequestTools, LoopInv
  <2>3. <<CallEntry(batch)>> \in Seq(Entries)
    BY SessionEntries, OneEntry
  <2>4. calls' \in Batches \cup {<<>>} /\ pending' \subseteq {calls'[i] : i \in DOMAIN calls'}
    BY <2>2
  <2>5. TRUE \in BOOLEAN
    OBVIOUS
  <2> QED BY <2>2, <2>3, <2>4, <2>5, RecordKeeps
<1>10. CASE \E action \in Actions, outcome \in {"allow", "deny", "require_approval"} :
             Route(action, outcome)
  <2>1. PICK action \in Actions, outcome \in {"allow", "deny", "require_approval"} :
          Route(action, outcome)
    BY <1>10
  <2>2. /\ phase = "routing" /\ todo = <<>>
        /\ UNCHANGED <<statement, recording, total, caught, calls, faults>>
        /\ \/ /\ phase' = "acting" /\ pending' = {calls[i] : i \in DOMAIN calls}
              /\ todo' = todo
           \/ phase' = "thinking" /\ todo' = <<DenialEntry>> /\ pending' = pending
    BY <2>1 DEF Route, storeVars
  <2>3. recording' = "append" /\ pending = {}
    BY <2>2 DEF LoopInv
  <2>4. todo' \in Seq(Entries)
    BY <2>2, SessionEntries, OneEntry DEF LoopInv
  <2> QED BY <2>2, <2>3, <2>4 DEF LoopInv
<1>11. CASE \E id \in pending : ToolResult(id)
  <2>1. PICK id \in pending : ToolResult(id)
    BY <1>11
  <2>2. PICK next \in {"thinking", "acting"} :
          /\ Record(<<ResultEntry(id)>>, next, FALSE) /\ calls' = calls
          /\ pending' = pending \ {id} /\ (next = "thinking" => pending = {id})
    BY <2>1 DEF ToolResult
  <2>3. <<ResultEntry(id)>> \in Seq(Entries)
    <3>1. id \in {calls[i] : i \in DOMAIN calls}
      BY DEF LoopInv
    <3> QED BY <3>1, ResultsAreEntries, OneEntry
  <2>4. calls' \in Batches \cup {<<>>} /\ pending' \subseteq {calls'[i] : i \in DOMAIN calls'}
    BY <2>2 DEF LoopInv
  <2>5. FALSE \in BOOLEAN /\ (next # "acting" => pending' = {})
    BY <2>2
  <2> QED BY <2>2, <2>3, <2>4, <2>5, RecordKeeps
<1>12. CASE ToolTimeout
  BY <1>12, ToolTimeoutKeeps
<1>13. CASE ClearDatabase \/ ChangePolicy
  <2>1. UNCHANGED <<statement, phase, todo, recording, total, caught, calls, pending, faults>>
    BY <1>13 DEF ClearDatabase, Clear, ChangePolicy, loopVars, storeVars
  <2> QED BY <2>1 DEF LoopInv
<1>14. CASE Restart
  BY <1>14, RestartKeeps
<1> QED BY <1>1, <1>2, <1>3, <1>4, <1>5, <1>6, <1>7, <1>8, <1>9, <1>10, <1>11, <1>12, <1>13, <1>14
        DEF Next

-----------------------------------------------------------------------------
(* The list a table stands for, from an enumeration of its ids.             *)
Orders(seq, n, table) ==
  /\ seq \in [1 .. n -> Nat]
  /\ \A p, q \in 1 .. n : p < q => seq[p] < seq[q]
  /\ \A p \in 1 .. n : \E r \in table : r.id = seq[p]
  /\ \A r \in table : \E p \in 1 .. n : seq[p] = r.id

LEMMA ListedIs ==
  ASSUME NEW table \in SUBSET Row, NEW next \in Nat, Keyed(table, next),
         NEW n \in Nat, NEW seq, Orders(seq, n, table)
  PROVE  /\ Cardinality(table) = n /\ IdsOf(table) = seq
         /\ Listed(table) \in Seq(Entries) /\ Len(Listed(table)) = n
         /\ DOMAIN Listed(table) = 1 .. n
         /\ \A p \in 1 .. n : \A r \in table : r.id = seq[p] => Listed(table)[p] = r.entry
<1>1. seq \in [1 .. n -> RowIds(table)] /\ \A i \in RowIds(table) : \E p \in 1 .. n : seq[p] = i
  BY DEF Orders, RowIds
<1>2. /\ RowIds(table) \in SUBSET Nat /\ Cardinality(table) = Cardinality(RowIds(table))
  BY TableIsFinite
<1>3. Cardinality(RowIds(table)) = n /\ Ascending(RowIds(table)) = seq
  <2>1. \A p, q \in 1 .. n : p < q => seq[p] < seq[q]
    BY DEF Orders
  <2> QED BY <1>1, <1>2, <2>1, AscendingIs
<1>4. IdsOf(table) = seq
  BY <1>3 DEF IdsOf, RowIds
<1>5. Listed(table) = [p \in 1 .. n |-> EntryAt(table, seq[p])]
  BY <1>1, <1>4 DEF Listed
<1>6. ASSUME NEW r \in table PROVE EntryAt(table, r.id) = r.entry /\ r.entry \in Entries
  <2>1. (CHOOSE s \in table : s.id = r.id) = r
    BY DEF Keyed
  <2> QED BY <2>1 DEF EntryAt, Row
<1>7. \A p \in 1 .. n : EntryAt(table, seq[p]) \in Entries
  BY <1>6 DEF Orders
<1>8. Listed(table) \in [1 .. n -> Entries]
  BY <1>5, <1>7
<1>9. Listed(table) \in Seq(Entries)
  BY <1>8, SeqDef
<1>10. Len(Listed(table)) = n
  <2>1. PICK m \in Nat : m = Len(Listed(table)) /\ DOMAIN Listed(table) = 1 .. m
    BY <1>9, LenProperties
  <2>2. DOMAIN Listed(table) = 1 .. n
    BY <1>8
  <2>3. m = n
    BY <2>1, <2>2
  <2> QED BY <2>1, <2>3
<1>11. \A p \in 1 .. n : \A r \in table : r.id = seq[p] => Listed(table)[p] = r.entry
  BY <1>5, <1>6
<1> QED BY <1>2, <1>3, <1>4, <1>8, <1>9, <1>10, <1>11

LEMMA RowsOrdered ==
  ASSUME StoreInv
  PROVE  Orders(IdsOf(rows), Count, rows) /\ Count \in Nat
<1>1. Count \in Nat
  BY StoreFacts
<1>2. \A r \in rows : r.id \in RowIds(rows)
  BY DEF RowIds
<1>3. \A p \in 1 .. Count : \E r \in rows : r.id = IdsOf(rows)[p]
  <2>1. \A p \in 1 .. Count : IdsOf(rows)[p] \in RowIds(rows)
    BY StoreFacts
  <2> QED BY <2>1 DEF RowIds
<1>4. IdsOf(rows) \in [1 .. Count -> Nat]
  BY StoreFacts
<1> QED BY <1>1, <1>2, <1>3, <1>4, StoreFacts DEF Orders

LEMMA RowsListed ==
  ASSUME StoreInv
  PROVE  /\ Listed(rows) \in Seq(Entries) /\ Len(Listed(rows)) = Count
         /\ DOMAIN Listed(rows) = 1 .. Count
         /\ \A p \in 1 .. Count : \A r \in rows :
              r.id = IdsOf(rows)[p] => Listed(rows)[p] = r.entry
BY RowsOrdered, StoreFacts, ListedIs DEF StoreInv, Count

LEMMA EmptyTable == Listed({}) = <<>> /\ Cardinality({}) = 0
<1>1. Orders(<<>>, 0, {})
  BY DEF Orders
<1>2. Keyed({}, 0) /\ {} \in SUBSET Row
  BY DEF Keyed
<1>3. Listed({}) \in Seq(Entries) /\ Len(Listed({})) = 0
  BY <1>1, <1>2, ListedIs
<1> QED BY <1>3, EmptySeq, FS_EmptySet

(* AppendRow adds to the end, since its id is the greatest.                 *)
LEMMA AppendedList ==
  ASSUME StoreInv, NEW entry \in Entries, AppendRow(entry)
  PROVE  Listed(rows') = Append(Listed(rows), entry) /\ Count' = Count + 1
<1> DEFINE new == [id |-> next_id, entry |-> entry]
           seq == [p \in 1 .. Count + 1 |-> IF p = Count + 1 THEN next_id ELSE IdsOf(rows)[p]]
<1>1. PICK n \in Nat : n = Count
  BY StoreFacts
<1>2. rows' = rows \cup {new} /\ new.id = next_id /\ new.entry = entry /\ next_id \in Nat
  BY StoreFacts DEF AppendRow
<1>3. StoreInv' /\ rows' \in SUBSET Row /\ next_id' \in Nat
  <2>1. StoreInv'
    BY AppendRowKeeps
  <2> QED BY <2>1, StoreNumbers DEF StoreInv, StoreTypeOK, Row
<1>4. /\ IdsOf(rows) \in [1 .. n -> Nat]
      /\ \A p, q \in 1 .. n : p < q => IdsOf(rows)[p] < IdsOf(rows)[q]
      /\ \A p \in 1 .. n : \E r \in rows : r.id = IdsOf(rows)[p]
      /\ \A r \in rows : \E p \in 1 .. n : IdsOf(rows)[p] = r.id
  BY <1>1, RowsOrdered DEF Orders
<1>5. \A r \in rows : r.id < next_id
  BY DEF StoreInv, Keyed
<1> HIDE DEF new
<1>6. /\ seq \in [1 .. n + 1 -> Nat] /\ seq[n + 1] = next_id
      /\ \A p \in 1 .. n : seq[p] = IdsOf(rows)[p]
  <2>1. \A p \in 1 .. n : IdsOf(rows)[p] \in Nat
    BY <1>4
  <2>2. seq = [p \in 1 .. n + 1 |-> IF p = n + 1 THEN next_id ELSE IdsOf(rows)[p]]
    BY <1>1
  <2>3. \A p \in 1 .. n + 1 : p # n + 1 => p \in 1 .. n
    OBVIOUS
  <2>4. \A p \in 1 .. n : p \in 1 .. n + 1 /\ p # n + 1
    OBVIOUS
  <2>5. n + 1 \in 1 .. n + 1
    OBVIOUS
  <2> HIDE DEF seq
  <2> QED BY <1>2, <2>1, <2>2, <2>3, <2>4, <2>5
<1> HIDE DEF seq
<1>7. Orders(seq, n + 1, rows')
  <2>1. ASSUME NEW p \in 1 .. n + 1, NEW q \in 1 .. n + 1, p < q PROVE seq[p] < seq[q]
    <3>1. p \in 1 .. n
      BY <2>1
    <3>2. CASE q = n + 1
      BY <1>4, <1>5, <1>6, <3>1, <3>2
    <3>3. CASE q \in 1 .. n
      BY <1>4, <1>6, <2>1, <3>1, <3>3
    <3> QED BY <3>2, <3>3
  <2>2. ASSUME NEW p \in 1 .. n + 1 PROVE \E r \in rows' : r.id = seq[p]
    <3>1. CASE p = n + 1
      BY <1>2, <1>6, <3>1
    <3>2. CASE p \in 1 .. n
      BY <1>2, <1>4, <1>6, <3>2
    <3> QED BY <3>1, <3>2
  <2>3. ASSUME NEW r \in rows' PROVE \E p \in 1 .. n + 1 : seq[p] = r.id
    <3>1. CASE r = new
      <4>1. n + 1 \in 1 .. n + 1
        OBVIOUS
      <4> QED BY <1>2, <1>6, <3>1, <4>1
    <3>2. CASE r \in rows
      <4>1. PICK p \in 1 .. n : IdsOf(rows)[p] = r.id
        BY <1>4, <3>2
      <4>2. p \in 1 .. n + 1
        OBVIOUS
      <4> QED BY <1>6, <4>1, <4>2
    <3> QED BY <1>2, <3>1, <3>2
  <2> QED BY <1>6, <2>1, <2>2, <2>3 DEF Orders
<1>8. n + 1 \in Nat /\ Keyed(rows', next_id')
  BY <1>3 DEF StoreInv
<1>9. /\ Cardinality(rows') = n + 1
      /\ Listed(rows') \in Seq(Entries) /\ Len(Listed(rows')) = n + 1
      /\ \A p \in 1 .. n + 1 : \A r \in rows' : r.id = seq[p] => Listed(rows')[p] = r.entry
  BY <1>3, <1>7, <1>8, ListedIs
<1>10. /\ Append(Listed(rows), entry) \in Seq(Entries)
       /\ Len(Append(Listed(rows), entry)) = n + 1
       /\ \A p \in 1 .. n : Append(Listed(rows), entry)[p] = Listed(rows)[p]
       /\ Append(Listed(rows), entry)[n + 1] = entry
  BY <1>1, RowsListed, AppendProperties
<1>11. ASSUME NEW p \in 1 .. n + 1 PROVE Listed(rows')[p] = Append(Listed(rows), entry)[p]
  <2>1. CASE p = n + 1
    BY <1>2, <1>6, <1>9, <1>10, <2>1
  <2>2. CASE p \in 1 .. n
    <3>1. PICK r \in rows : r.id = IdsOf(rows)[p]
      BY <1>4, <2>2
    <3>2. Listed(rows)[p] = r.entry
      BY <1>1, <2>2, <3>1, RowsListed
    <3>3. Listed(rows')[p] = r.entry
      BY <1>2, <1>6, <1>9, <2>2, <3>1
    <3> QED BY <1>10, <2>2, <3>2, <3>3
  <2>3. p = n + 1 \/ p \in 1 .. n
    OBVIOUS
  <2> QED BY <2>1, <2>2, <2>3
<1>12. Listed(rows') = Append(Listed(rows), entry)
  BY <1>9, <1>10, <1>11, SeqEqual
<1> QED BY <1>1, <1>9, <1>12 DEF Count

-----------------------------------------------------------------------------
(* A transaction: the rows that follow the k-th, behind the summary.        *)
Half == total \div 2
Following(k) == {r \in rows : \E j \in k + 1 .. Count : r.id = IdsOf(rows)[j]}
Shrunk(k) == {[id |-> IdsOf(rows)[1], entry |-> SummaryEntry]} \cup Following(k)

(* The ids still to go are those from the k-th on.                          *)
ToGo(k) == /\ Len(ids) = Half - k
           /\ \A i \in 1 .. Half - k : ids[i] = IdsOf(rows)[k + i]

TxnInv ==
  /\ statement \in {"selected", "begun"} => ToGo(0)
  /\ statement = "begun" => txn = rows
  /\ statement = "updated" => \E k \in 1 .. Half : ToGo(k) /\ txn = Shrunk(k)

LEMMA OrderApart ==
  ASSUME StoreInv, NEW p \in 1 .. Count, NEW q \in 1 .. Count, IdsOf(rows)[p] = IdsOf(rows)[q]
  PROVE  p = q
<1>1. PICK n \in Nat : n = Count /\ IdsOf(rows) \in [1 .. n -> Nat]
           /\ \A i, j \in 1 .. n : i < j => IdsOf(rows)[i] < IdsOf(rows)[j]
  BY RowsOrdered DEF Orders
<1> QED BY <1>1, Apart

LEMMA HalfIs ==
  ASSUME StoreInv, LoopInv, CountInv, statement # "none"
  PROVE  Half \in 1 .. Count /\ Half = Count \div 2 /\ Count \in Nat
<1>1. recording = "statements" /\ total = Count /\ Half > 0
  BY DEF LoopInv, CountInv, Count, Half
<1>2. Count \in Nat
  BY StoreFacts
<1>3. total \div 2 \in Nat /\ total \div 2 <= total
  BY <1>1, <1>2
<1> QED BY <1>1, <1>2, <1>3 DEF Half

LEMMA UpdateShrinks ==
  ASSUME StoreInv, Count > 0
  PROVE  Renewed(rows, IdsOf(rows)[1], SummaryEntry) = Shrunk(1)
<1>1. PICK n \in Nat : n = Count /\ n > 0
  BY StoreFacts
<1> DEFINE first == IdsOf(rows)[1]
           new(r) == IF r.id = first THEN [r EXCEPT !.entry = SummaryEntry] ELSE r
           summary == [id |-> first, entry |-> SummaryEntry]
<1>2. PICK top \in rows : top.id = first
  <2>1. 1 \in 1 .. Count
    BY <1>1
  <2> QED BY <2>1, RowsOrdered DEF Orders
<1>3. ASSUME NEW r \in rows PROVE new(r) \in Shrunk(1)
  <2>1. PICK j \in 1 .. n : IdsOf(rows)[j] = r.id
    BY <1>1, RowsOrdered DEF Orders
  <2>2. CASE j = 1
    <3>1. new(r) = summary
      BY <2>1, <2>2, StoreFacts DEF Row
    <3> QED BY <3>1 DEF Shrunk
  <2>3. CASE j # 1
    <3>1. r.id # first
      BY <1>1, <2>1, <2>3, OrderApart
    <3>2. j \in 1 + 1 .. Count
      BY <1>1, <2>3
    <3>3. r \in Following(1)
      BY <2>1, <3>2 DEF Following
    <3> QED BY <3>1, <3>3 DEF Shrunk
  <2> QED BY <2>2, <2>3
<1>4. ASSUME NEW s \in Shrunk(1) PROVE \E r \in rows : s = new(r)
  <2>1. CASE s = summary
    <3>1. new(top) = summary
      BY <1>2, StoreFacts DEF Row
    <3> QED BY <2>1, <3>1
  <2>2. CASE s \in Following(1)
    <3>1. PICK j \in 1 + 1 .. Count : s.id = IdsOf(rows)[j]
      BY <2>2 DEF Following
    <3>2. s.id # first
      <4>1. j \in 1 .. Count /\ 1 \in 1 .. Count /\ j # 1
        BY <1>1, <3>1
      <4> QED BY <3>1, <4>1, OrderApart
    <3>3. s = new(s) /\ s \in rows
      BY <2>2, <3>2 DEF Following
    <3> QED BY <3>3
  <2> QED BY <2>1, <2>2 DEF Shrunk
<1> HIDE DEF new
<1>5. Renewed(rows, first, SummaryEntry) = {new(r) : r \in rows}
  BY DEF Renewed, new
<1> QED BY <1>3, <1>4, <1>5

LEMMA DeleteShrinks ==
  ASSUME StoreInv, NEW k \in Nat, k > 0, k + 1 <= Count
  PROVE  {r \in Shrunk(k) : r.id # IdsOf(rows)[k + 1]} = Shrunk(k + 1)
<1>1. PICK n \in Nat : n = Count /\ k + 1 \in 1 .. n /\ 1 \in 1 .. n /\ k + 1 # 1
  BY StoreFacts
<1>2. IdsOf(rows)[1] # IdsOf(rows)[k + 1]
  BY <1>1, OrderApart
<1>3. ASSUME NEW r \in rows
      PROVE  (r \in Following(k) /\ r.id # IdsOf(rows)[k + 1]) <=> r \in Following(k + 1)
  <2>1. ASSUME r \in Following(k), r.id # IdsOf(rows)[k + 1] PROVE r \in Following(k + 1)
    <3>1. PICK j \in k + 1 .. Count : r.id = IdsOf(rows)[j]
      BY <2>1 DEF Following
    <3>2. j \in k + 1 + 1 .. Count
      BY <1>1, <2>1, <3>1
    <3> QED BY <3>1, <3>2 DEF Following
  <2>2. ASSUME r \in Following(k + 1) PROVE r \in Following(k) /\ r.id # IdsOf(rows)[k + 1]
    <3>1. PICK j \in k + 1 + 1 .. Count : r.id = IdsOf(rows)[j]
      BY <2>2 DEF Following
    <3>2. j \in k + 1 .. Count /\ j \in 1 .. Count /\ k + 1 \in 1 .. Count /\ j # k + 1
      BY <1>1, <3>1
    <3>3. r.id # IdsOf(rows)[k + 1]
      BY <3>1, <3>2, OrderApart
    <3> QED BY <3>1, <3>2, <3>3 DEF Following
  <2> QED BY <2>1, <2>2
<1>4. Following(k) \subseteq rows /\ Following(k + 1) \subseteq rows
  BY DEF Following
<1> DEFINE summary == [id |-> IdsOf(rows)[1], entry |-> SummaryEntry]
<1>5. summary.id # IdsOf(rows)[k + 1]
  BY <1>2
<1>6. Shrunk(k) = {summary} \cup Following(k) /\ Shrunk(k + 1) = {summary} \cup Following(k + 1)
  BY DEF Shrunk
<1> HIDE DEF summary
<1> QED BY <1>3, <1>4, <1>5, <1>6

LEMMA TxnKeeps ==
  ASSUME StoreInv, LoopInv, CountInv, TxnInv, Begin \/ Update(SummaryEntry) \/ DeleteNext,
         total' = total
  PROVE  TxnInv'
<1>1. UNCHANGED <<rows, IdsOf(rows), Count>> /\ Half' = Half /\ statement # "none"
  BY StatementsKeep DEF Half, IdsOf, Count
<1>2. \A k : Shrunk(k)' = Shrunk(k)
  BY <1>1 DEF Shrunk, Following
<1>3. Half \in 1 .. Count /\ Count \in Nat /\ Half \in Nat
  BY <1>1, HalfIs
<1>4. ids \in Seq(1 .. MaxRows)
  BY DEF StoreInv, StoreTypeOK
<1>5. CASE Begin
  <2>1. statement = "selected" /\ statement' = "begun" /\ txn' = rows /\ ids' = ids
    BY <1>5 DEF Begin
  <2>2. ToGo(0)
    BY <2>1 DEF TxnInv
  <2>3. ToGo(0)'
    BY <1>1, <2>1, <2>2 DEF ToGo
  <2> QED BY <1>1, <2>1, <2>3 DEF TxnInv
<1>6. ASSUME NEW k \in Nat, k < Half, ToGo(k), ids # <<>>, ids' = Tail(ids)
      PROVE  Head(ids) = IdsOf(rows)[k + 1] /\ ToGo(k + 1)'
  <2>1. /\ Tail(ids) \in Seq(1 .. MaxRows) /\ Len(Tail(ids)) = Len(ids) - 1
        /\ \A i \in 1 .. Len(Tail(ids)) : Tail(ids)[i] = ids[i + 1]
    BY <1>4, <1>6, HeadTailProperties
  <2>2. Len(ids) = Half - k /\ \A i \in 1 .. Half - k : ids[i] = IdsOf(rows)[k + i]
    BY <1>6 DEF ToGo
  <2>3. Head(ids) = ids[1] /\ 1 \in 1 .. Half - k
    BY <1>3, <1>6
  <2>4. Len(ids') = Half - (k + 1)
    BY <1>3, <1>6, <2>1, <2>2
  <2>5. ASSUME NEW i \in 1 .. Half - (k + 1) PROVE ids'[i] = IdsOf(rows)[(k + 1) + i]
    <3>1. i + 1 \in 1 .. Half - k /\ i \in 1 .. Len(Tail(ids)) /\ k + (i + 1) = (k + 1) + i
      BY <1>3, <1>6, <2>1, <2>2
    <3> QED BY <1>6, <2>1, <2>2, <3>1
  <2> QED BY <1>1, <2>2, <2>3, <2>4, <2>5 DEF ToGo
<1>7. CASE Update(SummaryEntry)
  <2>1. /\ statement = "begun" /\ statement' = "updated" /\ ids' = Tail(ids) /\ ids # <<>>
        /\ txn' = Renewed(txn, Head(ids), SummaryEntry)
    BY <1>7 DEF Update, Execute, InTransaction, Renewed, StoreInv
  <2>2. txn = rows /\ ToGo(0)
    BY <2>1 DEF TxnInv
  <2>3. Head(ids) = IdsOf(rows)[1] /\ ToGo(1)'
    <3>1. 0 \in Nat /\ 0 < Half /\ 0 + 1 = 1
      BY <1>3
    <3>2. Head(ids) = IdsOf(rows)[0 + 1] /\ ToGo(0 + 1)'
      BY <1>6, <2>1, <2>2, <3>1
    <3> QED BY <3>1, <3>2
  <2>4. Count > 0
    BY <1>3
  <2>5. txn' = Shrunk(1)'
    BY <1>2, <2>1, <2>2, <2>3, <2>4, UpdateShrinks
  <2>6. 1 \in 1 .. Half'
    BY <1>1, <1>3
  <2> QED BY <2>1, <2>3, <2>5, <2>6 DEF TxnInv
<1>8. CASE DeleteNext
  <2>1. /\ statement = "updated" /\ statement' = "updated" /\ ids' = Tail(ids) /\ ids # <<>>
        /\ txn' = {r \in txn : r.id # Head(ids)}
    BY <1>8 DEF DeleteNext, Execute, InTransaction
  <2>2. PICK k \in 1 .. Half : ToGo(k) /\ txn = Shrunk(k)
    BY <2>1 DEF TxnInv
  <2>3. k < Half /\ k \in Nat /\ k > 0
    <3>1. Len(ids) \in Nat /\ Len(ids) # 0
      BY <1>4, <2>1, EmptySeq, LenProperties
    <3> QED BY <1>3, <2>2, <3>1 DEF ToGo
  <2>4. Head(ids) = IdsOf(rows)[k + 1] /\ ToGo(k + 1)'
    BY <1>6, <2>1, <2>2, <2>3
  <2>5. k + 1 <= Count /\ k + 1 \in 1 .. Half'
    BY <1>1, <1>3, <2>3
  <2>6. txn' = Shrunk(k + 1)'
    BY <1>2, <2>1, <2>2, <2>3, <2>4, <2>5, DeleteShrinks
  <2> QED BY <2>1, <2>4, <2>5, <2>6 DEF TxnInv
<1> QED BY <1>5, <1>7, <1>8

(* What is committed: the list with its older half summarised.              *)
SummarizedList(list, half) == SubSeq(list, 1, 0) \o <<SummaryEntry>> \o SubSeq(list, half + 1, Len(list))

LEMMA SummarizedIs ==
  ASSUME NEW list \in Seq(Entries), NEW n \in Nat, n = Len(list), NEW half \in 1 .. n
  PROVE  /\ SummarizedList(list, half) \in Seq(Entries)
         /\ Len(SummarizedList(list, half)) = (n - half) + 1
         /\ SummarizedList(list, half)[1] = SummaryEntry
         /\ \A p \in 1 .. n - half : SummarizedList(list, half)[p + 1] = list[half + p]
<1>1. PICK a \in Seq(Entries) : a = SubSeq(list, 1, 0) /\ Len(a) = 0
  <2>1. \A i \in 1 .. 0 : list[i] \in Entries
    OBVIOUS
  <2>2. 1 \in Int /\ 0 \in Int
    OBVIOUS
  <2>3. SubSeq(list, 1, 0) \in Seq(Entries)
        /\ Len(SubSeq(list, 1, 0)) = (IF 1 <= 0 THEN 0 - 1 + 1 ELSE 0)
    BY <2>1, <2>2, SubSeqProperties
  <2>4. PICK a \in Seq(Entries) : a = SubSeq(list, 1, 0)
    BY <2>3
  <2>5. Len(a) = 0
    BY <2>3, <2>4
  <2> QED BY <2>4, <2>5
<1>2. PICK b \in Seq(Entries) : b = <<SummaryEntry>> /\ Len(b) = 1 /\ b[1] = SummaryEntry
  <2>1. <<SummaryEntry>> \in Seq(Entries)
    BY SessionEntries
  <2> QED BY <2>1
<1>3. PICK c \in Seq(Entries) : /\ c = SubSeq(list, half + 1, n) /\ Len(c) = n - half
                                /\ \A p \in 1 .. n - half : c[p] = list[half + p]
  <2>1. \A i \in half + 1 .. n : list[i] \in Entries
    <3>1. \A i \in half + 1 .. n : i \in 1 .. Len(list)
      OBVIOUS
    <3> QED BY <3>1, ElementOfSeq
  <2>2. half + 1 \in Int /\ n \in Int
    OBVIOUS
  <2>3. /\ SubSeq(list, half + 1, n) \in Seq(Entries)
        /\ Len(SubSeq(list, half + 1, n)) = (IF half + 1 <= n THEN n - (half + 1) + 1 ELSE 0)
        /\ \A i \in 1 .. n - (half + 1) + 1 :
             SubSeq(list, half + 1, n)[i] = list[(half + 1) + i - 1]
    BY <2>1, <2>2, SubSeqProperties
  <2>4. n - (half + 1) + 1 = n - half /\ \A i \in 1 .. n - half : (half + 1) + i - 1 = half + i
    OBVIOUS
  <2>5. PICK c \in Seq(Entries) : c = SubSeq(list, half + 1, n)
    BY <2>3
  <2>6. Len(c) = n - half
    BY <2>3, <2>5
  <2>7. \A p \in 1 .. n - half : c[p] = list[half + p]
    BY <2>3, <2>4, <2>5
  <2> QED BY <2>5, <2>6, <2>7
<1>4. PICK d \in Seq(Entries) : d = a \o b /\ Len(d) = 1 /\ d[1] = SummaryEntry
  <2>1. /\ a \o b \in Seq(Entries) /\ Len(a \o b) = Len(a) + Len(b)
        /\ \A i \in 1 .. Len(a) + Len(b) :
             (a \o b)[i] = IF i <= Len(a) THEN a[i] ELSE b[i - Len(a)]
    BY ConcatProperties
  <2>2. PICK m \in Seq(Entries) : m = a \o b
    BY <2>1
  <2>3. Len(m) = 1 /\ m[1] = b[1]
    BY <1>1, <1>2, <2>1, <2>2
  <2> QED BY <1>2, <2>2, <2>3
<1>5. PICK e \in Seq(Entries) : /\ e = d \o c /\ Len(e) = 1 + (n - half) /\ e[1] = SummaryEntry
                                /\ \A p \in 1 .. n - half : e[p + 1] = c[p]
  <2>1. /\ d \o c \in Seq(Entries) /\ Len(d \o c) = Len(d) + Len(c)
        /\ \A i \in 1 .. Len(d) + Len(c) :
             (d \o c)[i] = IF i <= Len(d) THEN d[i] ELSE c[i - Len(d)]
    BY ConcatProperties
  <2>2. PICK m \in Seq(Entries) : m = d \o c
    BY <2>1
  <2>3. Len(m) = 1 + (n - half)
    BY <1>3, <1>4, <2>1, <2>2
  <2>4. \A i \in 1 .. 1 + (n - half) : m[i] = IF i <= 1 THEN d[i] ELSE c[i - 1]
    BY <1>3, <1>4, <2>1, <2>2
  <2>5. m[1] = d[1]
    BY <2>4
  <2>6. ASSUME NEW p \in 1 .. n - half PROVE m[p + 1] = c[p]
    <3>1. p + 1 \in 1 .. 1 + (n - half) /\ ~(p + 1 <= 1) /\ (p + 1) - 1 = p
      OBVIOUS
    <3>2. m[p + 1] = c[(p + 1) - 1]
      BY <2>4, <3>1
    <3> QED BY <3>1, <3>2
  <2> QED BY <1>4, <2>2, <2>3, <2>5, <2>6
<1>6. e = SummarizedList(list, half)
  BY <1>1, <1>2, <1>3, <1>4, <1>5 DEF SummarizedList
<1>7. Len(e) = (n - half) + 1
  BY <1>5
<1>8. \A p \in 1 .. n - half : e[p + 1] = list[half + p]
  BY <1>3, <1>5
<1> QED BY <1>5, <1>6, <1>7, <1>8

LEMMA ShrunkList ==
  ASSUME StoreInv, NEW half \in 1 .. Count, NEW table \in SUBSET Row, NEW next \in Nat,
         Keyed(table, next), table = Shrunk(half)
  PROVE  /\ Cardinality(table) = (Count - half) + 1
         /\ Listed(table) = SummarizedList(Listed(rows), half)
<1>1. PICK n \in Nat : n = Count /\ half \in 1 .. n
  BY StoreFacts
<1> DEFINE m == (n - half) + 1
           summary == [id |-> IdsOf(rows)[1], entry |-> SummaryEntry]
           at(p) == IF p = 1 THEN 1 ELSE (p + half) - 1
           seq == [p \in 1 .. m |-> IdsOf(rows)[at(p)]]
<1>2. /\ m \in Nat /\ at(1) = 1
      /\ \A p \in 1 .. m : at(p) \in 1 .. n
      /\ \A p, q \in 1 .. m : p < q => at(p) < at(q)
      /\ \A j \in half + 1 .. n : j - half + 1 \in 1 .. m /\ at(j - half + 1) = j
      /\ \A p \in 1 .. m : p # 1 => at(p) \in half + 1 .. n
      /\ \A p \in 1 .. n - half : at(p + 1) = half + p /\ p + 1 # 1 /\ p + 1 \in 1 .. m
      /\ 1 \in 1 .. m
  <2>1. half \in Nat /\ half >= 1 /\ half <= n
    BY <1>1
  <2> QED BY <2>1
<1> HIDE DEF at
<1>3. /\ IdsOf(rows) \in [1 .. n -> Nat]
      /\ \A p, q \in 1 .. n : p < q => IdsOf(rows)[p] < IdsOf(rows)[q]
      /\ \A p \in 1 .. n : \E r \in rows : r.id = IdsOf(rows)[p]
  BY <1>1, RowsOrdered DEF Orders
<1>4. /\ seq \in [1 .. m -> Nat]
      /\ \A p \in 1 .. m : seq[p] = IdsOf(rows)[at(p)]
  BY <1>2, <1>3
<1>5. /\ table = {summary} \cup Following(half) /\ summary.entry = SummaryEntry
      /\ summary.id = IdsOf(rows)[1] /\ summary \in table
  BY DEF Shrunk
<1>6. \A r \in rows : r \in Following(half) <=> \E j \in half + 1 .. n : r.id = IdsOf(rows)[j]
  BY <1>1 DEF Following
<1>7. Following(half) \subseteq rows
  BY DEF Following
<1> HIDE DEF seq, summary
<1>8. \A p \in 1 .. m : p # 1 => \A r \in rows : r.id = IdsOf(rows)[at(p)] => r \in table
  BY <1>2, <1>5, <1>6
<1>9. Orders(seq, m, table)
  <2>1. \A p, q \in 1 .. m : p < q => seq[p] < seq[q]
    BY <1>2, <1>3, <1>4
  <2>2. ASSUME NEW p \in 1 .. m PROVE \E r \in table : r.id = seq[p]
    <3>1. CASE p = 1
      BY <1>2, <1>4, <1>5, <3>1
    <3>2. CASE p # 1
      <4>1. PICK r \in rows : r.id = IdsOf(rows)[at(p)]
        BY <1>2, <1>3
      <4> QED BY <1>4, <1>8, <3>2, <4>1
    <3> QED BY <3>1, <3>2
  <2>3. ASSUME NEW r \in table PROVE \E p \in 1 .. m : seq[p] = r.id
    <3>1. CASE r = summary
      BY <1>2, <1>4, <1>5, <3>1
    <3>2. CASE r \in Following(half)
      <4>1. PICK j \in half + 1 .. n : r.id = IdsOf(rows)[j]
        BY <1>6, <1>7, <3>2
      <4> QED BY <1>2, <1>4, <4>1
    <3> QED BY <1>5, <3>1, <3>2
  <2> QED BY <1>4, <2>1, <2>2, <2>3 DEF Orders
<1>10. /\ Cardinality(table) = m
       /\ Listed(table) \in Seq(Entries) /\ Len(Listed(table)) = m
       /\ \A p \in 1 .. m : \A r \in table : r.id = seq[p] => Listed(table)[p] = r.entry
  BY <1>2, <1>9, ListedIs
<1>11. PICK list \in Seq(Entries) :
         /\ list = Listed(rows) /\ n = Len(list)
         /\ \A p \in 1 .. n : \A r \in rows : r.id = IdsOf(rows)[p] => list[p] = r.entry
  BY <1>1, RowsListed
<1>12. /\ SummarizedList(list, half) \in Seq(Entries)
       /\ Len(SummarizedList(list, half)) = m
       /\ SummarizedList(list, half)[1] = SummaryEntry
       /\ \A p \in 1 .. n - half : SummarizedList(list, half)[p + 1] = list[half + p]
  BY <1>1, <1>11, SummarizedIs
<1>13. ASSUME NEW p \in 1 .. m PROVE Listed(table)[p] = SummarizedList(list, half)[p]
  <2>1. CASE p = 1
    <3>1. summary.id = seq[p]
      BY <1>2, <1>4, <1>5, <2>1
    <3> QED BY <1>5, <1>10, <1>12, <2>1, <3>1
  <2>2. CASE p # 1
    <3>1. at(p) \in 1 .. n
      BY <1>2
    <3>2. PICK r \in rows : r.id = IdsOf(rows)[at(p)]
      BY <1>3, <3>1
    <3>3. r \in table /\ r.id = seq[p]
      BY <1>4, <1>8, <2>2, <3>2
    <3>4. Listed(table)[p] = r.entry
      BY <1>10, <3>3
    <3>5. list[at(p)] = r.entry
      BY <1>11, <3>1, <3>2
    <3>6. PICK q \in 1 .. n - half : p = q + 1
      <4>1. p - 1 \in 1 .. n - half /\ p = (p - 1) + 1
        BY <1>1, <2>2
      <4> QED BY <4>1
    <3>7. at(p) = half + q
      BY <1>2, <3>6
    <3>8. SummarizedList(list, half)[p] = list[half + q]
      BY <1>12, <3>6
    <3> QED BY <3>4, <3>5, <3>7, <3>8
  <2> QED BY <2>1, <2>2
<1>14. Listed(table) = SummarizedList(list, half)
  BY <1>10, <1>12, <1>13, SeqEqual
<1> QED BY <1>1, <1>10, <1>11, <1>14

LEMMA CommitIs ==
  ASSUME StoreInv, LoopInv, CountInv, TxnInv, Commit
  PROVE  /\ Half \in 1 .. Count /\ Half = Count \div 2 /\ Count \in Nat
         /\ Count' = (Count - Half) + 1
         /\ Listed(rows') = SummarizedList(Listed(rows), Count \div 2)
<1>1. statement = "updated" /\ ids = <<>> /\ rows' = txn
  BY DEF Commit
<1>2. Half \in 1 .. Count /\ Half = Count \div 2 /\ Count \in Nat
  BY <1>1, HalfIs
<1>3. PICK k \in 1 .. Half : ToGo(k) /\ txn = Shrunk(k)
  BY <1>1 DEF TxnInv
<1>4. k = Half
  <2>1. Len(ids) = 0
    BY <1>1
  <2> QED BY <1>2, <1>3, <2>1 DEF ToGo
<1>5. txn \in SUBSET Row /\ Keyed(txn, next_id) /\ next_id \in Nat
  BY StoreFacts DEF StoreInv
<1>6. Cardinality(txn) = (Count - Half) + 1 /\ Listed(txn) = SummarizedList(Listed(rows), Half)
  BY <1>2, <1>3, <1>4, <1>5, ShrunkList
<1> QED BY <1>1, <1>2, <1>6 DEF Count

(* Only appending, committing and clearing change the table.                *)
LEMMA TableSteps ==
  ASSUME [Next]_vars
  PROVE  UNCHANGED rows \/ AppendStep \/ SummarizeCommit \/ ClearDatabase
BY DEF Next, vars, storeVars, CountStep, SummarizeCall, SelectIds, SummarizeStatement, Begin, Update,
       DeleteNext, Execute, InTransaction, Throw, Fail, Undo, RollBack, UserMessage, Answer,
       RequestTools, Route, ToolResult, ToolTimeout, Interrupted, Record, ChangePolicy, Restart,
       CrashStore

LEMMA TxnStep ==
  ASSUME StoreInv, LoopInv, CountInv, TxnInv, [Next]_vars
  PROVE  TxnInv'
<1>1. CASE statement' = "none"
  BY <1>1 DEF TxnInv
<1>2. CASE UNCHANGED <<storeVars, total>>
  <2>1. UNCHANGED <<rows, txn, statement, ids, IdsOf(rows), Count>> /\ Half' = Half
    BY <1>2 DEF storeVars, IdsOf, Count, Half
  <2> QED BY <2>1 DEF TxnInv, ToGo, Shrunk, Following
<1>3. CASE SummarizeCall /\ statement' # "none"
  <2>1. /\ recording = "summarize" /\ total' = total /\ SelectIds(0, Half) /\ statement = "none"
    BY <1>3 DEF SummarizeCall, Half, SelectIds, MutexFree
  <2>2. Half \in Nat /\ Half > 0 /\ (total = Count \/ rows = {}) /\ Half <= total
    BY <2>1, StoreNumbers DEF CountInv, LoopInv, Half, Count
  <2>3. /\ rows' = rows /\ statement' = "selected" /\ Count > 0
        /\ ids' = SubSeq(IdsOf(rows), 1, IF Half <= Count THEN Half ELSE Count)
    BY <1>3, <2>1, <2>2, SelectKeeps
  <2>4. rows # {} /\ Count \in Nat
    <3>1. rows = {} => Count = 0
      BY EmptyTable DEF Count
    <3> QED BY <2>3, <3>1, RowsOrdered
  <2>5. Half <= Count /\ ids' = SubSeq(IdsOf(rows), 1, Half)
    BY <2>2, <2>3, <2>4
  <2>6. PICK order \in Seq(1 .. MaxRows) : order = IdsOf(rows) /\ Len(order) = Count
    BY OrderIsSequence
  <2>7. \A i \in 1 .. Half : order[i] \in 1 .. MaxRows
    <3>1. \A i \in 1 .. Half : i \in 1 .. Len(order)
      BY <2>2, <2>4, <2>5, <2>6
    <3> QED BY <3>1, ElementOfSeq
  <2>8. /\ Len(SubSeq(order, 1, Half)) = (IF 1 <= Half THEN Half - 1 + 1 ELSE 0)
        /\ \A i \in 1 .. Half - 1 + 1 : SubSeq(order, 1, Half)[i] = order[1 + i - 1]
    <3>1. 1 \in Int /\ Half \in Int
      BY <2>2
    <3> QED BY <2>7, <3>1, SubSeqProperties
  <2>9. Half - 1 + 1 = Half - 0 /\ 1 <= Half /\ \A i \in 1 .. Half - 0 : 1 + i - 1 = 0 + i
    BY <2>2
  <2>10. Len(ids') = Half - 0 /\ \A i \in 1 .. Half - 0 : ids'[i] = IdsOf(rows)[0 + i]
    BY <2>5, <2>6, <2>8, <2>9
  <2>11. ToGo(0)'
    <3>1. Half' = Half /\ IdsOf(rows)' = IdsOf(rows)
      BY <2>1, <2>3 DEF Half
    <3> QED BY <2>10, <3>1 DEF ToGo
  <2> QED BY <2>3, <2>11 DEF TxnInv
<1>4. CASE SummarizeStatement
  <2>1. total' = total /\ (Begin \/ Update(SummaryEntry) \/ DeleteNext)
    BY <1>4 DEF SummarizeStatement, loopVars
  <2> QED BY <2>1, TxnKeeps
<1>5. statement' = "none" \/ UNCHANGED <<storeVars, total>> \/ SummarizeCall \/ SummarizeStatement
  BY DEF Next, vars, loopVars, storeVars, AppendStep, AppendRow, CountStep, MutexFree,
         SummarizeCommit, Commit, CloseTransaction, Throw, Fail, Undo, RollBack, UserMessage, Answer,
         RequestTools, Route, ToolResult, ToolTimeout, Interrupted, Record, ClearDatabase, Clear,
         ChangePolicy, Restart, CrashStore
<1> QED BY <1>1, <1>2, <1>3, <1>4, <1>5

-----------------------------------------------------------------------------
(* The size of the table: over the bound only for the failures so far, and   *)
(* by one while the last entry has not been counted and summarised.         *)
Bound == IF Threshold < 3 THEN 3 ELSE Threshold
Extra == IF recording = "append" THEN 0 ELSE 1
SizeInv == Count <= (Bound + faults) + Extra

(* The steps outside of RecordTurn, and those of Throw and Restart.         *)
LEMMA OtherSteps ==
  ASSUME LoopInv, [Next]_vars
  PROVE  \/ AppendStep \/ CountStep \/ SummarizeCall \/ SummarizeCommit
         \/ UNCHANGED <<total, recording, rows, faults>>
         \/ /\ UNCHANGED <<total, recording, faults>> /\ rows' = {} /\ recording # "statements"
         \/ /\ recording' = "append" /\ rows' = rows
            /\ \/ faults' = faults /\ recording = "append"
               \/ faults' = faults + 1
<1>1. CASE Throw
  <2>1. recording' = "append" /\ rows' = rows /\ faults' = faults + 1
    BY <1>1 DEF Throw, Fail, Undo, RollBack, storeVars
  <2> QED BY <2>1
<1>2. CASE Restart
  <2>1. recording' = "append" /\ rows' = rows
        /\ ((phase = "ended" /\ faults' = faults) \/ faults' = faults + 1)
    BY <1>2 DEF Restart, Restarted, CrashStore
  <2>2. phase = "ended" => recording = "append"
    BY DEF LoopInv
  <2> QED BY <2>1, <2>2
<1>3. CASE ClearDatabase
  <2>1. UNCHANGED <<total, recording, faults>> /\ rows' = {} /\ statement = "none"
    BY <1>3 DEF ClearDatabase, Clear, MutexFree, loopVars
  <2>2. recording # "statements"
    BY <2>1 DEF LoopInv
  <2> QED BY <2>1, <2>2
<1>4. \/ AppendStep \/ CountStep \/ SummarizeCall \/ SummarizeCommit
      \/ Throw \/ Restart \/ ClearDatabase
      \/ UNCHANGED <<total, recording, rows, faults>>
  BY DEF Next, vars, loopVars, storeVars, SummarizeStatement, Begin, Update, DeleteNext, Execute,
         InTransaction, UserMessage, Answer, RequestTools, Route, ToolResult, ToolTimeout,
         Interrupted, Record, ChangePolicy
<1> QED BY <1>1, <1>2, <1>3, <1>4

LEMMA AppendStepIs ==
  ASSUME StoreInv, LoopInv, AppendStep
  PROVE  /\ Head(todo) \in Entries /\ Listed(rows') = Append(Listed(rows), Head(todo))
         /\ Count' = Count + 1 /\ recording = "append" /\ recording' = "count" /\ faults' = faults
<1>1. Head(todo) \in Entries
  BY HeadTailProperties DEF AppendStep, Ready, LoopInv
<1> QED BY <1>1, AppendedList DEF AppendStep

LEMMA SizeStep ==
  ASSUME StoreInv, LoopInv, CountInv, TxnInv, SizeInv, [Next]_vars
  PROVE  CountInv' /\ SizeInv'
<1>1. /\ Count \in Nat /\ faults \in Nat /\ Bound \in Nat /\ Bound >= 3 /\ Bound >= Threshold
      /\ Threshold \in Nat
  BY StoreFacts, SessionNumbers DEF LoopInv, Bound
<1>2. CASE AppendStep
  <2>1. Count' = Count + 1 /\ recording = "append" /\ recording' = "count" /\ faults' = faults
    BY <1>2, AppendStepIs
  <2>2. Extra = 0 /\ Extra' = 1 /\ Bound' = Bound
    BY <2>1 DEF Extra, Bound
  <2> QED BY <1>1, <2>1, <2>2 DEF CountInv, SizeInv
<1>3. CASE CountStep
  <2>1. /\ recording = "count" /\ total' = Count /\ Count' = Count /\ faults' = faults
        /\ Bound' = Bound /\ Extra = 1 /\ rows' = rows
        /\ IF Count > Threshold /\ Count \div 2 > 0 THEN recording' = "summarize"
           ELSE recording' = "append"
    BY <1>3 DEF CountStep, storeVars, Count, Bound, Extra, MustSummarize, Exceeds, ExceedsByOne,
                Recorded
  <2>2. CASE Count > Threshold /\ Count \div 2 > 0
    <3>1. recording' = "summarize" /\ Extra' = 1
      BY <2>1, <2>2 DEF Extra
    <3> QED BY <1>1, <2>1, <2>2, <3>1 DEF CountInv, SizeInv, Count
  <2>3. CASE ~(Count > Threshold /\ Count \div 2 > 0)
    <3>1. recording' = "append" /\ Extra' = 0
      BY <2>1, <2>3 DEF Extra
    <3>2. Count <= Threshold \/ Count <= 1
      BY <1>1, <2>3
    <3>3. Count <= (Bound + faults) + 0
      BY <1>1, <3>2
    <3> QED BY <2>1, <3>1, <3>3 DEF CountInv, SizeInv
  <2> QED BY <2>2, <2>3
<1>4. CASE SummarizeCall
  <2>1. /\ recording = "summarize" /\ SelectIds(0, Half) /\ statement = "none"
        /\ total' = total /\ faults' = faults /\ Bound' = Bound /\ Extra = 1
        /\ IF statement' = "none" THEN recording' = "append" ELSE recording' = "statements"
    BY <1>4 DEF SummarizeCall, Half, SelectIds, MutexFree, Bound, Extra, Recorded
  <2>2. Half \in Nat /\ Half > 0 /\ (total = Count \/ rows = {})
    BY <2>1, StoreNumbers DEF CountInv, LoopInv, Half, Count
  <2>3. /\ rows' = rows /\ Count' = Count
        /\ \/ rows = {} /\ statement' = "none"
           \/ Count > 0 /\ statement' = "selected"
    BY <2>1, <2>2, SelectKeeps DEF Count
  <2>4. rows = {} => Count = 0
    BY EmptyTable DEF Count
  <2>5. CASE rows = {} /\ statement' = "none"
    BY <1>1, <2>1, <2>3, <2>4, <2>5 DEF CountInv, SizeInv, Extra
  <2>6. CASE Count > 0 /\ statement' = "selected"
    <3>1. recording' = "statements" /\ total' = Count' /\ Extra' = 1
      BY <2>1, <2>2, <2>3, <2>4, <2>6 DEF Extra
    <3>2. CountInv'
      BY <2>1, <2>2, <3>1 DEF CountInv, Half, Count
    <3> QED BY <2>1, <2>3, <3>1, <3>2 DEF SizeInv
  <2> QED BY <2>3, <2>5, <2>6
<1>5. CASE SummarizeCommit
  <2>1. Commit /\ recording' = "append" /\ faults' = faults /\ statement = "updated"
    BY <1>5 DEF SummarizeCommit, Recorded, Commit
  <2>2. Half \in 1 .. Count /\ Half = Count \div 2 /\ Count' = (Count - Half) + 1
    BY <2>1, CommitIs
  <2>3. Extra' = 0 /\ Bound' = Bound /\ Extra \in {0, 1}
    BY <2>1 DEF Extra, Bound
  <2>4. Count <= (Bound + faults) + 1
    BY <1>1, <2>3 DEF SizeInv
  <2>5. Count >= 4 => Half >= 2
    BY <1>1, <2>2
  <2>6. (Count - Half) + 1 <= Bound + faults
    BY <1>1, <2>2, <2>4, <2>5
  <2> QED BY <1>1, <2>1, <2>2, <2>3, <2>6 DEF CountInv, SizeInv
<1>6. CASE UNCHANGED <<total, recording, rows, faults>>
  BY <1>6 DEF CountInv, SizeInv, Count, Bound, Extra
<1>7. CASE UNCHANGED <<total, recording, faults>> /\ rows' = {} /\ recording # "statements"
  <2>1. Count' = 0 /\ Bound' = Bound /\ Extra' \in {0, 1}
    BY <1>7, EmptyTable DEF Count, Bound, Extra
  <2>2. PICK e \in {0, 1} : e = Extra'
    BY <2>1
  <2>3. 0 <= (Bound + faults) + e
    BY <1>1
  <2>4. SizeInv'
    BY <1>7, <2>1, <2>2, <2>3, Zenon DEF SizeInv
  <2> QED BY <1>7, <2>4 DEF CountInv
<1>8. CASE /\ recording' = "append" /\ rows' = rows
           /\ \/ faults' = faults /\ recording = "append"
              \/ faults' = faults + 1
  <2>1. Count' = Count /\ Bound' = Bound /\ Extra' = 0 /\ Extra \in {0, 1}
        /\ (recording = "append" => Extra = 0)
    BY <1>8 DEF Count, Bound, Extra
  <2>2. SizeInv'
    BY <1>1, <1>8, <2>1 DEF SizeInv
  <2> QED BY <1>8, <2>2 DEF CountInv
<1> QED BY <1>2, <1>3, <1>4, <1>5, <1>6, <1>7, <1>8, OtherSteps

-----------------------------------------------------------------------------
(* The invariant of the session.                                            *)
SessionInv == StoreInv /\ PolicyInv /\ LoopInv /\ CountInv /\ TxnInv /\ SizeInv

LEMMA SessionStarts == Init => SessionInv
<1> SUFFICES ASSUME Init PROVE SessionInv
  OBVIOUS
<1>1. StoreInv /\ PolicyInv /\ LoopInv
  BY StoreStarts, PolicyStarts, LoopStarts DEF Init
<1>2. rows = {} /\ statement = "none" /\ recording = "append" /\ faults = 0
  BY DEF Init, StoreInit, LoopInit
<1>3. Count = 0 /\ Extra = 0 /\ Bound \in Nat
  BY <1>2, EmptyTable, SessionNumbers DEF Count, Extra, Bound
<1>4. SizeInv
  BY <1>2, <1>3 DEF SizeInv
<1> QED BY <1>1, <1>2, <1>4 DEF SessionInv, CountInv, TxnInv

LEMMA SessionStep == SessionInv /\ [Next]_vars => SessionInv'
BY StoreStep, PolicyStep, LoopStep, TxnStep, SizeStep DEF SessionInv

THEOREM SessionInvariant == Spec => []SessionInv
BY SessionStarts, SessionStep, PTL DEF Spec

(* Every variable of the session, the store and the policy keeps its type,  *)
(* and the store is inside Summarize just when the loop waits for it.       *)
THEOREM SessionTypes == Spec => []TypeOK
<1>1. SessionInv => TypeOK
  BY DEF SessionInv, StoreInv, PolicyInv, LoopInv, TypeOK
<1> QED BY <1>1, SessionInvariant, PTL

(* The history stays within its bound, and a failed statement or a crash    *)
(* lets it grow by one entry at most.                                       *)
THEOREM HistoryStaysBounded == Spec => []HistoryBounded
<1>1. SessionInv => HistoryBounded
  <2> SUFFICES ASSUME SessionInv, todo = <<>> PROVE Count <= Bound + faults
    BY DEF HistoryBounded, Ready, Bound
  <2>1. recording = "append"
    BY DEF SessionInv, LoopInv
  <2>2. Count \in Nat /\ Bound \in Nat /\ faults \in Nat
    BY StoreFacts, SessionNumbers DEF SessionInv, LoopInv, Bound
  <2> QED BY <2>1, <2>2 DEF SessionInv, SizeInv, Extra
<1> QED BY <1>1, SessionInvariant, PTL

(* The table is the list that the interface promises, through transactions, *)
(* failed statements, crashes and a clearing by another thread: a summary   *)
(* takes the place of the older half in one step, or of nothing.            *)
THEOREM StoreIsList == Spec => ImplementsMemoryStore
<1>1. Init => Abstract!Init
  BY EmptyTable DEF Init, StoreInit, Abstract!Init
<1>2. SessionInv /\ [Next]_vars => [Abstract!Next]_(Listed(rows))
  <2> SUFFICES ASSUME SessionInv, [Next]_vars
               PROVE  Abstract!Next \/ Listed(rows)' = Listed(rows)
    OBVIOUS
  <2>1. StoreInv /\ LoopInv /\ CountInv /\ TxnInv
    BY DEF SessionInv
  <2>2. CASE AppendStep
    <3>1. Head(todo) \in Entries /\ Listed(rows)' = Append(Listed(rows), Head(todo))
      BY <2>1, <2>2, AppendStepIs
    <3> QED BY <3>1 DEF Abstract!Next, Abstract!AppendEntry
  <2>3. CASE SummarizeCommit
    <3>1. /\ Half \in 1 .. Count /\ Half = Count \div 2 /\ Count \in Nat
          /\ Listed(rows)' = SummarizedList(Listed(rows), Count \div 2)
      BY <2>1, <2>3, CommitIs DEF SummarizeCommit
    <3>2. Len(Listed(rows)) = Count
      BY <2>1, RowsListed
    <3>3. 0 < Count \div 2 /\ Count \div 2 <= Count /\ 0 + 1 = 1
      BY <3>1
    <3>4. Abstract!Summarize(0, Count \div 2, SummaryEntry)
      BY <3>1, <3>2, <3>3 DEF Abstract!Summarize, SummarizedList
    <3> QED BY <3>2, <3>4, SessionEntries DEF Abstract!Next
  <2>4. CASE ClearDatabase
    <3>1. Listed(rows)' = <<>>
      BY <2>4, EmptyTable DEF ClearDatabase, Clear
    <3> QED BY <3>1 DEF Abstract!Next, Abstract!Clear
  <2>5. CASE UNCHANGED rows
    BY <2>5 DEF Listed, IdsOf, EntryAt
  <2> QED BY <2>2, <2>3, <2>4, <2>5, TableSteps
<1> QED BY <1>1, <1>2, SessionInvariant, PTL DEF ImplementsMemoryStore, Abstract!Spec, Spec

-----------------------------------------------------------------------------
(* What the policy decides.  A priority order of the rules in which the     *)
(* rule `first' comes before those of its own priority.                     *)
Priority(i) == rules[i].priority

Preferring(first) ==
  {pair \in (1 .. Len(rules)) \X (1 .. Len(rules)) :
     \/ Priority(pair[1]) < Priority(pair[2])
     \/ /\ Priority(pair[1]) = Priority(pair[2])
        /\ pair[2] # first /\ (pair[1] = first \/ pair[1] < pair[2])}

LEMMA PrioritiesAreNumbers ==
  ASSUME PolicyInv
  PROVE  /\ Len(rules) \in Nat /\ DOMAIN rules = 1 .. Len(rules)
         /\ \A i \in 1 .. Len(rules) : Priority(i) \in Int
<1>1. rules \in Seq([priority : Int, action_pattern : STRING, required_capability : STRING,
                     outcome : {"allow", "deny", "require_approval"}])
  BY PolicyAssumption DEF PolicyInv, PolicyAssumption
<1>2. Len(rules) \in Nat /\ DOMAIN rules = 1 .. Len(rules)
  BY <1>1, LenProperties
<1>3. ASSUME NEW i \in 1 .. Len(rules) PROVE Priority(i) \in Int
  <2>1. rules[i] \in [priority : Int, action_pattern : STRING, required_capability : STRING,
                     outcome : {"allow", "deny", "require_approval"}]
    BY <1>1, ElementOfSeq
  <2> QED BY <2>1 DEF Priority
<1> QED BY <1>2, <1>3

LEMMA PreferringIsOrder ==
  ASSUME PolicyInv, NEW first
  PROVE  IsOrder(Preferring(first), 1 .. Len(rules))
<1> DEFINE n == Len(rules)
<1>1. n \in Nat /\ \A i \in 1 .. n : Priority(i) \in Int
  BY PrioritiesAreNumbers
<1>2. ASSUME NEW x \in 1 .. n, NEW y \in 1 .. n
      PROVE  <<x, y>> \in Preferring(first) <=>
               \/ Priority(x) < Priority(y)
               \/ Priority(x) = Priority(y) /\ y # first /\ (x = first \/ x < y)
  BY DEF Preferring
<1>3. \A x \in 1 .. n : <<x, x>> \notin Preferring(first)
  BY <1>1, <1>2
<1>4. \A x, y \in 1 .. n : x # y => \/ <<x, y>> \in Preferring(first)
                                    \/ <<y, x>> \in Preferring(first)
  BY <1>1, <1>2
<1>5. ASSUME NEW x \in 1 .. n, NEW y \in 1 .. n, NEW z \in 1 .. n,
             <<x, y>> \in Preferring(first), <<y, z>> \in Preferring(first)
      PROVE  <<x, z>> \in Preferring(first)
  <2>1. Priority(x) \in Int /\ Priority(y) \in Int /\ Priority(z) \in Int
    BY <1>1
  <2>2. Priority(x) <= Priority(y) /\ Priority(y) <= Priority(z)
    BY <1>2, <1>5, <2>1
  <2>3. CASE Priority(x) = Priority(z)
    BY <1>2, <1>5, <2>1, <2>2, <2>3
  <2>4. CASE Priority(x) # Priority(z)
    BY <1>2, <2>1, <2>2, <2>4
  <2> QED BY <2>3, <2>4
<1> QED BY <1>3, <1>4, <1>5 DEF IsOrder

LEMMA IntervalIsFinite ==
  ASSUME NEW n \in Nat
  PROVE  IsFiniteSet(1 .. n) /\ Cardinality(1 .. n) = n
<1>1. 1 \in Int /\ n \in Int
  OBVIOUS
<1>2. IsFiniteSet(1 .. n) /\ Cardinality(1 .. n) = (IF 1 > n THEN 0 ELSE n - 1 + 1)
  BY <1>1, FS_Interval
<1> QED BY <1>2

(* A sorted order leaves no rule out.                                       *)
LEMMA PermutesAll ==
  ASSUME NEW n \in Nat, NEW p \in [1 .. n -> 1 .. n],
         \A i, j \in 1 .. n : p[i] = p[j] => i = j, NEW x \in 1 .. n
  PROVE  \E k \in 1 .. n : p[k] = x
<1> SUFFICES ASSUME \A k \in 1 .. n : p[k] # x PROVE FALSE
  OBVIOUS
<1> DEFINE T == (1 .. n) \ {x}
<1>1. IsFiniteSet(T) /\ Cardinality(T) < Cardinality(1 .. n) /\ IsFiniteSet(1 .. n)
  <2>1. IsFiniteSet(T) /\ Cardinality(T) = n - 1
    BY IntervalIsFinite, FS_RemoveElement
  <2> QED BY <2>1, IntervalIsFinite
<1>2. p \in [1 .. n -> T]
  OBVIOUS
<1>3. PICK i \in 1 .. n, j \in 1 .. n : i # j /\ p[i] = p[j]
  <2> HIDE DEF T
  <2> QED BY <1>1, <1>2, FS_PigeonHole
<1> QED BY <1>3

Matching(action) == {i \in 1 .. Len(rules) : Matches(rules[i], action)}

Decisive(action) ==
  {i \in Matching(action) : \A j \in Matching(action) : Priority(i) <= Priority(j)}

LEMMA SortedIs ==
  ASSUME PolicyInv, NEW p \in Sorted
  PROVE  /\ p \in [1 .. Len(rules) -> 1 .. Len(rules)]
         /\ \A i, j \in 1 .. Len(rules) : p[i] = p[j] => i = j
         /\ \A i, j \in 1 .. Len(rules) : i < j => Priority(p[i]) <= Priority(p[j])
BY DEF Sorted, InOrder, LowestFirst, Priority

(* The first of a sorted order that matches.                                *)
LEMMA FirstMatchIs ==
  ASSUME PolicyInv, NEW action, NEW p \in Sorted
  PROVE  /\ Matching(action) = {} => FirstMatch(p, action) = "deny"
         /\ Matching(action) # {} =>
              \E m \in 1 .. Len(rules) :
                /\ p[m] \in Matching(action) /\ FirstMatch(p, action) = rules[p[m]].outcome
                /\ \A k \in 1 .. Len(rules) : p[k] \in Matching(action) => m <= k
<1> DEFINE n == Len(rules)
           places == {i \in DOMAIN p : Matches(rules[p[i]], action)}
<1>1. n \in Nat
  BY PrioritiesAreNumbers
<1>2. p \in [1 .. n -> 1 .. n] /\ \A i, j \in 1 .. n : p[i] = p[j] => i = j
  BY SortedIs
<1>3. \A k \in 1 .. n : k \in places <=> p[k] \in Matching(action)
  BY <1>2 DEF Matching
<1>4. places \in SUBSET (1 .. n)
  BY <1>2
<1>5. FirstMatch(p, action) = IF places = {} THEN "deny"
                              ELSE rules[p[CHOOSE i \in places : \A j \in places : i <= j]].outcome
  BY DEF FirstMatch
<1> HIDE DEF places
<1>6. CASE Matching(action) = {}
  BY <1>3, <1>4, <1>5, <1>6
<1>7. CASE Matching(action) # {}
  <2>1. PICK x \in 1 .. n : x \in Matching(action)
    BY <1>7 DEF Matching
  <2>2. PICK k \in 1 .. n : p[k] = x
    BY <1>1, <1>2, PermutesAll
  <2>3. places # {}
    BY <1>3, <2>1, <2>2
  <2>4. \E i \in places : \A j \in places : i <= j
    <3>1. places \in SUBSET Nat
      BY <1>4
    <3> QED BY <2>3, <3>1, LeastElement
  <2>5. PICK m : /\ m = CHOOSE i \in places : \A j \in places : i <= j
                 /\ m \in places /\ \A j \in places : m <= j
    BY <2>4
  <2>6. FirstMatch(p, action) = rules[p[m]].outcome
    BY <1>5, <2>3, <2>5
  <2>7. m \in 1 .. n
    BY <1>4, <2>5
  <2> QED BY <1>3, <1>7, <2>5, <2>6, <2>7
<1> QED BY <1>6, <1>7

(* Every preference among equals is one of the orders the sort may leave.   *)
LEMMA PreferenceIsSorted ==
  ASSUME PolicyInv, NEW first
  PROVE  \E p \in Sorted : \A i, j \in 1 .. Len(rules) :
           i < j => <<p[i], p[j]>> \in Preferring(first)
<1> DEFINE n == Len(rules)
<1>1. n \in Nat /\ \A i \in 1 .. n : Priority(i) \in Int
  BY PrioritiesAreNumbers
<1>2. IsFiniteSet(1 .. n) /\ Cardinality(1 .. n) = n
  BY <1>1, IntervalIsFinite
<1>3. PICK p : Sorts(p, Preferring(first), 1 .. n)
  BY <1>2, PreferringIsOrder, Sortable
<1>4. /\ p \in [1 .. n -> 1 .. n]
      /\ \A i, j \in 1 .. n : i < j => <<p[i], p[j]>> \in Preferring(first)
      /\ \A i, j \in 1 .. n : p[i] = p[j] => i = j
  BY <1>2, <1>3 DEF Sorts
<1>5. ASSUME NEW i \in 1 .. n, NEW j \in 1 .. n, i < j
      PROVE  InOrder(rules[p[i]], rules[p[j]])
  <2>1. <<p[i], p[j]>> \in Preferring(first)
    BY <1>4, <1>5
  <2>2. Priority(p[i]) <= Priority(p[j])
    BY <1>1, <1>4, <2>1 DEF Preferring
  <2> QED BY <2>2 DEF InOrder, LowestFirst, Priority
<1>6. p \in Sorted
  BY <1>4, <1>5 DEF Sorted
<1> QED BY <1>4, <1>6

(* A tool call is decided by a matching rule of the lowest priority number, *)
(* any of them as std::sort may place it, and denied when none matches:     *)
(* whatever the rules of the configuration and the capabilities are.        *)
THEOREM HighestPriorityRules == Spec => []HighestPriorityDecides
<1>1. ASSUME PolicyInv, NEW action
      PROVE  EvaluateRules(action) = IF Matching(action) = {} THEN {"deny"}
                                     ELSE {rules[i].outcome : i \in Decisive(action)}
  <2> DEFINE n == Len(rules)
  <2>1. n \in Nat /\ \A i \in 1 .. n : Priority(i) \in Int
    BY <1>1, PrioritiesAreNumbers
  <2>2. CASE Matching(action) = {}
    <3>1. Sorted # {}
      BY <1>1, PreferenceIsSorted
    <3>2. \A p \in Sorted : FirstMatch(p, action) = "deny"
      BY <1>1, <2>2, FirstMatchIs
    <3> QED BY <2>2, <3>1, <3>2 DEF EvaluateRules
  <2>3. CASE Matching(action) # {}
    <3>1. ASSUME NEW p \in Sorted
          PROVE  \E i \in Decisive(action) : FirstMatch(p, action) = rules[i].outcome
      <4>1. /\ p \in [1 .. n -> 1 .. n] /\ \A i, j \in 1 .. n : p[i] = p[j] => i = j
            /\ \A i, j \in 1 .. n : i < j => Priority(p[i]) <= Priority(p[j])
        BY <1>1, SortedIs
      <4>2. PICK m \in 1 .. n :
              /\ p[m] \in Matching(action) /\ FirstMatch(p, action) = rules[p[m]].outcome
              /\ \A k \in 1 .. n : p[k] \in Matching(action) => m <= k
        BY <1>1, <2>3, FirstMatchIs
      <4>3. ASSUME NEW j \in Matching(action) PROVE Priority(p[m]) <= Priority(j)
        <5>1. j \in 1 .. n
          BY DEF Matching
        <5>2. PICK k \in 1 .. n : p[k] = j
          BY <2>1, <4>1, <5>1, PermutesAll
        <5>3. m = k \/ m < k
          BY <4>2, <5>2
        <5>4. m = k => Priority(p[m]) <= Priority(p[k])
          BY <2>1, <4>1
        <5> QED BY <4>1, <5>2, <5>3, <5>4
      <4> QED BY <4>2, <4>3 DEF Decisive
    <3>2. ASSUME NEW i \in Decisive(action)
          PROVE  \E p \in Sorted : FirstMatch(p, action) = rules[i].outcome
      <4>1. PICK p \in Sorted : \A k, j \in 1 .. n : k < j => <<p[k], p[j]>> \in Preferring(i)
        BY <1>1, PreferenceIsSorted
      <4>2. /\ p \in [1 .. n -> 1 .. n] /\ \A k, j \in 1 .. n : p[k] = p[j] => k = j
        BY <1>1, SortedIs
      <4>3. PICK m \in 1 .. n :
              /\ p[m] \in Matching(action) /\ FirstMatch(p, action) = rules[p[m]].outcome
              /\ \A k \in 1 .. n : p[k] \in Matching(action) => m <= k
        BY <1>1, <2>3, FirstMatchIs
      <4>4. i \in Matching(action) /\ i \in 1 .. n /\ Priority(i) <= Priority(p[m])
        BY <4>3 DEF Decisive, Matching
      <4>5. PICK k \in 1 .. n : p[k] = i
        BY <2>1, <4>2, <4>4, PermutesAll
      <4>6. ~(m < k)
        <5>1. ASSUME m < k PROVE FALSE
          <6>1. <<p[m], i>> \in Preferring(i)
            BY <4>1, <4>5, <5>1
          <6>2. Priority(p[m]) < Priority(i)
            BY <6>1 DEF Preferring
          <6>3. Priority(p[m]) \in Int /\ Priority(i) \in Int
            BY <2>1, <4>2, <4>4
          <6> QED BY <4>4, <6>2, <6>3
        <5> QED BY <5>1
      <4>7. m = k
        BY <4>3, <4>4, <4>5, <4>6
      <4> QED BY <4>3, <4>5, <4>7
    <3> QED BY <2>3, <3>1, <3>2 DEF EvaluateRules
  <2> QED BY <2>2, <2>3
<1>2. ASSUME PolicyInv PROVE HighestPriorityDecides
  <2>1. DOMAIN rules = 1 .. Len(rules)
    BY <1>2, PrioritiesAreNumbers
  <2> QED BY <1>1, <1>2, <2>1 DEF HighestPriorityDecides, Matching, Decisive, Priority
<1>3. SessionInv => HighestPriorityDecides
  BY <1>2 DEF SessionInv
<1> QED BY <1>3, SessionInvariant, PTL

-----------------------------------------------------------------------------
(* What a prompt is made of: a set of places of the list that was fetched,  *)
(* and their tokens.  First, the tokens of a set of places.                 *)
Adding(all, S) == [arg \in (1 .. Len(all)) \X Nat |->
                     arg[2] + IF arg[1] \in S THEN all[arg[1]].tokens ELSE 0]

Sums(f, all, S) ==
  f = [k \in 0 .. Len(all) |->
         IF k = 0 THEN 0 ELSE f[k - 1] + IF k \in S THEN all[k].tokens ELSE 0]

Total(all, S) == LET sum[k \in 0 .. Len(all)] ==
                       IF k = 0 THEN 0 ELSE sum[k - 1] + IF k \in S THEN all[k].tokens ELSE 0
                 IN sum[Len(all)]

LEMMA EntriesHaveTokens ==
  ASSUME NEW all \in Seq(MemoryEntries)
  PROVE  /\ Len(all) \in Nat /\ DOMAIN all = 1 .. Len(all)
         /\ \A k \in 1 .. Len(all) : all[k] \in MemoryEntries /\ all[k].tokens \in Nat
<1>1. ASSUME NEW k \in 1 .. Len(all) PROVE all[k] \in MemoryEntries
  BY ElementOfSeq
<1> QED BY <1>1, LenProperties DEF MemoryEntries

(* The function the total is read from, and that it is one of numbers.      *)
LEMMA TotalIs ==
  ASSUME NEW all \in Seq(MemoryEntries), NEW S
  PROVE  \E f \in [0 .. Len(all) -> Nat] : Sums(f, all, S) /\ Total(all, S) = f[Len(all)]
<1> DEFINE n == Len(all)
           sum[k \in 0 .. n] ==
             IF k = 0 THEN 0 ELSE sum[k - 1] + IF k \in S THEN all[k].tokens ELSE 0
<1>1. n \in Nat /\ \A k \in 1 .. n : all[k].tokens \in Nat
  BY EntriesHaveTokens
<1>2. Total(all, S) = sum[n]
  BY DEF Total
<1>3. \E f : Sums(f, all, S)
  <2>1. Adding(all, S) \in [(1 .. n) \X Nat -> Nat]
    BY <1>1 DEF Adding
  <2>2. PICK f \in [0 .. n -> Nat] : Recursively(f, 0, Adding(all, S), n)
    BY <1>1, <2>1, RecursionExists
  <2>3. ASSUME NEW k \in 0 .. n
        PROVE  f[k] = IF k = 0 THEN 0 ELSE f[k - 1] + IF k \in S THEN all[k].tokens ELSE 0
    <3>1. f[k] = IF k = 0 THEN 0 ELSE Adding(all, S)[<<k, f[k - 1]>>]
      BY <2>2 DEF Recursively
    <3>2. k # 0 => <<k, f[k - 1]>> \in (1 .. n) \X Nat
      BY <1>1
    <3> QED BY <3>1, <3>2 DEF Adding
  <2> QED BY <2>2, <2>3 DEF Sums
<1>4. Sums(sum, all, S)
  BY <1>3 DEF Sums
<1> HIDE DEF sum
<1>5. ASSUME NEW k \in 0 .. n
      PROVE  sum[k] = IF k = 0 THEN 0 ELSE sum[k - 1] + IF k \in S THEN all[k].tokens ELSE 0
  BY <1>4 DEF Sums
<1>6. \A k \in 0 .. n : <<k, sum[k]>> \in (0 .. n) \X Nat
  <2>1. <<0, sum[0]>> \in (0 .. n) \X Nat
    BY <1>1, <1>5
  <2>2. ASSUME NEW k \in 1 .. n, <<k - 1, sum[k - 1]>> \in (0 .. n) \X Nat
        PROVE  <<k, sum[k]>> \in (0 .. n) \X Nat
    <3>1. sum[k - 1] \in Nat /\ k \in 0 .. n /\ k # 0
      BY <2>2
    <3> QED BY <1>1, <1>5, <3>1
  <2> QED BY <1>1, <2>1, <2>2, RecursionKeeps
<1>7. sum \in [0 .. n -> Nat]
  <2>1. sum = [k \in 0 .. n |-> IF k = 0 THEN 0
                                ELSE sum[k - 1] + IF k \in S THEN all[k].tokens ELSE 0]
    BY <1>4 DEF Sums
  <2>2. \A k \in 0 .. n : sum[k] \in Nat
    BY <1>6
  <2> QED BY <2>1, <2>2
<1> QED BY <1>2, <1>4, <1>7

LEMMA SumsAt ==
  ASSUME NEW all, NEW S, NEW f, Sums(f, all, S), NEW k \in 0 .. Len(all)
  PROVE  f[k] = IF k = 0 THEN 0 ELSE f[k - 1] + IF k \in S THEN all[k].tokens ELSE 0
BY DEF Sums

LEMMA TotalOfNone ==
  ASSUME NEW all \in Seq(MemoryEntries)
  PROVE  Total(all, {}) = 0
<1>1. PICK f \in [0 .. Len(all) -> Nat] : Sums(f, all, {}) /\ Total(all, {}) = f[Len(all)]
  BY TotalIs
<1>2. Len(all) \in Nat
  BY EntriesHaveTokens
<1>3. \A k \in 0 .. Len(all) : <<k, f[k]>> \in (0 .. Len(all)) \X {0}
  <2>1. <<0, f[0]>> \in (0 .. Len(all)) \X {0}
    BY <1>1, <1>2, SumsAt
  <2>2. ASSUME NEW k \in 1 .. Len(all), <<k - 1, f[k - 1]>> \in (0 .. Len(all)) \X {0}
        PROVE  <<k, f[k]>> \in (0 .. Len(all)) \X {0}
    <3>1. f[k - 1] = 0 /\ k \in 0 .. Len(all) /\ k # 0
      BY <2>2
    <3>2. f[k] = f[k - 1] + 0
      BY <1>1, <3>1, SumsAt
    <3> QED BY <3>1, <3>2
  <2> QED BY <1>2, <2>1, <2>2, RecursionKeeps
<1> QED BY <1>1, <1>2, <1>3

(* One more place adds its own tokens.                                      *)
LEMMA TotalOfOneMore ==
  ASSUME NEW all \in Seq(MemoryEntries), NEW S, NEW e \in 1 .. Len(all), e \notin S
  PROVE  /\ Total(all, S) \in Nat
         /\ Total(all, S \cup {e}) = Total(all, S) + all[e].tokens
<1> DEFINE n == Len(all)
           S1 == S \cup {e}
           I == {x \in (0 .. n) \X (Nat \X Nat) :
                   x[2][2] = x[2][1] + IF e <= x[1] THEN all[e].tokens ELSE 0}
<1>1. PICK f \in [0 .. n -> Nat] : Sums(f, all, S) /\ Total(all, S) = f[n]
  BY TotalIs
<1>2. PICK g \in [0 .. n -> Nat] : Sums(g, all, S1) /\ Total(all, S1) = g[n]
  BY TotalIs
<1>3. n \in Nat /\ \A k \in 1 .. n : all[k].tokens \in Nat
  BY EntriesHaveTokens
<1> DEFINE both == [k \in 0 .. n |-> <<f[k], g[k]>>]
<1>4. \A k \in 0 .. n : <<k, both[k]>> \in I
  <2>1. <<0, both[0]>> \in I
    <3>1. f[0] = 0 /\ g[0] = 0
      BY <1>1, <1>2, <1>3, SumsAt
    <3> QED BY <1>3, <3>1
  <2>2. ASSUME NEW k \in 1 .. n, <<k - 1, both[k - 1]>> \in I
        PROVE  <<k, both[k]>> \in I
    <3>1. k \in 0 .. n /\ k # 0 /\ k - 1 \in 0 .. n
      BY <1>3
    <3>2. g[k - 1] = f[k - 1] + IF e <= k - 1 THEN all[e].tokens ELSE 0
      BY <2>2, <3>1
    <3>3. f[k] = f[k - 1] + IF k \in S THEN all[k].tokens ELSE 0
      BY <1>1, <3>1, SumsAt
    <3>4. g[k] = g[k - 1] + IF k \in S1 THEN all[k].tokens ELSE 0
      BY <1>2, <3>1, SumsAt
    <3>5. f[k] \in Nat /\ g[k] \in Nat /\ f[k - 1] \in Nat /\ g[k - 1] \in Nat
          /\ all[k].tokens \in Nat /\ all[e].tokens \in Nat
      BY <1>3, <3>1
    <3>6. g[k] = f[k] + IF e <= k THEN all[e].tokens ELSE 0
      <4>1. CASE k = e
        BY <1>3, <3>2, <3>3, <3>4, <3>5, <4>1
      <4>2. CASE k # e
        <5>1. k \in S1 <=> k \in S
          BY <4>2
        <5>2. e <= k <=> e <= k - 1
          BY <4>2
        <5> QED BY <3>2, <3>3, <3>4, <3>5, <5>1, <5>2
      <4> QED BY <4>1, <4>2
    <3> QED BY <3>1, <3>5, <3>6
  <2> HIDE DEF I, both
  <2> QED BY <1>3, <2>1, <2>2, RecursionKeeps
<1>5. n \in 0 .. n /\ e <= n
  BY <1>3
<1>6. <<n, both[n]>> \in I
  BY <1>4, <1>5
<1>7. g[n] = f[n] + all[e].tokens
  BY <1>5, <1>6
<1>8. f[n] \in Nat
  BY <1>5
<1> QED BY <1>1, <1>2, <1>7, <1>8

(* One place less takes its tokens out again.                               *)
LEMMA TotalOfOneLess ==
  ASSUME NEW all \in Seq(MemoryEntries), NEW S, NEW e \in 1 .. Len(all), e \in S
  PROVE  /\ Total(all, S \ {e}) \in Nat
         /\ Total(all, S \ {e}) = Total(all, S) - all[e].tokens
<1>1. (S \ {e}) \cup {e} = S
  OBVIOUS
<1>2. /\ Total(all, S \ {e}) \in Nat
      /\ Total(all, (S \ {e}) \cup {e}) = Total(all, S \ {e}) + all[e].tokens
  BY TotalOfOneMore
<1>3. all[e].tokens \in Nat
  BY EntriesHaveTokens
<1>4. Total(all, S) = Total(all, S \ {e}) + all[e].tokens
  BY <1>1, <1>2, Zenon
<1> QED BY <1>2, <1>3, <1>4

-----------------------------------------------------------------------------
(* A selection whose estimate is the tokens of what it has and within the   *)
(* budget.                                                                  *)
Selections(all) == [in : SUBSET (1 .. Len(all)), tokens : Nat]

Counted(s, all, budget) ==
  s \in Selections(all) /\ s.tokens = Total(all, s.in) /\ s.tokens <= budget

LEMMA IncludingKeeps ==
  ASSUME NEW all \in Seq(MemoryEntries), NEW budget \in Nat, NEW s, Counted(s, all, budget),
         NEW e \in 1 .. Len(all), e \notin s.in, s.tokens + all[e].tokens <= budget
  PROVE  Counted(Including(s, all, e), all, budget) /\ Including(s, all, e).in = s.in \cup {e}
<1> DEFINE t == Including(s, all, e)
<1>1. t.in = s.in \cup {e} /\ t.tokens = s.tokens + all[e].tokens
  BY DEF Including
<1>2. all[e].tokens \in Nat /\ s.tokens \in Nat /\ s.in \in SUBSET (1 .. Len(all))
  BY EntriesHaveTokens DEF Counted, Selections
<1>3. Total(all, t.in) = t.tokens
  <2>1. Total(all, s.in \cup {e}) = Total(all, s.in) + all[e].tokens
    BY TotalOfOneMore
  <2> QED BY <1>1, <2>1, Zenon DEF Counted
<1>4. t \in Selections(all)
  BY <1>1, <1>2 DEF Including, Selections
<1> QED BY <1>1, <1>3, <1>4, Zenon DEF Counted

LEMMA ExcludingKeeps ==
  ASSUME NEW all \in Seq(MemoryEntries), NEW budget \in Nat, NEW s, Counted(s, all, budget),
         NEW e \in 1 .. Len(all), e \in s.in
  PROVE  Counted(Excluding(s, all, e), all, budget) /\ Excluding(s, all, e).in = s.in \ {e}
<1> DEFINE t == Excluding(s, all, e)
<1>1. t.in = s.in \ {e} /\ t.tokens = s.tokens - all[e].tokens
  BY DEF Excluding
<1>2. all[e].tokens \in Nat /\ s.tokens \in Nat /\ s.in \in SUBSET (1 .. Len(all))
  BY EntriesHaveTokens DEF Counted, Selections
<1>3. Total(all, t.in) = t.tokens /\ t.tokens \in Nat
  <2>1. /\ Total(all, s.in \ {e}) = Total(all, s.in) - all[e].tokens
        /\ Total(all, s.in \ {e}) \in Nat
    BY TotalOfOneLess
  <2> QED BY <1>1, <2>1, Zenon DEF Counted
<1>4. t \in Selections(all)
  BY <1>1, <1>2, <1>3 DEF Excluding, Selections
<1>5. t.tokens <= budget
  <2>1. s.tokens <= budget
    BY DEF Counted
  <2> QED BY <1>1, <1>2, <2>1
<1> QED BY <1>1, <1>3, <1>4, <1>5, Zenon DEF Counted

(* The greedy choice, from the newest place to the oldest.                  *)
Chosen(s, all, budget, e) ==
  IF s.tokens + all[e].tokens <= budget THEN Including(s, all, e) ELSE s

Choosing(all, budget) ==
  [arg \in (1 .. Len(all)) \X Selections(all) |->
     Chosen(arg[2], all, budget, Len(all) - arg[1] + 1)]

Chooses(f, all, budget) ==
  f = [i \in 0 .. Len(all) |-> IF i = 0 THEN [in |-> {}, tokens |-> 0]
                               ELSE Chosen(f[i - 1], all, budget, Len(all) - i + 1)]

LEMMA FittingIsCounted ==
  ASSUME NEW all \in Seq(MemoryEntries), NEW budget \in Nat
  PROVE  Counted(Fitting(all, budget), all, budget)
<1> DEFINE n == Len(all)
           take[i \in 0 .. n] ==
             IF i = 0 THEN [in |-> {}, tokens |-> 0]
             ELSE LET s == take[i - 1]
                      k == n - i + 1
                  IN IF s.tokens + all[k].tokens <= budget THEN Including(s, all, k) ELSE s
           Nothing == [in |-> {}, tokens |-> 0]
<1>1. n \in Nat /\ \A k \in 1 .. n : all[k].tokens \in Nat
  BY EntriesHaveTokens
<1>2. Fitting(all, budget) = take[n]
  BY DEF Fitting
<1>3. Nothing \in Selections(all) /\ Nothing.in = {} /\ Nothing.tokens = 0
  BY DEF Selections
<1> HIDE DEF Nothing
<1>4. \E f : Chooses(f, all, budget)
  <2>1. ASSUME NEW arg \in (1 .. n) \X Selections(all)
        PROVE  Chosen(arg[2], all, budget, n - arg[1] + 1) \in Selections(all)
    <3>1. n - arg[1] + 1 \in 1 .. n /\ arg[2] \in Selections(all)
      BY <1>1
    <3>2. PICK e \in 1 .. n : e = n - arg[1] + 1
      BY <3>1
    <3>3. PICK s \in Selections(all) : s = arg[2]
      BY <3>1
    <3>4. Chosen(s, all, budget, e) \in Selections(all)
      BY <1>1 DEF Chosen, Including, Selections
    <3> QED BY <3>2, <3>3, <3>4
  <2>2. Choosing(all, budget) \in [(1 .. n) \X Selections(all) -> Selections(all)]
    BY <2>1 DEF Choosing
  <2>3. PICK f \in [0 .. n -> Selections(all)] : Recursively(f, Nothing, Choosing(all, budget), n)
    BY <1>1, <1>3, <2>2, RecursionExists
  <2>4. ASSUME NEW i \in 0 .. n
        PROVE  f[i] = IF i = 0 THEN Nothing ELSE Chosen(f[i - 1], all, budget, n - i + 1)
    <3>1. f[i] = IF i = 0 THEN Nothing ELSE Choosing(all, budget)[<<i, f[i - 1]>>]
      BY <2>3 DEF Recursively
    <3>2. i # 0 => <<i, f[i - 1]>> \in (1 .. n) \X Selections(all)
      BY <1>1
    <3> QED BY <3>1, <3>2 DEF Choosing
  <2>5. f = [i \in 0 .. n |-> IF i = 0 THEN Nothing
                              ELSE Chosen(f[i - 1], all, budget, n - i + 1)]
    BY <2>4
  <2> QED BY <2>5 DEF Chooses, Nothing
<1>5. Chooses(take, all, budget)
  BY <1>4 DEF Chooses, Chosen
<1> HIDE DEF take
<1>6. ASSUME NEW i \in 0 .. n
      PROVE  take[i] = IF i = 0 THEN Nothing ELSE Chosen(take[i - 1], all, budget, n - i + 1)
  BY <1>5 DEF Chooses, Nothing
<1> DEFINE I == {x \in (0 .. n) \X Selections(all) :
                   /\ Counted(x[2], all, budget) /\ \A k \in x[2].in : k > n - x[1]}
<1>7. \A i \in 0 .. n : <<i, take[i]>> \in I
  <2>1. <<0, take[0]>> \in I
    <3>1. take[0] = Nothing
      BY <1>1, <1>6
    <3>2. Total(all, {}) = 0
      BY TotalOfNone
    <3>3. Counted(Nothing, all, budget)
      BY <1>3, <3>2 DEF Counted
    <3> QED BY <1>1, <1>3, <3>1, <3>3
  <2>2. ASSUME NEW i \in 1 .. n, <<i - 1, take[i - 1]>> \in I
        PROVE  <<i, take[i]>> \in I
    <3>1. PICK s \in Selections(all) : s = take[i - 1]
      BY <2>2
    <3>2. Counted(s, all, budget) /\ \A k \in s.in : k > n - (i - 1)
      BY <2>2, <3>1
    <3>3. PICK e \in 1 .. n : e = n - i + 1
      <4>1. n - i + 1 \in 1 .. n
        BY <1>1
      <4> QED BY <4>1
    <3>4. i \in 0 .. n /\ i # 0
      BY <1>1
    <3>5. take[i] = Chosen(s, all, budget, e)
      BY <1>6, <3>1, <3>3, <3>4
    <3>6. \A k \in s.in : k \in 1 .. n /\ k > n - i
      <4>1. \A k \in s.in : k \in 1 .. n
        BY DEF Selections
      <4> QED BY <1>1, <3>2, <4>1
    <3>7. e \notin s.in /\ e > n - i
      BY <1>1, <3>2, <3>3
    <3>8. CASE s.tokens + all[e].tokens <= budget
      <4>1. PICK t : t = Including(s, all, e)
        OBVIOUS
      <4>2. Counted(t, all, budget) /\ t.in = s.in \cup {e}
        BY <3>2, <3>7, <3>8, <4>1, IncludingKeeps
      <4>3. take[i] = t /\ t \in Selections(all)
        BY <3>5, <3>8, <4>1, <4>2 DEF Chosen, Counted
      <4>4. \A k \in t.in : k > n - i
        BY <3>6, <3>7, <4>2
      <4> QED BY <3>4, <4>2, <4>3, <4>4
    <3>9. CASE ~(s.tokens + all[e].tokens <= budget)
      <4>1. take[i] = s
        BY <3>5, <3>9 DEF Chosen
      <4> QED BY <3>2, <3>4, <3>6, <4>1
    <3> QED BY <3>8, <3>9
  <2> HIDE DEF I
  <2> QED BY <1>1, <2>1, <2>2, RecursionKeeps
<1>8. n \in 0 .. n
  BY <1>1
<1>9. <<n, take[n]>> \in I
  BY <1>7, <1>8
<1> QED BY <1>2, <1>9

-----------------------------------------------------------------------------
(* The other half of a tool cycle is another place of the list.             *)
LEMMA PartnerIs ==
  ASSUME NEW all \in Seq(MemoryEntries), NEW k \in 1 .. Len(all), Partner(all, k) # 0
  PROVE  /\ Partner(all, k) \in 1 .. Len(all) /\ Partner(all, k) # k
         /\ all[Partner(all, k)].tool_call_id = all[k].tool_call_id
         /\ \/ all[k].type = "tool_result" /\ all[Partner(all, k)].type = "tool_call"
            \/ all[k].type = "tool_call" /\ all[Partner(all, k)].type = "tool_result"
<1> DEFINE n == Len(all)
           before == {j \in 1 .. k - 1 : /\ all[j].type = "tool_call"
                                         /\ all[j].tool_call_id = all[k].tool_call_id}
           after == {j \in k + 1 .. n : /\ all[k].type = "tool_call"
                                        /\ all[j].type = "tool_result"
                                        /\ all[j].tool_call_id = all[k].tool_call_id}
<1>1. n \in Nat
  BY EntriesHaveTokens
<1>2. CASE all[k].type = "tool_result"
  <2>1. Partner(all, k) = IF before = {} THEN 0
                          ELSE CHOOSE j \in before : \A i \in before : i <= j
    BY <1>2 DEF Partner
  <2>2. before \in SUBSET (1 .. n) /\ k \notin before
    BY <1>1
  <2>3. before # {}
    BY <2>1
  <2>4. \E j \in before : \A i \in before : i <= j
    <3> HIDE DEF before
    <3> QED BY <1>1, <2>2, <2>3, GreatestElement
  <2>5. Partner(all, k) \in before
    <3> HIDE DEF before
    <3> QED BY <2>1, <2>3, <2>4
  <2> QED BY <1>2, <2>2, <2>5
<1>3. CASE all[k].type # "tool_result"
  <2>1. Partner(all, k) = IF after = {} THEN 0
                          ELSE CHOOSE j \in after : \A i \in after : j <= i
    BY <1>3 DEF Partner
  <2>2. after \in SUBSET (1 .. n) /\ after \in SUBSET Nat /\ k \notin after
    BY <1>1
  <2>3. after # {}
    BY <2>1
  <2>4. \E j \in after : \A i \in after : j <= i
    <3> HIDE DEF after
    <3> QED BY <2>2, <2>3, LeastElement
  <2>5. Partner(all, k) \in after
    <3> HIDE DEF after
    <3> QED BY <2>1, <2>3, <2>4
  <2> QED BY <1>3, <2>2, <2>5
<1> QED BY <1>2, <1>3

(* A step of the pairing leaves the selection as it is, brings in the       *)
(* partner of a place it has, or drops that place.                          *)
Moves(old, new, p, k) ==
  IF k \notin old \/ p = 0 \/ p \in old THEN new = old
  ELSE new = old \cup {p} \/ new = old \ {k}

LEMMA PairedIs ==
  ASSUME NEW all \in Seq(MemoryEntries), NEW budget \in Nat, NEW s, Counted(s, all, budget),
         NEW k \in 1 .. Len(all)
  PROVE  /\ Counted(Paired(s, all, budget, k), all, budget)
         /\ Moves(s.in, Paired(s, all, budget, k).in, Partner(all, k), k)
<1> DEFINE p == Partner(all, k)
           t == Paired(s, all, budget, k)
<1>1. t = IF k \notin s.in \/ p = 0 \/ p \in s.in THEN s
          ELSE IF s.tokens + all[p].tokens <= budget THEN Including(s, all, p)
          ELSE Excluding(s, all, k)
  BY DEF Paired, PairOrDrop
<1>2. p # 0 => p \in 1 .. Len(all)
  BY PartnerIs
<1> HIDE DEF p, t
<1>3. CASE k \notin s.in \/ p = 0 \/ p \in s.in
  BY <1>1, <1>3 DEF p, t, Moves
<1>4. CASE ~(k \notin s.in \/ p = 0 \/ p \in s.in) /\ s.tokens + all[p].tokens <= budget
  <2>1. t = Including(s, all, p) /\ p \in 1 .. Len(all)
    BY <1>1, <1>2, <1>4
  <2>2. Counted(t, all, budget) /\ t.in = s.in \cup {p}
    BY <1>4, <2>1, IncludingKeeps
  <2> QED BY <1>4, <2>2 DEF p, t, Moves
<1>5. CASE ~(k \notin s.in \/ p = 0 \/ p \in s.in) /\ ~(s.tokens + all[p].tokens <= budget)
  <2>1. t = Excluding(s, all, k) /\ k \in s.in
    BY <1>1, <1>5
  <2>2. Counted(t, all, budget) /\ t.in = s.in \ {k}
    BY <2>1, ExcludingKeeps
  <2> QED BY <1>5, <2>2 DEF p, t, Moves
<1> QED BY <1>3, <1>4, <1>5

Within(all, budget) == {s \in Selections(all) : Counted(s, all, budget)}

Pairing(all, budget) ==
  [arg \in (1 .. Len(all)) \X Within(all, budget) |-> Paired(arg[2], all, budget, arg[1])]

Pairs(f, all, budget) ==
  f = [k \in 0 .. Len(all) |-> IF k = 0 THEN Fitting(all, budget)
                               ELSE Paired(f[k - 1], all, budget, k)]

(* The selection of a prompt is the last of a row that begins with the      *)
(* greedy choice and goes on by steps of the pairing.                       *)
LEMMA ContextIs ==
  ASSUME NEW all \in Seq(MemoryEntries), NEW budget \in Nat
  PROVE  \E f : /\ BuildContext(all, budget) = f[Len(all)]
                /\ f[0] = Fitting(all, budget)
                /\ \A k \in 1 .. Len(all) : f[k] = Paired(f[k - 1], all, budget, k)
<1> DEFINE n == Len(all)
           pass[k \in 0 .. n] ==
             IF k = 0 THEN Fitting(all, budget) ELSE Paired(pass[k - 1], all, budget, k)
<1>1. n \in Nat
  BY EntriesHaveTokens
<1>2. BuildContext(all, budget) = pass[n]
  BY DEF BuildContext
<1>3. \E f : Pairs(f, all, budget)
  <2>1. ASSUME NEW arg \in (1 .. n) \X Within(all, budget)
        PROVE  Paired(arg[2], all, budget, arg[1]) \in Within(all, budget)
    <3>1. PICK k \in 1 .. n, s \in Within(all, budget) : arg[1] = k /\ arg[2] = s
      OBVIOUS
    <3>2. Counted(s, all, budget)
      BY DEF Within
    <3>3. Counted(Paired(s, all, budget, k), all, budget)
      BY <3>2, PairedIs
    <3> QED BY <3>1, <3>3 DEF Within, Counted
  <2>2. Pairing(all, budget) \in [(1 .. n) \X Within(all, budget) -> Within(all, budget)]
    BY <2>1 DEF Pairing
  <2>3. Fitting(all, budget) \in Within(all, budget)
    BY FittingIsCounted DEF Within, Counted
  <2>4. PICK f \in [0 .. n -> Within(all, budget)] :
          Recursively(f, Fitting(all, budget), Pairing(all, budget), n)
    BY <1>1, <2>2, <2>3, RecursionExists
  <2>5. ASSUME NEW k \in 0 .. n
        PROVE  f[k] = IF k = 0 THEN Fitting(all, budget) ELSE Paired(f[k - 1], all, budget, k)
    <3>1. f[k] = IF k = 0 THEN Fitting(all, budget) ELSE Pairing(all, budget)[<<k, f[k - 1]>>]
      BY <2>4 DEF Recursively
    <3>2. k # 0 => <<k, f[k - 1]>> \in (1 .. n) \X Within(all, budget)
      BY <1>1
    <3> QED BY <3>1, <3>2 DEF Pairing
  <2> QED BY <2>4, <2>5 DEF Pairs
<1>4. Pairs(pass, all, budget)
  BY <1>3 DEF Pairs
<1> HIDE DEF pass
<1>5. ASSUME NEW k \in 0 .. n
      PROVE  pass[k] = IF k = 0 THEN Fitting(all, budget)
                       ELSE Paired(pass[k - 1], all, budget, k)
  BY <1>4 DEF Pairs
<1>6. pass[0] = Fitting(all, budget)
  BY <1>1, <1>5
<1>7. ASSUME NEW k \in 1 .. n PROVE pass[k] = Paired(pass[k - 1], all, budget, k)
  <2>1. k \in 0 .. n /\ k # 0
    BY <1>1
  <2> QED BY <1>5, <2>1
<1> QED BY <1>2, <1>6, <1>7

LEMMA ContextIsCounted ==
  ASSUME NEW all \in Seq(MemoryEntries), NEW budget \in Nat
  PROVE  Counted(BuildContext(all, budget), all, budget)
<1> DEFINE n == Len(all)
           I == {x \in (0 .. n) \X Selections(all) : Counted(x[2], all, budget)}
<1>1. n \in Nat
  BY EntriesHaveTokens
<1>2. PICK f : /\ BuildContext(all, budget) = f[n] /\ f[0] = Fitting(all, budget)
               /\ \A k \in 1 .. n : f[k] = Paired(f[k - 1], all, budget, k)
  BY ContextIs
<1>3. <<0, f[0]>> \in I
  BY <1>1, <1>2, FittingIsCounted DEF Counted
<1>4. ASSUME NEW k \in 1 .. n, <<k - 1, f[k - 1]>> \in I PROVE <<k, f[k]>> \in I
  <2>1. Counted(f[k - 1], all, budget)
    BY <1>4
  <2>2. Counted(f[k], all, budget)
    BY <1>2, <2>1, PairedIs
  <2>3. k \in 0 .. n
    BY <1>1
  <2> QED BY <2>2, <2>3 DEF Counted
<1>5. \A k \in 0 .. n : <<k, f[k]>> \in I
  <2> HIDE DEF I
  <2> QED BY <1>1, <1>3, <1>4, RecursionKeeps
<1>6. n \in 0 .. n
  BY <1>1
<1> QED BY <1>2, <1>5, <1>6

LEMMA FetchedEntries ==
  ASSUME StoreInv
  PROVE  Fetched \in Seq(MemoryEntries)
<1>1. Listed(rows) \in Seq(Entries)
  BY RowsListed
<1>2. Entries \subseteq MemoryEntries /\ FetchLimit \in Nat
  BY SessionAssumption DEF SessionAssumption
<1>3. PICK list \in Seq(MemoryEntries) : list = Listed(rows)
  BY <1>1, <1>2
<1>4. PICK n \in Nat : n = Len(list)
  OBVIOUS
<1>5. CASE FetchLimit >= n
  BY <1>3, <1>4, <1>5 DEF Fetched, GetAll, Abstract!GetRecent
<1>6. CASE ~(FetchLimit >= n)
  <2>1. n - FetchLimit + 1 \in Int /\ n \in Int /\ n - FetchLimit + 1 >= 1
    BY <1>2, <1>6
  <2>2. SubSeq(list, n - FetchLimit + 1, n) \in Seq(MemoryEntries)
    <3>1. \A i \in n - FetchLimit + 1 .. n : list[i] \in MemoryEntries
      BY <1>2, <1>4, <2>1, ElementOfSeq
    <3> QED BY <2>1, <3>1, SubSeqProperties
  <2>3. Fetched = SubSeq(list, n - FetchLimit + 1, n)
    BY <1>3, <1>4, <1>6 DEF Fetched, GetAll, Abstract!GetRecent
  <2> QED BY <2>2, <2>3
<1> QED BY <1>5, <1>6

(* However long the history and whatever its entries, the prompt is within  *)
(* the limit of tokens, or the instruction and the observation alone are    *)
(* beyond it and nothing else is in it; and the estimate that goes with it  *)
(* is the sum of its entries.                                               *)
THEOREM PromptWithinBudget == Spec => []WindowWithinBudget
<1>1. ASSUME StoreInv, NEW prompt \in Prompts
      PROVE  LET s == Selected(prompt)
             IN /\ s.tokens = Total(Fetched, s.in)
                /\ Fixed(prompt) + s.tokens <= MaxContextTokens \/ s.tokens = 0
  <2>1. /\ MaxContextTokens \in Nat /\ prompt.system \in Nat /\ prompt.observation \in Nat
    BY SessionAssumption DEF SessionAssumption
  <2>2. PICK b \in Nat : /\ b = RemainingBudget(MaxContextTokens, prompt)
                         /\ Fixed(prompt) + b <= MaxContextTokens \/ b = 0
    BY <2>1 DEF RemainingBudget, Fixed
  <2>3. PICK s : s = Selected(prompt) /\ Counted(s, Fetched, b)
    BY <1>1, <2>2, FetchedEntries, ContextIsCounted DEF Selected
  <2>4. s.tokens = Total(Fetched, s.in) /\ s.tokens <= b /\ s.tokens \in Nat
    BY <2>3 DEF Counted, Selections
  <2>5. PICK t \in Nat : t = s.tokens
    BY <2>4
  <2>6. Fixed(prompt) + t <= MaxContextTokens \/ t = 0
    BY <2>1, <2>2, <2>4, <2>5 DEF Fixed
  <2> QED BY <2>3, <2>4, <2>5, <2>6
<1>2. StoreInv => WindowWithinBudget
  BY <1>1 DEF WindowWithinBudget, Total
<1>3. SessionInv => WindowWithinBudget
  BY <1>2 DEF SessionInv
<1> QED BY <1>3, SessionInvariant, PTL

(* A call and a result that no other entry has the id of.                   *)
Lone(all, call, result) ==
  /\ all[call].type = "tool_call" /\ all[result].type = "tool_result"
  /\ all[result].tool_call_id = all[call].tool_call_id
  /\ \A k \in 1 .. Len(all) :
       all[k].tool_call_id = all[call].tool_call_id =>
         /\ all[k].type = "tool_call" => k = call
         /\ all[k].type = "tool_result" => k = result

LEMMA LonePartners ==
  ASSUME NEW all \in Seq(MemoryEntries), NEW call \in 1 .. Len(all), NEW result \in 1 .. Len(all),
         call < result, Lone(all, call, result)
  PROVE  /\ Partner(all, call) = result /\ Partner(all, result) = call
         /\ \A k \in 1 .. Len(all) :
              k \notin {call, result} => Partner(all, k) \notin {call, result}
<1> DEFINE n == Len(all)
<1>1. n \in Nat
  BY EntriesHaveTokens
<1>2. Partner(all, call) = result
  <2> DEFINE after == {j \in call + 1 .. n : /\ all[call].type = "tool_call"
                                             /\ all[j].type = "tool_result"
                                             /\ all[j].tool_call_id = all[call].tool_call_id}
  <2>1. after = {result}
    BY <1>1 DEF Lone
  <2>2. Partner(all, call) = IF after = {} THEN 0
                             ELSE CHOOSE j \in after : \A i \in after : j <= i
    BY DEF Partner, Lone
  <2>3. Partner(all, call) = CHOOSE j \in {result} : \A i \in {result} : j <= i
    <3> HIDE DEF after
    <3> QED BY <2>1, <2>2
  <2>4. \E j \in {result} : \A i \in {result} : j <= i
    BY <1>1
  <2> QED BY <2>3, <2>4
<1>3. Partner(all, result) = call
  <2> DEFINE before == {j \in 1 .. result - 1 : /\ all[j].type = "tool_call"
                                                /\ all[j].tool_call_id = all[result].tool_call_id}
  <2>1. before = {call}
    BY <1>1 DEF Lone
  <2>2. Partner(all, result) = IF before = {} THEN 0
                               ELSE CHOOSE j \in before : \A i \in before : i <= j
    BY DEF Partner, Lone
  <2>3. Partner(all, result) = CHOOSE j \in {call} : \A i \in {call} : i <= j
    <3> HIDE DEF before
    <3> QED BY <2>1, <2>2
  <2>4. \E j \in {call} : \A i \in {call} : i <= j
    BY <1>1
  <2> QED BY <2>3, <2>4
<1>4. ASSUME NEW k \in 1 .. n, k \notin {call, result}, Partner(all, k) \in {call, result}
      PROVE  FALSE
  <2>1. Partner(all, k) # 0
    BY <1>1, <1>4
  <2>2. /\ all[Partner(all, k)].tool_call_id = all[k].tool_call_id
        /\ \/ all[k].type = "tool_result" /\ all[Partner(all, k)].type = "tool_call"
           \/ all[k].type = "tool_call" /\ all[Partner(all, k)].type = "tool_result"
    BY <2>1, PartnerIs
  <2>3. all[k].tool_call_id = all[call].tool_call_id
    BY <1>4, <2>2 DEF Lone
  <2> QED BY <1>4, <2>2, <2>3 DEF Lone
<1> QED BY <1>2, <1>3, <1>4

(* Once the pairing has come to both of them they are in or out together.   *)
Joined(s, k, call, result) ==
  /\ call <= k => (call \in s.in => result \in s.in)
  /\ result <= k => (result \in s.in => call \in s.in)

LEMMA JoinedKept ==
  ASSUME NEW all \in Seq(MemoryEntries), NEW budget \in Nat,
         NEW call \in 1 .. Len(all), NEW result \in 1 .. Len(all),
         call < result, Lone(all, call, result),
         NEW k \in 1 .. Len(all), NEW s, Counted(s, all, budget), Joined(s, k - 1, call, result)
  PROVE  Joined(Paired(s, all, budget, k), k, call, result)
<1> DEFINE p == Partner(all, k)
           t == Paired(s, all, budget, k)
<1>1. Moves(s.in, t.in, p, k)
  BY PairedIs
<1>2. /\ Partner(all, call) = result /\ Partner(all, result) = call
      /\ k \notin {call, result} => p \notin {call, result}
  BY LonePartners
<1> HIDE DEF p, t
<1>3. CASE k = call
  <2>1. p = result /\ result # 0
    BY <1>2, <1>3 DEF p
  <2>2. call \in t.in => result \in t.in
    BY <1>1, <1>3, <2>1 DEF Moves
  <2>3. ~(result <= k)
    BY <1>3
  <2> QED BY <2>2, <2>3 DEF Joined, t
<1>4. CASE k = result
  <2>1. p = call /\ call # 0
    BY <1>2, <1>4 DEF p
  <2>2. call \in s.in => result \in s.in
    <3>1. call <= k - 1
      BY <1>4
    <3> QED BY <3>1 DEF Joined
  <2>3. call \in t.in <=> result \in t.in
    BY <1>1, <1>4, <2>1, <2>2 DEF Moves
  <2> QED BY <2>3 DEF Joined, t
<1>5. CASE k \notin {call, result}
  <2>1. /\ call \in t.in <=> call \in s.in
        /\ result \in t.in <=> result \in s.in
    BY <1>1, <1>2, <1>5 DEF Moves
  <2>2. (call <= k => call <= k - 1) /\ (result <= k => result <= k - 1)
    BY <1>5
  <2> QED BY <2>1, <2>2 DEF Joined, t
<1> QED BY <1>3, <1>4, <1>5

LEMMA LoneAreTogether ==
  ASSUME NEW all \in Seq(MemoryEntries), NEW budget \in Nat,
         NEW call \in 1 .. Len(all), NEW result \in 1 .. Len(all),
         call < result, Lone(all, call, result)
  PROVE  call \in BuildContext(all, budget).in <=> result \in BuildContext(all, budget).in
<1> DEFINE n == Len(all)
           I == {x \in (0 .. n) \X Selections(all) :
                   Counted(x[2], all, budget) /\ Joined(x[2], x[1], call, result)}
<1>1. n \in Nat /\ n \in 0 .. n
  BY EntriesHaveTokens
<1>2. PICK f : /\ BuildContext(all, budget) = f[n] /\ f[0] = Fitting(all, budget)
               /\ \A k \in 1 .. n : f[k] = Paired(f[k - 1], all, budget, k)
  BY ContextIs
<1>3. <<0, f[0]>> \in I
  <2>1. Joined(f[0], 0, call, result)
    BY DEF Joined
  <2>2. Counted(f[0], all, budget)
    BY <1>2, FittingIsCounted
  <2> QED BY <1>1, <2>1, <2>2 DEF Counted
<1>4. ASSUME NEW k \in 1 .. n, <<k - 1, f[k - 1]>> \in I PROVE <<k, f[k]>> \in I
  <2>1. Counted(f[k - 1], all, budget) /\ Joined(f[k - 1], k - 1, call, result)
    BY <1>4
  <2>2. Counted(f[k], all, budget)
    BY <1>2, <2>1, PairedIs
  <2>3. Joined(f[k], k, call, result)
    BY <1>2, <2>1, JoinedKept
  <2>4. k \in 0 .. n
    BY <1>1
  <2> QED BY <2>2, <2>3, <2>4 DEF Counted
<1>5. \A k \in 0 .. n : <<k, f[k]>> \in I
  <2> HIDE DEF I
  <2> QED BY <1>1, <1>3, <1>4, RecursionKeeps
<1>6. Joined(f[n], n, call, result)
  BY <1>1, <1>5
<1>7. call <= n /\ result <= n
  BY <1>1
<1> QED BY <1>2, <1>6, <1>7 DEF Joined

(* In no prompt, of whatever history and budget, is a lone tool call without *)
(* its one result, or the result without the call, when both were fetched.  *)
THEOREM PairsStayTogether == Spec => []PairsTogether
<1>1. ASSUME StoreInv PROVE PairsTogether
  <2>1. Fetched \in Seq(MemoryEntries)
    BY <1>1, FetchedEntries
  <2>2. PICK all \in Seq(MemoryEntries) : all = Fetched
    BY <2>1
  <2>3. DOMAIN all = 1 .. Len(all) /\ Len(all) \in Nat
    BY EntriesHaveTokens
  <2> DEFINE OfCall(kind, id) == {k \in DOMAIN all : all[k].type = kind /\ all[k].tool_call_id = id}
  <2>4. ASSUME NEW prompt \in Prompts, NEW call \in DOMAIN all, NEW result \in DOMAIN all,
               call < result,
               OfCall("tool_call", all[call].tool_call_id) = {call},
               OfCall("tool_result", all[call].tool_call_id) = {result}
        PROVE  call \in Selected(prompt).in <=> result \in Selected(prompt).in
    <3>1. MaxContextTokens \in Nat /\ prompt.system \in Nat /\ prompt.observation \in Nat
      BY SessionAssumption DEF SessionAssumption
    <3>2. PICK b \in Nat : b = RemainingBudget(MaxContextTokens, prompt)
      BY <3>1 DEF RemainingBudget, Fixed
    <3>3. Lone(all, call, result)
      BY <2>3, <2>4 DEF Lone
    <3>4. call \in BuildContext(all, b).in <=> result \in BuildContext(all, b).in
      BY <2>3, <2>4, <3>3, LoneAreTogether
    <3> QED BY <2>2, <3>2, <3>4 DEF Selected
  <2> QED BY <2>2, <2>4 DEF PairsTogether
<1>2. SessionInv => PairsTogether
  BY <1>1 DEF SessionInv
<1> QED BY <1>2, SessionInvariant, PTL
=============================================================================
