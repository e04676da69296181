----------------------- MODULE LocalVectorStoreProofs -----------------------
(***************************************************************************)
(* Proofs about LocalVectorStore, for any record ids, batch ids and bound: *)
(* type correctness, the safety properties the runs check, and that the    *)
(* store implements VectorInventory.                                       *)
(*                                                                         *)
(* The properties speak of the time between two operations.  The inductive *)
(* invariant IInv follows a writer from step to step: what it computed     *)
(* (Computed), which of the files hold it by now (Written), and what the   *)
(* files and the computed result owe to the manifest (Accounts), to the    *)
(* summary (Counts) and to the history (Covers).                           *)
(***************************************************************************)
EXTENDS LocalVectorStore, TLAPS

-----------------------------------------------------------------------------
(* The inductive invariant.                                                *)

Busy == job.pc # "idle"
Upserting == Busy /\ job.op = "upsert"

\* A writer has one of the two operations, and only an upsert copies.
WellFormed ==
  /\ Busy => job.op \in {"upsert", "rollback"} /\ job.batch \in Batches
  /\ job.pc = "copied" => job.op = "upsert"

\* Until it opens records.jsonl, the writer's result is that of its operation
\* on the records as they are.
Computed ==
  job.pc = "begun" =>
    job.target = IF job.op = "upsert"
                 THEN MergeRecords(records, job.batch, job.ids)
                 ELSE RemoveBatch(records, job.batch)

\* Which of the two shared files hold the writer's result.
Written ==
  /\ job.pc = "filling" => \E k \in Ids \cup {0} : records = Prefix(job.target, k)
  /\ job.pc \in {"records", "counting", "manifest", "copied"} => records = job.target
  /\ job.pc \in {"begun", "filling", "records"} => manifest.file # "torn"
  /\ job.pc = "counting" => manifest.file = "torn"
  /\ job.pc \in {"manifest", "copied"} => manifest.batches = job.batches
  /\ Busy /\ job.pc # "filling" => ~torn

Accounted(r, owners) == \A i \in Ids : r[i] \in {None} \cup crashed \cup owners

\* Every record's batch is live in the manifest; so is every record's of the
\* result in the writer's list, and, but for the writer's own, in the manifest
\* it has not replaced yet.
Accounts ==
  /\ manifest.file # "torn" /\ job.pc \notin {"filling", "records"} =>
       Accounted(records, Live(manifest.batches))
  /\ Busy => Accounted(job.target, Live(job.batches))
  /\ job.pc \in {"begun", "filling", "records"} =>
       Accounted(job.target, Live(manifest.batches)
                               \cup (IF job.op = "upsert" THEN {job.batch} ELSE {}))

\* A summary that is not stale counts the records, also during an operation.
Counts ==
  /\ manifest.file = "ok" /\ ~stale => manifest.counted = records
  /\ job.pc \in {"filling", "records", "counting"} => stale

Known(r) == \A i \in Ids, b \in Batches : r[i] = b => started[b] # 0
Covered(r) ==
  \A i \in Ids, b \in Batches \ crashed :
    r[i] = b /\ started[b] = 1 /\ ~(Upserting /\ job.batch = b) =>
      i \in history[b].copies \cap history[b].upsert

\* Records have batches that were begun, and those of a batch begun once are in
\* its history, unless it is being written right now: then they are among the
\* ids that the writer is about to put there.
Covers ==
  /\ Known(records) /\ Covered(records)
  /\ Busy => Known(job.target) /\ Covered(job.target)
  /\ Upserting => started[job.batch] # 0
  /\ Upserting /\ started[job.batch] = 1 =>
       \A i \in Ids : job.target[i] = job.batch => i \in job.ids
  /\ job.pc = "copied" => history[job.batch].copies = job.ids

IInv == TypeOK /\ WellFormed /\ Computed /\ Written /\ Accounts /\ Counts /\ Covers

-----------------------------------------------------------------------------
(* Records and lists of batches.                                           *)

\* mergeRecords, the rollback's filter and a cut-short write give records.
LEMMA RecordsTyped ==
  ASSUME NEW r \in [Ids -> Owners], NEW b \in Batches, NEW S \in SUBSET Ids,
         NEW k
  PROVE  /\ MergeRecords(r, b, S) \in [Ids -> Owners]
         /\ RemoveBatch(r, b) \in [Ids -> Owners]
         /\ Prefix(r, k) \in [Ids -> Owners]
         /\ Nothing \in [Ids -> Owners]
  BY DEF MergeRecords, RemoveBatch, Prefix, Nothing, Owners

\* Appending a batch makes it live (upsertDistillationToLocalVectorStore).
LEMMA LiveAppend ==
  ASSUME NEW bs \in Seq(BatchEntries), NEW b \in Batches
  PROVE  /\ Append(bs, [id |-> b, rolledBack |-> FALSE]) \in Seq(BatchEntries)
         /\ Live(Append(bs, [id |-> b, rolledBack |-> FALSE])) = Live(bs) \cup {b}
<1> DEFINE e == [id |-> b, rolledBack |-> FALSE]
           new == Append(bs, e)
<1>1. e \in BatchEntries
  BY DEF BatchEntries
<1>2. new \in Seq(BatchEntries)
  BY <1>1
<1>3. /\ DOMAIN new = 1..(Len(bs) + 1) /\ DOMAIN bs = 1..Len(bs)
      /\ \A n \in 1..Len(bs) : new[n] = bs[n]
      /\ new[Len(bs) + 1] = e
      /\ Len(bs) \in Nat
  BY <1>1
<1>4. Live(new) \subseteq Live(bs) \cup {b}
  BY <1>3 DEF Live
<1>5. Live(bs) \subseteq Live(new)
  BY <1>3 DEF Live
<1>6. b \in Live(new)
  BY <1>3 DEF Live
<1> QED
  BY <1>2, <1>4, <1>5, <1>6

\* Marking a batch leaves the other batches live (rollbackLocalVectorStoreBatch).
LEMMA LiveRolledBack ==
  ASSUME NEW bs \in Seq(BatchEntries), NEW b \in Batches
  PROVE  /\ MarkRolledBack(bs, b) \in Seq(BatchEntries)
         /\ Live(MarkRolledBack(bs, b)) = Live(bs) \ {b}
<1> DEFINE new == MarkRolledBack(bs, b)
<1>1. DOMAIN bs = 1..Len(bs) /\ Len(bs) \in Nat
  OBVIOUS
<1>2. \A n \in 1..Len(bs) : bs[n] \in BatchEntries
  OBVIOUS
<1>3. new \in [1..Len(bs) -> BatchEntries]
  BY <1>1, <1>2 DEF MarkRolledBack, BatchEntries
<1>4. new \in Seq(BatchEntries)
  BY <1>1, <1>3
<1>5. /\ DOMAIN new = DOMAIN bs
      /\ \A n \in DOMAIN bs :
           new[n] = IF bs[n].id = b THEN [id |-> b, rolledBack |-> TRUE] ELSE bs[n]
  BY DEF MarkRolledBack
<1>6. Live(new) = Live(bs) \ {b}
  BY <1>5 DEF Live
<1> QED
  BY <1>4, <1>6

-----------------------------------------------------------------------------
(* Each conjunct of the invariant, step by step.                           *)

LEMMA InitHolds == Init => IInv
<1> SUFFICES ASSUME Init PROVE IInv
  OBVIOUS
<1> USE DEF Init, Idle, Nothing, Owners
<1>1. TypeOK
  <2>1. <<>> \in Seq(BatchEntries)
    OBVIOUS
  <2>2. Nothing \in [Ids -> Owners]
    OBVIOUS
  <2> QED
    BY <2>1, <2>2 DEF TypeOK
<1>2. WellFormed /\ Computed /\ Written /\ Counts
  BY DEF WellFormed, Computed, Written, Counts, Busy
<1>3. Accounts
  BY DEF Accounts, Accounted, Busy
<1>4. Covers
  BY StoreAssumption DEF Covers, Known, Covered, Busy, Upserting
<1> QED
  BY <1>1, <1>2, <1>3, <1>4 DEF IInv

LEMMA TypeStep == IInv /\ Next => TypeOK'
<1> SUFFICES ASSUME IInv, Next PROVE TypeOK'
  OBVIOUS
<1>1. TypeOK /\ WellFormed
  BY DEF IInv
<1> USE <1>1 DEF TypeOK, WellFormed, Busy
<1>2. ASSUME NEW b \in Batches, NEW S \in SUBSET Ids, BeginUpsert(b, S)
      PROVE  TypeOK'
  <2>1. MergeRecords(records, b, S) \in [Ids -> Owners]
    BY RecordsTyped
  <2>2. Append(manifest.batches, [id |-> b, rolledBack |-> FALSE]) \in Seq(BatchEntries)
    BY LiveAppend
  <2>3. started' \in [Batches -> Nat]
    BY <1>2 DEF BeginUpsert
  <2> QED
    BY <1>2, <2>1, <2>2, <2>3 DEF BeginUpsert, Begin, store, Owners
<1>3. ASSUME NEW b \in Batches, BeginRollback(b)
      PROVE  TypeOK'
  <2>1. RemoveBatch(records, b) \in [Ids -> Owners]
    BY RecordsTyped
  <2>2. MarkRolledBack(manifest.batches, b) \in Seq(BatchEntries)
    BY LiveRolledBack
  <2> QED
    BY <1>3, <2>1, <2>2 DEF BeginRollback, Begin, store, ghosts, Owners
<1>4. CASE OpenRecords
  <2>1. \A k : Prefix(job.target, k) \in [Ids -> Owners]
    BY DEF Prefix, Owners
  <2>2. records' \in [Ids -> Owners]
    BY <1>4, <2>1 DEF OpenRecords
  <2>3. torn' \in BOOLEAN /\ stale' \in BOOLEAN
    BY <1>4 DEF OpenRecords
  <2>4. UNCHANGED <<manifest, history, started, crashed>>
    BY <1>4 DEF OpenRecords
  <2>5. job' = [job EXCEPT !.pc = "filling"]
    BY <1>4 DEF OpenRecords, Moves
  <2> QED
    BY <2>2, <2>3, <2>4, <2>5
<1>5. CASE FillRecords
  BY <1>5 DEF FillRecords, Moves, ghosts
<1>6. CASE OpenManifest
  <2>1. Nothing \in [Ids -> Owners] /\ <<>> \in Seq(BatchEntries)
    BY DEF Nothing, Owners
  <2> QED
    BY <1>6, <2>1 DEF OpenManifest, Moves, ghosts
<1>7. CASE FillManifest
  BY <1>7 DEF FillManifest, Moves
<1>8. CASE CopyRecords
  BY <1>8 DEF CopyRecords, Moves, ghosts
<1>9. CASE FinishUpsert \/ FinishRollback \/ Crash
  <2>1. job' = Idle
    BY <1>9 DEF FinishUpsert, FinishRollback, Crash
  <2>2. /\ Nothing \in [Ids -> Owners] /\ <<>> \in Seq(BatchEntries)
        /\ None \in Owners
    BY DEF Nothing, Owners
  <2>3. history' \in [Batches -> [copies : SUBSET Ids, upsert : SUBSET Ids,
                                  rollback : BOOLEAN]]
    <3>1. CASE FinishUpsert
      BY <3>1 DEF FinishUpsert
    <3>2. CASE FinishRollback
      BY <3>2 DEF FinishRollback
    <3>3. CASE Crash
      BY <3>3 DEF Crash, store
    <3> QED
      BY <1>9, <3>1, <3>2, <3>3
  <2>4. crashed' \subseteq Batches
    BY <1>9 DEF FinishUpsert, FinishRollback, Crash, ghosts
  <2> QED
    BY <1>9, <2>1, <2>2, <2>3, <2>4
    DEF FinishUpsert, FinishRollback, Crash, Idle, store, ghosts
<1> QED
  BY <1>2, <1>3, <1>4, <1>5, <1>6, <1>7, <1>8, <1>9 DEF Next

LEMMA WrittenStep == IInv /\ Next => (WellFormed /\ Computed /\ Written)'
<1> SUFFICES ASSUME IInv, Next PROVE (WellFormed /\ Computed /\ Written)'
  OBVIOUS
<1>1. TypeOK /\ WellFormed /\ Computed /\ Written
  BY DEF IInv
<1> USE <1>1 DEF TypeOK, WellFormed, Computed, Written, Busy
<1>2. ASSUME NEW b \in Batches, NEW S \in SUBSET Ids, BeginUpsert(b, S)
      PROVE  (WellFormed /\ Computed /\ Written)'
  BY <1>2 DEF BeginUpsert, Begin, store, Readable, MergeRecords
<1>3. ASSUME NEW b \in Batches, BeginRollback(b)
      PROVE  (WellFormed /\ Computed /\ Written)'
  BY <1>3 DEF BeginRollback, Begin, store, Readable, RemoveBatch
<1>4. CASE OpenRecords
  BY <1>4 DEF OpenRecords, Moves, Prefix
<1>5. CASE FillRecords
  BY <1>5 DEF FillRecords, Moves
<1>6. CASE OpenManifest
  BY <1>6 DEF OpenManifest, Moves
<1>7. CASE FillManifest
  BY <1>7 DEF FillManifest, Moves
<1>8. CASE CopyRecords
  BY <1>8 DEF CopyRecords, Moves
<1>9. CASE FinishUpsert \/ FinishRollback \/ Crash
  BY <1>9 DEF FinishUpsert, FinishRollback, Crash, Idle
<1> QED
  BY <1>2, <1>3, <1>4, <1>5, <1>6, <1>7, <1>8, <1>9 DEF Next

LEMMA CountsStep == IInv /\ Next => Counts'
<1> SUFFICES ASSUME IInv, Next PROVE Counts'
  OBVIOUS
<1>1. TypeOK /\ Written /\ Counts
  BY DEF IInv
<1> USE <1>1 DEF TypeOK, Written, Counts
<1>2. ASSUME NEW b \in Batches, NEW S \in SUBSET Ids, BeginUpsert(b, S)
      PROVE  Counts'
  BY <1>2 DEF BeginUpsert, Begin, store
<1>3. ASSUME NEW b \in Batches, BeginRollback(b)
      PROVE  Counts'
  BY <1>3 DEF BeginRollback, Begin, store, ghosts
<1>4. CASE OpenRecords
  BY <1>4 DEF OpenRecords, Moves
<1>5. CASE FillRecords
  BY <1>5 DEF FillRecords, Moves, ghosts
<1>6. CASE OpenManifest
  BY <1>6 DEF OpenManifest, Moves, ghosts
<1>7. CASE FillManifest
  BY <1>7 DEF FillManifest, Moves
<1>8. CASE CopyRecords
  BY <1>8 DEF CopyRecords, Moves, ghosts
<1>9. CASE FinishUpsert \/ FinishRollback \/ Crash
  BY <1>9 DEF FinishUpsert, FinishRollback, Crash, Idle, store, ghosts
<1> QED
  BY <1>2, <1>3, <1>4, <1>5, <1>6, <1>7, <1>8, <1>9 DEF Next

LEMMA AccountsStep == IInv /\ Next => Accounts'
<1> SUFFICES ASSUME IInv, Next PROVE Accounts'
  OBVIOUS
<1>1. TypeOK /\ WellFormed /\ Computed /\ Written /\ Accounts
  BY DEF IInv
<1> USE <1>1, StoreAssumption DEF Accounts, Accounted, Busy
<1>2. ASSUME NEW b \in Batches, NEW S \in SUBSET Ids, BeginUpsert(b, S)
      PROVE  Accounts'
  <2>1. Live(Append(manifest.batches, [id |-> b, rolledBack |-> FALSE]))
          = Live(manifest.batches) \cup {b}
    BY LiveAppend DEF TypeOK
  <2>2. \A i \in Ids : job'.target[i] \in {records[i], b}
    BY <1>2 DEF BeginUpsert, Begin, MergeRecords
  <2>3. Accounted(records, Live(manifest.batches))
    BY <1>2 DEF BeginUpsert, Begin, Readable
  <2> QED
    BY <1>2, <2>1, <2>2, <2>3 DEF BeginUpsert, Begin, store
<1>3. ASSUME NEW b \in Batches, BeginRollback(b)
      PROVE  Accounts'
  <2>1. Live(MarkRolledBack(manifest.batches, b)) = Live(manifest.batches) \ {b}
    BY LiveRolledBack DEF TypeOK
  <2>2. \A i \in Ids : /\ job'.target[i] \in {records[i], None}
                       /\ job'.target[i] # b
    BY <1>3 DEF BeginRollback, Begin, RemoveBatch
  <2>3. Accounted(records, Live(manifest.batches))
    BY <1>3 DEF BeginRollback, Begin, Readable
  <2> QED
    BY <1>3, <2>1, <2>2, <2>3 DEF BeginRollback, Begin, store, ghosts
<1>4. CASE OpenRecords
  BY <1>4 DEF OpenRecords, Moves, TypeOK
<1>5. CASE FillRecords
  BY <1>5 DEF FillRecords, Moves, ghosts, TypeOK
<1>6. CASE OpenManifest
  BY <1>6 DEF OpenManifest, Moves, ghosts, TypeOK
<1>7. CASE FillManifest
  BY <1>7 DEF FillManifest, Moves, Written, TypeOK
<1>8. CASE CopyRecords
  BY <1>8 DEF CopyRecords, Moves, ghosts, TypeOK
<1>9. CASE FinishUpsert \/ FinishRollback
  BY <1>9 DEF FinishUpsert, FinishRollback, Idle, ghosts
<1>10. CASE Crash
  <2>1. CASE job.pc \in {"filling", "records"}
    <3>1. \A i \in Ids : records[i] \in {job.target[i], None}
      BY <2>1 DEF Written, Prefix
    <3> QED
      BY <1>10, <2>1, <3>1 DEF Crash, Idle, store, WellFormed
  <2>2. CASE job.pc \notin {"filling", "records"}
    BY <1>10, <2>2 DEF Crash, Idle, store, WellFormed
  <2> QED
    BY <2>1, <2>2
<1> QED
  BY <1>2, <1>3, <1>4, <1>5, <1>6, <1>7, <1>8, <1>9, <1>10 DEF Next

LEMMA CoversStep == IInv /\ Next => Covers'
<1> SUFFICES ASSUME IInv, Next PROVE Covers'
  OBVIOUS
<1>1. TypeOK /\ WellFormed /\ Computed /\ Written /\ Covers
  BY DEF IInv
<1> USE <1>1, StoreAssumption DEF Covers, Known, Covered, Upserting, Busy
<1>2. ASSUME NEW b \in Batches, NEW S \in SUBSET Ids, BeginUpsert(b, S)
      PROVE  Covers'
  <2>1. /\ started' = [started EXCEPT ![b] = started[b] + 1]
        /\ UNCHANGED <<records, history, crashed>>
        /\ ~Busy /\ job'.pc = "begun" /\ job'.op = "upsert" /\ job'.batch = b
        /\ job'.ids = S /\ job'.target = MergeRecords(records, b, S)
    BY <1>2 DEF BeginUpsert, Begin, store
  <2>2. /\ started \in [Batches -> Nat]
        /\ started'[b] = started[b] + 1
        /\ \A c \in Batches \ {b} : started'[c] = started[c]
    BY <2>1 DEF TypeOK
  <2>3. \A c \in Batches : started[c] # 0 => started'[c] # 0
    BY <2>2
  <2>4. \A i \in Ids : job'.target[i] = IF i \in S THEN b ELSE records[i]
    BY <2>1 DEF MergeRecords
  <2>5. Known(records)' /\ Known(job.target)' /\ started'[b] # 0
    BY <2>1, <2>2, <2>3, <2>4
  <2>6. Covered(records)' /\ Covered(job.target)'
    BY <2>1, <2>2, <2>4
  <2>7. started'[b] = 1 => \A i \in Ids : job'.target[i] = b => i \in S
    BY <2>2, <2>4
  <2> QED
    BY <2>1, <2>5, <2>6, <2>7
<1>3. ASSUME NEW b \in Batches, BeginRollback(b)
      PROVE  Covers'
  <2>1. \A i \in Ids : job'.target[i] \in {records[i], None}
    BY <1>3 DEF BeginRollback, Begin, RemoveBatch
  <2> QED
    BY <1>3, <2>1 DEF BeginRollback, Begin, store, ghosts
<1>4. CASE OpenRecords
  <2>1. \A i \in Ids : records'[i] \in {job.target[i], None}
    BY <1>4 DEF OpenRecords, Prefix
  <2>2. /\ Busy /\ job'.pc = "filling"
        /\ job'.op = job.op /\ job'.batch = job.batch /\ job'.ids = job.ids
        /\ job'.target = job.target
        /\ UNCHANGED <<history, started, crashed>>
    BY <1>4 DEF OpenRecords, Moves, TypeOK
  <2>3. Known(job.target)' /\ Covered(job.target)'
    BY <2>2
  <2>4. Known(records)' /\ Covered(records)'
    BY <2>1, <2>2
  <2> QED
    BY <2>2, <2>3, <2>4
<1>5. CASE FillRecords
  BY <1>5 DEF FillRecords, Moves, ghosts, TypeOK
<1>6. CASE OpenManifest
  BY <1>6 DEF OpenManifest, Moves, ghosts, TypeOK
<1>7. CASE FillManifest
  BY <1>7 DEF FillManifest, Moves, TypeOK
<1>8. CASE CopyRecords
  <2>1. /\ \A c \in Batches \ {job.batch} : history'[c] = history[c]
        /\ history'[job.batch].copies = job.ids
    BY <1>8 DEF CopyRecords, TypeOK, WellFormed
  <2>2. job' = [job EXCEPT !.pc = "copied"] /\ Upserting
    BY <1>8 DEF CopyRecords, Moves
  <2> QED
    BY <1>8, <2>1, <2>2 DEF CopyRecords, ghosts, TypeOK
<1>9. CASE FinishUpsert
  <2>1. /\ \A c \in Batches \ {job.batch} : history'[c] = history[c]
        /\ history'[job.batch].copies = job.ids
        /\ history'[job.batch].upsert = job.ids
    BY <1>9 DEF FinishUpsert, TypeOK, WellFormed
  <2>2. Upserting /\ records = job.target /\ job'.pc = "idle"
    BY <1>9 DEF FinishUpsert, Written, WellFormed, Idle
  <2> QED
    BY <1>9, <2>1, <2>2 DEF FinishUpsert, ghosts
<1>10. CASE FinishRollback
  <2>1. \A c \in Batches : /\ history'[c].copies = history[c].copies
                           /\ history'[c].upsert = history[c].upsert
    BY <1>10 DEF FinishRollback, TypeOK
  <2> QED
    BY <1>10, <2>1 DEF FinishRollback, Idle, ghosts
<1>11. CASE Crash
  BY <1>11 DEF Crash, Idle, store
<1> QED
  BY <1>2, <1>3, <1>4, <1>5, <1>6, <1>7, <1>8, <1>9, <1>10, <1>11 DEF Next

-----------------------------------------------------------------------------
(* The theorems.                                                           *)

\* The invariant of upsert, rollback and crash, whatever the ids, the batches
\* and the number of upserts.
THEOREM Invariance == Spec => []IInv
<1>1. IInv /\ [Next]_vars => IInv'
  <2>1. IInv /\ Next => IInv'
    BY TypeStep, WrittenStep, CountsStep, AccountsStep, CoversStep DEF IInv
  <2>2. IInv /\ UNCHANGED vars => IInv'
    BY DEF IInv, TypeOK, WellFormed, Computed, Written, Accounts, Accounted,
           Counts, Covers, Known, Covered, Upserting, Busy, vars, store, ghosts
  <2> QED
    BY <2>1, <2>2
<1> QED
  BY InitHolds, <1>1, PTL DEF Spec

\* Files and the writer keep their shape.
THEOREM TypeCorrect == Spec => []TypeOK
<1>1. IInv => TypeOK
  BY DEF IInv
<1> QED
  BY Invariance, <1>1, PTL

\* Between two operations, a readable manifest accounts for every record, but
\* for those of upserts that died between records.jsonl and manifest.json.
THEOREM RecordsAreAccountedFor == Spec => []RecordsAccountedFor
<1>1. IInv => RecordsAccountedFor
  BY DEF IInv, Accounts, Accounted, RecordsAccountedFor
<1> QED
  BY Invariance, <1>1, PTL

\* A summary that no death made stale counts the records of records.jsonl.
THEOREM SummaryIsRight == Spec => []SummaryCounts
<1>1. IInv => SummaryCounts
  BY DEF IInv, Counts, SummaryCounts
<1> QED
  BY Invariance, <1>1, PTL

\* The history directory of a batch with a fresh id has all its records, unless
\* the upsert died.
THEOREM HistoryIsComplete == Spec => []HistoryCovers
<1>1. IInv => HistoryCovers
  BY DEF IInv, Covers, Covered, Upserting, Busy, HistoryCovers
<1> QED
  BY Invariance, <1>1, PTL

LEMMA RefinementInit == Init => Inventory!Init
  BY DEF Init, Idle, Nothing, None, Inventory!Init

LEMMA RefinementStep == IInv /\ [Next]_vars => [Inventory!Next]_(Inventory!vars)
<1> SUFFICES ASSUME IInv, [Next]_vars PROVE [Inventory!Next]_(Inventory!vars)
  OBVIOUS
<1> DEFINE inv == IF job.pc = "filling" THEN job.target ELSE records
           rd == job.pc = "filling" \/ ~torn
<1>1. TypeOK /\ WellFormed /\ Computed /\ Written
  BY DEF IInv
<1> USE DEF Inventory!vars
<1>2. CASE OpenRecords
  <2>1. inv = records /\ inv' = job.target /\ rd /\ rd'
    BY <1>1, <1>2 DEF OpenRecords, Moves, Written, Busy, TypeOK
  <2>2. CASE job.op = "upsert"
    <3>1. Inventory!Upsert(job.batch, job.ids)
      BY <1>1, <1>2, <2>1, <2>2
      DEF OpenRecords, Computed, MergeRecords, Inventory!Upsert
    <3> QED
      BY <1>1, <1>2, <3>1
      DEF OpenRecords, WellFormed, Busy, TypeOK, Inventory!Next
  <2>3. CASE job.op = "rollback"
    <3>1. Inventory!Rollback(job.batch)
      BY <1>1, <1>2, <2>1, <2>3
      DEF OpenRecords, Computed, RemoveBatch, None, Inventory!Rollback
    <3> QED
      BY <1>1, <1>2, <3>1 DEF OpenRecords, WellFormed, Busy, Inventory!Next
  <2> QED
    BY <1>1, <1>2, <2>2, <2>3 DEF OpenRecords, WellFormed, Busy
<1>3. CASE FillRecords
  BY <1>1, <1>3 DEF FillRecords, Moves, TypeOK
<1>4. CASE Crash /\ job.pc = "filling"
  <2>1. inv = job.target /\ rd /\ inv' = records /\ rd' = ~torn
    BY <1>4 DEF Crash, Idle, store
  <2>2. PICK k \in Ids \cup {0} : records = Prefix(job.target, k)
    BY <1>1, <1>4 DEF Written
  <2>3. inv' = [i \in Ids |-> IF i <= k THEN inv[i] ELSE "null"]
    BY <2>1, <2>2 DEF Prefix, None
  <2>4. rd' \in BOOLEAN
    OBVIOUS
  <2>5. Inventory!Damage
    BY <2>1, <2>2, <2>3, <2>4, Zenon DEF Inventory!Damage
  <2> QED
    BY <2>5 DEF Inventory!Next
<1>5. CASE Crash /\ job.pc # "filling"
  BY <1>5 DEF Crash, Idle, store
<1>6. ASSUME NEW b \in Batches, NEW S \in SUBSET Ids, BeginUpsert(b, S)
      PROVE  UNCHANGED Inventory!vars
  BY <1>6 DEF BeginUpsert, Begin, store
<1>7. ASSUME NEW b \in Batches, BeginRollback(b)
      PROVE  UNCHANGED Inventory!vars
  BY <1>7 DEF BeginRollback, Begin, store
<1>8. CASE OpenManifest \/ FillManifest \/ CopyRecords
  BY <1>1, <1>8 DEF OpenManifest, FillManifest, CopyRecords, Moves, TypeOK
<1>9. CASE FinishUpsert \/ FinishRollback
  BY <1>9 DEF FinishUpsert, FinishRollback, Idle
<1>10. CASE UNCHANGED vars
  BY <1>10 DEF vars, store
<1> QED
  BY <1>2, <1>3, <1>4, <1>5, <1>6, <1>7, <1>8, <1>9, <1>10 DEF Next

\* Upserts and rollbacks take effect at once, and what a death leaves is a
\* damaged inventory, never a mixture of two operations.
THEOREM Refinement == Spec => AllOrNothing
<1> QED
  BY Invariance, RefinementInit, RefinementStep, PTL
  DEF Spec, AllOrNothing, Inventory!Spec
=============================================================================
