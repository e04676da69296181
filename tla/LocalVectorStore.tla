-------------------------- MODULE LocalVectorStore --------------------------
(***************************************************************************)
(* The file-backed vector store of scripts/lib/local-vector-store.mjs:     *)
(* records.jsonl, manifest.json and a history directory per batch, changed *)
(* by upsertDistillationToLocalVectorStore and                             *)
(* rollbackLocalVectorStoreBatch.  Each is a sequence of awaited file      *)
(* writes without a lock, a journal or a rename; fs.writeFile truncates    *)
(* its file before it fills it.  The process may die between any two       *)
(* steps.  One writer at a time (ARCHITECTURE.md, Controller Conflict      *)
(* Rule).                                                                  *)
(*                                                                         *)
(* Abstracted: what a record holds besides its id and batch_id, and the    *)
(* counts of the manifest summary, which stand for the records they were   *)
(* counted over.  A dry run, a template that fails its validation, query   *)
(* and stats write nothing.                                                *)
(***************************************************************************)
EXTENDS Naturals, Sequences, Functions

CONSTANTS Ids,          \* record ids; records.jsonl is sorted by id
          Batches,      \* batch ids: the clock, or what --now pins it to
          MaxUpserts    \* bound: upserts started, over all batches

None == "null"

ASSUME StoreAssumption ==
  Ids \subseteq Nat /\ None \notin Batches /\ MaxUpserts \in Nat

VARIABLES
  records,      \* records.jsonl: the batch_id of each record, or None
  torn,         \* records.jsonl ends in the middle of a line
  manifest,     \* manifest.json: its state, what its summary counted, batches
  history,      \* per batch: the ids in records.jsonl and upsert-manifest.json
                \*   of its directory, and whether it has a rollback.json
  job,          \* the writer: where it stands and what it computed
  \* History variables: they record what happened and guard nothing.
  started,      \* how many upserts of a batch were begun
  crashed,      \* batches one of whose upserts died half-way
  stale         \* records.jsonl was rewritten and manifest.json not yet

store == <<records, torn, manifest, history>>
ghosts == <<started, crashed, stale>>
vars == <<store, job, ghosts>>

Owners == Batches \cup {None}
Nothing == [i \in Ids |-> None]
Idle == [pc |-> "idle", op |-> "none", batch |-> None, ids |-> {},
         target |-> Nothing, batches |-> <<>>]

Init ==
  /\ records = Nothing /\ torn = FALSE
  /\ manifest = [file |-> "absent", counted |-> Nothing, batches |-> <<>>]
  /\ history = [b \in Batches |-> [copies |-> {}, upsert |-> {}, rollback |-> FALSE]]
  /\ job = Idle
  /\ started = [b \in Batches |-> 0] /\ crashed = {} /\ stale = FALSE

-----------------------------------------------------------------------------

MergeRecords(existing, b, S) == [i \in Ids |-> IF i \in S THEN b ELSE existing[i]]

RemoveBatch(existing, b) ==
  [i \in Ids |-> IF existing[i] = b THEN None ELSE existing[i]]

MarkRolledBack(batches, b) ==
  [n \in DOMAIN batches |->
     IF batches[n].id = b THEN [id |-> b, rolledBack |-> TRUE] ELSE batches[n]]

\* readJsonl and readJson throw on a file that does not parse; an absent or
\* empty records.jsonl is no records, an absent manifest no batches.
Readable == ~torn /\ manifest.file # "torn"

Moves(pc) == job' = [job EXCEPT !.pc = pc]

Begin(op, b, S, target, batches) ==
  /\ job.pc = "idle" /\ Readable
  /\ job' = [pc |-> "begun", op |-> op, batch |-> b, ids |-> S,
             target |-> target, batches |-> batches]

\* Mutant: the manifest is not told of the new batch.
BeginUpsertMutant(b, S) ==
  /\ S # {}
  /\ Begin("upsert", b, S, MergeRecords(records, b, S), manifest.batches)
  /\ started' = [started EXCEPT ![b] = @ + 1]
  /\ UNCHANGED <<store, crashed, stale>>

\* validateDistillationTemplate wants at least one learning event.
BeginUpsert(b, S) ==
  /\ S # {}
  /\ Begin("upsert", b, S, MergeRecords(records, b, S),
           Append(manifest.batches, [id |-> b, rolledBack |-> FALSE]))
  /\ started' = [started EXCEPT ![b] = @ + 1]
  /\ UNCHANGED <<store, crashed, stale>>

BeginRollback(b) ==
  /\ Begin("rollback", b, {}, RemoveBatch(records, b),
           MarkRolledBack(manifest.batches, b))
  /\ UNCHANGED <<store, ghosts>>

\* The lines of the records up to the k-th: all that is in the file so far.
Prefix(r, k) == [i \in Ids |-> IF i <= k THEN r[i] ELSE None]

\* Mutant: overwrites the lines in place, without truncating the file.
OpenRecordsMutant ==
  /\ job.pc = "begun" /\ Moves("filling")
  /\ \E k \in Ids \cup {0} :
       records' = [i \in Ids |-> IF i <= k THEN job.target[i] ELSE records[i]]
  /\ torn' \in BOOLEAN
  /\ stale' = TRUE
  /\ UNCHANGED <<manifest, history, started, crashed>>

OpenRecords ==
  /\ job.pc = "begun" /\ Moves("filling")
  /\ \E k \in Ids \cup {0} : records' = Prefix(job.target, k)
  /\ torn' \in BOOLEAN
  /\ stale' = TRUE
  /\ UNCHANGED <<manifest, history, started, crashed>>

FillRecords ==
  /\ job.pc = "filling" /\ Moves("records")
  /\ records' = job.target /\ torn' = FALSE
  /\ UNCHANGED <<manifest, history, ghosts>>

\* A manifest.json cut short, or empty, does not parse.
OpenManifest ==
  /\ job.pc = "records" /\ Moves("counting")
  /\ manifest' = [file |-> "torn", counted |-> Nothing, batches |-> <<>>]
  /\ UNCHANGED <<records, torn, history, ghosts>>

\* Mutant: the summary counts the new records only.
FillManifestMutant ==
  /\ job.pc = "counting" /\ Moves("manifest")
  /\ manifest' = [file |-> "ok", batches |-> job.batches,
                  counted |-> MergeRecords(Nothing, job.batch, job.ids)]
  /\ stale' = FALSE
  /\ UNCHANGED <<records, torn, history, started, crashed>>

FillManifest ==
  /\ job.pc = "counting" /\ Moves("manifest")
  /\ manifest' = [file |-> "ok", counted |-> job.target, batches |-> job.batches]
  /\ stale' = FALSE
  /\ UNCHANGED <<records, torn, history, started, crashed>>

\* Mutant: keeps the batch ids of the records instead of their own ids.
CopyRecordsMutant ==
  /\ job.pc = "manifest" /\ job.op = "upsert" /\ Moves("copied")
  /\ history' = [history EXCEPT ![job.batch].copies = {job.target[i] : i \in job.ids}]
  /\ UNCHANGED <<records, torn, manifest, ghosts>>

\* history/<batch>/records.jsonl
CopyRecords ==
  /\ job.pc = "manifest" /\ job.op = "upsert" /\ Moves("copied")
  /\ history' = [history EXCEPT ![job.batch].copies = job.ids]
  /\ UNCHANGED <<records, torn, manifest, ghosts>>

\* Mutant: the upsert manifest keeps the ids of an earlier write of the batch.
FinishUpsertMutant ==
  /\ job.pc = "copied" /\ job' = Idle
  /\ UNCHANGED <<store, ghosts>>

\* history/<batch>/upsert-manifest.json
FinishUpsert ==
  /\ job.pc = "copied" /\ job' = Idle
  /\ history' = [history EXCEPT ![job.batch].upsert = job.ids]
  /\ UNCHANGED <<records, torn, manifest, ghosts>>

\* history/<batch>/rollback.json
FinishRollback ==
  /\ job.pc = "manifest" /\ job.op = "rollback" /\ job' = Idle
  /\ history' = [history EXCEPT ![job.batch].rollback = TRUE]
  /\ UNCHANGED <<records, torn, manifest, ghosts>>

Crash ==
  /\ job.pc # "idle" /\ job' = Idle
  /\ crashed' = IF job.op = "upsert" THEN crashed \cup {job.batch} ELSE crashed
  /\ UNCHANGED <<store, started, stale>>

Next ==
  \/ /\ FoldFunction(+, 0, started) < MaxUpserts
     /\ \E b \in Batches, S \in SUBSET Ids : BeginUpsert(b, S)
  \/ \E b \in Batches : BeginRollback(b)
  \/ OpenRecords \/ FillRecords \/ OpenManifest \/ FillManifest
  \/ CopyRecords \/ FinishUpsert \/ FinishRollback
  \/ Crash

Spec == Init /\ [][Next]_vars

-----------------------------------------------------------------------------
(* Properties.                                                             *)

BatchEntries == [id : Batches, rolledBack : BOOLEAN]

\* Every file and every value a writer holds keeps its shape.
TypeOK ==
  /\ records \in [Ids -> Owners] /\ torn \in BOOLEAN
  /\ manifest \in [file : {"absent", "ok", "torn"}, counted : [Ids -> Owners],
                   batches : Seq(BatchEntries)]
  /\ history \in [Batches -> [copies : SUBSET Ids, upsert : SUBSET Ids,
                              rollback : BOOLEAN]]
  /\ job \in [pc : {"idle", "begun", "filling", "records", "counting",
                    "manifest", "copied"},
              op : {"none", "upsert", "rollback"}, batch : Owners,
              ids : SUBSET Ids, target : [Ids -> Owners],
              batches : Seq(BatchEntries)]
  /\ started \in [Batches -> Nat] /\ crashed \subseteq Batches
  /\ stale \in BOOLEAN

Live(batches) ==
  {batches[n].id : n \in {m \in DOMAIN batches : ~batches[m].rolledBack}}

\* Between two operations every record belongs to a batch that the manifest
\* lists and does not call rolled back; the only records it does not account
\* for are those of an upsert that died between its two writes, and no later
\* upsert or rollback ever brings other records into that state.
RecordsAccountedFor ==
  job.pc = "idle" /\ manifest.file # "torn" =>
    \A i \in Ids :
      records[i] \in {None} \cup crashed \cup Live(manifest.batches)

\* The manifest's summary counts what records.jsonl holds, unless a writer died
\* after it opened records.jsonl; the next operation that finishes repairs it,
\* because it counts the records it read and merged, not the old summary.
SummaryCounts ==
  job.pc = "idle" /\ manifest.file = "ok" /\ ~stale => manifest.counted = records

\* A record's batch has it in both of its history files, so the batch can be
\* traced and restored from them; given that batch ids are fresh and that the
\* upsert did not die.
HistoryCovers ==
  job.pc = "idle" =>
    \A i \in Ids, b \in Batches \ crashed :
      records[i] = b /\ started[b] = 1 =>
        i \in history[b].copies \cap history[b].upsert

\* Only damage and whole operations: without a crash each upsert and rollback
\* takes effect at once, when records.jsonl is opened for it, and readers of
\* the file wait for nothing but that one write.
Inventory == INSTANCE VectorInventory WITH
  inventory <- IF job.pc = "filling" THEN job.target ELSE records,
  readable <- job.pc = "filling" \/ ~torn

AllOrNothing == Inventory!Spec
=============================================================================
