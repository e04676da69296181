---------------------------- MODULE DistillerReview ----------------------------
(***************************************************************************)
(* The review of a production distiller run                                *)
(* (scripts/lib/session-distiller-review.mjs) and the hook that runs it    *)
(* (scripts/deploy/misa-cybernetic-session-distiller-review.sh).           *)
(*                                                                         *)
(* The distiller itself is not in the repository: it retains chunks in     *)
(* Zilliz and leaves four files under fixed names, which the hook reads    *)
(* when the run has ended, however it ended.  A run may die between two    *)
(* files, or in the middle of one; the hook may be killed between two of   *)
(* its steps.                                                              *)
(***************************************************************************)
EXTENDS Naturals, FiniteSets

CONSTANTS Chunks,     \* chunk hashes
          Outcomes,   \* what a run does: see Idle
          MaxRuns     \* bound: distiller runs

Files == {"manifest", "rollback", "llm", "summary"}

VARIABLES
  mode,      \* RUN_MODE
  run,       \* the distiller run: its outcome and the files it has yet to write
  disk,      \* per file: the outcome it was written for, if any, and its number
  hook,      \* the step the hook is at, and the review it made
  latest,    \* latest.json: at most one review
  status,    \* latest-hook-status.env
  inbox,     \* finding ids exported to the work-order inbox
  runs,      \* distiller runs begun
  killed     \* history: the hook was killed since it wrote its status

vars == <<mode, run, disk, hook, latest, status, inbox, runs, killed>>

\* inserted: chunks retained; tracked: those its rollback file lists; rows: "good",
\* "short", "twice" or "unhashed" manifest rows; failed, processed, novalue,
\* called: the counts of the summary.
Idle == [inserted |-> {}, tracked |-> {}, rows |-> "good", failed |-> 0, processed |-> 0,
         novalue |-> 0, called |-> 0]

Absent == [file |-> "absent", of |-> Idle, n |-> 0]
NoHook == [pc |-> "idle", review |-> {}]

Init ==
  /\ mode \in {"scan-dry-run", "zilliz-plan-dry-run", "production-write"}
  /\ run = [of |-> Idle, todo |-> {}]
  /\ disk = [f \in Files |-> Absent]
  /\ hook = NoHook /\ latest = {} /\ status = "none" /\ inbox = {}
  /\ runs = 0 /\ killed = FALSE

-----------------------------------------------------------------------------
(* The distiller.                                                          *)

StartRun(outcome) ==
  /\ runs < MaxRuns /\ run.todo = {} /\ hook.pc = "idle"
  /\ mode # "production-write" => outcome.inserted = {} /\ outcome.called = 0
  /\ runs' = runs + 1
  /\ run' = [of |-> outcome, todo |-> Files]
  /\ UNCHANGED <<mode, disk, hook, latest, status, inbox, killed>>

WriteFile(f) ==
  /\ f \in run.todo
  /\ run' = [run EXCEPT !.todo = @ \ {f}]
  /\ disk' = [disk EXCEPT ![f] = [file |-> "ok", of |-> run.of, n |-> runs]]
  /\ UNCHANGED <<mode, hook, latest, status, inbox, runs, killed>>

\* The run dies between two files, or leaves one that does not parse.
Die ==
  /\ run.todo # {}
  /\ run' = [run EXCEPT !.todo = {}]
  /\ \/ disk' = disk
     \/ \E f \in run.todo : disk' = [disk EXCEPT ![f] = [@ EXCEPT !.file = "torn"]]
  /\ UNCHANGED <<mode, hook, latest, status, inbox, runs, killed>>

-----------------------------------------------------------------------------
(* session-distiller-review.mjs                                            *)

SeverityRank(s) == CASE s = "P0" -> 0 [] s = "P1" -> 1 [] s = "P2" -> 2 [] s = "P3" -> 3

HighestSeverity(findings) ==
  IF findings = {} THEN "P3"
  ELSE (CHOOSE x \in findings : \A y \in findings :
          SeverityRank(x.severity) <= SeverityRank(y.severity)).severity

Finding(id, severity, when) ==
  IF when THEN {[id |-> id, severity |-> severity, status |-> "repair_candidate"]} ELSE {}

\* A file that was not passed reads like one that is absent.
Read(f, files) == IF f \in files THEN disk[f] ELSE Absent

Rows(manifest) == IF manifest.file = "absent" THEN {} ELSE manifest.of.inserted
Hashes(rollback) == IF rollback.file = "absent" THEN {} ELSE rollback.of.tracked

ManifestMissing(inserted, rows) == inserted > 0 /\ rows = {}

RollbackGap(inserted, hashes) == inserted > 0 /\ Cardinality(hashes) < inserted

\* Rows without a hash all count under the name "undefined", which is no empty
\* string: two of them are duplicates of each other.
DuplicateHashes(manifest) ==
  Rows(manifest) # {} /\
    \/ manifest.of.rows = "twice"
    \/ manifest.of.rows = "unhashed" /\ Cardinality(Rows(manifest)) > 1

BuildFindings(summary, manifest, rollback, llm) ==
  LET inserted == Cardinality(summary.of.inserted)
  IN Finding("session-distiller-failed-session", "P1", summary.of.failed > 0)
     \cup Finding("zilliz-rollback-trace-gap", "P1", RollbackGap(inserted, Hashes(rollback)))
     \cup Finding("zilliz-manifest-missing", "P1", ManifestMissing(inserted, Rows(manifest)))
     \cup Finding("zilliz-low-traceability-row", "P2",
            Rows(manifest) # {} /\ manifest.of.rows \in {"short", "unhashed"})
     \cup Finding("zilliz-duplicate-chunk-hash", "P2", DuplicateHashes(manifest))
     \cup {[f EXCEPT !.status = "observe_only"] :
             f \in Finding("low-value-llm-distillation", "P3",
                     summary.of.called > 0 /\ summary.of.processed = 0 /\ summary.of.novalue > 0)}
     \cup Finding("llm-summary-trace-missing", "P2",
            summary.of.called > 0 /\ (llm.file = "absent" \/ llm.of.called = 0))

Verdict(findings) ==
  CASE \E f \in findings : f.status # "observe_only" -> "repair_work_order_required"
    [] (\A f \in findings : f.status = "observe_only") /\ findings # {} -> "observe_quality"
    [] OTHER -> "clean"

RepairWorkOrders(findings) == {f.id : f \in {g \in findings : g.status # "observe_only"}}

\* n and at: the run each file was written by, and the run reviewed after.
ReviewSessionDistillerOutput(files) ==
  LET findings == BuildFindings(Read("summary", files), Read("manifest", files),
                                Read("rollback", files), Read("llm", files))
  IN [verdict |-> Verdict(findings), findings |-> findings,
      severity |-> HighestSeverity(findings), orders |-> RepairWorkOrders(findings),
      inserted |-> disk["summary"].of.inserted, hashes |-> Hashes(Read("rollback", files)),
      read |-> {disk[f].n : f \in files}, at |-> runs]

-----------------------------------------------------------------------------
(* The hook.                                                               *)

\* -s: the file is there and not empty.
Passed ==
  {f \in Files : disk[f].file # "absent" /\
     f \in CASE mode = "scan-dry-run" -> {"summary"}
             [] mode = "zilliz-plan-dry-run" -> {"summary", "manifest", "rollback"}
             [] OTHER -> Files}

Moves(pc) == hook' = [hook EXCEPT !.pc = pc]
HookOnly == UNCHANGED <<mode, run, disk, runs>>

\* Mutant: the step's exit code is lost.
WriteStatusMutant(s) == status' = "ok" /\ hook' = NoHook /\ killed' = FALSE

WriteStatus(s) == status' = s /\ hook' = NoHook /\ killed' = FALSE

\* No summary: skipped.  A file that does not parse: the review exits with 1.
StartHook ==
  /\ runs > 0 /\ run.todo = {} /\ hook.pc = "idle"
  /\ CASE "summary" \notin Passed -> WriteStatus("skipped")
       [] "summary" \in Passed /\ \E f \in Passed : disk[f].file = "torn" -> WriteStatus("failed")
       [] OTHER -> /\ hook' = [pc |-> "reviewed", review |-> {ReviewSessionDistillerOutput(Passed)}]
                   /\ UNCHANGED <<status, killed>>
  /\ UNCHANGED <<latest, inbox>> /\ HookOnly

CopyLatest ==
  /\ hook.pc = "reviewed" /\ Moves("copied")
  /\ latest' = hook.review
  /\ UNCHANGED <<status, inbox, killed>> /\ HookOnly

\* The export may fail: a lock, a full disk, a script that is not there.
ExportInbox ==
  /\ hook.pc = "copied"
  /\ \/ /\ Moves("exported")
        /\ inbox' = inbox \cup UNION {r.orders : r \in hook.review}
        /\ UNCHANGED <<status, killed>>
     \/ WriteStatus("failed") /\ UNCHANGED inbox
  /\ UNCHANGED latest /\ HookOnly

\* The digest of the inbox may fail too.
FinishHook ==
  /\ hook.pc = "exported"
  /\ \E s \in {"ok", "failed"} : WriteStatus(s)
  /\ UNCHANGED <<latest, inbox>> /\ HookOnly

KillHook ==
  /\ hook.pc # "idle"
  /\ hook' = NoHook /\ killed' = TRUE
  /\ UNCHANGED <<latest, status, inbox>> /\ HookOnly

Next ==
  \/ \E outcome \in Outcomes : StartRun(outcome)
  \/ \E f \in Files : WriteFile(f)
  \/ Die
  \/ StartHook \/ CopyLatest \/ ExportInbox \/ FinishHook \/ KillHook

Spec == Init /\ [][Next]_vars

-----------------------------------------------------------------------------
(* Properties.                                                             *)

\* Reviews have a verdict, the hook a step, files a state.
TypeOK ==
  /\ hook.pc \in {"idle", "reviewed", "copied", "exported"}
  /\ hook.pc = "idle" <=> hook.review = {}
  /\ status \in {"none", "skipped", "failed", "ok"} /\ Cardinality(latest) <= 1
  /\ \A r \in latest : r.verdict \in {"clean", "observe_quality", "repair_work_order_required"}
  /\ \A f \in Files : disk[f].file \in {"absent", "torn", "ok"} /\ disk[f].n <= runs

\* The status is ok only if latest.json is there and everything it asks for has
\* reached the inbox, unless the hook was killed after it replaced latest.json.
OkMeansExported ==
  status = "ok" /\ hook.pc = "idle" /\ ~killed =>
    \E r \in latest : r.orders \subseteq inbox

\* A clean review of files that all come from one run means that the run can be
\* undone and traced: every chunk it retained is in its rollback file.
CleanRunIsCovered ==
  \A r \in latest :
    r.verdict = "clean" /\ Cardinality(r.read) = 1 => r.inserted \subseteq r.hashes

\* A run that called the LLM for nothing of value, and did nothing wrong, opens
\* no work order: it stays visible as an observation.
ObservingOpensNothing ==
  \A r \in latest : r.verdict = "observe_quality" => r.orders = {} /\ r.findings # {}

\* A dry run never reports a gap in what was written: nothing was.
DryRunsOpenNoGap ==
  mode # "production-write" =>
    inbox \cap {"zilliz-rollback-trace-gap", "zilliz-manifest-missing"} = {}
=============================================================================
