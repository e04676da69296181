------------------------------ MODULE ShadowDeploy ------------------------------
(***************************************************************************)
(* The one-command shadow path: runFullShadowDeploy of                     *)
(* scripts/full-shadow-deploy.mjs, with the local quickstart               *)
(* (scripts/local-quickstart.mjs), the clone doctor and the bootstrap of   *)
(* the local vector store (scripts/lib/public-repo-readiness.mjs) that it  *)
(* calls.  It awaits one part after another; each leaves a report, the     *)
(* last one latest.json.  A part may fail its checks, which is reported,   *)
(* or throw, which ends the run without latest.json; the process may die.  *)
(*                                                                         *)
(* Beside it the Hermes plugin appends events to the log the deploy        *)
(* attaches and replays (a long line in two writes), and somebody upserts  *)
(* into the same vector store by hand.                                     *)
(*                                                                         *)
(* Abstracted: which parts fail is chosen when a run starts; what the      *)
(* parts compute is in their own modules.  The store is a set of records,  *)
(* read once and written once (LocalVectorStore has the single writes).    *)
(***************************************************************************)
EXTENDS Naturals, FiniteSets

CONSTANTS
  BootRecords,   \* the records of examples/misa-distillation
  HandRecords,   \* what an upsert by hand brings
  Faults,        \* sets of parts that may fail in one run
  MaxEvents,     \* bound: events the plugin emits
  MaxRuns,       \* bound: deploys started
  MaxUpserts     \* bound: upserts by hand

Parts == {"template", "health", "doctor", "proof", "plugin", "window", "summary"}

ASSUME ShadowDeployAssumption ==
  /\ Faults \subseteq SUBSET Parts /\ BootRecords \cap HandRecords = {}
  /\ MaxEvents \in Nat /\ MaxRuns \in Nat /\ MaxUpserts \in Nat

VARIABLES
  log,       \* the event log: absent, whole or torn (half a line), its events
  store,     \* the records of the local vector store
  deploy,    \* the run: where it stands and what it has in memory
  reports,   \* per report file: the run that wrote it, 0 if none
  latest,    \* latest.json, at most one
  hand,      \* the upsert by hand: what it has read, and how many so far
  stored     \* history: records an upsert reported as written

vars == <<log, store, deploy, reports, latest, hand, stored>>

Files == {"bootstrap", "quickstart", "install", "doctor", "window", "review"}

\* failed: the checks that failed; held: the records read before the upsert;
\* absent: the log was not there; counts: events in each replay of the log.
Off(run) ==
  [pc |-> "off", run |-> run, faults |-> {}, failed |-> {}, held |-> {}, absent |-> FALSE,
   counts |-> [doctor |-> 0, adapter |-> 0, orders |-> 0]]

Init ==
  /\ log = [state |-> "absent", events |-> 0]
  /\ store = {} /\ deploy = Off(0)
  /\ reports = [f \in Files |-> 0] /\ latest = {}
  /\ hand = [holds |-> FALSE, held |-> {}, count |-> 0] /\ stored = {}

Fails(part) == part \in deploy.faults
FailedIf(check, condition) == IF condition THEN deploy.failed \cup {check} ELSE deploy.failed
Report(f) == reports' = [reports EXCEPT ![f] = deploy.run]
Throws == deploy' = Off(deploy.run)

-----------------------------------------------------------------------------
(* The local quickstart.                                                   *)

Start ==
  /\ deploy.pc = "off" /\ deploy.run < MaxRuns
  /\ \E faults \in Faults :
       deploy' = [Off(deploy.run + 1) EXCEPT !.pc = "doctor", !.faults = faults]
  /\ UNCHANGED <<log, store, reports, latest, hand, stored>>

\* runPublicRepoDoctor: read-only.
RunPublicRepoDoctor ==
  /\ deploy.pc = "doctor"
  /\ deploy' = [deploy EXCEPT !.pc = "upsert", !.held = store,
                              !.failed = FailedIf("clone doctor", Fails("doctor"))]
  /\ UNCHANGED <<log, store, reports, latest, hand, stored>>

\* The upsert writes what it read and its own records; a distillation that does
\* not fit the template writes nothing.
BootstrapUpsert ==
  /\ deploy.pc = "upsert"
  /\ deploy' = [deploy EXCEPT !.pc = "bootstrap",
                              !.failed = FailedIf("store initialized", Fails("template"))]
  /\ IF Fails("template") THEN UNCHANGED <<store, stored>>
     ELSE store' = deploy.held \cup BootRecords /\ stored' = stored \cup BootRecords
  /\ UNCHANGED <<log, reports, latest, hand>>

\* The query finds a record, the statistics as many as were upserted (none, for
\* a template that failed), and the health run passes.
BootstrapChecks ==
  \/ Fails("health") \/ store = {}
  \/ ~Fails("template") /\ Cardinality(store) < Cardinality(BootRecords)

RunLocalBootstrap ==
  /\ deploy.pc = "bootstrap" /\ Report("bootstrap")
  /\ deploy' = [deploy EXCEPT !.pc = "proof",
                              !.failed = FailedIf("bootstrap", BootstrapChecks)]
  /\ UNCHANGED <<log, store, latest, hand, stored>>

\* What bootstrap.safety.local_vector_store_written says, whatever was written.
LocalVectorStoreWritten == TRUE

\* Mutant: takes the bootstrap's word that it wrote the store.
QuickstartFailedMutant(failed) == failed \ {"store initialized"} # {}

\* The bootstrap's checks and the doctor's are checks of the quickstart.
QuickstartFailed(failed) == failed # {} \/ ~LocalVectorStoreWritten

RunLocalSidecarQuickstart ==
  /\ deploy.pc = "proof" /\ Report("quickstart")
  /\ LET failed == FailedIf("value proof", Fails("proof"))
     IN  deploy' = [deploy EXCEPT !.pc = "install",
                      !.failed = IF QuickstartFailed(failed) THEN {"quickstart"} ELSE {}]
  /\ UNCHANGED <<log, store, latest, hand, stored>>

-----------------------------------------------------------------------------
(* The plugin, the event log and the rest.                                 *)

\* runHermesRuntimePluginDoctor: a log that is there must be readable.
DoctorFails == Fails("plugin") \/ log.state = "torn"

InstallPlugin ==
  /\ deploy.pc = "install" /\ Report("install")
  /\ deploy' = [deploy EXCEPT !.pc = "stat",
                              !.failed = FailedIf("plugin installed", DoctorFails)]
  /\ UNCHANGED <<log, store, latest, hand, stored>>

\* ensureEventLog looks, and creates the log with the flag "wx": a log that the
\* plugin created in between makes it throw.
StatEventLog ==
  /\ deploy.pc = "stat"
  /\ deploy' = [deploy EXCEPT !.pc = "create", !.absent = log.state = "absent"]
  /\ UNCHANGED <<log, store, reports, latest, hand, stored>>

\* Mutant: without the flag, which empties the log.
CreateEventLogMutant ==
  /\ deploy.pc = "create"
  /\ deploy' = [deploy EXCEPT !.pc = "plugin doctor"]
  /\ log' = IF deploy.absent THEN [state |-> "whole", events |-> 0] ELSE log
  /\ UNCHANGED <<store, reports, latest, hand, stored>>

CreateEventLog ==
  /\ deploy.pc = "create"
  /\ IF deploy.absent /\ log.state # "absent" THEN Throws
     ELSE deploy' = [deploy EXCEPT !.pc = "plugin doctor"]
  /\ log' = IF log.state = "absent" THEN [state |-> "whole", events |-> 0] ELSE log
  /\ UNCHANGED <<store, reports, latest, hand, stored>>

RunPluginDoctor ==
  /\ deploy.pc = "plugin doctor" /\ Report("doctor")
  /\ deploy' = [deploy EXCEPT !.pc = "adapter", !.counts.doctor = log.events,
                              !.failed = FailedIf("plugin doctor", DoctorFails)]
  /\ UNCHANGED <<log, store, latest, hand, stored>>

\* A line that does not parse makes the adapter throw.
RunAdapter ==
  /\ deploy.pc = "adapter"
  /\ IF log.state = "torn" THEN Throws
     ELSE deploy' = [deploy EXCEPT !.pc = "orders", !.counts.adapter = log.events]
  /\ UNCHANGED <<log, store, reports, latest, hand, stored>>

\* The work-order chain replays the log again.
RunWorkOrders ==
  /\ deploy.pc = "orders"
  /\ IF log.state = "torn" THEN Throws
     ELSE deploy' = [deploy EXCEPT !.pc = "window", !.counts.orders = log.events]
  /\ UNCHANGED <<log, store, reports, latest, hand, stored>>

DistillWindow ==
  /\ deploy.pc = "window" /\ Report("window")
  /\ deploy' = [deploy EXCEPT !.pc = "review", !.failed = FailedIf("window", Fails("window"))]
  /\ UNCHANGED <<log, store, latest, hand, stored>>

\* Mutant: a summary that cannot be read leaves the review of the run before.
ReviewSessionsMutant ==
  /\ deploy.pc = "review"
  /\ IF Fails("summary") THEN UNCHANGED reports ELSE Report("review")
  /\ deploy' = [deploy EXCEPT !.pc = "finish"]
  /\ UNCHANGED <<log, store, latest, hand, stored>>

\* A session summary that cannot be read makes the review throw; its export and
\* the owner digest only ever say "ok" (WorkOrderInbox).
ReviewSessions ==
  /\ deploy.pc = "review"
  /\ IF Fails("summary") THEN Throws /\ UNCHANGED reports
     ELSE Report("review") /\ deploy' = [deploy EXCEPT !.pc = "finish"]
  /\ UNCHANGED <<log, store, latest, hand, stored>>

Finish ==
  /\ deploy.pc = "finish" /\ deploy' = Off(deploy.run)
  /\ latest' = {[run |-> deploy.run, ok |-> deploy.failed = {} /\ log.state # "absent",
                 faults |-> deploy.faults, counts |-> deploy.counts,
                 written |-> LocalVectorStoreWritten]}
  /\ UNCHANGED <<log, store, reports, hand, stored>>

-----------------------------------------------------------------------------
(* What goes on beside it.                                                 *)

Die ==
  /\ deploy.pc # "off" /\ Throws
  /\ UNCHANGED <<log, store, reports, latest, hand, stored>>

\* The plugin opens the log for appending, which creates it; a long line takes
\* two writes.
Emit ==
  /\ log.state # "torn" /\ log.events < MaxEvents
  /\ \E state \in {"whole", "torn"} : log' = [state |-> state, events |-> log.events + 1]
  /\ UNCHANGED <<store, deploy, reports, latest, hand, stored>>

EndLine ==
  /\ log.state = "torn" /\ log' = [log EXCEPT !.state = "whole"]
  /\ UNCHANGED <<store, deploy, reports, latest, hand, stored>>

ReadByHand ==
  /\ ~hand.holds /\ hand.count < MaxUpserts
  /\ hand' = [holds |-> TRUE, held |-> store, count |-> hand.count + 1]
  /\ UNCHANGED <<log, store, deploy, reports, latest, stored>>

UpsertByHand ==
  /\ hand.holds /\ hand' = [hand EXCEPT !.holds = FALSE, !.held = {}]
  /\ store' = hand.held \cup HandRecords /\ stored' = stored \cup HandRecords
  /\ UNCHANGED <<log, deploy, reports, latest>>

Next ==
  \/ Start \/ RunPublicRepoDoctor \/ BootstrapUpsert \/ RunLocalBootstrap
  \/ RunLocalSidecarQuickstart \/ InstallPlugin \/ StatEventLog \/ CreateEventLog
  \/ RunPluginDoctor \/ RunAdapter \/ RunWorkOrders \/ DistillWindow
  \/ ReviewSessions \/ Finish \/ Die
  \/ Emit \/ EndLine \/ ReadByHand \/ UpsertByHand

Spec == Init /\ [][Next]_vars

-----------------------------------------------------------------------------
(* Properties.                                                             *)

\* Every part keeps its shape, no report comes from a run that never was, and a
\* deploy that looked for the log only goes on when there is one.
TypeOK ==
  /\ log \in [state : {"absent", "whole", "torn"}, events : 0..MaxEvents]
  /\ log.state = "absent" => log.events = 0
  /\ store \subseteq stored /\ stored \subseteq BootRecords \cup HandRecords
  /\ deploy.run \in 0..MaxRuns /\ \A f \in Files : reports[f] \in 0..deploy.run
  /\ deploy.pc \in {"plugin doctor", "adapter", "orders", "window", "review", "finish"}
       => log.state # "absent"

\* Attaching the event log never loses an event: not of a log that was there,
\* and not of one the plugin begins between the look and the creation.
LogOnlyGrows ==
  [][log'.events >= log.events /\ (log.state # "absent" => log'.state # "absent")]_log

\* A passing latest.json means that no part of that run failed, and that the
\* replays it reports followed one another on a growing log: the work orders
\* were made from at least the events the summary counts.
PassIsEarned ==
  \A l \in latest : l.ok =>
    /\ l.faults = {}
    /\ l.counts.doctor <= l.counts.adapter /\ l.counts.adapter <= l.counts.orders
    /\ l.counts.orders <= log.events

\* Every file latest.json points to was written by its run or a later one, and
\* all of them by its run when no other has begun.
LatestIsBacked ==
  \A l \in latest, f \in Files :
    /\ reports[f] >= l.run
    /\ deploy.run = l.run => reports[f] = l.run
=================================================================================
