----------------------------- MODULE HermesAdapter -----------------------------
(***************************************************************************)
(* The runtime adapter for Hermes (scripts/lib/hermes-runtime-adapter.mjs),*)
(* the plugin that writes the log it reads                                 *)
(* (examples/hermes-runtime-plugin/__init__.py) and the plugin's installer *)
(* and doctor (scripts/lib/hermes-runtime-plugin.mjs).                     *)
(*                                                                         *)
(* The log only grows, a line per hook call; a write may be cut short.     *)
(* Every report is built anew from the whole log: events are normalised,   *)
(* clustered into candidates, and sorted into an observability stream and  *)
(* a stream of work orders; a monitor of the tool calls and the digests of *)
(* model calls decide the measurement gate.                                *)
(*                                                                         *)
(* An event is a record of what the reducers tell apart.  A name, a path   *)
(* or a fingerprint is the field id.  A burst is an event repeated with    *)
(* equal fields.  Bounds: MaxEmissions, Bursts.  Left out: identifiers,    *)
(* texts, the checks over constants of the report.                         *)
(***************************************************************************)
EXTENDS Naturals, Sequences, FiniteSets, FiniteSetsExt

CONSTANTS
  Deck,          \* events that hooks are called with
  Bursts,        \* how often in a row
  Sources,       \* "log": what the plugin recorded; "fixture": the events as they are
  MaxEmissions, MaxInstalls

VARIABLES
  source,
  events,        \* lines of the log; a line that was cut short is Torn
  emissions,
  files,         \* the plugin's files in Hermes' plugin directory
  installing,    \* files still to be copied, or Idle
  installs,
  report,        \* of the last run of the adapter
  doctor         \* of the last run of the doctor

vars == <<source, events, emissions, files, installing, installs, report, doctor>>

Torn == [kind |-> "torn"]
PluginFiles == <<"plugin.yaml", "__init__.py", "README.md">>
Idle == <<"idle">>

SkillWriteActions == {"create", "patch", "edit", "delete", "write_file", "remove_file"}
MemoryWriteActions == {"add", "replace", "remove", "delete", "write"}
ExternalInformationTools == {"session_search", "web_search", "web_extract", "search", "browser_search"}
QueryEntropyTools == ExternalInformationTools \ {"web_extract"}
MinOf(S) == CHOOSE x \in S : \A y \in S : x <= y

-----------------------------------------------------------------------------
(* One event.                                                              *)

\* context.curator_action stands in for a missing args.action.
ActionFor(e) == IF e.action = "none" /\ e.curator THEN "curator" ELSE e.action

ToolFailure(e) == e.status = "failed"

EventSignals(e) ==
  e.signals
  \cup (IF e.tool \in ExternalInformationTools THEN {"research_needed"} ELSE {})
  \cup (IF e.curator THEN {"background_skill_review"} ELSE {})
  \cup (IF ToolFailure(e) THEN {"tool_failure", "damping_pressure"} ELSE {})

ResearchSignals == {"research_needed"}
PublicBoundarySignals == {"public_posting_boundary"}
SkillWrite(e) == e.tool = "skill_manage" /\ ActionFor(e) \in SkillWriteActions
MemoryWrite(e) == e.tool = "memory" /\ ActionFor(e) \in MemoryWriteActions
Researched(e) == EventSignals(e) \cap ResearchSignals # {}
External(e) == e.tool \in ExternalInformationTools \/ Researched(e)
AtBoundary(e) == EventSignals(e) \cap PublicBoundarySignals # {}

RouteTargetFor(e) ==
  IF e.humanReview THEN "policy"
  ELSE IF "damping_pressure" \in EventSignals(e) THEN "damping"
  ELSE IF e.tool = "skill_manage" \/ e.curator THEN "skill"
  ELSE IF e.tool = "memory" THEN (IF AtBoundary(e) THEN "policy" ELSE "memory")
  ELSE IF External(e) THEN "case" ELSE "ignore"

ControlDecisionFor(e) ==
  IF SkillWrite(e) THEN "candidate_pool_replay_required"
  ELSE IF MemoryWrite(e) THEN
    (IF AtBoundary(e) THEN "policy_candidate_replay_required" ELSE "observe_only_memory_review")
  ELSE IF External(e) THEN "research_digest_required"
  ELSE IF e.curator THEN "candidate_pool_replay_required"
  ELSE IF RouteTargetFor(e) = "damping" THEN "damping_review_required" ELSE "observe_only"

\* replay_required or tournament_required, a digest, or the curator.
ShouldCreateCandidate(e) ==
  ControlDecisionFor(e) \notin {"observe_only", "observe_only_memory_review"} \/ e.curator

CandidateTypeFor(e) ==
  IF e.tool = "skill_manage" \/ e.curator THEN "skill_variant"
  ELSE IF e.tool = "memory" THEN "policy_boundary_variant"
  ELSE IF ControlDecisionFor(e) = "research_digest_required" THEN "research_followup"
  ELSE IF RouteTargetFor(e) = "damping" THEN "damping_rule_candidate" ELSE "runtime_trace_candidate"

SignalOriginFor(e) == IF e.origin = "none" THEN "runtime_operation_log" ELSE e.origin
Explicit(e) == SignalOriginFor(e) # "runtime_operation_log"

EvidenceQuality(e, evidence) ==
  IF evidence.risk = "high" THEN "gaming_suspected"
  ELSE IF evidence.delta <= 0 \/ ~evidence.registered \/ e.origin = "none" \/ evidence.llm
       THEN "insufficient_evidence" ELSE "sufficient"

\* evidence is a set of at most one payload.
CandidateEvidenceGate(e) ==
  IF e.evidence = {} \/ ~Explicit(e) THEN "insufficient_evidence"
  ELSE EvidenceQuality(e, CHOOSE evidence \in e.evidence : TRUE)

HookFamilyFor(e) == IF e.hook \in {"pre_tool_call", "post_tool_call"} THEN "tool_call" ELSE e.hook

Fingerprint(e) == <<e.tool, ActionFor(e), e.id>>
ClusterKey(e) == <<CandidateTypeFor(e), HookFamilyFor(e), Fingerprint(e)>>

-----------------------------------------------------------------------------
(* Candidates and their streams; log[i] is the runtime event of line i.     *)

\* The lines of one kind.
Lines(all, kind) == [i \in {j \in DOMAIN all : all[j].kind = kind} |-> all[i]]

Candidates(log) == {i \in DOMAIN log : ShouldCreateCandidate(log[i])}
Cluster(log, i) == {j \in Candidates(log) : ClusterKey(log[j]) = ClusterKey(log[i])}

\* The first post-call event, or the first event.
Representative(log, cluster) ==
  LET posts == {j \in cluster : log[j].hook = "post_tool_call"}
  IN  MinOf(IF posts # {} THEN posts ELSE cluster)

CaptureHasFailure(log) == \E i \in DOMAIN log : ToolFailure(log[i])

Burst(count) == count >= 5

AnomalyRuleIdsFor(log, i, count) ==
  LET e == log[i]
      skill(actions) == e.tool = "skill_manage" /\ ActionFor(e) \in actions
      matched == {rule \in
         { <<"memory_write_boundary_pressure", MemoryWrite(e)>>,
           <<"skill_manage_create_burst", skill({"create"}) /\ Burst(count)>>,
           <<"persistent_skill_mutation_pressure", skill({"patch", "write_file"}) /\ Burst(count)>>,
           <<"write_file_sensitive_path", skill({"write_file"}) /\ e.sensitive>>,
           <<"repeated_failure_then_skill_create", skill({"create"}) /\ CaptureHasFailure(log)>>,
           <<"post_tool_call_failure_after_skill_manage",
             e.hook = "post_tool_call" /\ e.tool = "skill_manage" /\ ToolFailure(e)>> }
         : ~Explicit(e) /\ rule[2]}
  IN  {rule[1] : rule \in matched}

AnomalyRules(log, i) == AnomalyRuleIdsFor(log, i, Cardinality(Cluster(log, i)))

GoesToWorkOrder(log, i) ==
  \/ Explicit(log[i])
  \/ AnomalyRules(log, i) # {} /\ i = Representative(log, Cluster(log, i))

Boundary(log) == {i \in Candidates(log) : ~Explicit(log[i])}

\* Thousandths, to the nearest; the band is 0.05 to 0.2.
SignalToNoise(orders, boundary) ==
  IF boundary = 0 THEN "not_applicable"
  ELSE LET value == (2000 * orders + boundary) \div (2 * boundary)
       IN  IF value > 200 THEN "too_noisy" ELSE IF value < 50 THEN "possibly_too_quiet" ELSE "inside_target_band"

-----------------------------------------------------------------------------
(* The monitor of tool calls and the measurement gate.                     *)

ActionHistory(log) ==
  {i \in DOMAIN log : ~Explicit(log[i]) /\ HookFamilyFor(log[i]) = "tool_call"}

IsFailedPostToolCall(e) == e.hook = "post_tool_call" /\ e.status \in {"failed", "error"}
Failures(log) == {i \in ActionHistory(log) : IsFailedPostToolCall(log[i])}

RepeatedAfterFailure(log) ==
  {i \in Failures(log) :
     LET later == {j \in ActionHistory(log) : j > i}
     IN  later # {} /\ Fingerprint(log[MinOf(later)]) = Fingerprint(log[i])}

Queries(log) == {i \in ActionHistory(log) : log[i].tool \in QueryEntropyTools /\ log[i].query # "none"}

\* At most two different queries: their normalised entropy is at most 0.35 when
\* fewer than 0.0661 of the queries are the rarer one.
QueryEntropyStatus(log) ==
  LET asked == {log[i].query : i \in Queries(log)}
      rarer == Min({Cardinality({i \in Queries(log) : log[i].query = q}) : q \in asked})
      total == Cardinality(Queries(log))
  IN  IF total < 2 THEN "insufficient_sample"
      ELSE IF Cardinality(asked) = 1 THEN "collapsed"
      ELSE IF 10000 * rarer <= 661 * total THEN "low_entropy" ELSE "diverse"

\* Mutant: the last tap alone is looked at.
MaxMetricMutant(taps, metric) == IF DOMAIN taps = {} THEN 0 ELSE taps[Max(DOMAIN taps)].metrics[metric]
MaxMetric(taps, metric) == Max({0} \cup {taps[i].metrics[metric] : i \in DOMAIN taps})

InputContamination(taps) ==
  \/ MaxMetric(taps, "context_byte_size") >= 50000
  \/ MaxMetric(taps, "tool_schema_count") >= 40
  \/ MaxMetric(taps, "tool_result_error_count") >= 3

BehaviorLoop(log) ==
  \/ /\ Failures(log) # {}
     /\ 2 * Cardinality(RepeatedAfterFailure(log)) >= Cardinality(Failures(log))
  \/ Cardinality(Queries(log)) >= 3 /\ QueryEntropyStatus(log) \in {"collapsed", "low_entropy"}

MeasurementEvidenceSparse(log, taps) ==
  DOMAIN taps = {} /\ Failures(log) = {} /\ QueryEntropyStatus(log) = "insufficient_sample"

MeasurementGateVerdictFor(log, taps) ==
  IF InputContamination(taps) /\ BehaviorLoop(log) THEN "suspect_compound_failure"
  ELSE IF InputContamination(taps) THEN "suspect_input_contamination"
  ELSE IF BehaviorLoop(log) THEN "suspect_behavior_loop"
  ELSE IF MeasurementEvidenceSparse(log, taps) THEN "insufficient_evidence" ELSE "clean_measurement"

\* Without a monitor and without taps there is no gate, and no bias monitor.
MeasurementQualityGate(log, taps) ==
  IF ActionHistory(log) = {} /\ DOMAIN taps = {} THEN "no_gate" ELSE MeasurementGateVerdictFor(log, taps)

\* Records that are in the observability stream and are not candidates.
MonitorRecords(log, taps) ==
  Cardinality(DOMAIN taps) + (IF ActionHistory(log) # {} THEN 1 ELSE 0)
  + (IF MeasurementQualityGate(log, taps) # "no_gate" THEN 2 ELSE 0)

-----------------------------------------------------------------------------
(* The report.                                                             *)

SkillManageIsGated(log) ==
  \A i \in DOMAIN log : log[i].tool = "skill_manage" =>
    RouteTargetFor(log[i]) = "skill" /\ i \in Candidates(log)

EvidenceTapBlocks(log) ==
  \A i \in Candidates(log) : CandidateEvidenceGate(log[i]) = "sufficient" =>
    \A evidence \in log[i].evidence : evidence.registered /\ ~evidence.llm

InboxOnlyThroughRules(log) ==
  \A i \in Candidates(log) : GoesToWorkOrder(log, i) => Explicit(log[i]) \/ AnomalyRules(log, i) # {}

BuildChecks(log) ==
  {check \in { <<"skill_manage_gated", SkillManageIsGated(log)>>,
               <<"runtime_pressure_through_rules", InboxOnlyThroughRules(log)>>,
               <<"evidence_tap", EvidenceTapBlocks(log)>> } : ~check[2]}

BuildHermesRuntimeAdapterReport(all) ==
  LET log == Lines(all, "runtime")
      taps == Lines(all, "model_io_tap")
      orders == {i \in Candidates(log) : GoesToWorkOrder(log, i)}
  IN  [status |-> "done", seen |-> Len(all),
       violations |-> {check[1] : check \in BuildChecks(log)},
       orders |-> orders,
       keys |-> {ClusterKey(log[i]) : i \in orders},
       rules |-> UNION {AnomalyRules(log, i) : i \in orders},
       observed |-> Cardinality(Candidates(log) \ orders) + MonitorRecords(log, taps),
       verdict |-> MeasurementQualityGate(log, taps),
       noise |-> SignalToNoise(Cardinality(orders), Cardinality(Boundary(log)))]

NoReport == [status |-> "none", seen |-> 0, violations |-> {}, orders |-> {}, keys |-> {},
             rules |-> {}, observed |-> 0, verdict |-> "no_gate", noise |-> "not_applicable"]

\* A line that is not JSON is an error of the whole run.
ReadHermesRuntimeEventLog(all) ==
  IF Torn \in {all[i] : i \in DOMAIN all}
  THEN [NoReport EXCEPT !.status = "failed", !.seen = Len(all)]
  ELSE BuildHermesRuntimeAdapterReport(all)

ReportIsOk(r) == r.status = "done" /\ r.violations = {}

-----------------------------------------------------------------------------
(* The plugin.                                                             *)

\* What _event keeps: no query, no decision, no evidence.
Recorded(e) ==
  IF source = "fixture" \/ e.kind = "model_io_tap" THEN e
  ELSE [e EXCEPT !.query = "none", !.humanReview = FALSE, !.origin = "none", !.evidence = {}]

Init ==
  /\ source \in Sources /\ events = <<>> /\ emissions = 0
  /\ files = (IF source = "log" THEN {} ELSE {PluginFiles[i] : i \in DOMAIN PluginFiles})
  /\ installing = Idle /\ installs = 0
  /\ report = NoReport /\ doctor = [ran |-> FALSE, ok |-> FALSE, files |-> 0]

\* A line that follows one without its newline is part of it.
Emit(e, n) ==
  /\ emissions < MaxEmissions /\ emissions' = emissions + 1
  /\ "__init__.py" \in files
  /\ events' = IF events # <<>> /\ events[Len(events)] = Torn
               THEN events \o [i \in 1..(n - 1) |-> Recorded(e)]
               ELSE events \o [i \in 1..n |-> Recorded(e)]
  /\ UNCHANGED <<source, files, installing, installs, report, doctor>>

\* The write is cut short: the process is killed or the disk is full.
TearLine ==
  /\ source = "log" /\ "__init__.py" \in files
  /\ emissions < MaxEmissions /\ emissions' = emissions + 1
  /\ events # <<>> => events[Len(events)] # Torn
  /\ events' = Append(events, Torn)
  /\ UNCHANGED <<source, files, installing, installs, report, doctor>>

RunHermesRuntimeAdapter ==
  /\ report' = ReadHermesRuntimeEventLog(events) /\ report' # report
  /\ UNCHANGED <<source, events, emissions, files, installing, installs, doctor>>

\* One run of the doctor; a missing log is allowed.
ReplayIsReadable(all) == all = <<>> \/ ReportIsOk(ReadHermesRuntimeEventLog(all))

DoctorResult(present) ==
  [ran |-> TRUE, ok |-> present = {PluginFiles[i] : i \in DOMAIN PluginFiles} /\ ReplayIsReadable(events),
   files |-> Cardinality(present)]

RunHermesRuntimePluginDoctor ==
  /\ installing = Idle /\ doctor' = DoctorResult(files) /\ doctor' # doctor
  /\ UNCHANGED <<source, events, emissions, files, installing, installs, report>>

StartInstall ==
  /\ source = "log" /\ installing = Idle /\ installs < MaxInstalls /\ installs' = installs + 1
  /\ installing' = PluginFiles
  /\ UNCHANGED <<source, events, emissions, files, report, doctor>>

\* Files are copied in order; Hermes may call the hooks meanwhile.
CopyFile ==
  /\ installing \notin {Idle, <<>>}
  /\ files' = files \cup {installing[1]} /\ installing' = Tail(installing)
  /\ UNCHANGED <<source, events, emissions, installs, report, doctor>>

\* The installer ends with the doctor.
FinishInstall ==
  /\ installing = <<>> /\ installing' = Idle /\ doctor' = DoctorResult(files)
  /\ UNCHANGED <<source, events, emissions, files, installs, report>>

\* A copy fails: the installer rejects and leaves what it has copied.
CopyFails ==
  /\ installing \notin {Idle, <<>>} /\ installing' = Idle
  /\ UNCHANGED <<source, events, emissions, files, installs, report, doctor>>

Next ==
  \/ \E e \in Deck, n \in Bursts : Emit(e, n)
  \/ TearLine \/ RunHermesRuntimeAdapter \/ RunHermesRuntimePluginDoctor
  \/ StartInstall \/ CopyFile \/ FinishInstall \/ CopyFails

Spec == Init /\ [][Next]_vars

-----------------------------------------------------------------------------
(* Properties.                                                             *)

\* The runtime events of the lines the report was built from.
Seen == Lines(SubSeq(events, 1, report.seen), "runtime")
RuntimeOrders(log) == {i \in report.orders : ~Explicit(log[i])}

TypeOK ==
  /\ source \in {"log", "fixture"}
  /\ \A i \in DOMAIN events : events[i] = Torn \/ events[i].kind \in {"runtime", "model_io_tap"}
  /\ files \subseteq {PluginFiles[i] : i \in DOMAIN PluginFiles}
  /\ report.status \in {"none", "done", "failed"} /\ report.seen \in 0..Len(events)
  /\ report.orders \subseteq DOMAIN Seen
  /\ report.verdict = "no_gate" /\ report.status = "done" =>
       report.observed + Cardinality(report.orders) = Cardinality(Candidates(Seen))

\* The intent and the result of one action are one anomaly: however their hooks
\* interleave with others', two work orders of the runtime log never name the
\* same action (candidateClusterKey, representative_index).
OneOrderPerAction ==
  LET log == Seen IN
  \A i, j \in RuntimeOrders(log) :
    ( /\ Fingerprint(log[i]) = Fingerprint(log[j])
      /\ CandidateTypeFor(log[i]) = CandidateTypeFor(log[j]) ) => i = j

\* A work order shows the intent of an action only while its result is not in the
\* log (prefersPostToolCall).
ResultIsPreferred ==
  LET log == Seen IN
  \A i \in RuntimeOrders(log) : log[i].hook = "pre_tool_call" =>
    ~ \E j \in Candidates(log) : /\ log[j].hook = "post_tool_call"
                                /\ Fingerprint(log[j]) = Fingerprint(log[i])
                                /\ CandidateTypeFor(log[j]) = CandidateTypeFor(log[i])

\* The log only grows, and what was a work order in one report is one in every
\* later report: no later event takes a cluster out of the inbox, although its
\* representative and its count change (buildEvolutionCandidates).
OrdersStay ==
  report.status = "done" /\ report'.status = "done" => report.keys \subseteq report'.keys

Suspect(verdict) == verdict \in {"suspect_input_contamination", "suspect_compound_failure"}

\* A measurement that saw contaminated input stays suspect: no later model call
\* clears it (measurementGateRuleIdsFor takes maxima over the log).
ContaminationStays ==
  Suspect(report.verdict) /\ report'.status = "done" => Suspect(report'.verdict)

\* The doctor, alone or at the end of an installation, never passes a plugin that
\* is only partly there or a log that the adapter cannot read.
DoctorSeesDamage ==
  doctor' # doctor /\ doctor'.ok =>
   Torn \notin {events[i] : i \in DOMAIN events} /\ Cardinality(files) = Len(PluginFiles)
=============================================================================
