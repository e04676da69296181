--------------------------- MODULE ComponentHealth ---------------------------
(***************************************************************************)
(* Health of the local components over a series of reviews                 *)
(* (scripts/lib/component-health.mjs, scripts/component-health.mjs), fed   *)
(* by the dry runs of the current line (scripts/lib/current-line-smoke).   *)
(*                                                                         *)
(* Every review runs the smoke, classifies its checks with the history the *)
(* review before it returned, and opens one diagnostic candidate for every *)
(* component that is degraded or critical and not in its cooldown.         *)
(*                                                                         *)
(* The report of a module is [ok, effects, data]: what it says it did and  *)
(* the numbers its check carries.  Rates are in thousandths, times in      *)
(* units of twelve hours.  Left out: labels, texts, fingerprints, and the  *)
(* flags of a candidate, which are constant.                               *)
(***************************************************************************)
EXTENDS Naturals, Sequences, FiniteSetsExt

CONSTANTS
  Smokes,       \* the reports a smoke may run over: functions from modules to reports
  Thresholds,   \* values the escalation setpoint takes
  MaxClock,     \* bound: half days
  MaxReviews    \* bound: reviews

VARIABLES
  clock,
  history,   \* of the components of the last review: [count, last], last a set of at most one time
  result,    \* the last review: a set of at most one
  log,       \* every component's unhealthy reviews in a row, and its diagnoses
  reviews

vars == <<clock, history, result, log, reviews>>

Cooldown == 2

-----------------------------------------------------------------------------
(* The smoke: one check for every module, the health, and the boundary.    *)

\* What the check of a module repeats of the effects it reports.
SummarizedEffects ==
  [route |-> {"durable_or_public_effect_allowed"},
   session |-> {"writes_persistent_memory", "live_effect_allowed"},
   tournament |-> {"production_authority", "llm_api_calls"},
   classify |-> {"zilliz_written", "writes_persistent_memory"},
   variants |-> {"executes_work_orders", "writes_persistent_memory", "installs_skills",
                 "llm_api_calls", "external_api_calls"},
   quality |-> {"llm_api_calls", "external_api_calls"},
   store |-> {"local_vector_store_written", "zilliz_written", "embedding_created"},
   skill |-> {"llm_api_calls", "write", "production_authority", "controller_authority",
             "supervisor_changes_skill"},
   curiosity |-> {"llm_api_calls", "production_authority"},
   hermes |-> {"control_plane_write_deny_failed", "writes_skills", "writes_persistent_memory",
              "blocks_runtime", "llm_api_calls", "external_api_calls"},
   orders |-> {"llm_api_calls", "external_api_calls"},
   plugin |-> {"writes_plugin_files", "writes_skills", "writes_persistent_memory", "blocks_runtime",
              "llm_api_calls", "external_api_calls"},
   thread |-> {"production_authority", "executes_work_orders", "calls_model_providers",
               "calls_external_api", "touches_vps"},
   zilliz |-> {"zilliz_written", "embedding_created"},
   rank |-> {"zilliz_written", "external_api_calls"},
   inbox |-> {}]

\* What the check of the boundary reads from every report, which is more than the checks repeat.
GuardedEffects ==
  [SummarizedEffects EXCEPT
     !.tournament = {"production_authority", "live_effect_allowed"},
     !.quality = @ \cup {"executes_work_orders", "writes_persistent_memory", "installs_skills"},
     !.curiosity = {"llm_api_calls", "writes_persistent_memory", "changes_route", "changes_winner"},
     !.orders = @ \cup {"executes_work_orders", "writes_persistent_memory", "writes_skills"},
     !.thread = @ \cup {"writes_persistent_memory", "starts_services"}]

NoData == [none |-> 0]
Field(check, f) == IF f \in DOMAIN check.data THEN check.data[f] ELSE 0
Given(check, f) == f \in DOMAIN check.data

\* n of d in thousandths, rounded.
Ratio(n, d) == (2000 * n + d) \div (2 * d)

\* An evidence ref of its own goes beside the one every event has.
SummarizeAdapterToolLoop(data) ==
  LET events == data.events
      Count(P) == Cardinality(P)
      failed == Count({i \in 1..Len(events) : events[i].failed})
      grounded == Count({i \in 1..Len(events) : events[i].refs > 1})
      missing == Len(events) - grounded
      failures == failed + data.unmatched + missing
      counts == [tool_event_count |-> Len(events), failed_tool_result_count |-> failed,
                 unmatched_tool_intent_count |-> data.unmatched,
                 tool_events_missing_evidence_count |-> missing,
                 tool_events_with_evidence_refs |-> grounded, tool_loop_failure_count |-> failures]
      rates == [tool_loop_integrity_rate |-> 1000 - Ratio(Min({failures, Len(events)}), Len(events)),
                tool_loop_evidence_ref_rate |-> Ratio(grounded, Len(events))]
  IN  IF events = <<>> THEN counts
      ELSE [f \in DOMAIN counts \cup DOMAIN rates |-> IF f \in DOMAIN counts THEN counts[f] ELSE rates[f]]

CheckResult(name, report) ==
  [name |-> name, ok |-> report.ok, effects |-> report.effects \cap SummarizedEffects[name],
   data |-> IF name = "hermes" THEN SummarizeAdapterToolLoop(report.data) ELSE report.data]

NoLiveWritesCheck(smoke) ==
  LET seen == UNION {smoke[x].effects \cap GuardedEffects[x] : x \in DOMAIN smoke}
  IN  [name |-> "boundary", ok |-> seen = {}, data |-> NoData,
       effects |-> IF "route" \in DOMAIN smoke THEN smoke["route"].effects \cap SummarizedEffects["route"] ELSE {}]

BaseChecks(smoke) == {CheckResult(x, smoke[x]) : x \in DOMAIN smoke}

-----------------------------------------------------------------------------
(* Risks and status of one component.                                      *)

CriticalFields ==
  {"production_authority", "live_effect_allowed", "durable_or_public_effect_allowed", "zilliz_written",
   "embedding_created", "writes_persistent_memory", "local_vector_store_written", "executes_work_orders",
   "installs_skills", "calls_model_providers", "calls_external_api", "touches_vps", "starts_services",
   "blocks_runtime", "changes_route", "changes_winner", "changes_winner_authority", "controller_authority",
   "supervisor_changes_skill", "control_plane_write_deny_failed", "llm_api_calls", "external_api_calls",
   "safety_regressions", "metadata_violations"}
ToolFields ==
  {"failed_tool_result_count", "unmatched_tool_intent_count", "tool_events_missing_evidence_count",
   "tool_loop_failure_count"}
CountFields == {"missed_review_worthy", "noise_selected"} \cup ToolFields
RateFields == {"positive_lift_rate", "tool_loop_integrity_rate", "tool_loop_evidence_ref_rate"}

Risks(severity, codes) == {[severity |-> severity, code |-> x] : x \in codes}

RiskSignalsForCheck(check) ==
  UNION {
    Risks("critical", (check.effects \cap CriticalFields) \cup {x \in CriticalFields : Field(check, x) > 0}),
    Risks("degraded", {x \in CountFields : Field(check, x) > 0}),
    Risks("degraded", {x \in RateFields : Given(check, x) /\ Field(check, x) < 1000}),
    Risks("degraded", {x \in {"avg_delta"} : Given(check, x) /\ Field(check, x) <= 0}),
    Risks("warning", {x \in {"repair_work_orders"} : Field(check, x) > 0})}

WorstRiskStatus(risks) ==
  LET severities == {r.severity : r \in risks}
  IN  CASE "critical" \in severities -> "CRITICAL"
        [] "critical" \notin severities /\ "degraded" \in severities -> "DEGRADED"
        [] severities = {"warning"} -> "WARNING"
        [] OTHER -> "HEALTHY"

Unhealthy == {"DEGRADED", "CRITICAL"}

Previous(past, id) == IF id \in DOMAIN past THEN past[id] ELSE [count |-> 0, last |-> {}]

\* Mutant: a check that passes starts the count again, whatever its risks.
ConsecutiveFailuresMutant(check, previous) == IF check.ok THEN 0 ELSE previous.count + 1

ConsecutiveFailures(check, previous) ==
  IF check.ok /\ WorstRiskStatus(RiskSignalsForCheck(check)) \notin Unhealthy THEN 0 ELSE previous.count + 1

CooldownActive(status, previous, now) ==
  status \in Unhealthy /\ \E t \in previous.last : now - t < Cooldown

ClassifyComponent(check, past, now, threshold) ==
  LET previous == Previous(past, check.name)
      risks == RiskSignalsForCheck(check)
      failures == ConsecutiveFailures(check, previous)
      status == IF check.ok THEN WorstRiskStatus(risks)
                ELSE IF failures >= Max({1, threshold}) THEN "CRITICAL" ELSE "DEGRADED"
  IN  [name |-> check.name, ok |-> check.ok, status |-> status, risks |-> risks, count |-> failures,
       cooldown |-> CooldownActive(status, previous, now), last |-> previous.last]

PolicyRisks ==
  {"positive_lift_rate", "avg_delta", "missed_review_worthy", "noise_selected", "repair_work_orders"}

CandidateRoute(component) ==
  CASE component.status = "CRITICAL" -> "damping"
    [] component.status # "CRITICAL" /\ \E r \in component.risks : r.code \in PolicyRisks -> "policy"
    [] component.status = "DEGRADED" /\ \A r \in component.risks : r.code \notin PolicyRisks -> "damping"
    [] OTHER -> "ignore"

DiagnosticCandidate(component) ==
  [component |-> component.name, route |-> CandidateRoute(component),
   severity |-> IF component.status = "CRITICAL" THEN "P1" ELSE "P2"]

OverallStatus(components) ==
  LET all == {x.status : x \in components}
  IN  CASE "CRITICAL" \in all -> "CRITICAL"
        [] "CRITICAL" \notin all /\ "DEGRADED" \in all -> "DEGRADED"
        [] all \cap Unhealthy = {} /\ "WARNING" \in all -> "WARNING"
        [] OTHER -> "HEALTHY"

-----------------------------------------------------------------------------
(* The five reducers.                                                      *)

FindCheck(checks, name) == {x \in checks : x.name = name}
Judge(present, healthy) == IF ~present THEN "NO_DATA" ELSE IF healthy THEN "HEALTHY" ELSE "DEGRADED"

RegisteredSteps ==
  {"prepare_context", "draft_candidate", "pause_for_human", "resume_after_human", "run_local_gate",
   "complete", "hold", "error"}

\* An artifact may give the counts; a dry run stands for one output.
SessionHealth(found) ==
  Judge(found # {},
        \A x \in found :
          IF Given(x, "total_outputs")
          THEN x.data.total_outputs > 0 /\ Ratio(x.data.schema_valid_outputs, x.data.total_outputs) >= 950
          ELSE x.ok)

RuntimeHealth(found) == Judge(found # {}, \A x \in found : x.data.next_step \in RegisteredSteps)

\* The middle latency of an even number is the upper one.
Median(latencies) ==
  CHOOSE t \in latencies : Cardinality({u \in latencies : u < t}) = Cardinality(latencies) \div 2

InboxHealth(found) ==
  Judge(found # {},
        \A x \in found :
          /\ Ratio(x.data.dead_letters, Max({1, x.data.total_messages})) = 0
          /\ x.data.latencies = {} \/ Median(x.data.latencies) <= Cooldown)

\* Without a check of the store, what it did not say counts as written.
VectorHealth(stores, ranks) ==
  LET failures == IF stores = {} THEN 3
                  ELSE Cardinality((UNION {x.effects : x \in stores})
                                   \cap {"local_vector_store_written", "zilliz_written", "embedding_created"})
      rates == {x.data.top1_exact_recall : x \in ranks}
  IN  Judge(rates # {} \/ failures > 0, rates # {} /\ failures = 0 /\ \A v \in rates : v >= 1000)

ToolFailures(check) ==
  Field(check, "failed_tool_result_count") + Field(check, "unmatched_tool_intent_count")
  + Field(check, "tool_events_missing_evidence_count")

ToolLoopHealth(found) ==
  LET sampled == {x \in found : Field(x, "tool_event_count") > 0}
  IN  Judge(sampled # {},
            \A x \in sampled :
              LET events == x.data.tool_event_count
              IN  /\ 1000 - Ratio(Min({ToolFailures(x), events}), events) >= 1000
                  /\ Ratio(x.data.tool_events_with_evidence_refs, events) >= 1000
                  /\ ToolFailures(x) = 0)

BuildHealthReducers(checks) ==
  [session |-> SessionHealth(FindCheck(checks, "session")),
   thread |-> RuntimeHealth(FindCheck(checks, "thread")),
   inbox |-> InboxHealth(FindCheck(checks, "inbox")),
   vector |-> VectorHealth(FindCheck(checks, "store"), FindCheck(checks, "rank")),
   tools |-> ToolLoopHealth(FindCheck(checks, "hermes"))]

-----------------------------------------------------------------------------
(* A review.                                                               *)

BuildComponentHealthDiagnostics(checks, past, now, threshold) ==
  LET components == {ClassifyComponent(x, past, now, threshold) : x \in checks}
      open == {x \in components : x.status \in Unhealthy /\ ~x.cooldown}
  IN  [status |-> OverallStatus(components), components |-> components, at |-> now, threshold |-> threshold,
       candidates |-> {DiagnosticCandidate(x) : x \in open}, reducers |-> BuildHealthReducers(checks)]

\* Of the components of this review only.
NextHistory(health) ==
  [id \in {x.name : x \in health.components} |->
     LET component == CHOOSE x \in health.components : x.name = id
     IN  [count |-> component.count,
          last |-> IF \E d \in health.candidates : d.component = id THEN {health.at} ELSE component.last]]

\* Inside the smoke the health has no history and the default setpoint.
SmokeOk(base, smoke) ==
  /\ \A x \in base \cup {NoLiveWritesCheck(smoke)} : x.ok
  /\ BuildComponentHealthDiagnostics(base, <<>>, 0, 3).status \notin Unhealthy

ReviewHealth(smoke, past, now, threshold) ==
  LET base == BaseChecks(smoke)
      health == BuildComponentHealthDiagnostics(base \cup {NoLiveWritesCheck(smoke)}, past, now, threshold)
  IN  [status |-> health.status, components |-> health.components, at |-> now, threshold |-> threshold,
       candidates |-> health.candidates, reducers |-> health.reducers,
       smokeOk |-> SmokeOk(base, smoke), ran |-> smoke]

\* Bookkeeping for the properties.
Names == DOMAIN SummarizedEffects \cup {"boundary"}
Logged(health) ==
  [id \in Names |->
     IF \E x \in health.components : x.name = id
     THEN [unhealthy |-> IF \E x \in health.components : x.name = id /\ x.status \in Unhealthy
                         THEN log[id].unhealthy + 1 ELSE 0,
           diagnosed |-> log[id].diagnosed
                         \cup {health.at : d \in {e \in health.candidates : e.component = id}}]
     ELSE log[id]]

Init ==
  /\ clock = 0
  /\ history = <<>>
  /\ result = {}
  /\ log = [id \in Names |-> [unhealthy |-> 0, diagnosed |-> {}]]
  /\ reviews = 0

\* The owner hands the history of one review to the next.
Review(smoke, threshold) ==
  /\ reviews < MaxReviews
  /\ LET health == ReviewHealth(smoke, history, clock, threshold)
     IN  /\ result' = {health}
         /\ history' = NextHistory(health)
         /\ log' = Logged(health)
  /\ reviews' = reviews + 1
  /\ UNCHANGED clock

Wait ==
  /\ clock < MaxClock
  /\ clock' = clock + 1
  /\ UNCHANGED <<history, result, log, reviews>>

Next ==
  \/ \E smoke \in Smokes, threshold \in Thresholds : Review(smoke, threshold)
  \/ Wait

Spec == Init /\ [][Next]_vars

-----------------------------------------------------------------------------
(* Correctness properties.                                                 *)

\* Type correctness: statuses, candidates and history stay within their kinds.
TypeOK ==
  /\ clock \in 0..MaxClock /\ reviews \in 0..MaxReviews
  /\ \A id \in DOMAIN history :
       /\ history[id].count \in 0..MaxReviews
       /\ history[id].last \subseteq 0..MaxClock /\ Cardinality(history[id].last) <= 1
  /\ \A r \in result :
       /\ r.status \in {"HEALTHY", "WARNING"} \cup Unhealthy
       /\ \A d \in r.candidates : d.route \in {"damping", "policy"} /\ d.severity \in {"P1", "P2"}
       /\ \A x \in DOMAIN r.reducers : r.reducers[x] \in {"HEALTHY", "DEGRADED", "NO_DATA"}

\* A failing check is critical when, and only when, the last reviews of its component were all
\* unhealthy, as many as the setpoint of the review asks for, whatever made them so.
EscalationIsEarned ==
  \A r \in result : \A x \in r.components :
    ~x.ok => (x.status = "CRITICAL" <=> log[x.name].unhealthy >= r.threshold)

\* Two diagnoses of one component are at least a day apart.
CooldownHolds ==
  \A id \in Names : \A t, u \in log[id].diagnosed : t # u => t + Cooldown <= u \/ u + Cooldown <= t

\* A component that is unhealthy at a review was diagnosed within the last day.
NoFailureIsSilent ==
  \A r \in result : \A x \in r.components :
    x.status \in Unhealthy => \E t \in log[x.name].diagnosed : r.at < t + Cooldown

\* The tool loop's reducer calls the loop healthy only when no event of it failed, stayed without
\* a result or without evidence; the vector store's only when no check of it reports a write.
ReducersAgree ==
  \A r \in result :
    /\ r.reducers.tools = "HEALTHY" =>
         /\ "hermes" \in DOMAIN r.ran /\ r.ran["hermes"].data.unmatched = 0
         /\ \A i \in 1..Len(r.ran["hermes"].data.events) :
              ~r.ran["hermes"].data.events[i].failed /\ r.ran["hermes"].data.events[i].refs > 1
    /\ r.reducers.vector = "HEALTHY" =>
         "store" \in DOMAIN r.ran /\ r.ran["store"].effects \cap SummarizedEffects.store = {}

\* A smoke passes only when no module reports an effect that the boundary guards, no quality got
\* worse, and the first review of its checks finds no unhealthy component.
PassedSmokeIsClean ==
  \A r \in result :
    r.smokeOk =>
      /\ \A x \in DOMAIN r.ran :
           r.ran[x].effects \cap {"live_effect_allowed", "writes_persistent_memory", "zilliz_written"} = {}
      /\ r.status \notin Unhealthy
=============================================================================
