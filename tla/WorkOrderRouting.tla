-------------------------- MODULE WorkOrderRouting --------------------------
(***************************************************************************)
(* From evidence to work orders: machine-readable artifacts that are or    *)
(* are not strict JSON (scripts/lib/json-handoff-contract.mjs), the repair *)
(* tickets and operator reports the router turns into orders under a       *)
(* routing policy (scripts/lib/work-order-router.mjs), the orders made of  *)
(* Hermes candidates (scripts/lib/hermes-work-order.mjs) and the packets   *)
(* that ask the owner (scripts/lib/human-escalation.mjs).                  *)
(*                                                                         *)
(* A list of an order is its length.  The orders of a routing are a set:   *)
(* their rank in the list is left out, and so are texts and labels.        *)
(***************************************************************************)
EXTENDS Integers, FiniteSets

CONSTANTS
  Texts,       \* what a --repair-ticket-file may hold
  Reports,     \* operator reports
  Candidates,  \* Hermes candidates
  Policies,    \* routing policies a caller may pass
  MaxReports   \* bound: the reports one call is given

VARIABLES
  file,      \* the text of the ticket file
  reports,   \* the reports of the next call
  routing,   \* the latest routing of file and reports: a set of at most one
  output     \* the artifacts of that routing: "none", "json" or "both"

vars == <<file, reports, routing, output>>

Severities == {"P0", "P1", "P2", "P3"}
SeverityRank(s) ==
  CASE s = "P0" -> 0 [] s = "P1" -> 1 [] s = "P2" -> 2 [] OTHER -> 3
SeverityRisk(s) ==
  CASE s = "P0" -> "critical" [] s = "P1" -> "high" [] s = "P2" -> "medium" [] OTHER -> "low"

-----------------------------------------------------------------------------
(* Strict JSON or a diagnostic.  A text is [strict, banner, first, payload, *)
(* tickets]: the tickets it would yield if it parsed.                      *)

Parses(text) == text.strict

ClassifyJsonParseFailure(text) ==
  CASE text.banner -> "npm_lifecycle_banner_before_json"
    [] ~text.banner /\ text.first = "other" -> "leading_non_json_stdout"
    [] ~text.banner /\ text.first # "other" /\ text.payload -> "mixed_or_truncated_json_stdout"
    [] OTHER -> "invalid_machine_json_artifact"

TicketFromJsonHandoffDiagnostic(text) ==
  [source |-> ClassifyJsonParseFailure(text), severity |-> "P2", status |-> "repair_candidate",
   kind |-> "json_handoff_contract", repro |-> 4, acceptance |-> 6, mayEdit |-> 8]

ReadRepairTicketReview(text) ==
  IF Parses(text) THEN text.tickets ELSE {TicketFromJsonHandoffDiagnostic(text)}

-----------------------------------------------------------------------------
(* Orders of repair tickets and of operator reports.                       *)

Gate(complex, valuable, doable, cost, verdict) ==
  [complex |-> complex, valuable |-> valuable, doable |-> doable, cost |-> cost, verdict |-> verdict]

TaskGateForRepairTicket(t) ==
  LET valuable == t.status # "observe_only"
      doable == t.repro > 0 /\ t.acceptance > 0 /\ t.mayEdit > 0
      critical == t.severity = "P0"
  IN  Gate(t.severity # "P3" \/ t.mayEdit > 1 \/ t.repro > 1, valuable, doable,
           IF critical THEN "high" ELSE "medium",
           CASE critical -> "human_owner_review_before_delegate"
             [] ~critical /\ valuable /\ doable -> "ask_user_then_delegate"
             [] OTHER -> "hold_or_observe")

ExecutorForRepairTicket(t) ==
  CASE t.severity = "P0" -> "human_owner"
    [] t.severity # "P0" /\ t.status = "observe_only" -> "primary_agent"
    [] OTHER -> "specialized_engineering_agent"

\* Mutant: a must-fix ticket may be worked on like any other.
SelfEvolutionAllowedMutant(t) == t.status # "observe_only"

SelfEvolutionAllowed(t) == t.status # "observe_only" /\ t.severity # "P0"

WorkOrderFromRepairTicket(t) ==
  LET gate == TaskGateForRepairTicket(t)
  IN  [id |-> <<"ticket", t.source>>, category |-> "engineering_repair", kind |-> t.kind,
       severity |-> t.severity, risk |-> SeverityRisk(t.severity), status |-> "pending_user_choice",
       executor |-> ExecutorForRepairTicket(t), gate |-> gate,
       refs |-> 2, repro |-> t.repro, acceptance |-> t.acceptance, editable |-> t.mayEdit, forbidden |-> 5,
       byChoice |-> FALSE, delivery |-> "report_to_user_before_execution",
       confirm |-> TRUE, auto |-> FALSE, selfEvolution |-> SelfEvolutionAllowed(t),
       selfReview |-> t.status # "observe_only", selfResolve |-> FALSE, ownerReport |-> TRUE,
       next |-> IF gate.verdict = "hold_or_observe" THEN "explain_and_hold" ELSE "ask_user_to_choose_executor",
       escalation |-> t.status # "observe_only", stronger |-> FALSE]

VerdictSeverity(verdict) ==
  CASE verdict = "tighten" -> "P1" [] verdict = "watch" -> "P2" [] OTHER -> "P3"

\* A report is [date, verdict, recommendations, pooled]; without recommendations of
\* its operator quality the report's own, the pooled ones, are used.  byChoice: the
\* order says that behaviour can change only after user choice.
WorkOrderFromOperationalQualityReport(r) ==
  LET severity == VerdictSeverity(r.verdict)
      risk == SeverityRisk(severity)
      recommendations == IF r.recommendations = 0 THEN r.pooled ELSE r.recommendations
  IN  [id |-> <<"operator", r.date>>, category |-> "operator_quality", kind |-> "operator_quality_report",
       severity |-> severity, risk |-> risk, status |-> "pending_user_choice",
       executor |-> "persona_operator_agent",
       gate |-> Gate(severity # "P3", severity # "P3", recommendations > 0,
                     IF risk = "high" THEN "medium" ELSE "low",
                     IF severity = "P3" THEN "hold_or_observe" ELSE "ask_user_then_delegate"),
       refs |-> 2, repro |-> 0, acceptance |-> 3, editable |-> 2, forbidden |-> 4,
       byChoice |-> TRUE, delivery |-> "report_to_user_before_execution",
       confirm |-> TRUE, auto |-> FALSE, selfEvolution |-> TRUE, selfReview |-> TRUE,
       selfResolve |-> FALSE, ownerReport |-> TRUE,
       next |-> IF severity = "P3" THEN "explain_and_hold" ELSE "ask_user_to_choose_executor",
       escalation |-> TRUE, stronger |-> FALSE]

-----------------------------------------------------------------------------
(* Routing policies.  A caller's policy is [mode, allowed, maxSeverity,    *)
(* categories]; "unset" or {"unset"}: the caller did not pass the switch.  *)

AutonomousModes ==
  {"risk_graded_default", "agent_autonomous_low_risk", "agent_autonomous_within_scope", "full_agent"}
AskingModes == {"report_only", "ask_before_execution"}

ModeAllows(mode) == mode = "risk_graded_default" \/ mode \notin AutonomousModes \cup AskingModes
ModeCategories(mode) ==
  IF mode = "full_agent" \/ ModeAllows(mode) THEN {"*"} ELSE {}

NormalizeRoutingPolicy(p) ==
  IF p.mode \in AskingModes
  THEN [mode |-> p.mode, allowed |-> FALSE, categories |-> {},
        maxSeverity |-> IF p.maxSeverity = "unset" THEN "P3" ELSE p.maxSeverity]
  ELSE [mode |-> p.mode,
        allowed |-> IF p.allowed = "unset" THEN ModeAllows(p.mode) ELSE p.allowed = "yes",
        maxSeverity |-> IF p.maxSeverity = "unset" THEN "P3" ELSE p.maxSeverity,
        categories |-> IF p.categories = {"unset"} THEN ModeCategories(p.mode) ELSE p.categories]

SeverityAllowedForAuto(severity, maxSeverity) == SeverityRank(severity) >= SeverityRank(maxSeverity)
CategoryAllowedForAuto(category, categories) == "*" \in categories \/ category \in categories

\* No order of the router allows a durable or public effect.
AutoCandidate(o, policy) ==
  /\ policy.allowed
  /\ policy.mode \in AutonomousModes
  /\ o.selfEvolution
  /\ \/ policy.mode = "full_agent"
     \/ /\ SeverityAllowedForAuto(o.severity, policy.maxSeverity)
        /\ CategoryAllowedForAuto(o.category, policy.categories)

AgentReviewOnly(o, policy) ==
  ~AutoCandidate(o, policy) /\ policy.mode \in AutonomousModes /\ o.selfReview

StrongerRecommended(o) ==
  o.risk \in {"critical", "high"} \/ o.editable >= 4 \/ (o.gate.complex /\ o.gate.cost # "low")

DeliveryPolicy(o, policy) ==
  CASE policy.mode = "report_only" -> "report_only_wait_for_user"
    [] AutoCandidate(o, policy) -> "notify_then_execute_within_scope"
    [] AgentReviewOnly(o, policy) -> "deliver_to_agent_for_review"
    [] OTHER -> "report_to_user_before_execution"

DefaultNextStep(o, policy) ==
  CASE policy.mode = "report_only" -> "report_only_wait"
    [] AutoCandidate(o, policy) -> "execute_within_scope"
    [] AgentReviewOnly(o, policy) ->
         IF o.gate.verdict = "hold_or_observe" THEN "agent_review_then_hold"
         ELSE "agent_self_review_then_report_owner"
    [] OTHER -> o.next

OwnerReportRequired(o, policy) ==
  CASE policy.mode = "report_only" -> TRUE
    [] AutoCandidate(o, policy) -> FALSE
    [] AgentReviewOnly(o, policy) -> TRUE
    [] OTHER -> o.ownerReport

RequiresUserConfirmation(o, policy) ==
  CASE policy.mode = "report_only" -> TRUE
    [] AutoCandidate(o, policy) \/ AgentReviewOnly(o, policy) -> FALSE
    [] OTHER -> o.confirm

ApplyRoutingPolicy(o, policy) ==
  LET auto == AutoCandidate(o, policy)
  IN  [o EXCEPT !.status = CASE auto -> "agent_ready_to_execute"
                             [] AgentReviewOnly(o, policy) -> "pending_agent_review"
                             [] OTHER -> @,
                !.delivery = DeliveryPolicy(o, policy), !.next = DefaultNextStep(o, policy),
                !.confirm = RequiresUserConfirmation(o, policy), !.auto = auto, !.selfResolve = auto,
                !.ownerReport = OwnerReportRequired(o, policy), !.stronger = StrongerRecommended(o)]

\* A P3 report without recommendations of its operator quality yields no order.
BuildWorkOrderRouting(tickets, given, caller) ==
  LET policy == NormalizeRoutingPolicy(caller)
      orders == {WorkOrderFromRepairTicket(t) : t \in tickets}
                \cup {WorkOrderFromOperationalQualityReport(r) :
                        r \in {q \in given : VerdictSeverity(q.verdict) # "P3" \/ q.recommendations > 0}}
  IN  [source |-> "router", caller |-> caller, policy |-> policy,
       orders |-> {ApplyRoutingPolicy(o, policy) : o \in orders}]

-----------------------------------------------------------------------------
(* Orders of Hermes candidates [id, type, surface, boundary, memoryWrite,  *)
(* events, evidence, operational, optimizes] under a measurement verdict.  *)

SeverityForCandidate(c) == IF c.memoryWrite \/ c.boundary THEN "P1" ELSE "P2"

CategoryForCandidate(c) ==
  CASE c.type = "skill_variant" -> "hermes_skill_evolution"
    [] c.type = "policy_boundary_variant" -> "hermes_policy_boundary"
    [] c.type = "research_followup" -> "hermes_research_followup"
    [] c.type = "damping_rule_candidate" -> "hermes_damping"
    [] OTHER -> "hermes_runtime_signal"

ExecutorForCandidate(c, severity) ==
  IF severity # "P1" /\ c.surface = "skill" THEN "specialized_engineering_agent" ELSE "primary_agent"

AcceptanceForCandidate(c) ==
  4 + (IF c.optimizes THEN 1 ELSE 0)
    + (IF CategoryForCandidate(c) = "hermes_runtime_signal" THEN 0 ELSE 1)

ForbiddenScopeForCandidate(c) == IF c.surface = "policy" THEN 6 ELSE 5

SourceRefsForCandidate(c, measured) ==
  c.events + c.evidence + (IF c.optimizes THEN 1 ELSE 0) + (IF measured THEN 1 ELSE 0)

TaskGateForCandidate(c, severity) ==
  LET high == severity = "P1"
  IN  Gate(high \/ c.type # "research_followup", TRUE, c.evidence > 0 \/ c.events > 0,
           IF high THEN "medium" ELSE "low",
           IF high THEN "agent_self_review_then_owner_gate_for_durable_write"
           ELSE "agent_self_review_then_guarded_replay")

\* No candidate's adoption policy lets runtime state be written now.
AdoptionPolicyForCandidate(severity) ==
  [mode |-> IF severity = "P1" THEN "recommend_with_durable_write_gate" ELSE "guarded_agent_adoption_ready",
   writesNow |-> FALSE]

WorkOrderFromHermesCandidate(c, measured) ==
  LET severity == SeverityForCandidate(c)
      adoption == AdoptionPolicyForCandidate(severity)
  IN  [id |-> <<"hermes", c.id>>, category |-> CategoryForCandidate(c), kind |-> c.type,
       severity |-> severity, risk |-> SeverityRisk(severity), status |-> "pending_agent_review",
       executor |-> ExecutorForCandidate(c, severity), gate |-> TaskGateForCandidate(c, severity),
       refs |-> SourceRefsForCandidate(c, measured), repro |-> 2, acceptance |-> AcceptanceForCandidate(c),
       editable |-> 3, forbidden |-> ForbiddenScopeForCandidate(c),
       byChoice |-> FALSE, delivery |-> "deliver_to_agent_for_review",
       confirm |-> FALSE, auto |-> FALSE, selfEvolution |-> TRUE, selfReview |-> TRUE,
       selfResolve |-> ~adoption.writesNow, ownerReport |-> severity = "P1", next |-> adoption.mode,
       escalation |-> TRUE, stronger |-> FALSE]

BuildHermesWorkOrderRouting(candidates, measured) ==
  [source |-> "hermes", caller |-> [mode |-> "hermes"], policy |-> [mode |-> "hermes"],
   orders |-> {WorkOrderFromHermesCandidate(c, measured) : c \in candidates}]

-----------------------------------------------------------------------------
(* The owner's packets, and the machine.                                   *)

\* The orders a packet is made of; its authority policy has
\* agent_may_execute_without_decision false.
HumanEscalations(orders) ==
  {o \in orders : \/ o.executor = "human_owner"
                  \/ o.confirm
                  \/ o.risk \in {"critical", "high"}
                  \/ o.stronger}

Init ==
  /\ file \in Texts
  /\ reports = {}
  /\ routing = {}
  /\ output = "none"

SaveTickets == \E text \in Texts : /\ text # file
                                   /\ file' = text
                                   /\ routing' = {}
                                   /\ output' = "none"
                                   /\ UNCHANGED reports

AddReport == \E r \in Reports \ reports : /\ Cardinality(reports) < MaxReports
                                          /\ reports' = reports \cup {r}
                                          /\ routing' = {}
                                          /\ output' = "none"
                                          /\ UNCHANGED file

RouteWorkOrders == \E caller \in Policies :
  /\ routing' = {BuildWorkOrderRouting(ReadRepairTicketReview(file), reports, caller)}
  /\ output' = "none"
  /\ UNCHANGED <<file, reports>>

RouteHermes == \E c, d \in Candidates, measured \in BOOLEAN :
  /\ routing' = {BuildHermesWorkOrderRouting({c, d}, measured)}
  /\ output' = "none"
  /\ UNCHANGED <<file, reports>>

\* Two files, one after the other: the process may end between them.
WriteWorkOrderArtifacts ==
  /\ \E r \in routing : r.source = "router"
  /\ \/ output = "none" /\ output' = "json"
     \/ output = "json" /\ output' = "both"
  /\ UNCHANGED <<file, reports, routing>>

Next == SaveTickets \/ AddReport \/ RouteWorkOrders \/ RouteHermes \/ WriteWorkOrderArtifacts

Spec == Init /\ [][Next]_vars

-----------------------------------------------------------------------------
(* Properties.                                                             *)

Orders == UNION {r.orders : r \in routing}
ByRouter == \E r \in routing : r.source = "router"
InDefaultMode == \E r \in routing : r.policy.mode = "risk_graded_default" /\ r.caller.maxSeverity = "unset"

TypeOK ==
  /\ file \in Texts
  /\ reports \subseteq Reports
  /\ Cardinality(routing) <= 1
  /\ output \in {"none", "json", "both"}
  /\ \A o \in Orders : o.severity \in Severities /\ o.risk = SeverityRisk(o.severity)
                       /\ o.acceptance \in Nat \ {0} /\ o.refs \in Nat \ {0}

\* Whatever policy a caller passes, a critical order goes to the human owner: no agent
\* executes or resolves it, and the owner hears of it.
CriticalWaitsForOwner ==
  \A o \in Orders : o.risk = "critical" =>
    /\ ~o.auto /\ ~o.selfResolve
    /\ o.ownerReport
    /\ o.executor = "human_owner"
    /\ o \in HumanEscalations(Orders)

\* A file that is not strict JSON is one order about the handoff, and none of the
\* tickets that can be guessed from it is routed.
PollutionIsVisible ==
  ByRouter /\ ~file.strict =>
    /\ \E o \in Orders : o.kind = "json_handoff_contract" /\ o.severity = "P2"
    /\ Cardinality({o \in Orders : o.category = "engineering_repair"}) = 1

\* An order of the router that no policy lets the agent execute is reported to the
\* owner or waits for the user: the switches never cancel each other out.
EveryOrderHasAKeeper ==
  ByRouter => \A o \in Orders : o.auto \/ o.ownerReport \/ o.confirm

\* Modes that report or ask first, and modes the router does not know, never hand the
\* agent an order to execute, whatever else the caller asks for.
AskingModesAsk ==
  \A r \in routing : r.source = "router" /\ r.caller.mode \notin AutonomousModes =>
    \A o \in r.orders : ~o.auto /\ o.confirm /\ o.delivery # "notify_then_execute_within_scope"

\* A candidate of Hermes that asks for a memory write or shows a boundary signal never
\* becomes an order that is ready for adoption without an owner's gate.
BoundaryNeedsGate ==
  \A r \in routing : r.source = "hermes" =>
    \A c \in Candidates, o \in r.orders :
      o.id = <<"hermes", c.id>> /\ (c.boundary \/ c.memoryWrite) =>
        o.next = "recommend_with_durable_write_gate" /\ o.ownerReport

\* With the default mode's own severity limit no order is both handed to the agent for
\* execution and put before the owner as one that waits for a decision.
DefaultModeAgrees ==
  InDefaultMode => \A o \in HumanEscalations(Orders) : ~o.auto

\* Looser: same mode, and each switch at least as permissive.
Looser(p, q) ==
  /\ p.mode = q.mode
  /\ p.allowed => q.allowed
  /\ SeverityRank(q.maxSeverity) <= SeverityRank(p.maxSeverity)
  /\ p.categories \subseteq q.categories

\* A call with a looser policy on the same inputs keeps every order the agent may
\* execute: no switch takes back what another grants.
LooserPolicyKeepsAuto ==
  \A r \in routing, s \in routing' :
   r.source = "router" /\ s.source = "router" /\ Looser(r.policy, s.policy) =>
     {o.id : o \in {x \in r.orders : x.auto}} \subseteq {o.id : o \in {x \in s.orders : x.auto}}
=============================================================================
