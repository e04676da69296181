------------------------- MODULE HermesDistillation -------------------------
(***************************************************************************)
(* From a finished Hermes distillation artifact to the control layer       *)
(* (scripts/lib/hermes-distillation-mapper.mjs): the artifact is           *)
(* classified, passed through the local distiller as one source, and, when *)
(* it shows a failure, a risk or a quality verdict, routed to a work order *)
(* by the router under its default policy.                                 *)
(*                                                                         *)
(* An artifact is [sources, audits, others] (how many refs of each kind),  *)
(* flagged (a high-risk flag, or a text that names such a surface),        *)
(* failure (a failure signal, or a text that says so), matches (the rules  *)
(* of the distiller that its summary matches), verdict, level, hints (its  *)
(* signals) and turns.  A source kind of Farcaster quality reports acts as *)
(* the signal operator_quality does and is left out.                       *)
(***************************************************************************)
EXTENDS SessionDistiller

CONSTANTS
  Hints,     \* signals an artifact may carry
  Turns,     \* turns it may carry
  Matches,   \* rule sets its summary may match
  MaxHints   \* bound: the signals of one artifact

R == INSTANCE WorkOrderRouting
       WITH Texts <- {}, Reports <- {}, Candidates <- {}, Policies <- {}, MaxReports <- 0,
            file <- {}, reports <- {}, routing <- {}, output <- "none"

VARIABLES
  artifact,  \* the artifact as its owner has completed it so far
  mapping    \* its latest mapping: a set of at most one

vars == <<artifact, mapping>>

-----------------------------------------------------------------------------
(* Classification.                                                         *)

\* The signals are part of the text that is searched: credential_boundary says "credential".
ClassifyInput(a) ==
  [highRisk |-> a.flagged \/ a.level = "critical" \/ "credential_boundary" \in a.hints,
   operatorQuality |-> a.verdict # "unset" \/ a.hints \cap {"operator_quality", "persona_style_drift"} # {},
   repeatedFailure |-> a.failure \/ "repeated_failure_pattern" \in a.hints,
   missingEvidence |-> a.sources = 0 \/ a.audits = 0]

ExtractRiskLevel(a, c) ==
  CASE a.level # Absent -> a.level
    [] a.level = Absent /\ c.highRisk -> "critical"
    [] a.level = Absent /\ ~c.highRisk /\ c.operatorQuality -> "high"
    [] a.level = Absent /\ ~c.highRisk /\ ~c.operatorQuality /\ c.repeatedFailure -> "medium"
    [] OTHER -> "low"

HighRiskSignals ==
  {"explicit_user_boundary", "public_posting_boundary", "production_boundary",
   "credential_boundary", "durable_memory_write_boundary"}
QualitySignals ==
  {"operator_quality", "farcaster_low_quality_reply", "persona_style_drift", "public_posting_boundary"}

EvidenceSignals(c) ==
  IF c.missingEvidence THEN {"needs_evidence", "explicit_user_boundary"} ELSE {}

SignalsFor(a, c) ==
  a.hints
    \cup (IF c.highRisk THEN HighRiskSignals ELSE {})
    \cup (IF c.operatorQuality THEN QualitySignals ELSE {})
    \cup (IF c.repeatedFailure THEN {"repeated_failure_pattern"} ELSE {})
    \cup EvidenceSignals(c)
    \cup (IF c.highRisk \/ c.operatorQuality \/ c.repeatedFailure THEN {} ELSE {"stable_project_fact"})

-----------------------------------------------------------------------------
(* The local source and its lessons.                                       *)

SourceKindFor(c) ==
  CASE c.operatorQuality -> "farcaster_audit"
    [] ~c.operatorQuality /\ c.repeatedFailure -> "failure_log"
    [] OTHER -> "chat_window"

\* Without turns a high-risk artifact is one fixed sentence about a policy boundary,
\* which matches no rule; any other is its summary.
TurnsFor(a, c) ==
  CASE a.turns # <<>> -> a.turns
    [] a.turns = <<>> /\ c.highRisk -> <<[matches |-> {}, denies |-> FALSE, secret |-> FALSE]>>
    [] OTHER -> <<[matches |-> a.matches, denies |-> FALSE, secret |-> FALSE]>>

AllRefs(a) == a.sources + a.audits + a.others

BuildLocalDistillationSource(a, c) ==
  [kind |-> SourceKindFor(c), turns |-> TurnsFor(a, c), hints |-> SignalsFor(a, c),
   evidence |-> {IF AllRefs(a) = 0 THEN 1 ELSE AllRefs(a)}, risk |-> ExtractRiskLevel(a, c),
   channel |-> IF c.operatorQuality THEN "farcaster" ELSE "local",
   refs |-> IF AllRefs(a) = 0 THEN {} ELSE {"external"}, toolErrors |-> FALSE]

-----------------------------------------------------------------------------
(* Routing.                                                                *)

Choose(c, missing, risk, quality, other) ==
  CASE c.missingEvidence -> missing
    [] ~c.missingEvidence /\ c.highRisk -> risk
    [] ~c.missingEvidence /\ ~c.highRisk /\ c.operatorQuality -> quality
    [] OTHER -> other

RouteTargetsFor(c, lessons) ==
  Choose(c, {"needs_evidence"}, {"human_owner"}, {"operator_quality"},
         IF c.repeatedFailure THEN {"case", "repair_ticket", "work_order"}
         ELSE {l.expectedRoute : l \in lessons} \ {"ignore"})

RoutingStatusFor(c) == Choose(c, "blocked", "human_review", "ask_before_execution", "ready")

SuggestedExecutorFor(c) ==
  Choose(c, "human_owner", "human_owner", "persona_operator_agent",
         IF c.repeatedFailure THEN "specialized_engineering_agent" ELSE "primary_agent")

\* Whether evidence is missing makes no difference to the ticket.
BuildRepairTicket(c) ==
  LET ticket(kind, severity, status) ==
        [source |-> kind, kind |-> kind, severity |-> severity, status |-> status,
         repro |-> 3, acceptance |-> 4, mayEdit |-> 5]
  IN  CASE c.highRisk -> {ticket("hermes_distillation_high_risk", "P0", "must_fix")}
        [] ~c.highRisk /\ c.repeatedFailure ->
             {ticket("hermes_distillation_repeated_failure", "P2", "repair_candidate")}
        [] OTHER -> {}

\* Two recommendations of the mapper follow those of the report.
BuildOperatorReport(a) ==
  [date |-> 1, verdict |-> IF a.verdict = "unset" THEN "tighten" ELSE a.verdict,
   recommendations |-> 2, pooled |-> 0]

OperatorReports(a, c) ==
  IF c.operatorQuality /\ ~c.missingEvidence /\ ~c.highRisk THEN {BuildOperatorReport(a)} ELSE {}

DefaultCaller == [mode |-> "risk_graded_default", allowed |-> "unset", maxSeverity |-> "unset", categories |-> {"unset"}]

\* A ticket keeps the report from being routed.
WorkOrders(a, c) ==
  LET tickets == BuildRepairTicket(c)
  IN  R!BuildWorkOrderRouting(tickets, IF tickets = {} THEN OperatorReports(a, c) ELSE {},
                              DefaultCaller).orders

\* The checks that are not fixed; "ok" of the mapping is true whatever they say.
ChecksFor(c, lessons, orders) ==
  {ch \in {<<"traceability_gate", ~c.missingEvidence>>,
           <<"learning_events_emitted", lessons # {}>>,
           <<"no_autonomous_execution", \A o \in orders : ~o.auto>>} : ~ch[2]}

MapHermesDistillation(a) ==
  LET Mapping(c, lessons, orders) ==
        [class |-> c, lessons |-> {[route |-> l.expectedRoute, risk |-> l.risk] : l \in lessons},
         tickets |-> BuildRepairTicket(c), reports |-> OperatorReports(a, c), orders |-> orders,
         status |-> RoutingStatusFor(c), targets |-> RouteTargetsFor(c, lessons),
         executor |-> SuggestedExecutorFor(c), asks |-> c.operatorQuality \/ c.repeatedFailure \/ c.highRisk,
         failed |-> {ch[1] : ch \in ChecksFor(c, lessons, orders)}]
      Classified(c) == Mapping(c, BuildAtomicLessons(BuildLocalDistillationSource(a, c)), WorkOrders(a, c))
  IN  Classified(ClassifyInput(a))

-----------------------------------------------------------------------------
Init ==
  /\ artifact \in [sources : {0}, audits : {0}, others : {0}, flagged : {FALSE},
                   matches : Matches, verdict : {"unset"}, failure : {FALSE},
                   level : {Absent, "critical", "low"}, hints : {{}}, turns : {<<>>}]
  /\ mapping = {}

\* The artifact is completed and mapped again.
Remap(a) == artifact' = a /\ mapping' = {MapHermesDistillation(a)}

AttachRef == \E field \in {"sources", "audits", "others"} :
  artifact[field] = 0 /\ Remap([artifact EXCEPT ![field] = 1])
FlagSurface == ~artifact.flagged /\ Remap([artifact EXCEPT !.flagged = TRUE])
Judge == \E v \in {"tighten", "watch", "healthy"} : artifact.verdict = "unset" /\ Remap([artifact EXCEPT !.verdict = v])
ReportFailure == ~artifact.failure /\ Remap([artifact EXCEPT !.failure = TRUE])
Signal == \E s \in Hints \ artifact.hints :
  Cardinality(artifact.hints) < MaxHints /\ Remap([artifact EXCEPT !.hints = @ \cup {s}])
Quote == \E t \in Turns : artifact.turns = <<>> /\ Remap([artifact EXCEPT !.turns = <<t>>])

Next == AttachRef \/ FlagSurface \/ Judge \/ ReportFailure \/ Signal \/ Quote

Spec == Init /\ [][Next]_vars

-----------------------------------------------------------------------------
(* Properties.                                                             *)

TypeOK ==
  /\ artifact.sources \in 0..1 /\ artifact.audits \in 0..1 /\ artifact.others \in 0..1
  /\ artifact.hints \subseteq Hints
  /\ \A mp \in mapping : /\ mp.status \in {"blocked", "human_review", "ask_before_execution", "ready"}
                         /\ Cardinality(mp.orders) <= 1
                         /\ mp.lessons # {}

\* An artifact that touches a high-risk surface, and whatever else it shows, has a
\* critical order for the human owner that no agent may execute, and teaches the
\* learning loop a policy boundary.
HighRiskStopsAtOwner ==
  \A mp \in mapping : mp.class.highRisk =>
    /\ mp.executor = "human_owner"
    /\ \E o \in mp.orders : o.executor = "human_owner" /\ o.risk = "critical" /\ ~o.auto
    /\ \E l \in mp.lessons : l.route = "policy"

\* An artifact without its refs is nobody's to work on but the owner's, and the loop
\* learns from it that there is a boundary.
MissingEvidenceIsBlocked ==
  \A mp \in mapping : artifact.sources = 0 \/ artifact.audits = 0 =>
    /\ mp.status = "blocked" /\ mp.targets = {"needs_evidence"} /\ mp.executor = "human_owner"
    /\ \E l \in mp.lessons : l.route = "policy"

\* The one pair of signals that no lesson survives: the case lesson takes the skill
\* route for the change it mentions, and the failure keeps it out of a skill.
FailureAfterChange(signals) ==
  /\ "repeated_failure_pattern" \in signals
  /\ HasAnySignal(signals, {"external_framework_change", "competitor_change"})

\* Whatever the turns and signals of a normal artifact, the distiller finds it a route
\* unless they tell of a failure after a change: an artifact that is ready is else
\* never ready for nothing.
ReadyHasTarget ==
  \A mp \in mapping :
    /\ mp.status = "ready"
    /\ ~FailureAfterChange(SourceSignals(BuildLocalDistillationSource(artifact, mp.class)))
    => mp.targets # {}

\* More findings about an artifact never take it from the human owner: only a missing
\* ref that is supplied does.
FindingsNeverRelease ==
  \A mp \in mapping, nx \in mapping' :
   /\ mp.executor = "human_owner"
   /\ artifact'.sources = artifact.sources /\ artifact'.audits = artifact.audits
   => nx.executor = "human_owner"
=============================================================================
