-------------------------- MODULE SessionDistiller --------------------------
(***************************************************************************)
(* The local window distiller (scripts/lib/session-distiller.mjs): a       *)
(* redacted window of turns becomes one or more atomic lessons, each an    *)
(* event for the learning loop together with what the loop is expected to  *)
(* do with it.                                                             *)
(*                                                                         *)
(* A turn is the set of rules its text matches, with two facts about the   *)
(* text the rules cannot show: it reports that there was no failure, or it *)
(* carries a key that redaction replaces.  Left out: summaries, setpoints, *)
(* the token index, identifiers (a source yields at most one lesson of a   *)
(* route, so the route names the lesson).                                  *)
(***************************************************************************)
EXTENDS Naturals, Sequences, FiniteSets, FiniteSetsExt

Absent == "absent"   \* a risk level a source does not give; its evidence count, when
                     \* it gives one, is the member of a set

When(condition, x) == IF condition THEN {x} ELSE {}

LessonRouteSignals ==
  [policy  |-> {"explicit_user_boundary", "public_posting_boundary",
                "farcaster_public_memory_risk"},
   damping |-> {"candidate_replay_failed", "avoid_overreaction", "single_failure"},
   skill   |-> {"reusable_workflow", "external_framework_change", "competitor_change"},
   case    |-> {"repeated_failure_pattern", "knowledge_gap", "research_needed",
                "user_correction"},
   memory  |-> {"stable_user_preference", "stable_project_fact", "repeated_terminology"}]

LessonRoutes == DOMAIN LessonRouteSignals

LessonAllowedSignals ==
  [policy  |-> LessonRouteSignals.policy \cup {"stable_user_preference", "stable_project_fact"},
   damping |-> LessonRouteSignals.damping,
   skill   |-> LessonRouteSignals.skill \cup LessonRouteSignals.memory,
   case    |-> LessonRouteSignals.case
               \cup {"external_framework_change", "competitor_change",
                     "repeated_terminology", "stable_project_fact"},
   memory  |-> LessonRouteSignals.memory]

LessonFallbackSignal ==
  [policy |-> "explicit_user_boundary", damping |-> "single_failure",
   skill |-> "reusable_workflow", case |-> "repeated_failure_pattern",
   memory |-> "stable_project_fact"]

HasAnySignal(signals, candidates) == signals \cap candidates # {}
Of(signals, route) == HasAnySignal(signals, LessonRouteSignals[route])

-----------------------------------------------------------------------------
(* Segments.                                                               *)

\* The text "[REDACTED:SECRET]" itself matches the rule of public-memory risk.
RedactText(turn) ==
  IF turn.secret THEN turn.matches \cup {"farcaster_public_memory_risk"} ELSE turn.matches

ExtractSignalsFromText(turn, sourceKind) ==
  (RedactText(turn) \ IF turn.denies THEN {"repeated_failure_pattern"} ELSE {})
    \cup (IF sourceKind = "failure_log" THEN {"repeated_failure_pattern"} ELSE {})
    \cup (IF sourceKind = "farcaster_audit" THEN {"farcaster_reply_success"} ELSE {})

\* Without turns the source's summary is the only segment.
BuildSegments(source) ==
  LET turns == IF source.turns = <<>>
               THEN <<[matches |-> {}, denies |-> FALSE, secret |-> FALSE]>>
               ELSE source.turns
  IN  [i \in DOMAIN turns |-> ExtractSignalsFromText(turns[i], source.kind)]

-----------------------------------------------------------------------------
(* Routes.                                                                 *)

ExpectedRouteFor(signals) ==
  LET overreaction == HasAnySignal(signals, {"avoid_overreaction", "single_failure"})
      publicRisk == HasAnySignal(signals, {"public_posting_boundary",
                                           "farcaster_public_memory_risk"})
  IN  IF "candidate_replay_failed" \in signals \/ (overreaction /\ ~publicRisk) THEN "damping"
      ELSE IF Of(signals, "policy") THEN "policy"
      ELSE IF HasAnySignal(signals, {"knowledge_gap", "research_needed", "user_correction"}) THEN "case"
      ELSE IF HasAnySignal(signals, {"external_framework_change", "competitor_change", "reusable_workflow"}) THEN "skill"
      ELSE IF "repeated_failure_pattern" \in signals THEN "case"
      ELSE IF Of(signals, "memory") THEN "memory" ELSE "ignore"

\* What keeps a segment, or a whole source, out of a lesson of the route.
OutOfRoute(signals, route) ==
  CASE route = "policy" -> FALSE
    [] route = "damping" -> Of(signals, "policy")
    [] route = "skill" -> Of(signals, "policy") \/ Of(signals, "case") \/ Of(signals, "damping")
    [] route = "case" -> Of(signals, "policy") \/ Of(signals, "damping")
    [] OTHER -> \/ HasAnySignal(signals, {"reusable_workflow", "repeated_failure_pattern"})
                \/ Of(signals, "policy") \/ Of(signals, "damping")

SegmentSupportsLessonRoute(signals, route) ==
  Of(signals, route) /\ ~OutOfRoute(signals, route)

\* As for a segment, but a damping source may carry a boundary.
SourceLevelFallbackAllowed(sourceSignals, route) ==
  Of(sourceSignals, route) /\ (route = "damping" \/ ~OutOfRoute(sourceSignals, route))

-----------------------------------------------------------------------------
(* Lessons.                                                                *)

\* Mutant: the signals of the source are not cut to those of the route.
LessonSignalsForMutant(route, sourceSignals, segmentSignals) ==
  sourceSignals \cup UNION segmentSignals

\* The allowed signals of the segments and of the whole source; never none.
LessonSignalsFor(route, sourceSignals, segmentSignals) ==
  LET signals == ((UNION segmentSignals) \cup sourceSignals) \cap LessonAllowedSignals[route]
  IN  IF Of(signals, route) THEN signals ELSE signals \cup {LessonFallbackSignal[route]}

LessonEvidenceCountFor(route, source, segmentCount, signals) ==
  Max({IF route = "damping" THEN 1 ELSE 2, segmentCount + Cardinality(signals)} \cup source.evidence)

InferRiskLevel(source, signals) ==
  IF source.risk # Absent THEN source.risk
  ELSE IF HasAnySignal(signals, {"farcaster_public_memory_risk", "explicit_user_boundary"}) THEN "high"
  ELSE IF HasAnySignal(signals, LessonRouteSignals.case
            \cup {"farcaster_low_quality_reply", "external_framework_change", "competitor_change"}) THEN "medium"
  ELSE "low"

LessonRiskFor(route, source, signals) ==
  LET given(default) == IF source.risk = Absent THEN default ELSE source.risk
  IN  CASE route = "policy" ->
             IF HasAnySignal(signals, {"farcaster_public_memory_risk", "public_posting_boundary"})
             THEN "high" ELSE given("medium")
        [] route \in {"damping", "case"} -> "medium"
        [] route = "skill" /\ source.risk \in {"critical", "high"} -> "medium"
        [] route = "memory" /\ source.risk = "critical" -> "high"
        [] OTHER -> given("low")

LessonArtifactEvidenceFor(route, source) ==
  [refs |-> source.refs, toolErrors |-> route \in {"case", "damping"} /\ source.toolErrors]

ExpectationFor(route) ==
  CASE route = "policy" -> [status |-> "requires_approval",
                            publication |-> "requires_approval", state |-> "staged"]
    [] route = "damping" -> [status |-> "held", publication |-> "no_publish", state |-> "held"]
    [] route = "ignore" -> [status |-> "rejected", publication |-> "no_publish",
                            state |-> "rejected"]
    [] OTHER -> [status |-> "draft", publication |-> "draft_only", state |-> "staged"]

BuildLearningEvent(source, route, from, signals, evidence, risk, artifacts) ==
  LET expected == ExpectedRouteFor(signals)
  IN  [signals |-> signals, evidence |-> evidence, risk |-> risk, refs |-> artifacts.refs,
       toolErrors |-> artifacts.toolErrors, channel |-> source.channel, from |-> from,
       expectedRoute |-> expected, expectation |-> ExpectationFor(expected)]

SourceSignals(source) ==
  LET segments == BuildSegments(source)
  IN  source.hints \cup UNION {segments[i] : i \in DOMAIN segments}

\* One lesson for each route that segments, or failing them the source, support
\* and that the lesson's own signals lead back to; otherwise one to be ignored.
\* "from" is the indices of the lesson's segments.
BuildAtomicLessons(source) ==
  LET segments == BuildSegments(source)
      signals == SourceSignals(source)
      supporting(r) == {i \in DOMAIN segments : SegmentSupportsLessonRoute(segments[i], r)}
      from(r) == IF supporting(r) # {} THEN supporting(r) ELSE DOMAIN segments
      kept(r) == LessonSignalsFor(r, signals, {segments[i] : i \in from(r)})
      routes == {r \in LessonRoutes :
                   /\ supporting(r) # {} \/ SourceLevelFallbackAllowed(signals, r)
                   /\ ExpectedRouteFor(kept(r)) = r}
      ignored == IF signals = {} THEN {"unsupported_signal"} ELSE signals
  IN  IF routes # {}
      THEN {BuildLearningEvent(source, r, from(r), kept(r),
              LessonEvidenceCountFor(r, source, Cardinality(from(r)), kept(r)),
              LessonRiskFor(r, source, kept(r)), LessonArtifactEvidenceFor(r, source))
             : r \in routes}
      ELSE {BuildLearningEvent(source, "ignore", DOMAIN segments, ignored,
              IF source.evidence = {} THEN 1 ELSE Max(source.evidence),
              InferRiskLevel(source, signals),
              [refs |-> source.refs, toolErrors |-> source.toolErrors])}

\* The checks of the report: what the sources claim about themselves is required
\* of each, and every source must have become an event with evidence.
EvaluateSources(sources, requireTemplateCoverage) ==
  When(sources = {}, "has_local_sources")
  \cup When(/\ requireTemplateCoverage
            /\ ~({"chat_window", "failure_log", "farcaster_audit"} \subseteq {s.kind : s \in sources}),
            "covers_all_distillation_templates")
  \cup When(\E s \in sources : \E event \in BuildAtomicLessons(s) : event.evidence = 0,
            "learning_events_ready")
=============================================================================
