---------------------------- MODULE LearningLoop ----------------------------
(***************************************************************************)
(* The learning loop (scripts/lib/learning-loop.mjs), the rule extractor   *)
(* it falls back on (signal-extractor.mjs), and the reviews that decide    *)
(* what becomes of a routed lesson: crystallization into a skill candidate *)
(* (skill-crystallization.mjs), the adaptive gate                          *)
(* (adaptive-candidate-gate.mjs), the daily rollup queue                   *)
(* (signal-candidate-rollup.mjs), the L3 export of the memory layer        *)
(* (memory-layer.mjs) and its repair ticket (repair-ticket.mjs).           *)
(*                                                                         *)
(* An event is a record of its signals, evidence count, risk, channel,     *)
(* kinds of artifacts it referenced ("skill" is an artifact skill:..., and *)
(* "external" and "internal" the two classes the adaptive gate tells       *)
(* apart) and whether tool errors are recorded.  Left out: rationales,     *)
(* identifiers, the safety flags (all constant false).                     *)
(***************************************************************************)
EXTENDS SessionDistiller

-----------------------------------------------------------------------------
(* The extractor: text is the set of patterns it matches; a rule is        *)
(* [signal, patterns, negative, errors, confidence].                       *)

RuleMatches(rule, text, toolErrors) ==
  IF rule.negative \cap text # {} THEN {}
  ELSE {<<"pattern", p>> : p \in rule.patterns \cap text}
       \cup {<<"tool_error", e>> : e \in rule.errors \cap toolErrors}

\* Distinct hits, between one and four, unless the event gives a positive count.
EvidenceCountFor(provided, hits) ==
  IF provided > 0 THEN provided ELSE Max({1, Min({4, Cardinality(hits)})})

ExtractSignalsFromSession(rules, text, toolErrors, provided) ==
  LET hits(rule) == RuleMatches(rule, text, toolErrors)
      matched == {rule \in rules : hits(rule) # {}}
      signals == {rule.signal : rule \in matched}
  IN  [signals |-> signals,
       evidence |-> IF signals = {} THEN 0
                    ELSE EvidenceCountFor(provided, UNION {hits(r) : r \in matched})]

\* Signals given by hand win; a count of the event, even zero, wins.
ApplyExtractedSignals(hand, given, extraction) ==
  [signals |-> IF hand # {} THEN hand ELSE extraction.signals,
   evidence |-> IF given # {} THEN Max(given) ELSE extraction.evidence]

-----------------------------------------------------------------------------
(* Routing.                                                                *)

HasSignal(event, candidates) == event.signals \cap candidates # {}

PolicyBoundarySignals ==
  {"public_posting_boundary", "farcaster_public_memory_risk",
   "context_injection_risk", "memory_provider_takeover_risk"}
OverreactionSignals == {"avoid_overreaction", "single_failure"}

Route(target, action, status, publication, state) ==
  [target |-> target, action |-> action, status |-> status,
   publication |-> publication, state |-> state]

\* Mutant: a one-off failure outweighs a public or context boundary.
ClassifyRouteMutant(event) ==
  IF HasSignal(event, {"candidate_replay_failed"}) THEN
         Route("damping", "skip", "rejected", "no_publish", "rejected")
  ELSE IF HasSignal(event, OverreactionSignals) THEN
         Route("damping", "skip", "held", "no_publish", "held")
  ELSE IF HasSignal(event, {"explicit_user_boundary"} \cup PolicyBoundarySignals) THEN
         Route("policy", "create", "requires_approval", "requires_approval", "staged")
  ELSE IF HasSignal(event, {"reusable_workflow"}) /\ event.evidence >= 2 THEN
         Route("skill", "create", "draft", "draft_only", "staged")
  ELSE Route("ignore", "skip", "rejected", "no_publish", "rejected")

ClassifyRoute(event) ==
  IF HasSignal(event, {"candidate_replay_failed"}) THEN
         Route("damping", "skip", "rejected", "no_publish", "rejected")
  ELSE IF HasSignal(event, OverreactionSignals) /\ ~HasSignal(event, PolicyBoundarySignals) THEN
         Route("damping", "skip", "held", "no_publish", "held")
  ELSE IF HasSignal(event, {"explicit_user_boundary"} \cup PolicyBoundarySignals) THEN
         Route("policy", "create", "requires_approval", "requires_approval", "staged")
  ELSE IF HasSignal(event, {"reusable_workflow"}) /\ event.evidence >= 2 THEN
         Route("skill", IF "skill" \in event.refs THEN "improve" ELSE "create",
               "draft", "draft_only", "staged")
  ELSE IF HasSignal(event, {"repeated_failure_pattern"}) /\ event.evidence >= 2 THEN
         Route("case", "create", "draft", "draft_only", "staged")
  ELSE IF HasSignal(event, {"stable_user_preference", "stable_project_fact"}) /\ event.evidence >= 2 THEN
         Route("memory", "create", "draft", "draft_only", "staged")
  ELSE Route("ignore", "skip", "rejected", "no_publish", "rejected")

\* The trace: the event and its route.  Its verification always passes.
SimulateLearningCycle(event) ==
  [event |-> event, route |-> ClassifyRoute(event),
   positive |-> ClassifyRoute(event).target # "ignore"]

\* What simulateMisaLearning reports of one trace and its event.
SimulationViolations(trace) ==
  LET got == trace.route expected == trace.event.expectation IN
  When(got.target # trace.event.expectedRoute, "route")
  \cup When(got.status # expected.status, "status")
  \cup When(got.publication # expected.publication, "publication")
  \cup When(got.state # expected.state, "state")

-----------------------------------------------------------------------------
(* Reviews of a trace.                                                     *)

CrystallizeMisaSkills(traces) ==
  {t \in traces : t.route.target = "skill" /\ t.route.state = "staged"}

SuppressCandidate(trace) == HasSignal(trace.event, {"candidate_replay_failed"})

ExternalPromotionRoutes == {"memory", "skill", "policy"}

BlocksExternalFootprintPromotion(trace) ==
  /\ "external" \in trace.event.refs /\ "internal" \notin trace.event.refs
  /\ trace.route.target \in ExternalPromotionRoutes

ClassifyDecision(trace) ==
  IF SuppressCandidate(trace) \/ trace.route.status = "rejected" THEN "rejected"
  ELSE IF trace.route.target = "damping" THEN "held_for_more_evidence"
  ELSE IF BlocksExternalFootprintPromotion(trace) THEN "held_for_more_evidence"
  ELSE IF trace.positive /\ trace.event.evidence >= 2 THEN "validation_ready"
  ELSE "held_for_more_evidence"

BuildAdaptiveCandidate(trace) ==
  [decision |-> ClassifyDecision(trace),
   gates |-> [evidence |-> trace.event.evidence >= 2,
              external |-> ~BlocksExternalFootprintPromotion(trace)],
   suppressed |-> SuppressCandidate(trace)]

SourceContractForTrace(trace) ==
  IF trace.event.channel = "farcaster" THEN "farcaster_behavior"
  ELSE IF \/ trace.event.toolErrors
          \/ HasSignal(trace.event, {"single_failure", "repeated_failure_pattern", "candidate_replay_failed"})
       THEN "session_distiller_failure"
  ELSE "session_distiller_success"

QueueStateFor(decision) ==
  CASE decision = "validation_ready" -> "ready_for_daily_rollup"
    [] decision = "held_for_more_evidence" -> "watch_for_more_evidence"
    [] OTHER -> "rejected_suppression"

PriorityFor(trace, decision) ==
  IF decision = "rejected" THEN "low"
  ELSE IF trace.event.risk = "high" \/ trace.route.target = "policy" THEN "high"
  ELSE IF decision = "validation_ready" THEN "medium"
  ELSE "low"

BuildQueueItem(trace) ==
  LET decision == BuildAdaptiveCandidate(trace).decision
  IN  [contract |-> SourceContractForTrace(trace), state |-> QueueStateFor(decision),
       priority |-> PriorityFor(trace, decision), target |-> trace.route.target]

-----------------------------------------------------------------------------
(* The memory layer.                                                       *)

SkillPromotionBlockingSignals ==
  {"explicit_user_boundary", "public_posting_boundary", "farcaster_public_memory_risk",
   "candidate_replay_failed", "avoid_overreaction", "single_failure",
   "repeated_failure_pattern"}

ReviewSkillPromotionCandidate(trace) ==
  /\ trace.route.target = "skill" /\ trace.route.state = "staged" /\ trace.positive
  /\ HasSignal(trace.event, {"reusable_workflow"})
  /\ ~HasSignal(trace.event, SkillPromotionBlockingSignals)

PossibleRoutesForSignals(signals) ==
  LET routeOf == [damping |-> {"candidate_replay_failed", "single_failure"},
                  policy |-> LessonRouteSignals.policy,
                  skill |-> {"reusable_workflow"}, case |-> {"repeated_failure_pattern"},
                  memory |-> {"stable_user_preference", "stable_project_fact"}]
  IN  {r \in DOMAIN routeOf : routeOf[r] \cap signals # {}}

BuildMixedRoutePressure(traces) ==
  LET mixed == {t \in traces : Cardinality(PossibleRoutesForSignals(t.event.signals)) > 1}
  IN  [mixed |-> mixed,
       suppressed |-> {t \in mixed : "skill" \in PossibleRoutesForSignals(t.event.signals)
                                     /\ t.route.target # "skill"}]

BuildOriginalAutoL3(traces) == {t \in traces : t.positive}
BuildMinimalPositiveL3(traces) ==
  {t \in traces : t.positive /\ ReviewSkillPromotionCandidate(t)}

-----------------------------------------------------------------------------
(* The repair ticket.                                                      *)

BadPromotions(traces) == {t \in BuildOriginalAutoL3(traces) : t.route.target # "skill"}

SeverityFor(violated, badPromotionCount) ==
  IF violated THEN "P0"
  ELSE IF badPromotionCount >= 3 THEN "P1"
  ELSE IF badPromotionCount > 0 THEN "P2"
  ELSE "P3"

StatusFor(severity, badPromotionCount) ==
  IF severity = "P0" THEN "must_fix"
  ELSE IF badPromotionCount > 0 THEN "repair_candidate"
  ELSE "observe_only"

\* The tickets: the layer's own, unless it has nothing to say, and one for each
\* machine-readable artifact that did not parse.  The review's live-effect flags
\* and its count of non-skill exports are constant, so it is never a violation.
ReviewRepairTickets(traces, unparsable) ==
  LET count == Cardinality(BadPromotions(traces))
      severity == SeverityFor(FALSE, count)
      own == IF count > 0 \/ severity = "P0"
             THEN {[severity |-> severity, status |-> StatusFor(severity, count)]} ELSE {}
  IN  own \cup {[severity |-> "P2", status |-> "repair_candidate"] : a \in unparsable}
=============================================================================
