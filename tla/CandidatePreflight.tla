------------------------- MODULE CandidatePreflight -------------------------
(***************************************************************************)
(* The daily rollup of the learning loop's candidates                      *)
(* (scripts/lib/signal-candidate-rollup.mjs, adaptive-candidate-gate.mjs)  *)
(* and the preflight that decides which of them a human is asked about     *)
(* (scripts/lib/evolution-evaluator.mjs).                                  *)
(*                                                                         *)
(* The fixtures on disk are a deck of events; each is present with some    *)
(* evidence or absent (0).  The report is what one command computes; it is *)
(* computed again whenever a fixture is added or gains evidence.  Scores   *)
(* are ten-thousandths, rounded to tens as the code rounds to thousandths. *)
(* Left out: texts, commands (a candidate that enters verification has the *)
(* whole chain), the safety flags, which are constants.                    *)
(***************************************************************************)
EXTENDS LearningLoop

CONSTANTS
  Deck,         \* sequence of records [signals, risk, channel, refs, toolErrors]
  RealChat,     \* index of the fixture the preflight asks for
  MaxEvidence   \* bound on the evidence of a fixture

VARIABLES evidence, report

vars == <<evidence, report>>

REPORT_QUEUE_LIMIT == 3

Event(i, count) ==
  [signals |-> Deck[i].signals, evidence |-> count, risk |-> Deck[i].risk,
   channel |-> Deck[i].channel, refs |-> Deck[i].refs, toolErrors |-> Deck[i].toolErrors]

-----------------------------------------------------------------------------
(* What the adaptive gate and the rollup say of all the traces.            *)

RouteStrategy(trace) ==
  IF HasSignal(trace.event, {"candidate_replay_failed"}) THEN "suppress_failed_candidate"
  ELSE IF HasSignal(trace.event, {"repeated_failure_pattern"}) THEN "repair_pattern_to_case"
  ELSE IF HasSignal(trace.event, {"reusable_workflow"}) THEN "crystallize_repeatable_skill"
  ELSE IF trace.route.target = "policy" THEN "harden_future_boundary"
  ELSE IF trace.route.target = "memory" THEN "stabilize_verified_fact"
  ELSE IF trace.route.target = "damping" THEN "observe_more_before_learning"
  ELSE "wide_candidate_review"

ReviewAdaptiveCandidateGate(traces) ==
  When(\A t \in traces : t \in CrystallizeMisaSkills(traces), "not wider than crystallization")
  \cup When(\A t \in traces : ClassifyDecision(t) # "validation_ready", "nothing ready")
  \cup When(\A t \in traces : ~SuppressCandidate(t), "failed replay not suppressed")

SourceContracts == {"farcaster_behavior", "session_distiller_failure", "session_distiller_success"}

EvaluateRollup(items) ==
  When({item.contract : item \in items} # SourceContracts, "source_adapters_cover_all_contracts")

-----------------------------------------------------------------------------
(* The preflight of one queue item and its trace.                          *)

BuildCandidateHygiene(item, trace) ==
  LET known == item.target \in {"memory", "skill", "case", "policy", "damping"}
      verified == item.state = "ready_for_daily_rollup"     \* carries the command chain
      questions ==
        When(item.priority = "low" \/ ~known, "complex_enough")
        \cup When(~(trace.event.evidence >= 2
                     /\ (trace.positive \/ item.target \in {"policy", "case"})), "valuable_enough")
        \cup When(~verified, "parts_doable")
      principles ==
        When(~known, "minimal_scope") \cup When(~verified, "success_criteria_present")
        \cup When(questions # {}, "four_question_gate")
      suppressed == SuppressCandidate(trace) \/ item.state = "rejected_suppression"
      clarification == IF suppressed THEN "suppressed"
                       ELSE IF questions \cup principles # {} THEN "hold_for_more_evidence"
                       ELSE "resolved_by_evidence"
  IN  [clarification |-> clarification, open |-> questions \cup principles,
       reportable |-> verified /\ ~SuppressCandidate(trace)
                      /\ clarification = "resolved_by_evidence" /\ principles = {}]

RiskPenalty(risk) ==
  CASE risk = "low" -> 0 [] risk = "medium" -> 400 [] risk = "high" -> 800
    [] risk = "critical" -> 1600 [] OTHER -> 600

RouteValue(route) ==
  CASE route = "skill" -> 2160 [] route = "memory" -> 2016 [] route = "case" -> 1920
    [] route = "policy" -> 1872 [] route = "damping" -> 1200 [] OTHER -> 0

EvidenceScore(count) == 850 * (IF count > 4 THEN 4 ELSE count)

CandidateScore(item, trace) ==
  LET raw == EvidenceScore(trace.event.evidence) + RouteValue(item.target)
             + (IF item.state = "ready_for_daily_rollup" THEN 2200 ELSE 0) + 2000
             - RiskPenalty(trace.event.risk) - (IF SuppressCandidate(trace) THEN 4000 ELSE 0)
  IN  ((raw + 5) \div 10) * 10

PreflightPassed(item, trace) ==
  /\ item.state = "ready_for_daily_rollup" /\ trace.event.evidence >= 2
  /\ ~SuppressCandidate(trace) /\ BuildCandidateHygiene(item, trace).reportable

BuildOptimizationCandidate(trace) ==
  LET item == BuildQueueItem(trace)
      passed == PreflightPassed(item, trace)
  IN  [score |-> CandidateScore(item, trace), state |-> item.state, priority |-> item.priority,
       route |-> item.target, suppressed |-> SuppressCandidate(trace),
       clarification |-> BuildCandidateHygiene(item, trace).clarification,
       status |-> IF passed THEN "preflight_passed"
                  ELSE IF item.state = "rejected_suppression" THEN "suppressed"
                  ELSE "held_for_more_evidence"]

\* The sort is stable: among equals, the order of the fixtures.
ReportedBefore(candidates, i, j) ==
  \/ candidates[i].score > candidates[j].score
  \/ candidates[i].score = candidates[j].score /\ i < j

BuildReportQueue(candidates) ==
  LET passed == {i \in DOMAIN candidates : candidates[i].status = "preflight_passed"}
  IN  {i \in passed : Cardinality({j \in passed : ReportedBefore(candidates, j, i)})
                        < REPORT_QUEUE_LIMIT}

EvaluateMisaEvolution(traces) ==
  LET candidates == [i \in DOMAIN traces |-> BuildOptimizationCandidate(traces[i])]
      all == {traces[i] : i \in DOMAIN traces}
      violations ==
        ReviewAdaptiveCandidateGate(all) \cup EvaluateRollup({BuildQueueItem(t) : t \in all})
        \cup When(RealChat \notin DOMAIN traces, "real chat missing")
        \cup When(RealChat \in DOMAIN traces /\ candidates[RealChat].status # "preflight_passed",
                   "real chat did not pass")
        \cup When(BuildReportQueue(candidates) = {}, "nothing reportable")
  IN  [candidates |-> candidates, queue |-> BuildReportQueue(candidates), violations |-> violations,
       hold |-> {i \in DOMAIN traces : candidates[i].status = "held_for_more_evidence"},
       ledger |-> {i \in DOMAIN traces : candidates[i].status = "suppressed"},
       strategies |-> [i \in DOMAIN traces |-> RouteStrategy(traces[i])]]

-----------------------------------------------------------------------------
Traces(held) ==
  [i \in {j \in DOMAIN Deck : held[j] > 0} |-> SimulateLearningCycle(Event(i, held[i]))]

Init ==
  /\ evidence = [i \in DOMAIN Deck |-> 0]
  /\ report = EvaluateMisaEvolution(Traces(evidence))

\* A fixture is added, or one gains a piece of evidence, and the report is asked for.
Gather ==
  \E i \in DOMAIN Deck :
    /\ evidence[i] < MaxEvidence
    /\ evidence' = [evidence EXCEPT ![i] = @ + 1]
    /\ report' = EvaluateMisaEvolution(Traces(evidence'))

Next == Gather

Spec == Init /\ [][Next]_vars

-----------------------------------------------------------------------------
TypeOK ==
  /\ evidence \in [DOMAIN Deck -> 0..MaxEvidence]
  /\ \A i \in DOMAIN report.candidates :
       report.candidates[i].score \in (IF report.candidates[i].suppressed THEN -1550 ELSE 0)..10000
  /\ report.queue \subseteq DOMAIN report.candidates

\* The hygiene gate of the preflight and the adaptive gate are written apart; nothing
\* the adaptive gate declares ready is held by the preflight, and nothing else passes.
ReadyMeansPassed ==
  \A i \in DOMAIN report.candidates :
    report.candidates[i].state = "ready_for_daily_rollup"
      <=> report.candidates[i].status = "preflight_passed"

\* A candidate in the report queue has no passed candidate outside it that scores more
\* than it does, and what a failed replay suppressed is never in it.
QueueHoldsTheBest ==
  \A i \in report.queue :
    /\ ~report.candidates[i].suppressed
    /\ \A j \in DOMAIN report.candidates \ report.queue :
         report.candidates[j].status = "preflight_passed"
           => report.candidates[j].score <= report.candidates[i].score

\* A report that finds nothing wrong has asked a human something, keeps the failed
\* replay in the experience ledger, and has its route differ from its reasons nowhere:
\* what the strategy calls a failed candidate is not among the ready ones.
CleanReportIsComplete ==
  report.violations = {} =>
    /\ report.queue # {}
    /\ \E i \in report.ledger : report.candidates[i].suppressed
    /\ \A i \in DOMAIN report.candidates :
         report.strategies[i] = "suppress_failed_candidate" => i \in report.ledger

\* More evidence for a candidate never makes it fail the preflight and never lowers
\* its score, whichever route the loop now takes.
MoreEvidenceNeverHurts ==
  \A i \in DOMAIN report.candidates :
   /\ report.candidates[i].status = "preflight_passed"
        => report'.candidates[i].status = "preflight_passed"
   /\ report.candidates[i].score <= report'.candidates[i].score

\* A passed candidate leaves the report queue only for one that now scores at least as
\* much as it does.
DisplacedByBetter ==
  \A i \in report.queue \ report'.queue :
   \E j \in report'.queue \ report.queue :
     report'.candidates[j].score >= report'.candidates[i].score
=============================================================================
