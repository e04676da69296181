--------------------------- MODULE TournamentReview ---------------------------
(***************************************************************************)
(* The tournament gate over a batch of candidates                          *)
(* (scripts/lib/evolution-tournament-gate.mjs): tournaments, the ledger of *)
(* their winners, the quality assessment, the escalation gate and the      *)
(* optional judge, a model that is called and may fail.  Reviews follow    *)
(* one another; what a later one is given of the earlier is what the code  *)
(* gives it.                                                               *)
(*                                                                         *)
(* A batch is a bag over the deck: candidates of one make have the same    *)
(* tournament.  Scores are thousandths, sums are kept exact (in            *)
(* thousandths per tournament) until the code rounds.                      *)
(***************************************************************************)
EXTENDS TournamentScoring

CONSTANTS
  Makes,       \* candidates, as TournamentScoring has them
  Batches,    \* bags over Makes, as functions
  Coverages,  \* candidates tournaments were held for, of all that were found
  Modes, Judges, MaxReviews

VARIABLES
  kind,      \* source_kind
  batch, coverage, mode,
  judgeEnv,  \* what the judge is: an injected function, an api key, nothing
  phase,     \* idle: before a review; asked: the judge was called; done
  result,    \* the review's result
  judge,     \* result.judge
  called,    \* calls made in this review (in no state of the code)
  holds,     \* reviews in a row whose batch kept an incumbent (likewise)
  reviews

gateVars == <<kind, batch, coverage, mode, judgeEnv, phase, result, judge, called, holds, reviews>>

SourceKinds == {"default_candidate_preflight", "local_distillation_sources",
                "vps_sanitized_conversation_artifacts"}
MaxOf(S) == CHOOSE x \in S : \A y \in S : y <= x
CloseMargin == 30
NearThresholdMargin == 30
DefaultThreshold == 650

Tournaments ==
  [c \in Makes, backed \in BOOLEAN |-> BuildTournament([c EXCEPT !.sourceBacked = backed])]

\* The tournaments of the batch and how many of each make there are.
Held(b, k) ==
  [c \in {d \in Makes : b[d] > 0} |-> Tournaments[c, k # "default_candidate_preflight"]]
Total(b) == MapThenSumSet(LAMBDA c : b[c], Makes)
SumBatch(b, value) == MapThenSumSet(LAMBDA c : b[c] * value[c], DOMAIN value)
Winner(t) == t.variants[t.winner]
RoundDiv(x, unit) == (2 * x + unit) \div (2 * unit)

-----------------------------------------------------------------------------
(* Quality and rejections.                                                 *)

Rejected(t) == {s \in DOMAIN t.variants : ~t.variants[s].passed}
RejectedCount(b, ts) == SumBatch(b, [c \in DOMAIN ts |-> Cardinality(Rejected(ts[c]))])

FailureLearning(total, rejected) == Least(total, rejected)

\* Routes are kept and effects stay off in every variant that is built.
OverallQuality(b, ts, cover) ==
  LET total == Total(b)
      safe == SumBatch(b, [c \in DOMAIN ts |-> If(Winner(ts[c]).passed, 1)])
      holdout == SumBatch(b, [c \in DOMAIN ts |-> Winner(ts[c]).scores.holdout])
      compactness == SumBatch(b, [c \in DOMAIN ts |-> Winner(ts[c]).scores.compactness])
  IN  RoundDiv(2200 * total + 2400 * safe + 2 * holdout
               + 1400 * FailureLearning(total, RejectedCount(b, ts)) + compactness + cover * total,
               10 * total)

\* A blocked operation is both a violation of its own and a blocked request.
RejectionClusters(ts) ==
  UNION {LET v == BuildVariants(ts[x[1]].candidate)[x[2]] IN
           (IF v.operations > 0 THEN {<<"check", 1>>} ELSE {})
           \cup (IF TextBudgetOk(v) THEN {} ELSE {<<"check", 2>>})
           \cup ({"request", "blocked"} \X (1..v.operations))
         : x \in {y \in (DOMAIN ts) \X Range(Strategies) : ~ts[y[1]].variants[y[2]].passed}}

-----------------------------------------------------------------------------
(* The escalation gate.                                                    *)

\* The distance between the two best safe variants of each tournament.
TopWinnerMargin(t) ==
  LET composite == [s \in DOMAIN t.variants \ Rejected(t) |-> t.variants[s].scores.composite]
      best == CHOOSE s \in DOMAIN composite : \A r \in DOMAIN composite : composite[r] <= composite[s]
  IN  composite[best] - MaxOf({composite[s] : s \in DOMAIN composite \ {best}})

Paired(ts) == {c \in DOMAIN ts : Cardinality(DOMAIN ts[c].variants \ Rejected(ts[c])) >= 2}
Sized(b, S) == MapThenSumSet(LAMBDA c : b[c], S)

\* What the dimensions and the review value are computed from.
Signs(b, k, ts, cover) ==
  LET routes == {c.route : c \in DOMAIN ts}
      narrow == Cardinality({ts[c].winner : c \in DOMAIN ts}) <= 1 /\ Total(b) >= 2
      clusters == Cardinality(RejectionClusters(ts))
  IN  [total |-> Total(b), routes |-> routes,
       backed |-> k # "default_candidate_preflight",
       vps |-> k = "vps_sanitized_conversation_artifacts",
       close |-> Sized(b, {c \in Paired(ts) : TopWinnerMargin(ts[c]) <= CloseMargin}),
       dampingClose |-> Sized(b, {c \in Paired(ts) : c.route = "damping" /\ TopWinnerMargin(ts[c]) <= 5}),
       monoculture |-> narrow,
       highScoreNarrow |-> narrow /\ OverallQuality(b, ts, cover) >= 900,
       repeated |-> RejectedCount(b, ts) >= 3 /\ clusters \in 1..2,
       lowCoverage |-> cover < 500]

DiversityBoost(targets) == Least(60, 15 * Most(0, Cardinality(targets) - 1))

TargetScore(target) ==
  CASE target = "public_boundary" -> 860 [] target = "batch_pattern_review" -> 840
    [] target = "damping_vs_compact" -> 820 [] target = "winner_strategy_bias" -> 820
    [] target = "policy_skill_boundary" -> 720 [] target = "policy_memory_boundary" -> 640
    [] target = "close_tiebreak_review" -> 550 [] target = "rejection_pattern_review" -> 580
    [] target = "source_sampling_gap" -> 360

ReviewTargets(x) ==
  (IF x.vps THEN {"public_boundary"} ELSE {})
  \cup (IF x.total >= 20 THEN {"batch_pattern_review"} ELSE {})
  \cup (IF x.dampingClose > 0 THEN {"damping_vs_compact"} ELSE {})
  \cup (IF x.highScoreNarrow /\ (Cardinality(x.routes) >= 2 \/ x.total >= 5)
        THEN {"winner_strategy_bias"} ELSE {})
  \cup (IF {"policy", "skill"} \subseteq x.routes THEN {"policy_skill_boundary"} ELSE {})
  \cup (IF {"policy", "memory"} \subseteq x.routes THEN {"policy_memory_boundary"} ELSE {})
  \cup (IF x.close >= 2 /\ 2 * x.close >= x.total THEN {"close_tiebreak_review"} ELSE {})
  \cup (IF x.repeated THEN {"rejection_pattern_review"} ELSE {})
  \cup (IF x.backed /\ x.lowCoverage THEN {"source_sampling_gap"} ELSE {})

LlmReviewValue(x) ==
  LET targets == ReviewTargets(x)
      highest == MaxOf({0} \cup {TargetScore(t) : t \in targets})
      score == Least(1000, highest + DiversityBoost(targets))
  IN  [targets |-> targets, score |-> score,
       level |-> IF score >= 780 THEN "high" ELSE IF score >= 580 THEN "medium"
                 ELSE IF score >= 350 THEN "low" ELSE "none"]

\* The weighted sum of the five dimensions, each the largest of its reasons.
EscalationScore(b, x, ts) ==
  LET n == Cardinality(x.routes)
      uncertainty == MaxOf({1000 * x.close, x.total * If(x.monoculture, 550),
                            x.total * If(x.highScoreNarrow, 720)})
      value == MaxOf({If(x.vps, 820), If(x.backed, 620), If(x.total >= 20, 780),
                      If("policy" \in x.routes, 580), If(x.total >= 5, 450)})
      conflict == MaxOf({If(n >= 5, 900), If(n >= 3, 680),
                         If({"policy", "skill"} \subseteq x.routes, 740),
                         If({"policy", "memory"} \subseteq x.routes, 700)})
      novelty == MaxOf({x.total * If(x.backed, 460), x.total * If(n >= 4, 620),
                        SumBatch(b, [c \in DOMAIN ts |-> Winner(ts[c]).scores.novelty])})
      anomaly == MaxOf({If(x.highScoreNarrow, 820), If(x.repeated, 580), If(x.lowCoverage, 660)})
  IN  RoundDiv(30 * uncertainty + 15 * novelty
               + x.total * (25 * value + 20 * conflict + 10 * anomaly), 100 * x.total)

Recommended(review, score) ==
  review.level = "high" /\ score >= DefaultThreshold - NearThresholdMargin

BuildJudgeEscalationGate(b, k, ts, cover) ==
  LET x == Signs(b, k, ts, cover)
      review == LlmReviewValue(x)
      score == EscalationScore(b, x, ts)
      recommended == Recommended(review, score)
  IN  [review |-> review, score |-> score, recommended |-> recommended,
       nearThreshold |-> /\ ~recommended /\ review.level \in {"medium", "high"}
                         /\ \/ score >= DefaultThreshold - NearThresholdMargin
                            \/ review.level = "medium" /\ score >= 450,
       repeated |-> x.repeated]

-----------------------------------------------------------------------------
(* The ledger and the restraint contract.                                  *)

\* What the entries of a preflight's ledger say they come from, which is kept.
PreflightSources(k) ==
  IF k = "default_candidate_preflight" THEN {"candidate_preflight"}
  ELSE {"source_backed_preflight"}

\* The highest count among an earlier tournament's winners in the preflight's ledger.
PreviousNoChangeCount(k, last) == IF "tournament_variant" \in PreflightSources(k) THEN last ELSE 0

NoChangeCount(t, k, last) ==
  IF t.winner = "baseline" THEN PreviousNoChangeCount(k, last) + 1 ELSE 0

ConvergenceStatus(noChange, driftLevel) ==
  IF driftLevel = "high" THEN "scope_drift_suspected"
  ELSE IF noChange >= 2 THEN "incumbent_retained_x2"
  ELSE IF noChange = 1 THEN "incumbent_retained_x1"
  ELSE "running"

BuildRestraintContract(ts, k, last) ==
  LET largest == MaxOf({NoChangeCount(ts[c], k, last) : c \in DOMAIN ts})
      drift == RiskLevel(MaxOf({ts[c].drift : c \in DOMAIN ts}))
  IN  [noChange |-> largest, drift |-> drift, status |-> ConvergenceStatus(largest, drift),
       gaming |-> RiskLevel(MaxOf({ts[c].gaming : c \in DOMAIN ts}))]

ReviewResult(b, k, cover, last) ==
  LET ts == Held(b, k) IN
  [quality |-> OverallQuality(b, ts, cover),
   escalation |-> BuildJudgeEscalationGate(b, k, ts, cover),
   restraint |-> BuildRestraintContract(ts, k, last),
   rejected |-> RejectedCount(b, ts)]

-----------------------------------------------------------------------------
(* The judge.                                                              *)

SkippedJudge(status) == [status |-> status, calls |-> 0]
NoJudge == SkippedJudge("none")
NoResult == [quality |-> 0, restraint |-> [noChange |-> 0]]

\* The judge is reached; the status of the cases in which it is not.
JudgeSkipped(m, escalation, env) ==
  IF m = "off" THEN "not_requested"
  ELSE IF m = "advise" THEN "advice_only"
  ELSE IF m = "auto" /\ ~escalation.recommended THEN "skipped_not_recommended"
  ELSE IF m \notin {"auto", "llm"} THEN "unsupported_mode"
  ELSE IF env = "none" THEN "skipped_missing_api_key"
  ELSE "none"

GateInit ==
  /\ kind \in SourceKinds /\ batch \in Batches /\ coverage \in Coverages
  /\ kind = "default_candidate_preflight" => Total(batch) <= 3
  /\ mode \in Modes /\ judgeEnv \in Judges
  /\ phase = "idle" /\ result = NoResult /\ judge = NoJudge
  /\ called = 0 /\ holds = 0 /\ reviews = 0

ReviewEvolutionTournamentGate ==
  /\ phase = "idle" /\ reviews < MaxReviews
  /\ reviews' = reviews + 1
  /\ result' = ReviewResult(batch, kind, coverage, result.restraint.noChange)
  /\ holds' = IF \E c \in DOMAIN Held(batch, kind) : Held(batch, kind)[c].winner = "baseline"
              THEN holds + 1 ELSE 0
  /\ LET skipped == JudgeSkipped(mode, result'.escalation, judgeEnv) IN
       IF skipped # "none"
       THEN judge' = SkippedJudge(skipped) /\ phase' = "done" /\ called' = 0
       ELSE judge' = NoJudge /\ phase' = "asked" /\ called' = 1
  /\ UNCHANGED <<kind, batch, coverage, mode, judgeEnv>>

\* normalizeJudgeResponse takes any answer that parses.
JudgeAnswers ==
  /\ phase = "asked"
  /\ judge' = [status |-> "completed", calls |-> 1]
  /\ phase' = "done"
  /\ UNCHANGED <<kind, batch, coverage, mode, judgeEnv, result, called, holds, reviews>>

FailedCalls(env) == IF env = "injected" THEN 0 ELSE 1

JudgeFails ==
  /\ phase = "asked"
  /\ judge' = [status |-> "failed", calls |-> FailedCalls(judgeEnv)]
  /\ phase' = "done"
  /\ UNCHANGED <<kind, batch, coverage, mode, judgeEnv, result, called, holds, reviews>>

\* The same candidates are reviewed again another day, in another mode perhaps.
NextReview ==
  /\ phase = "done" /\ reviews < MaxReviews
  /\ phase' = "idle" /\ mode' \in Modes
  /\ UNCHANGED <<kind, batch, coverage, judgeEnv, result, judge, called, holds, reviews>>

GateNext == ReviewEvolutionTournamentGate \/ JudgeAnswers \/ JudgeFails \/ NextReview

GateSpec == GateInit /\ [][GateNext]_gateVars

-----------------------------------------------------------------------------
Reviewed == phase \in {"asked", "done"}

GateTypeOK ==
  /\ phase \in {"idle", "asked", "done"} /\ called \in 0..1 /\ judge.calls \in 0..1
  /\ result.quality \in 0..1000
  /\ Reviewed => result.escalation.score \in 0..1000

\* docs/current/evolution-tournament-gate-v0.18.md: "Plain close scores in small
\* single-route samples are not enough to justify a model call by themselves."  A damping
\* pair within five thousandths has review value high; that such a sample
\* is still not worth a call is left to the weights of the five dimensions.
PlainCloseScoresNeverCall ==
  /\ Reviewed /\ mode = "auto" /\ kind = "default_candidate_preflight"
  /\ Cardinality({c.route : c \in DOMAIN Held(batch, kind)}) = 1
  => called = 0

\* A level is not reached by piling up targets: the value is high only where
\* some target has high priority by itself, whatever the boost for diversity adds
\* (the doc: "High-value targets can justify one offline LLM call").
HighLevelHasAHighTarget ==
  Reviewed /\ result.escalation.review.level = "high"
    => \E t \in result.escalation.review.targets : TargetScore(t) >= 780

\* Calls to a paid model are reported, those that end in an error too, so what
\* several reviews cost can be added up from their reports.
CallsAreReported ==
  phase = "done" /\ judgeEnv = "api" => judge.calls = called
=============================================================================
