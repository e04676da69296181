------------------------- MODULE WorkOrderVariants -------------------------
(***************************************************************************)
(* The seeded variants of a work order (scripts/lib/work-order-variants    *)
(* .mjs), the evaluation that compares them with the order they come from  *)
(* (scripts/lib/work-order-quality-eval.mjs) and the same comparison in    *)
(* the Hermes pipeline (scripts/lib/hermes-work-order.mjs).                *)
(*                                                                         *)
(* Orders are the records of WorkOrderRouting.  A score with two decimals  *)
(* is in hundredths, a composite in units of 10^-8 until it is rounded to  *)
(* thousandths.  The hash of a seed and a salt is any number below 10000:  *)
(* a seed is the table of its draws.  One comparison is evaluated a step.  *)
(***************************************************************************)
EXTENDS Integers, FiniteSets, FiniteSetsExt, Sequences

CONSTANTS
  Items,          \* what is evaluated: [order, split, wordy]
  Seeds,          \* functions from strategies to draws [order, novelty, score]
  Settings,       \* records [selection, diversity, budget, hermes]
  MaxComparisons  \* bound: comparisons of one evaluation

VARIABLES setting, comparison, tally

vars == <<setting, comparison, tally>>

\* In the alphabetical order of their names, which breaks ties.
Strategies ==
  <<"boundary_tightening", "compact_handoff", "conservative_patch", "evidence_expansion", "replay_extension">>
Strategy == Range(Strategies)
Place(s) == CHOOSE i \in 1..5 : Strategies[i] = s

Clamp(x, top) == Max({0, Min({top, x})})
Bit(b, n) == IF b THEN n ELSE 0
HighRisk(o) == o.risk \in {"critical", "high"}

-----------------------------------------------------------------------------
(* The scores of a variant.                                                *)

SeverityValue(s) == CASE s = "P0" -> 100 [] s = "P1" -> 82 [] s = "P2" -> 58 [] OTHER -> 34
RiskValue(r) == CASE r = "critical" -> 100 [] r = "high" -> 86 [] r = "medium" -> 58 [] OTHER -> 30

EvidenceScore(o) == Clamp(o.refs * 12 + o.repro * 16 + o.acceptance * 12 + 18 + 12 + 18, 100)

BaseValueScore(o) ==
  Clamp(SeverityValue(o.severity) * 34 + RiskValue(o.risk) * 24 + Bit(o.gate.valuable, 1600)
        + Bit(o.gate.doable, 1200) + Bit(o.stronger, 800) + Bit(o.selfReview, 600), 10000)

ScoreStrategyFit(o, wordy, s) ==
  CASE s = "conservative_patch" -> 62 + Bit(o.severity = "P3", 16) + Bit(o.risk = "low", 12)
    [] s = "evidence_expansion" -> 58 + Bit(EvidenceScore(o) < 75, 24) + Bit(o.stronger, 8)
    [] s = "boundary_tightening" -> 56 + Bit(HighRisk(o), 24) + Bit(o.forbidden > 0, 8)
    [] s = "replay_extension" -> 56 + Bit(o.selfEvolution, 14) + Bit(o.gate.complex, 12)
    [] s = "compact_handoff" -> 64 + Bit(wordy, 18)

QianxuesenStrategyAlignment(o, s) ==
  CASE HighRisk(o) -> <<100, 58, 42, 55, 62>>[Place(s)]
    [] o.risk = "medium" -> <<62, 84, 48, 78, 100>>[Place(s)]
    [] o.risk = "low" -> <<60, 72, 100, 56, 50>>[Place(s)]
    [] OTHER -> 55

Clarity(o) ==
  Bit(o.acceptance > 0, 28) + Bit(o.repro > 0, 18) + Bit(o.forbidden > 0, 18) + 12 + 10
ComplexityPenalty(o) == Clamp(o.editable * 4 + o.repro * 3 + Bit(o.stronger, 8), 100)
Novelty(rank, draw) == Clamp(350000 + 80000 * rank + 16 * draw, 1000000)

Composite(o, wordy, s, rank, draw) ==
  (Clamp(BaseValueScore(o) * 2000 + EvidenceScore(o) * 180000 + 20000000 + Clarity(o) * 160000
         + ScoreStrategyFit(o, wordy, s) * 160000 + QianxuesenStrategyAlignment(o, s) * 80000
         + Novelty(rank, draw.novelty) * 6 - ComplexityPenalty(o) * 80000 + draw.score * 250,
         100000000) + 50000) \div 100000

-----------------------------------------------------------------------------
(* The population of an order and its winner.                              *)

\* Required ones first, in the order they are asked for, then the others as their draws sort.
SelectStrategyDefinitions(seed, size, required) ==
  LET first == SubSeq(required, 1, Min({size, Len(required)}))
      others == Strategy \ Range(first)
      Earlier(s, t) == seed[s].order < seed[t].order \/ (seed[s].order = seed[t].order /\ Place(s) < Place(t))
      PlaceOf(s) == Cardinality({t \in others : Earlier(t, s)})
  IN  [i \in 1..size |->
         IF i <= Len(first) THEN first[i]
         ELSE CHOOSE s \in others : PlaceOf(s) = i - 1 - Len(first)]

PopulationSize(asked) == Max({3, Min({IF asked = 0 THEN 5 ELSE asked, 5})})

BuildVariants(item, seed, asked, required) ==
  LET chosen == SelectStrategyDefinitions(seed, PopulationSize(asked), required)
  IN  {[strategy |-> chosen[i],
        alignment |-> QianxuesenStrategyAlignment(item.order, chosen[i]),
        composite |-> Composite(item.order, item.wordy, chosen[i], i - 1, seed[chosen[i]])] : i \in DOMAIN chosen}

\* All variants have the safety 1 and the evidence of their order.
Better(v, w) == v.composite > w.composite \/ (v.composite = w.composite /\ Place(v.strategy) < Place(w.strategy))
ChooseWinner(variants) == CHOOSE v \in variants : \A w \in variants \ {v} : Better(v, w)

WinnerMargin(variants) ==
  LET winner == ChooseWinner(variants)
  IN  winner.composite - ChooseWinner(variants \ {winner}).composite

\* In hundredths; the margin in thousandths.
UncertaintyScore(o, variants) ==
  LET margin == WinnerMargin(variants)
  IN  Bit(o.stronger, 28) + Bit(HighRisk(o), 22) + Bit(o.gate.cost = "high", 16)
      + (CASE margin < 60 -> 22 [] margin \in 60..99 -> 12 [] OTHER -> 0)
      + Bit(o.category = "operator_quality", 8)

ImportantCategories ==
  {"engineering_repair", "operator_quality", "hermes_skill_evolution", "hermes_policy_boundary",
   "hermes_research_followup", "hermes_damping"}

ReviewRecommended(o, variants) ==
  /\ BaseValueScore(o) >= 6200
  /\ UncertaintyScore(o, variants) >= 55
  /\ WinnerMargin(variants) <= 100
  /\ o.category \in ImportantCategories

BuildLlmReviewGate(o, variants) ==
  CASE ReviewRecommended(o, variants) -> "high"
    [] ~ReviewRecommended(o, variants) /\ UncertaintyScore(o, variants) >= 45 -> "medium"
    [] OTHER -> "none"

BuildLlmMutationCrossoverGate(o, variants) ==
  CASE ReviewRecommended(o, variants) /\ WinnerMargin(variants) <= 100 /\ o.risk # "low" -> "review_worthy"
    [] BuildLlmReviewGate(o, variants) = "medium" -> "diagnostic_only"
    [] OTHER -> "none"

BuildOrderResult(item, seed, asked, required) ==
  LET variants == BuildVariants(item, seed, asked, required)
  IN  [variants |-> variants, winner |-> ChooseWinner(variants),
       review |-> BuildLlmReviewGate(item.order, variants),
       crossover |-> BuildLlmMutationCrossoverGate(item.order, variants)]

-----------------------------------------------------------------------------
(* The quality of an order or a variant, from its counts [refs, repro,     *)
(* acceptance, forbidden, focus, stop]: the six dimensions in thousandths  *)
(* of a thousandth, rounded as the code rounds the total.                  *)

Share(n, cap) == (Min({n, cap}) * 1000000) \div cap

OverdesignPenalty(q) == Max({0, q.acceptance - 10}) * 15000 + Max({0, q.forbidden - 8}) * 15000

SourceTrace(q) == (Share(q.refs, 4) + 3000000) \div 4
Replayability(q) ==
  (Share(q.repro, 2) + Share(q.acceptance, 5) + Bit(q.focus, 1000000) + Bit(q.stop, 1000000)) \div 4
BoundarySafety(q) == (Share(q.forbidden, 4) + 5000000) \div 6
HandoffClarity(q) == (5000000 + Share(q.acceptance, 5) + Bit(q.stop, 1000000)) \div 7
ControlLoopFit(q) ==
  (SourceTrace(q) + 2000000 + Bit(q.keeper, 1000000) + Replayability(q) + BoundarySafety(q)) \div 6
QianxuesenFit(q) ==
  (SourceTrace(q) * 20 + Replayability(q) * 20 + BoundarySafety(q) * 25 + HandoffClarity(q) * 15
   + ControlLoopFit(q) * 20) \div 100

TotalFromMetrics(q) ==
  (Clamp((SourceTrace(q) * 18 + Replayability(q) * 22 + BoundarySafety(q) * 22 + HandoffClarity(q) * 18
          + ControlLoopFit(q) * 10 + QianxuesenFit(q) * 10) \div 100 - OverdesignPenalty(q), 1000000) + 500) \div 1000

BaselineMetrics(o) ==
  [refs |-> o.refs, repro |-> o.repro, acceptance |-> o.acceptance, forbidden |-> o.forbidden,
   focus |-> FALSE, stop |-> FALSE, keeper |-> o.ownerReport \/ o.escalation]

\* A variant adds one criterion, one boundary, a focus and a stop condition to its order.
VariantMetrics(o) ==
  [BaselineMetrics(o) EXCEPT !.acceptance = @ + 1, !.forbidden = @ + 1, !.focus = TRUE, !.stop = TRUE]

-----------------------------------------------------------------------------
(* Budget, selection and diversity.                                        *)

BudgetForOrder(o, policy) ==
  CASE policy = "fixed_5" -> [size |-> 5, required |-> <<>>]
    [] policy # "fixed_5" /\ HighRisk(o) -> [size |-> 5, required |-> <<"boundary_tightening">>]
    [] policy # "fixed_5" /\ o.risk = "medium" ->
         [size |-> 4, required |-> <<"replay_extension", "compact_handoff", "evidence_expansion">>]
    [] policy # "fixed_5" /\ o.risk = "low" -> [size |-> 3, required |-> <<"conservative_patch">>]
    [] OTHER -> [size |-> 4, required |-> <<"compact_handoff", "evidence_expansion">>]

DiversityStrategyFamily(o) ==
  CASE HighRisk(o) -> <<"boundary_tightening">>
    [] o.risk = "medium" -> <<"replay_extension", "compact_handoff", "evidence_expansion">>
    [] o.risk = "low" -> <<"conservative_patch">>
    [] OTHER -> <<"compact_handoff", "evidence_expansion", "replay_extension">>

\* Every candidate of an order has the same total, so what ranks them is their
\* alignment, then their composite.
RankedBefore(v, w) == v.alignment > w.alignment \/ (v.alignment = w.alignment /\ Better(v, w))
FirstRanked(variants) == CHOOSE v \in variants : \A w \in variants \ {v} : RankedBefore(v, w)

\* The near ties of the family, from the offset the seed draws.  They are all near ties.
ChooseDiversityCandidate(o, variants, selected, offset) ==
  LET family == DiversityStrategyFamily(o)
      rotated == [i \in DOMAIN family |-> family[((i - 1 + offset) % Len(family)) + 1]]
      present == {i \in DOMAIN family : \E v \in variants : v.strategy = rotated[i]}
  IN  IF Len(family) <= 1 \/ present = {} THEN selected
      ELSE CHOOSE v \in variants : v.strategy = rotated[Min(present)]

Delta(o) == TotalFromMetrics(VariantMetrics(o)) - TotalFromMetrics(BaselineMetrics(o))

\* The Hermes pipeline takes the winner of the variants as it is.
HermesWinner(result) == result.winner

CompareScores(item, seed, offset, s) ==
  LET o == item.order
      budget == IF s.hermes THEN [size |-> 5, required |-> <<>>] ELSE BudgetForOrder(o, s.budget)
      Before(result) ==
        CASE s.hermes -> HermesWinner(result)
          [] ~s.hermes /\ s.selection = "legacy" -> result.winner
          [] OTHER -> FirstRanked(result.variants)
      After(result, before, delta) ==
        IF s.diversity = "strategy_guard" /\ ~s.hermes /\ delta > 0
        THEN ChooseDiversityCandidate(o, result.variants, before, offset) ELSE before
      Comparison(result, before, after, delta) ==
        LET kept == delta > 0 \/ s.selection = "legacy" \/ s.hermes IN
        [item |-> item, required |-> budget.required, strategies |-> {v.strategy : v \in result.variants},
         selected |-> IF kept THEN {after.strategy} ELSE {}, diverse |-> after # before,
         delta |-> IF kept THEN delta ELSE 0, review |-> result.review, crossover |-> result.crossover]
      Chosen(result, before, delta) == Comparison(result, before, After(result, before, delta), delta)
      Compared(result) == Chosen(result, Before(result), Delta(o))
  IN  Compared(BuildOrderResult(item, seed, budget.size, budget.required))

-----------------------------------------------------------------------------
(* External samples [severity, risk, category, refs, repro, acceptance,    *)
(* editable, forbidden].                                                   *)

ExternalSampleTaskGate(t) ==
  [complex |-> t.severity # "P3" \/ t.repro > 1, valuable |-> TRUE,
   doable |-> t.repro > 0 /\ t.acceptance > 0 /\ t.editable > 0,
   cost |-> IF t.risk \in {"critical", "high"} THEN "high" ELSE "medium",
   verdict |-> IF t.risk \in {"critical", "high"} THEN "human_owner_review_before_delegate"
               ELSE "ask_user_then_delegate"]

ExternalSampleToWorkOrder(t) ==
  [severity |-> t.severity, risk |-> t.risk, category |-> t.category, gate |-> ExternalSampleTaskGate(t),
   refs |-> t.refs + 1, repro |-> t.repro, acceptance |-> t.acceptance, editable |-> t.editable,
   forbidden |-> t.forbidden, selfEvolution |-> t.severity # "P0", selfReview |-> TRUE, stronger |-> FALSE,
   ownerReport |-> t.risk # "low", escalation |-> t.risk # "low"]

-----------------------------------------------------------------------------
(* One evaluation.                                                         *)

NoTally == [n |-> 0, lift |-> 0, worse |-> 0, test |-> 0, testLift |-> 0, retained |-> 0,
            high |-> 0, highFit |-> 0, medium |-> 0, critiques |-> 0]

SummarizeComparisons(t, c) ==
  LET o == c.item.order
  IN  [n |-> t.n + 1, lift |-> t.lift + Bit(c.delta > 0, 1), worse |-> t.worse + Bit(c.delta < 0, 1),
       test |-> t.test + Bit(c.item.split = "test", 1),
       testLift |-> t.testLift + Bit(c.item.split = "test" /\ c.delta > 0, 1),
       retained |-> t.retained + Bit(c.selected = {}, 1),
       high |-> t.high + Bit(HighRisk(o), 1),
       highFit |-> t.highFit + Bit(HighRisk(o) /\ c.selected = {"boundary_tightening"}, 1),
       medium |-> t.medium + Bit(o.risk = "medium", 1),
       critiques |-> t.critiques + Bit(c.review = "high", 1)]

HoldoutPassed(t) == t.test > 0 /\ t.worse = 0 /\ t.testLift * 100 >= t.test * 95

\* A Hermes pipeline without orders is fine; one with orders must lift every one of them.
QualityOk(t) == t.n = 0 \/ (t.worse = 0 /\ t.lift = t.n)
EvaluationOk(t) == t.worse = 0 /\ t.lift * 100 >= t.n * 95 /\ HoldoutPassed(t)

\* The recommendations that depend on how the comparisons went.
BuildRecommendations(t) ==
  {r \in {"keep_dev_test_split_in_gate", "keep_quality_replacement_rule", "keep_variant_layer_shadow_only",
          "strengthen_high_risk_boundary_alignment", "add_replay_weight_for_medium_risk",
          "keep_llm_gate_advisory_until_holdout"} :
     CASE r = "keep_dev_test_split_in_gate" -> HoldoutPassed(t)
       [] r = "keep_quality_replacement_rule" -> t.retained = 0
       [] r = "keep_variant_layer_shadow_only" -> t.lift > 0
       [] r = "strengthen_high_risk_boundary_alignment" -> t.high > 0 /\ t.highFit * 10 < t.high * 9
       [] r = "add_replay_weight_for_medium_risk" -> t.medium > 0
       [] OTHER -> t.critiques > 0}

Init ==
  /\ setting \in Settings
  /\ comparison = {}
  /\ tally = NoTally

RunComparison == \E item \in Items, seed \in Seeds, offset \in 0..2 :
  /\ tally.n < MaxComparisons
  /\ setting.hermes => item.split = "hermes"
  /\ ~setting.hermes => item.split # "hermes"
  /\ comparison' = {CompareScores(item, seed, offset, setting)}
  /\ tally' = SummarizeComparisons(tally, CompareScores(item, seed, offset, setting))
  /\ UNCHANGED setting

Next == RunComparison

Spec == Init /\ [][Next]_vars

-----------------------------------------------------------------------------
(* Properties.                                                             *)

TypeOK ==
  /\ setting \in Settings
  /\ tally.n \in 0..MaxComparisons
  /\ \A c \in comparison :
       /\ c.item \in Items
       /\ c.strategies \subseteq Strategy /\ Cardinality(c.strategies) \in 3..5
       /\ c.selected \subseteq c.strategies /\ Cardinality(c.selected) <= 1
       /\ c.delta \in -1000..1000

\* The quality gate cannot turn a variant down: whatever the order's counts are, what a
\* variant adds outweighs what it is charged for, so no evaluation and no Hermes
\* pipeline ever keeps the order it started from, or reports a regression; whether an
\* evaluation is ok is whether it has a held-out sample.
VariantsAlwaysLift ==
  /\ tally.worse = 0 /\ tally.lift = tally.n /\ tally.retained = 0
  /\ setting.hermes => QualityOk(tally)
  /\ tally.n > 0 => (EvaluationOk(tally) <=> tally.test > 0)

\* "high-risk work stays on boundary_tightening; low-risk work stays on
\* conservative_patch": under quality replacement neither the seed, the budget nor the
\* diversity guard moves the selected draft out of the family of its order's risk.
RiskFitHolds ==
  \A c \in comparison : setting.selection = "quality_replacement" /\ ~setting.hermes =>
    c.selected \subseteq Range(DiversityStrategyFamily(c.item.order))

\* The strategies a budget requires compete, whatever the seed draws.
RequiredStrategiesCompete ==
  \A c \in comparison : Range(c.required) \subseteq c.strategies

\* "The review-worthy cases are high-risk boundary cases": value, uncertainty and
\* margin never add up to a review of an order of medium or low risk.
ReviewWorthyIsHighRisk ==
  \A c \in comparison : c.crossover = "review_worthy" \/ c.review = "high" => HighRisk(c.item.order)

\* Hermes orders never ask for a stronger model and never cost much to get wrong, so no
\* seed gives one of them as much as a diagnostic note, though four of their categories
\* are on the list of the important ones.
HermesSpendsNoCritique ==
  \A c \in comparison : setting.hermes => c.review = "none" /\ c.crossover = "none"

\* A recommendation to strengthen the boundary alignment is about legacy selection: with
\* quality replacement no mix of orders and seeds brings it up.
ReplacementNeedsNoStrengthening ==
  setting.selection = "quality_replacement" /\ ~setting.hermes =>
    "strengthen_high_risk_boundary_alignment" \notin BuildRecommendations(tally)
=============================================================================
