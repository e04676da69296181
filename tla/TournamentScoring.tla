------------------------- MODULE TournamentScoring -------------------------
(***************************************************************************)
(* The tournament of one candidate                                         *)
(* (scripts/lib/evolution-tournament-scoring.mjs): four variants are built *)
(* and scored, the hard gate rejects, a winner is chosen, the losers are   *)
(* classified.                                                             *)
(*                                                                         *)
(* A candidate is [route, risk, count, signals, sourceBacked, words]:      *)
(* count is its evidence, words the number of tokens of its reason.  Scores*)
(* are thousandths, as the code rounds them; a composite is summed exactly,*)
(* in 1/90000, before it is rounded, where the code adds doubles (a sum    *)
(* that ends on a half may round either way there).  Left out: identifiers *)
(* and texts, the safety flags (constants).                                *)
(***************************************************************************)
EXTENDS Integers, Sequences, FiniteSets, SequencesExt

Strategies == <<"baseline", "trace_reflective", "pareto_compact", "aggressive_auto_publish">>
Least(a, b) == IF a < b THEN a ELSE b
Most(a, b) == IF a > b THEN a ELSE b

Clamp01(x) == Most(0, Least(100, x))      \* of hundredths
If(condition, x) == IF condition THEN x ELSE 0

-----------------------------------------------------------------------------
(* The variants.                                                           *)

\* words: of the proposed change; outline: of the procedure; novelty in hundredths.
BuildVariants(c) ==
  [baseline |-> [words |-> c.words, outline |-> 19, novelty |-> 15,
      operations |-> 0, surfaces |-> {"draft_report"}],
   trace_reflective |-> [words |-> c.words + 21 + Most(1, Cardinality(c.signals)), outline |-> 36,
      novelty |-> 74, operations |-> 0, surfaces |-> {"draft_report", "local_eval_metadata"}],
   pareto_compact |-> [words |-> 21, outline |-> 18, novelty |-> 58,
      operations |-> 0, surfaces |-> {"draft_report"}],
   aggressive_auto_publish |-> [words |-> 23, outline |-> 18, novelty |-> 95, operations |-> 3,
      surfaces |-> {"draft_report", "persistent_state", "skill_registry"}]]

TextBudgetOk(v) == v.words <= 90 /\ v.outline <= 90

\* One violation per failed check and one per blocked operation requested.
Violations(v) ==
  If(v.operations > 0, 1) + If(~TextBudgetOk(v), 1) + v.operations

HardGatePassed(v) == Violations(v) = 0

\* Of the four cases only the holdout on live effects looks at what can differ.
Holdout(v) == IF v.operations = 0 THEN 1000 ELSE 500

StrategyFit(c, s) ==
  LET risky == c.risk \in {"high", "critical"} IN
  CASE s = "baseline" ->
         Clamp01(58 + If(c.route = "damping", 30) + If(c.count <= 2, 16) + If(c.risk = "low", 8)
                 - If(risky, 14) - If(c.route = "policy", 12))
    [] s = "trace_reflective" ->
         Clamp01(62 + If(c.route = "policy", 24) + If(c.route = "case", 22)
                 + If(c.route = "skill", 10) + If(risky, 10) + If(c.sourceBacked, 5)
                 + If("repeated_failure_pattern" \in c.signals, 5)
                 + If("public_posting_boundary" \in c.signals, 5)
                 + If("real_chat_validation_required" \in c.signals, 4))
    [] s = "pareto_compact" ->
         Clamp01(70 + If(c.route = "memory", 20) + If(c.route = "skill", 12)
                 + If(c.risk = "low", 8) + If(c.count >= 4, 6) - If(c.route = "policy", 18)
                 - If(c.route = "case", 10) - If(c.route = "damping", 12)
                 - If("public_posting_boundary" \in c.signals, 8))
    [] OTHER -> 10

EvidenceFit(c) == Most(550, Least(c.count, 4) * 250)
Safety(v) == IF HardGatePassed(v) THEN 1000 ELSE Most(0, 450 - 60 * Violations(v))
\* 1 - words/180, at least 0.2, in 1/180
Compactness180(v) == Most(36, 180 - v.words - v.outline)
RoundTo1000(x, unit) == (2 * 1000 * x + unit) \div (2 * unit)

\* route_fit, train and validation are 1 for every variant that is built here.
Composite(c, s, v) ==
  LET raw == 32400 + (144 * EvidenceFit(c)) \div 10 + (144 * Holdout(v)) \div 10
             + (126 * Safety(v)) \div 10 + 25 * Compactness180(v)
             + 36 * v.novelty + 81 * StrategyFit(c, s)
  IN  RoundTo1000(Most(0, raw - If(~HardGatePassed(v), 31500)), 90000)

ScoreVariant(c, s, v) ==
  [evidence_fit |-> EvidenceFit(c), holdout |-> Holdout(v), safety |-> Safety(v),
   compactness |-> RoundTo1000(Compactness180(v), 180), novelty |-> 10 * v.novelty,
   strategy_fit |-> 10 * StrategyFit(c, s),
   regression |-> IF HardGatePassed(v) THEN 1000 ELSE 100,
   composite |-> Composite(c, s, v)]

-----------------------------------------------------------------------------
(* Footprints and the winner.                                              *)

\* restraint = setpoints + actuators + the L1 norm of the setpoint delta.
ControlFootprint(s, v) ==
  IF s = "baseline" THEN [setpoints |-> 0, actuators |-> 0, restraint |-> 0]
  ELSE LET setpoints == IF s = "aggressive_auto_publish" THEN 2 ELSE 1
           actuators == Cardinality(v.surfaces) + v.operations
       IN  [setpoints |-> setpoints, actuators |-> actuators,
            restraint |-> 1000 * (setpoints + actuators) + 10 * v.novelty
                          + Least(1000, 250 * actuators) + Least(1000, (v.operations * 1000) \div 3)]

\* A tournament's variants: strategy -> [passed, scores, footprint, violations].
Scored(c) ==
  LET built == BuildVariants(c) IN
  [s \in Range(Strategies) |->
     [passed |-> HardGatePassed(built[s]), scores |-> ScoreVariant(c, s, built[s]),
      footprint |-> ControlFootprint(s, built[s]), blocked |-> built[s].operations]]

SynthesisCanBeatRevision(vs, pool) ==
  LET revision == vs["trace_reflective"] synthesis == vs["pareto_compact"] IN
  /\ {"trace_reflective", "pareto_compact"} \subseteq pool
  /\ synthesis.footprint.restraint <= revision.footprint.restraint
  /\ 100 * synthesis.scores.composite >= 97 * revision.scores.composite
  /\ \A key \in {"safety", "holdout", "regression"} : synthesis.scores[key] >= revision.scores[key]

\* The names in alphabetical order, the last tie-break.
NameOrder(s) == CASE s = "aggressive_auto_publish" -> 1 [] s = "baseline" -> 2
                  [] s = "pareto_compact" -> 3 [] s = "trace_reflective" -> 4

\* Mutant: on a tie the newer strategy is preferred to the incumbent.
RanksBeforeMutant(vs, a, b) ==
  \/ vs[a].scores.composite > vs[b].scores.composite
  \/ vs[a].scores.composite = vs[b].scores.composite /\ NameOrder(a) > NameOrder(b)

RanksBefore(vs, a, b) ==
  LET x == vs[a].scores y == vs[b].scores IN
  \/ x.composite > y.composite
  \/ x.composite = y.composite /\ x.holdout > y.holdout
  \/ /\ <<x.composite, x.holdout>> = <<y.composite, y.holdout>> /\ x.safety > y.safety
  \/ /\ <<x.composite, x.holdout, x.safety>> = <<y.composite, y.holdout, y.safety>>
     /\ (a = "baseline" \/ (b # "baseline" /\ NameOrder(a) < NameOrder(b)))

ChooseWinner(vs) ==
  LET safe == {s \in DOMAIN vs : vs[s].passed}
      pool == IF safe # {} THEN safe ELSE DOMAIN vs
      barred == IF "trace_reflective" \in pool /\ ~SynthesisCanBeatRevision(vs, pool)
                THEN {"pareto_compact"} ELSE {}
      open == IF pool \ barred # {} THEN pool \ barred ELSE pool
  IN  CHOOSE s \in open : \A t \in open \ {s} : RanksBefore(vs, s, t)

Dominates(x, y) ==
  LET keys == {"composite", "holdout", "safety", "compactness"} IN
  /\ \A key \in keys : x[key] >= y[key]
  /\ \E key \in keys : x[key] > y[key]

-----------------------------------------------------------------------------
(* The losers.                                                             *)

Delta(winner, loser, key) == winner.scores[key] - loser.scores[key]

FailureType(winner, loser) ==
  IF ~loser.passed \/ loser.blocked > 0 THEN "safety_boundary"
  ELSE IF Delta(winner, loser, "holdout") >= 200 THEN "overfit_or_holdout_regression"
  ELSE IF Delta(winner, loser, "evidence_fit") >= 200 THEN "evidence_deficit"
  ELSE IF Delta(winner, loser, "compactness") >= 200 THEN "cost_or_operational_risk"
  ELSE IF \/ loser.scores.strategy_fit >= winner.scores.strategy_fit
          \/ loser.scores.novelty > winner.scores.novelty THEN "context_mismatch"
  ELSE "quality_inferior"

LoserClass(winner, loser) ==
  LET margin == Delta(winner, loser, "composite") IN
  IF ~loser.passed \/ loser.blocked > 0 THEN "unsafe"
  ELSE IF margin <= 60 THEN "promising"
  ELSE IF margin <= 120 /\ (\/ loser.scores.strategy_fit >= winner.scores.strategy_fit
                            \/ loser.scores.novelty > winner.scores.novelty
                            \/ loser.scores.compactness > winner.scores.compactness) THEN "promising"
  ELSE "weak"

CandidatePoolEffect(class) ==
  CASE class = "unsafe" -> "strong_suppression"
    [] class = "promising" -> "contextual_alternative"
    [] class = "weak" -> "evidence_required_before_reentry"

-----------------------------------------------------------------------------
(* The restraint layer.                                                    *)

RiskLevel(score) ==
  IF score >= 700 THEN "high" ELSE IF score >= 400 THEN "medium" ELSE IF score > 0 THEN "low" ELSE "none"

SafeChanged(vs) == {s \in {"trace_reflective", "pareto_compact"} : vs[s].passed}

\* Thousandths.  Two changed variants of one route: one setpoint, two hashes.
ScopeDriftScore(vs, winner) ==
  LET changed == SafeChanged(vs)
      actuators == IF "trace_reflective" \in changed THEN 2 ELSE Cardinality(changed)
      gain == Most(0, vs[winner].scores.composite - vs["baseline"].scores.composite)
      growth == Most(0, vs[winner].footprint.restraint - vs["baseline"].footprint.restraint)
  IN  (If(changed # {}, 1) * 180) \div 4 + (actuators * 180) \div 6
      + (Cardinality(changed) * 140) \div 6 + Least(150, (growth * 150) \div 8000)
      + If(gain < 10 /\ growth > 0, 350)

MetricOnlyGain(v, incumbent) ==
  /\ v.scores.composite > incumbent.scores.composite
  /\ \A key \in {"safety", "holdout", "regression"} : v.scores[key] = incumbent.scores[key]
  /\ v.scores.evidence_fit <= incumbent.scores.evidence_fit

MetricGamingScore(vs, winner) ==
  LET incumbent == vs["baseline"]
      better(s) == vs[s].scores.composite > incumbent.scores.composite
      metricOnly == {s \in SafeChanged(vs) : MetricOnlyGain(vs[s], incumbent)}
      hidden == {s \in SafeChanged(vs) : better(s) /\
                   \E key \in {"safety", "holdout", "regression"} :
                     vs[s].scores[key] < incumbent.scores[key]}
      loud == {s \in DOMAIN vs : ~vs[s].passed /\ better(s)}
      changedWinner == winner # "baseline"
  IN  If(changedWinner /\ MetricOnlyGain(vs[winner], incumbent), 100)
      + Least(200, 40 * Cardinality(metricOnly)) + Least(250, 80 * Cardinality(loud))
      + Least(350, 180 * Cardinality(hidden))
      + If(changedWinner /\ vs[winner].scores.evidence_fit < 750, 120)

\* The tournament of a candidate.
BuildTournament(c) ==
  LET Report(vs, winner, losers) ==
        [candidate |-> c, variants |-> vs, winner |-> winner, losers |-> losers,
         class |-> [s \in losers |-> LoserClass(vs[winner], vs[s])],
         failure |-> [s \in losers |-> FailureType(vs[winner], vs[s])],
         noChange |-> If(winner = "baseline", 1),
         canBeat |-> SynthesisCanBeatRevision(vs, DOMAIN vs),
         drift |-> ScopeDriftScore(vs, winner), gaming |-> MetricGamingScore(vs, winner)]
      Decided(vs, winner) == Report(vs, winner, DOMAIN vs \ {winner})
      Held(vs) == Decided(vs, ChooseWinner(vs))
  IN  Held(Scored(c))

\* The conjuncts of the gate's final validation that a tournament could break.
TournamentViolations(t) ==
  LET w == t.variants[t.winner] IN
  {x \in {"synthesis", "constraints", "negative", "rejected", "suppressed", "boundary"} :
     CASE x = "synthesis" -> t.winner = "pareto_compact" /\ ~t.canBeat
       [] x = "constraints" -> ~w.passed
       [] x = "negative" -> \A s \in DOMAIN t.variants : t.variants[s].passed
       [] x = "rejected" -> \E s \in t.losers : ~t.variants[s].passed /\ t.class[s] # "unsafe"
       [] x = "suppressed" -> \E s \in t.losers : t.class[s] # "unsafe"
                                /\ CandidatePoolEffect(t.class[s]) = "strong_suppression"
       [] x = "boundary" -> \E s \in t.losers : t.class[s] = "unsafe"
                                /\ t.failure[s] # "safety_boundary"}
=============================================================================
