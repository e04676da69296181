------------------------------ MODULE OuterLoop ------------------------------
(***************************************************************************)
(* The slow loop (scripts/lib/outer-loop-review.mjs) over the same metrics *)
(* whose landed changes the middle loop judges (PostDeployMeasurement).    *)
(* Candidates of a route are evaluated and turned away or land; a landing  *)
(* moves the route's metric, its ticket is measured, and the counts and    *)
(* samples become the files the review reads.  The review recommends and   *)
(* changes nothing, so its report is an operator of that evidence.         *)
(*                                                                         *)
(* Bounds: MaxEvaluated, MaxSamples.  Left out: reasons, evidence records, *)
(* the constant control hierarchy, the dates of the window.                *)
(***************************************************************************)
EXTENDS PostDeployMeasurement, Sequences, SequencesExt, FiniteSets

CONSTANTS
  Metrics,      \* the metrics: [direction, target, tolerance, kind]
  Values,       \* what a sample may be
  MaxEvaluated, MaxSamples

\* What holds of the constants.
OuterAssumption ==
  /\ \A m \in Metrics : /\ m.direction \in Directions /\ m.kind \in CandidateKinds
                         /\ m.tolerance \in Nat /\ m.target \in Int
  /\ Values \subseteq Nat
  /\ MaxEvaluated \in Nat /\ MaxSamples \in Nat

VARIABLES
  metric,     \* the metric under review
  samples,    \* the metric's samples in the review window, oldest first
  outcome,    \* the counts of its route
  gaps        \* evidence of components without a registered metric

vars == <<metric, samples, outcome, gaps>>

-----------------------------------------------------------------------------
(* The review.                                                             *)

\* Mutant: compares the latest sample with the one before it only.
ReviewMetricTrendMutant(trend) ==
  IF trend = <<>> THEN "no_change"
  ELSE LET distance(value) == DistanceToTarget(metric.direction, metric.target, value)
           first == distance(trend[IF Len(trend) > 1 THEN Len(trend) - 1 ELSE 1])
           latest == distance(Last(trend))
       IN  IF latest > metric.tolerance /\ first - latest < metric.tolerance
           THEN "setpoint_adjustment_candidate" ELSE "no_change"

\* Distances are not rounded here, unlike in the middle loop.
ReviewMetricTrend(trend) ==
  IF trend = <<>> THEN "no_change"
  ELSE LET distance(value) == DistanceToTarget(metric.direction, metric.target, value)
           latest == distance(Last(trend))
       IN  IF /\ latest > metric.tolerance
              /\ distance(trend[1]) - latest < metric.tolerance
           THEN "setpoint_adjustment_candidate" ELSE "no_change"

\* Thresholds 0.45 and 0.4.
Recalibrates(counts) ==
  \/ counts.evaluated > 0 /\ 100 * counts.rejected >= 45 * counts.evaluated
  \/ counts.postDeploy > 0 /\ 100 * counts.negative >= 40 * counts.postDeploy

ReviewRouteOutcome(counts) ==
  IF Recalibrates(counts) THEN {"route_recalibration_candidate"} ELSE {}

ReviewMetricRegistryGap(gap) ==
  [type |-> "metric_registry_expansion_candidate", metric |-> gap]

\* The recommendations; "candidate" is the status of all but no_change.
ReviewOuterLoop(trend, counts, gapFile) ==
  LET types == {ReviewMetricTrend(trend)} \cup ReviewRouteOutcome(counts)
               \cup {ReviewMetricRegistryGap(g).type : g \in gapFile}
  IN  [recommendations |-> types, actionable |-> types \ {"no_change"}]

-----------------------------------------------------------------------------
(* The evidence.                                                           *)

NoOutcome == [evaluated |-> 0, rejected |-> 0, postDeploy |-> 0, negative |-> 0]

Init == /\ metric \in Metrics /\ samples \in {<<v>> : v \in Values}
        /\ outcome = NoOutcome /\ gaps = {}

Ticket(pre, post) ==
  [kind |-> metric.kind, route |-> metric.kind, direction |-> metric.direction,
   target |-> metric.target, tolerance |-> metric.tolerance, pre |-> pre, post |-> post]

Evaluate(rejected) ==
  /\ outcome.evaluated < MaxEvaluated
  /\ outcome' = [outcome EXCEPT !.evaluated = @ + 1,
                                !.rejected = @ + IF rejected THEN 1 ELSE 0]
  /\ UNCHANGED <<metric, samples, gaps>>

\* A candidate lands; the metric moves from its last sample to value.
Land(value) ==
  /\ Len(samples) < MaxSamples /\ outcome.postDeploy < outcome.evaluated - outcome.rejected
  /\ LET decision == MeasurePostDeployTicket(Ticket(Last(samples), value)).decision IN
       outcome' = [outcome EXCEPT !.postDeploy = @ + 1,
                     !.negative = @ + IF decision = "confirmed_negative" THEN 1 ELSE 0]
  /\ samples' = Append(samples, value)
  /\ UNCHANGED <<metric, gaps>>

\* The metric moves by itself.
Drift(value) ==
  /\ Len(samples) < MaxSamples
  /\ samples' = Append(samples, value)
  /\ UNCHANGED <<metric, outcome, gaps>>

ObserveGap ==
  /\ gaps = {} /\ gaps' = {"unregistered"}
  /\ UNCHANGED <<metric, samples, outcome>>

Next ==
  \/ \E rejected \in BOOLEAN : Evaluate(rejected)
  \/ \E value \in Values : Land(value) \/ Drift(value)
  \/ ObserveGap

Spec == Init /\ [][Next]_vars

-----------------------------------------------------------------------------
(* Properties.                                                             *)

Review == ReviewOuterLoop(samples, outcome, gaps)
Window == MeasurePostDeployTicket(Ticket(samples[1], Last(samples)))
OnGrid(x) == x % Grain = 0

\* The two loops, written apart and rounding differently, do not contradict each
\* other about a metric: what the middle loop would confirm as an improvement
\* over the window needs no new setpoint, and what it would confirm as a
\* deterioration that ends outside tolerance does.  Only for values with three
\* decimals: a finer value may round into the tolerance band.
LoopsAgree ==
  (\A v \in {metric.target, metric.tolerance, samples[1], Last(samples)} : OnGrid(v)) =>
    /\ Window.decision = "confirmed_positive" =>
         "setpoint_adjustment_candidate" \notin Review.recommendations
    /\ /\ Window.decision = "confirmed_negative"
       /\ DistanceToTarget(metric.direction, metric.target, Last(samples)) > metric.tolerance
       => "setpoint_adjustment_candidate" \in Review.recommendations

\* A route stays marked for recalibration until a candidate passes evaluation
\* or a deployment is measured as not negative; more candidates turned away,
\* drift and gaps never withdraw the mark.
OnlyGoodOutcomesWithdraw ==
  \/ "route_recalibration_candidate" \notin ReviewOuterLoop(samples, outcome, gaps).actionable
  \/ "route_recalibration_candidate" \in ReviewOuterLoop(samples', outcome', gaps').actionable
  \/ outcome'.evaluated - outcome'.rejected > outcome.evaluated - outcome.rejected
  \/ outcome'.postDeploy - outcome'.negative > outcome.postDeploy - outcome.negative
=============================================================================
