----------------------- MODULE PostDeployMeasurement -----------------------
(***************************************************************************)
(* scripts/lib/post-deploy-measurement.mjs: the deterministic classifier   *)
(* that says whether a landed candidate moved its metric towards the       *)
(* setpoint.  The module has operators only; StabilityMonitor and          *)
(* OuterLoop call them, as the code does.                                  *)
(*                                                                         *)
(* A metric value counts parts of 1/1000, Grain parts to 1/1000, so that   *)
(* rounding to three decimals is a step that can lose something.  Binary   *)
(* floating point itself is left out.                                      *)
(***************************************************************************)
EXTENDS Integers

CONSTANT Grain

ASSUME GrainAssumption == Grain \in Nat \ {0}

CandidateKinds == {"skill", "memory", "case", "policy"}
Directions == {"minimize", "maximize", "hold_within"}
Unmeasured == -1          \* post_deploy_value null

AtLeast0(x) == IF x > 0 THEN x ELSE 0
Abs(x) == IF x < 0 THEN -x ELSE x

\* Math.round(value * 1000) / 1000
Round(x) == Grain * ((2 * x + Grain) \div (2 * Grain))

DistanceToTarget(direction, target, value) ==
  CASE direction = "minimize" -> AtLeast0(value - target)
    [] direction = "maximize" -> AtLeast0(target - value)
    [] OTHER -> Abs(value - target)

ClassifyDelta(pre, post, tolerance) ==
  IF \/ pre - post > tolerance
     \/ pre > tolerance /\ post <= tolerance
  THEN "confirmed_positive"
  ELSE IF pre - post < -tolerance THEN "confirmed_negative" ELSE "null_effect"

\* The errors that normalizeDirection, normalizeCandidateKind and the check of
\* the route throw.
Throws(ticket) ==
  \/ ticket.direction \notin Directions \/ ticket.kind \notin CandidateKinds
  \/ ticket.route # ticket.kind

\* A rollback is only recommended, never executed, and so is damping.
MeasurePostDeployTicket(ticket) ==
  LET tolerance == AtLeast0(ticket.tolerance)
      distance(value) == Round(DistanceToTarget(ticket.direction, ticket.target, value))
      decision == IF ticket.post = Unmeasured THEN "pending"
                  ELSE ClassifyDelta(distance(ticket.pre), distance(ticket.post), tolerance)
  IN  [route |-> ticket.route, decision |-> decision,
       rollback |-> decision = "confirmed_negative",
       damping |-> decision = "confirmed_negative"]
=============================================================================
