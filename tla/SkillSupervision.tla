-------------------------- MODULE SkillSupervision --------------------------
(***************************************************************************)
(* The supervision of one behaviour event against the contract of a skill  *)
(* (scripts/lib/skill-evolution-supervisor.mjs) and the bridge that admits *)
(* the evolution candidates it yields to the tournament                    *)
(* (scripts/lib/skill-evolution-tournament-bridge.mjs).                    *)
(*                                                                         *)
(* An action, a memory class or a target is the set of the contract's two  *)
(* lists, "allowed" and "forbidden", that match it: {} is unknown, and a   *)
(* contract may list a name twice.  The machine changes one event field    *)
(* after another, as an operator who reports the same behaviour again.     *)
(***************************************************************************)
EXTENDS Integers, Sequences, FiniteSets

CONSTANTS
  Contracts,   \* records [persistPolicy, publicPolicy, gateFor, named, first, routes]
  MaxRaised,   \* bound: how many things may be wrong with one event
  Memories     \* the sets of memory classes an event may use

Lists == {"allowed", "forbidden"}
Levels == <<"low", "medium", "high", "blocking">>
None == [none |-> TRUE]

VARIABLES contract, event, supervision, bridge

vars == <<contract, event, supervision, bridge>>

-----------------------------------------------------------------------------
(* The supervisor.                                                         *)

RiskAtLeast(level, minimum) ==
  \E i, j \in 1..4 : Levels[i] = level /\ Levels[j] = minimum /\ i >= j

LiveAuthority(e) == e.authority = "live_write"
ForbiddenMemory(e) == \E class \in e.memory : "forbidden" \in class
UnknownMemory(e) == {} \in e.memory

ObservedSignals(e) ==
  (IF e.publicOutput THEN {"public_output"} ELSE {})
  \cup (IF e.persistentWrite THEN {"persistent_write"} ELSE {})
  \cup (IF ForbiddenMemory(e) THEN {"private_memory_used"} ELSE {})
  \cup (IF RiskAtLeast(e.level, "high") THEN {"high_risk"} ELSE {})
  \cup (IF LiveAuthority(e) THEN {"live_write"} ELSE {})

PersistentWriteNeedsGate(c, e) ==
  e.persistentWrite /\ c.persistPolicy \in {"forbidden", "gated_only"}

PublicPublishNeedsGate(c, e) ==
  e.publicOutput /\ e.persistentWrite /\ c.publicPolicy # "gated_publish_allowed"

HighRiskGateRequired(c, e) == RiskAtLeast(e.level, "high") /\ "high_risk" \in c.gateFor

CandidateAllowed(e) == e.candidate = None \/ "allowed" \in e.candidate.target.lists
CandidateForbidden(e) == e.candidate # None /\ "forbidden" \in e.candidate.target.lists

\* The checks that fail; the one on the allowed actions is not among them, for it
\* does not count against the event.
FailedChecks(c, e) ==
  {check \in {"skill id", "action", "memory", "persistent", "public", "risk", "live", "target"} :
     CASE check = "skill id" -> ~e.skillMatches
       [] check = "action" -> "forbidden" \in e.action
       [] check = "memory" -> ForbiddenMemory(e)
       [] check = "persistent" -> PersistentWriteNeedsGate(c, e) /\ ~e.gate
       [] check = "public" -> PublicPublishNeedsGate(c, e) /\ ~e.gate
       [] check = "risk" -> HighRiskGateRequired(c, e) /\ ~e.gate
       [] check = "live" -> LiveAuthority(e) /\ ~e.gate
       [] OTHER -> ~CandidateAllowed(e) \/ CandidateForbidden(e)}

MissingGate(c, e) ==
  /\ ~e.gate
  /\ \/ PersistentWriteNeedsGate(c, e) \/ PublicPublishNeedsGate(c, e)
     \/ HighRiskGateRequired(c, e) \/ LiveAuthority(e)

Violations(c, e) ==
  (IF ~e.skillMatches THEN {"skill_id_mismatch"} ELSE {})
  \cup (IF "forbidden" \in e.action THEN {"forbidden_action"} ELSE {})
  \cup (IF ForbiddenMemory(e) THEN {"forbidden_memory_used"} ELSE {})
  \cup (IF MissingGate(c, e) THEN {"missing_qianxuesen_gate"} ELSE {})
  \cup (IF CandidateForbidden(e) THEN {"forbidden_evolution_target"} ELSE {})

Warnings(e) ==
  (IF "allowed" \notin e.action THEN {"unknown_action"} ELSE {})
  \cup (IF UnknownMemory(e) THEN {"unknown_memory_class"} ELSE {})
  \cup (IF ~CandidateForbidden(e) /\ ~CandidateAllowed(e) THEN {"unknown_evolution_target"} ELSE {})

InferRouteRecommendation(c, e, violations) ==
  IF violations \cap {"forbidden_memory_used", "forbidden_action"} # {} \/ "policy_conflict" \in e.feedback THEN "policy"
  ELSE IF "positive_engagement" \in e.feedback THEN "skill"
  ELSE IF e.status = "failed" THEN "damping"
  ELSE IF "case" \in {c.routes[i] : i \in DOMAIN c.routes} THEN "case" ELSE c.routes[1]

\* The event's own candidate; its flags say what the contract lists.
CandidateFromEvent(e, violations) ==
  IF e.candidate = None THEN <<>>
  ELSE << [target |-> e.candidate.target, refs |-> e.candidate.refs,
           status |-> IF violations # {} \/ CandidateForbidden(e) THEN "blocked"
                      ELSE "replay_required",
           allowedMatch |-> "allowed" \in e.candidate.target.lists,
           forbiddenMatch |-> CandidateForbidden(e)] >>

\* Without one, candidates are inferred from the feedback; where the contract does
\* not name the usual target the first of its list is taken, and the flags are fixed.
InferredTarget(c, name) ==
  IF name \in c.named
  THEN [lists |-> {"allowed"}, word |-> IF name = "successful_reply_pattern" THEN "case" ELSE "damping"]
  ELSE c.first

Inferred(c, name) ==
  [target |-> InferredTarget(c, name), refs |-> 1, status |-> "replay_required",
   allowedMatch |-> TRUE, forbiddenMatch |-> FALSE]

InferredCandidates(c, e, existing) ==
  IF existing # <<>> THEN <<>>
  ELSE (IF {"positive_engagement", "policy_clean"} \subseteq e.feedback
        THEN <<Inferred(c, "successful_reply_pattern")>> ELSE <<>>)
       \o (IF "policy_conflict" \in e.feedback THEN <<Inferred(c, "cooldown_damping")>> ELSE <<>>)

ReviewRequired(e, violations, observed) ==
  \/ violations # {}
  \/ observed \cap {"high_risk", "private_memory_used", "persistent_write"} # {}
  \/ e.publicOutput /\ e.status \in {"executed", "succeeded", "failed"}

SuperviseSkillEvolution(c, e) ==
  LET violations == Violations(c, e)
      observed == ObservedSignals(e)
      explicit == CandidateFromEvent(e, violations)
      ok == violations = {} /\ FailedChecks(c, e) = {}
  IN  [ok |-> ok, status |-> IF ~ok THEN "fail" ELSE IF Warnings(e) # {} THEN "warn" ELSE "pass",
       violations |-> violations, observed |-> observed, failed |-> FailedChecks(c, e),
       review |-> ReviewRequired(e, violations, observed),
       route |-> InferRouteRecommendation(c, e, violations),
       candidates |-> explicit \o InferredCandidates(c, e, explicit)]

-----------------------------------------------------------------------------
(* The bridge.                                                             *)

KnownTournamentRoutes == {"skill", "memory", "case", "policy", "damping"}

RouteForCandidate(s, candidate) ==
  IF s.route \in KnownTournamentRoutes THEN s.route
  ELSE IF candidate.target.word \in {"damping", "policy", "memory", "case"} THEN candidate.target.word
  ELSE "skill"

RiskLevelFor(s) ==
  IF s.violations # {} \/ s.observed \cap {"private_memory_used", "high_risk", "live_write"} # {} THEN "high"
  ELSE IF s.observed \cap {"public_output", "persistent_write"} # {} THEN "medium"
  ELSE "low"

RiskPenalty(level) == CASE level = "low" -> 0 [] level = "medium" -> 400 [] level = "high" -> 1000

\* In ten-thousandths.  The safety terms of the supervisor are constants.
ScoreForSkillCandidate(s, candidate) ==
  LET refs == IF candidate.refs > 4 THEN 4 ELSE IF candidate.refs < 1 THEN 1 ELSE candidate.refs
      routeScore == [skill |-> 2160, memory |-> 2016, case |-> 1920, policy |-> 1872, damping |-> 1392]
  IN  550 * refs + routeScore[RouteForCandidate(s, candidate)] + 3000
      + (IF candidate.allowedMatch /\ ~candidate.forbiddenMatch THEN 1400 ELSE 0) + 1000
      - RiskPenalty(RiskLevelFor(s))

AdmissionChecks(s, candidate) ==
  s.ok /\ candidate.status = "replay_required" /\ candidate.allowedMatch /\ ~candidate.forbiddenMatch

BuildSkillEvolutionTournamentBridge(s) ==
  [i \in DOMAIN s.candidates |->
     LET admitted == AdmissionChecks(s, s.candidates[i]) IN
     [admitted |-> admitted, target |-> s.candidates[i].target,
      route |-> RouteForCandidate(s, s.candidates[i]), risk |-> RiskLevelFor(s),
      score |-> IF admitted THEN ScoreForSkillCandidate(s, s.candidates[i]) ELSE 0]]

-----------------------------------------------------------------------------
Candidates ==
  {None} \cup [target : [lists : SUBSET Lists, word : {"policy", "other"}], refs : {1}]

Events ==
  [skillMatches : BOOLEAN, action : {{"allowed"}, {"forbidden"}, {}}, memory : Memories,
   publicOutput : BOOLEAN, persistentWrite : BOOLEAN, level : {"low", "high"},
   authority : {"draft_only", "live_write"}, gate : BOOLEAN,
   status : {"drafted", "failed"}, feedback : SUBSET {"positive_engagement", "policy_clean", "policy_conflict"},
   candidate : Candidates]

Review(e) ==
  /\ event' = e
  /\ supervision' = SuperviseSkillEvolution(contract, e)
  /\ bridge' = BuildSkillEvolutionTournamentBridge(supervision')
  /\ UNCHANGED contract

\* A calm event: everything that can raise its risk is still off.
Calm ==
  [skillMatches |-> TRUE, action |-> {"allowed"}, memory |-> {}, publicOutput |-> FALSE,
   persistentWrite |-> FALSE, level |-> "low", authority |-> "draft_only"]

Init ==
  /\ contract \in Contracts
  /\ event \in {e \in Events : ~e.gate /\ \A field \in DOMAIN Calm : e[field] = Calm[field]}
  /\ supervision = SuperviseSkillEvolution(contract, event)
  /\ bridge = BuildSkillEvolutionTournamentBridge(supervision)

Raised == Cardinality({field \in DOMAIN Calm : event[field] # Calm[field]})

\* The same behaviour is reported with one more thing that can go wrong.
Escalate ==
  /\ Raised < MaxRaised
  /\ \/ ~event.publicOutput /\ Review([event EXCEPT !.publicOutput = TRUE])
     \/ ~event.persistentWrite /\ Review([event EXCEPT !.persistentWrite = TRUE])
     \/ event.level = "low" /\ Review([event EXCEPT !.level = "high"])
     \/ event.authority = "draft_only" /\ Review([event EXCEPT !.authority = "live_write"])
     \/ event.action = {"allowed"} /\ \E a \in {{"forbidden"}, {}} : Review([event EXCEPT !.action = a])
     \/ event.memory = {} /\ \E used \in Memories \ {{}} : Review([event EXCEPT !.memory = used])
     \/ event.skillMatches /\ Review([event EXCEPT !.skillMatches = FALSE])

\* The event passes the gate.
PassGate == ~event.gate /\ Review([event EXCEPT !.gate = TRUE])

Next == Escalate \/ PassGate

Spec == Init /\ [][Next]_vars

-----------------------------------------------------------------------------
TypeOK ==
  /\ contract \in Contracts /\ event \in Events
  /\ \A i \in DOMAIN bridge : bridge[i].score \in 0..10000 /\ bridge[i].route \in KnownTournamentRoutes

\* A candidate reaches the tournament only from an event of this skill that took no
\* forbidden action, used no forbidden memory, and passed the gate for everything its
\* contract wants gated; the two stages that decide this see different records.
AdmissionRequiresCleanEvent ==
  (\E i \in DOMAIN bridge : bridge[i].admitted) =>
    /\ event.skillMatches /\ "forbidden" \notin event.action
    /\ \A class \in event.memory : "forbidden" \notin class
    /\ event.gate \/ ~(\/ event.authority = "live_write"
                       \/ event.persistentWrite /\ contract.persistPolicy \in {"forbidden", "gated_only"}
                       \/ event.level = "high" /\ "high_risk" \in contract.gateFor)

\* The supervisor computes checks and violations apart from each other: every failed
\* check has a violation, except a target the contract does not list at all.
FailuresAreExplained ==
  supervision.failed # {} /\ supervision.violations = {} =>
    supervision.failed = {"target"} /\ event.candidate.target.lists = {}

\* Reporting something riskier about an event never gets one of its candidates
\* admitted and never raises a score.
EscalationNeverHelps ==
  event'.gate = event.gate => \A i \in DOMAIN bridge' :
    /\ bridge'[i].admitted => bridge[i].admitted
    /\ bridge'[i].score <= bridge[i].score

\* Passing the gate never costs a candidate its admission or a point of its score.
GateNeverHurts ==
  event'.gate # event.gate => \A i \in DOMAIN bridge :
    (bridge[i].admitted => bridge'[i].admitted) /\ bridge[i].score <= bridge'[i].score
=============================================================================
