--------------------------- MODULE FullLoopHealth ---------------------------
(***************************************************************************)
(* Health of the full loop (scripts/lib/qianxuesen-full-loop-health.mjs):  *)
(* one run takes the smoke and the calibration, writes both beside its     *)
(* history, then its manifest and its text to history and to latest.  The  *)
(* calibration (scripts/lib/current-line-calibration.mjs) sends every      *)
(* sample set through memory layer, tickets, work orders, vector storage,  *)
(* a retrieval probe and the tournament, holds it against the routes and   *)
(* the judge its author expects, and replays the perception fixtures.      *)
(*                                                                         *)
(* Runs of several processes may overlap, and may be killed.  A write      *)
(* empties its file and fills it; a file filled by another run in between  *)
(* holds the text of this one over the end of the other's, if that was     *)
(* longer.  A sample is what its steps reported; its storage plan and its  *)
(* probe are computed, with the operators of VectorMemory.  Left out: the  *)
(* summaries and counts that nothing judges, and wording.                  *)
(***************************************************************************)
EXTENDS Integers, FiniteSets, FiniteSetsExt, Sequences

CONSTANTS
  Runs,          \* processes
  RunId,         \* run -> the directory its time names
  KeepHistory,   \* run -> whether it was started with history
  Inputs         \* name -> [smoke, samples, replay]: what a run may find

ASSUME FullLoopAssumption ==
  /\ Runs # {} /\ "none" \notin DOMAIN Inputs
  /\ \A r \in Runs : KeepHistory[r] \in BOOLEAN /\ RunId[r] # "root"

VARIABLES
  pc,      \* run -> 0 before it began, 2k-1 and 2k before it empties and fills its k-th file
  found,   \* run -> name of what it found, or "none"
  files    \* file -> [state, run]: none, torn or whole, and by whom

loopVars == <<pc, found, files>>

H == INSTANCE ComponentHealth WITH
  Smokes <- {}, Thresholds <- {3}, MaxClock <- 0, MaxReviews <- 0,
  clock <- 0, history <- <<>>, result <- {}, log <- <<>>, reviews <- 0

V == INSTANCE VectorMemory WITH
  Orders <- {}, Queries <- {}, TopK <- 5, MaxRuns <- 1,
  inventory <- {}, plan <- 0, query <- {}, ranking <- 0, runs <- 0

-----------------------------------------------------------------------------
(* Calibration: what the sample sets show.                                  *)

RequiredRoutes == {"case", "damping", "memory", "policy", "skill"}

CheckResult(name, ok) == [name |-> name, ok |-> ok]
Count(counts, route) == IF route \in DOMAIN counts THEN counts[route] ELSE 0

-----------------------------------------------------------------------------
(* The retrieval probe.                                                    *)

\* The bridge's two records come first, then every order's, in its order.
RecordIndex(record) ==
  CASE record.kind = "decision_trace" -> 0
    [] record.kind = "audit_log" -> 1
    [] record.kind = "repair_work_order" -> 3 * record.n - 1
    [] record.kind = "agent_experience_candidate" -> 3 * record.n
    [] OTHER -> 3 * record.n + 1

First(records) == {r \in records : \A s \in records : RecordIndex(r) <= RecordIndex(s)}

ProbeTarget(records) ==
  LET Kind(k) == {r \in records : r.kind = k}
  IN  CASE Kind("repair_work_order") # {} -> First(Kind("repair_work_order"))
        [] Kind("repair_work_order") = {} /\ Kind("policy_boundary") # {} -> First(Kind("policy_boundary"))
        [] OTHER -> First(records)

\* Everything near the target looks better to the embeddings than the target does.
ScoreForProbeHit(record, target) ==
  CASE record = target -> 58
    [] record # target /\ record.kind = target.kind -> 42
    [] record.kind # target.kind /\ record.original = target.original -> Max({72, 96 - RecordIndex(record)})
    [] OTHER -> Max({55, 88 - RecordIndex(record)})

SurfaceTerms(kind) ==
  CASE kind = "repair_work_order" -> {"repair", "work order", "repair work order"}
    [] kind = "policy_boundary" -> {"policy", "boundary"}
    [] kind = "decision_trace" -> {"decision", "trace", "decision trace"}
    [] OTHER -> {}

BuildRetrievalProbe(records) ==
  LET Hits(target) ==
        V!RankVectorMemoryHits(
          [kind |-> target.kind, terms |-> SurfaceTerms(target.kind)],
          {[record |-> r, score |-> ScoreForProbeHit(r, target), n |-> RecordIndex(r)] : r \in records}).hits
      Probe(target, top) ==
        [ok |-> \E r \in top : r.id = target.id /\ r.kind = target.kind, target |-> {target}, top |-> top]
      Asked(target) == Probe(target, {x.record : x \in {y \in Hits(target) : y.rank = 1}})
  IN  IF records = {} THEN [ok |-> FALSE, target |-> {}, top |-> {}]
      ELSE Asked(CHOOSE r \in ProbeTarget(records) : TRUE)

-----------------------------------------------------------------------------
(* One sample set.                                                         *)

MissingExpectedRoutes(counts, expected) == {r \in DOMAIN expected : Count(counts, r) < expected[r]}

JudgeMatches(judge, expected) ==
  /\ judge.recommended = expected.recommended
  /\ judge.near = expected.near
  /\ judge.level = expected.level

\* The storage always has the bridge's report.
CalibrateSampleSet(sample) ==
  LET liveEffects == "live_effect_allowed" \in sample.ticketEffects \cup sample.tournamentEffects
      Checks(probe) ==
        {CheckResult("memory-layer sample review", sample.memoryOk),
         CheckResult("minimal-positive keeps non-skill routes out of skill export",
                     sample.nonSkillPromoted = 0 /\ sample.exports = {}),
         CheckResult("repair tickets stay local",
                     sample.tickets.ok /\ sample.ticketEffects \subseteq {"live_effect_allowed"}),
         CheckResult("work-order routing mirrors repair tickets",
                     sample.ordersOk /\ Cardinality(sample.orders) = sample.tickets.count /\ ~sample.durable),
         CheckResult("retrieval probe keeps requested kind first", probe.ok),
         CheckResult("tournament sample review", sample.tournamentOk),
         CheckResult("tournament preserves route and safety",
                     sample.preserved /\ sample.tournamentEffects = {}),
         CheckResult("expected route coverage", MissingExpectedRoutes(sample.routes, sample.expectedRoutes) = {}),
         CheckResult("expected judge-escalation shape", JudgeMatches(sample.judge, sample.expectedJudge)),
         CheckResult("no live writes or provider calls", ~liveEffects /\ sample.calls = 0)}
      Result(probe, checks) ==
        [id |-> sample.id, checks |-> checks, ok |-> \A x \in checks : x.ok, probe |-> probe,
         routes |-> sample.routes, sources |-> sample.sources, signals |-> sample.signals,
         production |-> "production_authority" \in sample.tournamentEffects,
         live |-> liveEffects, calls |-> sample.calls]
      Probed(probe) == Result(probe, Checks(probe))
  IN  Probed(BuildRetrievalProbe(V!BuildVectorMemoryStoragePlan(sample.orders, TRUE, 1)))

-----------------------------------------------------------------------------
(* The perception replay: what the fixtures are there to show.             *)

ExpectedLedger ==
  [publicRisk |-> "recurring_after_fix", replayFailure |-> "damping_repeated_to_case",
   styleMemory |-> "already_processed", workflow |-> "seen_with_new_evidence"]

RunPerceptionShadowReplay(replay) ==
  LET curiosity == replay.missed = 0 /\ replay.noise = 0
      checks ==
        {CheckResult("perception replay stays shadow-only", replay.shadow),
         CheckResult("perception replay keeps Qianxuesen route authority",
                     {"controller_authority", "changes_route", "changes_winner"} \cap replay.effects = {}),
         CheckResult("perception replay keeps writes and provider calls off",
                     replay.effects \subseteq {"controller_authority", "changes_route", "changes_winner"}),
         CheckResult("perception replay prioritizes public risk above noise",
                     replay.riskPriority > replay.noisePriority /\ replay.topPriority >= replay.riskPriority),
         CheckResult("perception replay suppresses repeats and detects recurrence",
                     replay.ledger = ExpectedLedger),
         CheckResult("perception replay clusters duplicate workflow evidence", replay.clustered),
         CheckResult("perception replay proposes ledger updates without writing", replay.proposalsOnly),
         CheckResult("curiosity gate catches review-worthy signals without selecting noise", curiosity)}
  IN  [checks |-> checks, ok |-> \A x \in checks : x.ok, missed |-> replay.missed, noise |-> replay.noise,
       curiosityOk |-> curiosity, effects |-> replay.effects]

-----------------------------------------------------------------------------
(* The calibration.                                                        *)

AggregateRouteCounts(results) ==
  [route \in UNION {DOMAIN x.routes : x \in results} |->
     FoldSet(LAMBDA x, sum : sum + Count(x.routes, route), 0, results)]

\* Whatever the tournaments say of production authority.
BuildSummary(results) ==
  [recall |-> IF results = {} THEN 0
              ELSE (1000 * Cardinality({x \in results : x.probe.ok})) \div Cardinality(results),
   routes |-> AggregateRouteCounts(results),
   signals |-> UNION {x.signals : x \in results},
   live |-> \E x \in results : x.live,
   calls |-> FoldSet(LAMBDA x, sum : sum + x.calls, 0, results)]

RunCurrentLineCalibration(samples, replay) ==
  LET Overall(results, summary, perception) ==
        {CheckResult("all sample sets passed", \A x \in results : x.ok),
         CheckResult("all retrieval probes exact-match top1", summary.recall = 1000),
         CheckResult("perception shadow replay passed", perception.ok),
         CheckResult("curiosity gate kept signal selection precise", perception.curiosityOk),
         CheckResult("shadow mode kept all live effects off", ~summary.live /\ summary.calls = 0)}
      Report(results, summary, perception, checks) ==
        [ok |-> \A x \in checks : x.ok, summary |-> summary, samples |-> results, perception |-> perception,
         checks |-> checks]
      Summed(results, summary, perception) ==
        Report(results, summary, perception,
               (UNION {x.checks : x \in results}) \cup perception.checks \cup Overall(results, summary, perception))
      Calibrated(results) == Summed(results, BuildSummary(results), RunPerceptionShadowReplay(replay))
  IN  Calibrated({CalibrateSampleSet(x) : x \in samples})

-----------------------------------------------------------------------------
(* The verdict.                                                            *)

\* The summary of the smoke says of every effect that it did not happen.
RunCurrentLineSmoke(reports) ==
  LET HealthCheck(base) ==
        [name |-> "health", ok |-> H!BuildComponentHealthDiagnostics(base, <<>>, 0, 3).status \notin H!Unhealthy,
         data |-> H!NoData, effects |-> {}]
      Smoke(base) ==
        [ok |-> H!SmokeOk(base, reports),
         checks |-> base \cup {HealthCheck(base), H!NoLiveWritesCheck(reports)}, summary |-> {}]
  IN  Smoke(H!BaseChecks(reports))

\* A check that is not there has not passed.
AllNamedChecksOk(checks, name) ==
  /\ \E x \in checks : x.name = name
  /\ \A x \in checks : x.name = name => x.ok

\* Of the smoke one check that passes and says so is enough.
SmokeShows(smoke, name, forbidden) ==
  \E x \in smoke.checks : x.name = name /\ x.ok /\ x.effects \cap forbidden = {}

RoutesCovered(routes) == \A route \in RequiredRoutes : Count(routes, route) > 0

ComponentStatus(calibration, smoke) ==
  LET Named(name) == AllNamedChecksOk(calibration.checks, name)
      sourcesOk == \A x \in calibration.samples : x.sources > 0 /\ x.signals # {}
      effects == UNION {H!SummarizedEffects[x] : x \in DOMAIN H!SummarizedEffects}
  IN  [current_line_smoke |-> smoke.ok,
       local_vector_store |-> SmokeShows(smoke, "store", effects),
       skill_evolution |-> SmokeShows(smoke, "skill", effects),
       hermes_runtime_adapter |-> SmokeShows(smoke, "hermes", effects \ {"control_plane_write_deny_failed"}),
       hermes_work_order |->
         \E x \in smoke.checks :
           /\ x.name = "orders" /\ x.ok /\ x.effects \cap effects = {}
           /\ x.data.work_orders > 0 /\ x.data.positive_lift_rate = 1000 /\ x.data.safety_regressions = 0,
       runtime_thread |-> SmokeShows(smoke, "thread", effects \ {"production_authority"}),
       component_health |-> SmokeShows(smoke, "health", effects),
       source_distillation |-> sourcesOk,
       signal_extraction |-> calibration.summary.signals # {} /\ sourcesOk,
       route_decision |-> RoutesCovered(calibration.summary.routes),
       memory_layer |-> Named("memory-layer sample review"),
       repair_ticket |-> Named("repair tickets stay local"),
       work_order_routing |-> Named("work-order routing mirrors repair tickets"),
       perception |->
         /\ calibration.perception.ok
         /\ Named("perception replay stays shadow-only")
         /\ Named("perception replay keeps Qianxuesen route authority")
         /\ Named("perception replay keeps writes and provider calls off"),
       curiosity_signal_gate |->
         /\ SmokeShows(smoke, "curiosity", {})
         /\ Named("curiosity gate catches review-worthy signals without selecting noise")
         /\ Named("curiosity gate kept signal selection precise")
         /\ calibration.perception.missed = 0 /\ calibration.perception.noise = 0,
       retrieval |->
         /\ calibration.summary.recall = 1000
         /\ \A x \in calibration.samples : \E t \in x.probe.top, u \in x.probe.target : t.kind = u.kind
         /\ Named("retrieval probe keeps requested kind first")
         /\ Named("all retrieval probes exact-match top1"),
       tournament |-> Named("tournament sample review") /\ Named("tournament preserves route and safety"),
       judge |->
         /\ \A x \in calibration.samples : ~x.production /\ x.calls = 0
         /\ Named("expected judge-escalation shape"),
       safety_boundary |->
         /\ Named("shadow mode kept all live effects off") /\ Named("no live writes or provider calls")
         /\ AllNamedChecksOk(smoke.checks, "boundary")]

\* What the manifest says of the boundary: effects that happened.
SafetySummary(calibration, smoke) ==
  UNION {smoke.summary,
         IF calibration.summary.live THEN {"live_effect_allowed"} ELSE {},
         calibration.perception.effects \cap {"changes_route", "changes_winner"},
         IF calibration.summary.calls > 0 THEN {"llm_api_calls"} ELSE {}}

FailedChecks(source, checks) == {[source |-> source, name |-> x.name] : x \in {y \in checks : ~y.ok}}

BlockingFailures(calibration, smoke, components) ==
  FailedChecks("current-line-smoke", smoke.checks)
  \cup FailedChecks("current-line-calibration", calibration.checks)
  \cup {[source |-> "safety", name |-> x] : x \in SafetySummary(calibration, smoke)}
  \cup {[source |-> "component_status", name |-> x] : x \in {y \in DOMAIN components : ~components[y]}}

\* Key finding: nothing live, no memory, no Zilliz, no embedding.
BoundaryReadsClosed(safety) ==
  safety \cap {"live_effect_allowed", "writes_persistent_memory", "zilliz_written", "embedding_created"} = {}

BuildQianxuesenFullLoopHealth(input) ==
  LET Report(smoke, calibration, failures) ==
        [ok |-> smoke.ok /\ calibration.ok /\ failures = {}, failures |-> failures,
         closed |-> BoundaryReadsClosed(SafetySummary(calibration, smoke)),
         probes |-> {x.probe : x \in calibration.samples}]
      Judged(smoke, calibration) ==
        Report(smoke, calibration, BlockingFailures(calibration, smoke, ComponentStatus(calibration, smoke)))
  IN  Judged(RunCurrentLineSmoke(input.smoke), RunCurrentLineCalibration(input.samples, input.replay))

Health == [i \in DOMAIN Inputs |-> BuildQianxuesenFullLoopHealth(Inputs[i])]

-----------------------------------------------------------------------------
(* A run and its files.                                                    *)

\* Mutant: the history of every run is one directory.
RunRootMutant(r) == IF KeepHistory[r] THEN "history" ELSE "root"
RunRoot(r) == IF KeepHistory[r] THEN RunId[r] ELSE "root"

\* Mutant: the entry point is brought up to date first.
WritePlanMutant(r) ==
  <<<<"root", "latest.json">>, <<"root", "latest.md">>, <<RunRoot(r), "smoke">>,
    <<RunRoot(r), "calibration">>, <<RunRoot(r), "health.json">>, <<RunRoot(r), "health.md">>>>

WritePlan(r) ==
  <<<<RunRoot(r), "smoke">>, <<RunRoot(r), "calibration">>, <<RunRoot(r), "health.json">>,
    <<RunRoot(r), "health.md">>, <<"root", "latest.json">>, <<"root", "latest.md">>>>

Files == {WritePlan(r)[k] : r \in Runs, k \in 1..6}
Missing == [state |-> "none", run |-> "none"]
Torn == [state |-> "torn", run |-> "none"]
Whole(r) == [state |-> "whole", run |-> r]

LoopInit ==
  /\ pc = [r \in Runs |-> 0]
  /\ found = [r \in Runs |-> "none"]
  /\ files = [f \in Files |-> Missing]

\* The smoke, the calibration and the manifest are complete before anything is written.
Begin(r, i) ==
  /\ pc[r] = 0
  /\ found' = [found EXCEPT ![r] = i]
  /\ pc' = [pc EXCEPT ![r] = 1]
  /\ UNCHANGED files

Open(r) ==
  /\ pc[r] \in {1, 3, 5, 7, 9, 11}
  /\ files' = [files EXCEPT ![WritePlan(r)[(pc[r] + 1) \div 2]] = Torn]
  /\ pc' = [pc EXCEPT ![r] = @ + 1]
  /\ UNCHANGED found

Filled(r, file) == IF file.state = "whole" THEN {Whole(r), Torn} ELSE {Whole(r)}

Fill(r) ==
  /\ pc[r] \in {2, 4, 6, 8, 10, 12}
  /\ LET f == WritePlan(r)[pc[r] \div 2]
     IN  \E written \in Filled(r, files[f]) : files' = [files EXCEPT ![f] = written]
  /\ pc' = [pc EXCEPT ![r] = @ + 1]
  /\ UNCHANGED found

Kill(r) ==
  /\ pc[r] \in 1..12
  /\ pc' = [pc EXCEPT ![r] = 14]
  /\ UNCHANGED <<found, files>>

LoopNext ==
  \E r \in Runs : (\E i \in DOMAIN Inputs : Begin(r, i)) \/ Open(r) \/ Fill(r) \/ Kill(r)

LoopSpec == LoopInit /\ [][LoopNext]_loopVars

-----------------------------------------------------------------------------
(* Correctness properties.                                                 *)

\* Type correctness: a whole file was written by a run that found something.
LoopTypeOK ==
  /\ pc \in [Runs -> 0..14]
  /\ \A f \in Files : files[f].state = "whole" => files[f].run \in Runs /\ found[files[f].run] # "none"

Latest == files[<<"root", "latest.json">>]

\* Whatever ran beside it or was killed, the latest manifest of a run with history points to a
\* history and to artifacts of that run, all of them complete.
LatestIsBacked ==
  Latest.state = "whole" /\ KeepHistory[Latest.run] =>
    \A k \in 1..4 : files[WritePlan(Latest.run)[k]] = Whole(Latest.run)

\* A manifest in the history is never written again.
HistoryIsAppendOnly ==
  [][\A f \in Files : f[1] # "root" /\ files[f].state = "whole" => files'[f] = files[f]]_loopVars

\* A manifest passes only over samples that together took every route and each met what was
\* expected of it, a replay that saw what the fixtures show, and no effect anywhere.
PassIsEarned ==
  \A r \in Runs :
    found[r] # "none" /\ Health[found[r]].ok =>
      LET input == Inputs[found[r]]
      IN  /\ \A route \in {"memory", "skill", "case", "policy", "damping"} :
               \E x \in input.samples : Count(x.routes, route) > 0
          /\ \A x \in input.samples :
               /\ MissingExpectedRoutes(x.routes, x.expectedRoutes) = {}
               /\ JudgeMatches(x.judge, x.expectedJudge)
               /\ x.calls = 0 /\ x.exports = {} /\ x.ticketEffects = {} /\ x.tournamentEffects = {}
               /\ Cardinality(x.orders) = x.tickets.count
          /\ input.replay.effects = {} /\ input.replay.missed = 0
          /\ \A x \in DOMAIN input.smoke :
               input.smoke[x].ok /\ {"zilliz_written", "writes_persistent_memory"} \cap input.smoke[x].effects = {}

\* A manifest that fails names what failed.
FailureIsNamed == \A r \in Runs : found[r] # "none" /\ ~Health[found[r]].ok => Health[found[r]].failures # {}

\* The record a probe asks for comes first, however much better the records of the same source,
\* of the same kind or of no relation look to the embeddings.
ProbeFindsTarget ==
  \A r \in Runs : found[r] # "none" => \A p \in Health[found[r]].probes : p.top = p.target
=============================================================================
