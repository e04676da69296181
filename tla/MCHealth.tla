------------------------------ MODULE MCHealth ------------------------------
(***************************************************************************)
(* The programs that judge the host, for TLC: the stability monitor, the   *)
(* slow loop, the metric registry, the component health and the full loop  *)
(* health.  They share no file, so a behaviour is about one of them, and   *)
(* the others stay as they began.  The stability monitor and the full loop *)
(* keep their own variables; the others take turns on s1 to s5.            *)
(***************************************************************************)
EXTENDS StabilityMonitor, FullLoopHealth, TLC

CONSTANTS
  SlowGrain, Metrics, Values, MaxEvaluated, MaxSamples,             \* OuterLoop
  Expected, CoreMetrics, MetricIds, Reducers, PlantComponents,      \* MetricRegistry
  Actuators, MaxMetrics,
  Smokes, Thresholds, MaxClock, MaxHealthReviews,                   \* ComponentHealth
  Reports, Findings       \* what its reducers and the full loop's verdict are held against

VARIABLES
  part,                 \* the program this behaviour is about
  s1, s2, s3, s4, s5    \* its variables, if it is none of the two above

slots == <<s1, s2, s3, s4, s5>>
Idle == "unused"

Report(ok, effects, data) == [ok |-> ok, effects |-> effects, data |-> data]
Data(data) == Report(TRUE, {}, data)

-----------------------------------------------------------------------------
(* Three deployments: two of memory, of which one is to be held within its *)
(* band, and one of a skill whose ticket names another route.              *)

MCPlan ==
  [m1 |-> [kind |-> "memory", route |-> "memory", direction |-> "minimize",
           target |-> 2, tolerance |-> 1, pre |-> 4, post |-> -1],
   m2 |-> [kind |-> "memory", route |-> "memory", direction |-> "hold_within",
           target |-> 4, tolerance |-> 1, pre |-> 4, post |-> -1],
   s |-> [kind |-> "skill", route |-> "memory", direction |-> "maximize",
          target |-> 8, tolerance |-> 1, pre |-> 4, post |-> -1]]
MCDeployments == DOMAIN MCPlan
MCMemory == [warning |-> 25, safe |-> 60, min |-> 1]
MCSkill == [warning |-> 1, safe |-> 2, min |-> 2]

-----------------------------------------------------------------------------
(* Smokes: a clean one, and one for every way a module's report can go     *)
(* wrong.                                                                  *)

Good == [hook |-> "post_tool_call", failed |-> FALSE, refs |-> 2]
Failed == [Good EXCEPT !.failed = TRUE]
Bare == [Good EXCEPT !.refs = 1]
Tools(events, unmatched) == [events |-> events, unmatched |-> unmatched]

Clean ==
  [session |-> Report(TRUE, {}, [repair_work_orders |-> 0]),
   hermes |-> Report(TRUE, {}, Tools(<<Good, Good>>, 0)),
   quality |-> Report(TRUE, {}, [positive_lift_rate |-> 1000, avg_delta |-> 16]),
   store |-> Report(TRUE, {}, H!NoData)]

Wide ==
  Clean @@
  [tournament |-> Report(TRUE, {}, H!NoData),
   thread |-> Report(TRUE, {}, [next_step |-> "pause_for_human"]),
   rank |-> Report(TRUE, {}, [top1_exact_recall |-> 1000]),
   inbox |-> Report(TRUE, {}, [dead_letters |-> 0, total_messages |-> 3, latencies |-> {1, 2, 5}])]

MCSmokes ==
  {Clean,
   [Clean EXCEPT !.hermes.ok = FALSE],
   [Clean EXCEPT !.hermes.data = Tools(<<Good, Failed>>, 0)],
   [Clean EXCEPT !.hermes.data = Tools(<<Bare>>, 0), !.session.data.repair_work_orders = 1],
   [Clean EXCEPT !.quality.data.avg_delta = 0, !.hermes.ok = FALSE],
   [Clean EXCEPT !.quality.data.positive_lift_rate = 400],
   [Clean EXCEPT !.store.effects = {"zilliz_written"}, !.session.ok = FALSE]}

\* Once: every other report that can go wrong.
MCWide ==
  {Wide,
   [Wide EXCEPT !.hermes.data = Tools(<<Good>>, 1)],
   [Wide EXCEPT !.hermes.data = Tools(<<>>, 1)],
   [Wide EXCEPT !.tournament.effects = {"live_effect_allowed"}],
   [Wide EXCEPT !.thread.data.next_step = "invent_new_executor"],
   [Wide EXCEPT !.rank.data.top1_exact_recall = 800, !.inbox.data.dead_letters = 1],
   [Wide EXCEPT !.inbox.data.latencies = {1, 3}, !.store.effects = {"embedding_created"}],
   [Wide EXCEPT !.session.effects = {"live_effect_allowed"}],
   [Wide EXCEPT !.hermes.effects = {"control_plane_write_deny_failed"}],
   [Wide EXCEPT !.hermes.effects = {"control_plane_write_deny_failed"}, !.hermes.ok = FALSE]}
MCAll == MCSmokes \cup MCWide

-----------------------------------------------------------------------------
(* What a full loop may find: a clean run, and one for every way its parts *)
(* can go wrong.                                                           *)

Tool == [hook |-> "post_tool_call", failed |-> FALSE, refs |-> 2]

LoopSmoke ==
  [session |-> Data([repair_work_orders |-> 1]),
   store |-> Data(H!NoData), skill |-> Data(H!NoData), curiosity |-> Data(H!NoData),
   thread |-> Data([next_step |-> "pause_for_human"]),
   hermes |-> Data([events |-> <<Tool>>, unmatched |-> 0]),
   orders |-> Data([work_orders |-> 1, positive_lift_rate |-> 1000, safety_regressions |-> 0])]

Order(id, n, ref, scope) ==
  [id |-> id, n |-> n, ref |-> ref, owner |-> TRUE, review |-> TRUE, explicit |-> {}, scope |-> scope]
Judge(level) == [recommended |-> level = "high", near |-> level = "medium", level |-> level]

Sample(id, routes, orders, level) ==
  [id |-> id, memoryOk |-> TRUE, nonSkillPromoted |-> 0, exports |-> {}, sources |-> 2, signals |-> {"s"},
   tickets |-> [ok |-> TRUE, count |-> Cardinality(orders)], ticketEffects |-> {}, orders |-> orders,
   ordersOk |-> TRUE, durable |-> FALSE, tournamentOk |-> TRUE, preserved |-> TRUE,
   tournamentEffects |-> {}, routes |-> routes, expectedRoutes |-> routes, judge |-> Judge(level),
   expectedJudge |-> Judge(level), calls |-> 0]

Redacted ==
  Sample("redacted", [memory |-> 1, case |-> 1, policy |-> 1],
         {Order("wo-1", 1, "event-1", {"memory"}), Order("wo-2", 2, "event-1", {})}, "medium")
Sensitive ==
  Sample("sensitive", [skill |-> 4, damping |-> 4], {Order("wo-3", 1, "unknown", {"production"})}, "high")
NoOrders == Sample("calm", [skill |-> 2, damping |-> 1], {}, "medium")

Replayed ==
  [shadow |-> TRUE, effects |-> {}, riskPriority |-> 9, noisePriority |-> 1, topPriority |-> 9,
   ledger |-> ExpectedLedger, clustered |-> TRUE, proposalsOnly |-> TRUE, missed |-> 0, noise |-> 0]

CleanRun == [smoke |-> LoopSmoke, samples |-> {Redacted, Sensitive}, replay |-> Replayed]
With(sample) == [CleanRun EXCEPT !.samples = {sample, Sensitive}]

MCFound ==
  [clean |-> CleanRun,
   calm |-> [CleanRun EXCEPT !.samples = {Redacted, NoOrders}],
   fewRoutes |-> [CleanRun EXCEPT !.samples = {Redacted}],
   noSamples |-> [CleanRun EXCEPT !.samples = {}],
   noSources |-> With([Redacted EXCEPT !.sources = 0]),
   promoted |-> With([Redacted EXCEPT !.nonSkillPromoted = 1]),
   memory |-> With([Redacted EXCEPT !.memoryOk = FALSE]),
   tickets |-> With([Redacted EXCEPT !.ticketEffects = {"publication_allowed"}]),
   lost |-> With([Redacted EXCEPT !.tickets.count = 3]),
   live |-> With([Redacted EXCEPT !.tournamentEffects = {"live_effect_allowed"}]),
   routes |-> With([Redacted EXCEPT !.routes = [memory |-> 1, case |-> 1]]),
   judge |-> With([Redacted EXCEPT !.judge = Judge("high")]),
   calls |-> With([Redacted EXCEPT !.calls = 1]),
   replayRoute |-> [CleanRun EXCEPT !.replay.effects = {"changes_route"}],
   replayMissed |-> [CleanRun EXCEPT !.replay.missed = 1],
   replayLedger |-> [CleanRun EXCEPT !.replay.ledger.styleMemory = "new"],
   replayNoise |-> [CleanRun EXCEPT !.replay.noisePriority = 9],
   thread |-> [CleanRun EXCEPT !.smoke.thread.ok = FALSE],
   orders |-> [CleanRun EXCEPT !.smoke.orders.data.work_orders = 0],
   store |-> [CleanRun EXCEPT !.smoke.store.effects = {"zilliz_written"}],
   noStore |-> [CleanRun EXCEPT !.smoke = [x \in (DOMAIN LoopSmoke) \ {"store"} |-> LoopSmoke[x]]]]
MCFew == [i \in {"clean", "thread"} |-> MCFound[i]]

MCRuns == {"r1", "r2", "r3"}
MCRunId == [r1 |-> "id1", r2 |-> "id2", r3 |-> "id3"]
MCKeepHistory == [r1 |-> TRUE, r2 |-> TRUE, r3 |-> FALSE]

-----------------------------------------------------------------------------
(* The slow loop: one metric of each direction, and values on and between  *)
(* the steps of its rounding.  The registry: contracts for "a" and "b".    *)

MCMetrics ==
  {[direction |-> "minimize", target |-> 2, tolerance |-> 2, kind |-> "memory"],
   [direction |-> "maximize", target |-> 8, tolerance |-> 2, kind |-> "skill"],
   [direction |-> "hold_within", target |-> 6, tolerance |-> 2, kind |-> "policy"]}
MCExpected == [id \in {"a", "b"} |-> "r"]

C == INSTANCE ComponentHealth WITH
  MaxReviews <- MaxHealthReviews,
  clock <- s1, history <- s2, result <- s3, log <- s4, reviews <- s5
D == INSTANCE ComponentHealth WITH
  Smokes <- Reports, Thresholds <- {0, 3}, MaxClock <- 2, MaxReviews <- 2,
  clock <- s1, history <- s2, result <- s3, log <- s4, reviews <- s5
W == INSTANCE FullLoopHealth WITH
  Runs <- {"r1"}, RunId <- MCRunId, KeepHistory <- MCKeepHistory, Inputs <- Findings,
  pc <- s1, found <- s2, files <- s3
O == INSTANCE OuterLoop WITH
  Grain <- SlowGrain, metric <- s1, samples <- s2, outcome <- s3, gaps <- s4
R == INSTANCE MetricRegistry WITH
  metrics <- s1, plant <- s2

\* A module of the smoke reports its events one by one, and of the three effects that must not
\* happen only those the boundary reads of it.
ReportsOfModules(smoke) ==
  /\ DOMAIN smoke \subseteq DOMAIN C!SummarizedEffects
  /\ \A x \in DOMAIN smoke :
       smoke[x].effects \cap {"live_effect_allowed", "writes_persistent_memory", "zilliz_written"}
         \subseteq C!GuardedEffects[x]
  /\ "hermes" \in DOMAIN smoke =>
       /\ smoke["hermes"].data.events \in Seq([hook : STRING, failed : BOOLEAN, refs : Nat])
       /\ smoke["hermes"].data.unmatched \in Nat

\* The work orders of a sample set are numbered from one, and its routes are counted.
CountedSample(x) ==
  /\ IsFiniteSet(x.orders) /\ \A o \in x.orders : o.n \in Nat \ {0}
  /\ x.routes \in [DOMAIN x.routes -> Nat]

ASSUME FoundAssumption ==
  /\ W!FullLoopAssumption
  /\ \A s \in Reports : ReportsOfModules(s)
  /\ \A i \in DOMAIN Findings :
       /\ ReportsOfModules(Findings[i].smoke)
       /\ IsFiniteSet(Findings[i].samples)
       /\ \A x \in Findings[i].samples : CountedSample(x)

\* The modules of a smoke are those of the release: one list for all its runs.
ASSUME DeckAssumption ==
  /\ SlowGrain \in Nat \ {0} /\ O!OuterAssumption /\ R!RegistryAssumption
  /\ \A s \in Smokes : DOMAIN s \subseteq DOMAIN C!SummarizedEffects
  /\ \A s, t \in Smokes : DOMAIN s = DOMAIN t
  /\ Thresholds \subseteq Nat /\ MaxClock \in Nat /\ MaxHealthReviews \in Nat

HealthInit ==
  /\ Init /\ LoopInit
  /\ \/ part \in {"monitor", "loop"} /\ s1 = Idle /\ s2 = Idle /\ s3 = Idle /\ s4 = Idle /\ s5 = Idle
     \/ part = "components" /\ C!Init
     \/ part = "reports" /\ D!Init
     \/ part = "findings" /\ W!LoopInit /\ s4 = Idle /\ s5 = Idle
     \/ part = "slow" /\ O!Init /\ s5 = Idle
     \/ part = "registry" /\ R!Init /\ s3 = Idle /\ s4 = Idle /\ s5 = Idle

Monitoring == part = "monitor" /\ Next /\ UNCHANGED <<part, loopVars, slots>>
Looping == part = "loop" /\ LoopNext /\ UNCHANGED <<part, vars, slots>>
Reviewing == part = "components" /\ C!Next /\ UNCHANGED <<part, vars, loopVars>>
Reporting == part = "reports" /\ D!Next /\ UNCHANGED <<part, vars, loopVars>>
Finding == part = "findings" /\ W!LoopNext /\ UNCHANGED <<part, vars, loopVars, s4, s5>>
Steering == part = "slow" /\ O!Next /\ UNCHANGED <<part, vars, loopVars, s5>>
Registering == part = "registry" /\ R!Next /\ UNCHANGED <<part, vars, loopVars, s3, s4, s5>>

HealthNext ==
  Monitoring \/ Looping \/ Reviewing \/ Reporting \/ Finding \/ Steering \/ Registering

HealthSpec == HealthInit /\ [][HealthNext]_<<part, vars, loopVars, slots>>

-----------------------------------------------------------------------------
\* What a health report says was earned: the safe mode of the monitor's status
\* by the evidence it read (stability-monitor.mjs), a verdict of a reducer and a
\* pass by a run in which no effect was seen (component-health.mjs,
\* qianxuesen-full-loop-health.mjs).
HealthIsEarned ==
  /\ part = "monitor" => TypeOK /\ StatusIsDeserved
  /\ part = "loop" => LoopTypeOK
  /\ part = "reports" => D!ReducersAgree /\ D!PassedSmokeIsClean
  /\ part = "findings" => W!PassIsEarned /\ W!FailureIsNamed /\ W!ProbeFindsTarget

\* The loops agree with each other and with their own past.  The slow and the
\* middle loop do not contradict each other about a metric, and a setpoint that
\* is measurable is computed by the one reducer registered for it, however the
\* registry is read (outer-loop-review.mjs, metric-registry.mjs).  A component
\* is escalated exactly after that many unhealthy reviews in a row; no failure
\* stays without a diagnosis for a day, and none is diagnosed twice in a day
\* (component-health.mjs).
LoopsAgree ==
  /\ part = "slow" => O!LoopsAgree
  /\ part = "registry" => R!OneReadingOfTheRegistry /\ R!MeasurableMeansComputed
  /\ part = "components" =>
       C!TypeOK /\ C!EscalationIsEarned /\ C!CooldownHolds /\ C!NoFailureIsSilent

\* Only good news about a route withdraws what was held against it: an
\* indicator leaves divergence, and a route loses its mark for recalibration,
\* in no other step.
OnlyGoodNewsWithdraws ==
  [][ /\ part = "monitor" => UNCHANGED <<tickets, replays>> \/ OnlyGoodNewsEndsDivergence
      /\ part = "slow" => O!OnlyGoodOutcomesWithdraw ]_<<part, vars, loopVars, slots>>
=============================================================================
