---------------------------- MODULE MCEvolution ----------------------------
(***************************************************************************)
(* The desk, for TLC: every program between a chat window and a work order *)
(* or a candidate, from the Hermes adapter to the tournament.  They share  *)
(* no variable, they hand each other artifacts, so a behaviour is about    *)
(* one of them, on decks of artifacts the others write; the variables of   *)
(* the others hold "unused".  The loser context and the tournament review  *)
(* keep their own; the others take turns on s1 to s9.                      *)
(*                                                                         *)
(* The tournament's own module is operators only.  Its machine is here: a  *)
(* candidate gathers evidence, and a tournament is held on it each time.   *)
(***************************************************************************)
EXTENDS LoserContext, TournamentReview, TLC

CONSTANTS
  c1, c2,                                                    \* chunk hashes
  Handoffs, QualityReports, HermesCandidates, RoutingPolicies, MaxReports,      \* work order routing
  BridgeTickets, BridgeReports, BridgeCandidates, BridgeCallers, MaxEdits,      \* the LangGraph bridge
  ArtifactHints, ArtifactTurns, SummaryMatches, MaxHints,                       \* Hermes distillation
  Chunks, RunOutcomes, MaxRuns,                                                 \* the distiller review
  WindowSources, SimilarSources, MaxWindow, MaxKnown, MaxSeen,                  \* perception
  LessonTurns, LessonWindows, LessonFixtures, LessonRules, MaxTurns,            \* the learning pipeline
  FootprintEvents, MaxEvents,                                                   \* footprints
  MemoryOrders, MemoryQueries, MemoryTopK, MemoryRuns,                          \* the vector memory
  HookEvents, HookBursts, HookSources, MaxHooks,                                \* the orders of the Hermes adapter
  SkillContracts, SkillMemories, MaxRaised,                                     \* skill supervision
  PreflightDeck, PreflightChat, MaxGathered,                                    \* the preflight
  Drawings, MaxCount                                                            \* the tournament

VARIABLES
  part,                                \* the program this behaviour is about
  s1, s2, s3, s4, s5, s6, s7, s8, s9   \* its variables, in its own order

slots == <<s1, s2, s3, s4, s5, s6, s7, s8, s9>>

Idle == "unused"
NoLosers == held = Idle /\ asked = Idle /\ context = Idle
NoGate ==
  /\ kind = Idle /\ batch = Idle /\ coverage = Idle /\ mode = Idle /\ judgeEnv = Idle /\ phase = Idle
  /\ result = Idle /\ judge = Idle /\ called = Idle /\ holds = Idle /\ reviews = Idle
\* From the n-th slot on, none is in use.
Free9 == s9 = Idle
Free6 == s6 = Idle /\ s7 = Idle /\ s8 = Idle /\ Free9
Free5 == s5 = Idle /\ Free6
Free4 == s4 = Idle /\ Free5
Free3 == s3 = Idle /\ Free4

-----------------------------------------------------------------------------
(* What several programs read: turns, tickets, reports, candidates.        *)

Turn(matches, denies, secret) == [matches |-> matches, denies |-> denies, secret |-> secret]
Says(rules) == Turn(rules, FALSE, FALSE)

Ticket(severity, status) ==
  [source |-> "auto-l3", severity |-> severity, status |-> status, kind |-> "local_distillation_sources",
   repro |-> 3, acceptance |-> 9, mayEdit |-> 13]
Repairs == {Ticket("P0", "must_fix"), Ticket("P1", "repair_candidate"), Ticket("P2", "repair_candidate")}

Report(date, verdict, recommendations, pooled) ==
  [date |-> date, verdict |-> verdict, recommendations |-> recommendations, pooled |-> pooled]

Hermes(id, type, surface, boundary, memoryWrite, optimizes) ==
  [id |-> id, type |-> type, surface |-> surface, boundary |-> boundary, memoryWrite |-> memoryWrite,
   events |-> 1, evidence |-> 1, optimizes |-> optimizes]

Caller(asks, allowed, severity, categories) ==
  [mode |-> asks, allowed |-> allowed, maxSeverity |-> severity, categories |-> categories]

Make(route, risk, count, signals, words) ==
  [route |-> route, risk |-> risk, count |-> count, signals |-> signals,
   sourceBacked |-> FALSE, words |-> words]

-----------------------------------------------------------------------------
(* The Hermes adapter: hook calls.  Ok, Fail: a tool's result; Pre: its    *)
(* intent; a deck for orders, one for the measurement gate and one for the *)
(* installation of the plugin.                                             *)

Pre(tool, action, id) ==
  [kind |-> "runtime", hook |-> "pre_tool_call", tool |-> tool, action |-> action, id |-> id,
   status |-> "none", curator |-> FALSE, humanReview |-> FALSE, signals |-> {}, sensitive |-> FALSE,
   query |-> "none", origin |-> "none", evidence |-> {}]
Ok(tool, action, id) == [Pre(tool, action, id) EXCEPT !.hook = "post_tool_call", !.status = "ok"]
Fail(tool, action, id) == [Ok(tool, action, id) EXCEPT !.status = "failed"]
Ask(tool, id, query) == [Ok(tool, "none", id) EXCEPT !.query = query]
Tap(bytes, tools, errors) ==
  [kind |-> "model_io_tap",
   metrics |-> [context_byte_size |-> bytes, tool_schema_count |-> tools, tool_result_error_count |-> errors]]
Evidence(registered, delta, risk, llm) ==
  {[registered |-> registered, delta |-> delta, risk |-> risk, llm |-> llm]}

StreamDeck ==
  { Pre("skill_manage", "create", 1), Ok("skill_manage", "create", 1), Fail("skill_manage", "create", 1),
    [Ok("skill_manage", "patch", 2) EXCEPT !.origin = "hermes_official_self_evolution",
       !.evidence = Evidence(TRUE, 1, "low", FALSE)],
    [Ok("skill_manage", "write_file", 3) EXCEPT !.sensitive = TRUE] }

GateDeck ==
  { Tap(60000, 3, 0), Tap(900, 40, 3), Tap(900, 3, 0),
    Fail("terminal", "none", 1),
    Ask("web_search", 3, "q1"),
    [Ok("none", "none", 1) EXCEPT !.hook = "on_session_end", !.curator = TRUE] }

InstallDeck ==
  { Tap(900, 3, 0), [Ok("memory", "add", 1) EXCEPT !.signals = {"public_posting_boundary"}],
    Ok("skill_manage", "patch", 2) }

HO == INSTANCE HermesAdapter WITH
  Deck <- HookEvents, Bursts <- HookBursts, Sources <- HookSources, MaxEmissions <- MaxHooks, MaxInstalls <- 0,
  source <- s1, events <- s2, emissions <- s3, files <- s4, installing <- s5, installs <- s6,
  report <- s7, doctor <- s8
HG == INSTANCE HermesAdapter WITH
  Deck <- GateDeck, Bursts <- {1, 15}, Sources <- {"fixture"}, MaxEmissions <- 3, MaxInstalls <- 0,
  source <- s1, events <- s2, emissions <- s3, files <- s4, installing <- s5, installs <- s6,
  report <- s7, doctor <- s8
HP == INSTANCE HermesAdapter WITH
  Deck <- InstallDeck, Bursts <- {1, 2}, Sources <- {"log"}, MaxEmissions <- 2, MaxInstalls <- 2,
  source <- s1, events <- s2, emissions <- s3, files <- s4, installing <- s5, installs <- s6,
  report <- s7, doctor <- s8

-----------------------------------------------------------------------------
(* The learning pipeline: windows in which every kind of signal is said,   *)
(* and fixtures written by hand over a deck with a shared pattern.         *)

MCSignals ==
  {"candidate_replay_failed", "single_failure", "repeated_failure_pattern", "knowledge_gap",
   "external_framework_change", "explicit_user_boundary", "farcaster_public_memory_risk",
   "reusable_workflow", "stable_project_fact"}
MCTurns ==
  {Turn(m, FALSE, FALSE) : m \in kSubset(1, MCSignals) \cup kSubset(2, MCSignals)}
  \cup {Turn({s, "repeated_failure_pattern"}, TRUE, FALSE) : s \in MCSignals}
  \cup {Turn({s}, FALSE, TRUE) : s \in {"reusable_workflow", "single_failure"}}
MCWindows ==
  {[kind |-> k, turns |-> <<>>, hints |-> h, evidence |-> e, risk |-> "absent",
    channel |-> "chat", refs |-> r, toolErrors |-> FALSE] :
     k \in {"chat_window", "failure_log"}, h \in {{}, {"context_injection_risk"}},
     e \in {{}}, r \in {{}, {"external"}}}
  \cup {[kind |-> "chat_window", turns |-> <<>>, hints |-> {}, evidence |-> {2}, risk |-> "absent",
          channel |-> "chat", refs |-> {}, toolErrors |-> FALSE]}
MCFixtures ==
  {[hand |-> said[1], text |-> said[2], toolErrors |-> {}, given |-> g, refs |-> r,
    channel |-> "chat", risk |-> "high"] :
     said \in ({{}} \X SUBSET {"workflow", "failed local replay", "repo", "do not"})
             \cup (kSubset(2, MCSignals \cup {"avoid_overreaction", "context_injection_risk"})
                    \X {{}}),
     g \in {{}, {0}, {2}}, r \in {{}, {"external"}, {"external", "internal"}}}
Pattern(signal, patterns, negative) ==
  [signal |-> signal, patterns |-> patterns, negative |-> negative, errors |-> {}]
MCPatterns ==
  {Pattern("candidate_replay_failed", {"failed local replay"}, {}),
   Pattern("repeated_failure_pattern", {"failed local replay"}, {"no failure"}),
   Pattern("explicit_user_boundary", {"do not"}, {}),
   Pattern("reusable_workflow", {"workflow"}, {}),
   Pattern("stable_project_fact", {"repo", "workflow"}, {})}

L == INSTANCE LearningPipeline WITH
  Turns <- LessonTurns, Windows <- LessonWindows, Fixtures <- LessonFixtures, Rules <- LessonRules,
  source <- s1, fixture <- s2, traces <- s3

-----------------------------------------------------------------------------
(* Perception: a public risk in a compound source, a failed replay, noise, *)
(* a term and a workflow that resembles another source.                    *)

Source(id, form, rules, hints, cites) ==
  [id |-> id, kind |-> form, turns |-> <<Says(rules)>>, hints |-> hints, evidence |-> {}, risk |-> "absent",
   channel |-> "chat", refs |-> {}, toolErrors |-> FALSE, cites |-> cites]

MCSources ==
  {Source(1, "farcaster_audit", {"farcaster_public_memory_risk", "candidate_replay_failed"}, {}, {"a"}),
   Source(2, "failure_log", {"candidate_replay_failed"}, {}, {"b"}),
   Source(4, "chat_window", {"repeated_terminology"}, {}, {"d"}),
   Source(6, "chat_window", {"reusable_workflow", "public_posting_boundary"}, {}, {"f"})}
MCSimilar == {<<2, 6>>}

P == INSTANCE Perception WITH
  Sources <- WindowSources, Similar <- SimilarSources,
  ledger <- s1, digest <- s2, applied <- s3

-----------------------------------------------------------------------------
(* Footprints: reads, writes and commands that work or fail, the ends of   *)
(* the agent, and one event of each side effect.                           *)

Event(type, tool, ok, error, marks, refs) ==
  [type |-> type, tool |-> tool, ok |-> ok, error |-> error, marks |-> marks, refs |-> refs]

MCEvents ==
  {Event("tool_end", "read_file", "yes", "none", {}, {}),
   Event("tool_end", "read_file", "yes", "none", {"skill_path"}, {"internal"}),
   Event("tool_end", "bash", "no", "exit 1", {}, {}),
   Event("tool_end", "write_file", "no", "denied", {"write"}, {}),
   Event("tool_end", "Write_File", "yes", "none", {"agents_md", "write"}, {}),
   Event("other", "none", "unknown", "none", {"skill_install"}, {}),
   Event("tool_end", "bash", "yes", "none", {"service", "restart"}, {}),
   Event("tool_end", "none", "yes", "none", {"public", "send"}, {}),
   Event("other", "none", "unknown", "none", {"inject", "context"}, {"memory"}),
   Event("other", "none", "unknown", "none", {"memory_save"}, {}),
   Event("other", "none", "unknown", "none", {}, {"memory"}),
   Event("agent_end", "none", "yes", "none", {}, {}),
   Event("agent_end", "none", "no", "none", {}, {})}

F == INSTANCE FootprintBridge WITH
  Events <- FootprintEvents, footprint <- s1, events <- s2, review <- s3

-----------------------------------------------------------------------------
(* Work order routing: the tickets reviewRepairTickets writes and one the  *)
(* schema allows, in a file that is strict JSON or polluted in each way;   *)
(* reports of each verdict; callers' policies.                             *)

MCTickets == Repairs \cup {Ticket("P3", "observe_only")}

Handoff(strict, banner, first, payload, tickets) ==
  [strict |-> strict, banner |-> banner, first |-> first, payload |-> payload, tickets |-> tickets]

MCTexts ==
  {Handoff(TRUE, FALSE, "brace", TRUE, {t}) : t \in MCTickets}
  \cup {Handoff(TRUE, FALSE, "brace", TRUE, {}),
        Handoff(FALSE, TRUE, "other", TRUE, {Ticket("P0", "must_fix")}),
        Handoff(FALSE, FALSE, "other", TRUE, {Ticket("P1", "repair_candidate")}),
        Handoff(FALSE, FALSE, "brace", TRUE, {}),
        Handoff(FALSE, FALSE, "none", FALSE, {})}

MCReports == {Report(1, "tighten", 2, 0), Report(2, "watch", 0, 1), Report(3, "healthy", 1, 0), Report(4, "healthy", 0, 1)}

MCCandidates ==
  {Hermes(1, "skill_variant", "skill", FALSE, FALSE, TRUE),
   Hermes(2, "policy_boundary_variant", "policy", TRUE, FALSE, FALSE),
   Hermes(3, "research_followup", "memory", FALSE, FALSE, FALSE),
   Hermes(4, "damping_rule_candidate", "damping", FALSE, TRUE, FALSE),
   Hermes(5, "runtime_signal", "memory", FALSE, FALSE, FALSE)}

MCPolicies ==
  {Caller(asks, allowed, "unset", {"unset"}) :
     asks \in {"risk_graded_default", "agent_autonomous_low_risk", "agent_autonomous_within_scope", "full_agent",
               "ask_before_execution", "report_only", "unlisted"},
     allowed \in {"unset", "yes"}}
  \cup {Caller("agent_autonomous_within_scope", "yes", severity, {"operator_quality"}) : severity \in {"unset", "P1"}}
  \cup {Caller("full_agent", "unset", "P1", {"unset"})}

R == INSTANCE WorkOrderRouting WITH
  Texts <- Handoffs, Reports <- QualityReports, Candidates <- HermesCandidates, Policies <- RoutingPolicies,
  file <- s1, reports <- s2, routing <- s3, output <- s4

-----------------------------------------------------------------------------
(* Hermes distillation: a signal of each lesson route and those that the   *)
(* mapper looks for, a turn of each kind, summaries of no rule and of two. *)

MCHints ==
  {"operator_quality", "repeated_failure_pattern", "credential_boundary", "candidate_replay_failed",
   "knowledge_gap", "reusable_workflow", "avoid_overreaction"}

MCQuotes ==
  {Says({}), Says({"single_failure", "reusable_workflow"}), Says({"explicit_user_boundary"}),
   Says({"external_framework_change", "repeated_failure_pattern"})}
MCMatches == {{}, {"reusable_workflow", "repeated_failure_pattern"}}

M == INSTANCE HermesDistillation WITH
  Hints <- ArtifactHints, Turns <- ArtifactTurns, Matches <- SummaryMatches,
  artifact <- s1, mapping <- s2

-----------------------------------------------------------------------------
(* The LangGraph bridge: reports of two verdicts, Hermes candidates with   *)
(* and without a durable write, routing policies.                          *)

MCCallers ==
  {Caller(x, "unset", "unset", {"unset"}) : x \in {"risk_graded_default", "full_agent", "ask_before_execution"}}
  \cup {Caller("full_agent", "yes", "unset", {"unset"}), Caller("agent_autonomous_within_scope", "yes", "P1", {"*"})}

MCBridgeReports == {Report(1, "tighten", 1, 0), Report(3, "healthy", 1, 0)}
MCBridgeCandidates ==
  {Hermes(1, "skill_variant", "skill", FALSE, FALSE, FALSE),
   Hermes(2, "policy_boundary_variant", "policy", TRUE, FALSE, FALSE)}

B == INSTANCE LangGraphBridge WITH
  Tickets <- BridgeTickets, Reports <- BridgeReports, Candidates <- BridgeCandidates, Callers <- BridgeCallers,
  routed <- s1, shape <- s2, bridge <- s3, edits <- s4, verdict <- s5

-----------------------------------------------------------------------------
(* The distiller review: runs that retain one chunk, another or both, with *)
(* good and bad manifest rows, and runs that fail or find nothing.         *)

NoRun == [inserted |-> {}, tracked |-> {}, processed |-> 0, called |-> 0, novalue |-> 0, failed |-> 0, rows |-> "good"]
MCOutcomes ==
  {NoRun,
   [NoRun EXCEPT !.inserted = {c1}, !.tracked = {c1}, !.processed = 1, !.called = 1],
   [NoRun EXCEPT !.inserted = {c2}, !.tracked = {c2}, !.processed = 1, !.called = 1, !.rows = "short"],
   [NoRun EXCEPT !.inserted = {c1, c2}, !.tracked = {c1, c2}, !.processed = 1, !.called = 2, !.rows = "unhashed", !.failed = 1],
   [NoRun EXCEPT !.inserted = {c1, c2}, !.tracked = {c1, c2}, !.processed = 2, !.called = 2],
   [NoRun EXCEPT !.inserted = {c1, c2}, !.tracked = {c1}, !.processed = 2, !.called = 2],
   [NoRun EXCEPT !.called = 1, !.novalue = 1],
   [NoRun EXCEPT !.failed = 1]}

D == INSTANCE DistillerReview WITH
  Outcomes <- RunOutcomes,
  mode <- s1, run <- s2, disk <- s3, hook <- s4, latest <- s5, status <- s6, inbox <- s7, runs <- s8,
  killed <- s9

-----------------------------------------------------------------------------
(* The tournament review: five makes of candidate, one per route, in       *)
(* batches of one, two, three or all.                                      *)

MCMakes ==
  {Make("skill", "high", 3, {"repeated_failure_pattern"}, 12),
   Make("memory", "high", 2, {}, 12),
   Make("case", "high", 2, {"repeated_failure_pattern"}, 88),
   Make("policy", "low", 3, {}, 12),
   Make("damping", "high", 2, {}, 12)}

Of(makes, n) == [c \in MCMakes |-> IF c \in DOMAIN makes THEN makes[c] ELSE n]

MCBatches ==
  {Of([x \in {c} |-> i], 0) : c \in MCMakes, i \in {1, 2, 3, 20}}
  \cup {Of([x \in {c, d} |-> IF x = c THEN i ELSE 1], 0) : c \in MCMakes, d \in MCMakes, i \in {1, 2, 19}}
  \cup {Of([x \in {c \in MCMakes : c.route \in {"case", "damping"}} |-> 0], 1), Of(<<>>, 1)}

-----------------------------------------------------------------------------
(* The loser context: six source events, two of them of one route.         *)

MCEventsHeld ==
  <<Make("skill", "low", 3, {}, 12), Make("policy", "high", 3, {}, 20), Make("policy", "low", 2, {}, 12),
    Make("damping", "low", 1, {}, 12), Make("memory", "low", 4, {}, 12),
    Make("case", "high", 2, {}, 88)>>

-----------------------------------------------------------------------------
(* Work order variants: orders the router and the Hermes adapter make,     *)
(* external samples at and past the limits of the evaluation, and seeds    *)
(* that favour each strategy in turn.  V0 lends its helpers to the deck.   *)

V0 == INSTANCE WorkOrderVariants WITH
  Items <- {}, Seeds <- {}, Settings <- {}, MaxComparisons <- 0,
  setting <- "unused", comparison <- {}, tally <- "unused"

Routed(tickets, reports) == R!BuildWorkOrderRouting(tickets, reports, Caller("risk_graded_default", "unset", "unset", {"unset"})).orders

Item(o, split, wordy) == [order |-> o, split |-> split, wordy |-> wordy]

Sample(severity, risk, category, n) ==
  V0!ExternalSampleToWorkOrder([severity |-> severity, risk |-> risk, category |-> category, refs |-> n,
                             repro |-> IF n > 2 THEN 2 ELSE n, acceptance |-> n, editable |-> 1, forbidden |-> n])

MCItems ==
  {Item(o, "local_regression", TRUE) :
     o \in Routed({Ticket("P0", "must_fix"), Ticket("P2", "repair_candidate")}, {Report(1, "tighten", 1, 0), Report(1, "healthy", 1, 0)})}
  \cup {Item(Sample("P1", "high", "engineering_repair", 3), "dev", FALSE),
        Item(Sample("P2", "medium", "engineering_repair", 12), "test", TRUE),
        Item(Sample("P3", "low", "operator_quality", 1), "test", FALSE)}
  \cup {Item(o, "hermes", wordy) :
          o \in UNION {R!BuildHermesWorkOrderRouting({c}, FALSE).orders :
                         c \in {Hermes(1, "skill_variant", "skill", FALSE, FALSE, FALSE),
                                Hermes(1, "policy_boundary_variant", "policy", TRUE, FALSE, FALSE)}},
          wordy \in BOOLEAN}

\* The favoured strategy draws the highest score and novelty and comes last.
Favour(s) ==
  [t \in V0!Strategy |-> IF t = s THEN [order |-> 9999, novelty |-> 9999, score |-> 9999]
                      ELSE [order |-> 0, novelty |-> 0, score |-> 0]]
Even == [t \in V0!Strategy |-> [order |-> 5000, novelty |-> 5000, score |-> 5000]]
MCSeeds == {Favour(s) : s \in V0!Strategy} \cup {Even}

MCSettings ==
  [selection : {"quality_replacement", "legacy"}, diversity : {"strategy_guard", "off"},
   budget : {"risk_adaptive", "fixed_5"}, hermes : {FALSE}]
  \cup {[selection |-> "legacy", diversity |-> "off", budget |-> "fixed_5", hermes |-> TRUE]}

V == INSTANCE WorkOrderVariants WITH
  Items <- MCItems, Seeds <- MCSeeds, Settings <- MCSettings, MaxComparisons <- 1,
  setting <- s1, comparison <- s2, tally <- s3

-----------------------------------------------------------------------------
(* The vector memory: three work orders, one without a source ref and one  *)
(* whose ref has no id; a query for each shelf, and queries whose terms    *)
(* name two shelves or none.                                               *)

MCOrders ==
  {[id |-> "wo-ticket", n |-> 1, ref |-> "event-1", owner |-> TRUE, review |-> TRUE,
    explicit |-> {}, scope |-> {"memory", "public"}],
   [id |-> "wo-quality", n |-> 2, ref |-> "none", owner |-> FALSE, review |-> TRUE,
    explicit |-> {}, scope |-> {"production"}],
   [id |-> "wo-proof", n |-> 3, ref |-> "unknown", owner |-> FALSE, review |-> FALSE,
    explicit |-> {}, scope |-> {}]}

Asked(form, terms) == [kind |-> form, terms |-> terms]

MCQueries ==
  {Asked("none", {"repair", "fix"}), Asked("none", {"policy", "boundary", "fix"}),
   Asked("none", {"repair", "work order", "repair work order", "blocked"}),
   Asked("none", {"experience", "verified experience"}), Asked("none", {"decision", "trace", "reply"}),
   Asked("none", {"audit", "trace"}), Asked("none", {"persona", "persona memory"}), Asked("none", {}),
   Asked("agent_experience_candidate", {}), Asked("repair_work_order", {"approval"})}

X == INSTANCE VectorMemory WITH
  Orders <- MemoryOrders, Queries <- MemoryQueries, TopK <- MemoryTopK, MaxRuns <- MemoryRuns,
  inventory <- s1, plan <- s2, query <- s3, ranking <- s4, runs <- s5

-----------------------------------------------------------------------------
(* Skill supervision: the targets a contract names, or not, and the first  *)
(* of its list.  The preflight: one fixture per route, a failed replay, an *)
(* external footprint and a Farcaster boundary.                            *)

Target(lists, word) == [lists |-> lists, word |-> word]

MCContracts ==
  [persistPolicy : {"forbidden", "allowed"},
   publicPolicy : {"draft_or_gated_publish"},
   gateFor : {{}, {"high_risk"}},
   named : {{"successful_reply_pattern", "cooldown_damping"}},
   first : {Target({"allowed"}, "memory")},
   routes : {<<"repair_ticket", "case">>}]
  \cup [persistPolicy : {"forbidden"}, publicPolicy : {"draft_or_gated_publish"}, gateFor : {{"high_risk"}},
        named : {{}}, first : {Target({"allowed"}, "memory")}, routes : {<<"repair_ticket">>}]

MCMemories == {{}, {{"allowed"}, {"forbidden"}}, {{}}}

S == INSTANCE SkillSupervision WITH
  Contracts <- SkillContracts, Memories <- SkillMemories,
  contract <- s1, event <- s2, supervision <- s3, bridge <- s4

Fixture(signals, risk, channel, refs) ==
  [signals |-> signals, risk |-> risk, channel |-> channel, refs |-> refs, toolErrors |-> FALSE]

MCDeck ==
  << Fixture({"reusable_workflow"}, "medium", "chat", {}),
     Fixture({"candidate_replay_failed"}, "low", "chat", {}),
     Fixture({"public_posting_boundary"}, "high", "farcaster", {}),
     Fixture({"stable_project_fact"}, "low", "chat", {"external"}),
     Fixture({"stable_project_fact"}, "low", "chat", {}),
     Fixture({"repeated_failure_pattern"}, "low", "chat", {}) >>

Q == INSTANCE CandidatePreflight WITH
  Deck <- PreflightDeck, RealChat <- PreflightChat, MaxEvidence <- MaxGathered, evidence <- s1, report <- s2

-----------------------------------------------------------------------------
(* The tournament: one candidate that gathers evidence for the same lesson,*)
(* with each route, risk, set of signals and length of words.              *)

MCDrawings ==
  [route : {"skill", "memory", "case", "policy", "damping"}, risk : {"low", "medium", "high", "critical"},
   count : {0}, sourceBacked : BOOLEAN, words : {5, 40, 70, 88, 95},
   signals : SUBSET {"repeated_failure_pattern", "public_posting_boundary", "real_chat_validation_required"}]

candidate == s1
tournament == s2

\* New evidence for the same lesson.
Gather ==
  /\ candidate.count < MaxCount
  /\ s1' = [candidate EXCEPT !.count = @ + 1]
  /\ s2' = BuildTournament(s1')

\* The scoring, the choice of the winner and the classes of losers never build a
\* tournament that the gate's separately written validation
\* (evolution-tournament-validation.mjs) refuses, long reasons included.
GateAcceptsWhatItBuilds ==
  /\ TournamentViolations(tournament) = {}
  /\ \A s \in DOMAIN tournament.variants :
       \A key \in DOMAIN tournament.variants[s].scores : tournament.variants[s].scores[key] \in 0..1000

\* Another safe variant Pareto-dominates the winner only where the incumbent was
\* kept on an exact tie: the rule that lets a synthesis win only over a revision it
\* beats never crowns a dominated change.
WinnerUndominated ==
  \A s \in tournament.losers :
    (tournament.variants[s].passed
      /\ Dominates(tournament.variants[s].scores, tournament.variants[tournament.winner].scores))
    => /\ tournament.winner = "baseline"
       /\ tournament.variants[s].scores.composite = tournament.variants["baseline"].scores.composite

\* docs/current/evolution-tournament-gate-v0.18.md: the incumbent stays unless a
\* change scores strictly more than it does, rounding included.
TieKeepsTheIncumbent ==
  LET incumbent == tournament.variants["baseline"] IN
  incumbent.passed /\ tournament.winner # "baseline" =>
    tournament.variants[tournament.winner].scores.composite > incumbent.scores.composite

\* A change that beats a safe incumbent does so on the composite alone, for the
\* hard-gate scores of safe variants are equal; the metric-gaming risk, computed from
\* the scores afterwards, flags every one of them for review.
ChangedWinnersAreFlagged ==
  tournament.winner # "baseline" /\ tournament.variants["baseline"].passed
    => RiskLevel(tournament.gaming) # "none"

\* More evidence never sends a tournament back to the incumbent: a change that won
\* on little evidence is not undone by getting more of it.
EvidenceNeverRestoresIncumbent == tournament.winner # "baseline" => tournament'.winner # "baseline"

-----------------------------------------------------------------------------
\* A ticket as reviewRepairTickets grades it: nothing to repair is P3, to be observed.
Graded(t) ==
  /\ t.severity \in R!Severities
  /\ t.severity = "P3" => t.status = "observe_only"
  /\ t.repro \in Nat \ {0} /\ t.acceptance \in Nat \ {0} /\ t.mayEdit \in Nat \ {0}

\* A candidate of Hermes names the events it was made of.
Sourced(c) ==
  /\ c.events \in Nat \ {0} /\ c.evidence \in Nat
  /\ c.boundary \in BOOLEAN /\ c.memoryWrite \in BOOLEAN

\* What a run of the distiller leaves: a rollback file that lists chunks it retained.
Traced(o) == o.tracked \subseteq o.inserted /\ IsFiniteSet(o.inserted)

\* An order of the vector memory: "n" is its place among the orders.
Ordered(o) ==
  /\ o.n \in 1..9 /\ o.id \notin {"unknown", "none"}
  /\ o.owner \in BOOLEAN /\ o.review \in BOOLEAN

\* A hook call as the adapter reads it: only the hooks around a tool call name a tool,
\* and an event carries at most one payload of evidence.
Hooked(e) ==
  \/ e.kind = "model_io_tap"
  \/ /\ e \in [kind : {"runtime"}, hook : STRING, tool : STRING, action : STRING, id : Nat,
               status : STRING, curator : BOOLEAN, humanReview : BOOLEAN, signals : SUBSET STRING,
               sensitive : BOOLEAN, query : STRING, origin : STRING,
               evidence : SUBSET [registered : BOOLEAN, delta : Int, risk : STRING, llm : BOOLEAN]]
     /\ e.tool # "none" => e.hook \in {"pre_tool_call", "post_tool_call"}
     /\ \A a, b \in e.evidence : a = b

\* A candidate of a tournament: "words" are those of its reason.
Drawn(c) ==
  /\ c \in [route : STRING, risk : STRING, count : Nat, signals : SUBSET STRING,
            sourceBacked : BOOLEAN, words : Nat]
  /\ IsFiniteSet(c.signals)

\* What a fixture of the preflight says.
DeckFixtures == [signals : SUBSET STRING, risk : STRING, channel : STRING, refs : SUBSET STRING, toolErrors : BOOLEAN]

ASSUME DeckAssumption ==
  /\ L!PipelineAssumption
  /\ \A h \in Handoffs : h.strict \in BOOLEAN /\ \A t \in h.tickets : Graded(t)
  /\ \A c \in HermesCandidates : Sourced(c)
  /\ \A c, d \in HermesCandidates : c.id = d.id => c = d
  /\ MaxEdits \in Nat
  /\ \A o \in RunOutcomes : Traced(o)
  /\ MaxEvents \in Nat
  /\ IsFiniteSet(WindowSources)
  /\ \A s, t \in WindowSources : s.id = t.id => s = t
  /\ IsFiniteSet(MemoryOrders) /\ \A o \in MemoryOrders : Ordered(o)
  /\ \A o, p \in MemoryOrders : o.id = p.id \/ o.n = p.n => o = p
  /\ MemoryTopK \in Nat /\ MemoryRuns \in 0..3
  /\ \A e \in HookEvents : Hooked(e)
  /\ HookBursts \subseteq Nat \ {0} /\ HookSources \subseteq {"log", "fixture"}
  /\ PreflightDeck \in Seq(DeckFixtures) /\ MaxGathered \in Nat
  /\ \A c \in Drawings : Drawn(c)

EvolutionInit ==
  \/ part = "losers" /\ Init /\ NoGate /\ s1 = Idle /\ s2 = Idle /\ Free3
  \/ part = "judging" /\ GateInit /\ NoLosers /\ s1 = Idle /\ s2 = Idle /\ Free3
  \/ /\ NoLosers /\ NoGate
     /\ \/ part = "orders" /\ HO!Init /\ Free9
        \/ part = "gate" /\ HG!Init /\ Free9
        \/ part = "plugin" /\ HP!Init /\ Free9
        \/ part = "learning" /\ L!Init /\ Free4
        \/ part = "perception" /\ P!Init /\ Free4
        \/ part = "footprint" /\ F!Init /\ Free4
        \/ part = "routing" /\ R!Init /\ Free5
        \/ part = "mapping" /\ M!Init /\ Free3
        \/ part = "bridge" /\ B!Init /\ Free6
        \/ part = "review" /\ D!Init
        \/ part = "variants" /\ V!Init /\ Free4
        \/ part = "memory" /\ X!Init /\ Free6
        \/ part = "skills" /\ S!Init /\ Free5
        \/ part = "preflight" /\ Q!Init /\ Free3
        \/ part = "tournament" /\ s1 \in Drawings /\ s2 = BuildTournament(s1) /\ Free3

Kept == UNCHANGED <<part, vars, gateVars>>

Ordering == part = "orders" /\ HO!Next /\ Kept /\ UNCHANGED s9
Measuring == part = "gate" /\ HG!Next /\ Kept /\ UNCHANGED s9
Installing == part = "plugin" /\ HP!Next /\ Kept /\ UNCHANGED s9
Learning == part = "learning" /\ L!Next /\ Kept /\ UNCHANGED <<s4, s5, s6, s7, s8, s9>>
Perceiving == part = "perception" /\ P!Next /\ Kept /\ UNCHANGED <<s4, s5, s6, s7, s8, s9>>
Bridging == part = "footprint" /\ F!Next /\ Kept /\ UNCHANGED <<s4, s5, s6, s7, s8, s9>>
Routing == part = "routing" /\ R!Next /\ Kept /\ UNCHANGED <<s5, s6, s7, s8, s9>>
Mapping == part = "mapping" /\ M!Next /\ Kept /\ UNCHANGED <<s3, s4, s5, s6, s7, s8, s9>>
Interrupting == part = "bridge" /\ B!Next /\ Kept /\ UNCHANGED <<s6, s7, s8, s9>>
Reviewing == part = "review" /\ D!Next /\ Kept
Varying == part = "variants" /\ V!Next /\ Kept /\ UNCHANGED <<s4, s5, s6, s7, s8, s9>>
Remembering == part = "memory" /\ X!Next /\ Kept /\ UNCHANGED <<s6, s7, s8, s9>>
Supervising == part = "skills" /\ S!Next /\ Kept /\ UNCHANGED <<s5, s6, s7, s8, s9>>
Checking == part = "preflight" /\ Q!Next /\ Kept /\ UNCHANGED <<s3, s4, s5, s6, s7, s8, s9>>
Holding == part = "tournament" /\ Gather /\ Kept /\ UNCHANGED <<s3, s4, s5, s6, s7, s8, s9>>
Recalling == part = "losers" /\ Next /\ UNCHANGED <<part, gateVars, slots>>
Judging == part = "judging" /\ GateNext /\ UNCHANGED <<part, vars, slots>>

EvolutionNext ==
  \/ Ordering \/ Measuring \/ Installing \/ Learning \/ Perceiving \/ Bridging
  \/ Routing \/ Mapping \/ Interrupting \/ Reviewing \/ Judging \/ Recalling
  \/ Varying \/ Remembering \/ Supervising \/ Checking \/ Holding

EvolutionSpec == EvolutionInit /\ [][EvolutionNext]_<<part, vars, gateVars, slots>>

-----------------------------------------------------------------------------
\* Nothing critical, durable or public is done without its owner, whichever
\* program meets it and whatever policy its caller asks for: the router, the
\* Hermes orders, the distillation mapper, the bridge to a runtime and the
\* perception gate each decide this by rules of their own.
OwnerKeepsAuthority ==
  /\ part = "routing" =>
       /\ R!TypeOK /\ R!CriticalWaitsForOwner /\ R!AskingModesAsk /\ R!EveryOrderHasAKeeper
       /\ R!DefaultModeAgrees /\ R!BoundaryNeedsGate /\ R!PollutionIsVisible
  /\ part = "bridge" =>
       /\ B!TypeOK /\ B!CriticalAlwaysInterrupts /\ B!FreeWorkResolvesItself
       /\ B!AcceptedKeepsBoundary /\ B!AcceptedIsSourced
  /\ part = "mapping" => M!TypeOK /\ M!HighRiskStopsAtOwner /\ M!MissingEvidenceIsBlocked /\ M!ReadyHasTarget
  /\ part = "perception" => P!PublicRiskIsReviewed

\* A lesson takes the route of its strongest signal and is not promoted on thin,
\* failed, borrowed or mixed evidence: boundaries reach the policy route, a skill
\* comes from clean segments only, and what is retrieved brings its boundary along.
LessonsKeepTheirLane ==
  /\ part = "learning" =>
       /\ L!TypeOK /\ L!BoundaryReachesPolicy /\ L!SkillSegmentsAreClean
       /\ L!ThinTextIsHeld /\ L!FailedReplaysStayLow
  /\ part = "footprint" =>
       /\ F!TypeOK /\ F!SideEffectsNeverPromote /\ F!UnprovenNeverPromotes
       /\ F!OneFootprintNeverPromotes /\ F!ExternalAloneIsHeld
  /\ part = "memory" => X!TypeOK /\ X!OnlyBoundariesInfluence /\ X!BoundaryComesAlong
  /\ part = "perception" => P!TypeOK /\ P!NoiseStaysCheap /\ P!NewEvidenceIsHandedOn

\* Two rules that were written apart agree: the distiller's and the loop's routes,
\* the broad and the minimal export, the tournament and the gate that validates
\* it, the preflight and the adaptive gate, the storage plan and the adapter that
\* takes it, the intent and the result of one action.
PartsAgree ==
  /\ part = "learning" => L!KnownVocabularyAgrees /\ L!ExportsAreUnambiguous /\ L!TicketIffExportsDiffer
  /\ part = "tournament" => GateAcceptsWhatItBuilds
  /\ part = "preflight" => Q!TypeOK /\ Q!ReadyMeansPassed /\ Q!CleanReportIsComplete
  /\ part = "memory" => X!AdapterTakesTracedPlans
  /\ part = "orders" => HO!TypeOK /\ HO!OneOrderPerAction /\ HO!ResultIsPreferred
  /\ part = "skills" => S!TypeOK /\ S!FailuresAreExplained

\* What is selected earned it: no winner is dominated, a tie keeps the incumbent, a
\* queue holds the best, a hit of the asked kind leads, a contract's admission is
\* clean, a model is called only where a review is worth it, and the few losers that
\* later layers are shown are those they need.
SelectionIsEarned ==
  /\ part = "tournament" => WinnerUndominated /\ TieKeepsTheIncumbent /\ ChangedWinnersAreFlagged
  /\ part = "preflight" => Q!QueueHoldsTheBest
  /\ part = "variants" =>
       /\ V!TypeOK /\ V!VariantsAlwaysLift /\ V!RiskFitHolds /\ V!RequiredStrategiesCompete
       /\ V!ReviewWorthyIsHighRisk /\ V!HermesSpendsNoCritique /\ V!ReplacementNeedsNoStrengthening
  /\ part = "skills" => S!AdmissionRequiresCleanEvent
  /\ part = "memory" => X!PrimaryAnchorLeads /\ X!FallbackOnlyWithoutAnchor
  /\ part = "judging" => GateTypeOK /\ PlainCloseScoresNeverCall /\ HighLevelHasAHighTarget /\ CallsAreReported
  /\ part = "losers" =>
       /\ TypeOK /\ PackCoversRecalledRoles /\ ProofIsAlwaysAskedFor
       /\ EveryRouteKeepsItsBoundary /\ OwnLosersAreRecalled

\* A review rests on what was there when it was written: one that says ok has handed
\* on what it asks for, a clean one covers every chunk of its run, one that only
\* observed opens no order, and a dry run reports no gap in what was not written.
ReviewsAreBacked ==
  part = "review" =>
    D!TypeOK /\ D!OkMeansExported /\ D!CleanRunIsCovered /\ D!ObservingOpensNothing /\ D!DryRunsOpenNoGap

\* More of the same never undoes a decision: more events keep an order, a suspicion
\* and a policy lesson; more findings keep the owner; more evidence keeps a pass
\* and a change that won; a looser policy keeps what the agent may do; and a
\* doctor that passes saw everything.
NoWayBack ==
  [][ /\ part = "orders" => HO!OrdersStay
      /\ part = "gate" => HG!ContaminationStays
      /\ part = "plugin" => HP!DoctorSeesDamage
      /\ part = "learning" => L!PolicyLessonsStay
      /\ part = "perception" => P!EvidenceIsNewOnce
      /\ part = "footprint" => F!BoundaryStaysPolicy
      /\ part = "routing" => R!LooserPolicyKeepsAuto
      /\ part = "mapping" => M!FindingsNeverRelease
      /\ part = "bridge" => B!MoreOrdersNeverRelax
      /\ part = "skills" => S!EscalationNeverHelps /\ S!GateNeverHurts
      /\ part = "preflight" => Q!MoreEvidenceNeverHurts /\ Q!DisplacedByBetter
      /\ part = "tournament" => EvidenceNeverRestoresIncumbent ]_<<part, vars, gateVars, slots>>
=============================================================================
