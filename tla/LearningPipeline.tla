-------------------------- MODULE LearningPipeline --------------------------
(***************************************************************************)
(* A session window on its way from distillation to the reviews of the     *)
(* learning loop: each time the window or the fixture changes, the         *)
(* pipeline distills it, routes the lessons and judges the traces.  The    *)
(* pipeline reads files and writes none; "traces" is its last report.      *)
(*                                                                         *)
(* Bounds: MaxTurns, and the sets of turns, windows and fixtures.          *)
(***************************************************************************)
EXTENDS LearningLoop

CONSTANTS
  Turns,      \* what a turn may say: [matches, denies, secret]
  Windows,    \* windows without turns
  Fixtures,   \* [hand, text, toolErrors, given, refs, channel, risk]
  Rules,      \* the deck of the extractor
  MaxTurns

\* What holds of the constants.  A count of evidence is the only member of a set, and a
\* window states none below 1 (schemas/local_distillation_source.schema.json).
AtMostOne(set) == \A x, y \in set : x = y

Windowed(turns) ==
  [kind : STRING, turns : turns, hints : SUBSET STRING, evidence : SUBSET (Nat \ {0}), risk : STRING,
   channel : STRING, refs : SUBSET STRING, toolErrors : BOOLEAN]

PipelineAssumption ==
  /\ \A t \in Turns : t.denies \in BOOLEAN /\ t.secret \in BOOLEAN
  /\ Windows \subseteq Windowed({<<>>}) /\ \A w \in Windows : AtMostOne(w.evidence)
  /\ \A f \in Fixtures : /\ IsFiniteSet(f.text) /\ IsFiniteSet(f.toolErrors)
                        /\ f.given \subseteq Nat /\ AtMostOne(f.given)
  /\ MaxTurns \in Nat

VARIABLES
  source,   \* the window
  fixture,  \* {} or the only event that is not distilled
  traces    \* what the loop made of them

vars == <<source, fixture, traces>>

\* The event of a fixture; no expectation of it is modelled.
FixtureEvent(f) ==
  LET applied == ApplyExtractedSignals(f.hand, f.given,
        ExtractSignalsFromSession(Rules, f.text, f.toolErrors, 0))
  IN  [signals |-> applied.signals, evidence |-> applied.evidence, risk |-> f.risk,
       refs |-> f.refs, toolErrors |-> f.toolErrors # {}, channel |-> f.channel,
       from |-> {}, expectedRoute |-> Absent, expectation |-> ExpectationFor("ignore")]

\* An event without any signal is refused before it is routed.
SimulateMisaLearning(window, fixtures) ==
  {SimulateLearningCycle(e) : e \in
     BuildAtomicLessons(window) \cup {e \in {FixtureEvent(f) : f \in fixtures} : e.signals # {}}}

Init == /\ source \in Windows /\ fixture = {}
        /\ traces = SimulateMisaLearning(source, {})

Say(turn) ==
  /\ Len(source.turns) < MaxTurns /\ fixture = {}
  /\ source' = [source EXCEPT !.turns = Append(@, turn)]
  /\ traces' = SimulateMisaLearning(source', fixture)
  /\ UNCHANGED fixture

AddFixture(f) ==
  /\ fixture = {} /\ source.turns = <<>>
  /\ fixture' = {f}
  /\ traces' = SimulateMisaLearning(source, {f})
  /\ UNCHANGED source

Next == (\E t \in Turns : Say(t)) \/ (\E f \in Fixtures : AddFixture(f))

Spec == Init /\ [][Next]_vars

-----------------------------------------------------------------------------
(* Properties.                                                             *)

Distilled == {t \in traces : t.event.expectedRoute # Absent}

\* Types, and the distiller's own checks of its report: every window becomes an
\* event with evidence, whatever is said in it.
TypeOK ==
  /\ Len(source.turns) <= MaxTurns
  /\ Distilled # {} /\ EvaluateSources({source}, FALSE) = {}
  /\ \A t \in traces : /\ t.route.target \in LessonRoutes \cup {"ignore"}
                       /\ t.event.evidence \in Nat

\* The distiller and the loop classify with separately written rules.  Over the
\* signals both know, the loop does with every lesson what the distiller expects:
\* its route, status, publication mode and candidate state.
KnownVocabularyAgrees ==
  \A t \in Distilled :
    \/ HasSignal(t.event, {"external_framework_change", "competitor_change", "knowledge_gap",
                           "research_needed", "user_correction", "repeated_terminology",
                           "candidate_replay_failed", "context_injection_risk",
                           "memory_provider_takeover_risk"})
    \/ SimulationViolations(t) = {}

\* However a boundary is mixed with other lessons in a window, one lesson of the
\* window reaches the policy route and waits for approval.
BoundaryReachesPolicy ==
  Of(SourceSignals(source), "policy") =>
    \E t \in Distilled : t.route.target = "policy" /\ t.route.status = "requires_approval"

\* The lesson of a window none of whose segments is a lesson of its own: all that the
\* window says, with the evidence its source claims.
PooledWindow(t) == t.event.signals = SourceSignals(source) /\ t.event.evidence \in source.evidence

\* docs/current/memory-layer-skill-export-v0.13.md: policy, case and damping lessons stay
\* in their lanes.  No segment a skill lesson was cut from carries a boundary or a reason to
\* hold, and none carries a failure unless the lesson is a window's whole, which the
\* distiller names "ignore" and the loop makes a skill of.
SkillSegmentsAreClean ==
  LET segments == BuildSegments(source) IN
  \A t \in Distilled : t.route.target = "skill" =>
    \A i \in t.event.from :
      /\ ~Of(segments[i], "policy") /\ ~Of(segments[i], "damping")
      /\ Of(segments[i], "case") => PooledWindow(t)

\* What the memory layer exports as an L3 skill speaks for no lane but skill and
\* memory, is also a crystallized candidate, and the adaptive gate, which does not
\* share its rules, lets it into verification unless only an external footprint
\* supports it.
ExportsAreUnambiguous ==
  \A t \in BuildMinimalPositiveL3(traces) :
    /\ PossibleRoutesForSignals(t.event.signals) \subseteq {"skill", "memory"}
    /\ t \in CrystallizeMisaSkills(traces)
    /\ t \notin BuildMixedRoutePressure(traces).suppressed
    /\ \/ BuildQueueItem(t).state = "ready_for_daily_rollup"
       \/ ~BuildAdaptiveCandidate(t).gates.external

\* One remark is one piece of evidence: text that matches a single pattern, though
\* it be a pattern of several rules, never readies an event for the daily rollup.
ThinTextIsHeld ==
  \A f \in fixture :
    (f.hand = {} /\ f.given = {} /\ f.toolErrors = {} /\ Cardinality(f.text) <= 1) =>
      \A t \in traces \ Distilled : BuildQueueItem(t).state # "ready_for_daily_rollup"

\* A failed replay suppresses the candidate whatever else the event says: it never
\* asks for attention in the queue and never enters verification.
FailedReplaysStayLow ==
  \A t \in traces : BuildAdaptiveCandidate(t).suppressed =>
    BuildQueueItem(t).priority = "low" /\ BuildQueueItem(t).state = "rejected_suppression"

\* A window gets a repair ticket exactly when the broad export and the minimal one
\* differ on it; the only skill lesson the minimal export refuses without a ticket is
\* that of a whole window, refused for its failure.
TicketIffExportsDiffer ==
  fixture = {} =>
    (ReviewRepairTickets(traces, {}) # {}
       <=> \E t \in BuildOriginalAutoL3(traces) \ BuildMinimalPositiveL3(traces) :
             ~(t.route.target = "skill" /\ PooledWindow(t)
                 /\ HasSignal(t.event, {"repeated_failure_pattern"})))

\* More talk never withdraws a policy lesson of the window.
PolicyLessonsStay ==
  (\E t \in traces : t.event.expectedRoute = "policy")
    => \E t \in traces' : t.event.expectedRoute = "policy"
=============================================================================
