----------------------------- MODULE Perception -----------------------------
(***************************************************************************)
(* What the system notices (scripts/lib/perception-sidecar.mjs, with the   *)
(* tables of scripts/lib/signal-taxonomy.mjs) and what of it deserves a    *)
(* model's attention (scripts/lib/curiosity-signal-gate.mjs).  The sources *)
(* of a window are distilled and grouped by fingerprint; a ledger of       *)
(* fingerprints says which are new, known or handled.  The digest never    *)
(* writes the ledger: it proposes updates, which its owner applies.        *)
(*                                                                         *)
(* A source is a source of the distiller with an id (a number, for the     *)
(* order of the sources) and the refs it cites.  Left out: texts, names    *)
(* and the fixed safety fields.  Scores are in ten-thousandths.            *)
(***************************************************************************)
EXTENDS SessionDistiller, Integers

CONSTANTS
  Sources,    \* sources a window may hold
  Similar,    \* pairs of ids of sources with similar text, the smaller first
  MaxWindow,  \* bound: the sources of one window
  MaxKnown,   \* bound: the fingerprints in the ledger
  MaxSeen     \* bound: the sightings of one fingerprint

VARIABLES
  ledger,   \* the signal ledger: its entries by fingerprint
  digest,   \* the latest digest and its gate: a set of at most one
  applied   \* the proposals of that digest are in the ledger

vars == <<ledger, digest, applied>>

PublicSignals == {"farcaster_public_memory_risk", "public_posting_boundary"}
FailureSignals == {"candidate_replay_failed", "repeated_failure_pattern"}
ResearchSignals ==
  {"external_framework_change", "competitor_change", "knowledge_gap", "research_needed", "user_correction"}
HighValueSignals ==
  PublicSignals \cup FailureSignals \cup ResearchSignals \cup {"explicit_user_boundary", "reusable_workflow"}

RoutePriority ==
  [policy |-> 95, damping |-> 82, case |-> 76, skill |-> 68, memory |-> 54, ignore |-> 20]

\* Families in the order they are tried.
SignalFamilies ==
  <<{"farcaster_public_memory_risk"}, {"public_posting_boundary"}, {"explicit_user_boundary"},
    {"context_injection_risk"}, {"memory_provider_takeover_risk"}, {"candidate_replay_failed"},
    {"avoid_overreaction", "single_failure"}, {"repeated_failure_pattern"},
    {"external_framework_change"}, {"competitor_change"}, {"knowledge_gap", "research_needed"},
    {"user_correction"}, {"repeated_terminology"}, {"reusable_workflow"}, {"stable_user_preference"},
    {"stable_project_fact"}, {"farcaster_reply_success"}>>

RiskSignals ==
  PublicSignals \cup FailureSignals \cup ResearchSignals
    \cup {"explicit_user_boundary", "context_injection_risk", "memory_provider_takeover_risk"}
NoveltySignals ==
  {"reusable_workflow", "stable_project_fact", "stable_user_preference", "farcaster_reply_success",
   "external_framework_change", "competitor_change", "knowledge_gap", "research_needed",
   "repeated_terminology"}

Clamp(value, lo, hi) == Max({lo, Min({hi, value})})

-----------------------------------------------------------------------------
(* Records of sources.                                                     *)

StrongestRoute(routes) ==
  IF routes = {} THEN "ignore"
  ELSE CHOOSE r \in routes : \A q \in routes : RoutePriority[q] <= RoutePriority[r]

SignalFamilyFor(signals) ==
  LET hit == {i \in DOMAIN SignalFamilies : SignalFamilies[i] \cap signals # {}}
  IN  IF hit = {} THEN 0 ELSE Min(hit)

FingerprintKey(routes, kind, signals) == <<StrongestRoute(routes), kind, SignalFamilyFor(signals)>>

Shown(signals, group) == Cardinality(signals \cap group)

SignalBoost(signals) ==
  10 * Shown(signals, PublicSignals)
  + 8 * Shown(signals, {"explicit_user_boundary", "candidate_replay_failed"})
  + 7 * Shown(signals, {"knowledge_gap", "research_needed", "user_correction"})
  + 6 * Shown(signals, {"external_framework_change", "competitor_change"})
  + 5 * Shown(signals, {"reusable_workflow", "repeated_failure_pattern"})
  + 3 * Shown(signals, {"repeated_terminology"})

PriorityFor(routes, signals) ==
  Clamp(Max({RoutePriority[r] : r \in routes}) + SignalBoost(signals), 0, 100)

BuildRiskHints(signals, lessons) ==
  Cardinality(signals \cap RiskSignals)
    + IF \E l \in lessons : l.risk \in {"critical", "high"} THEN 1 ELSE 0

HasPolicyPressure(signals) == Of(signals, "policy")

BuildNoveltyHints(signals, routes) ==
  Cardinality((signals \cap NoveltySignals) \ IF HasPolicyPressure(signals) THEN {"reusable_workflow"} ELSE {})
    + IF Cardinality(routes \ {"ignore"}) > 1 THEN 1 ELSE 0

ReviewValueFor(priority, signals) ==
  CASE signals \cap PublicSignals # {} /\ priority >= 90 -> "high"
    [] ~(signals \cap PublicSignals # {} /\ priority >= 90)
         /\ signals \cap (FailureSignals \cup ResearchSignals \cup {"reusable_workflow"}) # {} -> "medium"
    [] OTHER -> "low"

\* What the digest knows of a source before it looks at the ledger.
SourceRecord(s) ==
  LET Record(lessons, signals, routes) ==
        [signals |-> signals, routes |-> routes, base |-> PriorityFor(routes, signals), cites |-> s.cites,
         fingerprint |-> FingerprintKey(routes, s.kind, signals),
         risks |-> BuildRiskHints(signals, lessons), novelties |-> BuildNoveltyHints(signals, routes),
         review |-> ReviewValueFor(PriorityFor(routes, signals), signals)]
      Read(lessons) == Record(lessons, SourceSignals(s) \cup UNION {l.signals : l \in lessons},
                              {l.expectedRoute : l \in lessons})
  IN  Read(BuildAtomicLessons(s))

Records == [s \in Sources |-> SourceRecord(s)]

\* A source joins the cluster of the first source it resembles that is in no cluster
\* yet; the sources that belong to a cluster.
DuplicateSources(sources) ==
  LET ids == {s.id : s \in sources}
      top == Max({0} \cup ids)
      used[n \in 0..top] ==
        IF n = 0 THEN {}
        ELSE LET members == {n} \cup {j \in ids \ used[n - 1] : <<n, j>> \in Similar}
             IN  IF n \in ids \ used[n - 1] /\ Cardinality(members) > 1
                 THEN used[n - 1] \cup members ELSE used[n - 1]
  IN  used[top]

-----------------------------------------------------------------------------
(* The ledger.                                                             *)

Handled == {"handled", "resolved"}

\* entries is the ledger's entry of the fingerprint, if it has one.
LedgerStatusFor(entries, fresh, total) ==
  CASE entries = {} -> "new_signal"
    [] \E e \in entries : e.status \in Handled ->
         IF fresh = {} THEN "already_processed" ELSE "recurring_after_fix"
    [] \E e \in entries : e.status = "damping_only" /\ total >= 3 -> "damping_repeated_to_case"
    [] OTHER -> IF fresh # {} THEN "seen_with_new_evidence" ELSE "seen_open"

PriorityAdjustment ==
  [new_signal |-> 0, already_processed |-> -70, recurring_after_fix |-> 12,
   damping_repeated_to_case |-> 18, seen_with_new_evidence |-> 6, seen_open |-> -12]

PriorityWithLedger(base, status) ==
  Clamp((IF status = "already_processed" THEN Min({base, 20}) ELSE base) + PriorityAdjustment[status], 0, 100)

HandoffModeFor(status) ==
  CASE status = "already_processed" -> "suppress" [] status = "seen_open" -> "merge_only"
    [] status = "new_signal" -> "full_source" [] OTHER -> "delta_only"

DownstreamForRecommendation(status) ==
  CASE status = "already_processed" -> {}
    [] status = "seen_open" -> {"merge_with_existing_open_item"}
    [] status \in {"recurring_after_fix", "damping_repeated_to_case"} -> {"repair-ticket:misa", "work-order:route"}
    [] OTHER -> {"distill:misa", "memory-layer:misa", "evolution:tournament:misa"}

Entry(known, key) == IF key \in DOMAIN known THEN {known[key]} ELSE {}

\* The fingerprint of a group of sources, looked up in the ledger, with the update it
\* proposes: the sightings so far, a status, the new refs.
SignalFingerprint(key, sources, known) ==
  LET entries == Entry(known, key)
      base == Max({Records[s].base : s \in sources})
      Printed(fresh, total, status) ==
        [key |-> key, sources |-> {s.id : s \in sources}, status |-> status, fresh |-> fresh, seen |-> total,
         priority |-> PriorityWithLedger(base, status), mode |-> HandoffModeFor(status),
         downstream |-> DownstreamForRecommendation(status), evidence |-> fresh]
      Seen(fresh, total) == Printed(fresh, total, LedgerStatusFor(entries, fresh, total))
  IN  Seen((UNION {Records[s].cites : s \in sources}) \ (UNION {e.refs : e \in entries}),
           Cardinality(sources) + Max({0} \cup {e.seen : e \in entries}))

\* What the ledger's owner writes to accept a proposal.  "held" is the handled_result of
\* a failure that was damped: no proposal changes it.
ApplyProposal(entries, f) ==
  [status |-> IF f.status = "already_processed" THEN (CHOOSE e \in entries : TRUE).status ELSE "open",
   held |-> \E e \in entries : e.held, seen |-> f.seen,
   refs |-> (UNION {e.refs : e \in entries}) \cup f.fresh]

-----------------------------------------------------------------------------
(* The curiosity gate.                                                     *)

Pair(signals, left, right) == signals \cap left # {} /\ signals \cap right # {}
ResearchPair(signals) ==
  Pair(signals, {"external_framework_change", "competitor_change"},
       {"knowledge_gap", "research_needed", "user_correction", "repeated_terminology"})
CorrectionPair(signals) ==
  Pair(signals, {"user_correction"},
       {"knowledge_gap", "research_needed", "external_framework_change", "competitor_change",
        "repeated_terminology"})

TermOnly(signals) ==
  "repeated_terminology" \in signals /\ signals \cap HighValueSignals = {}
NoActionableSignal(r) ==
  \/ r.signals = {}
  \/ /\ r.signals \cap HighValueSignals = {} \/ TermOnly(r.signals)
     /\ r.routes \subseteq {"ignore", "memory"}

Points(n, condition) == IF condition THEN n ELSE 0

Score(r, f, priority, duplicate) ==
  LET signals == r.signals
      public == signals \cap PublicSignals # {}
      research == signals \cap ResearchSignals # {}
      workflow == "reusable_workflow" \in signals
      terms == "repeated_terminology" \in signals
  IN  priority * 42
      + Points(3500, public) + Points(1200, "explicit_user_boundary" \in signals)
      + Points(2400, "candidate_replay_failed" \in signals)
      + Points(1800, "repeated_failure_pattern" \in signals)
      + Points(1200, workflow /\ ~public)
      + (CASE ResearchPair(signals) -> 3400
           [] ~ResearchPair(signals) /\ CorrectionPair(signals) -> 3000
           [] OTHER -> IF signals \cap {"external_framework_change", "competitor_change"} # {} THEN 1800
                       ELSE Points(1600, research))
      + Points(800, terms /\ research) + Points(200, terms /\ ~research)
      + Points(800, Cardinality(r.routes) > 1)
      + Points(600, duplicate /\ workflow) + Points(400, duplicate /\ research)
      + Points(2000, f.status = "recurring_after_fix") + Points(2500, f.status = "damping_repeated_to_case")
      + (CASE r.review = "high" -> 1500 [] r.review = "medium" -> 600 [] OTHER -> -400)
      + Min({800, r.risks * 300}) + Points(Min({500, r.novelties * 200}), ~public)
      - Points(6500, f.status = "already_processed") - Points(2500, NoActionableSignal(r) /\ priority <= 45)

ForceHigh(r, f, priority) ==
  \/ /\ r.signals \cap PublicSignals # {}
     /\ priority >= 85 \/ f.status = "recurring_after_fix"
  \/ "candidate_replay_failed" \in r.signals /\ f.status = "damping_repeated_to_case"
  \/ ResearchPair(r.signals) /\ priority >= 74
  \/ CorrectionPair(r.signals) /\ priority >= 76

Suppressed(r, f, priority) ==
  f.status = "already_processed" \/ (NoActionableSignal(r) /\ priority <= 35)

\* Rounded to thousandths before it is compared.
ScoreSource(r, f, priority, duplicate) ==
  LET score == Clamp((Clamp(Score(r, f, priority, duplicate), 0, 10000) + 5) \div 10, 0, 1000)
  IN  IF Suppressed(r, f, priority) THEN "none"
      ELSE CASE ForceHigh(r, f, priority) \/ score >= 780 -> "high"
             [] ~ForceHigh(r, f, priority) /\ score \in 520..779 -> "medium"
             [] ~ForceHigh(r, f, priority) /\ score \in 280..519 -> "low"
             [] OTHER -> "none"

DecisionForLevel(level, r, f) ==
  CASE f.status = "already_processed" -> "suppress_as_already_handled"
    [] f.status # "already_processed" /\ NoActionableSignal(r) /\ level = "none" -> "suppress_as_low_value_noise"
    [] level = "high" -> "llm_variant_generation_recommended"
    [] level = "medium" -> "deterministic_review_optional"
    [] OTHER -> "ordinary_candidate_flow"

DecisionRecord(r, f, priority, duplicate) ==
  DecisionForLevel(ScoreSource(r, f, priority, duplicate), r, f)

-----------------------------------------------------------------------------
(* A digest: the fingerprints of the window, and for each source its       *)
(* priority in the attention queue and the gate's decision.                *)

BuildPerceptionDigest(sources, known) ==
  LET Item(s, r, f) ==
        LET priority == PriorityWithLedger(r.base, f.status)
        IN  [source |-> s.id, key |-> r.fingerprint, status |-> f.status, priority |-> priority,
             downstream |-> f.downstream, cites |-> r.cites, signals |-> r.signals, routes |-> r.routes,
             decision |-> DecisionRecord(r, f, priority, s.id \in DuplicateSources(sources))]
      Digest(prints) ==
        [window |-> sources, prints |-> prints,
         items |-> {Item(s, Records[s], CHOOSE p \in prints : p.key = Records[s].fingerprint) : s \in sources}]
  IN  Digest({SignalFingerprint(k, {s \in sources : Records[s].fingerprint = k}, known) :
                k \in {Records[s].fingerprint : s \in sources}})

Init ==
  /\ ledger = <<>>
  /\ digest = {}
  /\ applied = FALSE

\* The source directory holds what it holds when the digest is made.
DigestWindow == \E n \in 1..MaxWindow : \E window \in kSubset(n, Sources) :
  /\ digest' = {BuildPerceptionDigest(window, ledger)}
  /\ applied' = FALSE
  /\ UNCHANGED ledger

\* The owner applies the proposals of a digest to the ledger it was made from.
ApplyProposals == \E d \in digest :
  /\ ~applied
  /\ Cardinality(DOMAIN ledger \cup {f.key : f \in d.prints}) <= MaxKnown
  /\ \A f \in d.prints : f.seen <= MaxSeen
  /\ LET keys == {f.key : f \in d.prints}
         print(k) == CHOOSE f \in d.prints : f.key = k
     IN  ledger' = [k \in DOMAIN ledger \cup keys |->
                      IF k \in keys THEN ApplyProposal(Entry(ledger, k), print(k)) ELSE ledger[k]]
  /\ applied' = TRUE
  /\ UNCHANGED digest

\* The owner records how a fingerprint was handled, after the digest was applied (the
\* sidecar treats resolved as handled and ignored as open).
Handle == \E k \in DOMAIN ledger, status \in {"handled", "damping_only"} :
  /\ applied
  /\ ledger[k].status = "open"
  /\ ledger' = [ledger EXCEPT ![k].status = status, ![k].held = status = "damping_only"]
  /\ UNCHANGED <<digest, applied>>

Next == DigestWindow \/ ApplyProposals \/ Handle

Spec == Init /\ [][Next]_vars

-----------------------------------------------------------------------------
(* Properties.                                                             *)

Items == UNION {d.items : d \in digest}

TypeOK ==
  /\ \A k \in DOMAIN ledger : /\ ledger[k].status \in {"open", "handled", "damping_only"}
                              /\ ledger[k].seen \in 1..MaxSeen
  /\ \A i \in Items : i.priority \in 0..100
  /\ Cardinality({i.source : i \in Items}) = Cardinality(Items)

\* A source that shows a risk to a public channel is proposed for a model's review
\* unless it was handled, whatever else it shows, however often it was seen and however
\* its lessons are routed: routes, weights, the ledger's adjustment and the gate's
\* threshold agree.
PublicRiskIsReviewed ==
  \A i \in Items : i.signals \cap PublicSignals # {} =>
    i.decision \in {"llm_variant_generation_recommended", "suppress_as_already_handled"}

\* A source that only feeds memory, or nothing, is never proposed to a model, though it
\* recurs, is damped or has duplicates.
NoiseStaysCheap ==
  \A i \in Items : i.signals \cap HighValueSignals = {} /\ i.routes \subseteq {"ignore", "memory"} =>
    i.decision # "llm_variant_generation_recommended"

\* A ref the ledger does not have yet is handed to someone, also when its fingerprint
\* was handled before.
NewEvidenceIsHandedOn ==
  \A d \in digest : \A i \in d.items, f \in d.prints :
    f.key = i.key /\ i.cites \cap f.fresh # {} =>
      i.downstream # {} /\ i.decision # "suppress_as_already_handled" /\ i.cites \cap f.fresh \subseteq f.evidence

\* Once the proposals are in the ledger the same window brings nothing new: the digest
\* does not hand the same evidence on a second time.
EvidenceIsNewOnce ==
  \A d \in digest, e \in digest' :
   applied /\ ~applied' /\ d.window = e.window =>
     \A f \in e.prints : f.fresh = {} /\ f.status # "new_signal"
=============================================================================
