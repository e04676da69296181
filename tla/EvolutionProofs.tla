---------------------------- MODULE EvolutionProofs ----------------------------
(***************************************************************************)
(* Proofs about the programs that make lessons of what is seen, and about  *)
(* the desk as a whole: that every program at it keeps the owner's         *)
(* authority, that the reviews of the distiller are backed, that a lesson  *)
(* keeps its lane and that rules written apart agree, for any sources,     *)
(* windows, fixtures, footprints and stored orders.                        *)
(***************************************************************************)
EXTENDS OrderProofs

-----------------------------------------------------------------------------
(* Perception.  A public risk puts its source on the policy route, which   *)
(* with the boost of the risk is the highest priority there is; the ledger *)
(* takes at most 12 of it.                                                 *)

LEMMA RoutesOfSignals ==
  \A signals : P!ExpectedRouteFor(signals) \in {"policy", "damping", "case", "skill", "memory", "ignore"}
BY DEF P!ExpectedRouteFor

\* A lesson takes one of the routes, and is of no public risk that its source does not
\* show.
LEMMA PerceivedLessons ==
  ASSUME NEW s, NEW l \in P!BuildAtomicLessons(s)
  PROVE  /\ l.expectedRoute \in {"policy", "damping", "case", "skill", "memory", "ignore"}
         /\ l.signals \cap P!PublicSignals \subseteq P!SourceSignals(s)
<1> DEFINE segments == P!BuildSegments(s)
           signals == P!SourceSignals(s)
           supporting(r) == {i \in DOMAIN segments : P!SegmentSupportsLessonRoute(segments[i], r)}
           from(r) == IF supporting(r) # {} THEN supporting(r) ELSE DOMAIN segments
           kept(r) == P!LessonSignalsFor(r, signals, {segments[i] : i \in from(r)})
           routes == {r \in P!LessonRoutes :
                        /\ supporting(r) # {} \/ P!SourceLevelFallbackAllowed(signals, r)
                        /\ P!ExpectedRouteFor(kept(r)) = r}
           lesson(r) == P!BuildLearningEvent(s, r, from(r), kept(r),
              P!LessonEvidenceCountFor(r, s, P!Cardinality(from(r)), kept(r)),
              P!LessonRiskFor(r, s, kept(r)), P!LessonArtifactEvidenceFor(r, s))
           ignored == IF signals = {} THEN {"unsupported_signal"} ELSE signals
<1>1. ASSUME NEW x, NEW r, NEW f, NEW k, NEW e, NEW n, NEW a, x = P!BuildLearningEvent(s, r, f, k, e, n, a)
      PROVE  x.signals = k /\ x.expectedRoute \in {"policy", "damping", "case", "skill", "memory", "ignore"}
  BY <1>1, RoutesOfSignals DEF P!BuildLearningEvent
<1>2. CASE routes # {}
  <2>1. P!BuildAtomicLessons(s) = {lesson(r) : r \in routes}
    BY <1>2 DEF P!BuildAtomicLessons
  <2>2. PICK r \in P!LessonRoutes : l = lesson(r)
    <3> HIDE DEF lesson
    <3> QED
      BY <2>1
  <2>3. l.signals = kept(r) /\ l.expectedRoute \in {"policy", "damping", "case", "skill", "memory", "ignore"}
    <3> HIDE DEF kept, from
    <3> QED
      BY <1>1, <2>2
  <2>4. UNION {segments[i] : i \in from(r)} \subseteq signals
    BY DEF P!SourceSignals
  <2>5. kept(r) \subseteq signals \cup {P!LessonFallbackSignal[r]}
    <3> HIDE DEF segments, from, signals
    <3> QED
      BY <2>4 DEF P!LessonSignalsFor
  <2>6. P!LessonFallbackSignal[r] \notin P!PublicSignals
    BY DEF P!LessonRoutes, P!LessonRouteSignals, P!LessonFallbackSignal, P!PublicSignals
  <2> HIDE DEF kept, signals
  <2>7. l.signals \cap P!PublicSignals \subseteq signals
    BY <2>3, <2>5, <2>6
  <2> QED
    BY <2>3, <2>7 DEF signals
<1>3. CASE routes = {}
  <2>1. PICK e, n, a : l = P!BuildLearningEvent(s, "ignore", DOMAIN segments, ignored, e, n, a)
    BY <1>3 DEF P!BuildAtomicLessons
  <2>2. l.signals = ignored /\ l.expectedRoute \in {"policy", "damping", "case", "skill", "memory", "ignore"}
    <3> HIDE DEF ignored, segments
    <3> QED
      BY <1>1, <2>1
  <2> HIDE DEF signals
  <2>3. ignored \cap P!PublicSignals \subseteq signals
    BY DEF P!PublicSignals
  <2> QED
    BY <2>2, <2>3 DEF signals
<1> QED
  BY <1>2, <1>3


LEMMA PublicLesson ==
  ASSUME NEW s, NEW x \in P!PublicSignals, x \in P!SourceSignals(s)
  PROVE  \E l \in P!BuildAtomicLessons(s) : l.expectedRoute = "policy"
<1> DEFINE segments == P!BuildSegments(s)
           signals == P!SourceSignals(s)
           supporting(r) == {i \in DOMAIN segments : P!SegmentSupportsLessonRoute(segments[i], r)}
           from(r) == IF supporting(r) # {} THEN supporting(r) ELSE DOMAIN segments
           kept(r) == P!LessonSignalsFor(r, signals, {segments[i] : i \in from(r)})
           routes == {r \in P!LessonRoutes :
                        /\ supporting(r) # {} \/ P!SourceLevelFallbackAllowed(signals, r)
                        /\ P!ExpectedRouteFor(kept(r)) = r}
           lesson(r) == P!BuildLearningEvent(s, r, from(r), kept(r),
              P!LessonEvidenceCountFor(r, s, P!Cardinality(from(r)), kept(r)),
              P!LessonRiskFor(r, s, kept(r)), P!LessonArtifactEvidenceFor(r, s))
<1>0. "policy" \in P!LessonRoutes
  BY DEF P!LessonRoutes, P!LessonRouteSignals
<1>1. x \in P!LessonRouteSignals["policy"] /\ x \in P!LessonAllowedSignals["policy"]
  BY DEF P!PublicSignals, P!LessonRouteSignals, P!LessonAllowedSignals
<1>2. P!SourceLevelFallbackAllowed(signals, "policy")
  <2> HIDE DEF signals
  <2>1. x \in signals
    BY DEF signals
  <2> QED
    BY <1>1, <2>1 DEF P!SourceLevelFallbackAllowed, P!OutOfRoute, P!Of, P!HasAnySignal
<1>3. P!ExpectedRouteFor(kept("policy")) = "policy"
  <2> DEFINE cut == ((UNION {segments[i] : i \in from("policy")}) \cup signals) \cap P!LessonAllowedSignals["policy"]
  <2>0. x \in cut
    BY <1>1
  <2> HIDE DEF segments, from, signals
  <2>1. /\ "candidate_replay_failed" \notin cut
        /\ ~P!HasAnySignal(cut, {"avoid_overreaction", "single_failure"})
    BY DEF P!LessonAllowedSignals, P!LessonRouteSignals, P!HasAnySignal
  <2> HIDE DEF cut
  <2>2. P!Of(cut, "policy")
    BY <1>1, <2>0 DEF P!Of, P!HasAnySignal
  <2>3. kept("policy") = cut
    BY <2>2 DEF P!LessonSignalsFor, cut
  <2>4. P!ExpectedRouteFor(cut) = "policy"
    BY <2>1, <2>2 DEF P!ExpectedRouteFor
  <2> QED
    BY <2>3, <2>4
<1>4. "policy" \in routes
  BY <1>0, <1>2, <1>3
<1>5. lesson("policy") \in P!BuildAtomicLessons(s)
  <2>1. routes # {} => P!BuildAtomicLessons(s) = {lesson(r) : r \in routes}
    BY DEF P!BuildAtomicLessons
  <2> HIDE DEF lesson, routes
  <2> QED
    BY <1>4, <2>1
<1>6. lesson("policy").expectedRoute = P!ExpectedRouteFor(kept("policy"))
  BY DEF P!BuildLearningEvent
<1> QED
  BY <1>3, <1>5, <1>6

LEMMA LargestOf ==
  ASSUME NEW set \in SUBSET Int, NEW m \in set, \A y \in set : m >= y
  PROVE  P!Max(set) = m
<1> DEFINE c == CHOOSE x \in set : \A y \in set : x >= y
<1>1. c \in set /\ \A y \in set : c >= y
  OBVIOUS
<1>2. P!Max(set) = c
  BY DEF P!Max
<1> HIDE DEF c
<1>3. c \in Int /\ m \in Int /\ c >= m /\ m >= c
  BY <1>1
<1>4. c = m
  BY <1>3
<1> QED
  BY <1>2, <1>4

LEMMA SmallestOf ==
  ASSUME NEW set \in SUBSET Int, NEW m \in set, \A y \in set : m <= y
  PROVE  P!Min(set) = m
<1> DEFINE c == CHOOSE x \in set : \A y \in set : x <= y
<1>1. c \in set /\ \A y \in set : c <= y
  OBVIOUS
<1>2. P!Min(set) = c
  BY DEF P!Min
<1> HIDE DEF c
<1>3. c \in Int /\ m \in Int /\ c <= m /\ m <= c
  BY <1>1
<1>4. c = m
  BY <1>3
<1> QED
  BY <1>2, <1>4

LEMMA Clamped ==
  ASSUME NEW v \in Int
  PROVE  P!Clamp(v, 0, 100) = IF v < 0 THEN 0 ELSE IF v > 100 THEN 100 ELSE v
<1>1. P!Min({100, v}) = IF v > 100 THEN 100 ELSE v
  <2>1. CASE v > 100
    BY <2>1, SmallestOf
  <2>2. CASE ~(v > 100)
    BY <2>2, SmallestOf
  <2> QED
    BY <2>1, <2>2
<1> DEFINE m == P!Min({100, v})
<1>2. m \in Int
  BY <1>1
<1> HIDE DEF m
<1>3. P!Max({0, m}) = IF m < 0 THEN 0 ELSE m
  <2>1. CASE m < 0
    BY <1>2, <2>1, LargestOf
  <2>2. CASE ~(m < 0)
    BY <1>2, <2>2, LargestOf
  <2> QED
    BY <2>1, <2>2
<1> QED
  BY <1>1, <1>3 DEF P!Clamp, m

LEMMA SignalsShown ==
  ASSUME NEW signals, NEW group, IsFiniteSet(group)
  PROVE  /\ P!Shown(signals, group) \in Nat
         /\ signals \cap group # {} => P!Shown(signals, group) >= 1
<1>1. IsFiniteSet(signals \cap group)
  BY FS_Subset
<1>2. /\ Cardinality(signals \cap group) \in Nat
      /\ signals \cap group # {} => Cardinality(signals \cap group) # 0
  BY <1>1, FS_CardinalityType, FS_EmptySet
<1>3. P!Shown(signals, group) = Cardinality(signals \cap group)
  BY DEF P!Shown, P!Cardinality, Cardinality
<1> QED
  BY <1>2, <1>3

\* A public risk on the policy route has the highest priority.
LEMMA PublicPriority ==
  ASSUME NEW routes \in SUBSET {"policy", "damping", "case", "skill", "memory", "ignore"}, "policy" \in routes,
         NEW signals, NEW x \in signals, x \in P!PublicSignals
  PROVE  P!PriorityFor(routes, signals) = 100
<1> DEFINE priorities == {P!RoutePriority[r] : r \in routes}
<1>1. P!Max(priorities) = 95
  <2>1. priorities \in SUBSET Int /\ 95 \in priorities /\ \A y \in priorities : 95 >= y
    BY DEF P!RoutePriority
  <2> HIDE DEF priorities
  <2> QED
    BY <2>1, LargestOf
<1>2. IsFiniteSet({}) /\ \A a : IsFiniteSet({a})
  BY FS_EmptySet, FS_Singleton
<1>3. \A a, b : IsFiniteSet({a, b})
  <2> SUFFICES ASSUME NEW a, NEW b PROVE IsFiniteSet({a, b})
    OBVIOUS
  <2>1. IsFiniteSet({a} \cup {b})
    BY <1>2, FS_Union
  <2>2. {a, b} = {a} \cup {b}
    OBVIOUS
  <2> QED
    BY <2>1, <2>2, Zenon
<1>4. \A a, b, c : IsFiniteSet({a, b, c})
  <2> SUFFICES ASSUME NEW a, NEW b, NEW c PROVE IsFiniteSet({a, b, c})
    OBVIOUS
  <2>1. IsFiniteSet({a, b} \cup {c})
    BY <1>2, <1>3, FS_Union
  <2>2. {a, b, c} = {a, b} \cup {c}
    OBVIOUS
  <2> QED
    BY <2>1, <2>2, Zenon
<1> DEFINE n1 == P!Shown(signals, P!PublicSignals)
           n2 == P!Shown(signals, {"explicit_user_boundary", "candidate_replay_failed"})
           n3 == P!Shown(signals, {"knowledge_gap", "research_needed", "user_correction"})
           n4 == P!Shown(signals, {"external_framework_change", "competitor_change"})
           n5 == P!Shown(signals, {"reusable_workflow", "repeated_failure_pattern"})
           n6 == P!Shown(signals, {"repeated_terminology"})
<1>5. n1 \in Nat /\ n1 >= 1
  <2>1. IsFiniteSet(P!PublicSignals) /\ signals \cap P!PublicSignals # {}
    BY <1>3 DEF P!PublicSignals
  <2> QED
    BY <2>1, SignalsShown
<1>6. n2 \in Nat /\ n3 \in Nat /\ n4 \in Nat /\ n5 \in Nat /\ n6 \in Nat
  BY <1>2, <1>3, <1>4, SignalsShown
<1>7. P!SignalBoost(signals) = 10 * n1 + 8 * n2 + 7 * n3 + 6 * n4 + 5 * n5 + 3 * n6
  BY DEF P!SignalBoost
<1> HIDE DEF n1, n2, n3, n4, n5, n6
<1>8. P!SignalBoost(signals) \in Int /\ P!SignalBoost(signals) >= 10
  BY <1>5, <1>6, <1>7
<1>9. 95 + P!SignalBoost(signals) \in Int /\ 95 + P!SignalBoost(signals) > 100
  BY <1>8
<1> HIDE DEF priorities
<1>10. P!Clamp(95 + P!SignalBoost(signals), 0, 100) = 100
  BY <1>9, Clamped
<1> QED
  BY <1>1, <1>10 DEF P!PriorityFor, priorities


\* What the digest knows of a source that shows a public risk.
LEMMA PublicRecord ==
  ASSUME NEW s, NEW r, r = P!SourceRecord(s), r.signals \cap P!PublicSignals # {}
  PROVE  r.base = 100
<1> DEFINE lessons == P!BuildAtomicLessons(s)
           signals == P!SourceSignals(s) \cup (UNION {l.signals : l \in lessons})
           routes == {l.expectedRoute : l \in lessons}
<1>1. r.signals = signals /\ r.base = P!PriorityFor(routes, signals)
  BY DEF P!SourceRecord
<1>2. PICK x \in P!PublicSignals : x \in signals
  BY <1>1
<1>3. x \in P!SourceSignals(s)
  <2>1. CASE x \in P!SourceSignals(s)
    BY <2>1
  <2>2. CASE \E l \in lessons : x \in l.signals
    BY <2>2, PerceivedLessons
  <2> HIDE DEF lessons
  <2> QED
    BY <1>2, <2>1, <2>2
<1>4. "policy" \in routes
  <2>1. PICK l \in lessons : l.expectedRoute = "policy"
    BY <1>3, PublicLesson
  <2> HIDE DEF lessons
  <2> QED
    BY <2>1
<1>5. routes \in SUBSET {"policy", "damping", "case", "skill", "memory", "ignore"}
  <2>1. \A l \in lessons : l.expectedRoute \in {"policy", "damping", "case", "skill", "memory", "ignore"}
    BY PerceivedLessons
  <2> HIDE DEF lessons
  <2> QED
    BY <2>1
<1> HIDE DEF routes, signals
<1> QED
  BY <1>1, <1>2, <1>4, <1>5, PublicPriority

LEMMA LedgerStatuses ==
  ASSUME NEW entries, NEW fresh, NEW total
  PROVE  P!LedgerStatusFor(entries, fresh, total) \in
           {"new_signal", "already_processed", "recurring_after_fix", "damping_repeated_to_case",
            "seen_with_new_evidence", "seen_open"}
BY DEF P!LedgerStatusFor

\* With the highest priority, no status of the ledger but "already_processed" keeps it
\* from a review.
LEMMA PublicDecision ==
  ASSUME NEW r, r.signals \cap P!PublicSignals # {}, NEW f,
         f.status \in {"new_signal", "already_processed", "recurring_after_fix", "damping_repeated_to_case",
                       "seen_with_new_evidence", "seen_open"},
         NEW duplicate
  PROVE  P!DecisionRecord(r, f, P!PriorityWithLedger(100, f.status), duplicate) \in
           {"llm_variant_generation_recommended", "suppress_as_already_handled"}
<1> DEFINE priority == P!PriorityWithLedger(100, f.status)
<1>1. CASE f.status = "already_processed"
  <2> HIDE DEF priority
  <2>1. P!Suppressed(r, f, priority)
    BY <1>1 DEF P!Suppressed
  <2>2. P!ScoreSource(r, f, priority, duplicate) = "none"
    BY <2>1 DEF P!ScoreSource
  <2>3. P!DecisionForLevel("none", r, f) = "suppress_as_already_handled"
    BY <1>1 DEF P!DecisionForLevel
  <2> QED
    BY <2>2, <2>3 DEF P!DecisionRecord, priority
<1>2. CASE f.status # "already_processed"
  <2>1. priority \in Int /\ priority >= 85
    <3>1. P!PriorityAdjustment[f.status] \in {0, 12, 18, 6, -12}
      BY <1>2 DEF P!PriorityAdjustment
    <3>2. priority = P!Clamp(100 + P!PriorityAdjustment[f.status], 0, 100)
      BY <1>2 DEF P!PriorityWithLedger
    <3> DEFINE v == 100 + P!PriorityAdjustment[f.status]
    <3>3. v \in Int /\ v >= 88
      BY <3>1
    <3> HIDE DEF v
    <3>4. priority = IF v < 0 THEN 0 ELSE IF v > 100 THEN 100 ELSE v
      BY <3>2, <3>3, Clamped DEF v
    <3> QED
      BY <3>3, <3>4
  <2> HIDE DEF priority
  <2>2. P!ForceHigh(r, f, priority)
    BY <2>1 DEF P!ForceHigh
  <2>3. ~P!Suppressed(r, f, priority)
    BY <1>2, <2>1 DEF P!Suppressed
  <2>4. P!ScoreSource(r, f, priority, duplicate) = "high"
    BY <2>2, <2>3 DEF P!ScoreSource
  <2>5. P!DecisionForLevel("high", r, f) = "llm_variant_generation_recommended"
    BY <1>2 DEF P!DecisionForLevel
  <2> QED
    BY <2>4, <2>5 DEF P!DecisionRecord, priority
<1> QED
  BY <1>1, <1>2

-----------------------------------------------------------------------------
(* The ledger of perception, and a digest made of it.                      *)

LedgerStatus == {"open", "handled", "damping_only"}
PrintStatus ==
  {"new_signal", "already_processed", "recurring_after_fix", "damping_repeated_to_case",
   "seen_with_new_evidence", "seen_open"}

LedgerEntry(e) ==
  \E status \in LedgerStatus, damped \in BOOLEAN, seen \in 1..MaxSeen : \E refs :
    e = [status |-> status, held |-> damped, seen |-> seen, refs |-> refs]
LedgerKept(known) ==
  known = [k \in DOMAIN known |-> known[k]] /\ \A k \in DOMAIN known : LedgerEntry(known[k])

\* A digest is made of a window and of a ledger, which stays as it is until the digest is
\* applied to it.
PerceivedIInv ==
  /\ LedgerKept(s1) /\ s3 \in BOOLEAN
  /\ \/ s2 = {}
     \/ \E window \in SUBSET WindowSources : \E known :
          /\ LedgerKept(known) /\ (~s3 => known = s1)
          /\ s2 = {P!BuildPerceptionDigest(window, known)}

LEMMA PerceivedInit == P!Init => PerceivedIInv
<1> SUFFICES ASSUME P!Init PROVE PerceivedIInv
  OBVIOUS
<1>1. s1 = <<>> /\ s2 = {} /\ s3 = FALSE
  BY DEF P!Init
<1>2. DOMAIN s1 = {} /\ s1 = [k \in DOMAIN s1 |-> s1[k]]
  BY <1>1
<1> QED
  BY <1>1, <1>2 DEF PerceivedIInv, LedgerKept

LEMMA PerceivedCardinality == \A set : P!Cardinality(set) = Cardinality(set) /\ (P!IsFiniteSet(set) <=> IsFiniteSet(set))
BY DEF P!Cardinality, Cardinality, P!IsFiniteSet, IsFiniteSet

LEMMA LedgerStatusFacts ==
  ASSUME NEW entries, NEW fresh, NEW total, NEW status, status = P!LedgerStatusFor(entries, fresh, total)
  PROVE  /\ status \in PrintStatus
         /\ status = "already_processed" => entries # {} /\ fresh = {}
BY DEF P!LedgerStatusFor, PrintStatus

LEMMA PriorSightings ==
  ASSUME NEW known, LedgerKept(known), NEW k
  PROVE  LET entries == P!Entry(known, k) IN
         /\ \A e \in entries : LedgerEntry(e)
         /\ \A e, d \in entries : e = d
         /\ P!Max({0} \cup {e.seen : e \in entries}) \in Nat
<1> DEFINE entries == P!Entry(known, k)
<1>1. CASE k \notin DOMAIN known
  <2>1. entries = {}
    BY <1>1 DEF P!Entry
  <2>2. {0} \cup {e.seen : e \in entries} = {0}
    BY <2>1
  <2>3. P!Max({0}) = 0
    BY LargestOf
  <2> HIDE DEF entries
  <2> QED
    BY <2>1, <2>2, <2>3 DEF entries
<1>2. CASE k \in DOMAIN known
  <2>1. entries = {known[k]} /\ LedgerEntry(known[k])
    BY <1>2 DEF P!Entry, LedgerKept
  <2> HIDE DEF entries
  <2>2. known[k].seen \in Nat
    BY <2>1 DEF LedgerEntry
  <2>3. {0} \cup {e.seen : e \in entries} = {0, known[k].seen}
    BY <2>1
  <2>4. P!Max({0, known[k].seen}) = known[k].seen
    BY <2>2, LargestOf
  <2> QED
    BY <2>1, <2>2, <2>3, <2>4 DEF entries
<1> QED
  BY <1>1, <1>2

\* The fingerprint of a group of sources: what it says of the ledger's entry.
LEMMA PrintFacts ==
  ASSUME NEW known, LedgerKept(known), NEW k, NEW sources, IsFiniteSet(sources), sources # {},
         NEW f, f = P!SignalFingerprint(k, sources, known)
  PROVE  /\ f.key = k /\ f.status \in PrintStatus /\ f.evidence = f.fresh
         /\ f.downstream = P!DownstreamForRecommendation(f.status)
         /\ f.status = "already_processed" => k \in DOMAIN known /\ f.fresh = {}
         /\ f.seen \in Nat \ {0}
<1> DEFINE entries == P!Entry(known, k)
           fresh == (UNION {P!Records[s].cites : s \in sources}) \ (UNION {e.refs : e \in entries})
           total == P!Cardinality(sources) + P!Max({0} \cup {e.seen : e \in entries})
           status == P!LedgerStatusFor(entries, fresh, total)
           base == P!Max({P!Records[s].base : s \in sources})
           ids == {s.id : s \in sources}
<1>1. f = [key |-> k, sources |-> ids, status |-> status, fresh |-> fresh, seen |-> total,
           priority |-> P!PriorityWithLedger(base, status), mode |-> P!HandoffModeFor(status),
           downstream |-> P!DownstreamForRecommendation(status), evidence |-> fresh]
  BY Zenon DEF P!SignalFingerprint
<1>2. status \in PrintStatus /\ (status = "already_processed" => entries # {} /\ fresh = {})
  <2> HIDE DEF entries, fresh, total
  <2> QED
    BY LedgerStatusFacts
<1>3. entries # {} => k \in DOMAIN known
  BY DEF P!Entry
<1>4. total \in Nat \ {0}
  <2>1. P!Cardinality(sources) \in Nat \ {0}
    BY FS_CardinalityType, FS_EmptySet, PerceivedCardinality
  <2>2. P!Max({0} \cup {e.seen : e \in entries}) \in Nat
    BY PriorSightings
  <2> DEFINE n == P!Cardinality(sources)
             m == P!Max({0} \cup {e.seen : e \in entries})
  <2> HIDE DEF n, m
  <2>3. n + m \in Nat \ {0}
    BY <2>1, <2>2 DEF n, m
  <2> QED
    BY <2>3 DEF n, m
<1> HIDE DEF entries, fresh, total, status, base, ids
<1>5. /\ f.key = k /\ f.status = status /\ f.fresh = fresh /\ f.evidence = fresh /\ f.seen = total
      /\ f.downstream = P!DownstreamForRecommendation(status)
  BY <1>1
<1> QED
  BY <1>2, <1>3, <1>4, <1>5

\* The prints of a digest, one for each fingerprint of its window.
PrintsShown(window, known, prints) ==
  /\ \A f \in prints :
       /\ \E s \in window : f.key = P!Records[s].fingerprint
       /\ f.status \in PrintStatus /\ f.evidence = f.fresh /\ f.seen \in Nat \ {0}
       /\ f.downstream = P!DownstreamForRecommendation(f.status)
       /\ f.status = "already_processed" => f.key \in DOMAIN known /\ f.fresh = {}
  /\ \A f, g \in prints : f.key = g.key => f = g
  /\ \A s \in window : \E f \in prints : f.key = P!Records[s].fingerprint

LEMMA DigestPrints ==
  ASSUME NEW window \in SUBSET WindowSources, NEW known, LedgerKept(known)
  PROVE  PrintsShown(window, known, P!BuildPerceptionDigest(window, known).prints)
<1> DEFINE key(s) == P!Records[s].fingerprint
           group(k) == {s \in window : key(s) = k}
           print(k) == P!SignalFingerprint(k, group(k), known)
           prints == {print(k) : k \in {key(s) : s \in window}}
<1>1. P!BuildPerceptionDigest(window, known).prints = prints
  BY DEF P!BuildPerceptionDigest
<1>2. ASSUME NEW s \in window
      PROVE  LET f == print(key(s)) IN
             /\ f.key = key(s) /\ f.status \in PrintStatus /\ f.evidence = f.fresh /\ f.seen \in Nat \ {0}
             /\ f.downstream = P!DownstreamForRecommendation(f.status)
             /\ f.status = "already_processed" => f.key \in DOMAIN known /\ f.fresh = {}
  <2>1. IsFiniteSet(group(key(s))) /\ group(key(s)) # {}
    <3>1. IsFiniteSet(window)
      BY DeckAssumption, FS_Subset
    <3> QED
      BY <3>1, FS_Subset
  <2> HIDE DEF group, key
  <2> QED
    BY <2>1, PrintFacts
<1>3. \A f \in prints : \E s \in window : f = print(key(s))
  <2> HIDE DEF print
  <2> QED
    OBVIOUS
<1>4. \A s \in window : print(key(s)) \in prints
  OBVIOUS
<1> HIDE DEF print, prints
<1>5. /\ \A f \in prints :
              /\ \E s \in window : f.key = key(s)
              /\ f.status \in PrintStatus /\ f.evidence = f.fresh /\ f.seen \in Nat \ {0}
              /\ f.downstream = P!DownstreamForRecommendation(f.status)
              /\ f.status = "already_processed" => f.key \in DOMAIN known /\ f.fresh = {}
      /\ \A f, g \in prints : f.key = g.key => f = g
      /\ \A s \in window : \E f \in prints : f.key = key(s)
  BY <1>2, <1>3, <1>4
<1>6. PrintsShown(window, known, prints)
  BY <1>5 DEF PrintsShown
<1> QED
  BY <1>1, <1>6

LEMMA AppliedEntry ==
  ASSUME LedgerKept(s1), NEW f, f.status \in PrintStatus, f.seen \in 1..MaxSeen,
         NEW k, f.status = "already_processed" => k \in DOMAIN s1
  PROVE  LedgerEntry(P!ApplyProposal(P!Entry(s1, k), f))
<1> DEFINE entries == P!Entry(s1, k)
           status == IF f.status = "already_processed" THEN (CHOOSE e \in entries : TRUE).status ELSE "open"
           damped == \E e \in entries : e.held
           refs == (UNION {e.refs : e \in entries}) \cup f.fresh
<1>1. P!ApplyProposal(P!Entry(s1, k), f) = [status |-> status, held |-> damped, seen |-> f.seen, refs |-> refs]
  BY Zenon DEF P!ApplyProposal
<1>2. status \in LedgerStatus
  <2>1. CASE f.status = "already_processed"
    <3>1. entries = {s1[k]} /\ LedgerEntry(s1[k])
      BY <2>1 DEF P!Entry, LedgerKept
    <3> HIDE DEF entries
    <3>2. (CHOOSE e \in entries : TRUE) = s1[k]
      BY <3>1
    <3>3. s1[k].status \in LedgerStatus
      BY <3>1 DEF LedgerEntry
    <3> QED
      BY <2>1, <3>2, <3>3
  <2>2. CASE f.status # "already_processed"
    BY <2>2 DEF LedgerStatus
  <2> QED
    BY <2>1, <2>2
<1>3. damped \in BOOLEAN
  OBVIOUS
<1> HIDE DEF status, damped, refs, entries
<1> QED
  BY <1>1, <1>2, <1>3 DEF LedgerEntry

LEMMA HandledEntry ==
  ASSUME NEW st, NEW damped, NEW seen, NEW refs, NEW x, NEW y, NEW e, NEW f,
         e = [status |-> st, held |-> damped, seen |-> seen, refs |-> refs],
         f = [e EXCEPT !.status = x, !.held = y]
  PROVE  f = [status |-> x, held |-> y, seen |-> seen, refs |-> refs]
<1>1. [e EXCEPT !.status = x] = [status |-> x, held |-> damped, seen |-> seen, refs |-> refs]
  OBVIOUS
<1> DEFINE g == [e EXCEPT !.status = x]
<1>2. f = [g EXCEPT !.held = y]
  OBVIOUS
<1>3. g = [status |-> x, held |-> damped, seen |-> seen, refs |-> refs]
  BY <1>1
<1> HIDE DEF g
<1> QED
  BY <1>2, <1>3

LEMMA PerceivedStep == ASSUME PerceivedIInv, P!Next PROVE PerceivedIInv'
<1>1. CASE P!DigestWindow
  <2>1. PICK n : \E window \in P!kSubset(n, WindowSources) :
          s2' = {P!BuildPerceptionDigest(window, s1)} /\ s3' = FALSE /\ s1' = s1
    BY <1>1 DEF P!DigestWindow
  <2>2. PICK window \in SUBSET WindowSources :
          s2' = {P!BuildPerceptionDigest(window, s1)} /\ s3' = FALSE /\ s1' = s1
    BY <2>1 DEF P!kSubset
  <2>3. LedgerKept(s1)
    BY DEF PerceivedIInv
  <2>4. LedgerKept(s1')
    BY <2>2, <2>3
  <2> QED
    BY <2>2, <2>3, <2>4 DEF PerceivedIInv
<1>2. CASE P!ApplyProposals
  <2>1. PICK d \in s2 :
          /\ ~s3 /\ \A f \in d.prints : f.seen <= MaxSeen
          /\ LET keys == {f.key : f \in d.prints}
                 print(k) == CHOOSE f \in d.prints : f.key = k
             IN  s1' = [k \in DOMAIN s1 \cup keys |->
                          IF k \in keys THEN P!ApplyProposal(P!Entry(s1, k), print(k)) ELSE s1[k]]
          /\ s3' = TRUE /\ s2' = s2
    BY <1>2 DEF P!ApplyProposals
  <2>2. PICK window \in SUBSET WindowSources : d = P!BuildPerceptionDigest(window, s1) /\ s2 = {d}
    BY <2>1 DEF PerceivedIInv
  <2>3. LedgerKept(s1)
    BY DEF PerceivedIInv
  <2> DEFINE keys == {f.key : f \in d.prints}
             print(k) == CHOOSE f \in d.prints : f.key = k
             new(k) == IF k \in keys THEN P!ApplyProposal(P!Entry(s1, k), print(k)) ELSE s1[k]
  <2>4. s1' = [k \in DOMAIN s1 \cup keys |-> new(k)]
    BY <2>1
  <2>5. ASSUME NEW k \in DOMAIN s1 \cup keys PROVE LedgerEntry(new(k))
    <3>1. CASE k \in keys
      <4>1. print(k) \in d.prints /\ print(k).key = k
        BY <3>1
      <4>2. /\ print(k).status \in PrintStatus /\ print(k).seen \in Nat \ {0}
            /\ print(k).status = "already_processed" => k \in DOMAIN s1
        <5>1. \A f \in d.prints :
                /\ f.status \in PrintStatus /\ f.seen \in Nat \ {0}
                /\ f.status = "already_processed" => f.key \in DOMAIN s1
          <6>1. PrintsShown(window, s1, d.prints)
            BY <2>2, <2>3, DigestPrints
          <6> QED
            BY <6>1 DEF PrintsShown
        <5> HIDE DEF print
        <5> QED
          BY <4>1, <5>1
      <4>3. print(k).seen \in 1..MaxSeen
        <5> DEFINE seen == print(k).seen
        <5>1. seen \in Nat \ {0} /\ seen <= MaxSeen
          BY <2>1, <4>1, <4>2
        <5> HIDE DEF seen
        <5>2. seen \in 1..MaxSeen
          BY <5>1
        <5> QED
          BY <5>2 DEF seen
      <4> HIDE DEF print
      <4> QED
        BY <2>3, <3>1, <4>2, <4>3, AppliedEntry
    <3>2. CASE k \notin keys
      BY <2>3, <3>2 DEF LedgerKept
    <3> QED
      BY <3>1, <3>2
  <2>6. LedgerKept(s1')
    <3> HIDE DEF new, keys
    <3>1. DOMAIN s1' = DOMAIN s1 \cup keys /\ \A k \in DOMAIN s1 \cup keys : s1'[k] = new(k)
      BY <2>4
    <3>2. s1' = [k \in DOMAIN s1' |-> s1'[k]]
      BY <2>4, <3>1
    <3> QED
      BY <2>5, <3>1, <3>2 DEF LedgerKept
  <2> QED
    BY <2>1, <2>2, <2>3, <2>6 DEF PerceivedIInv
<1>3. CASE P!Handle
  <2>1. PICK k \in DOMAIN s1, status \in {"handled", "damping_only"} :
          /\ s3 /\ s1' = [s1 EXCEPT ![k].status = status, ![k].held = status = "damping_only"]
          /\ s2' = s2 /\ s3' = s3
    BY <1>3 DEF P!Handle
  <2>2. LedgerKept(s1)
    BY DEF PerceivedIInv
  <2>10. PICK st \in LedgerStatus, damped \in BOOLEAN, seen \in 1..MaxSeen :
           \E refs : s1[k] = [status |-> st, held |-> damped, seen |-> seen, refs |-> refs]
    BY <2>2 DEF LedgerKept, LedgerEntry
  <2>3. PICK refs : s1[k] = [status |-> st, held |-> damped, seen |-> seen, refs |-> refs]
    BY <2>10
  <2> DEFINE b == status = "damping_only"
  <2>4. b \in BOOLEAN /\ status \in LedgerStatus
    BY DEF LedgerStatus
  <2>5. s1' = [s1 EXCEPT ![k].status = status, ![k].held = b]
    BY <2>1
  <2> HIDE DEF b
  <2>6. /\ DOMAIN s1' = DOMAIN s1 /\ s1' = [j \in DOMAIN s1' |-> s1'[j]]
        /\ \A j \in DOMAIN s1 : j # k => s1'[j] = s1[j]
        /\ s1'[k] = [s1[k] EXCEPT !.status = status, !.held = b]
    BY <2>2, <2>5 DEF LedgerKept
  <2>7. s1'[k] = [status |-> status, held |-> b, seen |-> seen, refs |-> refs]
    <3> DEFINE e == s1[k]
               f == s1'[k]
    <3>1. e = [status |-> st, held |-> damped, seen |-> seen, refs |-> refs]
      BY <2>3
    <3>2. f = [e EXCEPT !.status = status, !.held = b]
      BY <2>6
    <3> HIDE DEF e, f
    <3>3. f = [status |-> status, held |-> b, seen |-> seen, refs |-> refs]
      BY <3>1, <3>2, HandledEntry, Zenon
    <3> QED
      BY <3>3 DEF f
  <2>8. LedgerEntry(s1'[k])
    BY <2>4, <2>7 DEF LedgerEntry
  <2>9. LedgerKept(s1')
    BY <2>2, <2>6, <2>8 DEF LedgerKept
  <2> QED
    BY <2>1, <2>9 DEF PerceivedIInv
<1> QED
  BY <1>1, <1>2, <1>3 DEF P!Next

LEMMA ClampedTo ==
  ASSUME NEW v \in Int, NEW hi \in Nat
  PROVE  /\ P!Clamp(v, 0, hi) \in 0..hi
         /\ P!Clamp(v, 0, hi) = IF v < 0 THEN 0 ELSE IF v > hi THEN hi ELSE v
<1>1. P!Min({hi, v}) = IF v > hi THEN hi ELSE v
  <2>1. CASE v > hi
    BY <2>1, SmallestOf
  <2>2. CASE ~(v > hi)
    BY <2>2, SmallestOf
  <2> QED
    BY <2>1, <2>2
<1> DEFINE m == P!Min({hi, v})
<1>2. m \in Int
  BY <1>1
<1> HIDE DEF m
<1>3. P!Max({0, m}) = IF m < 0 THEN 0 ELSE m
  <2>1. CASE m < 0
    BY <1>2, <2>1, LargestOf
  <2>2. CASE ~(m < 0)
    BY <1>2, <2>2, LargestOf
  <2> QED
    BY <2>1, <2>2
<1> DEFINE c == P!Clamp(v, 0, hi)
<1>4. c = P!Max({0, m})
  BY DEF P!Clamp, m
<1> HIDE DEF c
<1>5. c = (IF v < 0 THEN 0 ELSE IF v > hi THEN hi ELSE v) /\ c \in 0..hi
  BY <1>1, <1>3, <1>4 DEF m
<1> QED
  BY <1>5 DEF c

LEMMA SmallSets ==
  /\ IsFiniteSet({})
  /\ \A a : IsFiniteSet({a})
  /\ \A a, b : IsFiniteSet({a, b})
  /\ \A a, b, c : IsFiniteSet({a, b, c})
<1>2. IsFiniteSet({}) /\ (\A a : IsFiniteSet({a}))
  BY FS_EmptySet, FS_Singleton
<1>3. \A a, b : IsFiniteSet({a, b})
  <2> SUFFICES ASSUME NEW a, NEW b PROVE IsFiniteSet({a, b})
    OBVIOUS
  <2>1. IsFiniteSet({a} \cup {b})
    BY <1>2, FS_Union
  <2>2. {a, b} = {a} \cup {b}
    OBVIOUS
  <2> QED
    BY <2>1, <2>2, Zenon
<1>4. \A a, b, c : IsFiniteSet({a, b, c})
  <2> SUFFICES ASSUME NEW a, NEW b, NEW c PROVE IsFiniteSet({a, b, c})
    OBVIOUS
  <2>1. IsFiniteSet({a, b} \cup {c})
    BY <1>2, <1>3, FS_Union
  <2>2. {a, b, c} = {a, b} \cup {c}
    OBVIOUS
  <2> QED
    BY <2>1, <2>2, Zenon
<1> QED
  BY <1>2, <1>3, <1>4

LEMMA GroupsFinite ==
  /\ IsFiniteSet(P!PublicSignals) /\ IsFiniteSet(P!RiskSignals) /\ IsFiniteSet(P!NoveltySignals)
<1>1. IsFiniteSet(P!PublicSignals) /\ IsFiniteSet(P!FailureSignals)
  BY SmallSets DEF P!PublicSignals, P!FailureSignals
<1> DEFINE research == {"external_framework_change", "competitor_change"} \cup {"knowledge_gap", "research_needed", "user_correction"}
           others == {"explicit_user_boundary", "context_injection_risk", "memory_provider_takeover_risk"}
           novel == {"reusable_workflow", "stable_project_fact", "stable_user_preference"} \cup
                    ({"farcaster_reply_success", "external_framework_change", "competitor_change"} \cup
                     {"knowledge_gap", "research_needed", "repeated_terminology"})
<1>2. P!ResearchSignals \subseteq research
  BY DEF P!ResearchSignals
<1>3. IsFiniteSet(research) /\ IsFiniteSet(others) /\ IsFiniteSet(novel)
  BY SmallSets, FS_Union
<1> HIDE DEF research, others
<1>4. IsFiniteSet(((P!PublicSignals \cup P!FailureSignals) \cup research) \cup others)
  BY <1>1, <1>3, FS_Union
<1>5. P!RiskSignals \subseteq ((P!PublicSignals \cup P!FailureSignals) \cup research) \cup others
  BY <1>2 DEF P!RiskSignals, others
<1>6. P!NoveltySignals \subseteq novel
  BY DEF P!NoveltySignals
<1> HIDE DEF novel
<1> QED
  BY <1>1, <1>3, <1>4, <1>5, <1>6, FS_Subset

\* The boost of what a source shows: nothing but its terms counts where nothing of high
\* value is shown.
LEMMA Boosted ==
  ASSUME NEW signals
  PROVE  /\ P!SignalBoost(signals) \in Nat
         /\ signals \cap P!HighValueSignals = {} => P!SignalBoost(signals) <= 3
<1> DEFINE g2 == {"explicit_user_boundary", "candidate_replay_failed"}
           g3 == {"knowledge_gap", "research_needed", "user_correction"}
           g4 == {"external_framework_change", "competitor_change"}
           g5 == {"reusable_workflow", "repeated_failure_pattern"}
           g6 == {"repeated_terminology"}
           n1 == P!Shown(signals, P!PublicSignals)
           n2 == P!Shown(signals, g2)
           n3 == P!Shown(signals, g3)
           n4 == P!Shown(signals, g4)
           n5 == P!Shown(signals, g5)
           n6 == P!Shown(signals, g6)
<1>1. /\ n1 \in Nat /\ n2 \in Nat /\ n3 \in Nat /\ n4 \in Nat /\ n5 \in Nat /\ n6 \in Nat
  BY SmallSets, GroupsFinite, SignalsShown
<1>2. P!SignalBoost(signals) = 10 * n1 + 8 * n2 + 7 * n3 + 6 * n4 + 5 * n5 + 3 * n6
  BY DEF P!SignalBoost
<1>3. n6 <= 1
  <2>1. signals \cap g6 \subseteq g6 /\ IsFiniteSet(g6) /\ Cardinality(g6) = 1
    BY FS_Singleton
  <2>2. Cardinality(signals \cap g6) <= 1
    BY <2>1, FS_Subset
  <2>3. n6 = Cardinality(signals \cap g6)
    BY PerceivedCardinality DEF P!Shown
  <2> QED
    BY <2>2, <2>3
<1>4. ASSUME signals \cap P!HighValueSignals = {}
      PROVE  n1 = 0 /\ n2 = 0 /\ n3 = 0 /\ n4 = 0 /\ n5 = 0
  <2>0. \A g : signals \cap g = {} => P!Shown(signals, g) = 0
    BY FS_EmptySet, PerceivedCardinality DEF P!Shown
  <2>1. /\ P!PublicSignals \subseteq P!HighValueSignals /\ g2 \subseteq P!HighValueSignals
        /\ g3 \subseteq P!HighValueSignals /\ g4 \subseteq P!HighValueSignals /\ g5 \subseteq P!HighValueSignals
    BY DEF P!HighValueSignals, P!PublicSignals, P!FailureSignals, P!ResearchSignals
  <2> HIDE DEF g2, g3, g4, g5
  <2> QED
    BY <1>4, <2>0, <2>1
<1> HIDE DEF n1, n2, n3, n4, n5, n6
<1> QED
  BY <1>1, <1>2, <1>3, <1>4

LessonRouteNames == {"policy", "damping", "case", "skill", "memory", "ignore"}

LEMMA SourcePriority ==
  ASSUME NEW routes \in SUBSET LessonRouteNames, routes # {}, NEW signals
  PROVE  /\ P!PriorityFor(routes, signals) \in 0..100
         /\ signals \cap P!HighValueSignals = {} /\ routes \subseteq {"ignore", "memory"}
              => P!PriorityFor(routes, signals) <= 57
<1> DEFINE priorities == {P!RoutePriority[r] : r \in routes}
           top == P!Max(priorities)
           boost == P!SignalBoost(signals)
<1>1. priorities \in SUBSET {95, 82, 76, 68, 54, 20} /\ priorities # {}
      /\ (routes \subseteq {"ignore", "memory"} => priorities \subseteq {54, 20})
  <2>1. \A r \in LessonRouteNames : P!RoutePriority[r] \in {95, 82, 76, 68, 54, 20}
    BY DEF P!RoutePriority, LessonRouteNames
  <2>2. \A r \in {"ignore", "memory"} : P!RoutePriority[r] \in {54, 20}
    BY DEF P!RoutePriority
  <2> QED
    BY <2>1, <2>2
<1> HIDE DEF priorities
<1>2. \E m \in priorities : \A y \in priorities : m >= y
  <2>1. CASE 95 \in priorities
    BY <1>1, <2>1
  <2>2. CASE 95 \notin priorities /\ 82 \in priorities
    BY <1>1, <2>2
  <2>3. CASE 95 \notin priorities /\ 82 \notin priorities /\ 76 \in priorities
    BY <1>1, <2>3
  <2>4. CASE 95 \notin priorities /\ 82 \notin priorities /\ 76 \notin priorities /\ 68 \in priorities
    BY <1>1, <2>4
  <2>5. CASE priorities \subseteq {54, 20} /\ 54 \in priorities
    BY <2>5
  <2>6. CASE priorities = {20}
    BY <2>6
  <2>7. priorities \subseteq {54, 20} /\ 54 \notin priorities => priorities = {20}
    BY <1>1, Zenon
  <2>8. 95 \notin priorities /\ 82 \notin priorities /\ 76 \notin priorities /\ 68 \notin priorities
          => priorities \subseteq {54, 20}
    BY <1>1
  <2> QED
    BY <2>1, <2>2, <2>3, <2>4, <2>5, <2>6, <2>7, <2>8, Zenon
<1>3. top \in priorities
  <2>1. PICK m \in priorities : \A y \in priorities : m >= y
    BY <1>2
  <2>2. P!Max(priorities) = m
    BY <1>1, <2>1, LargestOf
  <2> QED
    BY <2>1, <2>2
<1>4. boost \in Nat /\ (signals \cap P!HighValueSignals = {} => boost <= 3)
  BY Boosted
<1> HIDE DEF top, boost
<1>5. top + boost \in Int /\ top + boost >= 0
      /\ (signals \cap P!HighValueSignals = {} /\ routes \subseteq {"ignore", "memory"} => top + boost <= 57)
  BY <1>1, <1>3, <1>4
<1>6. P!PriorityFor(routes, signals) = P!Clamp(top + boost, 0, 100)
  BY DEF P!PriorityFor, top, boost, priorities
<1> DEFINE v == top + boost
<1> HIDE DEF v
<1>7. P!Clamp(v, 0, 100) \in 0..100 /\ P!Clamp(v, 0, 100) = (IF v < 0 THEN 0 ELSE IF v > 100 THEN 100 ELSE v)
  BY <1>5, ClampedTo DEF v
<1> QED
  BY <1>5, <1>6, <1>7 DEF v

LEMMA PerceivedSomething == ASSUME NEW s PROVE P!BuildAtomicLessons(s) # {}
<1> DEFINE segments == P!BuildSegments(s)
           signals == P!SourceSignals(s)
           supporting(r) == {i \in DOMAIN segments : P!SegmentSupportsLessonRoute(segments[i], r)}
           from(r) == IF supporting(r) # {} THEN supporting(r) ELSE DOMAIN segments
           kept(r) == P!LessonSignalsFor(r, signals, {segments[i] : i \in from(r)})
           routes == {r \in P!LessonRoutes :
                        /\ supporting(r) # {} \/ P!SourceLevelFallbackAllowed(signals, r)
                        /\ P!ExpectedRouteFor(kept(r)) = r}
           lesson(r) == P!BuildLearningEvent(s, r, from(r), kept(r),
              P!LessonEvidenceCountFor(r, s, P!Cardinality(from(r)), kept(r)),
              P!LessonRiskFor(r, s, kept(r)), P!LessonArtifactEvidenceFor(r, s))
<1>1. routes # {} => P!BuildAtomicLessons(s) = {lesson(r) : r \in routes}
  BY DEF P!BuildAtomicLessons
<1>2. routes = {} => \E l : P!BuildAtomicLessons(s) = {l}
  BY DEF P!BuildAtomicLessons
<1> HIDE DEF routes, lesson
<1> QED
  BY <1>1, <1>2

\* What the digest knows of a source.
LEMMA RecordFacts ==
  ASSUME NEW s, NEW r, r = P!SourceRecord(s)
  PROVE  /\ r.base \in 0..100 /\ r.risks \in Nat /\ r.novelties \in Nat
         /\ r.signals \cap P!HighValueSignals = {} /\ r.routes \subseteq {"ignore", "memory"}
              => r.base <= 57 /\ r.review = "low"
<1> DEFINE lessons == P!BuildAtomicLessons(s)
           signals == P!SourceSignals(s) \cup (UNION {l.signals : l \in lessons})
           routes == {l.expectedRoute : l \in lessons}
<1>1. /\ r.signals = signals /\ r.routes = routes /\ r.base = P!PriorityFor(routes, signals)
      /\ r.risks = P!BuildRiskHints(signals, lessons) /\ r.novelties = P!BuildNoveltyHints(signals, routes)
      /\ r.review = P!ReviewValueFor(P!PriorityFor(routes, signals), signals)
  BY DEF P!SourceRecord
<1>2. routes \in SUBSET LessonRouteNames /\ routes # {}
  <2>1. \A l \in lessons : l.expectedRoute \in LessonRouteNames
    BY PerceivedLessons DEF LessonRouteNames
  <2>2. lessons # {}
    BY PerceivedSomething
  <2> HIDE DEF lessons
  <2> QED
    BY <2>1, <2>2
<1> HIDE DEF lessons, signals, routes
<1>3. P!BuildRiskHints(signals, lessons) \in Nat
  <2>1. P!Cardinality(signals \cap P!RiskSignals) \in Nat
    BY GroupsFinite, FS_Subset, FS_CardinalityType, PerceivedCardinality
  <2> QED
    BY <2>1 DEF P!BuildRiskHints
<1>4. P!BuildNoveltyHints(signals, routes) \in Nat
  <2> DEFINE shown == (signals \cap P!NoveltySignals) \ (IF P!HasPolicyPressure(signals) THEN {"reusable_workflow"} ELSE {})
  <2>1. shown \subseteq P!NoveltySignals
    OBVIOUS
  <2> HIDE DEF shown
  <2>2. P!Cardinality(shown) \in Nat
    BY <2>1, GroupsFinite, FS_Subset, FS_CardinalityType, PerceivedCardinality
  <2>3. P!BuildNoveltyHints(signals, routes) = P!Cardinality(shown) + (IF P!Cardinality(routes \ {"ignore"}) > 1 THEN 1 ELSE 0)
    BY DEF P!BuildNoveltyHints, shown
  <2> QED
    BY <2>2, <2>3
<1>5. ASSUME signals \cap P!HighValueSignals = {}
      PROVE  P!ReviewValueFor(P!PriorityFor(routes, signals), signals) = "low"
  <2>1. signals \cap P!PublicSignals = {} /\ signals \cap (P!FailureSignals \cup P!ResearchSignals \cup {"reusable_workflow"}) = {}
    BY <1>5 DEF P!HighValueSignals
  <2> QED
    BY <2>1 DEF P!ReviewValueFor
<1> QED
  BY <1>1, <1>2, <1>3, <1>4, <1>5, SourcePriority

\* The ledger takes at most 18 more.
LEMMA LedgerPriority ==
  ASSUME NEW base \in 0..100, NEW status \in PrintStatus
  PROVE  /\ P!PriorityWithLedger(base, status) \in 0..100
         /\ P!PriorityWithLedger(base, status) <= base + 18
<1> DEFINE start == IF status = "already_processed" THEN P!Min({base, 20}) ELSE base
           step == P!PriorityAdjustment[status]
<1>1. start \in Int /\ start <= base
  <2>1. P!Min({base, 20}) = IF base <= 20 THEN base ELSE 20
    <3>1. CASE base <= 20
      BY <3>1, SmallestOf
    <3>2. CASE ~(base <= 20)
      BY <3>2, SmallestOf
    <3> QED
      BY <3>1, <3>2
  <2> QED
    BY <2>1
<1>2. step \in {0, -70, 12, 18, 6, -12}
  BY DEF P!PriorityAdjustment, PrintStatus
<1>3. P!PriorityWithLedger(base, status) = P!Clamp(start + step, 0, 100)
  BY DEF P!PriorityWithLedger
<1> HIDE DEF start, step
<1> DEFINE v == start + step
<1>4. v \in Int /\ v <= base + 18
  BY <1>1, <1>2
<1> HIDE DEF v
<1>5. P!Clamp(v, 0, 100) \in 0..100 /\ P!Clamp(v, 0, 100) = (IF v < 0 THEN 0 ELSE IF v > 100 THEN 100 ELSE v)
  BY <1>4, ClampedTo
<1> QED
  BY <1>3, <1>4, <1>5 DEF v

LEMMA CappedAt ==
  ASSUME NEW v \in Int, NEW hi \in Int
  PROVE  P!Min({hi, v}) \in Int /\ P!Min({hi, v}) <= hi
<1>1. CASE v <= hi
  BY <1>1, SmallestOf
<1>2. CASE ~(v <= hi)
  BY <1>2, SmallestOf
<1> QED
  BY <1>1, <1>2

\* The points of a source of no high value: its priority and a repetition, and what is
\* left of terms, routes, hints.
LEMMA NoisePoints ==
  ASSUME NEW r, NEW f, NEW priority \in 0..75, NEW duplicate,
         r.signals \cap P!HighValueSignals = {}, r.review = "low", r.risks \in Nat, r.novelties \in Nat
  PROVE  P!Score(r, f, priority, duplicate) \in Int /\ P!Score(r, f, priority, duplicate) <= 7550
<1> DEFINE signals == r.signals
           public == signals \cap P!PublicSignals # {}
           research == signals \cap P!ResearchSignals # {}
           workflow == "reusable_workflow" \in signals
           terms == "repeated_terminology" \in signals
           pair == CASE P!ResearchPair(signals) -> 3400
                     [] ~P!ResearchPair(signals) /\ P!CorrectionPair(signals) -> 3000
                     [] OTHER -> IF signals \cap {"external_framework_change", "competitor_change"} # {} THEN 1800
                                 ELSE P!Points(1600, research)
           value == CASE r.review = "high" -> 1500 [] r.review = "medium" -> 600 [] OTHER -> -400
           risks == P!Min({800, r.risks * 300})
           novelty == P!Min({500, r.novelties * 200})
           p1 == P!Points(3500, public)
           p2 == P!Points(1200, "explicit_user_boundary" \in signals)
           p3 == P!Points(2400, "candidate_replay_failed" \in signals)
           p4 == P!Points(1800, "repeated_failure_pattern" \in signals)
           p5 == P!Points(1200, workflow /\ ~public)
           p6 == P!Points(800, terms /\ research)
           p7 == P!Points(200, terms /\ ~research)
           p8 == P!Points(800, P!Cardinality(r.routes) > 1)
           p9 == P!Points(600, duplicate /\ workflow)
           p10 == P!Points(400, duplicate /\ research)
           p11 == P!Points(2000, f.status = "recurring_after_fix")
           p12 == P!Points(2500, f.status = "damping_repeated_to_case")
           p13 == P!Points(novelty, ~public)
           p14 == P!Points(6500, f.status = "already_processed")
           p15 == P!Points(2500, P!NoActionableSignal(r) /\ priority <= 45)
<1>1. P!Score(r, f, priority, duplicate) =
        priority * 42 + p1 + p2 + p3 + p4 + p5 + pair + p6 + p7 + p8 + p9 + p10 + p11 + p12
          + value + risks + p13 - p14 - p15
  BY ZenonT(120) DEF P!Score
<1>2. ~public /\ ~research /\ ~workflow /\ "explicit_user_boundary" \notin signals
      /\ "candidate_replay_failed" \notin signals /\ "repeated_failure_pattern" \notin signals
      /\ signals \cap {"external_framework_change", "competitor_change"} = {}
      /\ ~("user_correction" \in signals)
  BY DEF P!HighValueSignals, P!FailureSignals, P!ResearchSignals
<1>3. ~P!ResearchPair(signals) /\ ~P!CorrectionPair(signals)
  <2>1. signals \cap {"user_correction"} = {}
    BY <1>2
  <2> QED
    BY <1>2, <2>1 DEF P!ResearchPair, P!CorrectionPair, P!Pair
<1>4. pair = 0
  <2> HIDE DEF research, signals
  <2> QED
    BY <1>2, <1>3 DEF P!Points
<1>5. p1 = 0 /\ p2 = 0 /\ p3 = 0 /\ p4 = 0 /\ p5 = 0 /\ p6 = 0 /\ p9 = 0 /\ p10 = 0
  <2> HIDE DEF research, signals, public, workflow, terms
  <2> QED
    BY <1>2 DEF P!Points
<1>6. p7 \in {0, 200} /\ p8 \in {0, 800} /\ p14 \in {0, 6500} /\ p15 \in {0, 2500}
  BY DEF P!Points
<1>7. p11 + p12 \in {0, 2000, 2500} /\ p11 \in {0, 2000} /\ p12 \in {0, 2500}
  BY DEF P!Points
<1>8. value = -400
  OBVIOUS
<1>9. risks \in Int /\ risks <= 800
  <2>1. r.risks * 300 \in Int
    OBVIOUS
  <2> QED
    BY <2>1, CappedAt
<1>10. p13 \in Int /\ p13 <= 500
  <2>2. novelty \in Int /\ novelty <= 500
    <3> DEFINE w == r.novelties * 200
    <3>1. w \in Int /\ 500 \in Int
      OBVIOUS
    <3> HIDE DEF w, public, signals
    <3>2. P!Min({500, w}) \in Int /\ P!Min({500, w}) <= 500
      BY <3>1, CappedAt
    <3> QED
      BY <3>2 DEF w
  <2>3. p13 = novelty \/ p13 = 0
    BY DEF P!Points
  <2> HIDE DEF novelty, p13
  <2> QED
    BY <2>2, <2>3
<1> HIDE DEF pair, value, risks, p1, p2, p3, p4, p5, p6, p7, p8, p9, p10, p11, p12, p13, p14, p15
<1> DEFINE score == P!Score(r, f, priority, duplicate)
<1>11. score = priority * 42 + p7 + p8 + p11 + p12 - 400 + risks + p13 - p14 - p15
  BY <1>1, <1>4, <1>5, <1>6, <1>7, <1>8, <1>9, <1>10
<1> HIDE DEF score
<1>12. score \in Int /\ score <= 7550
  BY <1>6, <1>7, <1>9, <1>10, <1>11
<1> QED
  BY <1>12 DEF score

LEMMA ScorePoints ==
  \A v \in Int : v <= 7550 =>
    LET c == P!Clamp(v, 0, 10000) IN c \in Int /\ c >= 0 /\ c <= 7550
<1> SUFFICES ASSUME NEW v \in Int, v <= 7550
             PROVE  LET c == P!Clamp(v, 0, 10000) IN c \in Int /\ c >= 0 /\ c <= 7550
  OBVIOUS
<1>1. \A hi \in Nat : P!Clamp(v, 0, hi) = IF v < 0 THEN 0 ELSE IF v > hi THEN hi ELSE v
  BY ClampedTo
<1>2. P!Clamp(v, 0, 10000) = IF v < 0 THEN 0 ELSE IF v > 10000 THEN 10000 ELSE v
  BY <1>1
<1> QED
  BY <1>2

LEMMA ScoreRounded == \A v \in Int : v <= 755 => P!Clamp(v, 0, 1000) \in 0..755
<1> SUFFICES ASSUME NEW v \in Int, v <= 755 PROVE P!Clamp(v, 0, 1000) \in 0..755
  OBVIOUS
<1>1. P!Clamp(v, 0, 1000) = IF v < 0 THEN 0 ELSE IF v > 1000 THEN 1000 ELSE v
  BY ClampedTo
<1> QED
  BY <1>1

LEMMA NoiseDecision ==
  ASSUME NEW r, NEW f, NEW priority \in 0..75, NEW duplicate,
         r.signals \cap P!HighValueSignals = {}, r.review = "low", r.risks \in Nat, r.novelties \in Nat
  PROVE  P!DecisionRecord(r, f, priority, duplicate) # "llm_variant_generation_recommended"
<1> DEFINE points == P!Clamp(P!Score(r, f, priority, duplicate), 0, 10000)
           score == P!Clamp((points + 5) \div 10, 0, 1000)
<1>1. points \in Int /\ points <= 7550 /\ points >= 0
  <2> DEFINE v == P!Score(r, f, priority, duplicate)
  <2>1. v \in Int /\ v <= 7550
    BY NoisePoints
  <2> HIDE DEF v
  <2>3. P!Clamp(v, 0, 10000) \in Int /\ P!Clamp(v, 0, 10000) <= 7550 /\ P!Clamp(v, 0, 10000) >= 0
    BY <2>1, ScorePoints
  <2> QED
    BY <2>3 DEF v
<1> HIDE DEF points
<1>2. score \in Int /\ score <= 755
  <2> DEFINE v == (points + 5) \div 10
  <2>1. v \in Int /\ v <= 755
    BY <1>1
  <2> HIDE DEF v
  <2>2. P!Clamp(v, 0, 1000) \in 0..755
    BY <2>1, ScoreRounded
  <2> QED
    BY <2>2 DEF v
<1> DEFINE high == P!ForceHigh(r, f, priority)
<1>3. high = FALSE
  <2>1. /\ r.signals \cap P!PublicSignals = {} /\ "candidate_replay_failed" \notin r.signals
        /\ r.signals \cap {"external_framework_change", "competitor_change"} = {}
        /\ r.signals \cap {"user_correction"} = {}
    BY DEF P!HighValueSignals, P!FailureSignals, P!ResearchSignals
  <2>2. ~P!ResearchPair(r.signals) /\ ~P!CorrectionPair(r.signals)
    BY <2>1 DEF P!ResearchPair, P!CorrectionPair, P!Pair
  <2> QED
    BY <2>1, <2>2 DEF P!ForceHigh
<1> DEFINE level == CASE high \/ score >= 780 -> "high"
                      [] ~high /\ score \in 520..779 -> "medium"
                      [] ~high /\ score \in 280..519 -> "low"
                      [] OTHER -> "none"
<1>4. P!ScoreSource(r, f, priority, duplicate) = IF P!Suppressed(r, f, priority) THEN "none" ELSE level
  BY DEF P!ScoreSource, points
<1>5. level # "high"
  <2> HIDE DEF score, high
  <2>1. ~(high \/ score >= 780)
    BY <1>2, <1>3
  <2> QED
    BY <2>1
<1> DEFINE given == P!ScoreSource(r, f, priority, duplicate)
<1>6. given # "high"
  <2> HIDE DEF level
  <2> QED
    BY <1>4, <1>5
<1>7. P!DecisionRecord(r, f, priority, duplicate) = P!DecisionForLevel(given, r, f)
  BY DEF P!DecisionRecord
<1> HIDE DEF given
<1>8. P!DecisionForLevel(given, r, f) # "llm_variant_generation_recommended"
  BY <1>6 DEF P!DecisionForLevel
<1> QED
  BY <1>7, <1>8

\* An item of the queue: what its source shows, and what the ledger says of the source's
\* fingerprint.
ItemShown(window, prints, i) ==
  \E s \in window, f \in prints :
    /\ f.key = P!Records[s].fingerprint /\ i.source = s.id /\ i.key = f.key
    /\ i.priority = P!PriorityWithLedger(P!Records[s].base, f.status)
    /\ i.downstream = f.downstream /\ i.cites = P!Records[s].cites
    /\ i.signals = P!Records[s].signals /\ i.routes = P!Records[s].routes
    /\ i.decision = P!DecisionRecord(P!Records[s], f, i.priority, s.id \in P!DuplicateSources(window))

LEMMA DigestItems ==
  ASSUME NEW window \in SUBSET WindowSources, NEW known, LedgerKept(known)
  PROVE  \A i \in P!BuildPerceptionDigest(window, known).items :
           ItemShown(window, P!BuildPerceptionDigest(window, known).prints, i)
<1> SUFFICES ASSUME NEW i \in P!BuildPerceptionDigest(window, known).items
             PROVE  ItemShown(window, P!BuildPerceptionDigest(window, known).prints, i)
  OBVIOUS
<1> DEFINE prints == P!BuildPerceptionDigest(window, known).prints
           key(s) == P!Records[s].fingerprint
           group(k) == {s \in window : key(s) = k}
           made == {P!SignalFingerprint(k, group(k), known) : k \in {key(s) : s \in window}}
           of(s) == CHOOSE p \in made : p.key = key(s)
           priority(s, f) == P!PriorityWithLedger(P!Records[s].base, f.status)
           item(s, f) ==
             [source |-> s.id, key |-> P!Records[s].fingerprint, status |-> f.status, priority |-> priority(s, f),
              downstream |-> f.downstream, cites |-> P!Records[s].cites, signals |-> P!Records[s].signals,
              routes |-> P!Records[s].routes,
              decision |-> P!DecisionRecord(P!Records[s], f, priority(s, f), s.id \in P!DuplicateSources(window))]
<1>1. prints = made
  BY DEF P!BuildPerceptionDigest
<1>2. PICK s \in window : i = item(s, of(s))
  <2>1. P!BuildPerceptionDigest(window, known).items = {item(t, of(t)) : t \in window}
    BY DEF P!BuildPerceptionDigest
  <2> HIDE DEF item, of
  <2> QED
    BY <2>1
<1>3. of(s) \in prints /\ of(s).key = key(s)
  <2>0. PrintsShown(window, known, prints)
    BY DigestPrints
  <2> HIDE DEF prints, made
  <2>1. \E p \in prints : p.key = key(s)
    BY <2>0 DEF PrintsShown
  <2> HIDE DEF key
  <2> QED
    BY <1>1, <2>1
<1> DEFINE f == of(s)
<1>4. i = item(s, f)
  BY <1>2
<1> HIDE DEF f, of
<1>5. f \in prints /\ f.key = key(s)
  BY <1>3 DEF f
<1>6. /\ i.source = s.id /\ i.key = key(s) /\ i.priority = priority(s, f) /\ i.downstream = f.downstream
      /\ i.cites = P!Records[s].cites /\ i.signals = P!Records[s].signals /\ i.routes = P!Records[s].routes
      /\ i.decision = P!DecisionRecord(P!Records[s], f, priority(s, f), s.id \in P!DuplicateSources(window))
  <2> DEFINE decision == P!DecisionRecord(P!Records[s], f, priority(s, f), s.id \in P!DuplicateSources(window))
             p == priority(s, f)
  <2>1. i = [source |-> s.id, key |-> P!Records[s].fingerprint, status |-> f.status, priority |-> p,
              downstream |-> f.downstream, cites |-> P!Records[s].cites, signals |-> P!Records[s].signals,
              routes |-> P!Records[s].routes, decision |-> decision]
    BY <1>4
  <2> HIDE DEF decision, p
  <2>2. /\ i.source = s.id /\ i.key = key(s) /\ i.priority = p /\ i.downstream = f.downstream
        /\ i.cites = P!Records[s].cites /\ i.signals = P!Records[s].signals /\ i.routes = P!Records[s].routes
        /\ i.decision = decision
    BY <2>1
  <2> QED
    BY <2>2 DEF decision, p
<1> HIDE DEF prints, item
<1>7. ItemShown(window, prints, i)
  BY <1>5, <1>6 DEF ItemShown
<1> QED
  BY <1>7 DEF prints

\* One item for each source of the window.
LEMMA ItemsCounted ==
  ASSUME NEW window \in SUBSET WindowSources, NEW known, LedgerKept(known)
  PROVE  LET items == P!BuildPerceptionDigest(window, known).items
         IN  Cardinality({i.source : i \in items}) = Cardinality(items)
<1> DEFINE items == P!BuildPerceptionDigest(window, known).items
           key(s) == P!Records[s].fingerprint
           group(k) == {s \in window : key(s) = k}
           made == {P!SignalFingerprint(k, group(k), known) : k \in {key(s) : s \in window}}
           of(s) == CHOOSE p \in made : p.key = key(s)
           priority(s, f) == P!PriorityWithLedger(P!Records[s].base, f.status)
           item(s) ==
             [source |-> s.id, key |-> P!Records[s].fingerprint, status |-> of(s).status,
              priority |-> priority(s, of(s)), downstream |-> of(s).downstream, cites |-> P!Records[s].cites,
              signals |-> P!Records[s].signals, routes |-> P!Records[s].routes,
              decision |-> P!DecisionRecord(P!Records[s], of(s), priority(s, of(s)), s.id \in P!DuplicateSources(window))]
           listed == [s \in window |-> item(s)]
           sources == [i \in items |-> i.source]
           ids == {i.source : i \in items}
<1>1. items = {item(s) : s \in window}
  BY DEF P!BuildPerceptionDigest
<1>2. \A s \in window : item(s).source = s.id
  OBVIOUS
<1> HIDE DEF item
<1>3. IsFiniteSet(items)
  <2>1. listed \in Surjection(window, items)
    BY <1>1 DEF Surjection
  <2>2. IsFiniteSet(window)
    BY DeckAssumption, FS_Subset
  <2> QED
    BY <2>1, <2>2, FS_Surjection
<1> HIDE DEF items
<1>4. sources \in Surjection(items, ids)
  BY DEF Surjection
<1>5. \A i, j \in items : i.source = j.source => i = j
  <2> SUFFICES ASSUME NEW i \in items, NEW j \in items, i.source = j.source PROVE i = j
    OBVIOUS
  <2>1. PICK s \in window, t \in window : i = item(s) /\ j = item(t)
    BY <1>1
  <2>2. s.id = t.id
    BY <1>2, <2>1
  <2>3. s = t
    BY <2>2, DeckAssumption
  <2> QED
    BY <2>1, <2>3
<1>6. sources \in Injection(items, ids)
  BY <1>4, <1>5 DEF Injection, IsInjective, Surjection
<1> HIDE DEF sources, ids
<1>7. Cardinality(ids) = Cardinality(items)
  BY <1>3, <1>4, <1>6, FS_Surjection
<1> QED
  BY <1>7 DEF ids, items

LEMMA PerceivedItems ==
  ASSUME PerceivedIInv, s2 # {}
  PROVE  \E window \in SUBSET WindowSources : \E known :
           /\ LedgerKept(known) /\ s2 = {P!BuildPerceptionDigest(window, known)}
           /\ P!Items = P!BuildPerceptionDigest(window, known).items
<1>1. PICK window \in SUBSET WindowSources : \E known : LedgerKept(known) /\ s2 = {P!BuildPerceptionDigest(window, known)}
  BY DEF PerceivedIInv
<1>2. PICK known : LedgerKept(known) /\ s2 = {P!BuildPerceptionDigest(window, known)}
  BY <1>1
<1> DEFINE d == P!BuildPerceptionDigest(window, known)
<1>3. P!Items = UNION {x.items : x \in {d}}
  BY <1>2 DEF P!Items
<1> HIDE DEF d
<1>4. UNION {x.items : x \in {d}} = d.items
  OBVIOUS
<1> QED
  BY <1>2, <1>3, <1>4 DEF d

LEMMA PerceivedProperties ==
  PerceivedIInv => P!TypeOK /\ P!PublicRiskIsReviewed /\ P!NoiseStaysCheap /\ P!NewEvidenceIsHandedOn
<1> SUFFICES ASSUME PerceivedIInv
             PROVE  P!TypeOK /\ P!PublicRiskIsReviewed /\ P!NoiseStaysCheap /\ P!NewEvidenceIsHandedOn
  OBVIOUS
<1>1. ASSUME NEW k \in DOMAIN s1 PROVE s1[k].status \in {"open", "handled", "damping_only"} /\ s1[k].seen \in 1..MaxSeen
  <2>1. LedgerEntry(s1[k])
    BY DEF PerceivedIInv, LedgerKept
  <2> QED
    BY <2>1 DEF LedgerEntry, LedgerStatus
<1>2. CASE s2 = {}
  <2>1. P!Items = {}
    BY <1>2 DEF P!Items
  <2>2. P!Cardinality({i.source : i \in P!Items}) = P!Cardinality(P!Items)
    <3>1. {i.source : i \in P!Items} = P!Items
      BY <2>1
    <3> QED
      BY <3>1, Zenon
  <2>3. P!NewEvidenceIsHandedOn
    BY <1>2 DEF P!NewEvidenceIsHandedOn
  <2> QED
    BY <1>1, <2>1, <2>2, <2>3 DEF P!TypeOK, P!PublicRiskIsReviewed, P!NoiseStaysCheap
<1>3. CASE s2 # {}
  <2>1. PICK window \in SUBSET WindowSources : \E known :
           /\ LedgerKept(known) /\ s2 = {P!BuildPerceptionDigest(window, known)}
           /\ P!Items = P!BuildPerceptionDigest(window, known).items
    BY <1>3, PerceivedItems
  <2>2. PICK known :
           /\ LedgerKept(known) /\ s2 = {P!BuildPerceptionDigest(window, known)}
           /\ P!Items = P!BuildPerceptionDigest(window, known).items
    BY <2>1
  <2> DEFINE d == P!BuildPerceptionDigest(window, known)
             prints == d.prints
             items == d.items
  <2>3. ASSUME NEW i \in items
        PROVE  \E s \in window, f \in prints :
                 /\ f.key = i.key /\ f.status \in PrintStatus /\ i.downstream = f.downstream
                 /\ P!Records[s] = P!SourceRecord(s)
                 /\ P!Records[s].base \in 0..100 /\ i.signals = P!Records[s].signals /\ i.routes = P!Records[s].routes
                 /\ i.priority = P!PriorityWithLedger(P!Records[s].base, f.status)
                 /\ i.decision = P!DecisionRecord(P!Records[s], f, i.priority, s.id \in P!DuplicateSources(window))
    <3>0. ItemShown(window, prints, i) /\ PrintsShown(window, known, prints)
      BY <2>2, DigestItems, DigestPrints
    <3> HIDE DEF d, prints
    <3>1. PICK s \in window, f \in prints :
           /\ f.key = P!Records[s].fingerprint /\ i.source = s.id /\ i.key = f.key
           /\ i.priority = P!PriorityWithLedger(P!Records[s].base, f.status)
           /\ i.downstream = f.downstream /\ i.cites = P!Records[s].cites
           /\ i.signals = P!Records[s].signals /\ i.routes = P!Records[s].routes
           /\ i.decision = P!DecisionRecord(P!Records[s], f, i.priority, s.id \in P!DuplicateSources(window))
      BY <3>0 DEF ItemShown
    <3>2. f.status \in PrintStatus
      BY <3>0 DEF PrintsShown
    <3>3. P!Records[s] = P!SourceRecord(s)
      BY DEF P!Records
    <3>4. P!Records[s].base \in 0..100
      BY <3>3, RecordFacts
    <3> QED
      BY <3>1, <3>2, <3>3, <3>4
  <2>4. P!TypeOK
    <3>1. \A i \in items : i.priority \in 0..100
      <4> HIDE DEF d
      <4> QED
        BY <2>3, LedgerPriority
    <3>2. P!Cardinality({i.source : i \in P!Items}) = P!Cardinality(P!Items)
      <4>1. Cardinality({i.source : i \in items}) = Cardinality(items)
        BY <2>2, ItemsCounted
      <4> HIDE DEF d
      <4> QED
        BY <2>2, <4>1, PerceivedCardinality DEF d
    <3> HIDE DEF d
    <3>3. P!Items = items
      BY <2>2 DEF d
    <3> QED
      BY <1>1, <3>1, <3>2, <3>3 DEF P!TypeOK
  <2>5. P!PublicRiskIsReviewed
    <3> SUFFICES ASSUME NEW i \in items, i.signals \cap P!PublicSignals # {}
                 PROVE  i.decision \in {"llm_variant_generation_recommended", "suppress_as_already_handled"}
      BY <2>2 DEF P!PublicRiskIsReviewed
    <3>1. PICK s \in window, f \in prints :
                 /\ f.status \in PrintStatus /\ P!Records[s] = P!SourceRecord(s)
                 /\ i.signals = P!Records[s].signals
                 /\ i.priority = P!PriorityWithLedger(P!Records[s].base, f.status)
                 /\ i.decision = P!DecisionRecord(P!Records[s], f, i.priority, s.id \in P!DuplicateSources(window))
      <4> HIDE DEF d
      <4> QED
        BY <2>3
    <3>2. P!Records[s].base = 100
      BY <3>1, PublicRecord
    <3> HIDE DEF d
    <3> QED
      BY <3>1, <3>2, PublicDecision DEF PrintStatus
  <2>6. P!NoiseStaysCheap
    <3> SUFFICES ASSUME NEW i \in items, i.signals \cap P!HighValueSignals = {}, i.routes \subseteq {"ignore", "memory"}
                 PROVE  i.decision # "llm_variant_generation_recommended"
      BY <2>2 DEF P!NoiseStaysCheap
    <3>1. PICK s \in window, f \in prints :
                 /\ f.status \in PrintStatus /\ P!Records[s] = P!SourceRecord(s)
                 /\ i.signals = P!Records[s].signals /\ i.routes = P!Records[s].routes
                 /\ i.priority = P!PriorityWithLedger(P!Records[s].base, f.status)
                 /\ i.decision = P!DecisionRecord(P!Records[s], f, i.priority, s.id \in P!DuplicateSources(window))
      <4> HIDE DEF d
      <4> QED
        BY <2>3
    <3> DEFINE r == P!Records[s]
    <3>2. /\ r.base \in 0..100 /\ r.base <= 57 /\ r.review = "low" /\ r.risks \in Nat /\ r.novelties \in Nat
          /\ r.signals \cap P!HighValueSignals = {}
      <4>1. /\ r.base \in 0..100 /\ r.risks \in Nat /\ r.novelties \in Nat
            /\ r.signals \cap P!HighValueSignals = {} /\ r.routes \subseteq {"ignore", "memory"}
                 => r.base <= 57 /\ r.review = "low"
        BY <3>1, RecordFacts
      <4> QED
        BY <3>1, <4>1
    <3> HIDE DEF r, d
    <3>3. i.priority \in 0..100 /\ i.priority <= r.base + 18
      BY <3>1, <3>2, LedgerPriority DEF r
    <3>4. i.priority \in 0..75
      BY <3>2, <3>3
    <3>5. i.decision = P!DecisionRecord(r, f, i.priority, s.id \in P!DuplicateSources(window))
      BY <3>1 DEF r
    <3> QED
      BY <3>2, <3>4, <3>5, NoiseDecision
  <2>7. P!NewEvidenceIsHandedOn
    <3> SUFFICES ASSUME NEW i \in items, NEW f \in prints, f.key = i.key, i.cites \cap f.fresh # {}
                 PROVE  /\ i.downstream # {} /\ i.decision # "suppress_as_already_handled"
                        /\ i.cites \cap f.fresh \subseteq f.evidence
      BY <2>2 DEF P!NewEvidenceIsHandedOn
    <3>1. PICK s \in window, g \in prints :
                 /\ g.key = i.key /\ i.downstream = g.downstream
                 /\ i.decision = P!DecisionRecord(P!Records[s], g, i.priority, s.id \in P!DuplicateSources(window))
      <4> HIDE DEF d
      <4> QED
        BY <2>3
    <3>2. /\ f.status \in PrintStatus /\ f.evidence = f.fresh
          /\ f.downstream = P!DownstreamForRecommendation(f.status)
          /\ f.status = "already_processed" => f.fresh = {}
          /\ f = g
      <4>1. PrintsShown(window, known, prints)
        BY <2>2, DigestPrints
      <4> HIDE DEF d, prints
      <4> QED
        BY <3>1, <4>1 DEF PrintsShown
    <3> HIDE DEF d
    <3>3. f.status # "already_processed"
      BY <3>2
    <3>4. f.downstream # {}
      BY <3>2, <3>3 DEF P!DownstreamForRecommendation, PrintStatus
    <3>5. \A level, r : P!DecisionForLevel(level, r, f) # "suppress_as_already_handled"
      BY <3>3 DEF P!DecisionForLevel
    <3>6. i.decision # "suppress_as_already_handled"
      BY <3>1, <3>2, <3>5 DEF P!DecisionRecord
    <3> QED
      BY <3>1, <3>2, <3>4, <3>6
  <2> QED
    BY <2>4, <2>5, <2>6, <2>7
<1> QED
  BY <1>2, <1>3

-----------------------------------------------------------------------------
(* Footprints.  Every side effect is a boundary of some kind, and a        *)
(* boundary or a doubt comes before a lesson, whatever else is signalled.  *)

FootprintIInv ==
  /\ s1 \in F!Footprints /\ s2 \in Seq(FootprintEvents) /\ Len(s2) <= MaxEvents
  /\ s3 = {} \/ s3 = {F!ReviewFootprint(s1, s2)}

LEMMA FootprintInit == F!Init => FootprintIInv
BY DeckAssumption DEF F!Init, FootprintIInv

LEMMA FootprintStep == ASSUME FootprintIInv, F!Next PROVE FootprintIInv'
<1>1. CASE F!Emit
  <2>1. PICK e \in FootprintEvents :
          /\ Len(s2) < MaxEvents /\ s2' = Append(s2, e)
          /\ s3' = {F!ReviewFootprint(s1, Append(s2, e))} /\ s1' = s1
    BY <1>1 DEF F!Emit
  <2>2. s2' \in Seq(FootprintEvents) /\ Len(s2') = Len(s2) + 1
    BY <2>1 DEF FootprintIInv
  <2> QED
    BY <2>1, <2>2, DeckAssumption DEF FootprintIInv
<1>2. CASE F!SeeAgain
  <2>1. /\ s1.occurrences < 2 /\ s1' = [s1 EXCEPT !.occurrences = @ + 1]
        /\ s3' = {F!ReviewFootprint(s1', s2)} /\ s2' = s2
    BY <1>2 DEF F!SeeAgain
  <2>2. s1' \in F!Footprints
    BY <2>1 DEF FootprintIInv, F!Footprints
  <2> QED
    BY <2>1, <2>2 DEF FootprintIInv
<1> QED
  BY <1>1, <1>2 DEF F!Next

FootprintIndicators ==
  {"agents_md_write", "memory_write", "skill_write", "public_send", "runtime_mutation", "context_injection",
   "memory_provider_takeover"}

LEMMA IndicatorsOf == ASSUME NEW es PROVE F!AutoWriteIndicators(es) \subseteq FootprintIndicators
BY DEF F!AutoWriteIndicators, F!When, FootprintIndicators

\* What a route takes: the signals that come first, then evidence.
LEMMA RouteOfFootprint ==
  ASSUME NEW e
  PROVE  /\ F!ClassifyRoute(e).target \in {"memory", "skill", "case", "policy", "damping", "ignore"}
         /\ F!ClassifyRoute(e).target \in {"memory", "skill", "case"} => e.evidence >= 2
         /\ ("explicit_user_boundary" \in e.signals \/ "public_posting_boundary" \in e.signals
               \/ "avoid_overreaction" \in e.signals) => F!ClassifyRoute(e).target \in {"policy", "damping"}
<1>1. \A t, a, s, p, c : F!Route(t, a, s, p, c).target = t
  BY DEF F!Route
<1>2. /\ F!ClassifyRoute(e).target \in {"memory", "skill", "case", "policy", "damping", "ignore"}
      /\ F!ClassifyRoute(e).target \in {"memory", "skill", "case"} => e.evidence >= 2
  BY <1>1 DEF F!ClassifyRoute
<1>3. ASSUME \/ F!HasSignal(e, {"explicit_user_boundary"} \cup F!PolicyBoundarySignals)
             \/ F!HasSignal(e, F!OverreactionSignals)
      PROVE  F!ClassifyRoute(e).target \in {"policy", "damping"}
  <2>1. CASE F!HasSignal(e, {"explicit_user_boundary"} \cup F!PolicyBoundarySignals)
    BY <1>1, <2>1 DEF F!ClassifyRoute
  <2>2. CASE F!HasSignal(e, F!OverreactionSignals) /\ ~F!HasSignal(e, {"explicit_user_boundary"} \cup F!PolicyBoundarySignals)
    <3>1. ~F!HasSignal(e, F!PolicyBoundarySignals)
      BY <2>2 DEF F!HasSignal
    <3> QED
      BY <1>1, <2>2, <3>1 DEF F!ClassifyRoute
  <2> QED
    BY <1>3, <2>1, <2>2
<1>4. /\ ("explicit_user_boundary" \in e.signals \/ "public_posting_boundary" \in e.signals)
           => F!HasSignal(e, {"explicit_user_boundary"} \cup F!PolicyBoundarySignals)
      /\ "avoid_overreaction" \in e.signals => F!HasSignal(e, F!OverreactionSignals)
  BY DEF F!HasSignal, F!OverreactionSignals, F!PolicyBoundarySignals
<1> QED
  BY <1>2, <1>3, <1>4

LEMMA SignalsOfFootprint ==
  ASSUME NEW fp, NEW es, NEW indicators, NEW unproven,
         indicators \subseteq FootprintIndicators
  PROVE  LET signals == F!InferSignals(fp, es, indicators, unproven)
         IN  indicators # {} \/ unproven =>
               \/ "explicit_user_boundary" \in signals \/ "public_posting_boundary" \in signals
               \/ "avoid_overreaction" \in signals
<1> DEFINE own == UNION {F!BoundarySignals(indicators), F!ProvenanceSignals(unproven, indicators),
                         F!FailureSignals(fp, es), F!WorkflowSignals(fp, es, indicators)}
<1>1. F!InferSignals(fp, es, indicators, unproven) = IF own = {} THEN {"single_failure", "avoid_overreaction"} ELSE own
  BY Zenon DEF F!InferSignals
<1>2. F!BoundarySignals(indicators) \subseteq own /\ F!ProvenanceSignals(unproven, indicators) \subseteq own
  OBVIOUS
<1>3. indicators \ {"public_send"} # {} => "explicit_user_boundary" \in F!BoundarySignals(indicators)
  BY DEF F!BoundarySignals, F!When
<1>4. "public_send" \in indicators => "public_posting_boundary" \in F!BoundarySignals(indicators)
  BY DEF F!BoundarySignals, F!When
<1>5. unproven /\ indicators = {} => "avoid_overreaction" \in F!ProvenanceSignals(unproven, indicators)
  BY DEF F!ProvenanceSignals, F!When
<1> HIDE DEF own
<1> QED
  BY <1>1, <1>2, <1>3, <1>4, <1>5

LEMMA ReviewOfFootprint ==
  ASSUME NEW fp, NEW es, NEW r, r = F!ReviewFootprint(fp, es)
  PROVE  /\ r.event = F!FootprintEvent(fp, es)
         /\ r.indicators = F!AutoWriteIndicators({es[i] : i \in 1..Len(es)})
         /\ r.route = F!ClassifyRoute(r.event).target
         /\ r.held = F!ProvenanceHeld(fp, F!SourceRefs({es[i] : i \in 1..Len(es)}))
         /\ r.decision = F!ClassifyDecision(F!SimulateLearningCycle(r.event))
<1> DEFINE event == F!FootprintEvent(fp, es)
           happened == {es[i] : i \in 1..Len(es)}
           trace == F!SimulateLearningCycle(event)
           i1 == F!AutoWriteIndicators(happened)
           h1 == F!ProvenanceHeld(fp, F!SourceRefs(happened))
           d1 == F!ClassifyDecision(trace)
           w1 == "avoid_overreaction" \in event.signals
<1>1. r = [indicators |-> i1, event |-> event, route |-> trace.route.target, held |-> h1, decision |-> d1, warned |-> w1]
  BY Zenon DEF F!ReviewFootprint
<1>2. trace.route = F!ClassifyRoute(event)
  BY DEF F!SimulateLearningCycle
<1> HIDE DEF event, trace, i1, h1, d1, w1
<1>3. r.event = event /\ r.indicators = i1 /\ r.route = trace.route.target /\ r.held = h1 /\ r.decision = d1
  BY <1>1
<1> QED
  BY <1>2, <1>3 DEF event, trace, i1, h1, d1

LEMMA FootprintProperties ==
  FootprintIInv => /\ F!TypeOK /\ F!SideEffectsNeverPromote /\ F!UnprovenNeverPromotes
                   /\ F!OneFootprintNeverPromotes /\ F!ExternalAloneIsHeld
<1> SUFFICES ASSUME FootprintIInv
             PROVE  /\ F!TypeOK /\ F!SideEffectsNeverPromote /\ F!UnprovenNeverPromotes
                    /\ F!OneFootprintNeverPromotes /\ F!ExternalAloneIsHeld
  OBVIOUS
<1> DEFINE happened == {s2[i] : i \in 1..Len(s2)}
           indicators == F!AutoWriteIndicators(happened)
           refs == F!SourceRefs(happened)
           unproven == F!ProvenanceHeld(s1, refs)
<1>1. ASSUME NEW r \in s3
      PROVE  /\ r.event.signals = F!InferSignals(s1, s2, indicators, unproven)
             /\ r.event.evidence = s1.occurrences
             /\ r.event.risk = F!FootprintRisk(happened, indicators)
             /\ r.event.refs = {"external"} \cup (refs \cap {"internal"})
             /\ r.indicators = indicators /\ r.held = unproven
             /\ r.route = F!ClassifyRoute(r.event).target
             /\ r.decision = F!ClassifyDecision(F!SimulateLearningCycle(r.event))
  <2>1. r = F!ReviewFootprint(s1, s2)
    BY <1>1 DEF FootprintIInv
  <2>2. r.event = [signals |-> F!InferSignals(s1, s2, indicators, unproven),
           evidence |-> F!EvidenceCount(s1, s2), risk |-> F!FootprintRisk(happened, indicators),
           channel |-> "local", toolErrors |-> F!ToolErrors(s2) # {},
           refs |-> {"external"} \cup (refs \cap {"internal"})]
    <3>1. r.event = F!FootprintEvent(s1, s2)
      BY <2>1, ReviewOfFootprint
    <3> QED
      BY <3>1, Zenon DEF F!FootprintEvent
  <2> DEFINE te == F!ToolErrors(s2) # {}
  <2>3. r.event = [signals |-> F!InferSignals(s1, s2, indicators, unproven),
           evidence |-> F!EvidenceCount(s1, s2), risk |-> F!FootprintRisk(happened, indicators),
           channel |-> "local", toolErrors |-> te, refs |-> {"external"} \cup (refs \cap {"internal"})]
    BY <2>2
  <2> HIDE DEF te, indicators, unproven, refs, happened
  <2>4. /\ r.event.signals = F!InferSignals(s1, s2, indicators, unproven) /\ r.event.evidence = F!EvidenceCount(s1, s2)
        /\ r.event.risk = F!FootprintRisk(happened, indicators)
        /\ r.event.refs = {"external"} \cup (refs \cap {"internal"})
    BY <2>3
  <2> QED
    BY <2>1, <2>4, ReviewOfFootprint DEF F!EvidenceCount, indicators, unproven, refs, happened
<1>2. indicators \subseteq FootprintIndicators
  BY IndicatorsOf
<1>3. ASSUME NEW r \in s3
      PROVE  (indicators # {} \/ unproven) => r.route \in {"policy", "damping"}
  <2> DEFINE signals == F!InferSignals(s1, s2, indicators, unproven)
  <2>1. r.event.signals = signals /\ r.route = F!ClassifyRoute(r.event).target
    BY <1>1
  <2>2. indicators # {} \/ unproven =>
          \/ "explicit_user_boundary" \in signals \/ "public_posting_boundary" \in signals
          \/ "avoid_overreaction" \in signals
    BY <1>2, SignalsOfFootprint
  <2> HIDE DEF indicators, unproven, signals
  <2> QED
    BY <2>1, <2>2, RouteOfFootprint
<1>4. F!FootprintRisk(happened, indicators) \in {"low", "medium", "high", "critical"}
      /\ (indicators # {}) = (F!FootprintRisk(happened, indicators) \in {"high", "critical"})
  <2> HIDE DEF indicators, happened
  <2>1. CASE indicators = {}
    BY <2>1 DEF F!FootprintRisk
  <2>2. CASE indicators # {} /\ indicators \cap {"public_send", "runtime_mutation", "memory_provider_takeover"} = {}
    BY <1>2, <2>2 DEF F!FootprintRisk, FootprintIndicators
  <2>3. CASE indicators \cap {"public_send", "runtime_mutation", "memory_provider_takeover"} # {}
    <3>1. F!FootprintRisk(happened, indicators) = "critical"
      BY <2>3 DEF F!FootprintRisk
    <3> QED
      BY <2>3, <3>1
  <2> QED
    BY <2>1, <2>2, <2>3
<1>5. F!TypeOK
  <2> SUFFICES ASSUME NEW r \in s3
               PROVE  /\ r.route \in {"memory", "skill", "case", "policy", "damping", "ignore"}
                      /\ r.event.risk \in {"low", "medium", "high", "critical"}
                      /\ (r.indicators # {}) = (r.event.risk \in {"high", "critical"})
    BY DEF F!TypeOK, FootprintIInv
  <2> HIDE DEF indicators, happened, unproven, refs
  <2> QED
    BY <1>1, <1>4, RouteOfFootprint
<1>6. F!SideEffectsNeverPromote /\ F!UnprovenNeverPromotes
  <2> HIDE DEF indicators, happened, unproven, refs
  <2> QED
    BY <1>1, <1>3 DEF F!SideEffectsNeverPromote, F!UnprovenNeverPromotes
<1>7. F!OneFootprintNeverPromotes
  <2>1. s1.occurrences \in 0..2
    BY DEF FootprintIInv, F!Footprints
  <2> HIDE DEF indicators, happened, unproven, refs
  <2> SUFFICES ASSUME NEW r \in s3, s1.occurrences < 2 PROVE r.route \notin {"skill", "case", "memory"}
    BY DEF F!OneFootprintNeverPromotes
  <2>2. ~(r.event.evidence >= 2)
    BY <1>1, <2>1
  <2> QED
    BY <1>1, <2>2, RouteOfFootprint
<1>8. F!ExternalAloneIsHeld
  <2> SUFFICES ASSUME NEW r \in s3, r.decision = "validation_ready", ~\E e \in F!Happened : "internal" \in e.refs
               PROVE  r.route = "case"
    BY DEF F!ExternalAloneIsHeld
  <2>1. "internal" \notin refs
    BY DEF F!Happened, F!SourceRefs
  <2> HIDE DEF indicators, happened, unproven, refs
  <2>2. "external" \in r.event.refs /\ "internal" \notin r.event.refs
    BY <1>1, <2>1
  <2> DEFINE trace == F!SimulateLearningCycle(r.event)
  <2>3. trace.event = r.event /\ trace.route = F!ClassifyRoute(r.event) /\ trace.positive = (trace.route.target # "ignore")
    BY DEF F!SimulateLearningCycle
  <2> HIDE DEF trace
  <2>6. F!ClassifyDecision(trace) = "validation_ready"
    BY <1>1 DEF trace
  <2>4. /\ trace.route.target # "damping" /\ ~F!BlocksExternalFootprintPromotion(trace) /\ trace.positive
    BY <2>6 DEF F!ClassifyDecision
  <2>5. trace.route.target \notin F!ExternalPromotionRoutes
    BY <2>2, <2>3, <2>4 DEF F!BlocksExternalFootprintPromotion
  <2> QED
    BY <1>1, <2>3, <2>4, <2>5, RouteOfFootprint DEF F!ExternalPromotionRoutes
<1> QED
  BY <1>5, <1>6, <1>7, <1>8

-----------------------------------------------------------------------------
(* The learning pipeline.  A lesson of a route has signals of that route's *)
(* only; the loop, which has rules of its own, can tell a skill by one     *)
(* signal, and only lessons of the skill route or of a whole window have   *)
(* it.                                                                     *)

LearningIInv ==
  /\ s1 \in L!Windowed(Seq(LessonTurns)) /\ Len(s1.turns) <= MaxTurns /\ L!AtMostOne(s1.evidence)
  /\ s2 = {} \/ \E f \in LessonFixtures : s2 = {f}
  /\ s3 = L!SimulateMisaLearning(s1, s2)

LEMMA LearningInit == L!Init => LearningIInv
<1> SUFFICES ASSUME L!Init PROVE LearningIInv
  OBVIOUS
<1>1. s1 \in LessonWindows /\ s2 = {} /\ s3 = L!SimulateMisaLearning(s1, s2)
  BY DEF L!Init
<1>2. s1 \in L!Windowed({<<>>}) /\ L!AtMostOne(s1.evidence) /\ MaxTurns \in Nat
  BY <1>1, DeckAssumption DEF L!PipelineAssumption
<1>3. s1.turns = <<>> /\ s1 \in L!Windowed(Seq(LessonTurns))
  <2>1. {<<>>} \subseteq Seq(LessonTurns)
    OBVIOUS
  <2>2. \A small, large : small \subseteq large => L!Windowed(small) \subseteq L!Windowed(large)
    BY DEF L!Windowed
  <2>3. s1.turns \in {<<>>}
    BY <1>2 DEF L!Windowed
  <2> QED
    BY <1>2, <2>1, <2>2, <2>3
<1> QED
  BY <1>1, <1>2, <1>3 DEF LearningIInv

LEMMA LearningStep == ASSUME LearningIInv, L!Next PROVE LearningIInv'
<1>1. ASSUME NEW t \in LessonTurns, L!Say(t) PROVE LearningIInv'
  <2>1. /\ Len(s1.turns) < MaxTurns /\ s1' = [s1 EXCEPT !.turns = Append(@, t)]
        /\ s3' = L!SimulateMisaLearning(s1', s2) /\ s2' = s2
    BY <1>1 DEF L!Say
  <2>2. Append(s1.turns, t) \in Seq(LessonTurns) /\ Len(Append(s1.turns, t)) = Len(s1.turns) + 1
        /\ Len(s1.turns) \in Nat
    BY DEF LearningIInv, L!Windowed
  <2>3. s1'.turns = Append(s1.turns, t) /\ s1' \in L!Windowed(Seq(LessonTurns)) /\ s1'.evidence = s1.evidence
    BY <2>1, <2>2 DEF LearningIInv, L!Windowed
  <2>4. Len(s1'.turns) <= MaxTurns
    BY <2>1, <2>2, <2>3, DeckAssumption DEF L!PipelineAssumption
  <2> QED
    BY <2>1, <2>3, <2>4 DEF LearningIInv
<1>2. ASSUME NEW f \in LessonFixtures, L!AddFixture(f) PROVE LearningIInv'
  <2>1. s1' = s1 /\ s2' = {f} /\ s3' = L!SimulateMisaLearning(s1, {f})
    BY <1>2 DEF L!AddFixture
  <2> QED
    BY <2>1 DEF LearningIInv
<1> QED
  BY <1>1, <1>2 DEF L!Next

LEMMA LearnedCardinality == \A set : L!Cardinality(set) = Cardinality(set) /\ (L!IsFiniteSet(set) <=> IsFiniteSet(set))
BY DEF L!Cardinality, Cardinality, L!IsFiniteSet, IsFiniteSet

LEMMA GreatestIn ==
  ASSUME NEW set, NEW m \in set, \A y \in set : m >= y
  PROVE  L!Max(set) \in set /\ \A y \in set : L!Max(set) >= y
<1>1. L!Max(set) = CHOOSE x \in set : \A y \in set : x >= y
  BY DEF L!Max
<1> QED
  BY <1>1

\* The count that is given, or the larger of the two that are made.
LEMMA CountedEvidence ==
  ASSUME NEW a \in Nat, NEW b \in Nat, NEW given, given \subseteq Nat, L!AtMostOne(given)
  PROVE  /\ L!Max({a, b} \cup given) \in Nat /\ L!Max({a, b} \cup given) >= a
         /\ given # {} => L!Max(given) \in given
<1> DEFINE set == {a, b} \cup given
<1>1. \E m \in set : \A y \in set : m >= y
  <2>1. CASE given = {}
    <3>1. set = {a, b}
      BY <2>1
    <3>2. CASE a >= b
      BY <3>1, <3>2
    <3>3. CASE b >= a
      BY <3>1, <3>3
    <3> QED
      BY <3>2, <3>3
  <2>2. CASE given # {}
    <3>1. PICK c \in Nat : given = {c}
      BY <2>2 DEF L!AtMostOne
    <3>2. set = {a, b, c}
      BY <3>1
    <3>3. CASE a >= b /\ a >= c
      BY <3>2, <3>3
    <3>4. CASE b >= a /\ b >= c
      BY <3>2, <3>4
    <3>5. CASE c >= a /\ c >= b
      BY <3>2, <3>5
    <3> QED
      BY <3>3, <3>4, <3>5
  <2> QED
    BY <2>1, <2>2
<1>2. set \subseteq Nat /\ a \in set
  OBVIOUS
<1> HIDE DEF set
<1>3. L!Max(set) \in set /\ \A y \in set : L!Max(set) >= y
  BY <1>1, GreatestIn
<1>4. ASSUME given # {} PROVE L!Max(given) \in given
  <2>0. PICK c \in Nat : given = {c}
    BY <1>4 DEF L!AtMostOne
  <2>1. c \in given /\ \A y \in given : c >= y
    BY <2>0
  <2> QED
    BY <2>1, GreatestIn
<1> QED
  BY <1>2, <1>3, <1>4 DEF set

LEMMA LearntSegments ==
  ASSUME NEW s, s.turns \in Seq(LessonTurns)
  PROVE  IsFiniteSet(DOMAIN L!BuildSegments(s)) /\ DOMAIN L!BuildSegments(s) # {}
<1> DEFINE turns == IF s.turns = <<>> THEN <<[matches |-> {}, denies |-> FALSE, secret |-> FALSE]>> ELSE s.turns
<1>1. DOMAIN L!BuildSegments(s) = DOMAIN turns
  BY DEF L!BuildSegments
<1>2. \E n \in Nat \ {0} : DOMAIN turns = 1..n
  <2>1. CASE s.turns = <<>>
    <3>1. DOMAIN turns = 1..1
      BY <2>1
    <3> HIDE DEF turns
    <3> QED
      BY <3>1
  <2>2. CASE s.turns # <<>>
    <3>1. DOMAIN turns = 1..Len(s.turns) /\ Len(s.turns) \in Nat \ {0}
      BY <2>2
    <3> HIDE DEF turns
    <3> QED
      BY <3>1
  <2> QED
    BY <2>1, <2>2
<1> HIDE DEF turns
<1>3. PICK n \in Nat \ {0} : DOMAIN turns = 1..n
  BY <1>2
<1>4. IsFiniteSet(1..n) /\ 1 \in 1..n
  BY FS_Interval
<1> QED
  BY <1>1, <1>3, <1>4

LEMMA LearntSignals ==
  ASSUME NEW r \in L!LessonRoutes, NEW signals, NEW segments
  PROVE  /\ L!LessonSignalsFor(r, signals, segments) \subseteq L!LessonAllowedSignals[r]
         /\ L!Of(L!LessonSignalsFor(r, signals, segments), r)
         /\ IsFiniteSet(L!LessonSignalsFor(r, signals, segments))
<1> DEFINE cut == ((UNION segments) \cup signals) \cap L!LessonAllowedSignals[r]
<1>1. L!LessonSignalsFor(r, signals, segments) = IF L!Of(cut, r) THEN cut ELSE cut \cup {L!LessonFallbackSignal[r]}
  BY DEF L!LessonSignalsFor
<1>2. L!LessonFallbackSignal[r] \in L!LessonRouteSignals[r] /\ L!LessonRouteSignals[r] \subseteq L!LessonAllowedSignals[r]
  BY DEF L!LessonRoutes, L!LessonFallbackSignal, L!LessonRouteSignals, L!LessonAllowedSignals
<1>3. L!Of(cut \cup {L!LessonFallbackSignal[r]}, r)
  <2> HIDE DEF cut
  <2> QED
    BY <1>2 DEF L!Of, L!HasAnySignal
<1>4. IsFiniteSet(L!LessonAllowedSignals[r])
  <2> DEFINE all == {"explicit_user_boundary", "public_posting_boundary", "farcaster_public_memory_risk"}
                    \cup {"candidate_replay_failed", "avoid_overreaction", "single_failure"}
                    \cup {"reusable_workflow", "external_framework_change", "competitor_change"}
                    \cup {"repeated_failure_pattern", "knowledge_gap", "research_needed"} \cup {"user_correction"}
                    \cup {"stable_user_preference", "stable_project_fact", "repeated_terminology"}
  <2>0. \A x, y, z : IsFiniteSet({x, y, z}) /\ IsFiniteSet({x})
    <3> TAKE x, y, z
    <3>1. IsFiniteSet({x}) /\ IsFiniteSet({y}) /\ IsFiniteSet({z})
      BY FS_Singleton
    <3>2. IsFiniteSet({y} \cup {z})
      BY <3>1, FS_Union
    <3>3. IsFiniteSet({x} \cup ({y} \cup {z}))
      BY <3>1, <3>2, FS_Union
    <3>4. {x, y, z} = {x} \cup ({y} \cup {z})
      OBVIOUS
    <3> QED
      BY <3>1, <3>3, <3>4
  <2>1. IsFiniteSet(all)
    BY <2>0, FS_Union
  <2>2. L!LessonAllowedSignals[r] \subseteq all
    BY DEF L!LessonRoutes, L!LessonRouteSignals, L!LessonAllowedSignals
  <2> QED
    BY <2>1, <2>2, FS_Subset
<1>5. cut \subseteq L!LessonAllowedSignals[r]
  OBVIOUS
<1> HIDE DEF cut
<1>6. L!LessonSignalsFor(r, signals, segments) \subseteq L!LessonAllowedSignals[r]
  BY <1>1, <1>2, <1>5
<1> QED
  BY <1>1, <1>3, <1>4, <1>6, FS_Subset

\* A lesson of a route has that route's signals only, and a skill lesson comes of clean
\* segments only; the other lesson is the whole window, with no more evidence than the
\* window claims.
LEMMA LearntLesson ==
  ASSUME NEW s, s.turns \in Seq(LessonTurns), s.evidence \subseteq Nat \ {0}, L!AtMostOne(s.evidence),
         NEW l \in L!BuildAtomicLessons(s)
  PROVE  /\ l.expectedRoute \in {"policy", "damping", "case", "skill", "memory", "ignore"}
         /\ l.evidence \in Nat \ {0}
         /\ \/ \E r \in L!LessonRoutes :
                  /\ l.signals \subseteq L!LessonAllowedSignals[r]
                  /\ r = "skill" => \A i \in l.from : ~L!OutOfRoute(L!BuildSegments(s)[i], "skill")
            \/ /\ l.signals = {"unsupported_signal"} \/ l.signals = L!SourceSignals(s)
               /\ l.evidence = 1 \/ l.evidence \in s.evidence
               /\ l.from = DOMAIN L!BuildSegments(s)
<1> DEFINE segments == L!BuildSegments(s)
           signals == L!SourceSignals(s)
           supporting(r) == {i \in DOMAIN segments : L!SegmentSupportsLessonRoute(segments[i], r)}
           from(r) == IF supporting(r) # {} THEN supporting(r) ELSE DOMAIN segments
           kept(r) == L!LessonSignalsFor(r, signals, {segments[i] : i \in from(r)})
           routes == {r \in L!LessonRoutes :
                        /\ supporting(r) # {} \/ L!SourceLevelFallbackAllowed(signals, r)
                        /\ L!ExpectedRouteFor(kept(r)) = r}
           count(r) == L!LessonEvidenceCountFor(r, s, L!Cardinality(from(r)), kept(r))
           lesson(r) == L!BuildLearningEvent(s, r, from(r), kept(r), count(r),
              L!LessonRiskFor(r, s, kept(r)), L!LessonArtifactEvidenceFor(r, s))
           ignored == IF signals = {} THEN {"unsupported_signal"} ELSE signals
           given == IF s.evidence = {} THEN 1 ELSE L!Max(s.evidence)
<1>1. ASSUME NEW x, NEW r, NEW f, NEW k, NEW e, NEW n, NEW a, x = L!BuildLearningEvent(s, r, f, k, e, n, a)
      PROVE  /\ x.signals = k /\ x.evidence = e /\ x.from = f
             /\ x.expectedRoute \in {"policy", "damping", "case", "skill", "memory", "ignore"}
  BY <1>1 DEF L!BuildLearningEvent, L!ExpectedRouteFor
<1>2. CASE routes # {}
  <2>1. L!BuildAtomicLessons(s) = {lesson(r) : r \in routes}
    BY <1>2 DEF L!BuildAtomicLessons
  <2>2. PICK r \in routes : l = lesson(r)
    <3> HIDE DEF lesson, routes
    <3> QED
      BY <2>1
  <2>3. r \in L!LessonRoutes /\ (supporting(r) # {} \/ L!SourceLevelFallbackAllowed(signals, r))
    OBVIOUS
  <2>4. /\ l.signals = kept(r) /\ l.evidence = count(r) /\ l.from = from(r)
        /\ l.expectedRoute \in {"policy", "damping", "case", "skill", "memory", "ignore"}
    <3> HIDE DEF kept, from, count
    <3> QED
      BY <1>1, <2>2
  <2>5. kept(r) \subseteq L!LessonAllowedSignals[r] /\ IsFiniteSet(kept(r))
    <3> HIDE DEF signals, segments, from
    <3> QED
      BY <2>3, LearntSignals
  <2>6. count(r) \in Nat \ {0}
    <3>1. IsFiniteSet(from(r))
      BY LearntSegments, FS_Subset
    <3> HIDE DEF from, kept
    <3>2. L!Cardinality(from(r)) \in Nat /\ L!Cardinality(kept(r)) \in Nat
      BY <3>1, <2>5, LearnedCardinality, FS_CardinalityType
    <3> DEFINE least == IF r = "damping" THEN 1 ELSE 2
               made == L!Cardinality(from(r)) + L!Cardinality(kept(r))
    <3>3. count(r) = L!Max({least, made} \cup s.evidence)
      BY DEF L!LessonEvidenceCountFor
    <3>4. least \in Nat \ {0} /\ made \in Nat
      BY <3>2
    <3> HIDE DEF least, made, count
    <3>5. L!Max({least, made} \cup s.evidence) \in Nat /\ L!Max({least, made} \cup s.evidence) >= least
      BY <3>4, CountedEvidence
    <3> QED
      BY <3>3, <3>4, <3>5
  <2>7. ASSUME r = "skill", NEW i \in from(r) PROVE ~L!OutOfRoute(segments[i], "skill")
    <3>1. CASE supporting(r) # {}
      BY <2>7, <3>1 DEF L!SegmentSupportsLessonRoute
    <3>2. CASE supporting(r) = {}
      <4>1. L!SourceLevelFallbackAllowed(signals, "skill") /\ i \in DOMAIN segments
        BY <2>3, <2>7, <3>2
      <4>2. ~L!OutOfRoute(signals, "skill")
        <5> HIDE DEF signals
        <5> QED
          BY <4>1 DEF L!SourceLevelFallbackAllowed
      <4>3. segments[i] \subseteq signals
        BY <4>1 DEF L!SourceSignals
      <4> HIDE DEF segments, signals
      <4> QED
        BY <4>2, <4>3 DEF L!OutOfRoute, L!Of, L!HasAnySignal
    <3> QED
      BY <3>1, <3>2
  <2> HIDE DEF segments, kept, from, count, routes
  <2> QED
    BY <2>3, <2>4, <2>5, <2>6, <2>7 DEF segments
<1>3. CASE routes = {}
  <2>1. PICK n, a : l = L!BuildLearningEvent(s, "ignore", DOMAIN segments, ignored, given, n, a)
    BY <1>3 DEF L!BuildAtomicLessons
  <2>2. /\ l.signals = ignored /\ l.evidence = given /\ l.from = DOMAIN segments
        /\ l.expectedRoute \in {"policy", "damping", "case", "skill", "memory", "ignore"}
    <3> HIDE DEF ignored, segments, given
    <3> QED
      BY <1>1, <2>1
  <2>3. given = 1 \/ given \in s.evidence
    <3>1. s.evidence \subseteq Nat
      OBVIOUS
    <3> QED
      BY <3>1, CountedEvidence
  <2> HIDE DEF signals, segments, given
  <2> QED
    BY <2>2, <2>3 DEF signals, segments
<1> QED
  BY <1>2, <1>3

\* A boundary anywhere in the window has a lesson of its own, with no other lane in it.
LEMMA LearntPolicy ==
  ASSUME NEW s, L!Of(L!SourceSignals(s), "policy")
  PROVE  \E l \in L!BuildAtomicLessons(s) :
           /\ l.expectedRoute = "policy" /\ l.signals \subseteq L!LessonAllowedSignals["policy"]
           /\ L!Of(l.signals, "policy")
<1> DEFINE segments == L!BuildSegments(s)
           signals == L!SourceSignals(s)
           supporting(r) == {i \in DOMAIN segments : L!SegmentSupportsLessonRoute(segments[i], r)}
           from(r) == IF supporting(r) # {} THEN supporting(r) ELSE DOMAIN segments
           kept(r) == L!LessonSignalsFor(r, signals, {segments[i] : i \in from(r)})
           routes == {r \in L!LessonRoutes :
                        /\ supporting(r) # {} \/ L!SourceLevelFallbackAllowed(signals, r)
                        /\ L!ExpectedRouteFor(kept(r)) = r}
           lesson(r) == L!BuildLearningEvent(s, r, from(r), kept(r),
              L!LessonEvidenceCountFor(r, s, L!Cardinality(from(r)), kept(r)),
              L!LessonRiskFor(r, s, kept(r)), L!LessonArtifactEvidenceFor(r, s))
           own == kept("policy")
<1>1. "policy" \in L!LessonRoutes
  BY DEF L!LessonRoutes, L!LessonRouteSignals
<1>2. own \subseteq L!LessonAllowedSignals["policy"] /\ L!Of(own, "policy")
  <2> HIDE DEF signals, segments, from
  <2> QED
    BY <1>1, LearntSignals
<1>3. L!ExpectedRouteFor(own) = "policy"
  <2> HIDE DEF own
  <2>1. "candidate_replay_failed" \notin own /\ ~L!HasAnySignal(own, {"avoid_overreaction", "single_failure"})
    BY <1>2 DEF L!LessonAllowedSignals, L!LessonRouteSignals, L!HasAnySignal
  <2> QED
    BY <1>2, <2>1 DEF L!ExpectedRouteFor
<1>4. L!SourceLevelFallbackAllowed(signals, "policy")
  <2> HIDE DEF signals
  <2>1. L!Of(signals, "policy")
    BY DEF signals
  <2> QED
    BY <2>1 DEF L!SourceLevelFallbackAllowed, L!OutOfRoute
<1>5. "policy" \in routes
  BY <1>1, <1>3, <1>4
<1>6. lesson("policy") \in L!BuildAtomicLessons(s)
  <2>1. routes # {} => L!BuildAtomicLessons(s) = {lesson(r) : r \in routes}
    BY DEF L!BuildAtomicLessons
  <2> HIDE DEF lesson, routes
  <2> QED
    BY <1>5, <2>1
<1>7. lesson("policy").expectedRoute = L!ExpectedRouteFor(own) /\ lesson("policy").signals = own
  BY DEF L!BuildLearningEvent
<1> HIDE DEF lesson, own
<1> QED
  BY <1>2, <1>3, <1>6, <1>7

LEMMA TracedLesson ==
  ASSUME NEW e, NEW t, t = L!SimulateLearningCycle(e)
  PROVE  t.event = e /\ t.route = L!ClassifyRoute(e) /\ t.positive = (t.route.target # "ignore")
BY DEF L!SimulateLearningCycle

LEMMA LearntTraces ==
  ASSUME LearningIInv, NEW t \in s3
  PROVE  \/ t.event \in L!BuildAtomicLessons(s1) /\ t = L!SimulateLearningCycle(t.event)
         \/ \E f \in LessonFixtures : s2 = {f} /\ t.event = L!FixtureEvent(f) /\ t = L!SimulateLearningCycle(t.event)
<1> DEFINE fixed == {e \in {L!FixtureEvent(f) : f \in s2} : e.signals # {}}
<1>1. PICK e \in L!BuildAtomicLessons(s1) \cup fixed : t = L!SimulateLearningCycle(e)
  BY DEF LearningIInv, L!SimulateMisaLearning
<1>2. t.event = e
  BY <1>1, TracedLesson
<1>3. CASE e \in fixed
  <2>1. PICK f \in s2 : e = L!FixtureEvent(f)
    BY <1>3
  <2>2. f \in LessonFixtures /\ s2 = {f}
    BY <2>1 DEF LearningIInv
  <2> QED
    BY <1>1, <1>2, <2>1, <2>2
<1> HIDE DEF fixed
<1> QED
  BY <1>1, <1>2, <1>3

LEMMA LessonTraced ==
  ASSUME LearningIInv, NEW e \in L!BuildAtomicLessons(s1)
  PROVE  L!SimulateLearningCycle(e) \in s3
BY DEF LearningIInv, L!SimulateMisaLearning

\* The route of the loop: its rules in the order of their precedence.
LEMMA LoopRoute ==
  ASSUME NEW e
  PROVE  LET route == L!ClassifyRoute(e) IN
         /\ route.target \in {"memory", "skill", "case", "policy", "damping", "ignore"}
         /\ route.target = "skill" =>
              /\ "reusable_workflow" \in e.signals /\ e.evidence >= 2
              /\ ~L!Of(e.signals, "policy") /\ ~L!Of(e.signals, "damping")
         /\ "candidate_replay_failed" \notin e.signals /\ ~L!HasSignal(e, L!OverreactionSignals) /\ L!Of(e.signals, "policy")
              => route.target = "policy" /\ route.status = "requires_approval"
<1>1. \A t, a, s, p, c : L!Route(t, a, s, p, c).target = t /\ L!Route(t, a, s, p, c).status = s
  BY DEF L!Route
<1>2. L!ClassifyRoute(e).target \in {"memory", "skill", "case", "policy", "damping", "ignore"}
  BY <1>1 DEF L!ClassifyRoute
<1>3. /\ L!HasSignal(e, {"candidate_replay_failed"}) <=> "candidate_replay_failed" \in e.signals
      /\ L!HasSignal(e, {"reusable_workflow"}) <=> "reusable_workflow" \in e.signals
  BY DEF L!HasSignal
<1>4. /\ L!Of(e.signals, "policy") => L!HasSignal(e, {"explicit_user_boundary"} \cup L!PolicyBoundarySignals)
      /\ L!Of(e.signals, "damping") => L!HasSignal(e, {"candidate_replay_failed"}) \/ L!HasSignal(e, L!OverreactionSignals)
      /\ L!HasSignal(e, L!PolicyBoundarySignals) => L!HasSignal(e, {"explicit_user_boundary"} \cup L!PolicyBoundarySignals)
  BY DEF L!HasSignal, L!Of, L!HasAnySignal, L!LessonRouteSignals, L!PolicyBoundarySignals, L!OverreactionSignals
<1>5. ASSUME L!ClassifyRoute(e).target = "skill"
      PROVE  /\ "reusable_workflow" \in e.signals /\ e.evidence >= 2
             /\ ~L!Of(e.signals, "policy") /\ ~L!Of(e.signals, "damping")
  <2>1. /\ L!HasSignal(e, {"reusable_workflow"}) /\ e.evidence >= 2
        /\ ~L!HasSignal(e, {"explicit_user_boundary"} \cup L!PolicyBoundarySignals)
        /\ ~L!HasSignal(e, {"candidate_replay_failed"})
        /\ ~(L!HasSignal(e, L!OverreactionSignals) /\ ~L!HasSignal(e, L!PolicyBoundarySignals))
    BY <1>1, <1>5 DEF L!ClassifyRoute
  <2> QED
    BY <1>3, <1>4, <2>1
<1>6. ASSUME "candidate_replay_failed" \notin e.signals, ~L!HasSignal(e, L!OverreactionSignals), L!Of(e.signals, "policy")
      PROVE  L!ClassifyRoute(e).target = "policy" /\ L!ClassifyRoute(e).status = "requires_approval"
  BY <1>1, <1>3, <1>4, <1>6 DEF L!ClassifyRoute
<1> QED
  BY <1>2, <1>5, <1>6

LEMMA BoundaryLearnt == LearningIInv => L!BoundaryReachesPolicy
<1> SUFFICES ASSUME LearningIInv, L!Of(L!SourceSignals(s1), "policy")
             PROVE  \E t \in L!Distilled : t.route.target = "policy" /\ t.route.status = "requires_approval"
  BY DEF L!BoundaryReachesPolicy
<1>1. PICK l \in L!BuildAtomicLessons(s1) :
        /\ l.expectedRoute = "policy" /\ l.signals \subseteq L!LessonAllowedSignals["policy"]
        /\ L!Of(l.signals, "policy")
  BY LearntPolicy
<1> DEFINE t == L!SimulateLearningCycle(l)
<1>2. t \in s3 /\ t.event = l /\ t.route = L!ClassifyRoute(l)
  BY LessonTraced, TracedLesson
<1> HIDE DEF t
<1>3. "candidate_replay_failed" \notin l.signals /\ ~L!HasSignal(l, L!OverreactionSignals)
  BY <1>1 DEF L!LessonAllowedSignals, L!LessonRouteSignals, L!HasSignal, L!OverreactionSignals
<1>4. t.route.target = "policy" /\ t.route.status = "requires_approval"
  BY <1>1, <1>2, <1>3, LoopRoute
<1>5. t \in L!Distilled
  BY <1>1, <1>2 DEF L!Distilled, L!Absent
<1> QED
  BY <1>4, <1>5

LEMMA SkillsLearnt == LearningIInv => L!SkillSegmentsAreClean
<1> DEFINE segments == L!BuildSegments(s1)
<1> SUFFICES ASSUME LearningIInv, NEW t \in L!Distilled, t.route.target = "skill", NEW i \in t.event.from
             PROVE  /\ ~L!Of(segments[i], "policy") /\ ~L!Of(segments[i], "damping")
                    /\ L!Of(segments[i], "case") => L!PooledWindow(t)
  BY DEF L!SkillSegmentsAreClean
<1>1. t \in s3 /\ t.event.expectedRoute # "absent"
  BY DEF L!Distilled, L!Absent
<1>2. t.event \in L!BuildAtomicLessons(s1) /\ t.route = L!ClassifyRoute(t.event)
  <2>1. \A f : L!FixtureEvent(f).expectedRoute = "absent"
    BY DEF L!FixtureEvent, L!Absent
  <2> QED
    BY <1>1, <2>1, LearntTraces, TracedLesson
<1> DEFINE l == t.event
<1>3. /\ "reusable_workflow" \in l.signals /\ l.evidence >= 2
      /\ ~L!Of(l.signals, "policy") /\ ~L!Of(l.signals, "damping")
  BY <1>2, LoopRoute
<1>4. \/ \E r \in L!LessonRoutes :
            /\ l.signals \subseteq L!LessonAllowedSignals[r]
            /\ r = "skill" => \A j \in l.from : ~L!OutOfRoute(segments[j], "skill")
      \/ /\ l.signals = {"unsupported_signal"} \/ l.signals = L!SourceSignals(s1)
         /\ l.evidence = 1 \/ l.evidence \in s1.evidence
         /\ l.from = DOMAIN segments
  BY <1>2, LearntLesson DEF LearningIInv, L!Windowed
<1> HIDE DEF segments, l
<1>5. ASSUME NEW r \in L!LessonRoutes, l.signals \subseteq L!LessonAllowedSignals[r],
             r = "skill" => \A j \in l.from : ~L!OutOfRoute(segments[j], "skill")
      PROVE  ~L!Of(segments[i], "policy") /\ ~L!Of(segments[i], "damping") /\ ~L!Of(segments[i], "case")
  <2>1. r = "skill"
    BY <1>3, <1>5 DEF L!LessonRoutes, L!LessonRouteSignals, L!LessonAllowedSignals
  <2> QED
    BY <1>5, <2>1 DEF L!OutOfRoute, l
<1>6. ASSUME l.signals = {"unsupported_signal"} \/ l.signals = L!SourceSignals(s1),
             l.evidence = 1 \/ l.evidence \in s1.evidence, l.from = DOMAIN segments
      PROVE  ~L!Of(segments[i], "policy") /\ ~L!Of(segments[i], "damping") /\ L!PooledWindow(t)
  <2>1. l.signals = L!SourceSignals(s1) /\ l.evidence \in s1.evidence
    BY <1>3, <1>6
  <2>2. segments[i] \subseteq l.signals
    BY <1>6, <2>1 DEF L!SourceSignals, l, segments
  <2> QED
    BY <1>3, <2>1, <2>2 DEF L!PooledWindow, L!Of, L!HasAnySignal, l
<1> QED
  BY <1>4, <1>5, <1>6

LEMMA ReplaysLearnt == L!FailedReplaysStayLow
<1> SUFFICES ASSUME NEW t \in s3, L!BuildAdaptiveCandidate(t).suppressed
             PROVE  L!BuildQueueItem(t).priority = "low" /\ L!BuildQueueItem(t).state = "rejected_suppression"
  BY DEF L!FailedReplaysStayLow
<1> DEFINE decision == L!BuildAdaptiveCandidate(t).decision
<1>1. decision = L!ClassifyDecision(t) /\ L!SuppressCandidate(t)
  BY DEF L!BuildAdaptiveCandidate
<1>2. decision = "rejected"
  BY <1>1 DEF L!ClassifyDecision
<1>3. L!BuildQueueItem(t).priority = L!PriorityFor(t, decision) /\ L!BuildQueueItem(t).state = L!QueueStateFor(decision)
  BY DEF L!BuildQueueItem
<1> HIDE DEF decision
<1> QED
  BY <1>2, <1>3 DEF L!PriorityFor, L!QueueStateFor

LEMMA LeastIn ==
  ASSUME NEW set, NEW m \in set, \A y \in set : m <= y
  PROVE  L!Min(set) \in set /\ \A y \in set : L!Min(set) <= y
<1>1. L!Min(set) = CHOOSE x \in set : \A y \in set : x <= y
  BY DEF L!Min
<1> QED
  BY <1>1

\* What a fixture's text is evidence of: at least one thing where there is a signal, at
\* most four, and no more than there are patterns and errors.
LEMMA EvidenceOfHits ==
  ASSUME NEW hits, IsFiniteSet(hits)
  PROVE  /\ L!EvidenceCountFor(0, hits) \in Nat
         /\ Cardinality(hits) <= 1 => L!EvidenceCountFor(0, hits) <= 1
<1> DEFINE n == L!Cardinality(hits)
           least == L!Min({4, n})
<1>1. n \in Nat /\ n = Cardinality(hits)
  BY LearnedCardinality, FS_CardinalityType
<1>2. L!EvidenceCountFor(0, hits) = L!Max({1, least})
  BY DEF L!EvidenceCountFor
<1> HIDE DEF n
<1>3. least \in {4, n} /\ least <= n
  <2>1. \E m \in {4, n} : \A y \in {4, n} : m <= y
    BY <1>1
  <2> QED
    BY <2>1, LeastIn
<1> HIDE DEF least
<1>4. least \in Nat
  BY <1>1, <1>3
<1>5. L!Max({1, least}) \in {1, least}
  <2>1. \E m \in {1, least} : \A y \in {1, least} : m >= y
    BY <1>4
  <2> QED
    BY <2>1, GreatestIn
<1> QED
  BY <1>1, <1>2, <1>3, <1>4, <1>5

LEMMA HitsOfText ==
  ASSUME NEW rule, NEW text, NEW toolErrors
  PROVE  L!RuleMatches(rule, text, toolErrors) \subseteq ({"pattern"} \X text) \cup ({"tool_error"} \X toolErrors)
<1> DEFINE hits == {<<"pattern", p>> : p \in rule.patterns \cap text}
                   \cup {<<"tool_error", e>> : e \in rule.errors \cap toolErrors}
<1>1. L!RuleMatches(rule, text, toolErrors) = {} \/ L!RuleMatches(rule, text, toolErrors) = hits
  BY Zenon DEF L!RuleMatches
<1>2. hits \subseteq ({"pattern"} \X text) \cup ({"tool_error"} \X toolErrors)
  OBVIOUS
<1> HIDE DEF hits
<1> QED
  BY <1>1, <1>2

LEMMA EvidenceOfFixture ==
  ASSUME NEW f \in LessonFixtures
  PROVE  /\ L!FixtureEvent(f).expectedRoute = "absent"
         /\ L!FixtureEvent(f).evidence \in Nat
         /\ f.given = {} /\ f.toolErrors = {} /\ Cardinality(f.text) <= 1 => L!FixtureEvent(f).evidence <= 1
<1> DEFINE extraction == L!ExtractSignalsFromSession(LessonRules, f.text, f.toolErrors, 0)
           hits(rule) == L!RuleMatches(rule, f.text, f.toolErrors)
           matched == {rule \in LessonRules : hits(rule) # {}}
           all == UNION {hits(r) : r \in matched}
           whole == ({"pattern"} \X f.text) \cup ({"tool_error"} \X f.toolErrors)
<1>1. /\ IsFiniteSet(f.text) /\ IsFiniteSet(f.toolErrors) /\ f.given \subseteq Nat /\ L!AtMostOne(f.given)
  BY DeckAssumption, LearnedCardinality DEF L!PipelineAssumption
<1>2. all \subseteq whole
  BY HitsOfText
<1>3. IsFiniteSet(whole)
  BY <1>1, FS_Product, FS_Singleton, FS_Union
<1>4. f.toolErrors = {} /\ Cardinality(f.text) <= 1 => Cardinality(all) <= 1
  <2> SUFFICES ASSUME f.toolErrors = {}, Cardinality(f.text) <= 1 PROVE Cardinality(all) <= 1
    OBVIOUS
  <2>1. all \subseteq {"pattern"} \X f.text
    BY <1>2
  <2>2. IsFiniteSet({"pattern"} \X f.text) /\ Cardinality({"pattern"} \X f.text) = Cardinality({"pattern"}) * Cardinality(f.text)
    BY <1>1, FS_Product, FS_Singleton
  <2>3. Cardinality({"pattern"}) = 1 /\ Cardinality(f.text) \in Nat
    BY <1>1, FS_Singleton, FS_CardinalityType
  <2> HIDE DEF all
  <2>4. Cardinality(all) <= Cardinality({"pattern"} \X f.text) /\ Cardinality(all) \in Nat
    BY <2>1, <2>2, FS_Subset, FS_CardinalityType
  <2>5. Cardinality({"pattern"} \X f.text) = Cardinality(f.text)
    BY <2>2, <2>3
  <2> QED
    BY <2>3, <2>4, <2>5
<1>5. IsFiniteSet(all)
  BY <1>2, <1>3, FS_Subset
<1>6. extraction.evidence = 0 \/ extraction.evidence = L!EvidenceCountFor(0, all)
  <2>1. \E s, n : extraction = [signals |-> s, evidence |-> n] /\ (n = 0 \/ n = L!EvidenceCountFor(0, all))
    <3> DEFINE sg == {rule.signal : rule \in matched}
               count == IF sg = {} THEN 0 ELSE L!EvidenceCountFor(0, all)
    <3>1. extraction = [signals |-> sg, evidence |-> count]
      BY Zenon DEF L!ExtractSignalsFromSession
    <3>2. count = 0 \/ count = L!EvidenceCountFor(0, all)
      OBVIOUS
    <3> HIDE DEF sg, count, all, extraction
    <3> QED
      BY <3>1, <3>2
  <2> HIDE DEF all, extraction
  <2> QED
    BY <2>1
<1> HIDE DEF all
<1>7. extraction.evidence \in Nat /\ (Cardinality(all) <= 1 => extraction.evidence <= 1)
  BY <1>5, <1>6, EvidenceOfHits
<1>8. L!FixtureEvent(f).evidence = IF f.given # {} THEN L!Max(f.given) ELSE extraction.evidence
  BY DEF L!FixtureEvent, L!ApplyExtractedSignals
<1>9. f.given # {} => L!Max(f.given) \in Nat
  <2>1. f.given # {} => \E m \in f.given : \A y \in f.given : m >= y
    BY <1>1 DEF L!AtMostOne
  <2> QED
    BY <1>1, <2>1, GreatestIn
<1>10. L!FixtureEvent(f).expectedRoute = "absent"
  BY DEF L!FixtureEvent, L!Absent
<1> HIDE DEF extraction
<1> QED
  BY <1>4, <1>7, <1>8, <1>9, <1>10

LEMMA SomethingLearnt == ASSUME NEW s PROVE L!BuildAtomicLessons(s) # {}
<1> DEFINE segments == L!BuildSegments(s)
           signals == L!SourceSignals(s)
           supporting(r) == {i \in DOMAIN segments : L!SegmentSupportsLessonRoute(segments[i], r)}
           from(r) == IF supporting(r) # {} THEN supporting(r) ELSE DOMAIN segments
           kept(r) == L!LessonSignalsFor(r, signals, {segments[i] : i \in from(r)})
           routes == {r \in L!LessonRoutes :
                        /\ supporting(r) # {} \/ L!SourceLevelFallbackAllowed(signals, r)
                        /\ L!ExpectedRouteFor(kept(r)) = r}
           lesson(r) == L!BuildLearningEvent(s, r, from(r), kept(r),
              L!LessonEvidenceCountFor(r, s, L!Cardinality(from(r)), kept(r)),
              L!LessonRiskFor(r, s, kept(r)), L!LessonArtifactEvidenceFor(r, s))
<1>1. routes # {} => L!BuildAtomicLessons(s) = {lesson(r) : r \in routes}
  BY DEF L!BuildAtomicLessons
<1>2. routes = {} => \E l : L!BuildAtomicLessons(s) = {l}
  BY DEF L!BuildAtomicLessons
<1> HIDE DEF routes, lesson
<1> QED
  BY <1>1, <1>2

LEMMA TypeLearnt == LearningIInv => L!TypeOK
<1> SUFFICES ASSUME LearningIInv PROVE L!TypeOK
  OBVIOUS
<1>1. /\ s1.turns \in Seq(LessonTurns) /\ s1.evidence \subseteq Nat \ {0} /\ L!AtMostOne(s1.evidence)
      /\ Len(s1.turns) <= MaxTurns
  BY DEF LearningIInv, L!Windowed
<1>2. \A l \in L!BuildAtomicLessons(s1) : l.expectedRoute # "absent" /\ l.evidence \in Nat \ {0}
  BY <1>1, LearntLesson
<1>3. L!Distilled # {}
  <2>1. PICK l \in L!BuildAtomicLessons(s1) : TRUE
    BY SomethingLearnt
  <2>2. L!SimulateLearningCycle(l) \in s3 /\ L!SimulateLearningCycle(l).event = l
    BY LessonTraced, TracedLesson
  <2> QED
    BY <1>2, <2>1, <2>2 DEF L!Distilled, L!Absent
<1>4. L!EvaluateSources({s1}, FALSE) = {}
  BY <1>2 DEF L!EvaluateSources, L!When
<1>5. ASSUME NEW t \in s3
      PROVE  t.route.target \in L!LessonRoutes \cup {"ignore"} /\ t.event.evidence \in Nat
  <2>1. t.route = L!ClassifyRoute(t.event)
    BY LearntTraces, TracedLesson
  <2>2. t.event.evidence \in Nat
    BY <1>2, LearntTraces, EvidenceOfFixture
  <2>3. L!LessonRoutes = {"policy", "damping", "skill", "case", "memory"}
    BY DEF L!LessonRoutes, L!LessonRouteSignals
  <2> QED
    BY <2>1, <2>2, <2>3, LoopRoute
<1> QED
  BY <1>1, <1>3, <1>4, <1>5 DEF L!TypeOK

LEMMA ThinLearnt == LearningIInv => L!ThinTextIsHeld
<1> SUFFICES ASSUME LearningIInv, NEW f \in s2, f.given = {}, f.toolErrors = {}, L!Cardinality(f.text) <= 1,
                    NEW t \in s3 \ L!Distilled
             PROVE  L!BuildQueueItem(t).state # "ready_for_daily_rollup"
  BY DEF L!ThinTextIsHeld
<1>1. \A l \in L!BuildAtomicLessons(s1) : l.expectedRoute # "absent"
  BY LearntLesson DEF LearningIInv, L!Windowed
<1>2. t.event.expectedRoute = "absent"
  BY DEF L!Distilled, L!Absent
<1>3. f \in LessonFixtures /\ t.event = L!FixtureEvent(f)
  BY <1>1, <1>2, LearntTraces DEF LearningIInv
<1>4. t.event.evidence \in Nat /\ t.event.evidence <= 1
  BY <1>3, EvidenceOfFixture, LearnedCardinality
<1> DEFINE decision == L!BuildAdaptiveCandidate(t).decision
<1>5. decision = L!ClassifyDecision(t)
  BY DEF L!BuildAdaptiveCandidate
<1>6. decision # "validation_ready"
  BY <1>4, <1>5 DEF L!ClassifyDecision
<1>7. L!BuildQueueItem(t).state = L!QueueStateFor(decision)
  BY DEF L!BuildQueueItem
<1> HIDE DEF decision
<1> QED
  BY <1>6, <1>7 DEF L!QueueStateFor

LEMMA LearningProperties ==
  LearningIInv => /\ L!TypeOK /\ L!BoundaryReachesPolicy /\ L!SkillSegmentsAreClean
                  /\ L!ThinTextIsHeld /\ L!FailedReplaysStayLow
BY TypeLearnt, BoundaryLearnt, SkillsLearnt, ThinLearnt, ReplaysLearnt

-----------------------------------------------------------------------------
(* The vector memory: what is stored, and what is ranked of it.            *)

BridgeKinds == {"decision_trace", "audit_log"}
BridgeRuns == <<"run-1", "run-2", "run-3">>

\* A record of the inventory is of a work order or of a run: its kind and its number say
\* which one, and so what its id is.
StoredRecord(r) ==
  /\ r.kind \in X!Kinds /\ r.approval \in BOOLEAN /\ r.n \in 1..9 /\ r.id = <<r.kind, r.source>>
  /\ r.influences => r.kind = "policy_boundary" /\ r.approval /\ r.blocked # {}
  /\ r.kind \in BridgeKinds => r.n \in 1..3 /\ r.source = BridgeRuns[r.n]
  /\ r.kind \notin BridgeKinds => \E o \in MemoryOrders : o.id = r.source /\ o.n = r.n

Stored(inventory) ==
  /\ \A r \in inventory : StoredRecord(r)
  /\ \A r, q \in inventory : r.id = q.id => r = q

\* The hits of a search, as Search hands them to the ranker.
Placed(r, first, second) ==
  IF r = first THEN 0 ELSE IF r = second THEN 1 ELSE 10 * X!KindRank(r.kind) + r.n
Given(r, first, second, rest) ==
  [record |-> r, score |-> IF r = first THEN 91 ELSE IF r = second THEN 62 ELSE rest,
   n |-> Placed(r, first, second)]
GivenHits(inventory, first, second, rest) == {Given(r, first, second, rest) : r \in inventory}

MemoryIInv ==
  /\ Stored(s1) /\ s2.ok \in BOOLEAN /\ X!AdapterTakesTracedPlans /\ s5 \in 0..MemoryRuns
  /\ s3 = {} \/ \E q : s3 = {q}
  /\ \/ s4 = X!NoRanking
     \/ \E q : \E first, second \in s1, rest \in {20, 50} :
          s4 = X!RankVectorMemoryHits(q, GivenHits(s1, first, second, rest))

LEMMA MemoryInit == X!Init => MemoryIInv
<1> SUFFICES ASSUME X!Init PROVE MemoryIInv
  OBVIOUS
<1>1. s1 = {} /\ s2 = X!NoPlan /\ s3 = {} /\ s4 = X!NoRanking /\ s5 = 0
  BY DEF X!Init
<1>2. s2.ok = TRUE /\ X!AdapterTakesTracedPlans
  BY <1>1 DEF X!NoPlan, X!AdapterTakesTracedPlans
<1>3. Stored(s1)
  BY <1>1 DEF Stored
<1>4. 0 \in 0..MemoryRuns
  BY DeckAssumption
<1> QED
  BY <1>1, <1>2, <1>3, <1>4 DEF MemoryIInv

\* The kinds of the records a plan is made of.
LEMMA KindsPlanned ==
  /\ {"repair_work_order", "agent_experience_candidate", "policy_boundary"} \subseteq X!Kinds
  /\ BridgeKinds \subseteq X!Kinds
  /\ \A k \in X!Kinds : X!KindRank(k) \in 1..8 /\ X!KindOrder[X!KindRank(k)] = k
<1>1. DOMAIN X!KindOrder = 1..8
  BY DEF X!KindOrder
<1>2. ASSUME NEW k \in X!Kinds PROVE X!KindRank(k) \in 1..8 /\ X!KindOrder[X!KindRank(k)] = k
  <2>1. \E n \in DOMAIN X!KindOrder : X!KindOrder[n] = k
    BY DEF X!Kinds
  <2> QED
    BY <1>1, <2>1 DEF X!KindRank
<1>3. /\ X!KindOrder[1] = "agent_experience_candidate" /\ X!KindOrder[3] = "audit_log"
      /\ X!KindOrder[4] = "decision_trace" /\ X!KindOrder[7] = "policy_boundary"
      /\ X!KindOrder[8] = "repair_work_order"
  BY DEF X!KindOrder
<1> QED
  BY <1>1, <1>2, <1>3 DEF X!Kinds, BridgeKinds

LEMMA RecordMade ==
  ASSUME NEW k \in X!Kinds, NEW id, NEW n, NEW original, NEW trace, NEW approval, NEW blocked,
         NEW r, r = X!RecordForKind(k, id, n, original, trace, approval, blocked)
  PROVE  /\ r.id = <<k, id>> /\ r.kind = k /\ r.approval = approval /\ r.n = n /\ r.source = id
         /\ r.blocked = blocked /\ r.influences = X!Collections[k].influences
<1> DEFINE contract == X!Collections[k]
           authority == contract.authority
           influences == contract.influences
<1>1. r = [id |-> <<k, id>>, kind |-> k, authority |-> authority, influences |-> influences,
           approval |-> approval, n |-> n, source |-> id, original |-> original, trace |-> trace,
           blocked |-> blocked]
  BY Zenon DEF X!RecordForKind
<1> HIDE DEF contract, authority, influences
<1>2. /\ r.id = <<k, id>> /\ r.kind = k /\ r.approval = approval /\ r.n = n /\ r.source = id
      /\ r.blocked = blocked /\ r.influences = influences
  BY <1>1
<1> QED
  BY <1>2 DEF influences, contract

LEMMA PlannedInfluence ==
  \A k \in BridgeKinds \cup {"repair_work_order", "agent_experience_candidate"} : X!Collections[k].influences = FALSE
<1> SUFFICES ASSUME NEW k \in BridgeKinds \cup {"repair_work_order", "agent_experience_candidate"}
             PROVE  X!Collections[k].influences = FALSE
  OBVIOUS
<1>1. k \in X!Kinds
  BY KindsPlanned
<1>2. CASE k \in BridgeKinds
  <2>1. X!Collections[k] = [authority |-> "audit_only", influences |-> FALSE, approval |-> FALSE]
    BY <1>1, <1>2 DEF X!Collections, BridgeKinds
  <2> QED
    BY <2>1
<1>3. CASE k \notin BridgeKinds
  <2>1. X!Collections[k] = [authority |-> "candidate", influences |-> FALSE, approval |-> FALSE]
    BY <1>1, <1>3 DEF X!Collections, BridgeKinds
  <2> QED
    BY <2>1
<1> QED
  BY <1>2, <1>3

\* What a plan writes: records in the form of the inventory, one for each id.
LEMMA PlannedRecords ==
  ASSUME NEW orders \in SUBSET MemoryOrders, NEW bridged \in BOOLEAN, NEW n \in 1..3
  PROVE  Stored(X!BuildVectorMemoryStoragePlan(orders, bridged, n))
<1> DEFINE trace == X!DecisionTraceId(bridged, n)
           made(k, o, approval) ==
             X!RecordForKind(k, o.id, o.n, X!OriginalSourceFromWorkOrder(o), trace, approval, X!BlockedSurfaces(o))
           bridge(k) == X!RecordForKind(k, trace, n, trace, trace, FALSE, {})
           records == X!BuildVectorMemoryStoragePlan(orders, bridged, n)
           ofOrder(r) ==
             \E o \in orders :
               \/ r = made("repair_work_order", o, o.owner)
               \/ r = made("agent_experience_candidate", o, o.owner)
               \/ r = made("policy_boundary", o, TRUE) /\ X!BlockedSurfaces(o) # {}
           ofRun(r) == bridged /\ \E k \in BridgeKinds : r = bridge(k)
<1>1. ASSUME NEW r \in records PROVE ofOrder(r) \/ ofRun(r)
  <2>1. r \in (IF bridged THEN X!RecordsFromLangGraphBridge(trace, n) ELSE {})
              \cup UNION {X!RecordsFromWorkOrder(o, trace) : o \in orders}
    BY DEF X!BuildVectorMemoryStoragePlan
  <2>2. CASE bridged /\ r \in X!RecordsFromLangGraphBridge(trace, n)
    <3>1. \E k \in BridgeKinds : r = bridge(k)
      BY <2>2 DEF X!RecordsFromLangGraphBridge, BridgeKinds
    <3> QED
      BY <2>2, <3>1
  <2>3. CASE \E o \in orders : r \in X!RecordsFromWorkOrder(o, trace)
    <3>1. PICK o \in orders : r \in X!RecordsFromWorkOrder(o, trace)
      BY <2>3
    <3> DEFINE blocked == X!BlockedSurfaces(o)
    <3>2. X!RecordsFromWorkOrder(o, trace) =
             {made("repair_work_order", o, o.owner)}
             \cup (IF o.review THEN {made("agent_experience_candidate", o, o.owner)} ELSE {})
             \cup (IF blocked # {} THEN {made("policy_boundary", o, TRUE)} ELSE {})
      BY DEF X!RecordsFromWorkOrder
    <3> HIDE DEF made, blocked
    <3> QED
      BY <3>1, <3>2 DEF blocked
  <2> HIDE DEF trace
  <2>4. r \in UNION {X!RecordsFromWorkOrder(o, trace) : o \in orders} => \E o \in orders : r \in X!RecordsFromWorkOrder(o, trace)
    OBVIOUS
  <2> HIDE DEF ofOrder, ofRun
  <2> QED
    BY <2>1, <2>2, <2>3, <2>4
<1>2. ASSUME NEW r, ofOrder(r)
      PROVE  /\ r.kind \in X!Kinds \ BridgeKinds /\ r.approval \in BOOLEAN /\ r.n \in 1..9
             /\ r.id = <<r.kind, r.source>>
             /\ r.influences => r.kind = "policy_boundary" /\ r.approval /\ r.blocked # {}
             /\ \E o \in MemoryOrders : o.id = r.source /\ o.n = r.n
  <2>1. PICK o \in orders :
               \/ r = made("repair_work_order", o, o.owner)
               \/ r = made("agent_experience_candidate", o, o.owner)
               \/ r = made("policy_boundary", o, TRUE) /\ X!BlockedSurfaces(o) # {}
    BY <1>2
  <2>2. o \in MemoryOrders /\ o.owner \in BOOLEAN /\ o.n \in 1..9
    BY DeckAssumption DEF Ordered
  <2>3. \A k \in BridgeKinds : k \notin {"repair_work_order", "agent_experience_candidate", "policy_boundary"}
    BY DEF BridgeKinds
  <2> DEFINE blocked == X!BlockedSurfaces(o)
             original == X!OriginalSourceFromWorkOrder(o)
  <2>4. CASE \E k \in {"repair_work_order", "agent_experience_candidate"} : r = made(k, o, o.owner)
    <3>1. PICK k \in {"repair_work_order", "agent_experience_candidate"} : r = made(k, o, o.owner)
      BY <2>4
    <3>2. r = X!RecordForKind(k, o.id, o.n, original, trace, o.owner, blocked) /\ k \in X!Kinds
      BY <3>1, KindsPlanned
    <3> HIDE DEF original, blocked, trace, made
    <3>3. /\ r.id = <<k, o.id>> /\ r.kind = k /\ r.approval = o.owner /\ r.n = o.n /\ r.source = o.id
          /\ r.influences = X!Collections[k].influences
      BY <3>2, RecordMade
    <3>4. r.influences = FALSE
      BY <3>1, <3>3, PlannedInfluence
    <3> QED
      BY <2>2, <2>3, <3>1, <3>2, <3>3, <3>4
  <2>5. CASE r = made("policy_boundary", o, TRUE) /\ blocked # {}
    <3> DEFINE k == "policy_boundary"
               yes == TRUE
    <3>2. r = X!RecordForKind(k, o.id, o.n, original, trace, yes, blocked) /\ k \in X!Kinds
      BY <2>5, KindsPlanned
    <3> HIDE DEF original, blocked, trace, made, k, yes
    <3>3. /\ r.id = <<k, o.id>> /\ r.kind = k /\ r.approval = yes /\ r.n = o.n /\ r.source = o.id
          /\ r.blocked = blocked
      BY <3>2, RecordMade
    <3> QED
      BY <2>2, <2>3, <2>5, <3>2, <3>3 DEF k, yes
  <2> HIDE DEF made
  <2> QED
    BY <2>1, <2>4, <2>5
<1>3. ASSUME NEW r, ofRun(r)
      PROVE  /\ r.kind \in BridgeKinds /\ r.kind \in X!Kinds /\ r.approval \in BOOLEAN /\ r.n = n
             /\ r.id = <<r.kind, r.source>> /\ ~r.influences /\ r.source = BridgeRuns[n]
  <2>1. PICK k \in BridgeKinds : r = bridge(k)
    BY <1>3
  <2>2. trace = BridgeRuns[n]
    BY <1>3 DEF X!DecisionTraceId, BridgeRuns
  <2>3. k \in X!Kinds
    BY KindsPlanned
  <2> DEFINE no == FALSE
             nothing == {}
  <2>6. r = X!RecordForKind(k, trace, n, trace, trace, no, nothing)
    BY <2>1
  <2> HIDE DEF trace, no, nothing, bridge
  <2>4. /\ r.id = <<k, trace>> /\ r.kind = k /\ r.approval = no /\ r.n = n /\ r.source = trace
        /\ r.influences = X!Collections[k].influences
    BY <2>3, <2>6, RecordMade
  <2>5. r.influences = FALSE
    BY <2>4, PlannedInfluence
  <2> QED
    BY <2>2, <2>3, <2>4, <2>5 DEF no
<1>4. \A r \in records : StoredRecord(r)
  <2> SUFFICES ASSUME NEW r \in records PROVE StoredRecord(r)
    OBVIOUS
  <2> HIDE DEF ofOrder, ofRun, records
  <2>1. CASE ofOrder(r)
    BY <1>2, <2>1 DEF StoredRecord
  <2>2. CASE ofRun(r)
    <3>1. n \in 1..9
      OBVIOUS
    <3> QED
      BY <1>3, <2>2, <3>1 DEF StoredRecord
  <2> QED
    BY <1>1, <2>1, <2>2
<1>5. ASSUME NEW r \in records, NEW q \in records, r.id = q.id PROVE r = q
  <2>1. r.kind = q.kind /\ r.source = q.source
    BY <1>4, <1>5 DEF StoredRecord
  <2>2. CASE r.kind \in BridgeKinds
    <3>1. ofRun(r) /\ ofRun(q)
      <4> HIDE DEF ofOrder, ofRun, records
      <4> QED
        BY <1>1, <1>2, <2>1, <2>2
    <3>2. \A k \in BridgeKinds : \A x : x = bridge(k) => x.kind = k
      <4> SUFFICES ASSUME NEW k \in BridgeKinds, NEW x, x = bridge(k) PROVE x.kind = k
        OBVIOUS
      <4>1. k \in X!Kinds
        BY KindsPlanned
      <4> DEFINE no == FALSE
                 nothing == {}
      <4>2. x = X!RecordForKind(k, trace, n, trace, trace, no, nothing)
        OBVIOUS
      <4> HIDE DEF trace, no, nothing, bridge
      <4> QED
        BY <4>1, <4>2, RecordMade
    <3> HIDE DEF bridge
    <3> QED
      BY <2>1, <3>1, <3>2
  <2>3. CASE r.kind \notin BridgeKinds
    <3>1. ofOrder(r) /\ ofOrder(q)
      <4> HIDE DEF ofOrder, ofRun, records
      <4> QED
        BY <1>1, <1>3, <2>1, <2>3
    <3>2. ASSUME NEW k \in X!Kinds, NEW o \in orders, NEW a, NEW x, x = made(k, o, a)
          PROVE  x.kind = k /\ x.source = o.id
      <4> DEFINE blocked == X!BlockedSurfaces(o)
                 original == X!OriginalSourceFromWorkOrder(o)
      <4>1. x = X!RecordForKind(k, o.id, o.n, original, trace, a, blocked)
        BY <3>2
      <4> HIDE DEF original, blocked, trace, made
      <4> QED
        BY <4>1, RecordMade
    <3>3. \A o, p \in orders : o.id = p.id => o = p
      BY DeckAssumption
    <3> DEFINE approval(k, o) == IF k = "policy_boundary" THEN TRUE ELSE o.owner
               planned == {"repair_work_order", "agent_experience_candidate", "policy_boundary"}
    <3>4. ASSUME NEW x, ofOrder(x)
          PROVE  \E o \in orders : x = made(x.kind, o, approval(x.kind, o)) /\ x.source = o.id
      <4>1. PICK o \in orders, k \in planned : x = made(k, o, approval(k, o))
        <5> HIDE DEF made
        <5> QED
          BY <3>4
      <4>2. x.kind = k /\ x.source = o.id
        <5> DEFINE a == approval(k, o)
        <5>1. x = made(k, o, a) /\ k \in X!Kinds
          BY <4>1, KindsPlanned
        <5> HIDE DEF made, a
        <5> QED
          BY <3>2, <5>1
      <4> HIDE DEF made, approval
      <4> QED
        BY <4>1, <4>2
    <3> HIDE DEF made, ofOrder, approval
    <3>5. PICK o \in orders : r = made(r.kind, o, approval(r.kind, o)) /\ r.source = o.id
      BY <3>1, <3>4
    <3>6. PICK p \in orders : q = made(q.kind, p, approval(q.kind, p)) /\ q.source = p.id
      BY <3>1, <3>4
    <3>7. o = p
      BY <2>1, <3>3, <3>5, <3>6
    <3> QED
      BY <2>1, <3>5, <3>6, <3>7
  <2> QED
    BY <2>2, <2>3
<1> HIDE DEF records
<1>6. Stored(records)
  BY <1>4, <1>5 DEF Stored
<1> QED
  BY <1>6 DEF records

PlannedKinds == BridgeKinds \cup {"repair_work_order", "agent_experience_candidate", "policy_boundary"}

\* What the contracts of the planned kinds say passes the adapter's metadata rules.
LEMMA PlannedContracts ==
  \A k \in PlannedKinds :
    /\ X!Collections[k].influences => X!Collections[k].authority \in {"promoted", "policy"}
    /\ X!Collections[k].influences => X!Collections[k].authority \notin {"audit_only", "candidate"}
<1> SUFFICES ASSUME NEW k \in PlannedKinds
             PROVE  /\ X!Collections[k].influences => X!Collections[k].authority \in {"promoted", "policy"}
                    /\ X!Collections[k].influences => X!Collections[k].authority \notin {"audit_only", "candidate"}
  OBVIOUS
<1>1. CASE k = "policy_boundary"
  <2>1. k \in X!Kinds
    BY <1>1, KindsPlanned
  <2>2. X!Collections[k] = [authority |-> "policy", influences |-> TRUE, approval |-> TRUE]
    BY <1>1, <2>1 DEF X!Collections
  <2> QED
    BY <2>2
<1>2. CASE k # "policy_boundary"
  <2>1. k \in BridgeKinds \cup {"repair_work_order", "agent_experience_candidate"}
    BY <1>2 DEF PlannedKinds
  <2> QED
    BY <2>1, PlannedInfluence
<1> QED
  BY <1>1, <1>2

\* A record of a planned kind is refused for its original source alone.
LEMMA RecordTaken ==
  ASSUME NEW k \in PlannedKinds, NEW id, NEW n, NEW original, NEW trace, NEW approval, NEW blocked,
         NEW r, r = X!RecordForKind(k, id, n, original, trace, approval, blocked)
  PROVE  /\ r.original = original
         /\ ~(r.authority \in {"audit_only", "candidate"} /\ r.influences)
         /\ ~(r.influences /\ r.authority \notin {"promoted", "policy"})
<1> DEFINE contract == X!Collections[k]
           authority == contract.authority
           influences == contract.influences
<1>1. r = [id |-> <<k, id>>, kind |-> k, authority |-> authority, influences |-> influences,
           approval |-> approval, n |-> n, source |-> id, original |-> original, trace |-> trace,
           blocked |-> blocked]
  BY Zenon DEF X!RecordForKind
<1>2. /\ influences => authority \in {"promoted", "policy"}
      /\ influences => authority \notin {"audit_only", "candidate"}
  BY PlannedContracts
<1> HIDE DEF contract, authority, influences
<1>3. r.original = original /\ r.authority = authority /\ r.influences = influences
  BY <1>1
<1> QED
  BY <1>2, <1>3

\* The adapter takes a plan unless the source of one of its orders is unknown.
LEMMA AdapterDecides ==
  ASSUME NEW orders \in SUBSET MemoryOrders, NEW bridged \in BOOLEAN, NEW n \in 1..3,
         NEW records, records = X!BuildVectorMemoryStoragePlan(orders, bridged, n)
  PROVE  X!BuildZillizVectorAdapterPlan(records) <=> \A o \in orders : o.ref # "unknown"
<1> DEFINE trace == X!DecisionTraceId(bridged, n)
           origin(o) == X!OriginalSourceFromWorkOrder(o)
           fails(q) == \/ q.authority \in {"audit_only", "candidate"} /\ q.influences
                       \/ q.influences /\ q.authority \notin {"promoted", "policy"}
                       \/ q.original = "unknown"
<1>1. \A o \in orders : origin(o) = "unknown" <=> o.ref = "unknown"
  <2>1. \A o \in orders : o.id \notin {"unknown", "none"}
    BY DeckAssumption DEF Ordered
  <2> QED
    BY <2>1 DEF X!OriginalSourceFromWorkOrder
<1>2. records = (IF bridged THEN X!RecordsFromLangGraphBridge(trace, n) ELSE {})
                \cup UNION {X!RecordsFromWorkOrder(o, trace) : o \in orders}
  BY DEF X!BuildVectorMemoryStoragePlan
<1>3. X!BuildZillizVectorAdapterPlan(records) <=> \A q \in records : ~fails(q)
  BY DEF X!BuildZillizVectorAdapterPlan, X!MetadataViolations
<1>4. ASSUME NEW o \in orders, NEW q \in X!RecordsFromWorkOrder(o, trace)
      PROVE  fails(q) <=> o.ref = "unknown"
  <2> DEFINE blocked == X!BlockedSurfaces(o)
             made(k, approval) == X!RecordForKind(k, o.id, o.n, origin(o), trace, approval, blocked)
             id == o.id
             place == o.n
             original == origin(o)
             owner == o.owner
             yes == TRUE
  <2>1. X!RecordsFromWorkOrder(o, trace) =
          {made("repair_work_order", o.owner)}
          \cup (IF o.review THEN {made("agent_experience_candidate", o.owner)} ELSE {})
          \cup (IF blocked # {} THEN {made("policy_boundary", TRUE)} ELSE {})
    BY DEF X!RecordsFromWorkOrder
  <2>2. \E k \in PlannedKinds : q = made(k, o.owner) \/ q = made(k, TRUE)
    <3> HIDE DEF made, blocked
    <3> QED
      BY <2>1 DEF PlannedKinds
  <2>3. PICK k \in PlannedKinds : q = made(k, o.owner) \/ q = made(k, TRUE)
    BY <2>2
  <2>4. \/ q = X!RecordForKind(k, id, place, original, trace, owner, blocked)
        \/ q = X!RecordForKind(k, id, place, original, trace, yes, blocked)
    BY <2>3
  <2>5. original = "unknown" <=> o.ref = "unknown"
    BY <1>1
  <2> HIDE DEF blocked, made, id, place, original, owner, yes, trace
  <2>6. /\ q.original = original
        /\ ~(q.authority \in {"audit_only", "candidate"} /\ q.influences)
        /\ ~(q.influences /\ q.authority \notin {"promoted", "policy"})
    BY <2>4, RecordTaken
  <2> QED
    BY <2>5, <2>6
<1>5. ASSUME bridged, NEW q \in X!RecordsFromLangGraphBridge(trace, n) PROVE ~fails(q)
  <2>1. PICK k \in BridgeKinds : q = X!RecordForKind(k, trace, n, trace, trace, FALSE, {})
    BY DEF X!RecordsFromLangGraphBridge, BridgeKinds
  <2> DEFINE no == FALSE
             nothing == {}
  <2>2. q = X!RecordForKind(k, trace, n, trace, trace, no, nothing) /\ k \in PlannedKinds
    BY <2>1 DEF PlannedKinds
  <2>3. trace # "unknown"
    BY <1>5 DEF X!DecisionTraceId
  <2> HIDE DEF trace, no, nothing
  <2>4. /\ q.original = trace
        /\ ~(q.authority \in {"audit_only", "candidate"} /\ q.influences)
        /\ ~(q.influences /\ q.authority \notin {"promoted", "policy"})
    BY <2>2, RecordTaken
  <2> QED
    BY <2>3, <2>4
<1>6. \A o \in orders : X!RecordsFromWorkOrder(o, trace) # {}
  BY DEF X!RecordsFromWorkOrder
<1> HIDE DEF fails, trace, origin
<1>7. (\A q \in records : ~fails(q)) <=> \A o \in orders : o.ref # "unknown"
  <2>1. ASSUME \A q \in records : ~fails(q), NEW o \in orders PROVE o.ref # "unknown"
    <3>1. PICK q : q \in X!RecordsFromWorkOrder(o, trace)
      BY <1>6
    <3>2. q \in records
      BY <1>2, <3>1
    <3> QED
      BY <1>4, <2>1, <3>1, <3>2
  <2>2. ASSUME \A o \in orders : o.ref # "unknown", NEW q \in records PROVE ~fails(q)
    <3>1. CASE bridged /\ q \in X!RecordsFromLangGraphBridge(trace, n)
      BY <1>5, <3>1
    <3>2. CASE \E o \in orders : q \in X!RecordsFromWorkOrder(o, trace)
      BY <1>4, <2>2, <3>2
    <3> QED
      BY <1>2, <3>1, <3>2
  <2> QED
    BY <2>1, <2>2
<1> QED
  BY <1>3, <1>7

LEMMA MemoryStep == ASSUME MemoryIInv, X!Next PROVE MemoryIInv'
<1>1. ASSUME NEW orders \in SUBSET MemoryOrders, NEW bridged \in BOOLEAN, X!StorePlan(orders, bridged)
      PROVE  MemoryIInv'
  <2> DEFINE records == X!BuildVectorMemoryStoragePlan(orders, bridged, s5 + 1)
             ok == X!BuildZillizVectorAdapterPlan(records)
  <2>1. /\ s5 < MemoryRuns /\ s5' = s5 + 1 /\ s2' = [records |-> records, ok |-> ok, orders |-> orders]
        /\ s1' = {r \in s1 : \A s \in records : s.id # r.id} \cup records
        /\ s3' = {} /\ s4' = X!NoRanking
    BY <1>1 DEF X!StorePlan
  <2>2. s5 + 1 \in 1..3 /\ s5 + 1 \in 0..MemoryRuns
    BY <2>1, DeckAssumption DEF MemoryIInv
  <2>3. Stored(records)
    BY <2>2, PlannedRecords
  <2>4. ok \in BOOLEAN
    BY DEF X!BuildZillizVectorAdapterPlan
  <2>8. ok <=> \A o \in orders : o.ref # "unknown"
    BY <2>2, AdapterDecides
  <2> HIDE DEF records, ok
  <2>5. s2'.ok \in BOOLEAN
    BY <2>1, <2>4
  <2>9. X!AdapterTakesTracedPlans'
    <3>1. s2'.ok = ok /\ s2'.orders = orders
      BY <2>1
    <3> QED
      BY <2>8, <3>1 DEF X!AdapterTakesTracedPlans
  <2>6. Stored(s1)
    BY DEF MemoryIInv
  <2>7. Stored(s1')
    <3> HIDE DEF StoredRecord
    <3>1. /\ \A r \in s1 : StoredRecord(r)
          /\ \A r \in records : StoredRecord(r)
          /\ \A r, q \in s1 : r.id = q.id => r = q
          /\ \A r, q \in records : r.id = q.id => r = q
      BY <2>3, <2>6 DEF Stored
    <3>2. \A r \in s1' : StoredRecord(r)
      BY <2>1, <3>1
    <3>3. \A r, q \in s1' : r.id = q.id => r = q
      BY <2>1, <3>1
    <3> QED
      BY <3>2, <3>3 DEF Stored
  <2> QED
    BY <2>1, <2>2, <2>5, <2>7, <2>9 DEF MemoryIInv
<1>2. ASSUME NEW q, NEW first \in s1, NEW second \in {r \in s1 : r.n = 1}, NEW rest \in {20, 50},
             X!Search(q, first, second, rest)
      PROVE  MemoryIInv'
  <2> DEFINE hits == GivenHits(s1, first, second, rest)
  <2>1. s4' = X!RankVectorMemoryHits(q, hits) /\ s3' = {q} /\ s1' = s1 /\ s2' = s2 /\ s5' = s5
    BY <1>2, Zenon DEF X!Search, GivenHits, Given, Placed
  <2>2. s4' = X!RankVectorMemoryHits(q, GivenHits(s1', first, second, rest)) /\ first \in s1' /\ second \in s1'
    BY <2>1
  <2>3. X!AdapterTakesTracedPlans'
    BY <2>1 DEF MemoryIInv, X!AdapterTakesTracedPlans
  <2> QED
    BY <2>1, <2>2, <2>3 DEF MemoryIInv
<1> QED
  BY <1>1, <1>2 DEF X!Next

\* No two records of the inventory have the same place among the hits.
LEMMA PlacesDiffer ==
  ASSUME NEW inventory, Stored(inventory), NEW first \in inventory, NEW second \in inventory
  PROVE  /\ \A r \in inventory : Placed(r, first, second) \in 0..89
         /\ \A r, q \in inventory : Placed(r, first, second) = Placed(q, first, second) => r = q
<1>1. ASSUME NEW r \in inventory
      PROVE  /\ X!KindRank(r.kind) \in 1..8 /\ X!KindOrder[X!KindRank(r.kind)] = r.kind
             /\ r.n \in 1..9
  BY KindsPlanned DEF Stored, StoredRecord
<1>2. ASSUME NEW r \in inventory, NEW q \in inventory, r.kind = q.kind, r.n = q.n PROVE r = q
  <2>1. StoredRecord(r) /\ StoredRecord(q)
    BY DEF Stored
  <2>2. r.source = q.source
    <3>1. CASE r.kind \in BridgeKinds
      BY <1>2, <2>1, <3>1 DEF StoredRecord
    <3>2. CASE r.kind \notin BridgeKinds
      BY <1>2, <2>1, <3>2, DeckAssumption DEF StoredRecord
    <3> QED
      BY <3>1, <3>2
  <2>3. r.id = q.id
    BY <1>2, <2>1, <2>2 DEF StoredRecord
  <2> QED
    BY <2>3 DEF Stored
<1>3. \A r \in inventory : Placed(r, first, second) \in 0..89
  <2> SUFFICES ASSUME NEW r \in inventory PROVE Placed(r, first, second) \in 0..89
    OBVIOUS
  <2> DEFINE k == X!KindRank(r.kind)
             n == r.n
  <2>1. k \in 1..8 /\ n \in 1..9
    BY <1>1
  <2>2. Placed(r, first, second) = IF r = first THEN 0 ELSE IF r = second THEN 1 ELSE 10 * k + n
    BY DEF Placed
  <2> HIDE DEF k, n
  <2> QED
    BY <2>1, <2>2
<1>4. ASSUME NEW r \in inventory, NEW q \in inventory, Placed(r, first, second) = Placed(q, first, second)
      PROVE  r = q
  <2> DEFINE k == X!KindRank(r.kind)
             n == r.n
             j == X!KindRank(q.kind)
             m == q.n
  <2>1. k \in 1..8 /\ n \in 1..9 /\ j \in 1..8 /\ m \in 1..9
    BY <1>1
  <2>2. /\ Placed(r, first, second) = IF r = first THEN 0 ELSE IF r = second THEN 1 ELSE 10 * k + n
        /\ Placed(q, first, second) = IF q = first THEN 0 ELSE IF q = second THEN 1 ELSE 10 * j + m
    BY DEF Placed
  <2> HIDE DEF k, n, j, m
  <2>3. 10 * k + n \in Int /\ 10 * k + n > 1 /\ 10 * j + m \in Int /\ 10 * j + m > 1
    BY <2>1
  <2>5. 10 * k + n = 10 * j + m => k = j /\ n = m
    BY <2>1
  <2>4. k = j => r.kind = q.kind
    BY <1>1 DEF k, j
  <2>8. n = m => r.n = q.n
    BY DEF n, m
  <2> DEFINE x == 10 * k + n
             y == 10 * j + m
  <2>6. x = y => r = q
    BY <1>2, <2>4, <2>5, <2>8
  <2>7. x \in Int /\ x > 1 /\ y \in Int /\ y > 1
    BY <2>3
  <2> HIDE DEF x, y
  <2>9. /\ Placed(r, first, second) = IF r = first THEN 0 ELSE IF r = second THEN 1 ELSE x
        /\ Placed(q, first, second) = IF q = first THEN 0 ELSE IF q = second THEN 1 ELSE y
    BY <2>2 DEF x, y
  <2> DEFINE a == Placed(r, first, second)
             b == Placed(q, first, second)
  <2>10. /\ a = (IF r = first THEN 0 ELSE IF r = second THEN 1 ELSE x)
         /\ b = (IF q = first THEN 0 ELSE IF q = second THEN 1 ELSE y)
         /\ a = b
    BY <1>4, <2>9
  <2> HIDE DEF a, b
  <2>11. CASE r = first
    <3>1. a = 0
      BY <2>10, <2>11
    <3> QED
      BY <2>7, <2>10, <2>11, <3>1
  <2>12. CASE r # first /\ r = second
    <3>1. a = 1
      BY <2>10, <2>12
    <3> QED
      BY <2>7, <2>10, <2>12, <3>1
  <2>13. CASE r # first /\ r # second
    <3>1. a = x
      BY <2>10, <2>13
    <3> QED
      BY <2>6, <2>7, <2>10, <3>1
  <2> QED
    BY <2>11, <2>12, <2>13
<1> QED
  BY <1>3, <1>4

\* Ranked by an order in which any two differ, the members of a finite set have the ranks
\* from 1 to their number.
Rankable(set, less, rank) ==
  /\ IsFiniteSet(set)
  /\ \A s \in set : <<s, s>> \notin less
  /\ \A s, t \in set : s = t \/ <<s, t>> \in less \/ <<t, s>> \in less
  /\ \A s, t, u \in set : <<s, t>> \in less /\ <<t, u>> \in less => <<s, u>> \in less
  /\ rank = [s \in set |-> 1 + Cardinality({t \in set : <<t, s>> \in less})]

LEMMA Ranks ==
  ASSUME NEW set, NEW less, NEW rank, Rankable(set, less, rank)
  PROVE  Cardinality(set) \in Nat /\ rank \in Bijection(set, 1..Cardinality(set))
<1>0. /\ IsFiniteSet(set)
      /\ \A s \in set : <<s, s>> \notin less
      /\ \A s, t \in set : s = t \/ <<s, t>> \in less \/ <<t, s>> \in less
      /\ \A s, t, u \in set : <<s, t>> \in less /\ <<t, u>> \in less => <<s, u>> \in less
      /\ rank = [s \in set |-> 1 + Cardinality({t \in set : <<t, s>> \in less})]
  BY DEF Rankable
<1> DEFINE before(s) == {t \in set : <<t, s>> \in less}
           size == Cardinality(set)
<1>1. size \in Nat
  BY <1>0, FS_CardinalityType
<1>2. ASSUME NEW s \in set
      PROVE  IsFiniteSet(before(s)) /\ Cardinality(before(s)) \in Nat /\ Cardinality(before(s)) < size
  <2> DEFINE some == before(s)
  <2>1. some \in SUBSET set /\ some # set
    BY <1>0
  <2> HIDE DEF some
  <2>2. IsFiniteSet(some) /\ Cardinality(some) <= size /\ (size = Cardinality(some) => set = some)
    BY <1>0, <2>1, FS_Subset
  <2>3. Cardinality(some) \in Nat
    BY <2>2, FS_CardinalityType
  <2>4. Cardinality(some) < size
    BY <1>1, <2>1, <2>2, <2>3
  <2> QED
    BY <2>2, <2>3, <2>4 DEF some
<1>3. ASSUME NEW s \in set, NEW t \in set, <<s, t>> \in less
      PROVE  Cardinality(before(s)) < Cardinality(before(t))
  <2> DEFINE some == before(s)
             more == before(t)
  <2>1. some \in SUBSET more /\ s \in more /\ s \notin some
    BY <1>0, <1>3
  <2>2. IsFiniteSet(more) /\ Cardinality(more) \in Nat /\ Cardinality(some) \in Nat
    BY <1>2
  <2> HIDE DEF some, more
  <2>3. Cardinality(some) <= Cardinality(more) /\ (Cardinality(more) = Cardinality(some) => more = some)
    BY <2>1, <2>2, FS_Subset
  <2>4. Cardinality(some) < Cardinality(more)
    BY <2>1, <2>2, <2>3
  <2> QED
    BY <2>4 DEF some, more
<1>4. \A s \in set : rank[s] = 1 + Cardinality(before(s)) /\ rank[s] \in 1..size
  <2> SUFFICES ASSUME NEW s \in set PROVE rank[s] = 1 + Cardinality(before(s)) /\ rank[s] \in 1..size
    OBVIOUS
  <2>1. rank[s] = 1 + Cardinality(before(s))
    BY <1>0
  <2>2. Cardinality(before(s)) \in Nat /\ Cardinality(before(s)) < size
    BY <1>2
  <2> HIDE DEF before, size
  <2> QED
    BY <1>1, <2>1, <2>2
<1>5. \A s, t \in set : rank[s] = rank[t] => s = t
  <2> SUFFICES ASSUME NEW s \in set, NEW t \in set, rank[s] = rank[t], s # t PROVE FALSE
    OBVIOUS
  <2>1. <<s, t>> \in less \/ <<t, s>> \in less
    BY <1>0
  <2> DEFINE a == Cardinality(before(s))
             b == Cardinality(before(t))
  <2>2. a \in Nat /\ b \in Nat /\ rank[s] = 1 + a /\ rank[t] = 1 + b
    BY <1>2, <1>4
  <2>3. a < b \/ b < a
    BY <1>3, <2>1
  <2> HIDE DEF a, b
  <2>4. 1 + a = 1 + b
    BY <2>2, Zenon
  <2>5. a \in Nat /\ b \in Nat
    BY <2>2
  <2> QED
    BY <2>3, <2>4, <2>5
<1> HIDE DEF before, size
<1>6. rank \in Injection(set, 1..size)
  BY <1>0, <1>4, <1>5 DEF Injection, IsInjective
<1>7. IsFiniteSet(1..size) /\ Cardinality(1..size) = size
  <2>1. 1 \in Int /\ size \in Int
    BY <1>1
  <2>2. IsFiniteSet(1..size) /\ Cardinality(1..size) = IF 1 > size THEN 0 ELSE size - 1 + 1
    BY <2>1, FS_Interval
  <2> QED
    BY <1>1, <2>2
<1>8. rank \in Surjection(set, 1..size)
  <2>1. Cardinality(set) = Cardinality(1..size)
    BY <1>7 DEF size
  <2> QED
    BY <1>6, <1>7, <2>1, FS_Injection
<1> QED
  BY <1>1, <1>6, <1>8 DEF size, Bijection

\* The hits of the members up to a limit: they have the ranks from 1 to how many they are,
\* and when there is room left every member has one.
TopHits(kept, rank, limit) ==
  {[record |-> s.record, bucket |-> s.bucket, rank |-> rank[s]] : s \in {t \in kept : rank[t] <= limit}}
InRanks(kept, limit, top) ==
  /\ {h.rank : h \in top} = 1..Cardinality(top)
  /\ Cardinality(top) < limit => \A s \in kept : \E h \in top : h.record = s.record

LEMMA TopRanks ==
  ASSUME NEW kept, NEW size \in Nat, NEW rank \in Bijection(kept, 1..size), NEW limit \in Nat,
         NEW top, top = TopHits(kept, rank, limit)
  PROVE  InRanks(kept, limit, top)
<1> DEFINE m == IF size <= limit THEN size ELSE limit
           hit(s) == [record |-> s.record, bucket |-> s.bucket, rank |-> rank[s]]
           ranks == [h \in top |-> h.rank]
<1>1. /\ \A s \in kept : rank[s] \in 1..size
      /\ \A s, t \in kept : rank[s] = rank[t] => s = t
      /\ \A n \in 1..size : \E s \in kept : rank[s] = n
  BY DEF Bijection, Injection, Surjection, IsInjective
<1>2. m \in Nat /\ m <= size /\ m <= limit /\ (m < limit => size = m)
  OBVIOUS
<1>3. \A h \in top : \E s \in kept : h = hit(s) /\ h.rank = rank[s] /\ rank[s] \in 1..m
  <2> SUFFICES ASSUME NEW h \in top PROVE \E s \in kept : h = hit(s) /\ h.rank = rank[s] /\ rank[s] \in 1..m
    OBVIOUS
  <2>1. PICK s \in kept : rank[s] <= limit /\ h = hit(s)
    BY DEF TopHits
  <2>2. rank[s] \in 1..m
    BY <1>1, <2>1
  <2> QED
    BY <2>1, <2>2
<1>4. \A n \in 1..m : \E s \in kept : rank[s] = n /\ hit(s) \in top /\ hit(s).rank = n
  <2> SUFFICES ASSUME NEW n \in 1..m PROVE \E s \in kept : rank[s] = n /\ hit(s) \in top /\ hit(s).rank = n
    OBVIOUS
  <2>1. n \in 1..size /\ n <= limit
    BY <1>2
  <2>2. PICK s \in kept : rank[s] = n
    BY <1>1, <2>1
  <2>3. hit(s) \in top
    BY <2>1, <2>2 DEF TopHits
  <2> QED
    BY <2>2, <2>3
<1> HIDE DEF m
<1>5. ranks \in Injection(top, 1..m)
  <2>1. ranks \in [top -> 1..m]
    BY <1>3
  <2>2. \A h, g \in top : ranks[h] = ranks[g] => h = g
    <3> HIDE DEF hit
    <3> QED
      BY <1>1, <1>3
  <2> HIDE DEF ranks
  <2> QED
    BY <2>1, <2>2 DEF Injection, IsInjective
<1>6. ranks \in Surjection(top, 1..m)
  <2>1. ranks \in [top -> 1..m]
    BY <1>3
  <2>2. \A n \in 1..m : \E h \in top : ranks[h] = n
    <3> HIDE DEF hit
    <3> QED
      BY <1>4
  <2> HIDE DEF ranks
  <2> QED
    BY <2>1, <2>2 DEF Surjection
<1> HIDE DEF ranks
<1>7. Cardinality(top) = m
  <2>1. IsFiniteSet(1..m) /\ Cardinality(1..m) = m
    <3>1. 1 \in Int /\ m \in Int
      BY <1>2
    <3>2. IsFiniteSet(1..m) /\ Cardinality(1..m) = IF 1 > m THEN 0 ELSE m - 1 + 1
      BY <3>1, FS_Interval
    <3> QED
      BY <1>2, <3>2
  <2> QED
    BY <1>5, <1>6, <2>1, FS_Injection
<1>8. {h.rank : h \in top} = 1..m
  <2> HIDE DEF hit
  <2> QED
    BY <1>3, <1>4
<1>9. ASSUME m < limit PROVE \A s \in kept : \E h \in top : h.record = s.record
  <2> SUFFICES ASSUME NEW s \in kept PROVE \E h \in top : h.record = s.record
    OBVIOUS
  <2>1. rank[s] \in 1..m
    BY <1>1, <1>2, <1>9
  <2>2. rank[s] <= limit
    BY <1>2, <2>1
  <2>3. hit(s) \in top /\ hit(s).record = s.record
    BY <2>2 DEF TopHits
  <2> QED
    BY <2>3
<1> QED
  BY <1>7, <1>8, <1>9 DEF InRanks

\* What the ranker makes of a hit, and the hits that stay.
SharedWith(h, anchors) == \E a \in anchors : X!HasSharedSource(h.record, a.record)
ShelfFor(h, shelf, anchors) ==
  X!Bucket(h.record, shelf, shelf # "none" /\ anchors # {}, SharedWith(h, anchors))
ScoredFor(h, q, shelf, anchors) ==
  [record |-> h.record, score |-> h.score, n |-> h.n, bucket |-> ShelfFor(h, shelf, anchors),
   final |-> X!FinalScore(q, h.record, h.score, shelf, ShelfFor(h, shelf, anchors), SharedWith(h, anchors))]
KeptHits(hits, q, shelf, anchors) == {s \in {ScoredFor(h, q, shelf, anchors) : h \in hits} : s.bucket # 3}

RankIn(kept) == [s \in kept |-> 1 + Cardinality({t \in kept : X!RankedBefore(t, s)})]

LEMMA MemoryCardinality == \A set : X!Cardinality(set) = Cardinality(set)
BY DEF X!Cardinality, Cardinality, X!IsFiniteSet, IsFiniteSet

LEMMA RankedParts ==
  ASSUME NEW q, NEW hits, NEW shelf, shelf = X!InferVectorMemoryQueryIntent(q),
         NEW anchors, anchors = X!Anchors(hits, shelf),
         NEW found, found = X!RankVectorMemoryHits(q, hits),
         NEW kept, kept = KeptHits(hits, q, shelf, anchors)
  PROVE  /\ found.kind = shelf /\ found.anchor = {a.record : a \in anchors}
         /\ found.hits = TopHits(kept, RankIn(kept), MemoryTopK)
<1> DEFINE rank == RankIn(kept)
           inferred == X!InferVectorMemoryQueryIntent(q)
           all == X!Anchors(hits, inferred)
           locked == inferred # "none" /\ all # {}
           Weighed(h) ==
             LET same == \E a \in all : X!HasSharedSource(h.record, a.record)
                 bucket == X!Bucket(h.record, inferred, locked, same)
             IN [record |-> h.record, score |-> h.score, n |-> h.n, bucket |-> bucket,
                 final |-> X!FinalScore(q, h.record, h.score, inferred, bucket, same)]
           some == {s \in {Weighed(h) : h \in hits} : s.bucket # 3}
           Rank(s) == 1 + X!Cardinality({u \in some : X!RankedBefore(u, s)})
           ranked == {[record |-> s.record, bucket |-> s.bucket, rank |-> Rank(s)] :
                        s \in {u \in some : Rank(u) <= MemoryTopK}}
           below == {h.record : h \in {g \in hits : g.score < X!MinPrimaryScore}}
           heads == {a.record : a \in all}
<1>1. found = [kind |-> inferred, anchor |-> heads, below |-> below, hits |-> ranked]
  BY Zenon DEF X!RankVectorMemoryHits
<1>2. found.kind = inferred /\ found.anchor = heads /\ found.hits = ranked
  <2> HIDE DEF inferred, heads, below, ranked
  <2> QED
    BY <1>1
<1>3. some = kept
  <2>1. all = anchors /\ inferred = shelf
    OBVIOUS
  <2>2. \A h \in hits : Weighed(h) = ScoredFor(h, q, shelf, anchors)
    BY <2>1, Zenon DEF ScoredFor, ShelfFor, SharedWith
  <2> HIDE DEF Weighed
  <2> QED
    BY <2>2 DEF KeptHits
<1>4. \A s \in kept : Rank(s) = rank[s]
  BY <1>3, MemoryCardinality DEF RankIn
<1> HIDE DEF rank
<1> DEFINE hit(s, n) == [record |-> s.record, bucket |-> s.bucket, rank |-> n]
           top == {hit(s, rank[s]) : s \in {t \in kept : rank[t] <= MemoryTopK}}
<1>5. ranked = {hit(s, Rank(s)) : s \in {u \in some : Rank(u) <= MemoryTopK}}
  OBVIOUS
<1> HIDE DEF some, Rank, hit, ranked
<1>6. ranked = top
  <2>1. ASSUME NEW x \in ranked PROVE x \in top
    <3>1. PICK s \in some : Rank(s) <= MemoryTopK /\ x = hit(s, Rank(s))
      BY <1>5
    <3>2. s \in kept /\ Rank(s) = rank[s]
      BY <1>3, <1>4
    <3> QED
      BY <3>1, <3>2
  <2>2. ASSUME NEW x \in top PROVE x \in ranked
    <3>1. PICK s \in kept : rank[s] <= MemoryTopK /\ x = hit(s, rank[s])
      OBVIOUS
    <3>2. s \in some /\ Rank(s) = rank[s]
      BY <1>3, <1>4
    <3> QED
      BY <1>5, <3>1, <3>2
  <2> HIDE DEF top
  <2> QED
    BY <2>1, <2>2
<1> QED
  BY <1>2, <1>6 DEF hit, TopHits, rank

LEMMA FinalWhole ==
  ASSUME NEW q, NEW r, NEW score \in Int, NEW shelf, NEW bucket, NEW same
  PROVE  X!FinalScore(q, r, score, shelf, bucket, same) \in Int
<1> DEFINE surface == X!SurfaceFromQuery(q.terms)
           weight == X!AuthorityWeight(r, surface)
           guard == X!SurfaceGuard(r, surface)
           lexical == X!LexicalIntentMatch(q, r, shelf)
           trace == X!TraceQuality(r)
           base == CASE bucket = 0 -> 34 [] bucket = 1 -> 8 [] OTHER -> -18
           extra == CASE bucket = 0 -> 18 [] bucket = 1 -> 6 [] bucket = 2 -> 0 [] OTHER -> -20
           shared == IF same THEN 12 ELSE 0
<1>1. weight \in Int
  <2> HIDE DEF surface
  <2> QED
    BY DEF X!AuthorityWeight
<1>2. guard \in Int
  <2> HIDE DEF surface
  <2> QED
    BY DEF X!SurfaceGuard
<1>3. lexical \in Int
  BY DEF X!LexicalIntentMatch
<1>4. trace \in Int
  BY DEF X!TraceQuality
<1>5. base \in Int /\ extra \in Int /\ shared \in Int
  OBVIOUS
<1>6. X!FinalScore(q, r, score, shelf, bucket, same)
        = score + base + extra + shared + weight + trace + lexical + guard
  BY DEF X!FinalScore
<1> HIDE DEF weight, guard, lexical, trace, base, extra, shared
<1> QED
  BY <1>1, <1>2, <1>3, <1>4, <1>5, <1>6

\* The hits that stay: of records of the inventory, each with a place of its own, on a
\* shelf from 0 to 2.
LEMMA KeptFacts ==
  ASSUME NEW inventory, Stored(inventory), NEW first \in inventory, NEW second \in inventory,
         NEW rest \in {20, 50}, NEW q, NEW shelf, NEW anchors,
         NEW kept, kept = KeptHits(GivenHits(inventory, first, second, rest), q, shelf, anchors)
  PROVE  /\ \A s \in kept :
              /\ s.record \in inventory /\ s.bucket \in 0..2 /\ s.score \in Int /\ s.final \in Int
              /\ s.n \in 0..89
         /\ \A s, t \in kept : s.n = t.n => s = t
         /\ IsFiniteSet(kept)
<1> DEFINE hit(r) == Given(r, first, second, rest)
           weighed(r) == ScoredFor(hit(r), q, shelf, anchors)
<1>1. ASSUME NEW s \in kept PROVE \E r \in inventory : s = weighed(r) /\ s.bucket # 3
  <2>1. kept = {x \in {ScoredFor(h, q, shelf, anchors) : h \in GivenHits(inventory, first, second, rest)} : x.bucket # 3}
    BY DEF KeptHits
  <2>2. PICK h \in GivenHits(inventory, first, second, rest) : s = ScoredFor(h, q, shelf, anchors) /\ s.bucket # 3
    BY <2>1
  <2>3. PICK r \in inventory : h = hit(r)
    BY DEF GivenHits
  <2> HIDE DEF hit
  <2> QED
    BY <2>2, <2>3
<1>2. ASSUME NEW r \in inventory
      PROVE  LET s == weighed(r) IN
             /\ s.record = r /\ s.n = Placed(r, first, second) /\ s.score \in Int /\ s.final \in Int
             /\ s.bucket \in 0..3
  <2> DEFINE score == IF r = first THEN 91 ELSE IF r = second THEN 62 ELSE rest
             n == Placed(r, first, second)
             h == hit(r)
             bucket == ShelfFor(h, shelf, anchors)
             same == SharedWith(h, anchors)
             final == X!FinalScore(q, h.record, h.score, shelf, bucket, same)
             s == weighed(r)
  <2>1. h = [record |-> r, score |-> score, n |-> n]
    BY DEF Given
  <2>2. score \in Int
    OBVIOUS
  <2> HIDE DEF score, n
  <2>3. h.record = r /\ h.score = score /\ h.n = n
    BY <2>1
  <2> HIDE DEF h
  <2>4. final \in Int
    BY <2>2, <2>3, FinalWhole
  <2>5. bucket \in 0..3
    BY DEF ShelfFor, X!Bucket
  <2>6. s = [record |-> h.record, score |-> h.score, n |-> h.n, bucket |-> bucket, final |-> final]
    BY Zenon DEF ScoredFor, h
  <2> HIDE DEF bucket, final, s
  <2>7. s.record = r /\ s.n = n /\ s.score \in Int /\ s.final \in Int /\ s.bucket \in 0..3
    BY <2>2, <2>3, <2>4, <2>5, <2>6
  <2> QED
    BY <2>7 DEF s, n
<1> HIDE DEF weighed
<1>3. \A r \in inventory : Placed(r, first, second) \in 0..89
  BY PlacesDiffer
<1>4. \A r, x \in inventory : Placed(r, first, second) = Placed(x, first, second) => r = x
  BY PlacesDiffer
<1>5. \A s \in kept :
        /\ s.record \in inventory /\ s.bucket \in 0..2 /\ s.score \in Int /\ s.final \in Int
        /\ s.n = Placed(s.record, first, second) /\ s = weighed(s.record)
  <2> SUFFICES ASSUME NEW s \in kept
               PROVE  /\ s.record \in inventory /\ s.bucket \in 0..2 /\ s.score \in Int /\ s.final \in Int
                      /\ s.n = Placed(s.record, first, second) /\ s = weighed(s.record)
    OBVIOUS
  <2>1. PICK r \in inventory : s = weighed(r) /\ s.bucket # 3
    BY <1>1
  <2>2. s.record = r /\ s.n = Placed(r, first, second) /\ s.score \in Int /\ s.final \in Int /\ s.bucket \in 0..3
    BY <1>2, <2>1
  <2> QED
    BY <2>1, <2>2
<1>6. \A s, t \in kept : s.n = t.n => s = t
  BY <1>4, <1>5
<1>7. \A s \in kept : s.n \in 0..89
  BY <1>3, <1>5
<1>8. IsFiniteSet(kept)
  <2> DEFINE places == [s \in kept |-> s.n]
  <2>1. places \in [kept -> 0..89]
    BY <1>7
  <2>2. \A s, t \in kept : places[s] = places[t] => s = t
    BY <1>6
  <2> HIDE DEF places
  <2>3. places \in Injection(kept, 0..89)
    BY <2>1, <2>2 DEF Injection, IsInjective
  <2>4. IsFiniteSet(0..89)
    <3>1. 0 \in Int /\ 89 \in Int
      OBVIOUS
    <3> QED
      BY <3>1, FS_Interval
  <2> QED
    BY <2>3, <2>4, FS_Injection
<1> QED
  BY <1>5, <1>6, <1>7, <1>8

\* The ranking of a search: the ranks of its hits are those from 1 to their number, and
\* when there is room left every hit that stays is among them.
Answered(inventory, q, hits, found) ==
  LET shelf == X!InferVectorMemoryQueryIntent(q)
      anchors == X!Anchors(hits, shelf)
  IN  /\ found.kind = shelf /\ found.anchor = {a.record : a \in anchors}
      /\ InRanks(KeptHits(hits, q, shelf, anchors), MemoryTopK, found.hits)
      /\ \A h \in found.hits : h.record \in inventory /\ h.bucket \in 0..2

LEMMA RankedHits ==
  ASSUME NEW inventory, Stored(inventory), NEW first \in inventory, NEW second \in inventory,
         NEW rest \in {20, 50}, NEW q
  PROVE  LET hits == GivenHits(inventory, first, second, rest)
         IN  Answered(inventory, q, hits, X!RankVectorMemoryHits(q, hits))
<1> DEFINE hits == GivenHits(inventory, first, second, rest)
           shelf == X!InferVectorMemoryQueryIntent(q)
           anchors == X!Anchors(hits, shelf)
           kept == KeptHits(hits, q, shelf, anchors)
           found == X!RankVectorMemoryHits(q, hits)
<1>15. /\ found.kind = shelf /\ found.anchor = {a.record : a \in anchors}
       /\ found.hits = TopHits(kept, RankIn(kept), MemoryTopK)
  BY RankedParts
<1> DEFINE less == {p \in kept \X kept : X!RankedBefore(p[1], p[2])}
           rank == RankIn(kept)
           hit(s) == [record |-> s.record, bucket |-> s.bucket, rank |-> rank[s]]
           size == Cardinality(kept)
<1>1. /\ \A s \in kept :
              /\ s.record \in inventory /\ s.bucket \in 0..2 /\ s.score \in Int /\ s.final \in Int
              /\ s.n \in 0..89
      /\ \A s, t \in kept : s.n = t.n => s = t
      /\ IsFiniteSet(kept)
  BY KeptFacts
<1> HIDE DEF hits, shelf, anchors, kept, found
<1>2. \A s, t \in kept : <<s, t>> \in less <=> X!RankedBefore(s, t)
  OBVIOUS
<1> HIDE DEF less
<1>3. \A s \in kept : <<s, s>> \notin less
  BY <1>1, <1>2 DEF X!RankedBefore, X!InputBefore
<1>11. \A s, t \in kept :
         X!RankedBefore(s, t) <=>
           \/ s.bucket < t.bucket
           \/ /\ s.bucket = t.bucket
              /\ \/ s.final > t.final
                 \/ s.final = t.final /\ (s.score > t.score \/ (s.score = t.score /\ s.n < t.n))
  BY DEF X!RankedBefore, X!InputBefore
<1>12. \A s \in kept : s.bucket \in Int /\ s.final \in Int /\ s.score \in Int /\ s.n \in Int
  BY <1>1
<1>4. \A s, t \in kept : s = t \/ <<s, t>> \in less \/ <<t, s>> \in less
  <2> SUFFICES ASSUME NEW s \in kept, NEW t \in kept, s # t
               PROVE  X!RankedBefore(s, t) \/ X!RankedBefore(t, s)
    BY <1>2, Zenon
  <2>1. s.n # t.n
    BY <1>1
  <2> QED
    BY <1>11, <1>12, <2>1
<1>5. \A s, t, u \in kept : <<s, t>> \in less /\ <<t, u>> \in less => <<s, u>> \in less
  <2> SUFFICES ASSUME NEW s \in kept, NEW t \in kept, NEW u \in kept,
                      X!RankedBefore(s, t), X!RankedBefore(t, u)
               PROVE  X!RankedBefore(s, u)
    BY <1>2
  <2> QED
    BY <1>11, <1>12
<1>6. rank = [s \in kept |-> 1 + Cardinality({t \in kept : <<t, s>> \in less})]
  <2>1. \A s \in kept : {t \in kept : X!RankedBefore(t, s)} = {t \in kept : <<t, s>> \in less}
    BY <1>2
  <2> QED
    BY <2>1 DEF RankIn
<1> HIDE DEF rank
<1>13. Rankable(kept, less, rank)
  BY <1>1, <1>3, <1>4, <1>5, <1>6 DEF Rankable
<1>7. size \in Nat /\ rank \in Bijection(kept, 1..size)
  BY <1>13, Ranks
<1>14. MemoryTopK \in Nat
  BY DeckAssumption
<1> HIDE DEF size
<1> DEFINE top == TopHits(kept, rank, MemoryTopK)
<1>9. InRanks(kept, MemoryTopK, top)
  BY <1>7, <1>14, TopRanks
<1>10. \A h \in top : h.record \in inventory /\ h.bucket \in 0..2
  <2> SUFFICES ASSUME NEW h \in top PROVE h.record \in inventory /\ h.bucket \in 0..2
    OBVIOUS
  <2>1. PICK s \in kept : h = hit(s)
    BY DEF TopHits
  <2>2. h.record = s.record /\ h.bucket = s.bucket
    BY <2>1
  <2> QED
    BY <1>1, <2>2
<1>16. found.hits = top
  BY <1>15 DEF rank
<1> HIDE DEF top
<1> QED
  BY <1>9, <1>10, <1>15, <1>16 DEF Answered, kept, shelf, anchors, hits, found

LEMMA MemoryProperties == MemoryIInv => X!TypeOK /\ X!OnlyBoundariesInfluence /\ X!BoundaryComesAlong
<1> SUFFICES ASSUME MemoryIInv PROVE X!TypeOK /\ X!OnlyBoundariesInfluence /\ X!BoundaryComesAlong
  OBVIOUS
<1>1. \A r \in s1 : StoredRecord(r)
  BY DEF MemoryIInv, Stored
<1>2. X!OnlyBoundariesInfluence
  BY <1>1 DEF X!OnlyBoundariesInfluence, StoredRecord
<1>3. /\ \A r, q \in s1 : r.id = q.id => r = q
      /\ \A r \in s1 : r.kind \in X!Kinds /\ r.approval \in BOOLEAN
      /\ s2.ok \in BOOLEAN /\ s5 \in 0..MemoryRuns
  BY <1>1 DEF MemoryIInv, Stored, StoredRecord
<1>4. X!Cardinality(s3) <= 1
  <2>1. CASE s3 = {}
    BY <2>1, MemoryCardinality, FS_EmptySet
  <2>2. CASE \E q : s3 = {q}
    BY <2>2, MemoryCardinality, FS_Singleton
  <2> QED
    BY <2>1, <2>2 DEF MemoryIInv
<1>5. CASE s4 = X!NoRanking
  <2>1. s4.hits = {} /\ s4.kind = "none" /\ s4.anchor = {}
    BY <1>5 DEF X!NoRanking
  <2>2. X!Cardinality(s4.hits) = 0
    BY <2>1, MemoryCardinality, FS_EmptySet
  <2>3. {h.rank : h \in s4.hits} = 1..X!Cardinality(s4.hits)
    BY <2>1, <2>2
  <2> QED
    BY <1>2, <1>3, <1>4, <2>1, <2>3 DEF X!TypeOK, X!BoundaryComesAlong
<1>6. CASE s4 # X!NoRanking
  <2>0. PICK q : \E first, second \in s1, rest \in {20, 50} :
          s4 = X!RankVectorMemoryHits(q, GivenHits(s1, first, second, rest))
    BY <1>6 DEF MemoryIInv
  <2>1. PICK first \in s1, second \in s1, rest \in {20, 50} :
          s4 = X!RankVectorMemoryHits(q, GivenHits(s1, first, second, rest))
    BY <2>0
  <2> DEFINE hits == GivenHits(s1, first, second, rest)
             shelf == X!InferVectorMemoryQueryIntent(q)
             anchors == X!Anchors(hits, shelf)
             kept == KeptHits(hits, q, shelf, anchors)
  <2>2. Stored(s1)
    BY DEF MemoryIInv
  <2>3. s4 = X!RankVectorMemoryHits(q, hits)
    BY <2>1
  <2>7. Answered(s1, q, hits, s4)
    BY <2>2, <2>3, RankedHits
  <2>4. /\ s4.kind = shelf /\ s4.anchor = {a.record : a \in anchors}
        /\ {h.rank : h \in s4.hits} = 1..Cardinality(s4.hits)
        /\ \A h \in s4.hits : h.record \in s1 /\ h.bucket \in 0..2
        /\ Cardinality(s4.hits) < MemoryTopK => \A s \in kept : \E h \in s4.hits : h.record = s.record
    BY <2>7 DEF Answered, InRanks
  <2>5. X!TypeOK
    <3> HIDE DEF hits, shelf, anchors, kept
    <3> QED
      BY <1>3, <1>4, <2>4, MemoryCardinality DEF X!TypeOK
  <2>6. X!BoundaryComesAlong
    <3> SUFFICES ASSUME s4.kind = "repair_work_order", Cardinality(s4.hits) < MemoryTopK,
                        NEW a \in s4.anchor, NEW b \in s1, b.kind = "policy_boundary", b.source = a.source
                 PROVE  \E h \in s4.hits : h.record = b
      BY MemoryCardinality DEF X!BoundaryComesAlong
    <3>1. shelf = "repair_work_order"
      BY <2>4
    <3>2. PICK x \in anchors : a = x.record
      <4> HIDE DEF anchors
      <4> QED
        BY <2>4
    <3> DEFINE h == Given(b, first, second, rest)
               same == SharedWith(h, anchors)
               s == ScoredFor(h, q, shelf, anchors)
    <3>3. h \in hits /\ h.record = b
      BY DEF GivenHits, Given
    <3>4. b.source \notin {"unknown", "none"}
      <4>1. StoredRecord(b) /\ b.kind \notin BridgeKinds
        BY <1>1 DEF BridgeKinds
      <4>2. PICK o \in MemoryOrders : o.id = b.source
        BY <4>1 DEF StoredRecord
      <4> QED
        BY <4>2, DeckAssumption DEF Ordered
    <3>5. same
      <4>1. X!HasSharedSource(b, a)
        BY <3>4 DEF X!HasSharedSource, X!SourceKeys
      <4> HIDE DEF h, anchors
      <4> QED
        BY <3>2, <3>3, <4>1 DEF SharedWith
    <3>6. s.bucket # 3 /\ s.record = b
      <4> DEFINE bucket == ShelfFor(h, shelf, anchors)
                 final == X!FinalScore(q, h.record, h.score, shelf, bucket, same)
      <4>1. bucket = 1
        <5>1. X!PrimaryKinds(shelf) = {"repair_work_order"}
          BY <3>1 DEF X!PrimaryKinds
        <5>2. b.kind \in X!SupportKindsForIntent(shelf)
          <6>1. X!SupportKinds["repair_work_order"] = {"policy_boundary", "decision_trace", "audit_log"}
            BY KindsPlanned DEF X!SupportKinds
          <6> QED
            BY <3>1, <6>1 DEF X!SupportKindsForIntent
        <5> HIDE DEF h, anchors, shelf, same
        <5>3. bucket = X!Bucket(h.record, shelf, shelf # "none" /\ anchors # {}, same)
          BY DEF ShelfFor, same
        <5> QED
          BY <3>3, <3>5, <5>1, <5>2, <5>3 DEF X!Bucket
      <4>2. s = [record |-> h.record, score |-> h.score, n |-> h.n, bucket |-> bucket, final |-> final]
        BY Zenon DEF ScoredFor
      <4> HIDE DEF h, bucket, final, s
      <4>3. s.record = h.record /\ s.bucket = bucket
        BY <4>2
      <4> QED
        BY <3>3, <4>1, <4>3
    <3>7. s \in kept
      <4> HIDE DEF hits, h, shelf, anchors
      <4> QED
        BY <3>3, <3>6 DEF KeptHits
    <3> HIDE DEF kept, s
    <3> QED
      BY <2>4, <3>6, <3>7
  <2> QED
    BY <1>2, <2>5, <2>6
<1> QED
  BY <1>5, <1>6

-----------------------------------------------------------------------------
(* Where the distiller and the loop agree. A lesson is cut so that its     *)
(* signals lead back to its route, by rules of the loop as well; a window  *)
(* without a lesson of its own has no signal that both know.               *)

\* What a lesson expects of the loop, and why: it is cut to a route that its signals lead
\* back to, or no route that the window falls back on is one its signals lead to.
LEMMA LessonMade ==
  ASSUME NEW s, s.turns \in Seq(LessonTurns), s.evidence \subseteq Nat \ {0}, L!AtMostOne(s.evidence),
         NEW l \in L!BuildAtomicLessons(s)
  PROVE  /\ l.expectedRoute = L!ExpectedRouteFor(l.signals)
         /\ l.expectation = L!ExpectationFor(l.expectedRoute)
         /\ \/ \E r \in L!LessonRoutes :
                  /\ l.signals \subseteq L!LessonAllowedSignals[r] /\ l.expectedRoute = r
                  /\ r # "damping" => l.evidence >= 2
            \/ /\ l.signals = {"unsupported_signal"} \/ l.signals = L!SourceSignals(s)
               /\ l.evidence = 1 \/ l.evidence \in s.evidence
               /\ \A r \in L!LessonRoutes : L!SourceLevelFallbackAllowed(L!SourceSignals(s), r) =>
                    \E k \in SUBSET L!LessonAllowedSignals[r] :
                      /\ k \subseteq L!SourceSignals(s) \cup {L!LessonFallbackSignal[r]}
                      /\ L!Of(k, r) /\ L!ExpectedRouteFor(k) # r
<1> DEFINE segments == L!BuildSegments(s)
           signals == L!SourceSignals(s)
           supporting(r) == {i \in DOMAIN segments : L!SegmentSupportsLessonRoute(segments[i], r)}
           from(r) == IF supporting(r) # {} THEN supporting(r) ELSE DOMAIN segments
           kept(r) == L!LessonSignalsFor(r, signals, {segments[i] : i \in from(r)})
           routes == {r \in L!LessonRoutes :
                        /\ supporting(r) # {} \/ L!SourceLevelFallbackAllowed(signals, r)
                        /\ L!ExpectedRouteFor(kept(r)) = r}
           count(r) == L!LessonEvidenceCountFor(r, s, L!Cardinality(from(r)), kept(r))
           lesson(r) == L!BuildLearningEvent(s, r, from(r), kept(r), count(r),
              L!LessonRiskFor(r, s, kept(r)), L!LessonArtifactEvidenceFor(r, s))
           ignored == IF signals = {} THEN {"unsupported_signal"} ELSE signals
           given == IF s.evidence = {} THEN 1 ELSE L!Max(s.evidence)
<1>1. ASSUME NEW x, NEW r, NEW f, NEW k, NEW e, NEW n, NEW a, x = L!BuildLearningEvent(s, r, f, k, e, n, a)
      PROVE  /\ x.signals = k /\ x.evidence = e
             /\ x.expectedRoute = L!ExpectedRouteFor(k)
             /\ x.expectation = L!ExpectationFor(L!ExpectedRouteFor(k))
  BY <1>1 DEF L!BuildLearningEvent
<1>2. CASE routes # {}
  <2>1. L!BuildAtomicLessons(s) = {lesson(r) : r \in routes}
    BY <1>2 DEF L!BuildAtomicLessons
  <2>2. PICK r \in routes : l = lesson(r)
    <3> HIDE DEF lesson, routes
    <3> QED
      BY <2>1
  <2>3. r \in L!LessonRoutes /\ L!ExpectedRouteFor(kept(r)) = r
    OBVIOUS
  <2>4. /\ l.signals = kept(r) /\ l.evidence = count(r)
        /\ l.expectedRoute = L!ExpectedRouteFor(kept(r))
        /\ l.expectation = L!ExpectationFor(L!ExpectedRouteFor(kept(r)))
    <3> HIDE DEF kept, from, count
    <3> QED
      BY <1>1, <2>2
  <2>5. kept(r) \subseteq L!LessonAllowedSignals[r] /\ IsFiniteSet(kept(r))
    <3> HIDE DEF signals, segments, from
    <3> QED
      BY <2>3, LearntSignals
  <2>6. r # "damping" => count(r) >= 2
    <3>1. IsFiniteSet(from(r))
      BY LearntSegments, FS_Subset
    <3> HIDE DEF from, kept
    <3>2. L!Cardinality(from(r)) \in Nat /\ L!Cardinality(kept(r)) \in Nat
      BY <3>1, <2>5, LearnedCardinality, FS_CardinalityType
    <3> DEFINE least == IF r = "damping" THEN 1 ELSE 2
               made == L!Cardinality(from(r)) + L!Cardinality(kept(r))
    <3>3. count(r) = L!Max({least, made} \cup s.evidence)
      BY DEF L!LessonEvidenceCountFor
    <3>4. least \in Nat \ {0} /\ made \in Nat /\ (r # "damping" => least = 2)
      BY <3>2
    <3> HIDE DEF least, made, count
    <3>5. L!Max({least, made} \cup s.evidence) \in Nat /\ L!Max({least, made} \cup s.evidence) >= least
      BY <3>4, CountedEvidence
    <3> QED
      BY <3>3, <3>4, <3>5
  <2> HIDE DEF segments, kept, from, count, routes
  <2> QED
    BY <2>3, <2>4, <2>5, <2>6
<1>3. CASE routes = {}
  <2>1. PICK n, a : l = L!BuildLearningEvent(s, "ignore", DOMAIN segments, ignored, given, n, a)
    BY <1>3 DEF L!BuildAtomicLessons
  <2>2. /\ l.signals = ignored /\ l.evidence = given
        /\ l.expectedRoute = L!ExpectedRouteFor(ignored)
        /\ l.expectation = L!ExpectationFor(L!ExpectedRouteFor(ignored))
    <3> HIDE DEF ignored, segments, given
    <3> QED
      BY <1>1, <2>1
  <2>3. given = 1 \/ given \in s.evidence
    <3>1. s.evidence \subseteq Nat
      OBVIOUS
    <3> QED
      BY <3>1, CountedEvidence
  <2>4. ASSUME NEW r \in L!LessonRoutes, L!SourceLevelFallbackAllowed(signals, r)
        PROVE  \E k \in SUBSET L!LessonAllowedSignals[r] :
                 /\ k \subseteq signals \cup {L!LessonFallbackSignal[r]}
                 /\ L!Of(k, r) /\ L!ExpectedRouteFor(k) # r
    <3>1. L!ExpectedRouteFor(kept(r)) # r
      BY <1>3, <2>4
    <3> DEFINE said == {segments[i] : i \in from(r)}
    <3>2. UNION said \subseteq signals
      BY DEF L!SourceSignals
    <3> HIDE DEF said, signals
    <3>3. kept(r) \subseteq signals \cup {L!LessonFallbackSignal[r]}
      BY <3>2 DEF L!LessonSignalsFor, said
    <3>4. kept(r) \subseteq L!LessonAllowedSignals[r] /\ L!Of(kept(r), r)
      <4> HIDE DEF segments, from
      <4> QED
        BY LearntSignals
    <3> HIDE DEF kept
    <3> QED
      BY <3>1, <3>3, <3>4
  <2> HIDE DEF signals, segments, given, routes, kept
  <2> QED
    BY <2>2, <2>3, <2>4 DEF signals, segments
<1> QED
  BY <1>2, <1>3

\* The rules of the distiller, and those of the loop, signal by signal.
LEMMA DistillerSpelled ==
  ASSUME NEW k
  PROVE  L!ExpectedRouteFor(k) =
           IF "candidate_replay_failed" \in k \/ (("avoid_overreaction" \in k \/ "single_failure" \in k)
                /\ "public_posting_boundary" \notin k /\ "farcaster_public_memory_risk" \notin k)
           THEN "damping"
           ELSE IF "explicit_user_boundary" \in k \/ "public_posting_boundary" \in k \/ "farcaster_public_memory_risk" \in k
           THEN "policy"
           ELSE IF "knowledge_gap" \in k \/ "research_needed" \in k \/ "user_correction" \in k THEN "case"
           ELSE IF "external_framework_change" \in k \/ "competitor_change" \in k \/ "reusable_workflow" \in k THEN "skill"
           ELSE IF "repeated_failure_pattern" \in k THEN "case"
           ELSE IF "stable_user_preference" \in k \/ "stable_project_fact" \in k \/ "repeated_terminology" \in k THEN "memory"
           ELSE "ignore"
<1>1. /\ L!HasAnySignal(k, {"avoid_overreaction", "single_failure"}) <=> "avoid_overreaction" \in k \/ "single_failure" \in k
      /\ L!HasAnySignal(k, {"public_posting_boundary", "farcaster_public_memory_risk"})
           <=> "public_posting_boundary" \in k \/ "farcaster_public_memory_risk" \in k
  BY DEF L!HasAnySignal
<1>2. /\ L!HasAnySignal(k, {"knowledge_gap", "research_needed", "user_correction"})
           <=> "knowledge_gap" \in k \/ "research_needed" \in k \/ "user_correction" \in k
      /\ L!HasAnySignal(k, {"external_framework_change", "competitor_change", "reusable_workflow"})
           <=> "external_framework_change" \in k \/ "competitor_change" \in k \/ "reusable_workflow" \in k
  BY DEF L!HasAnySignal
<1>3. /\ L!Of(k, "policy") <=> \/ "explicit_user_boundary" \in k \/ "public_posting_boundary" \in k
                               \/ "farcaster_public_memory_risk" \in k
      /\ L!Of(k, "memory") <=> \/ "stable_user_preference" \in k \/ "stable_project_fact" \in k
                               \/ "repeated_terminology" \in k
  BY DEF L!Of, L!HasAnySignal, L!LessonRouteSignals
<1> QED
  BY <1>1, <1>2, <1>3, SMTT(60) DEF L!ExpectedRouteFor

LEMMA LoopSpelled ==
  ASSUME NEW e, "context_injection_risk" \notin e.signals, "memory_provider_takeover_risk" \notin e.signals,
         "candidate_replay_failed" \notin e.signals
  PROVE  LET route == L!ClassifyRoute(e) IN
         /\ route.target =
              IF /\ "avoid_overreaction" \in e.signals \/ "single_failure" \in e.signals
                 /\ "public_posting_boundary" \notin e.signals /\ "farcaster_public_memory_risk" \notin e.signals
              THEN "damping"
              ELSE IF \/ "explicit_user_boundary" \in e.signals \/ "public_posting_boundary" \in e.signals
                      \/ "farcaster_public_memory_risk" \in e.signals
              THEN "policy"
              ELSE IF "reusable_workflow" \in e.signals /\ e.evidence >= 2 THEN "skill"
              ELSE IF "repeated_failure_pattern" \in e.signals /\ e.evidence >= 2 THEN "case"
              ELSE IF ("stable_user_preference" \in e.signals \/ "stable_project_fact" \in e.signals) /\ e.evidence >= 2
              THEN "memory"
              ELSE "ignore"
         /\ route.status = L!ExpectationFor(route.target).status
         /\ route.publication = L!ExpectationFor(route.target).publication
         /\ route.state = L!ExpectationFor(route.target).state
<1>1. /\ ~L!HasSignal(e, {"candidate_replay_failed"})
      /\ L!HasSignal(e, {"reusable_workflow"}) <=> "reusable_workflow" \in e.signals
      /\ L!HasSignal(e, {"repeated_failure_pattern"}) <=> "repeated_failure_pattern" \in e.signals
      /\ L!HasSignal(e, {"stable_user_preference", "stable_project_fact"})
           <=> "stable_user_preference" \in e.signals \/ "stable_project_fact" \in e.signals
      /\ L!HasSignal(e, L!OverreactionSignals) <=> "avoid_overreaction" \in e.signals \/ "single_failure" \in e.signals
  BY DEF L!HasSignal, L!OverreactionSignals
<1>2. /\ L!HasSignal(e, L!PolicyBoundarySignals)
           <=> "public_posting_boundary" \in e.signals \/ "farcaster_public_memory_risk" \in e.signals
      /\ L!HasSignal(e, {"explicit_user_boundary"} \cup L!PolicyBoundarySignals)
           <=> \/ "explicit_user_boundary" \in e.signals \/ "public_posting_boundary" \in e.signals
               \/ "farcaster_public_memory_risk" \in e.signals
  BY DEF L!HasSignal, L!PolicyBoundarySignals
<1>3. \A t, a, s, p, c : LET x == L!Route(t, a, s, p, c) IN
        x.target = t /\ x.status = s /\ x.publication = p /\ x.state = c
  BY DEF L!Route
<1>4. LET x == L!ExpectationFor("policy") IN
      x.status = "requires_approval" /\ x.publication = "requires_approval" /\ x.state = "staged"
  BY DEF L!ExpectationFor
<1>5. LET x == L!ExpectationFor("damping") IN x.status = "held" /\ x.publication = "no_publish" /\ x.state = "held"
  BY DEF L!ExpectationFor
<1>6. LET x == L!ExpectationFor("ignore") IN
      x.status = "rejected" /\ x.publication = "no_publish" /\ x.state = "rejected"
  BY DEF L!ExpectationFor
<1>7. \A r \in {"skill", "case", "memory"} :
        LET x == L!ExpectationFor(r) IN x.status = "draft" /\ x.publication = "draft_only" /\ x.state = "staged"
  BY DEF L!ExpectationFor
<1> QED
  BY <1>1, <1>2, <1>3, <1>4, <1>5, <1>6, <1>7 DEF L!ClassifyRoute

\* The signals only one of the two knows.
OneSided == {"external_framework_change", "competitor_change", "knowledge_gap", "research_needed",
             "user_correction", "repeated_terminology", "candidate_replay_failed",
             "context_injection_risk", "memory_provider_takeover_risk"}

\* A lesson of a route goes that way.
LEMMA RouteTaken ==
  ASSUME NEW e, e.signals \cap OneSided = {}, NEW r \in L!LessonRoutes,
         L!ExpectedRouteFor(e.signals) = r, e.signals \subseteq L!LessonAllowedSignals[r],
         r # "damping" => e.evidence >= 2
  PROVE  L!ClassifyRoute(e).target = r
<1> DEFINE k == e.signals
<1>1. /\ "candidate_replay_failed" \notin k /\ "context_injection_risk" \notin k /\ "memory_provider_takeover_risk" \notin k
      /\ "knowledge_gap" \notin k /\ "research_needed" \notin k /\ "user_correction" \notin k
      /\ "external_framework_change" \notin k /\ "competitor_change" \notin k /\ "repeated_terminology" \notin k
  BY DEF OneSided
<1>2. r = "case" => "reusable_workflow" \notin k
  BY DEF L!LessonAllowedSignals, L!LessonRouteSignals
<1> QED
  BY <1>1, <1>2, DistillerSpelled, LoopSpelled

\* What a window says that has no lesson of its own belongs to no route.
LEMMA NothingToLearn ==
  ASSUME NEW all, all \cap OneSided = {},
         \A r \in L!LessonRoutes : L!SourceLevelFallbackAllowed(all, r) =>
            \E k \in SUBSET L!LessonAllowedSignals[r] :
              /\ k \subseteq all \cup {L!LessonFallbackSignal[r]}
              /\ L!Of(k, r) /\ L!ExpectedRouteFor(k) # r
  PROVE  \A r \in L!LessonRoutes : ~L!Of(all, r)
<1>0. L!LessonRoutes = {"policy", "damping", "skill", "case", "memory"}
  BY DEF L!LessonRoutes, L!LessonRouteSignals
<1>1. /\ "candidate_replay_failed" \notin all /\ "knowledge_gap" \notin all /\ "research_needed" \notin all
      /\ "user_correction" \notin all /\ "external_framework_change" \notin all /\ "competitor_change" \notin all
      /\ "repeated_terminology" \notin all
  BY DEF OneSided
<1>2. /\ L!LessonFallbackSignal["policy"] = "explicit_user_boundary" /\ L!LessonFallbackSignal["damping"] = "single_failure"
      /\ L!LessonFallbackSignal["skill"] = "reusable_workflow" /\ L!LessonFallbackSignal["case"] = "repeated_failure_pattern"
      /\ L!LessonFallbackSignal["memory"] = "stable_project_fact"
  BY DEF L!LessonFallbackSignal
<1>3. ASSUME L!Of(all, "policy") PROVE FALSE
  <2>1. L!SourceLevelFallbackAllowed(all, "policy")
    BY <1>3 DEF L!SourceLevelFallbackAllowed, L!OutOfRoute
  <2>2. PICK k \in SUBSET L!LessonAllowedSignals["policy"] : L!Of(k, "policy") /\ L!ExpectedRouteFor(k) # "policy"
    BY <1>0, <2>1
  <2>3. "candidate_replay_failed" \notin k /\ "avoid_overreaction" \notin k /\ "single_failure" \notin k
    BY DEF L!LessonAllowedSignals, L!LessonRouteSignals
  <2>4. "explicit_user_boundary" \in k \/ "public_posting_boundary" \in k \/ "farcaster_public_memory_risk" \in k
    BY <2>2 DEF L!Of, L!HasAnySignal, L!LessonRouteSignals
  <2> QED
    BY <2>2, <2>3, <2>4, DistillerSpelled
<1>4. ASSUME L!Of(all, "damping") PROVE FALSE
  <2>1. L!SourceLevelFallbackAllowed(all, "damping")
    BY <1>4 DEF L!SourceLevelFallbackAllowed
  <2>2. PICK k \in SUBSET L!LessonAllowedSignals["damping"] : L!Of(k, "damping") /\ L!ExpectedRouteFor(k) # "damping"
    BY <1>0, <2>1
  <2>3. "public_posting_boundary" \notin k /\ "farcaster_public_memory_risk" \notin k
    BY DEF L!LessonAllowedSignals, L!LessonRouteSignals
  <2>4. "candidate_replay_failed" \in k \/ "avoid_overreaction" \in k \/ "single_failure" \in k
    BY <2>2 DEF L!Of, L!HasAnySignal, L!LessonRouteSignals
  <2> QED
    BY <2>2, <2>3, <2>4, DistillerSpelled
<1>5. ASSUME L!Of(all, "case") PROVE FALSE
  <2>1. L!SourceLevelFallbackAllowed(all, "case")
    BY <1>3, <1>4, <1>5 DEF L!SourceLevelFallbackAllowed, L!OutOfRoute
  <2>2. PICK k \in SUBSET L!LessonAllowedSignals["case"] :
          /\ k \subseteq all \cup {"repeated_failure_pattern"}
          /\ L!Of(k, "case") /\ L!ExpectedRouteFor(k) # "case"
    BY <1>0, <1>2, <2>1
  <2>3. /\ "candidate_replay_failed" \notin k /\ "avoid_overreaction" \notin k /\ "single_failure" \notin k
        /\ "explicit_user_boundary" \notin k /\ "public_posting_boundary" \notin k /\ "farcaster_public_memory_risk" \notin k
        /\ "reusable_workflow" \notin k
    BY DEF L!LessonAllowedSignals, L!LessonRouteSignals
  <2>4. "external_framework_change" \notin k /\ "competitor_change" \notin k
    BY <1>1, <2>2
  <2>5. \/ "repeated_failure_pattern" \in k \/ "knowledge_gap" \in k
        \/ "research_needed" \in k \/ "user_correction" \in k
    BY <2>2 DEF L!Of, L!HasAnySignal, L!LessonRouteSignals
  <2> QED
    BY <2>2, <2>3, <2>4, <2>5, DistillerSpelled
<1>6. ASSUME L!Of(all, "skill") PROVE FALSE
  <2>1. L!SourceLevelFallbackAllowed(all, "skill")
    BY <1>3, <1>4, <1>5, <1>6 DEF L!SourceLevelFallbackAllowed, L!OutOfRoute
  <2>2. PICK k \in SUBSET L!LessonAllowedSignals["skill"] : L!Of(k, "skill") /\ L!ExpectedRouteFor(k) # "skill"
    BY <1>0, <2>1
  <2>3. /\ "candidate_replay_failed" \notin k /\ "avoid_overreaction" \notin k /\ "single_failure" \notin k
        /\ "explicit_user_boundary" \notin k /\ "public_posting_boundary" \notin k /\ "farcaster_public_memory_risk" \notin k
        /\ "knowledge_gap" \notin k /\ "research_needed" \notin k /\ "user_correction" \notin k
    BY DEF L!LessonAllowedSignals, L!LessonRouteSignals
  <2>4. "reusable_workflow" \in k \/ "external_framework_change" \in k \/ "competitor_change" \in k
    BY <2>2 DEF L!Of, L!HasAnySignal, L!LessonRouteSignals
  <2> QED
    BY <2>2, <2>3, <2>4, DistillerSpelled
<1>7. ASSUME L!Of(all, "memory") PROVE FALSE
  <2>0. "reusable_workflow" \notin all /\ "repeated_failure_pattern" \notin all
    BY <1>5, <1>6 DEF L!Of, L!HasAnySignal, L!LessonRouteSignals
  <2>1. L!SourceLevelFallbackAllowed(all, "memory")
    <3>1. ~L!HasAnySignal(all, {"reusable_workflow", "repeated_failure_pattern"})
      BY <2>0 DEF L!HasAnySignal
    <3>2. ~L!OutOfRoute(all, "memory")
      BY <1>3, <1>4, <3>1 DEF L!OutOfRoute
    <3> QED
      BY <1>7, <3>2 DEF L!SourceLevelFallbackAllowed
  <2>2. PICK k \in SUBSET L!LessonAllowedSignals["memory"] : L!Of(k, "memory") /\ L!ExpectedRouteFor(k) # "memory"
    BY <1>0, <2>1
  <2>3. k \subseteq {"stable_user_preference", "stable_project_fact", "repeated_terminology"}
    BY DEF L!LessonAllowedSignals, L!LessonRouteSignals
  <2>4. "stable_user_preference" \in k \/ "stable_project_fact" \in k \/ "repeated_terminology" \in k
    BY <2>2 DEF L!Of, L!HasAnySignal, L!LessonRouteSignals
  <2>5. /\ "candidate_replay_failed" \notin k /\ "avoid_overreaction" \notin k /\ "single_failure" \notin k
        /\ "explicit_user_boundary" \notin k /\ "public_posting_boundary" \notin k /\ "farcaster_public_memory_risk" \notin k
        /\ "knowledge_gap" \notin k /\ "research_needed" \notin k /\ "user_correction" \notin k
        /\ "reusable_workflow" \notin k /\ "external_framework_change" \notin k /\ "competitor_change" \notin k
        /\ "repeated_failure_pattern" \notin k
    BY <2>3
  <2> QED
    BY <2>2, <2>4, <2>5, DistillerSpelled
<1> QED
  BY <1>0, <1>3, <1>4, <1>5, <1>6, <1>7

\* What is distilled, and of what.
LEMMA DistilledLesson ==
  ASSUME LearningIInv, NEW t \in L!Distilled
  PROVE  /\ t.event \in L!BuildAtomicLessons(s1) /\ t.route = L!ClassifyRoute(t.event)
         /\ t.positive = (t.route.target # "ignore")
<1>1. t \in s3 /\ t.event.expectedRoute # "absent"
  BY DEF L!Distilled, L!Absent
<1>2. \A f : L!FixtureEvent(f).expectedRoute = "absent"
  BY DEF L!FixtureEvent, L!Absent
<1> QED
  BY <1>1, <1>2, LearntTraces, TracedLesson

LEMMA VocabularyLearnt == LearningIInv => L!KnownVocabularyAgrees
<1> SUFFICES ASSUME LearningIInv, NEW t \in L!Distilled, ~L!HasSignal(t.event, OneSided)
             PROVE  L!SimulationViolations(t) = {}
  BY DEF L!KnownVocabularyAgrees, OneSided
<1> DEFINE e == t.event
<1>1. e \in L!BuildAtomicLessons(s1) /\ t.route = L!ClassifyRoute(e)
  BY DistilledLesson
<1>2. e.signals \cap OneSided = {}
  BY DEF L!HasSignal
<1>3. s1.turns \in Seq(LessonTurns) /\ s1.evidence \subseteq Nat \ {0} /\ L!AtMostOne(s1.evidence)
  BY DEF LearningIInv, L!Windowed
<1> HIDE DEF e
<1>4. /\ e.expectedRoute = L!ExpectedRouteFor(e.signals)
      /\ e.expectation = L!ExpectationFor(e.expectedRoute)
  BY <1>1, <1>3, LessonMade
<1>5. L!ClassifyRoute(e).target = e.expectedRoute
  <2>1. ASSUME NEW r \in L!LessonRoutes, e.signals \subseteq L!LessonAllowedSignals[r], e.expectedRoute = r,
               r # "damping" => e.evidence >= 2
        PROVE  L!ClassifyRoute(e).target = e.expectedRoute
    BY <1>2, <1>4, <2>1, RouteTaken
  <2>2. ASSUME \A r \in {"policy", "damping", "skill", "case", "memory"} : ~L!Of(e.signals, r)
        PROVE  L!ClassifyRoute(e).target = e.expectedRoute
    <3>1. /\ "explicit_user_boundary" \notin e.signals /\ "public_posting_boundary" \notin e.signals
          /\ "farcaster_public_memory_risk" \notin e.signals
      BY <2>2 DEF L!Of, L!HasAnySignal, L!LessonRouteSignals
    <3>2. /\ "candidate_replay_failed" \notin e.signals /\ "avoid_overreaction" \notin e.signals
          /\ "single_failure" \notin e.signals
      BY <2>2 DEF L!Of, L!HasAnySignal, L!LessonRouteSignals
    <3>3. /\ "reusable_workflow" \notin e.signals /\ "external_framework_change" \notin e.signals
          /\ "competitor_change" \notin e.signals
      BY <2>2 DEF L!Of, L!HasAnySignal, L!LessonRouteSignals
    <3>4. /\ "repeated_failure_pattern" \notin e.signals /\ "knowledge_gap" \notin e.signals
          /\ "research_needed" \notin e.signals /\ "user_correction" \notin e.signals
      BY <2>2 DEF L!Of, L!HasAnySignal, L!LessonRouteSignals
    <3>5. /\ "stable_user_preference" \notin e.signals /\ "stable_project_fact" \notin e.signals
          /\ "repeated_terminology" \notin e.signals
      BY <2>2 DEF L!Of, L!HasAnySignal, L!LessonRouteSignals
    <3>6. L!ExpectedRouteFor(e.signals) = "ignore"
      BY <3>1, <3>2, <3>3, <3>4, <3>5, DistillerSpelled
    <3>7. "context_injection_risk" \notin e.signals /\ "memory_provider_takeover_risk" \notin e.signals
      BY <1>2 DEF OneSided
    <3>8. L!ClassifyRoute(e).target = "ignore"
      BY <3>1, <3>2, <3>3, <3>4, <3>5, <3>7, LoopSpelled
    <3> QED
      BY <1>4, <3>6, <3>8
  <2>3. ASSUME e.signals = {"unsupported_signal"}
        PROVE  \A r \in {"policy", "damping", "skill", "case", "memory"} : ~L!Of(e.signals, r)
    BY <2>3 DEF L!Of, L!HasAnySignal, L!LessonRouteSignals
  <2>4. L!LessonRoutes = {"policy", "damping", "skill", "case", "memory"}
    BY DEF L!LessonRoutes, L!LessonRouteSignals
  <2>5. ASSUME e.signals = L!SourceSignals(s1),
               \A r \in L!LessonRoutes : L!SourceLevelFallbackAllowed(L!SourceSignals(s1), r) =>
                 \E k \in SUBSET L!LessonAllowedSignals[r] :
                   /\ k \subseteq L!SourceSignals(s1) \cup {L!LessonFallbackSignal[r]}
                   /\ L!Of(k, r) /\ L!ExpectedRouteFor(k) # r
        PROVE  \A r \in {"policy", "damping", "skill", "case", "memory"} : ~L!Of(e.signals, r)
    BY <1>2, <2>4, <2>5, NothingToLearn
  <2> QED
    BY <1>1, <1>3, <2>1, <2>2, <2>3, <2>5, LessonMade
<1>6. LET route == L!ClassifyRoute(e) IN
      /\ route.status = L!ExpectationFor(route.target).status
      /\ route.publication = L!ExpectationFor(route.target).publication
      /\ route.state = L!ExpectationFor(route.target).state
  <2>1. /\ "context_injection_risk" \notin e.signals /\ "memory_provider_takeover_risk" \notin e.signals
        /\ "candidate_replay_failed" \notin e.signals
    BY <1>2 DEF OneSided
  <2> QED
    BY <2>1, LoopSpelled
<1>7. t.event = e
  BY DEF e
<1> QED
  BY <1>1, <1>4, <1>5, <1>6, <1>7 DEF L!SimulationViolations, L!When

\* An export of the minimal layer speaks for skill and memory only, and is a draft the
\* adaptive gate has evidence for.
LEMMA ExportsLearnt == LearningIInv => L!ExportsAreUnambiguous
<1> SUFFICES ASSUME LearningIInv, NEW t \in L!BuildMinimalPositiveL3(s3)
             PROVE  /\ L!PossibleRoutesForSignals(t.event.signals) \subseteq {"skill", "memory"}
                    /\ t \in L!CrystallizeMisaSkills(s3)
                    /\ t \notin L!BuildMixedRoutePressure(s3).suppressed
                    /\ L!BuildQueueItem(t).state = "ready_for_daily_rollup" \/ ~L!BuildAdaptiveCandidate(t).gates.external
  BY DEF L!ExportsAreUnambiguous
<1>1. /\ t \in s3 /\ t.positive /\ t.route.target = "skill" /\ t.route.state = "staged"
      /\ ~L!HasSignal(t.event, L!SkillPromotionBlockingSignals)
  BY DEF L!BuildMinimalPositiveL3, L!ReviewSkillPromotionCandidate
<1>2. t.route = L!ClassifyRoute(t.event)
  BY <1>1, LearntTraces, TracedLesson
<1>3. L!PossibleRoutesForSignals(t.event.signals) \subseteq {"skill", "memory"}
  <2> DEFINE k == t.event.signals
             routeOf == [damping |-> {"candidate_replay_failed", "single_failure"},
                         policy |-> L!LessonRouteSignals.policy,
                         skill |-> {"reusable_workflow"}, case |-> {"repeated_failure_pattern"},
                         memory |-> {"stable_user_preference", "stable_project_fact"}]
  <2>1. /\ "explicit_user_boundary" \notin k /\ "public_posting_boundary" \notin k
        /\ "farcaster_public_memory_risk" \notin k /\ "candidate_replay_failed" \notin k
        /\ "single_failure" \notin k /\ "repeated_failure_pattern" \notin k
    BY <1>1 DEF L!HasSignal, L!SkillPromotionBlockingSignals
  <2>2. L!PossibleRoutesForSignals(k) = {r \in DOMAIN routeOf : routeOf[r] \cap k # {}}
    BY DEF L!PossibleRoutesForSignals
  <2>3. DOMAIN routeOf = {"damping", "policy", "skill", "case", "memory"}
    OBVIOUS
  <2>4. /\ routeOf["damping"] = {"candidate_replay_failed", "single_failure"}
        /\ routeOf["policy"] = {"explicit_user_boundary", "public_posting_boundary", "farcaster_public_memory_risk"}
        /\ routeOf["case"] = {"repeated_failure_pattern"}
    BY DEF L!LessonRouteSignals
  <2> HIDE DEF routeOf, k
  <2>5. routeOf["damping"] \cap k = {} /\ routeOf["policy"] \cap k = {} /\ routeOf["case"] \cap k = {}
    BY <2>1, <2>4
  <2>6. L!PossibleRoutesForSignals(k) \subseteq {"skill", "memory"}
    BY <2>2, <2>3, <2>5
  <2> QED
    BY <2>6 DEF k
<1>4. t \in L!CrystallizeMisaSkills(s3)
  BY <1>1 DEF L!CrystallizeMisaSkills
<1>5. t \notin L!BuildMixedRoutePressure(s3).suppressed
  BY <1>1 DEF L!BuildMixedRoutePressure
<1>6. t.event.evidence >= 2 /\ t.route.status # "rejected"
  <2>1. t.event.evidence >= 2
    BY <1>1, <1>2, LoopRoute
  <2>2. \A x, a, s, p, c : L!Route(x, a, s, p, c).target = x /\ L!Route(x, a, s, p, c).status = s
    BY DEF L!Route
  <2>3. t.route.status = "draft"
    BY <1>1, <1>2, <2>2 DEF L!ClassifyRoute
  <2> QED
    BY <2>1, <2>3
<1>7. ~L!SuppressCandidate(t)
  BY <1>1 DEF L!SuppressCandidate, L!HasSignal, L!SkillPromotionBlockingSignals
<1>8. ~L!BlocksExternalFootprintPromotion(t) => L!ClassifyDecision(t) = "validation_ready"
  BY <1>1, <1>6, <1>7 DEF L!ClassifyDecision
<1>9. /\ L!BuildAdaptiveCandidate(t).decision = L!ClassifyDecision(t)
      /\ L!BuildAdaptiveCandidate(t).gates.external = ~L!BlocksExternalFootprintPromotion(t)
      /\ L!BuildQueueItem(t).state = L!QueueStateFor(L!ClassifyDecision(t))
  BY DEF L!BuildAdaptiveCandidate, L!BuildQueueItem
<1>10. L!QueueStateFor("validation_ready") = "ready_for_daily_rollup"
  BY DEF L!QueueStateFor
<1>11. ~L!BlocksExternalFootprintPromotion(t) => L!BuildQueueItem(t).state = "ready_for_daily_rollup"
  BY <1>8, <1>9, <1>10
<1> QED
  BY <1>3, <1>4, <1>5, <1>9, <1>11

LEMMA LessonsFinite == ASSUME NEW s PROVE IsFiniteSet(L!BuildAtomicLessons(s))
<1> DEFINE segments == L!BuildSegments(s)
           signals == L!SourceSignals(s)
           supporting(r) == {i \in DOMAIN segments : L!SegmentSupportsLessonRoute(segments[i], r)}
           from(r) == IF supporting(r) # {} THEN supporting(r) ELSE DOMAIN segments
           kept(r) == L!LessonSignalsFor(r, signals, {segments[i] : i \in from(r)})
           routes == {r \in L!LessonRoutes :
                        /\ supporting(r) # {} \/ L!SourceLevelFallbackAllowed(signals, r)
                        /\ L!ExpectedRouteFor(kept(r)) = r}
           lesson(r) == L!BuildLearningEvent(s, r, from(r), kept(r),
              L!LessonEvidenceCountFor(r, s, L!Cardinality(from(r)), kept(r)),
              L!LessonRiskFor(r, s, kept(r)), L!LessonArtifactEvidenceFor(r, s))
<1>1. routes # {} => L!BuildAtomicLessons(s) = {lesson(r) : r \in routes}
  BY DEF L!BuildAtomicLessons
<1>2. routes = {} => \E l : L!BuildAtomicLessons(s) = {l}
  BY DEF L!BuildAtomicLessons
<1>3. routes \subseteq {"policy", "damping"} \cup {"skill", "case"} \cup {"memory"}
  BY DEF L!LessonRoutes, L!LessonRouteSignals
<1> HIDE DEF routes, lesson
<1>4. IsFiniteSet({"policy", "damping"} \cup {"skill", "case"} \cup {"memory"})
  <2>1. \A x, y : IsFiniteSet({x, y}) /\ IsFiniteSet({x})
    <3> TAKE x, y
    <3>1. IsFiniteSet({x}) /\ IsFiniteSet({y})
      BY FS_Singleton
    <3>2. IsFiniteSet({x} \cup {y})
      BY <3>1, FS_Union
    <3>3. {x, y} = {x} \cup {y}
      OBVIOUS
    <3> QED
      BY <3>1, <3>2, <3>3
  <2> QED
    BY <2>1, FS_Union
<1>5. IsFiniteSet(routes)
  BY <1>3, <1>4, FS_Subset
<1>6. IsFiniteSet({lesson(r) : r \in routes})
  <2> DEFINE f == [r \in routes |-> lesson(r)]
  <2>1. {f[r] : r \in routes} = {lesson(r) : r \in routes}
    OBVIOUS
  <2>2. f = [r \in routes |-> f[r]]
    OBVIOUS
  <2> HIDE DEF f
  <2> QED
    BY <1>5, <2>1, <2>2, ImageFinite
<1>7. ASSUME routes = {} PROVE IsFiniteSet(L!BuildAtomicLessons(s))
  <2>1. PICK l : L!BuildAtomicLessons(s) = {l}
    BY <1>2, <1>7
  <2> QED
    BY <2>1, FS_Singleton
<1> QED
  BY <1>1, <1>6, <1>7

\* The skill lesson the minimal layer refuses carries a failure, and only the lesson of a
\* whole window can carry one beside a workflow.
LEMMA RefusedSkill ==
  ASSUME LearningIInv, NEW t \in s3, t.event \in L!BuildAtomicLessons(s1), t.positive,
         t.route.target = "skill", ~L!ReviewSkillPromotionCandidate(t)
  PROVE  L!PooledWindow(t) /\ L!HasSignal(t.event, {"repeated_failure_pattern"})
<1> DEFINE e == t.event
<1>1. t.route = L!ClassifyRoute(e)
  BY LearntTraces, TracedLesson
<1>2. /\ "reusable_workflow" \in e.signals /\ e.evidence >= 2
      /\ ~L!Of(e.signals, "policy") /\ ~L!Of(e.signals, "damping")
  BY <1>1, LoopRoute
<1>3. t.route.state = "staged"
  <2>1. \A x, a, s, p, c : L!Route(x, a, s, p, c).target = x /\ L!Route(x, a, s, p, c).state = c
    BY DEF L!Route
  <2> HIDE DEF e
  <2> QED
    BY <1>1, <2>1 DEF L!ClassifyRoute
<1>4. L!HasSignal(e, L!SkillPromotionBlockingSignals)
  BY <1>2, <1>3 DEF L!ReviewSkillPromotionCandidate, L!HasSignal
<1>5. "repeated_failure_pattern" \in e.signals
  BY <1>2, <1>4 DEF L!HasSignal, L!SkillPromotionBlockingSignals, L!Of, L!HasAnySignal, L!LessonRouteSignals
<1>6. s1.turns \in Seq(LessonTurns) /\ s1.evidence \subseteq Nat \ {0} /\ L!AtMostOne(s1.evidence)
  BY DEF LearningIInv, L!Windowed
<1>7. ASSUME NEW r \in L!LessonRoutes, e.signals \subseteq L!LessonAllowedSignals[r] PROVE FALSE
  BY <1>2, <1>5, <1>7 DEF L!LessonRoutes, L!LessonRouteSignals, L!LessonAllowedSignals
<1>8. /\ e.signals = {"unsupported_signal"} \/ e.signals = L!SourceSignals(s1)
      /\ e.evidence = 1 \/ e.evidence \in s1.evidence
  <2> HIDE DEF e
  <2>1. e \in L!BuildAtomicLessons(s1)
    BY DEF e
  <2> QED
    BY <1>6, <1>7, <2>1, LessonMade
<1>9. e.signals = L!SourceSignals(s1) /\ e.evidence \in s1.evidence
  BY <1>2, <1>8
<1> QED
  BY <1>5, <1>9 DEF L!PooledWindow, L!HasSignal

LEMMA TicketsLearnt == LearningIInv => L!TicketIffExportsDiffer
<1> DEFINE bad == L!BadPromotions(s3)
           count == L!Cardinality(bad)
           missed(t) == ~(t.route.target = "skill" /\ L!PooledWindow(t)
                            /\ L!HasSignal(t.event, {"repeated_failure_pattern"}))
           differing == L!BuildOriginalAutoL3(s3) \ L!BuildMinimalPositiveL3(s3)
<1> SUFFICES ASSUME LearningIInv, s2 = {}
             PROVE  L!ReviewRepairTickets(s3, {}) # {} <=> \E t \in differing : missed(t)
  BY DEF L!TicketIffExportsDiffer
<1>1. \A t \in s3 : t.event \in L!BuildAtomicLessons(s1)
  BY LearntTraces
<1>2. IsFiniteSet(s3)
  <2>1. s3 = {L!SimulateLearningCycle(e) : e \in L!BuildAtomicLessons(s1)}
    BY DEF LearningIInv, L!SimulateMisaLearning
  <2> DEFINE f == [e \in L!BuildAtomicLessons(s1) |-> L!SimulateLearningCycle(e)]
  <2>2. {f[e] : e \in L!BuildAtomicLessons(s1)} = s3
    BY <2>1
  <2>3. f = [e \in L!BuildAtomicLessons(s1) |-> f[e]]
    OBVIOUS
  <2> HIDE DEF f
  <2> QED
    BY <2>2, <2>3, LessonsFinite, ImageFinite
<1>3. IsFiniteSet(bad) /\ bad = {t \in s3 : t.positive /\ t.route.target # "skill"}
  <2>1. bad = {t \in s3 : t.positive /\ t.route.target # "skill"}
    BY DEF L!BadPromotions, L!BuildOriginalAutoL3
  <2>2. bad \subseteq s3
    BY <2>1
  <2> QED
    BY <1>2, <2>1, <2>2, FS_Subset
<1>4. count \in Nat /\ (count > 0 <=> bad # {})
  <2> HIDE DEF bad
  <2>1. count = Cardinality(bad)
    BY LearnedCardinality
  <2> HIDE DEF count
  <2> QED
    BY <1>3, <2>1, FS_CardinalityType, FS_EmptySet
<1>5. L!ReviewRepairTickets(s3, {}) # {} <=> count > 0
  <2> HIDE DEF bad
  <2>1. L!SeverityFor(FALSE, count) # "P0"
    <3> HIDE DEF count
    <3> QED
      BY DEF L!SeverityFor
  <2>2. L!ReviewRepairTickets(s3, {}) =
          (IF count > 0 \/ L!SeverityFor(FALSE, count) = "P0"
           THEN {[severity |-> L!SeverityFor(FALSE, count), status |-> L!StatusFor(L!SeverityFor(FALSE, count), count)]}
           ELSE {}) \cup {[severity |-> "P2", status |-> "repair_candidate"] : a \in {}}
    BY DEF L!ReviewRepairTickets, bad
  <2> HIDE DEF count
  <2> QED
    BY <2>1, <2>2
<1>6. ASSUME NEW t \in bad PROVE t \in differing /\ missed(t)
  <2>1. t \in s3 /\ t.positive /\ t.route.target # "skill"
    BY <1>3
  <2> QED
    BY <2>1 DEF L!BuildOriginalAutoL3, L!BuildMinimalPositiveL3, L!ReviewSkillPromotionCandidate
<1>7. ASSUME NEW t \in differing, missed(t) PROVE t \in bad
  <2>1. t \in s3 /\ t.positive /\ ~L!ReviewSkillPromotionCandidate(t)
    BY DEF L!BuildOriginalAutoL3, L!BuildMinimalPositiveL3
  <2>2. t.route.target # "skill"
    <3>1. t.event \in L!BuildAtomicLessons(s1)
      BY <1>1, <2>1
    <3> QED
      BY <1>7, <2>1, <3>1, RefusedSkill
  <2> QED
    BY <1>3, <2>1, <2>2
<1> HIDE DEF bad, count, missed, differing
<1> QED
  BY <1>4, <1>5, <1>6, <1>7

LEMMA LearningAgrees ==
  LearningIInv => L!KnownVocabularyAgrees /\ L!ExportsAreUnambiguous /\ L!TicketIffExportsDiffer
BY VocabularyLearnt, ExportsLearnt, TicketsLearnt

-----------------------------------------------------------------------------
(* The desk: every program keeps its own invariant, and a step of one      *)
(* leaves the others alone, for a behaviour is about one of them.          *)

EvolutionIInv ==
  /\ part = "routing" => RoutingIInv
  /\ part = "bridge" => BridgeIInv
  /\ part = "mapping" => MappingIInv
  /\ part = "perception" => PerceivedIInv
  /\ part = "review" => ReviewIInv
  /\ part = "learning" => LearningIInv
  /\ part = "footprint" => FootprintIInv
  /\ part = "memory" => MemoryIInv
  /\ part = "orders" => OrdersIInv
  /\ part = "preflight" => PreflightIInv
  /\ part = "skills" => SkillIInv
  /\ part = "tournament" => TournamentIInv

LEMMA EvolutionStarts == EvolutionInit => EvolutionIInv
<1> SUFFICES ASSUME EvolutionInit PROVE EvolutionIInv
  OBVIOUS
<1>1. /\ part = "routing" => R!Init
      /\ part = "bridge" => B!Init
      /\ part = "mapping" => M!Init
      /\ part = "perception" => P!Init
      /\ part = "review" => D!Init
      /\ part = "learning" => L!Init
      /\ part = "footprint" => F!Init
      /\ part = "memory" => X!Init
      /\ part = "orders" => HO!Init
      /\ part = "preflight" => Q!Init
      /\ part = "skills" => S!Init
      /\ part = "tournament" => s1 \in Drawings /\ s2 = BuildTournament(s1)
  BY DEF EvolutionInit
<1> QED
  BY <1>1, RoutingInit, BridgeInit, MappingInit, PerceivedInit, ReviewInit, LearningInit, FootprintInit,
     MemoryInit, OrdersInit, PreflightInit, SkillInit, TournamentInit DEF EvolutionIInv

\* A step of the desk is one of the program that the behaviour is about.
LEMMA EvolutionKeeps == EvolutionIInv /\ [EvolutionNext]_<<part, vars, gateVars, slots>> => EvolutionIInv'
<1> SUFFICES ASSUME EvolutionIInv, [EvolutionNext]_<<part, vars, gateVars, slots>> PROVE EvolutionIInv'
  OBVIOUS
<1>1. CASE UNCHANGED <<part, vars, gateVars, slots>>
  <2>1. part' = part /\ UNCHANGED slots
    BY <1>1
  <2>2. s1' = s1 /\ s2' = s2 /\ s3' = s3 /\ s4' = s4 /\ s5' = s5 /\ s6' = s6 /\ s7' = s7 /\ s8' = s8 /\ s9' = s9
    BY <2>1 DEF slots
  <2>3. /\ RoutingIInv => RoutingIInv'
        /\ MappingIInv => MappingIInv'
        /\ PerceivedIInv => PerceivedIInv'
        /\ ReviewIInv => ReviewIInv'
        /\ LearningIInv => LearningIInv'
        /\ FootprintIInv => FootprintIInv'
        /\ MemoryIInv => MemoryIInv'
    BY <2>2 DEF RoutingIInv, RoutedFrom, MappingIInv, PerceivedIInv, ReviewIInv, LearningIInv, FootprintIInv,
                MemoryIInv, X!AdapterTakesTracedPlans
  <2>4. BridgeIInv => BridgeIInv'
    BY <2>2 DEF BridgeIInv
  <2>5. /\ OrdersIInv => OrdersIInv'
        /\ PreflightIInv => PreflightIInv'
        /\ SkillIInv => SkillIInv'
        /\ TournamentIInv => TournamentIInv'
    BY <2>2 DEF OrdersIInv, PreflightIInv, SkillIInv, TournamentIInv
  <2> QED
    BY <2>1, <2>3, <2>4, <2>5 DEF EvolutionIInv
<1>2. CASE EvolutionNext
  <2>1. part' = part
    BY <1>2 DEF EvolutionNext, Kept, Ordering, Measuring, Installing, Learning, Perceiving, Bridging, Routing,
                Mapping, Interrupting, Reviewing, Varying, Remembering, Supervising, Checking, Holding, Recalling,
                Judging
  <2>2. /\ part = "routing" => R!Next
        /\ part = "bridge" => B!Next
        /\ part = "mapping" => M!Next
        /\ part = "perception" => P!Next
        /\ part = "review" => D!Next
        /\ part = "learning" => L!Next
        /\ part = "footprint" => F!Next
        /\ part = "memory" => X!Next
        /\ part = "orders" => HO!Next
        /\ part = "preflight" => Q!Next
        /\ part = "skills" => S!Next
        /\ part = "tournament" => Gather
    BY <1>2 DEF EvolutionNext, Ordering, Measuring, Installing, Learning, Perceiving, Bridging, Routing,
                Mapping, Interrupting, Reviewing, Varying, Remembering, Supervising, Checking, Holding, Recalling,
                Judging
  <2> QED
    BY <2>1, <2>2, RoutingStep, BridgeStep, MappingStep, PerceivedStep, ReviewStep, LearningStep,
       FootprintStep, MemoryStep, OrdersStep, PreflightStep, SkillStep, TournamentStep DEF EvolutionIInv
<1> QED
  BY <1>1, <1>2

LEMMA EvolutionAlways == EvolutionSpec => []EvolutionIInv
BY EvolutionStarts, EvolutionKeeps, PTL DEF EvolutionSpec

\* Nothing critical, durable or public is done without its owner: whatever tickets, reports,
\* candidates, artifacts and sources the router, the bridge to a runtime, the distillation
\* mapper and the perception gate meet, and whatever policy their callers ask for, they
\* leave the confirmation of such work to its owner.
THEOREM OwnerKept == EvolutionSpec => []OwnerKeepsAuthority
<1>1. EvolutionIInv => OwnerKeepsAuthority
  <2>1. RoutingIInv => /\ R!TypeOK /\ R!CriticalWaitsForOwner /\ R!AskingModesAsk /\ R!EveryOrderHasAKeeper
                       /\ R!DefaultModeAgrees /\ R!BoundaryNeedsGate /\ R!PollutionIsVisible
    BY RoutingProperties DEF RoutingKeepsOwner
  <2>2. BridgeIInv => /\ B!TypeOK /\ B!CriticalAlwaysInterrupts /\ B!FreeWorkResolvesItself
                      /\ B!AcceptedKeepsBoundary /\ B!AcceptedIsSourced
    BY BridgeProperties DEF BridgeKeepsOwner
  <2>3. MappingIInv => M!TypeOK /\ M!HighRiskStopsAtOwner /\ M!MissingEvidenceIsBlocked /\ M!ReadyHasTarget
    BY MappingProperties DEF MappingKeepsOwner
  <2> QED
    BY <2>1, <2>2, <2>3, PerceivedProperties DEF EvolutionIInv, OwnerKeepsAuthority
<1> QED
  BY <1>1, EvolutionAlways, PTL

\* A review of the distiller rests on what was there when it was written, wherever a run dies
\* or the hook is killed: one that says ok has handed on what it asks for, a clean one of one
\* run's files covers every chunk of it, one that only observes opens no order, and a dry run
\* reports no gap in what was not written.
THEOREM ReviewsBacked == EvolutionSpec => []ReviewsAreBacked
<1>1. EvolutionIInv => ReviewsAreBacked
  BY ReviewProperties DEF EvolutionIInv, ReviewsAreBacked
<1> QED
  BY <1>1, EvolutionAlways, PTL

\* A lesson keeps its lane: whatever windows, fixtures, sources, footprints and work orders
\* there are, a boundary reaches the policy route, a skill is made of clean segments, thin
\* text, replays that failed and borrowed evidence stay low, noise stays cheap, new evidence
\* is handed on, and the boundary stored for a repair comes along with it.
THEOREM LessonsKept == EvolutionSpec => []LessonsKeepTheirLane
<1>1. EvolutionIInv => LessonsKeepTheirLane
  BY LearningProperties, FootprintProperties, MemoryProperties, PerceivedProperties
     DEF EvolutionIInv, LessonsKeepTheirLane
<1> QED
  BY <1>1, EvolutionAlways, PTL

\* Two rules that were written apart agree, whatever they are asked about: the distiller's and
\* the loop's routes, the broad and the minimal export, the tournament and the gate that
\* validates it, the preflight and the adaptive gate, the storage plan and the adapter that
\* takes it, the intent and the result of one action.
THEOREM PartsKept == EvolutionSpec => []PartsAgree
<1>1. EvolutionIInv => PartsAgree
  <2>1. MemoryIInv => X!AdapterTakesTracedPlans
    BY DEF MemoryIInv
  <2> QED
    BY <2>1, LearningAgrees, GateAccepts, PreflightAgrees, OrdersAgree, SkillTypes, FailuresExplained
       DEF EvolutionIInv, PartsAgree
<1> QED
  BY <1>1, EvolutionAlways, PTL

=============================================================================
