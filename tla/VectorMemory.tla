----------------------------- MODULE VectorMemory -----------------------------
(***************************************************************************)
(* Vector memory: how the routed work orders of a run become vector        *)
(* records (scripts/lib/vector-memory-storage.mjs), which of them the      *)
(* Zilliz adapter accepts (zilliz-vector-adapter.mjs) and how the hits of  *)
(* a query over everything stored are ranked (vector-retrieval-ranker.mjs).*)
(*                                                                         *)
(* Scores are in hundredths.  A query is the set of intent terms its text  *)
(* contains; titles, summaries and the vector of a record are left out,    *)
(* a record's text is the intent terms its title and kind contain.         *)
(***************************************************************************)
EXTENDS Integers, FiniteSets, FiniteSetsExt

CONSTANTS Orders,     \* work orders a run may route
          Queries,    \* [kind, terms]: an explicit kind or "none", and the terms
          TopK,       \* top_k of a query
          MaxRuns     \* bound: storage plans made

MinPrimaryScore == 35

\* Alphabetical, as localeCompare breaks ties.
KindOrder == <<"agent_experience_candidate", "agent_experience_promoted", "audit_log",
               "decision_trace", "persona_memory_candidate", "persona_memory_promoted",
               "policy_boundary", "repair_work_order">>
Kinds == {KindOrder[n] : n \in DOMAIN KindOrder}
KindRank(k) == CHOOSE n \in DOMAIN KindOrder : KindOrder[n] = k

\* The contract of each kind: authority, influence and approval by default.
Collections ==
  [k \in Kinds |->
     CASE k \in {"audit_log", "decision_trace"} ->
            [authority |-> "audit_only", influences |-> FALSE, approval |-> FALSE]
       [] k \in {"agent_experience_candidate", "repair_work_order"} ->
            [authority |-> "candidate", influences |-> FALSE, approval |-> FALSE]
       [] k = "agent_experience_promoted" ->
            [authority |-> "promoted", influences |-> TRUE, approval |-> FALSE]
       [] k = "persona_memory_candidate" ->
            [authority |-> "candidate", influences |-> FALSE, approval |-> TRUE]
       [] k = "persona_memory_promoted" ->
            [authority |-> "promoted", influences |-> TRUE, approval |-> TRUE]
       [] OTHER -> [authority |-> "policy", influences |-> TRUE, approval |-> TRUE]]

IntentTerms ==
  [k \in Kinds |->
     CASE k = "audit_log" -> {"audit", "audit log", "log"}
       [] k = "decision_trace" -> {"decision", "decision trace", "trace"}
       [] k = "agent_experience_candidate" ->
            {"experience", "candidate experience", "agent experience"}
       [] k = "agent_experience_promoted" ->
            {"verified experience", "promoted experience", "stable experience"}
       [] k = "persona_memory_candidate" -> {"persona candidate", "style candidate", "persona"}
       [] k = "persona_memory_promoted" -> {"persona memory", "stable style", "promoted persona"}
       [] k = "policy_boundary" -> {"policy", "boundary", "blocked", "forbidden", "approval"}
       [] OTHER -> {"repair", "work order", "repair work order", "fix", "ticket"}]

SupportKinds ==
  [k \in Kinds |->
     CASE k = "audit_log" -> {"decision_trace", "repair_work_order", "policy_boundary"}
       [] k = "decision_trace" -> {"audit_log", "repair_work_order", "policy_boundary"}
       [] k = "agent_experience_candidate" ->
            {"agent_experience_promoted", "decision_trace", "audit_log", "repair_work_order"}
       [] k = "agent_experience_promoted" ->
            {"agent_experience_candidate", "decision_trace", "audit_log", "policy_boundary"}
       [] k = "persona_memory_candidate" ->
            {"persona_memory_promoted", "decision_trace", "audit_log", "policy_boundary"}
       [] k = "persona_memory_promoted" ->
            {"persona_memory_candidate", "decision_trace", "audit_log", "policy_boundary"}
       [] k = "policy_boundary" -> {"repair_work_order", "decision_trace", "audit_log"}
       [] OTHER -> {"policy_boundary", "decision_trace", "audit_log"}]

\* Terms of two words or more count twice.
Words2 == {"audit log", "decision trace", "candidate experience", "agent experience",
           "verified experience", "promoted experience", "stable experience",
           "persona candidate", "style candidate", "persona memory", "stable style",
           "promoted persona", "work order", "repair work order"}

VARIABLES
  inventory,  \* the vector records stored so far
  plan,       \* the last storage plan and what the adapter said of it
  query,      \* the query answered last, if any
  ranking,    \* its ranked hits: record, bucket, rank
  runs        \* storage plans made

vars == <<inventory, plan, query, ranking, runs>>

-----------------------------------------------------------------------------
(* vector-memory-storage.mjs                                               *)

BlockedSurfaces(o) ==
  o.explicit
  \cup {CASE w \in {"memory", "journal", "persona"} -> "persistent_memory"
          [] w \in {"public", "post"} -> "public_posting"
          [] w \in {"vps", "runtime", "production"} -> "vps_or_runtime_service"
          [] w \in {"provider", "credential"} -> "provider_credentials"
          [] OTHER -> "skill_publication" : w \in o.scope}

\* The first source_event, or the first ref; a ref without an id is "unknown".
OriginalSourceFromWorkOrder(o) == IF o.ref = "none" THEN o.id ELSE o.ref

RecordForKind(kind, id, n, original, trace, approval, blocked) ==
  [id |-> <<kind, id>>, kind |-> kind, authority |-> Collections[kind].authority,
   influences |-> Collections[kind].influences, approval |-> approval, n |-> n,
   source |-> id, original |-> original, trace |-> trace, blocked |-> blocked]

RecordsFromWorkOrder(o, trace) ==
  LET blocked == BlockedSurfaces(o)
      Rec(kind, approval) ==
        RecordForKind(kind, o.id, o.n, OriginalSourceFromWorkOrder(o), trace, approval, blocked)
  IN {Rec("repair_work_order", o.owner)}
     \cup (IF o.review THEN {Rec("agent_experience_candidate", o.owner)} ELSE {})
     \cup (IF blocked # {} THEN {Rec("policy_boundary", TRUE)} ELSE {})

RecordsFromLangGraphBridge(trace, n) ==
  {RecordForKind(k, trace, n, trace, trace, FALSE, {}) :
     k \in {"decision_trace", "audit_log"}}

\* Without a bridge report every run's decision is "decision-unknown".
DecisionTraceId(bridged, n) == IF bridged THEN <<"run-1", "run-2", "run-3">>[n]
                               ELSE "decision-unknown"

BuildVectorMemoryStoragePlan(orders, bridged, n) ==
  LET trace == DecisionTraceId(bridged, n)
  IN (IF bridged THEN RecordsFromLangGraphBridge(trace, n) ELSE {})
     \cup UNION {RecordsFromWorkOrder(o, trace) : o \in orders}

-----------------------------------------------------------------------------
(* zilliz-vector-adapter.mjs                                               *)

MetadataViolations(records) ==
  {r.id : r \in {q \in records :
     \/ q.authority \in {"audit_only", "candidate"} /\ q.influences
     \/ q.influences /\ q.authority \notin {"promoted", "policy"}
     \/ q.original = "unknown"}}

BuildZillizVectorAdapterPlan(records) == MetadataViolations(records) = {}

-----------------------------------------------------------------------------
(* vector-retrieval-ranker.mjs                                             *)

ScoreKindTerms(terms, kind) ==
  Cardinality(terms \cap IntentTerms[kind])
  + Cardinality(terms \cap IntentTerms[kind] \cap Words2)

SurfaceFromQuery(terms) ==
  IF terms \cap {"repair", "work order", "ticket", "fix"} # {} THEN "repair_planning"
  ELSE IF terms \cap IntentTerms["policy_boundary"] # {} THEN "policy_check"
  ELSE IF terms \cap {"persona", "stable style", "style candidate"} # {} THEN "persona_context"
  ELSE IF "reply" \in terms THEN "answer_context"
  ELSE "retrieval_context"

\* The kind with the highest score, the first of them by name.
InferVectorMemoryQueryIntent(q) ==
  IF q.kind # "none" THEN q.kind
  ELSE LET scored == {k \in Kinds : ScoreKindTerms(q.terms, k) > 0}
           best == {k \in scored : \A j \in scored :
                      ScoreKindTerms(q.terms, j) <= ScoreKindTerms(q.terms, k)}
       IN IF scored = {} THEN "none"
          ELSE KindOrder[Min({KindRank(k) : k \in best})]

\* One match already gives the confidence of 0.65 that locks the kind.
PrimaryKinds(kind) == IF kind = "none" THEN Kinds ELSE {kind}
SupportKindsForIntent(kind) == IF kind = "none" THEN {} ELSE SupportKinds[kind]

SourceKeys(r) == {r.original, r.source, r.trace} \ {"unknown", "none"}
\* replay_keys holds the record's id and these three.
HasSharedSource(l, r) == l = r \/ SourceKeys(l) \cap SourceKeys(r) # {}

AuthorityWeight(r, surface) ==
  CASE surface = "policy_check" ->
         (CASE r.authority = "policy" -> 12 [] r.authority = "promoted" -> 6 [] OTHER -> 0)
    [] surface = "repair_planning" ->
         (IF r.kind = "repair_work_order" THEN 12 ELSE IF r.authority = "policy" THEN 4 ELSE 0)
    [] surface = "persona_context" ->
         (CASE r.kind = "persona_memory_promoted" -> 12
            [] r.kind = "persona_memory_candidate" -> 4 [] OTHER -> 0)
    [] surface = "answer_context" -> (IF r.authority \in {"promoted", "policy"} THEN 8 ELSE 0)
    [] OTHER -> (IF r.authority \in {"promoted", "policy"} THEN 4 ELSE 0)

\* Replayable, four hops, its own id among the keys, a known original source.
TraceQuality(r) == 10 + (IF r.original # "unknown" THEN 3 ELSE 0)

\* The title and kind of a stored record contain these terms.
RecordTerms(k) ==
  CASE k \in {"audit_log", "decision_trace"} -> IntentTerms[k]
    [] k = "agent_experience_candidate" -> {"experience", "candidate experience"}
    [] k = "policy_boundary" -> {"policy", "boundary", "blocked"}
    [] k = "repair_work_order" -> {"repair"}
    [] OTHER -> {}

LexicalIntentMatch(q, r, kind) ==
  IF kind # "none" /\ IntentTerms[kind] \cap (q.terms \cup RecordTerms(r.kind)) # {} THEN 4 ELSE 0

SurfaceGuard(r, surface) ==
  CASE surface = "policy_check" /\ r.kind = "policy_boundary" -> 5
    [] surface = "answer_context" /\ "public_posting" \in r.blocked -> -4
    [] surface = "repair_planning" /\ r.kind = "policy_boundary" -> -3
    [] OTHER -> 0

\* Buckets: 0 primary, 1 same-source context, 2 fallback, 3 filtered out.
Bucket(r, kind, locked, same) ==
  IF r.kind \in PrimaryKinds(kind) THEN 0
  ELSE IF r.kind \in SupportKindsForIntent(kind) /\ same THEN 1
  ELSE IF locked THEN 3 ELSE 2

FinalScore(q, r, score, kind, bucket, same) ==
  LET surface == SurfaceFromQuery(q.terms)
  IN score + (CASE bucket = 0 -> 34 [] bucket = 1 -> 8 [] OTHER -> -18)
     + (CASE bucket = 0 -> 18 [] bucket = 1 -> 6 [] bucket = 2 -> 0 [] OTHER -> -20)
     + (IF same THEN 12 ELSE 0) + AuthorityWeight(r, surface) + TraceQuality(r)
     + LexicalIntentMatch(q, r, kind) + SurfaceGuard(r, surface)

\* The hits arrive by score, records of equal score by kind and id.
InputBefore(a, b) ==
  \/ a.score > b.score
  \/ a.score = b.score /\ a.n < b.n

Anchors(hits, kind) ==
  LET primary == {h \in hits : h.record.kind \in PrimaryKinds(kind) /\ h.score >= MinPrimaryScore}
  IN {h \in primary : \A g \in primary : g = h \/ InputBefore(h, g)}

RankedBefore(a, b) ==
  \/ a.bucket < b.bucket
  \/ a.bucket = b.bucket /\ (a.final > b.final \/ (a.final = b.final /\ InputBefore(a, b)))

RankVectorMemoryHits(q, hits) ==
  LET kind == InferVectorMemoryQueryIntent(q)
      anchors == Anchors(hits, kind)
      locked == kind # "none" /\ anchors # {}
      Scored(h) ==
        LET same == \E a \in anchors : HasSharedSource(h.record, a.record)
            bucket == Bucket(h.record, kind, locked, same)
        IN [record |-> h.record, score |-> h.score, n |-> h.n, bucket |-> bucket,
            final |-> FinalScore(q, h.record, h.score, kind, bucket, same)]
      kept == {s \in {Scored(h) : h \in hits} : s.bucket # 3}
      Rank(s) == 1 + Cardinality({t \in kept : RankedBefore(t, s)})
  IN [kind |-> kind, anchor |-> {a.record : a \in anchors},
      below |-> {h.record : h \in {g \in hits : g.score < MinPrimaryScore}},
      hits |-> {[record |-> s.record, bucket |-> s.bucket, rank |-> Rank(s)] :
                  s \in {t \in kept : Rank(t) <= TopK}}]

-----------------------------------------------------------------------------

NoRanking == [kind |-> "none", anchor |-> {}, below |-> {}, hits |-> {}]
NoPlan == [records |-> {}, ok |-> TRUE, orders |-> {}]

Init ==
  /\ inventory = {} /\ plan = NoPlan
  /\ query = {} /\ ranking = NoRanking /\ runs = 0

\* A run routes its orders, plans their records and hands them to the store,
\* which replaces a record it has by that id.
StorePlan(orders, bridged) ==
  /\ runs < MaxRuns
  /\ runs' = runs + 1
  /\ LET records == BuildVectorMemoryStoragePlan(orders, bridged, runs + 1)
     IN /\ plan' = [records |-> records, ok |-> BuildZillizVectorAdapterPlan(records),
                    orders |-> orders]
        /\ inventory' = {r \in inventory : \A s \in records : s.id # r.id} \cup records
  /\ query' = {} /\ ranking' = NoRanking

\* What the embeddings say of the inventory: any record may come first, any
\* of the first order or run second, the others all score the same.
Search(q, first, second, rest) ==
  /\ query = {}     \* bound: a search reads nothing an earlier one left
  /\ LET Score(r) == IF r = first THEN 91 ELSE IF r = second THEN 62 ELSE rest
         Position(r) == IF r = first THEN 0 ELSE IF r = second THEN 1 ELSE 10 * KindRank(r.kind) + r.n
     IN ranking' = RankVectorMemoryHits(q, {[record |-> r, score |-> Score(r), n |-> Position(r)] :
                                              r \in inventory})
  /\ query' = {q}
  /\ UNCHANGED <<inventory, plan, runs>>

Next ==
  \/ \E orders \in SUBSET Orders, bridged \in BOOLEAN :
       Cardinality(orders) \in 1..2 /\ StorePlan(orders, bridged)
  \/ \E q \in Queries, first \in inventory, second \in {r \in inventory : r.n = 1}, rest \in {20, 50} :
       Search(q, first, second, rest)

Spec == Init /\ [][Next]_vars

-----------------------------------------------------------------------------
(* Properties.                                                             *)

\* The store holds one record per id, a ranking one hit per rank.
TypeOK ==
  /\ \A r, s \in inventory : r.id = s.id => r = s
  /\ \A r \in inventory : r.kind \in Kinds /\ r.approval \in BOOLEAN
  /\ plan.ok \in BOOLEAN /\ Cardinality(query) <= 1 /\ runs \in 0..MaxRuns
  /\ {h.rank : h \in ranking.hits} = 1..Cardinality(ranking.hits)
  /\ \A h \in ranking.hits : h.record \in inventory /\ h.bucket \in 0..2

\* Whatever the other shelves score, and however the surface weighs them, a hit
\* of the asked kind that clears the minimum comes first, if the query has a kind.
PrimaryAnchorLeads ==
  ranking.kind # "none" /\ ranking.anchor # {} =>
    \E h \in ranking.hits : h.rank = 1 /\ h.record.kind = ranking.kind

\* The search widens to other kinds only when no hit of the asked kind clears
\* the minimum score; a query without a kind never falls back.
FallbackOnlyWithoutAnchor ==
  \A h \in ranking.hits :
    h.bucket = 2 => ranking.kind # "none" /\ ranking.anchor = {} /\ h.record.kind # ranking.kind

\* A repair order in the answer brings the boundary stored for it along, as
\* long as the answer has room: the storage plan says forbidden surfaces must
\* stay visible, and the ranker has to find them through the shared source.
BoundaryComesAlong ==
  ranking.kind = "repair_work_order" /\ Cardinality(ranking.hits) < TopK =>
    \A a \in ranking.anchor, b \in inventory :
      b.kind = "policy_boundary" /\ b.source = a.source =>
        \E h \in ranking.hits : h.record = b

\* The two ends of the metadata contract agree: the adapter takes every plan
\* whose orders name their source, and refuses one in which a ref lacks its id.
AdapterTakesTracedPlans ==
  plan.ok <=> \A o \in plan.orders : o.ref # "unknown"

\* What may influence behaviour without anybody having promoted it is the
\* boundary of an order that blocks something, and it needs the owner.
OnlyBoundariesInfluence ==
  \A r \in inventory :
    r.influences => r.kind = "policy_boundary" /\ r.approval /\ r.blocked # {}
=============================================================================
