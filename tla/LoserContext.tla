----------------------------- MODULE LoserContext -----------------------------
(***************************************************************************)
(* What a review remembers of its losers                                   *)
(* (scripts/lib/evolution-tournament-loser-context.mjs): prototypes of     *)
(* winners, losers and their way back, recalled for each tournament by the *)
(* words they share with it, packed as counterexamples for the next layers.*)
(* Tournaments are added one at a time: the reservoir and every recall are *)
(* built anew, and earlier tournaments compete with later ones.            *)
(*                                                                         *)
(* A text is the set of its words that can meet a query and a number of    *)
(* words that cannot.  Scores are hundredths.                              *)
(***************************************************************************)
EXTENDS TournamentScoring

CONSTANTS
  Deck,      \* source event -> candidate
  Profiles, TopKs, PackLimits   \* what a caller asks for

VARIABLES held, asked, context

vars == <<held, asked, context>>

Events == DOMAIN Deck
Tournament == [e \in Events |-> BuildTournament(Deck[e])]
RuntimeProfile == "shadow_advisory"
MaxRecallTopK == 12
MaxPackLimit == 5
MaxReservoirLimit == 24

RequiredRoles == <<"loser", "winner", "rehabilitation">>

\* Alphabetical: loser, rehabilitation, winner.
RoleOrder(role) == CASE role = "loser" -> 1 [] role = "rehabilitation" -> 2 [] OTHER -> 3

-----------------------------------------------------------------------------
(* Prototypes.                                                             *)

PrototypesOf(e) ==
  {[event |-> e, role |-> "winner", strategy |-> Tournament[e].winner]}
  \cup [event : {e}, role : {"loser", "rehabilitation"}, strategy : Tournament[e].losers]

Route(p) == Deck[p.event].route
Class(p) == Tournament[p.event].class[p.strategy]
\* "none" for a winner.
Failure(p) == IF p.role = "winner" THEN "none" ELSE Tournament[p.event].failure[p.strategy]
Effect(p) == IF p.role = "winner" THEN "none" ELSE CandidatePoolEffect(Class(p))

\* The three conditions of its class for coming back.
ReactivationConditions(class) == {class} \X {1, 2, 3}
BlockedRequests(p) == {"request"} \X (1..BuildVariants(Deck[p.event])[p.strategy].operations)

LoserWords(p) ==
  {<<"failure", Failure(p)>>, <<"class", Class(p)>>, <<"effect", Effect(p)>>}
  \cup BlockedRequests(p) \cup ReactivationConditions(Class(p))

\* Words of the text that queries can have, and the number of its other words.
Text(p) ==
  CASE p.role = "rehabilitation" -> [words |-> ReactivationConditions(Class(p)), others |-> 2]
    [] p.role = "loser" ->
         [words |-> LoserWords(p),
          others |-> CASE Class(p) = "unsafe" -> 10 [] Class(p) = "promising" -> 14 [] OTHER -> 12]
    [] p.strategy = "baseline" ->
         [words |-> {<<"strategy", "baseline">>}, others |-> 9 + Deck[p.event].words]
    [] p.strategy = "trace_reflective" ->
         [words |-> {<<"strategy", p.strategy>>, <<"event", p.event>>}, others |-> 39 + Deck[p.event].words]
    [] OTHER ->
         [words |-> {<<"strategy", p.strategy>>, <<"event", p.event>>, <<"route", Route(p)>>}, others |-> 38]

Query(e) ==
  {<<"route", Deck[e].route>>, <<"event", e>>, <<"strategy", Tournament[e].winner>>}
  \cup UNION {LoserWords(p) : p \in {q \in PrototypesOf(e) : q.role = "loser"}}

\* Shared words over the geometric mean of the sizes.
TokenOverlap(query, text) ==
  LET shared == Cardinality(query \cap text.words)
      sizes == Cardinality(query) * (Cardinality(text.words) + text.others)
  IN  CHOOSE n \in 0..100 : /\ n * n * sizes <= 10000 * shared * shared
                            /\ (n + 1) * (n + 1) * sizes > 10000 * shared * shared

FinalScore(e, p) ==
  Least(100, TokenOverlap(Query(e), Text(p)) + If(Route(p) = Deck[e].route, 20) + If(p.event = e, 8)
             + (CASE p.role = "loser" -> 8 [] p.role = "rehabilitation" -> 6 [] OTHER -> 4))

Prototypes == UNION {PrototypesOf(e) : e \in Events}
FinalScores == [e \in Events |-> [p \in Prototypes |-> FinalScore(e, p)]]

\* S in the strict order before.
Sorted(S, before(_, _)) ==
  FoldLeft(LAMBDA chosen, i :
             Append(chosen, CHOOSE p \in S \ Range(chosen) :
                              \A q \in S \ (Range(chosen) \cup {p}) : before(p, q)),
           <<>>, [i \in 1..Cardinality(S) |-> i])

\* By identifier.
IdBefore(p, q) ==
  \/ p.event < q.event
  \/ p.event = q.event /\ NameOrder(p.strategy) < NameOrder(q.strategy)

-----------------------------------------------------------------------------
(* Recall, pack and reservoir.                                             *)

RecalledBefore(scores, p, q) ==
  \/ scores[p] > scores[q]
  \/ /\ scores[p] = scores[q]
     /\ \/ RoleOrder(p.role) < RoleOrder(q.role)
        \/ p.role = q.role /\ IdBefore(p, q)

\* All prototypes in the order of each tournament's recall.
Ranked == [e \in Events |-> Sorted(Prototypes, LAMBDA p, q : RecalledBefore(FinalScores[e], p, q))]

Top(n, s) == SubSeq(s, 1, Least(n, Len(s)))

RecallPrototypes(e, events, topK) ==
  Top(topK, SelectSeq(Ranked[e], LAMBDA p : p.event \in events))

\* The best of each role, in the order of the roles.
PackFirst(recalled) ==
  LET first(role) == SelectInSeq(recalled, LAMBDA p : p.role = role)
      found == SelectSeq(RequiredRoles, LAMBDA role : first(role) > 0)
  IN  [i \in 1..Len(found) |-> recalled[first(found[i])]]

\* Of a winner the failure and the effect are absent, so its key is its own.
PackKey(p) == IF p.role = "winner" THEN <<p.role, Route(p), p.event, p.strategy>>
              ELSE <<p.role, Route(p), 0, Failure(p)>>

\* A key is repeated only while fewer than three are chosen.
TryAdd(packed, p) ==
  IF \/ p \in Range(packed)
     \/ Len(packed) >= Len(RequiredRoles) /\ PackKey(p) \in {PackKey(q) : q \in Range(packed)}
  THEN packed ELSE Append(packed, p)

DiversifiedPack(recalled, limit) ==
  Top(limit, FoldLeft(LAMBDA acc, p : IF Len(acc) >= limit THEN acc ELSE TryAdd(acc, p),
                      PackFirst(recalled), recalled))

\* Thousandths; the winner's is its composite.
PrototypeScore(p) ==
  CASE p.role = "winner" -> Tournament[p.event].variants[p.strategy].scores.composite
    [] p.role = "loser" -> (CASE Class(p) = "unsafe" -> 880 [] Class(p) = "weak" -> 475 [] OTHER -> 319)
    [] OTHER -> (CASE Class(p) = "promising" -> 780 [] Class(p) = "weak" -> 580 [] OTHER -> 420)

ReservoirKey(p) ==
  <<Route(p), p.role, IF p.role = "winner" THEN p.strategy ELSE Failure(p), Effect(p)>>

ReservoirBefore(p, q) ==
  \/ PrototypeScore(p) > PrototypeScore(q)
  \/ PrototypeScore(p) = PrototypeScore(q)
     /\ (RoleOrder(p.role) < RoleOrder(q.role) \/ (p.role = q.role /\ IdBefore(p, q)))

ByScore == Sorted(Prototypes, ReservoirBefore)

\* The best of each key, as many as the limit.
BuildReservoir(events) ==
  LET keep(kept, p) ==
        IF \/ p.event \notin events \/ Len(kept) = MaxReservoirLimit
           \/ \E q \in Range(kept) : ReservoirKey(q) = ReservoirKey(p)
        THEN kept ELSE Append(kept, p)
  IN  FoldLeft(keep, <<>>, ByScore)

-----------------------------------------------------------------------------
(* What is made of a pack.                                                 *)

StrongReviewSamples(packed) ==
  {p \in Range(packed) : p.role = "loser" /\ Failure(p) # "safety_boundary"}

L3RequiredActions(packed) ==
  LET items == Range(packed) IN
  (IF \E p \in items : Failure(p) = "safety_boundary"
   THEN {"prove_blocked_surfaces_removed_before_reentry"} ELSE {})
  \cup (IF \E p \in items : Effect(p) = "evidence_required_before_reentry"
        THEN {"request_new_source_or_better_trace"} ELSE {})
  \cup (IF \E p \in items : p.role = "rehabilitation"
        THEN {"preserve_rehabilitation_path"} ELSE {})

Bounded(value, highest) == Most(1, Least(highest, value))

\* No release blocker: what is asked for is the profile and the limits that are used.
SafeToConsume(ask, topK, limit) ==
  ask = [profile |-> RuntimeProfile, topK |-> topK, packLimit |-> limit]

BuildLoserReviewContext(events, ask) ==
  LET topK == Bounded(ask.topK, MaxRecallTopK)
      limit == Bounded(ask.packLimit, MaxPackLimit)
      Context(recall, pack) ==
        [ok |-> SafeToConsume(ask, topK, limit),
         topK |-> topK, limit |-> limit, recall |-> recall, pack |-> pack,
         reservoir |-> BuildReservoir(events),
         samples |-> [e \in events |-> StrongReviewSamples(pack[e])],
         l3 |-> [e \in events |-> L3RequiredActions(pack[e])]]
      Packed(recall) == Context(recall, [e \in events |-> DiversifiedPack(recall[e], limit)])
  IN  Packed([e \in events |-> RecallPrototypes(e, events, topK)])

-----------------------------------------------------------------------------
Asks == [profile : Profiles, topK : TopKs, packLimit : PackLimits]

Init == /\ held = {} /\ asked \in Asks
        /\ context = BuildLoserReviewContext({}, asked)

\* Another candidate is reportable in the next review.
Review(e) ==
  /\ e \notin held
  /\ held' = held \cup {e}
  /\ context' = BuildLoserReviewContext(held', asked)
  /\ UNCHANGED asked

Next == \E e \in Events : Review(e)

Spec == Init /\ [][Next]_vars

-----------------------------------------------------------------------------
TypeOK ==
  /\ held \subseteq Events /\ asked \in Asks
  /\ Len(context.reservoir) <= MaxReservoirLimit
  /\ \A e \in held : /\ Len(context.pack[e]) <= MaxPackLimit
                     /\ Len(context.recall[e]) <= MaxRecallTopK

RolesOf(s) == {p.role : p \in Range(s)}

\* A role that was recalled is in the pack when it has room for the three of them: many
\* losers at the top of the recall never crowd out the winner or the way back.
PackCoversRecalledRoles ==
  context.limit >= Len(RequiredRoles) =>
    \A e \in held : RolesOf(context.pack[e]) = RolesOf(context.recall[e])

\* "It can tell L3 to ask for proof" (evolution-tournament-gate-v0.18.md): in every
\* tournament a variant asked for a blocked operation, and whatever other tournaments
\* are held and however small the pack, layer three asks for proof that it is gone.
ProofIsAlwaysAskedFor ==
  \A e \in held : "prove_blocked_surfaces_removed_before_reentry" \in context.l3[e]

\* The reservoir, cut at 24, never loses the blocked shape of a route that is held.
EveryRouteKeepsItsBoundary ==
  \A e \in held : \E p \in Range(context.reservoir) :
    p.role = "loser" /\ Route(p) = Deck[e].route /\ Effect(p) = "strong_suppression"

\* Recall is by words, yet a tournament's own losers stay within the first twelve when
\* other tournaments of its route, with the same words, are held as well.
OwnLosersAreRecalled ==
  asked.topK >= MaxRecallTopK =>
    \A e \in held : {p \in PrototypesOf(e) : p.role = "loser"} \subseteq Range(context.recall[e])
=============================================================================
