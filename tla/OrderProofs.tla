------------------------------- MODULE OrderProofs -------------------------------
(***************************************************************************)
(* Proofs about the programs that hold work orders, candidates and         *)
(* reviews: the router and its Hermes orders, the bridge to a runtime, the *)
(* distillation mapper, the distiller review, the Hermes adapter, the      *)
(* preflight, skill supervision and the tournament, for any tickets,       *)
(* reports, candidates, contracts, policies, artifacts and hook calls.     *)
(***************************************************************************)
EXTENDS MCEvolution, TLAPS, FiniteSetTheorems, WellFoundedInduction

-----------------------------------------------------------------------------
(* The router and the Hermes orders.  All its properties are about the     *)
(* orders of one routing, so it is enough to know what it was made of.     *)

RoutedFrom(caller) == R!BuildWorkOrderRouting(R!ReadRepairTicketReview(s1), s2, caller)

RoutingIInv ==
  /\ s1 \in Handoffs /\ s2 \subseteq QualityReports
  /\ s4 \in {"none", "json", "both"}
  /\ \/ s3 = {}
     \/ \E caller \in RoutingPolicies : s3 = {RoutedFrom(caller)}
     \/ \E c, d \in HermesCandidates, measured \in BOOLEAN :
          s3 = {R!BuildHermesWorkOrderRouting({c, d}, measured)}

LEMMA RoutingInit == R!Init => RoutingIInv
BY DEF R!Init, RoutingIInv

LEMMA RoutingStep == ASSUME RoutingIInv, R!Next PROVE RoutingIInv'
<1>1. ASSUME R!SaveTickets PROVE RoutingIInv'
  BY <1>1 DEF R!SaveTickets, RoutingIInv
<1>2. ASSUME R!AddReport PROVE RoutingIInv'
  BY <1>2 DEF R!AddReport, RoutingIInv
<1>3. ASSUME R!RouteWorkOrders PROVE RoutingIInv'
  BY <1>3 DEF R!RouteWorkOrders, RoutingIInv, RoutedFrom
<1>4. ASSUME R!RouteHermes PROVE RoutingIInv'
  BY <1>4 DEF R!RouteHermes, RoutingIInv
<1>5. ASSUME R!WriteWorkOrderArtifacts PROVE RoutingIInv'
  <2>1. s1' = s1 /\ s2' = s2 /\ s3' = s3 /\ s4' \in {"none", "json", "both"}
    BY <1>5 DEF R!WriteWorkOrderArtifacts
  <2> QED
    BY <2>1 DEF RoutingIInv, RoutedFrom
<1> QED
  BY <1>1, <1>2, <1>3, <1>4, <1>5 DEF R!Next

LEMMA TicketOrder ==
  ASSUME NEW t, NEW policy, NEW o,
         o = R!ApplyRoutingPolicy(R!WorkOrderFromRepairTicket(t), policy)
  PROVE  /\ o.id = <<"ticket", t.source>> /\ o.category = "engineering_repair" /\ o.kind = t.kind
         /\ o.severity = t.severity /\ o.risk = R!SeverityRisk(t.severity)
         /\ o.executor = R!ExecutorForRepairTicket(t)
         /\ o.acceptance = t.acceptance /\ o.refs = 2
BY DEF R!ApplyRoutingPolicy, R!WorkOrderFromRepairTicket

LEMMA TicketAuthority ==
  ASSUME NEW t, NEW policy, NEW o,
         o = R!ApplyRoutingPolicy(R!WorkOrderFromRepairTicket(t), policy)
  PROVE  LET b == R!WorkOrderFromRepairTicket(t) IN
         /\ o.auto = R!AutoCandidate(b, policy) /\ o.selfResolve = o.auto
         /\ o.delivery = R!DeliveryPolicy(b, policy)
         /\ o.ownerReport = R!OwnerReportRequired(b, policy)
         /\ o.confirm = R!RequiresUserConfirmation(b, policy)
         /\ o.stronger = R!StrongerRecommended(b)
BY DEF R!ApplyRoutingPolicy, R!WorkOrderFromRepairTicket

\* The five fields on which authority rests, for an order before and after the policy.
LEMMA ReportOrder ==
  ASSUME NEW r, NEW policy, NEW o,
         o = R!ApplyRoutingPolicy(R!WorkOrderFromOperationalQualityReport(r), policy)
  PROVE  /\ o.category = "operator_quality" /\ o.executor = "persona_operator_agent"
         /\ o.severity = R!VerdictSeverity(r.verdict) /\ o.risk = R!SeverityRisk(o.severity)
         /\ o.acceptance = 3 /\ o.refs = 2
BY DEF R!ApplyRoutingPolicy, R!WorkOrderFromOperationalQualityReport

LEMMA ReportAuthority ==
  ASSUME NEW r, NEW policy, NEW o,
         o = R!ApplyRoutingPolicy(R!WorkOrderFromOperationalQualityReport(r), policy)
  PROVE  LET b == R!WorkOrderFromOperationalQualityReport(r) IN
         /\ o.auto = R!AutoCandidate(b, policy) /\ o.selfResolve = o.auto
         /\ o.delivery = R!DeliveryPolicy(b, policy)
         /\ o.ownerReport = R!OwnerReportRequired(b, policy)
         /\ o.confirm = R!RequiresUserConfirmation(b, policy)
         /\ o.stronger = R!StrongerRecommended(b)
BY DEF R!ApplyRoutingPolicy, R!WorkOrderFromOperationalQualityReport

\* What the policy decides about any order.
LEMMA PolicyDecides ==
  ASSUME NEW b, NEW policy
  PROVE  /\ R!AutoCandidate(b, policy) => /\ b.selfEvolution /\ policy.allowed /\ policy.mode \in R!AutonomousModes
                                          /\ ~R!RequiresUserConfirmation(b, policy)
                                          /\ policy.mode = "full_agent"
                                             \/ R!SeverityAllowedForAuto(b.severity, policy.maxSeverity)
         /\ ~R!AutoCandidate(b, policy) =>
              /\ b.ownerReport => R!OwnerReportRequired(b, policy)
              /\ R!DeliveryPolicy(b, policy) # "notify_then_execute_within_scope"
              /\ policy.mode \notin R!AutonomousModes /\ b.confirm => R!RequiresUserConfirmation(b, policy)
<1>1. policy.mode = "report_only" => policy.mode \notin R!AutonomousModes
  BY DEF R!AutonomousModes
<1> QED
  BY <1>1 DEF R!AutoCandidate, R!AgentReviewOnly, R!RequiresUserConfirmation, R!OwnerReportRequired, R!DeliveryPolicy

\* What holds of every order of the router under a policy.
RouterOrder(o, policy) ==
  /\ o.severity \in R!Severities /\ o.risk = R!SeverityRisk(o.severity)
  /\ o.acceptance \in Nat \ {0} /\ o.refs \in Nat \ {0}
  /\ o.selfResolve = o.auto
  /\ o.severity = "P0" => ~o.auto /\ o.ownerReport /\ o.executor = "human_owner"
  /\ o.auto \/ o.ownerReport \/ o.confirm
  /\ policy.mode \notin R!AutonomousModes =>
       ~o.auto /\ o.confirm /\ o.delivery # "notify_then_execute_within_scope"
  /\ o.auto /\ policy.mode # "full_agent" /\ policy.maxSeverity = "P3" =>
       ~o.confirm /\ ~o.stronger /\ o.risk = "low" /\ o.executor # "human_owner"

LEMMA TicketRouterOrder ==
  ASSUME NEW t, Graded(t), NEW policy, NEW o,
         o = R!ApplyRoutingPolicy(R!WorkOrderFromRepairTicket(t), policy)
  PROVE  RouterOrder(o, policy)
<1> DEFINE b == R!WorkOrderFromRepairTicket(t)
<1>1. /\ b.severity = t.severity /\ b.confirm /\ b.ownerReport
      /\ b.selfEvolution => t.status # "observe_only" /\ t.severity # "P0"
  BY DEF R!WorkOrderFromRepairTicket, R!SelfEvolutionAllowed
<1>2. /\ o.auto = R!AutoCandidate(b, policy) /\ o.selfResolve = o.auto
      /\ o.delivery = R!DeliveryPolicy(b, policy)
      /\ o.ownerReport = R!OwnerReportRequired(b, policy)
      /\ o.confirm = R!RequiresUserConfirmation(b, policy)
  BY TicketAuthority
<1> HIDE DEF b
<1>3. o.auto => t.severity \in {"P1", "P2"}
  BY <1>1, <1>2, PolicyDecides DEF Graded, R!Severities
<1>4. ~R!SeverityAllowedForAuto("P1", "P3") /\ ~R!SeverityAllowedForAuto("P2", "P3")
  BY DEF R!SeverityAllowedForAuto, R!SeverityRank
<1>5. o.auto /\ policy.maxSeverity = "P3" => policy.mode = "full_agent"
  BY <1>1, <1>2, <1>3, <1>4, PolicyDecides
<1>6. t.severity = "P0" => R!ExecutorForRepairTicket(t) = "human_owner"
  BY DEF R!ExecutorForRepairTicket
<1>7. /\ o.auto \/ o.ownerReport \/ o.confirm
      /\ ~o.auto => o.ownerReport
      /\ policy.mode \notin R!AutonomousModes =>
           ~o.auto /\ o.confirm /\ o.delivery # "notify_then_execute_within_scope"
  BY <1>1, <1>2, PolicyDecides
<1> QED
  BY <1>2, <1>3, <1>5, <1>6, <1>7, TicketOrder DEF RouterOrder, Graded

LEMMA ReportRouterOrder ==
  ASSUME NEW r, NEW policy, NEW o,
         o = R!ApplyRoutingPolicy(R!WorkOrderFromOperationalQualityReport(r), policy)
  PROVE  RouterOrder(o, policy)
<1> DEFINE b == R!WorkOrderFromOperationalQualityReport(r)
<1>1. /\ b.severity = R!VerdictSeverity(r.verdict) /\ b.confirm /\ b.ownerReport
      /\ b.severity \in {"P1", "P2", "P3"}
      /\ b.risk = R!SeverityRisk(b.severity)
  BY DEF R!WorkOrderFromOperationalQualityReport, R!VerdictSeverity
<1>2. /\ o.auto = R!AutoCandidate(b, policy) /\ o.selfResolve = o.auto
      /\ o.delivery = R!DeliveryPolicy(b, policy)
      /\ o.ownerReport = R!OwnerReportRequired(b, policy)
      /\ o.confirm = R!RequiresUserConfirmation(b, policy)
      /\ o.stronger = R!StrongerRecommended(b)
  BY ReportAuthority
<1>3. b.severity = "P3" => ~R!StrongerRecommended(b)
  BY DEF R!StrongerRecommended, R!WorkOrderFromOperationalQualityReport, R!Gate, R!SeverityRisk
<1> HIDE DEF b
<1>4. ~R!SeverityAllowedForAuto("P1", "P3") /\ ~R!SeverityAllowedForAuto("P2", "P3")
  BY DEF R!SeverityAllowedForAuto, R!SeverityRank
<1>5. o.auto /\ policy.maxSeverity = "P3" /\ policy.mode # "full_agent" => b.severity = "P3" /\ ~o.confirm
  BY <1>1, <1>2, <1>4, PolicyDecides
<1>6. /\ o.auto \/ o.ownerReport \/ o.confirm
      /\ policy.mode \notin R!AutonomousModes =>
           ~o.auto /\ o.confirm /\ o.delivery # "notify_then_execute_within_scope"
  BY <1>1, <1>2, PolicyDecides
<1>7. /\ o.severity = b.severity /\ o.executor = "persona_operator_agent" /\ o.risk = R!SeverityRisk(o.severity)
      /\ o.acceptance = 3 /\ o.refs = 2
  BY <1>1, ReportOrder
<1>8. b.severity = "P3" => R!SeverityRisk(b.severity) = "low"
  BY DEF R!SeverityRisk
<1> QED
  BY <1>1, <1>2, <1>3, <1>5, <1>6, <1>7, <1>8 DEF RouterOrder, R!Severities

LEMMA RouterOrders ==
  ASSUME NEW tickets, NEW given, NEW caller,
         NEW o \in R!BuildWorkOrderRouting(tickets, given, caller).orders
  PROVE  \/ \E t \in tickets : o = R!ApplyRoutingPolicy(R!WorkOrderFromRepairTicket(t), R!NormalizeRoutingPolicy(caller))
         \/ \E r \in given :
              o = R!ApplyRoutingPolicy(R!WorkOrderFromOperationalQualityReport(r), R!NormalizeRoutingPolicy(caller))
BY DEF R!BuildWorkOrderRouting

LEMMA DiagnosticGraded == ASSUME NEW text PROVE Graded(R!TicketFromJsonHandoffDiagnostic(text))
BY DEF Graded, R!TicketFromJsonHandoffDiagnostic, R!Severities

LEMMA TicketsGraded ==
  ASSUME NEW text \in Handoffs PROVE \A t \in R!ReadRepairTicketReview(text) : Graded(t)
BY DeckAssumption, DiagnosticGraded DEF R!ReadRepairTicketReview, R!Parses

\* What holds of every order made of a Hermes candidate.
LEMMA HermesOrder ==
  ASSUME NEW c, Sourced(c), NEW measured \in BOOLEAN, NEW o,
         o = R!WorkOrderFromHermesCandidate(c, measured)
  PROVE  /\ o.id = <<"hermes", c.id>> /\ o.category # "engineering_repair"
         /\ o.severity \in {"P1", "P2"} /\ o.risk = R!SeverityRisk(o.severity)
         /\ o.acceptance \in Nat \ {0} /\ o.refs \in Nat \ {0}
         /\ c.boundary \/ c.memoryWrite =>
              o.next = "recommend_with_durable_write_gate" /\ o.ownerReport /\ o.severity = "P1"
<1>1. R!SeverityForCandidate(c) \in {"P1", "P2"}
      /\ (c.boundary \/ c.memoryWrite => R!SeverityForCandidate(c) = "P1")
  BY DEF R!SeverityForCandidate
<1>2. R!CategoryForCandidate(c) # "engineering_repair"
  BY DEF R!CategoryForCandidate
<1>3. R!AcceptanceForCandidate(c) \in Nat \ {0}
  BY DEF R!AcceptanceForCandidate
<1>4. R!SourceRefsForCandidate(c, measured) \in Nat \ {0}
  BY DEF R!SourceRefsForCandidate, Sourced
<1>5. R!AdoptionPolicyForCandidate("P1").mode = "recommend_with_durable_write_gate"
  BY DEF R!AdoptionPolicyForCandidate
<1>6. /\ o.id = <<"hermes", c.id>> /\ o.category = R!CategoryForCandidate(c)
      /\ o.severity = R!SeverityForCandidate(c) /\ o.risk = R!SeverityRisk(o.severity)
      /\ o.acceptance = R!AcceptanceForCandidate(c) /\ o.refs = R!SourceRefsForCandidate(c, measured)
      /\ o.ownerReport = (R!SeverityForCandidate(c) = "P1")
      /\ o.next = R!AdoptionPolicyForCandidate(R!SeverityForCandidate(c)).mode
  BY DEF R!WorkOrderFromHermesCandidate
<1> QED
  BY <1>1, <1>2, <1>3, <1>4, <1>5, <1>6

LEMMA RoutingOfRouter ==
  ASSUME RoutingIInv, NEW caller \in RoutingPolicies, s3 = {RoutedFrom(caller)}
  PROVE  /\ R!Orders = RoutedFrom(caller).orders
         /\ \A r \in s3 : /\ r = RoutedFrom(caller) /\ r.source = "router" /\ r.caller = caller
                          /\ r.policy = R!NormalizeRoutingPolicy(caller)
         /\ \A o \in R!Orders : RouterOrder(o, R!NormalizeRoutingPolicy(caller))
<1>1. R!Orders = RoutedFrom(caller).orders
  BY DEF R!Orders
<1>2. \A o \in RoutedFrom(caller).orders : RouterOrder(o, R!NormalizeRoutingPolicy(caller))
  BY RouterOrders, TicketsGraded, TicketRouterOrder, ReportRouterOrder DEF RoutedFrom, RoutingIInv
<1>3. \A r \in s3 : r = RoutedFrom(caller)
  OBVIOUS
<1>4. /\ RoutedFrom(caller).source = "router" /\ RoutedFrom(caller).caller = caller
      /\ RoutedFrom(caller).policy = R!NormalizeRoutingPolicy(caller)
  BY DEF RoutedFrom, R!BuildWorkOrderRouting
<1> QED
  BY <1>1, <1>2, <1>3, <1>4

LEMMA RoutingOfHermes ==
  ASSUME RoutingIInv, NEW c \in HermesCandidates, NEW d \in HermesCandidates, NEW measured \in BOOLEAN,
         s3 = {R!BuildHermesWorkOrderRouting({c, d}, measured)}
  PROVE  /\ \A r \in s3 : r.source = "hermes" /\ r.orders = R!Orders /\ r.policy.mode = "hermes"
         /\ \A o \in R!Orders : o = R!WorkOrderFromHermesCandidate(c, measured)
                                \/ o = R!WorkOrderFromHermesCandidate(d, measured)
<1> DEFINE x == R!BuildHermesWorkOrderRouting({c, d}, measured)
<1>1. /\ x.source = "hermes" /\ x.policy.mode = "hermes"
      /\ x.orders = {R!WorkOrderFromHermesCandidate(y, measured) : y \in {c, d}}
  BY DEF R!BuildHermesWorkOrderRouting
<1> HIDE DEF x
<1>2. s3 = {x}
  BY DEF x
<1>3. R!Orders = x.orders
  BY <1>2 DEF R!Orders
<1> QED
  BY <1>1, <1>2, <1>3

LEMMA RoutingCardinality == R!Cardinality({}) = 0 /\ \A x : R!Cardinality({x}) = 1
BY FS_EmptySet, FS_Singleton DEF R!Cardinality, R!IsFiniteSet, Cardinality, IsFiniteSet

\* A file that is not strict JSON is one order of engineering repair.
LEMMA PollutedFile ==
  ASSUME NEW text, ~text.strict, NEW given, NEW caller, NEW orders,
         orders = R!BuildWorkOrderRouting(R!ReadRepairTicketReview(text), given, caller).orders
  PROVE  /\ \E o \in orders : o.kind = "json_handoff_contract" /\ o.severity = "P2"
         /\ R!Cardinality({o \in orders : o.category = "engineering_repair"}) = 1
<1> DEFINE t == R!TicketFromJsonHandoffDiagnostic(text)
           policy == R!NormalizeRoutingPolicy(caller)
           x == R!ApplyRoutingPolicy(R!WorkOrderFromRepairTicket(t), policy)
<1>1. R!ReadRepairTicketReview(text) = {t}
  BY DEF R!ReadRepairTicketReview, R!Parses
<1>2. x \in orders
  BY <1>1 DEF R!BuildWorkOrderRouting
<1>3. x.category = "engineering_repair" /\ x.kind = t.kind /\ x.severity = t.severity
  BY TicketOrder
<1>4. t.kind = "json_handoff_contract" /\ t.severity = "P2"
  BY DEF R!TicketFromJsonHandoffDiagnostic
<1>5. \A o \in orders : o = x \/ o.category = "operator_quality"
  <2> TAKE o \in orders
  <2>1. \/ \E y \in {t} : o = R!ApplyRoutingPolicy(R!WorkOrderFromRepairTicket(y), policy)
        \/ \E r \in given : o = R!ApplyRoutingPolicy(R!WorkOrderFromOperationalQualityReport(r), policy)
    BY <1>1, RouterOrders
  <2> HIDE DEF policy, t
  <2> QED
    BY <2>1, ReportOrder
<1> HIDE DEF x, t, policy
<1>6. {o \in orders : o.category = "engineering_repair"} = {x}
  BY <1>2, <1>3, <1>5
<1>7. R!Cardinality({x}) = 1
  BY RoutingCardinality
<1> QED
  BY <1>2, <1>3, <1>4, <1>6, <1>7

RoutingKeepsOwner ==
  /\ R!TypeOK /\ R!CriticalWaitsForOwner /\ R!AskingModesAsk /\ R!EveryOrderHasAKeeper
  /\ R!DefaultModeAgrees /\ R!BoundaryNeedsGate /\ R!PollutionIsVisible

LEMMA SeverityOfRisk ==
  ASSUME NEW o, o.risk = R!SeverityRisk(o.severity), o.severity \in R!Severities
  PROVE  /\ o.risk = "critical" => o.severity = "P0"
         /\ o.risk = "low" <=> o.severity = "P3"
BY DEF R!SeverityRisk, R!Severities

LEMMA RouterKeepsOwner ==
  ASSUME RoutingIInv, NEW caller \in RoutingPolicies, s3 = {RoutedFrom(caller)}
  PROVE  RoutingKeepsOwner
<1> DEFINE policy == R!NormalizeRoutingPolicy(caller)
<1>1. /\ R!Orders = RoutedFrom(caller).orders
      /\ \A r \in s3 : /\ r = RoutedFrom(caller) /\ r.source = "router" /\ r.caller = caller
                       /\ r.policy = policy
      /\ \A o \in R!Orders : RouterOrder(o, policy)
  BY RoutingOfRouter
<1>2. /\ policy.mode = caller.mode
      /\ caller.maxSeverity = "unset" => policy.maxSeverity = "P3"
  <2>1. CASE caller.mode \in R!AskingModes
    BY <2>1 DEF R!NormalizeRoutingPolicy
  <2>2. CASE caller.mode \notin R!AskingModes
    BY <2>2 DEF R!NormalizeRoutingPolicy
  <2> QED
    BY <2>1, <2>2
<1> HIDE DEF policy
<1>3. R!TypeOK
  <2>1. R!Cardinality({RoutedFrom(caller)}) = 1
    BY RoutingCardinality
  <2> QED
    BY <1>1, <2>1 DEF R!TypeOK, RouterOrder, RoutingIInv
<1>4. R!CriticalWaitsForOwner
  <2>1. \A o \in R!Orders : o.risk = "critical" => o.severity = "P0"
    BY <1>1, SeverityOfRisk DEF RouterOrder
  <2> QED
    BY <1>1, <2>1 DEF R!CriticalWaitsForOwner, RouterOrder, R!HumanEscalations
<1>5. R!AskingModesAsk
  BY <1>1, <1>2 DEF R!AskingModesAsk, RouterOrder
<1>6. R!EveryOrderHasAKeeper
  BY <1>1 DEF R!EveryOrderHasAKeeper, RouterOrder
<1>7. R!DefaultModeAgrees
  BY <1>1, <1>2 DEF R!DefaultModeAgrees, R!InDefaultMode, R!HumanEscalations, RouterOrder
<1>8. R!BoundaryNeedsGate
  BY <1>1 DEF R!BoundaryNeedsGate
<1>9. R!PollutionIsVisible
  BY <1>1, PollutedFile DEF R!PollutionIsVisible, RoutedFrom
<1> QED
  BY <1>3, <1>4, <1>5, <1>6, <1>7, <1>8, <1>9 DEF RoutingKeepsOwner

LEMMA HermesKeepsOwner ==
  ASSUME RoutingIInv, NEW c \in HermesCandidates, NEW d \in HermesCandidates, NEW measured \in BOOLEAN,
         s3 = {R!BuildHermesWorkOrderRouting({c, d}, measured)}
  PROVE  RoutingKeepsOwner
<1>1. /\ \A r \in s3 : r.source = "hermes" /\ r.orders = R!Orders /\ r.policy.mode = "hermes"
      /\ \A o \in R!Orders : \E x \in HermesCandidates : o = R!WorkOrderFromHermesCandidate(x, measured)
  BY RoutingOfHermes
<1>2. \A x \in HermesCandidates : Sourced(x)
  BY DeckAssumption
<1>3. \A o \in R!Orders : /\ o.severity \in {"P1", "P2"} /\ o.risk = R!SeverityRisk(o.severity)
                          /\ o.acceptance \in Nat \ {0} /\ o.refs \in Nat \ {0}
  BY <1>1, <1>2, HermesOrder
<1>4. R!TypeOK
  <2>1. R!Cardinality({R!BuildHermesWorkOrderRouting({c, d}, measured)}) = 1
    BY RoutingCardinality
  <2>2. \A o \in R!Orders : o.severity \in R!Severities
    BY <1>3 DEF R!Severities
  <2> QED
    BY <1>3, <2>1, <2>2 DEF R!TypeOK, RoutingIInv
<1>5. R!CriticalWaitsForOwner
  BY <1>3, SeverityOfRisk DEF R!CriticalWaitsForOwner, R!Severities
<1>6. R!BoundaryNeedsGate
  <2> SUFFICES ASSUME NEW x \in HermesCandidates, NEW o \in R!Orders,
                      o.id = <<"hermes", x.id>>, x.boundary \/ x.memoryWrite
               PROVE  o.next = "recommend_with_durable_write_gate" /\ o.ownerReport
    BY <1>1 DEF R!BoundaryNeedsGate
  <2>1. PICK y \in HermesCandidates : o = R!WorkOrderFromHermesCandidate(y, measured)
    BY <1>1
  <2>2. o.id = <<"hermes", y.id>> /\ (y.boundary \/ y.memoryWrite =>
          o.next = "recommend_with_durable_write_gate" /\ o.ownerReport)
    BY <1>2, <2>1, HermesOrder
  <2>3. x.id = y.id
    BY <2>2
  <2>4. x = y
    BY <2>3, DeckAssumption
  <2> QED
    BY <2>2, <2>4
<1>7. R!AskingModesAsk /\ R!EveryOrderHasAKeeper /\ R!DefaultModeAgrees /\ R!PollutionIsVisible
  BY <1>1 DEF R!AskingModesAsk, R!EveryOrderHasAKeeper, R!DefaultModeAgrees, R!PollutionIsVisible,
              R!InDefaultMode, R!ByRouter
<1> QED
  BY <1>4, <1>5, <1>6, <1>7 DEF RoutingKeepsOwner

LEMMA RoutingProperties == RoutingIInv => RoutingKeepsOwner
<1> SUFFICES ASSUME RoutingIInv PROVE RoutingKeepsOwner
    OBVIOUS
<1>1. CASE s3 = {}
  <2>1. R!Orders = {} /\ R!Cardinality(s3) <= 1
    BY <1>1, RoutingCardinality DEF R!Orders
  <2>2. R!TypeOK
    BY <2>1 DEF RoutingIInv, R!TypeOK
  <2>3. R!CriticalWaitsForOwner /\ R!EveryOrderHasAKeeper
    BY <2>1 DEF R!CriticalWaitsForOwner, R!EveryOrderHasAKeeper
  <2>4. R!AskingModesAsk /\ R!BoundaryNeedsGate
    BY <1>1 DEF R!AskingModesAsk, R!BoundaryNeedsGate
  <2>5. R!DefaultModeAgrees /\ R!PollutionIsVisible
    BY <1>1 DEF R!DefaultModeAgrees, R!PollutionIsVisible, R!InDefaultMode, R!ByRouter
  <2> QED
    BY <2>2, <2>3, <2>4, <2>5 DEF RoutingKeepsOwner
<1>2. CASE \E caller \in RoutingPolicies : s3 = {RoutedFrom(caller)}
  BY <1>2, RouterKeepsOwner
<1>3. CASE \E c, d \in HermesCandidates, measured \in BOOLEAN :
             s3 = {R!BuildHermesWorkOrderRouting({c, d}, measured)}
  BY <1>3, HermesKeepsOwner
<1> QED
  BY <1>1, <1>2, <1>3 DEF RoutingIInv

-----------------------------------------------------------------------------
(* The LangGraph bridge.  It sees the orders through three shapes, so what *)
(* the router promises of an order is proved of the fields that survive.   *)

LEMMA BridgedTicket ==
  ASSUME NEW t, NEW policy, NEW o,
         o = B!R!ApplyRoutingPolicy(B!R!WorkOrderFromRepairTicket(t), policy)
  PROVE  /\ o.id[1] = "ticket"
         /\ o.severity = "P0" => o.executor = "human_owner"
         /\ o.selfResolve \/ o.ownerReport
<1> DEFINE b == B!R!WorkOrderFromRepairTicket(t)
<1>1. /\ o.id = <<"ticket", t.source>> /\ o.severity = t.severity
      /\ o.executor = B!R!ExecutorForRepairTicket(t)
      /\ o.selfResolve = B!R!AutoCandidate(b, policy)
      /\ o.ownerReport = B!R!OwnerReportRequired(b, policy)
  BY DEF B!R!ApplyRoutingPolicy, B!R!WorkOrderFromRepairTicket
<1>2. b.ownerReport
  BY DEF B!R!WorkOrderFromRepairTicket
<1>3. t.severity = "P0" => B!R!ExecutorForRepairTicket(t) = "human_owner"
  BY DEF B!R!ExecutorForRepairTicket
<1> HIDE DEF b
<1>4. B!R!AutoCandidate(b, policy) \/ B!R!OwnerReportRequired(b, policy)
  BY <1>2 DEF B!R!OwnerReportRequired
<1> QED
  BY <1>1, <1>3, <1>4

LEMMA BridgedReport ==
  ASSUME NEW r, NEW policy, NEW o,
         o = B!R!ApplyRoutingPolicy(B!R!WorkOrderFromOperationalQualityReport(r), policy)
  PROVE  /\ o.id[1] = "operator" /\ o.severity \in {"P1", "P2", "P3"}
         /\ o.selfResolve \/ o.ownerReport
<1> DEFINE b == B!R!WorkOrderFromOperationalQualityReport(r)
<1>1. /\ o.id = <<"operator", r.date>> /\ o.severity = B!R!VerdictSeverity(r.verdict)
      /\ o.selfResolve = B!R!AutoCandidate(b, policy)
      /\ o.ownerReport = B!R!OwnerReportRequired(b, policy)
  BY DEF B!R!ApplyRoutingPolicy, B!R!WorkOrderFromOperationalQualityReport
<1>2. b.ownerReport
  BY DEF B!R!WorkOrderFromOperationalQualityReport
<1>3. B!R!VerdictSeverity(r.verdict) \in {"P1", "P2", "P3"}
  BY DEF B!R!VerdictSeverity
<1> HIDE DEF b
<1>4. B!R!AutoCandidate(b, policy) \/ B!R!OwnerReportRequired(b, policy)
  BY <1>2 DEF B!R!OwnerReportRequired
<1> QED
  BY <1>1, <1>3, <1>4

LEMMA BridgedCandidate ==
  ASSUME NEW c, NEW o, o = B!R!WorkOrderFromHermesCandidate(c, FALSE)
  PROVE  /\ o.id[1] = "hermes" /\ o.severity \in {"P1", "P2"}
         /\ o.severity = "P1" => o.ownerReport
         /\ o.selfResolve
<1>1. /\ o.id = <<"hermes", c.id>> /\ o.severity = B!R!SeverityForCandidate(c)
      /\ o.ownerReport = (B!R!SeverityForCandidate(c) = "P1")
      /\ o.selfResolve = ~B!R!AdoptionPolicyForCandidate(B!R!SeverityForCandidate(c)).writesNow
  BY DEF B!R!WorkOrderFromHermesCandidate
<1>2. B!R!SeverityForCandidate(c) \in {"P1", "P2"}
  BY DEF B!R!SeverityForCandidate
<1>3. o.selfResolve
  <2>1. B!R!AdoptionPolicyForCandidate(B!R!SeverityForCandidate(c)).writesNow = FALSE
    BY DEF B!R!AdoptionPolicyForCandidate
  <2> QED
    BY <1>1, <2>1, Zenon
<1>4. o.severity = "P1" => o.ownerReport
  BY <1>1, Zenon
<1>5. o.id[1] = "hermes"
  <2>1. o.id = <<"hermes", c.id>>
    BY <1>1, Zenon
  <2>2. <<"hermes", c.id>>[1] = "hermes"
    OBVIOUS
  <2> QED
    BY <2>1, <2>2, Zenon
<1>6. o.severity \in {"P1", "P2"}
  BY <1>1, <1>2
<1> QED
  BY <1>3, <1>4, <1>5, <1>6

\* What the bridge relies on, of every order that was routed.
RoutedOrder(o) ==
  /\ o.severity = "P0" => o.executor = "human_owner"
  /\ B!RollbackRequired(o) => o.executor = "human_owner" \/ o.ownerReport
  /\ o.selfResolve \/ o.ownerReport \/ o.confirm

LEMMA RoutedOrdersFacts == ASSUME NEW r, NEW o \in B!RoutedOrders(r) PROVE RoutedOrder(o)
<1>1. \/ \E t \in r.tickets :
           o = B!R!ApplyRoutingPolicy(B!R!WorkOrderFromRepairTicket(t), B!R!NormalizeRoutingPolicy(r.caller))
      \/ \E q \in r.reports :
           o = B!R!ApplyRoutingPolicy(B!R!WorkOrderFromOperationalQualityReport(q), B!R!NormalizeRoutingPolicy(r.caller))
      \/ \E c \in r.candidates : o = B!R!WorkOrderFromHermesCandidate(c, FALSE)
  BY DEF B!RoutedOrders, B!R!BuildWorkOrderRouting, B!R!BuildHermesWorkOrderRouting
<1>2. CASE \E t \in r.tickets :
           o = B!R!ApplyRoutingPolicy(B!R!WorkOrderFromRepairTicket(t), B!R!NormalizeRoutingPolicy(r.caller))
  <2>1. /\ o.id[1] = "ticket"
        /\ o.severity = "P0" => o.executor = "human_owner"
        /\ o.selfResolve \/ o.ownerReport
    BY <1>2, BridgedTicket
  <2> QED
    BY <2>1 DEF RoutedOrder, B!RollbackRequired
<1>3. CASE \E q \in r.reports :
           o = B!R!ApplyRoutingPolicy(B!R!WorkOrderFromOperationalQualityReport(q), B!R!NormalizeRoutingPolicy(r.caller))
  BY <1>3, BridgedReport DEF RoutedOrder, B!RollbackRequired
<1>4. CASE \E c \in r.candidates : o = B!R!WorkOrderFromHermesCandidate(c, FALSE)
  BY <1>4, BridgedCandidate DEF RoutedOrder, B!RollbackRequired
<1> QED
  BY <1>1, <1>2, <1>3, <1>4

LEMMA BridgeCardinality == \A set : B!Cardinality(set) = Cardinality(set)
BY DEF B!Cardinality, Cardinality

LEMMA ImageFinite ==
  ASSUME NEW f, NEW set, f = [x \in set |-> f[x]], IsFiniteSet(set)
  PROVE  /\ IsFiniteSet({f[x] : x \in set})
         /\ Cardinality({f[x] : x \in set}) <= Cardinality(set)
<1>1. f \in Surjection(set, {f[x] : x \in set})
  BY DEF Surjection
<1> QED
  BY <1>1, FS_Surjection

LEMMA RoutedFinite ==
  ASSUME NEW r, IsFiniteSet(r.tickets), IsFiniteSet(r.reports), IsFiniteSet(r.candidates)
  PROVE  IsFiniteSet(B!RoutedOrders(r))
<1> DEFINE policy == B!R!NormalizeRoutingPolicy(r.caller)
           told == {q \in r.reports : B!R!VerdictSeverity(q.verdict) # "P3" \/ q.recommendations > 0}
           ofTickets == [t \in r.tickets |-> B!R!WorkOrderFromRepairTicket(t)]
           ofReports == [q \in told |-> B!R!WorkOrderFromOperationalQualityReport(q)]
           drafts == {ofTickets[t] : t \in r.tickets} \cup {ofReports[q] : q \in told}
           applied == [o \in drafts |-> B!R!ApplyRoutingPolicy(o, policy)]
           ofCandidates == [c \in r.candidates |-> B!R!WorkOrderFromHermesCandidate(c, FALSE)]
<1>1. IsFiniteSet({ofTickets[t] : t \in r.tickets})
  BY ImageFinite
<1>2. IsFiniteSet(told)
  BY FS_Subset
<1>3. IsFiniteSet({ofReports[q] : q \in told})
  BY <1>2, ImageFinite
<1>4. IsFiniteSet(drafts)
  BY <1>1, <1>3, FS_Union
<1>5. IsFiniteSet({applied[o] : o \in drafts})
  BY <1>4, ImageFinite
<1>6. IsFiniteSet({ofCandidates[c] : c \in r.candidates})
  BY ImageFinite
<1>7. B!R!BuildWorkOrderRouting(r.tickets, r.reports, r.caller).orders = {applied[o] : o \in drafts}
  BY DEF B!R!BuildWorkOrderRouting
<1>8. B!R!BuildHermesWorkOrderRouting(r.candidates, FALSE).orders = {ofCandidates[c] : c \in r.candidates}
  BY DEF B!R!BuildHermesWorkOrderRouting
<1> QED
  BY <1>5, <1>6, <1>7, <1>8, FS_Union DEF B!RoutedOrders


\* A bridge, also one that a runtime has changed: a record of its parts, with no more
\* interrupts than orders, whose BOM was computed when it was built or later.
BridgeOK(b) ==
  /\ b = [orders |-> b.orders, queue |-> b.queue, decision |-> b.decision, clauses |-> b.clauses, bom |-> b.bom]
  /\ b.bom = [core |-> b.bom.core, hash |-> b.bom.hash]
  /\ b.bom.core = [missing |-> b.bom.core.missing, outcome |-> b.bom.core.outcome, boundary |-> b.bom.core.boundary]
  /\ b.decision \in B!AllowedOutcomes \cup {"approved"}
  /\ b.clauses \subseteq B!Clauses
  /\ IsFiniteSet(b.orders) /\ IsFiniteSet(b.queue) /\ Cardinality(b.queue) <= Cardinality(b.orders)
  /\ b.orders # {} /\ (\A o \in b.orders : ~o.cited) => "evidence_source_refs" \in b.bom.hash.missing

BridgeIInv ==
  /\ s1 = [caller |-> s1.caller, tickets |-> s1.tickets, reports |-> s1.reports, candidates |-> s1.candidates]
  /\ IsFiniteSet(s1.tickets) /\ IsFiniteSet(s1.reports) /\ IsFiniteSet(s1.candidates)
  /\ s2 \in {"routing", "compact", "summary"}
  /\ s4 \in 0..MaxEdits
  /\ s3 = {} \/ \E b : /\ s3 = {b} /\ BridgeOK(b)
                       /\ s4 = 0 => b = B!BuildBridge(B!WorkOrders(s1, s2))
  /\ s5 = {B!ViolationsForBridge(b) : b \in s3}

LEMMA BomFacts ==
  ASSUME NEW orders, NEW queue, NEW decision, NEW clauses, NEW m,
         m = B!BuildDecisionBom(orders, queue, decision, clauses)
  PROVE  /\ m = [core |-> m.core, hash |-> m.hash]
         /\ m.core = [missing |-> m.core.missing, outcome |-> m.core.outcome, boundary |-> m.core.boundary]
         /\ orders # {} /\ (\A o \in orders : ~o.cited) => "evidence_source_refs" \in m.hash.missing
BY DEF B!BuildDecisionBom

LEMMA BuiltIsOK ==
  ASSUME NEW orders, IsFiniteSet(orders), NEW b, b = B!BuildBridge(orders)
  PROVE  BridgeOK(b)
<1> DEFINE free == {p \in orders : B!Interrupts(p)}
           projected == [o \in free |-> B!InterruptFromWorkOrder(o)]
<1>1. /\ b.orders = orders /\ b.queue = B!BuildInterruptQueue(orders) /\ b.clauses = B!Clauses
      /\ b.decision = B!EffectiveDecision(orders, B!BuildInterruptQueue(orders))
      /\ b.bom = B!BuildDecisionBom(orders, b.queue, b.decision, B!Clauses)
      /\ b = [orders |-> b.orders, queue |-> b.queue, decision |-> b.decision, clauses |-> b.clauses, bom |-> b.bom]
  BY DEF B!BuildBridge
<1>2. b.queue = {projected[o] : o \in free}
  BY <1>1 DEF B!BuildInterruptQueue
<1>3. IsFiniteSet(free) /\ Cardinality(free) <= Cardinality(orders)
  BY FS_Subset
<1>4. IsFiniteSet(b.queue) /\ Cardinality(b.queue) <= Cardinality(free)
  <2>1. projected = [o \in free |-> projected[o]]
    OBVIOUS
  <2> HIDE DEF free, projected
  <2> QED
    BY <1>2, <1>3, <2>1, ImageFinite
<1>5. /\ Cardinality(b.queue) \in Nat /\ Cardinality(free) \in Nat /\ Cardinality(orders) \in Nat
  BY <1>3, <1>4, FS_CardinalityType
<1>6. Cardinality(b.queue) <= Cardinality(orders)
  BY <1>3, <1>4, <1>5
<1>7. b.decision \in B!AllowedOutcomes
  BY <1>1 DEF B!EffectiveDecision, B!AllowedOutcomes
<1> HIDE DEF free, projected
<1> QED
  BY <1>1, <1>4, <1>6, <1>7, BomFacts DEF BridgeOK

LEMMA WorkOrdersFinite ==
  ASSUME NEW r, NEW s, IsFiniteSet(r.tickets), IsFiniteSet(r.reports), IsFiniteSet(r.candidates)
  PROVE  IsFiniteSet(B!WorkOrders(r, s))
<1> DEFINE projected == [o \in B!RoutedOrders(r) |-> B!Projected(o, s)]
<1>1. IsFiniteSet({projected[o] : o \in B!RoutedOrders(r)})
  BY RoutedFinite, ImageFinite
<1> QED
  BY <1>1 DEF B!WorkOrders


LEMMA BridgeInit == B!Init => BridgeIInv
<1> SUFFICES ASSUME B!Init PROVE BridgeIInv
    OBVIOUS
<1>1. /\ s1 = [caller |-> s1.caller, tickets |-> s1.tickets, reports |-> s1.reports, candidates |-> s1.candidates]
      /\ s1.tickets = {} /\ s1.reports = {} /\ s1.candidates = {} /\ s2 = "routing" /\ s3 = {} /\ s4 = 0 /\ s5 = {}
  BY DEF B!Init
<1>2. IsFiniteSet({})
  BY FS_EmptySet
<1> QED
  BY <1>1, <1>2, DeckAssumption DEF BridgeIInv

\* Whatever is routed next is bridged afresh.
LEMMA BridgedKeeps ==
  ASSUME NEW r, NEW s \in {"routing", "compact", "summary"},
         r = [caller |-> r.caller, tickets |-> r.tickets, reports |-> r.reports, candidates |-> r.candidates],
         IsFiniteSet(r.tickets), IsFiniteSet(r.reports), IsFiniteSet(r.candidates), B!Bridged(r, s)
  PROVE  BridgeIInv'
<1> DEFINE b == B!BuildBridge(B!WorkOrders(r, s))
<1>1. s1' = r /\ s2' = s /\ s3' = {b} /\ s4' = 0 /\ s5' = {B!ViolationsForBridge(x) : x \in s3'}
  BY DEF B!Bridged
<1>2. BridgeOK(b)
  BY WorkOrdersFinite, BuiltIsOK
<1>3. b = B!BuildBridge(B!WorkOrders(s1', s2'))
  BY <1>1
<1> HIDE DEF b
<1>4. \E x : s3' = {x} /\ BridgeOK(x) /\ (s4' = 0 => x = B!BuildBridge(B!WorkOrders(s1', s2')))
  BY <1>1, <1>2, <1>3
<1>5. 0 \in 0..MaxEdits
  BY DeckAssumption
<1> QED
  BY <1>1, <1>4, <1>5, Zenon DEF BridgeIInv

LEMMA EditKeeps ==
  ASSUME BridgeIInv, NEW b, BridgeOK(b), B!Edit(b)
  PROVE  BridgeIInv'
<1>1. s1' = s1 /\ s2' = s2 /\ s3' = {b} /\ s4' = s4 + 1 /\ s4 < MaxEdits /\ s5' = {B!ViolationsForBridge(b)}
  BY DEF B!Edit
<1>2. s4 + 1 \in 0..MaxEdits /\ s4 + 1 # 0
  BY <1>1, DeckAssumption DEF BridgeIInv
<1>3. {B!ViolationsForBridge(b)} = {B!ViolationsForBridge(x) : x \in {b}}
  OBVIOUS
<1>4. \E x : s3' = {x} /\ BridgeOK(x) /\ (s4' = 0 => x = B!BuildBridge(B!WorkOrders(s1', s2')))
  BY <1>1, <1>2
<1> QED
  BY <1>1, <1>2, <1>3, <1>4, Zenon DEF BridgeIInv


\* An interrupt that is changed is still one of as many.
LEMMA ChangedInterrupt ==
  ASSUME NEW b, BridgeOK(b), NEW i \in b.queue, NEW j, NEW x,
         x = [b EXCEPT !.queue = (b.queue \ {i}) \cup {j}]
  PROVE  BridgeOK(x)
<1> DEFINE left == b.queue \ {i}
<1>1. IsFiniteSet(b.queue) /\ Cardinality(b.queue) \in Nat /\ Cardinality(b.orders) \in Nat
  BY FS_CardinalityType DEF BridgeOK
<1>2. IsFiniteSet(left) /\ Cardinality(left) = Cardinality(b.queue) - 1
  BY <1>1, FS_RemoveElement
<1>3. IsFiniteSet(left \cup {j}) /\ Cardinality(left \cup {j}) <= Cardinality(left) + 1
  <2>1. j \in left => left \cup {j} = left
    OBVIOUS
  <2>2. j \notin left => IsFiniteSet(left \cup {j}) /\ Cardinality(left \cup {j}) = Cardinality(left) + 1
    BY <1>2, FS_AddElement
  <2>3. Cardinality(left) \in Nat
    BY <1>2, FS_CardinalityType
  <2>4. CASE j \in left
    <3>1. left \cup {j} = left
      BY <2>1, <2>4
    <3>2. IsFiniteSet(left \cup {j}) /\ Cardinality(left \cup {j}) = Cardinality(left)
      BY <1>2, <3>1, Zenon
    <3> HIDE DEF left
    <3> QED
      BY <2>3, <3>2
  <2>5. CASE j \notin left
    BY <2>2, <2>3, <2>5
  <2> QED
    BY <2>4, <2>5
<1>4. Cardinality(left \cup {j}) \in Nat
  BY <1>3, FS_CardinalityType
<1>5. Cardinality(left \cup {j}) <= Cardinality(b.orders)
  BY <1>1, <1>2, <1>3, <1>4 DEF BridgeOK
<1>6. /\ x.orders = b.orders /\ x.queue = left \cup {j} /\ x.decision = b.decision
      /\ x.clauses = b.clauses /\ x.bom = b.bom
      /\ x = [orders |-> x.orders, queue |-> x.queue, decision |-> x.decision, clauses |-> x.clauses, bom |-> x.bom]
  BY DEF BridgeOK
<1> HIDE DEF left
<1> QED
  BY <1>3, <1>5, <1>6 DEF BridgeOK

LEMMA DroppedClauses ==
  ASSUME NEW b, BridgeOK(b), NEW group, NEW x, x = [b EXCEPT !.clauses = b.clauses \ group]
  PROVE  BridgeOK(x)
<1>1. /\ x.orders = b.orders /\ x.queue = b.queue /\ x.decision = b.decision
      /\ x.clauses = b.clauses \ group /\ x.bom = b.bom
      /\ x = [orders |-> x.orders, queue |-> x.queue, decision |-> x.decision, clauses |-> x.clauses, bom |-> x.bom]
  BY DEF BridgeOK
<1> QED
  BY <1>1 DEF BridgeOK

LEMMA ChangedDecision ==
  ASSUME NEW b, BridgeOK(b), NEW d \in B!AllowedOutcomes \cup {"approved"}, NEW x, x = [b EXCEPT !.decision = d]
  PROVE  BridgeOK(x)
<1>1. /\ x.orders = b.orders /\ x.queue = b.queue /\ x.decision = d
      /\ x.clauses = b.clauses /\ x.bom = b.bom
      /\ x = [orders |-> x.orders, queue |-> x.queue, decision |-> x.decision, clauses |-> x.clauses, bom |-> x.bom]
  BY DEF BridgeOK
<1> QED
  BY <1>1 DEF BridgeOK

LEMMA RewrittenBom ==
  ASSUME NEW b, BridgeOK(b), NEW d, NEW x, x = [b EXCEPT !.bom.core.outcome = d]
  PROVE  BridgeOK(x)
<1>1. /\ x.orders = b.orders /\ x.queue = b.queue /\ x.decision = b.decision /\ x.clauses = b.clauses
      /\ x.bom = [b.bom EXCEPT !.core.outcome = d]
      /\ x = [orders |-> x.orders, queue |-> x.queue, decision |-> x.decision, clauses |-> x.clauses, bom |-> x.bom]
  BY DEF BridgeOK
<1>2. x.bom.core = [b.bom.core EXCEPT !.outcome = d] /\ x.bom.hash = b.bom.hash /\ x.bom = [core |-> x.bom.core, hash |-> x.bom.hash]
  BY <1>1 DEF BridgeOK
<1>3. x.bom.core = [missing |-> x.bom.core.missing, outcome |-> x.bom.core.outcome, boundary |-> x.bom.core.boundary]
  BY <1>2 DEF BridgeOK
<1> QED
  BY <1>1, <1>2, <1>3 DEF BridgeOK

LEMMA CompletedBom ==
  ASSUME NEW b, BridgeOK(b), NEW x, x = [b EXCEPT !.bom.core.missing = {}]
  PROVE  BridgeOK(x)
<1>1. /\ x.orders = b.orders /\ x.queue = b.queue /\ x.decision = b.decision /\ x.clauses = b.clauses
      /\ x.bom = [b.bom EXCEPT !.core.missing = {}]
      /\ x = [orders |-> x.orders, queue |-> x.queue, decision |-> x.decision, clauses |-> x.clauses, bom |-> x.bom]
  BY DEF BridgeOK
<1>2. x.bom.core = [b.bom.core EXCEPT !.missing = {}] /\ x.bom.hash = b.bom.hash /\ x.bom = [core |-> x.bom.core, hash |-> x.bom.hash]
  BY <1>1 DEF BridgeOK
<1>3. x.bom.core = [missing |-> x.bom.core.missing, outcome |-> x.bom.core.outcome, boundary |-> x.bom.core.boundary]
  BY <1>2 DEF BridgeOK
<1> QED
  BY <1>1, <1>2, <1>3 DEF BridgeOK

LEMMA RebuiltBom ==
  ASSUME NEW b, BridgeOK(b), NEW x,
         x = [b EXCEPT !.bom = B!BuildDecisionBom(b.orders, b.queue, b.decision, b.clauses)]
  PROVE  BridgeOK(x)
<1> DEFINE m == B!BuildDecisionBom(b.orders, b.queue, b.decision, b.clauses)
<1>1. /\ m = [core |-> m.core, hash |-> m.hash]
      /\ m.core = [missing |-> m.core.missing, outcome |-> m.core.outcome, boundary |-> m.core.boundary]
      /\ b.orders # {} /\ (\A o \in b.orders : ~o.cited) => "evidence_source_refs" \in m.hash.missing
  BY BomFacts
<1> HIDE DEF m
<1>2. /\ x.orders = b.orders /\ x.queue = b.queue /\ x.decision = b.decision
      /\ x.clauses = b.clauses /\ x.bom = m
      /\ x = [orders |-> x.orders, queue |-> x.queue, decision |-> x.decision, clauses |-> x.clauses, bom |-> x.bom]
  BY DEF BridgeOK, m
<1> QED
  BY <1>1, <1>2 DEF BridgeOK

LEMMA BridgeStep == ASSUME BridgeIInv, B!Next PROVE BridgeIInv'
<1>1. ASSUME NEW t PROVE IsFiniteSet(s1.tickets \cup {t}) /\ IsFiniteSet(s1.reports \cup {t}) /\ IsFiniteSet(s1.candidates \cup {t})
  BY FS_Singleton, FS_Union DEF BridgeIInv
<1>2. ASSUME NEW b \in s3 PROVE BridgeOK(b)
  BY <1>2 DEF BridgeIInv
<1>3. ASSUME B!RouteTicket PROVE BridgeIInv'
  <2>1. PICK t : B!Bridged([s1 EXCEPT !.tickets = @ \cup {t}], "routing")
    BY <1>3 DEF B!RouteTicket
  <2>2. [s1 EXCEPT !.tickets = @ \cup {t}] = [caller |-> s1.caller, tickets |-> s1.tickets \cup {t}, reports |-> s1.reports, candidates |-> s1.candidates]
    BY DEF BridgeIInv
  <2>3. B!Bridged([caller |-> s1.caller, tickets |-> s1.tickets \cup {t}, reports |-> s1.reports, candidates |-> s1.candidates], "routing")
    BY <2>1, <2>2
  <2> QED
    BY <1>1, <2>3, BridgedKeeps DEF BridgeIInv
<1>4. ASSUME B!RouteReport PROVE BridgeIInv'
  <2>1. PICK t : B!Bridged([s1 EXCEPT !.reports = @ \cup {t}], "routing")
    BY <1>4 DEF B!RouteReport
  <2>2. [s1 EXCEPT !.reports = @ \cup {t}] = [caller |-> s1.caller, tickets |-> s1.tickets, reports |-> s1.reports \cup {t}, candidates |-> s1.candidates]
    BY DEF BridgeIInv
  <2>3. B!Bridged([caller |-> s1.caller, tickets |-> s1.tickets, reports |-> s1.reports \cup {t}, candidates |-> s1.candidates], "routing")
    BY <2>1, <2>2
  <2> QED
    BY <1>1, <2>3, BridgedKeeps DEF BridgeIInv
<1>5. ASSUME B!RouteCandidate PROVE BridgeIInv'
  <2>1. PICK t : B!Bridged([s1 EXCEPT !.candidates = @ \cup {t}], "routing")
    BY <1>5 DEF B!RouteCandidate
  <2>2. [s1 EXCEPT !.candidates = @ \cup {t}] = [caller |-> s1.caller, tickets |-> s1.tickets, reports |-> s1.reports, candidates |-> s1.candidates \cup {t}]
    BY DEF BridgeIInv
  <2>3. B!Bridged([caller |-> s1.caller, tickets |-> s1.tickets, reports |-> s1.reports, candidates |-> s1.candidates \cup {t}], "routing")
    BY <2>1, <2>2
  <2> QED
    BY <1>1, <2>3, BridgedKeeps DEF BridgeIInv
<1>6. ASSUME B!BridgeNothing \/ B!ReadCompact PROVE BridgeIInv'
  <2>1. PICK s \in {"routing", "compact", "summary"} : B!Bridged(s1, s)
    BY <1>6 DEF B!BridgeNothing, B!ReadCompact
  <2> QED
    BY <2>1, BridgedKeeps DEF BridgeIInv
<1>7. ASSUME B!DropClauses PROVE BridgeIInv'
  <2>1. PICK b \in s3, group \in B!ClauseGroups : B!Edit([b EXCEPT !.clauses = @ \ group])
    BY <1>7 DEF B!DropClauses
  <2> QED
    BY <1>2, <2>1, DroppedClauses, EditKeeps
<1>8. ASSUME B!ChangeDecision PROVE BridgeIInv'
  <2>1. PICK b \in s3, d \in B!AllowedOutcomes \cup {"approved"} : B!Edit([b EXCEPT !.decision = d])
    BY <1>8 DEF B!ChangeDecision
  <2> QED
    BY <1>2, <2>1, ChangedDecision, EditKeeps
<1>9. ASSUME B!FreeItem PROVE BridgeIInv'
  <2>0. PICK b \in s3 : \E i \in b.queue :
          B!Edit([b EXCEPT !.queue = (@ \ {i}) \cup {[i EXCEPT !.boundary.withoutHuman = TRUE]}])
    BY <1>9 DEF B!FreeItem
  <2>1. PICK i \in b.queue :
          B!Edit([b EXCEPT !.queue = (@ \ {i}) \cup {[i EXCEPT !.boundary.withoutHuman = TRUE]}])
    BY <2>0
  <2> DEFINE x == [b EXCEPT !.queue = (@ \ {i}) \cup {[i EXCEPT !.boundary.withoutHuman = TRUE]}]
  <2>2. BridgeOK(x)
    BY <1>2, ChangedInterrupt
  <2> HIDE DEF x
  <2> QED
    BY <2>1, <2>2, EditKeeps DEF x
<1>10. ASSUME B!SkipRecord PROVE BridgeIInv'
  <2>0. PICK b \in s3 : \E i \in b.queue :
          B!Edit([b EXCEPT !.queue = (@ \ {i}) \cup {[i EXCEPT !.recorded = FALSE]}])
    BY <1>10 DEF B!SkipRecord
  <2>1. PICK i \in b.queue : B!Edit([b EXCEPT !.queue = (@ \ {i}) \cup {[i EXCEPT !.recorded = FALSE]}])
    BY <2>0
  <2>2. BridgeOK([b EXCEPT !.queue = (@ \ {i}) \cup {[i EXCEPT !.recorded = FALSE]}])
    BY <1>2, ChangedInterrupt
  <2> QED
    BY <2>1, <2>2, EditKeeps
<1>11. ASSUME B!RewriteBom PROVE BridgeIInv'
  <2>1. PICK b \in s3, d \in B!AllowedOutcomes : B!Edit([b EXCEPT !.bom.core.outcome = d])
    BY <1>11 DEF B!RewriteBom
  <2> QED
    BY <1>2, <2>1, RewrittenBom, EditKeeps
<1>12. ASSUME B!DeclareComplete PROVE BridgeIInv'
  <2>1. PICK b \in s3 : B!Edit([b EXCEPT !.bom.core.missing = {}])
    BY <1>12 DEF B!DeclareComplete
  <2> QED
    BY <1>2, <2>1, CompletedBom, EditKeeps
<1>13. ASSUME B!RebuildBom PROVE BridgeIInv'
  <2>1. PICK b \in s3 : B!Edit([b EXCEPT !.bom = B!BuildDecisionBom(b.orders, b.queue, b.decision, b.clauses)])
    BY <1>13 DEF B!RebuildBom
  <2> QED
    BY <1>2, <2>1, RebuiltBom, EditKeeps
<1> QED
  BY <1>3, <1>4, <1>5, <1>6, <1>7, <1>8, <1>9, <1>10, <1>11, <1>12, <1>13 DEF B!Next


BridgeKeepsOwner ==
  /\ B!TypeOK /\ B!CriticalAlwaysInterrupts /\ B!FreeWorkResolvesItself
  /\ B!AcceptedKeepsBoundary /\ B!AcceptedIsSourced

LEMMA ProjectedFacts ==
  ASSUME NEW o, NEW s, NEW p, p = B!Projected(o, s)
  PROVE  /\ p.severity = o.severity /\ p.executor = o.executor /\ p.rollback = B!RollbackRequired(o)
         /\ s = "routing" => p.ownerReport = (TRUE /\ o.ownerReport) /\ p.confirm = o.confirm
BY DEF B!Projected

\* The interrupt of an order is in the queue of the bridge that is built of it.
LEMMA BuiltQueue ==
  ASSUME NEW orders, NEW b, b = B!BuildBridge(orders)
  PROVE  /\ b.orders = orders
         /\ \A i \in b.queue : \E o \in orders : i = B!InterruptFromWorkOrder(o)
         /\ \A o \in orders : B!Interrupts(o) => B!InterruptFromWorkOrder(o) \in b.queue
         /\ b.decision = "allow_bounded_local_work" => b.queue = {}
BY DEF B!BuildBridge, B!BuildInterruptQueue, B!EffectiveDecision

LEMMA InterruptFacts ==
  ASSUME NEW o, NEW i, i = B!InterruptFromWorkOrder(o)
  PROVE  /\ i.id = o.id /\ i.durable = B!DurableOrPublicEffect(o) /\ i.humanOwner = B!DurableOrPublicEffect(o)
         /\ i.boundary.requiresInterrupt = (o.confirm \/ o.ownerReport \/ B!DurableOrPublicEffect(o))
BY DEF B!InterruptFromWorkOrder, B!EffectBoundary

\* What the evaluator accepts.
LEMMA NoViolations ==
  ASSUME NEW b, BridgeOK(b), B!ViolationsForBridge(b) = {}
  PROVE  /\ b.clauses = B!Clauses
         /\ b.queue # {} => b.decision = "require_interrupt" /\ b.bom.core.outcome = "require_interrupt"
         /\ \A i \in b.queue : i.recorded /\ ~i.boundary.withoutHuman
         /\ b.orders = {} \/ \E o \in b.orders : o.cited
<1>1. /\ B!Clauses \ b.clauses = {} /\ B!InterruptViolations(b) = {}
      /\ B!DecisionViolations(b) = {} /\ B!BomViolations(b) = {}
  BY DEF B!ViolationsForBridge
<1>2. b.clauses = B!Clauses
  BY <1>1 DEF BridgeOK
<1>3. b.queue # {} => b.decision = "require_interrupt"
  BY <1>1 DEF B!DecisionViolations
<1>4. b.bom.core.missing = {} /\ b.bom.hash = b.bom.core /\ b.bom.core.outcome = b.decision
  BY <1>1 DEF B!BomViolations
<1>5. \A i \in b.queue : i.recorded
  BY <1>1 DEF B!InterruptViolations
<1>6. \A i \in b.queue : ~i.boundary.withoutHuman
  BY <1>1 DEF B!InterruptViolations
<1>7. b.orders = {} \/ \E o \in b.orders : o.cited
  BY <1>4 DEF BridgeOK
<1> QED
  BY <1>2, <1>3, <1>4, <1>5, <1>6, <1>7

LEMMA BridgeProperties == BridgeIInv => BridgeKeepsOwner
<1> SUFFICES ASSUME BridgeIInv PROVE BridgeKeepsOwner
    OBVIOUS
<1>1. ASSUME NEW b \in s3 PROVE BridgeOK(b) /\ s3 = {b} /\ (s4 = 0 => b = B!BuildBridge(B!WorkOrders(s1, s2)))
  BY <1>1 DEF BridgeIInv
<1>2. B!TypeOK
  <2>1. ASSUME NEW b \in s3 PROVE b.decision \in B!AllowedOutcomes \cup {"approved"}
                                 /\ B!Cardinality(b.queue) <= B!Cardinality(b.orders)
    BY <1>1, BridgeCardinality DEF BridgeOK
  <2>2. ASSUME NEW b \in s3, s4 = 0, NEW i \in b.queue, i.durable PROVE i.boundary.requiresInterrupt
    <3>1. PICK o : i = B!InterruptFromWorkOrder(o)
      BY <1>1, <2>2, BuiltQueue
    <3>2. i.durable = B!DurableOrPublicEffect(o) /\ i.boundary.requiresInterrupt = (o.confirm \/ o.ownerReport \/ B!DurableOrPublicEffect(o))
      BY <3>1, InterruptFacts
    <3> QED
      BY <2>2, <3>2, Zenon
  <2>3. s2 \in {"routing", "compact", "summary"} /\ s4 \in 0..MaxEdits /\ s5 = {B!ViolationsForBridge(b) : b \in s3}
    BY DEF BridgeIInv
  <2> QED
    BY <2>1, <2>2, <2>3 DEF B!TypeOK, B!Built
<1>3. B!CriticalAlwaysInterrupts
  <2> SUFFICES ASSUME s4 = 0, NEW b \in s3, NEW o \in b.orders,
                      o.severity = "P0" \/ (s2 = "routing" /\ o.rollback)
               PROVE  \E i \in b.queue : i.id = o.id /\ i.humanOwner
    BY DEF B!CriticalAlwaysInterrupts, B!Built
  <2>1. b = B!BuildBridge(B!WorkOrders(s1, s2))
    BY <1>1
  <2>2. o \in B!WorkOrders(s1, s2)
    BY <2>1, BuiltQueue
  <2>3. PICK p \in B!RoutedOrders(s1) : o = B!Projected(p, s2)
    BY <2>2 DEF B!WorkOrders
  <2>4. /\ o.severity = p.severity /\ o.executor = p.executor /\ o.rollback = B!RollbackRequired(p)
        /\ s2 = "routing" => o.ownerReport = (TRUE /\ p.ownerReport)
    BY <2>3, ProjectedFacts
  <2>5. RoutedOrder(p)
    BY RoutedOrdersFacts
  <2>6. B!Interrupts(o) /\ B!DurableOrPublicEffect(o)
    BY <2>4, <2>5, Zenon DEF RoutedOrder, B!Interrupts, B!DurableOrPublicEffect
  <2>7. B!InterruptFromWorkOrder(o) \in b.queue
    BY <2>1, <2>2, <2>6, BuiltQueue
  <2>8. B!InterruptFromWorkOrder(o).id = o.id /\ B!InterruptFromWorkOrder(o).humanOwner = B!DurableOrPublicEffect(o)
    BY InterruptFacts
  <2> QED
    BY <2>6, <2>7, <2>8, Zenon
<1>4. B!FreeWorkResolvesItself
  <2> SUFFICES ASSUME s4 = 0, s2 = "routing", NEW b \in s3, b.decision = "allow_bounded_local_work",
                      NEW p \in B!RoutedOrders(s1)
               PROVE  p.selfResolve
    BY DEF B!FreeWorkResolvesItself, B!Built
  <2> DEFINE o == B!Projected(p, s2)
  <2>1. b = B!BuildBridge(B!WorkOrders(s1, s2)) /\ o \in B!WorkOrders(s1, s2)
    BY <1>1 DEF B!WorkOrders
  <2>2. o.ownerReport = (TRUE /\ p.ownerReport) /\ o.confirm = p.confirm
    BY ProjectedFacts
  <2> HIDE DEF o
  <2>3. ~B!Interrupts(o)
    BY <2>1, BuiltQueue
  <2>4. RoutedOrder(p)
    BY RoutedOrdersFacts
  <2> QED
    BY <2>2, <2>3, <2>4, Zenon DEF RoutedOrder, B!Interrupts
<1>5. ASSUME B!Accepted, NEW b \in s3 PROVE B!ViolationsForBridge(b) = {}
  BY <1>5 DEF BridgeIInv, B!Accepted
<1>6. B!AcceptedKeepsBoundary
  BY <1>1, <1>5, NoViolations DEF B!AcceptedKeepsBoundary
<1>7. B!AcceptedIsSourced
  BY <1>1, <1>5, NoViolations DEF B!AcceptedIsSourced
<1> QED
  BY <1>2, <1>3, <1>4, <1>6, <1>7 DEF BridgeKeepsOwner

-----------------------------------------------------------------------------
(* The Hermes distillation mapper.  What the distiller makes of an         *)
(* artifact matters to it in one way: which routes its lessons take.       *)

\* What a lesson of a route is made of.
LEMMA KeptSignals ==
  ASSUME NEW route \in M!LessonRoutes, NEW signals, NEW segments, UNION segments \subseteq signals,
         M!Of(signals, route)
  PROVE  M!LessonSignalsFor(route, signals, segments) = signals \cap M!LessonAllowedSignals[route]
<1> DEFINE cut == ((UNION segments) \cup signals) \cap M!LessonAllowedSignals[route]
<1>1. cut = signals \cap M!LessonAllowedSignals[route]
  OBVIOUS
<1>2. M!LessonRouteSignals[route] \subseteq M!LessonAllowedSignals[route]
  BY DEF M!LessonRoutes, M!LessonRouteSignals, M!LessonAllowedSignals
<1>3. M!Of(cut, route)
  BY <1>1, <1>2 DEF M!Of, M!HasAnySignal
<1> QED
  BY <1>1, <1>3 DEF M!LessonSignalsFor

\* A route the whole source supports, and whose signals lead back to it, has a lesson.
LEMMA LessonOfRoute ==
  ASSUME NEW s, NEW route \in M!LessonRoutes,
         M!SourceLevelFallbackAllowed(M!SourceSignals(s), route),
         M!ExpectedRouteFor(M!SourceSignals(s) \cap M!LessonAllowedSignals[route]) = route
  PROVE  \E l \in M!BuildAtomicLessons(s) : l.expectedRoute = route
<1> DEFINE segments == M!BuildSegments(s)
           signals == M!SourceSignals(s)
           supporting(r) == {i \in DOMAIN segments : M!SegmentSupportsLessonRoute(segments[i], r)}
           from(r) == IF supporting(r) # {} THEN supporting(r) ELSE DOMAIN segments
           kept(r) == M!LessonSignalsFor(r, signals, {segments[i] : i \in from(r)})
           routes == {r \in M!LessonRoutes :
                        /\ supporting(r) # {} \/ M!SourceLevelFallbackAllowed(signals, r)
                        /\ M!ExpectedRouteFor(kept(r)) = r}
           lesson(r) == M!BuildLearningEvent(s, r, from(r), kept(r),
              M!LessonEvidenceCountFor(r, s, M!Cardinality(from(r)), kept(r)),
              M!LessonRiskFor(r, s, kept(r)), M!LessonArtifactEvidenceFor(r, s))
<1>1. UNION {segments[i] : i \in from(route)} \subseteq signals
  BY DEF M!SourceSignals
<1>2. kept(route) = signals \cap M!LessonAllowedSignals[route]
  <2>1. M!Of(signals, route)
    BY DEF M!SourceLevelFallbackAllowed
  <2> HIDE DEF from, segments, signals
  <2> QED
    BY <1>1, <2>1, KeptSignals
<1>3. M!ExpectedRouteFor(kept(route)) = route
  BY <1>2
<1>4. route \in routes
  BY <1>3
<1>5. lesson(route) \in M!BuildAtomicLessons(s)
  <2>1. routes # {} => M!BuildAtomicLessons(s) = {lesson(r) : r \in routes}
    BY DEF M!BuildAtomicLessons
  <2> HIDE DEF lesson, routes
  <2> QED
    BY <1>4, <2>1
<1>6. lesson(route).expectedRoute = M!ExpectedRouteFor(kept(route))
  BY DEF M!BuildLearningEvent
<1> QED
  BY <1>3, <1>5, <1>6


LEMMA PolicyLesson ==
  ASSUME NEW s, M!Of(M!SourceSignals(s), "policy")
  PROVE  \E l \in M!BuildAtomicLessons(s) : l.expectedRoute = "policy"
<1> DEFINE signals == M!SourceSignals(s)
           kept == signals \cap M!LessonAllowedSignals["policy"]
<1>1. "policy" \in M!LessonRoutes
  BY DEF M!LessonRoutes, M!LessonRouteSignals
<1>2. M!SourceLevelFallbackAllowed(signals, "policy")
  BY DEF M!SourceLevelFallbackAllowed, M!OutOfRoute
<1>3. /\ "candidate_replay_failed" \notin kept
      /\ ~M!HasAnySignal(kept, {"avoid_overreaction", "single_failure"})
      /\ M!Of(kept, "policy")
  <2> HIDE DEF signals
  <2> QED
    BY DEF M!LessonAllowedSignals, M!LessonRouteSignals, M!HasAnySignal, M!Of, signals
<1>4. M!ExpectedRouteFor(kept) = "policy"
  <2> HIDE DEF kept
  <2> QED
    BY <1>3 DEF M!ExpectedRouteFor
<1> QED
  BY <1>1, <1>2, <1>4, LessonOfRoute

\* A source with a stable fact has a lesson that is not ignored, unless it tells of a
\* failure after a change.
LEMMA SomeLesson ==
  ASSUME NEW s, "stable_project_fact" \in M!SourceSignals(s), ~M!FailureAfterChange(M!SourceSignals(s))
  PROVE  \E l \in M!BuildAtomicLessons(s) : l.expectedRoute \in M!LessonRoutes
<1> DEFINE signals == M!SourceSignals(s)
           kept(r) == signals \cap M!LessonAllowedSignals[r]
<1>0. M!LessonRoutes = {"policy", "damping", "skill", "case", "memory"}
  BY DEF M!LessonRoutes, M!LessonRouteSignals
<1> HIDE DEF signals
<1>1. CASE M!Of(signals, "policy")
  BY <1>0, <1>1, PolicyLesson DEF signals
<1>2. CASE ~M!Of(signals, "policy") /\ M!Of(signals, "damping")
  <2>1. M!SourceLevelFallbackAllowed(signals, "damping")
    BY <1>2 DEF M!SourceLevelFallbackAllowed
  <2>2. /\ ~M!HasAnySignal(kept("damping"), {"public_posting_boundary", "farcaster_public_memory_risk"})
        /\ "candidate_replay_failed" \in kept("damping") \/ M!HasAnySignal(kept("damping"), {"avoid_overreaction", "single_failure"})
    BY <1>2 DEF M!LessonAllowedSignals, M!LessonRouteSignals, M!HasAnySignal, M!Of
  <2>3. M!ExpectedRouteFor(kept("damping")) = "damping"
    <3> HIDE DEF kept
    <3> QED
      BY <2>2 DEF M!ExpectedRouteFor
  <2> QED
    BY <1>0, <2>1, <2>3, LessonOfRoute DEF signals
<1>3. CASE ~M!Of(signals, "policy") /\ ~M!Of(signals, "damping") /\ M!Of(signals, "case")
  <2>1. M!SourceLevelFallbackAllowed(signals, "case")
    BY <1>3 DEF M!SourceLevelFallbackAllowed, M!OutOfRoute
  <2>2. /\ "candidate_replay_failed" \notin kept("case")
        /\ ~M!HasAnySignal(kept("case"), {"avoid_overreaction", "single_failure"})
        /\ ~M!Of(kept("case"), "policy")
    BY DEF M!LessonAllowedSignals, M!LessonRouteSignals, M!HasAnySignal, M!Of
  <2>3. \/ M!HasAnySignal(kept("case"), {"knowledge_gap", "research_needed", "user_correction"})
        \/ /\ "repeated_failure_pattern" \in kept("case")
           /\ ~M!HasAnySignal(kept("case"), {"external_framework_change", "competitor_change", "reusable_workflow"})
    BY <1>3 DEF M!LessonAllowedSignals, M!LessonRouteSignals, M!HasAnySignal, M!Of, M!FailureAfterChange, signals
  <2>4. M!ExpectedRouteFor(kept("case")) = "case"
    <3> HIDE DEF kept
    <3> QED
      BY <2>2, <2>3 DEF M!ExpectedRouteFor
  <2> QED
    BY <1>0, <2>1, <2>4, LessonOfRoute DEF signals
<1>4. CASE ~M!Of(signals, "policy") /\ ~M!Of(signals, "damping") /\ ~M!Of(signals, "case") /\ M!Of(signals, "skill")
  <2>1. M!SourceLevelFallbackAllowed(signals, "skill")
    BY <1>4 DEF M!SourceLevelFallbackAllowed, M!OutOfRoute
  <2>2. /\ "candidate_replay_failed" \notin kept("skill")
        /\ ~M!HasAnySignal(kept("skill"), {"avoid_overreaction", "single_failure"})
        /\ ~M!Of(kept("skill"), "policy")
        /\ ~M!HasAnySignal(kept("skill"), {"knowledge_gap", "research_needed", "user_correction"})
    BY DEF M!LessonAllowedSignals, M!LessonRouteSignals, M!HasAnySignal, M!Of
  <2>3. M!HasAnySignal(kept("skill"), {"external_framework_change", "competitor_change", "reusable_workflow"})
    BY <1>4 DEF M!LessonAllowedSignals, M!LessonRouteSignals, M!HasAnySignal, M!Of
  <2>4. M!ExpectedRouteFor(kept("skill")) = "skill"
    <3> HIDE DEF kept
    <3> QED
      BY <2>2, <2>3 DEF M!ExpectedRouteFor
  <2> QED
    BY <1>0, <2>1, <2>4, LessonOfRoute DEF signals
<1>5. CASE ~M!Of(signals, "policy") /\ ~M!Of(signals, "damping") /\ ~M!Of(signals, "case") /\ ~M!Of(signals, "skill")
  <2>1. "stable_project_fact" \in signals
    BY DEF signals
  <2>2. M!Of(signals, "memory") /\ ~M!HasAnySignal(signals, {"reusable_workflow", "repeated_failure_pattern"})
    BY <1>5, <2>1 DEF M!LessonRouteSignals, M!HasAnySignal, M!Of
  <2>3. M!SourceLevelFallbackAllowed(signals, "memory")
    BY <1>5, <2>2 DEF M!SourceLevelFallbackAllowed, M!OutOfRoute
  <2>4. /\ "candidate_replay_failed" \notin kept("memory")
        /\ ~M!HasAnySignal(kept("memory"), {"avoid_overreaction", "single_failure"})
        /\ ~M!Of(kept("memory"), "policy")
        /\ ~M!HasAnySignal(kept("memory"), {"knowledge_gap", "research_needed", "user_correction"})
        /\ ~M!HasAnySignal(kept("memory"), {"external_framework_change", "competitor_change", "reusable_workflow"})
        /\ "repeated_failure_pattern" \notin kept("memory")
    BY DEF M!LessonAllowedSignals, M!LessonRouteSignals, M!HasAnySignal, M!Of
  <2>5. M!Of(kept("memory"), "memory")
    BY <2>1 DEF M!LessonAllowedSignals, M!LessonRouteSignals, M!HasAnySignal, M!Of
  <2>6. M!ExpectedRouteFor(kept("memory")) = "memory"
    <3> HIDE DEF kept
    <3> QED
      BY <2>4, <2>5 DEF M!ExpectedRouteFor
  <2> QED
    BY <1>0, <2>3, <2>6, LessonOfRoute DEF signals
<1> QED
  BY <1>1, <1>2, <1>3, <1>4, <1>5


\* A critical ticket is the owner's and is executed by nobody else.
LEMMA CriticalTicketOrder ==
  ASSUME NEW t, t.severity = "P0", NEW policy, NEW o,
         o = M!R!ApplyRoutingPolicy(M!R!WorkOrderFromRepairTicket(t), policy)
  PROVE  o.executor = "human_owner" /\ o.risk = "critical" /\ ~o.auto
<1> DEFINE b == M!R!WorkOrderFromRepairTicket(t)
<1>1. b.executor = "human_owner" /\ b.risk = "critical" /\ b.selfEvolution = (t.status # "observe_only" /\ FALSE)
  BY DEF M!R!WorkOrderFromRepairTicket, M!R!ExecutorForRepairTicket, M!R!SeverityRisk, M!R!SelfEvolutionAllowed
<1>2. o.executor = b.executor /\ o.risk = b.risk /\ o.auto = M!R!AutoCandidate(b, policy)
  BY DEF M!R!ApplyRoutingPolicy, M!R!WorkOrderFromRepairTicket
<1> HIDE DEF b
<1>3. M!R!AutoCandidate(b, policy) = FALSE
  BY <1>1 DEF M!R!AutoCandidate
<1> QED
  BY <1>1, <1>2, <1>3

MappingIInv ==
  /\ s1.sources \in 0..1 /\ s1.audits \in 0..1 /\ s1.others \in 0..1 /\ s1.hints \subseteq ArtifactHints
  /\ s1 = [sources |-> s1.sources, audits |-> s1.audits, others |-> s1.others, flagged |-> s1.flagged,
           matches |-> s1.matches, verdict |-> s1.verdict, failure |-> s1.failure, level |-> s1.level,
           hints |-> s1.hints, turns |-> s1.turns]
  /\ s2 = {} \/ s2 = {M!MapHermesDistillation(s1)}

LEMMA MappingInit == M!Init => MappingIInv
<1> SUFFICES ASSUME M!Init PROVE MappingIInv
    OBVIOUS
<1>1. /\ s1.sources = 0 /\ s1.audits = 0 /\ s1.others = 0 /\ s1.hints = {} /\ s2 = {}
      /\ s1 = [sources |-> s1.sources, audits |-> s1.audits, others |-> s1.others, flagged |-> s1.flagged,
               matches |-> s1.matches, verdict |-> s1.verdict, failure |-> s1.failure, level |-> s1.level,
               hints |-> s1.hints, turns |-> s1.turns]
  BY DEF M!Init
<1> QED
  BY <1>1 DEF MappingIInv

LEMMA MappingStep == ASSUME MappingIInv, M!Next PROVE MappingIInv'
<1> DEFINE Shaped(a) ==
      /\ a.sources \in 0..1 /\ a.audits \in 0..1 /\ a.others \in 0..1 /\ a.hints \subseteq ArtifactHints
      /\ a = [sources |-> a.sources, audits |-> a.audits, others |-> a.others, flagged |-> a.flagged,
              matches |-> a.matches, verdict |-> a.verdict, failure |-> a.failure, level |-> a.level,
              hints |-> a.hints, turns |-> a.turns]
<1>1. ASSUME NEW a, Shaped(a), M!Remap(a) PROVE MappingIInv'
  <2>1. s1' = a /\ s2' = {M!MapHermesDistillation(a)}
    BY <1>1 DEF M!Remap
  <2> QED
    BY <1>1, <2>1 DEF MappingIInv
<1>2. Shaped(s1)
  BY DEF MappingIInv
<1>3. CASE M!AttachRef
  <2>1. PICK field \in {"sources", "audits", "others"} : M!Remap([s1 EXCEPT ![field] = 1])
    BY <1>3 DEF M!AttachRef
  <2>2. Shaped([s1 EXCEPT !.sources = 1]) /\ Shaped([s1 EXCEPT !.audits = 1]) /\ Shaped([s1 EXCEPT !.others = 1])
    BY <1>2
  <2>3. CASE field = "sources"
    BY <1>1, <2>1, <2>2, <2>3
  <2>4. CASE field = "audits"
    BY <1>1, <2>1, <2>2, <2>4
  <2>5. CASE field = "others"
    BY <1>1, <2>1, <2>2, <2>5
  <2> QED
    BY <2>3, <2>4, <2>5
<1>4. CASE M!FlagSurface
  <2>1. \A v : Shaped([s1 EXCEPT !.flagged = v])
    BY <1>2
  <2> QED
    BY <1>1, <1>4, <2>1 DEF M!FlagSurface
<1>5. CASE M!Judge
  <2>1. PICK v : M!Remap([s1 EXCEPT !.verdict = v])
    BY <1>5 DEF M!Judge
  <2>2. Shaped([s1 EXCEPT !.verdict = v])
    BY <1>2
  <2> QED
    BY <1>1, <2>1, <2>2
<1>6. CASE M!ReportFailure
  <2>1. \A v : Shaped([s1 EXCEPT !.failure = v])
    BY <1>2
  <2> QED
    BY <1>1, <1>6, <2>1 DEF M!ReportFailure
<1>7. CASE M!Signal
  <2>1. PICK s \in ArtifactHints : M!Remap([s1 EXCEPT !.hints = @ \cup {s}])
    BY <1>7 DEF M!Signal
  <2>2. Shaped([s1 EXCEPT !.hints = @ \cup {s}])
    BY <1>2
  <2> QED
    BY <1>1, <2>1, <2>2
<1>8. CASE M!Quote
  <2>1. PICK t : M!Remap([s1 EXCEPT !.turns = <<t>>])
    BY <1>8 DEF M!Quote
  <2>2. Shaped([s1 EXCEPT !.turns = <<t>>])
    BY <1>2
  <2> QED
    BY <1>1, <2>1, <2>2
<1> QED
  BY <1>3, <1>4, <1>5, <1>6, <1>7, <1>8 DEF M!Next

\* The parts of a mapping.
LEMMA MappingParts ==
  ASSUME NEW a, NEW mp, mp = M!MapHermesDistillation(a)
  PROVE  LET c == M!ClassifyInput(a)
             lessons == M!BuildAtomicLessons(M!BuildLocalDistillationSource(a, c))
         IN  /\ mp.class = c /\ mp.orders = M!WorkOrders(a, c)
             /\ mp.lessons = {[route |-> l.expectedRoute, risk |-> l.risk] : l \in lessons}
             /\ mp.status = M!RoutingStatusFor(c) /\ mp.targets = M!RouteTargetsFor(c, lessons)
             /\ mp.executor = M!SuggestedExecutorFor(c)
BY DEF M!MapHermesDistillation

\* The signals of an artifact reach the distiller.
LEMMA SourceHints ==
  ASSUME NEW a, NEW c
  PROVE  M!SignalsFor(a, c) \subseteq M!SourceSignals(M!BuildLocalDistillationSource(a, c))
<1>1. M!BuildLocalDistillationSource(a, c).hints = M!SignalsFor(a, c)
  BY DEF M!BuildLocalDistillationSource
<1> QED
  BY <1>1 DEF M!SourceSignals

LEMMA LessonsExist == ASSUME NEW s PROVE M!BuildAtomicLessons(s) # {}
BY DEF M!BuildAtomicLessons


MappingKeepsOwner == M!TypeOK /\ M!HighRiskStopsAtOwner /\ M!MissingEvidenceIsBlocked /\ M!ReadyHasTarget

LEMMA MappedOrders ==
  ASSUME NEW a, NEW c
  PROVE  /\ M!Cardinality(M!WorkOrders(a, c)) <= 1
         /\ c.highRisk => \E o \in M!WorkOrders(a, c) : o.executor = "human_owner" /\ o.risk = "critical" /\ ~o.auto
<1> DEFINE policy == M!R!NormalizeRoutingPolicy(M!DefaultCaller)
           tickets == M!BuildRepairTicket(c)
           given == IF tickets = {} THEN M!OperatorReports(a, c) ELSE {}
           told == {q \in given : M!R!VerdictSeverity(q.verdict) # "P3" \/ q.recommendations > 0}
           drafts == {M!R!WorkOrderFromRepairTicket(t) : t \in tickets}
                       \cup {M!R!WorkOrderFromOperationalQualityReport(q) : q \in told}
<1>1. M!WorkOrders(a, c) = {M!R!ApplyRoutingPolicy(o, policy) : o \in drafts}
  BY DEF M!WorkOrders, M!R!BuildWorkOrderRouting
<1>2. tickets = {} \/ \E t : tickets = {t}
  BY DEF M!BuildRepairTicket
<1>3. M!OperatorReports(a, c) = {} \/ \E q : M!OperatorReports(a, c) = {q}
  BY DEF M!OperatorReports
<1>4. M!WorkOrders(a, c) = {} \/ \E o : M!WorkOrders(a, c) = {o}
  <2>1. drafts = {} \/ \E o : drafts = {o}
    <3> HIDE DEF tickets
    <3>1. CASE tickets = {}
      <4>1. told = {} \/ \E q : told = {q}
        BY <1>3, <3>1
      <4> HIDE DEF told
      <4> QED
        BY <3>1, <4>1
    <3>2. CASE \E t : tickets = {t}
      BY <3>2
    <3> QED
      BY <1>2, <3>1, <3>2
  <2> HIDE DEF drafts, policy
  <2> QED
    BY <1>1, <2>1
<1>5. M!Cardinality({}) = 0 /\ \A x : M!Cardinality({x}) = 1
  BY FS_EmptySet, FS_Singleton DEF M!Cardinality, M!IsFiniteSet, Cardinality, IsFiniteSet
<1>6. M!Cardinality(M!WorkOrders(a, c)) <= 1
  <2>1. ASSUME M!WorkOrders(a, c) = {} PROVE M!Cardinality(M!WorkOrders(a, c)) = 0
    BY <1>5, <2>1, Zenon
  <2>2. ASSUME NEW o, M!WorkOrders(a, c) = {o} PROVE M!Cardinality(M!WorkOrders(a, c)) = 1
    BY <1>5, <2>2, Zenon
  <2>3. M!Cardinality(M!WorkOrders(a, c)) \in {0, 1}
    BY <1>4, <2>1, <2>2, Zenon
  <2> QED
    BY <2>3
<1>7. ASSUME c.highRisk PROVE \E o \in M!WorkOrders(a, c) : o.executor = "human_owner" /\ o.risk = "critical" /\ ~o.auto
  <2>1. PICK t \in tickets : t.severity = "P0"
    BY <1>7 DEF M!BuildRepairTicket
  <2> HIDE DEF tickets, policy, told
  <2>2. M!R!ApplyRoutingPolicy(M!R!WorkOrderFromRepairTicket(t), policy) \in M!WorkOrders(a, c)
    BY <1>1
  <2> QED
    BY <2>1, <2>2, CriticalTicketOrder
<1> QED
  BY <1>6, <1>7

LEMMA MappingProperties == MappingIInv => MappingKeepsOwner
<1> SUFFICES ASSUME MappingIInv PROVE MappingKeepsOwner
    OBVIOUS
<1> DEFINE c == M!ClassifyInput(s1)
           source == M!BuildLocalDistillationSource(s1, c)
           lessons == M!BuildAtomicLessons(source)
<1>1. ASSUME NEW mp \in s2
      PROVE  /\ mp.class = c /\ mp.orders = M!WorkOrders(s1, c)
             /\ mp.lessons = {[route |-> l.expectedRoute, risk |-> l.risk] : l \in lessons}
             /\ mp.status = M!RoutingStatusFor(c) /\ mp.targets = M!RouteTargetsFor(c, lessons)
             /\ mp.executor = M!SuggestedExecutorFor(c)
  BY <1>1, MappingParts DEF MappingIInv
<1>2. M!SignalsFor(s1, c) \subseteq M!SourceSignals(source)
  BY SourceHints
<1>3. ASSUME M!Of(M!SourceSignals(source), "policy"), NEW mp \in s2 PROVE \E l \in mp.lessons : l.route = "policy"
  <2>1. PICK l \in lessons : l.expectedRoute = "policy"
    BY <1>3, PolicyLesson
  <2>2. [route |-> l.expectedRoute, risk |-> l.risk] \in mp.lessons
    <3>1. mp.lessons = {[route |-> k.expectedRoute, risk |-> k.risk] : k \in lessons}
      BY <1>1, <1>3, Zenon
    <3> HIDE DEF lessons
    <3> QED
      BY <3>1
  <2>3. [route |-> l.expectedRoute, risk |-> l.risk].route = "policy"
    BY <2>1
  <2> QED
    BY <2>2, <2>3
<1>4. c.missingEvidence = (s1.sources = 0 \/ s1.audits = 0)
  BY DEF M!ClassifyInput
<1>5. M!TypeOK
  <2>1. lessons # {}
    BY LessonsExist
  <2>2. M!RoutingStatusFor(c) \in {"blocked", "human_review", "ask_before_execution", "ready"}
    BY DEF M!RoutingStatusFor, M!Choose
  <2> HIDE DEF lessons, c
  <2>3. ASSUME NEW mp \in s2 PROVE mp.status \in {"blocked", "human_review", "ask_before_execution", "ready"}
    BY <1>1, <2>2
  <2>4. ASSUME NEW mp \in s2 PROVE M!Cardinality(mp.orders) <= 1
    <3>1. mp.orders = M!WorkOrders(s1, c)
      BY <1>1, <2>4, Zenon
    <3> QED
      BY <3>1, MappedOrders
  <2>5. ASSUME NEW mp \in s2 PROVE mp.lessons # {}
    <3>1. mp.lessons = {[route |-> l.expectedRoute, risk |-> l.risk] : l \in lessons}
      BY <1>1, <2>5, Zenon
    <3> QED
      BY <2>1, <3>1
  <2> QED
    BY <2>3, <2>4, <2>5 DEF MappingIInv, M!TypeOK
<1>6. M!HighRiskStopsAtOwner
  <2> SUFFICES ASSUME NEW mp \in s2, c.highRisk
               PROVE  /\ mp.executor = "human_owner"
                      /\ \E o \in mp.orders : o.executor = "human_owner" /\ o.risk = "critical" /\ ~o.auto
                      /\ \E l \in mp.lessons : l.route = "policy"
    BY <1>1 DEF M!HighRiskStopsAtOwner
  <2>1. M!SuggestedExecutorFor(c) = "human_owner"
    BY DEF M!SuggestedExecutorFor, M!Choose
  <2>2. "explicit_user_boundary" \in M!SignalsFor(s1, c)
    BY DEF M!SignalsFor, M!HighRiskSignals
  <2>3. M!Of(M!SourceSignals(source), "policy")
    <3> HIDE DEF source
    <3> QED
      BY <1>2, <2>2 DEF M!Of, M!HasAnySignal, M!LessonRouteSignals
  <2> HIDE DEF c, source, lessons
  <2> QED
    BY <1>1, <1>3, <2>1, <2>3, MappedOrders
<1>7. M!MissingEvidenceIsBlocked
  <2> SUFFICES ASSUME NEW mp \in s2, s1.sources = 0 \/ s1.audits = 0
               PROVE  /\ mp.status = "blocked" /\ mp.targets = {"needs_evidence"} /\ mp.executor = "human_owner"
                      /\ \E l \in mp.lessons : l.route = "policy"
    BY DEF M!MissingEvidenceIsBlocked
  <2>0. c.missingEvidence
    BY <1>4, Zenon
  <2>1. /\ M!RoutingStatusFor(c) = "blocked" /\ M!RouteTargetsFor(c, lessons) = {"needs_evidence"}
        /\ M!SuggestedExecutorFor(c) = "human_owner"
    <3> HIDE DEF c, lessons
    <3> QED
      BY <2>0 DEF M!SuggestedExecutorFor, M!RoutingStatusFor, M!RouteTargetsFor, M!Choose
  <2>2. "explicit_user_boundary" \in M!SignalsFor(s1, c)
    <3> HIDE DEF c
    <3> QED
      BY <2>0 DEF M!SignalsFor, M!EvidenceSignals
  <2>3. M!Of(M!SourceSignals(source), "policy")
    <3> HIDE DEF source
    <3> QED
      BY <1>2, <2>2 DEF M!Of, M!HasAnySignal, M!LessonRouteSignals
  <2> HIDE DEF c, source, lessons
  <2> QED
    BY <1>1, <1>3, <2>1, <2>3
<1>8. M!ReadyHasTarget
  <2> SUFFICES ASSUME NEW mp \in s2, mp.status = "ready", ~M!FailureAfterChange(M!SourceSignals(source))
               PROVE  mp.targets # {}
    BY <1>1 DEF M!ReadyHasTarget
  <2>1. M!RoutingStatusFor(c) = "ready"
    BY <1>1
  <2> HIDE DEF c
  <2>2. ~c.missingEvidence /\ ~c.highRisk /\ ~c.operatorQuality
    BY <2>1 DEF M!RoutingStatusFor, M!Choose
  <2>3. CASE c.repeatedFailure
    <3>1. M!RouteTargetsFor(c, lessons) = {"case", "repair_ticket", "work_order"}
      <4> HIDE DEF lessons
      <4> QED
        BY <2>2, <2>3 DEF M!RouteTargetsFor, M!Choose
    <3> QED
      BY <1>1, <3>1
  <2>4. CASE ~c.repeatedFailure
    <3>1. M!RouteTargetsFor(c, lessons) = {l.expectedRoute : l \in lessons} \ {"ignore"}
      <4> HIDE DEF lessons
      <4> QED
        BY <2>2, <2>4 DEF M!RouteTargetsFor, M!Choose
    <3>2. "stable_project_fact" \in M!SignalsFor(s1, c)
      BY <2>2, <2>4 DEF M!SignalsFor
    <3>3. PICK l \in lessons : l.expectedRoute \in M!LessonRoutes
      <4> HIDE DEF source
      <4> QED
        BY <1>2, <3>2, SomeLesson
    <3>4. "ignore" \notin M!LessonRoutes
      BY DEF M!LessonRoutes, M!LessonRouteSignals
    <3> HIDE DEF lessons
    <3> QED
      BY <1>1, <3>1, <3>3, <3>4
  <2> QED
    BY <2>3, <2>4
<1> QED
  BY <1>5, <1>6, <1>7, <1>8 DEF MappingKeepsOwner

-----------------------------------------------------------------------------
(* The distiller review.  A review is checked against the disk when it is  *)
(* made; afterwards only that it is kept, copied and exported matters.     *)

Gaps == {"zilliz-rollback-trace-gap", "zilliz-manifest-missing"}

OutcomeOK(runMode, o) == Traced(o) /\ (runMode # "production-write" => o.inserted = {})

ReviewOK(runMode, r) ==
  /\ r.verdict \in {"clean", "observe_quality", "repair_work_order_required"}
  /\ r.verdict = "observe_quality" => r.orders = {} /\ r.findings # {}
  /\ r.verdict = "clean" /\ D!Cardinality(r.read) = 1 => r.inserted \subseteq r.hashes
  /\ runMode # "production-write" => r.orders \cap Gaps = {}

\* A file as written, by one of the runs begun.
FileOK(runMode, file, n) ==
  /\ file = [file |-> file.file, of |-> file.of, n |-> file.n]
  /\ file.file \in {"absent", "torn", "ok"} /\ file.n \in 0..n /\ OutcomeOK(runMode, file.of)

\* The run, and the files: files that carry the number of one run tell of one outcome.
RunKept(runMode, run, disk, runs) ==
  /\ runMode \in {"scan-dry-run", "zilliz-plan-dry-run", "production-write"} /\ runs \in Nat
  /\ run = [of |-> run.of, todo |-> run.todo] /\ run.todo \subseteq D!Files /\ OutcomeOK(runMode, run.of)
  /\ disk = [f \in D!Files |-> disk[f]]
  /\ \A f \in D!Files : FileOK(runMode, disk[f], runs) /\ (disk[f].n = runs => disk[f].of = run.of)
  /\ \A f, g \in D!Files : disk[f].n = disk[g].n => disk[f].of = disk[g].of

\* The hook, and what it leaves.
HookKept(runMode, hook, latest, status, inbox, killed) ==
  /\ hook = [pc |-> hook.pc, review |-> hook.review]
  /\ hook.pc \in {"idle", "reviewed", "copied", "exported"}
  /\ IF hook.pc = "idle" THEN hook.review = {} ELSE \E r : hook.review = {r} /\ ReviewOK(runMode, r)
  /\ latest = {} \/ \E r : latest = {r} /\ ReviewOK(runMode, r)
  /\ hook.pc \in {"copied", "exported"} => latest = hook.review
  /\ hook.pc = "exported" => \A r \in latest : r.orders \subseteq inbox
  /\ status \in {"none", "skipped", "failed", "ok"} /\ killed \in BOOLEAN
  /\ status = "ok" /\ hook.pc = "idle" /\ ~killed => \E r \in latest : r.orders \subseteq inbox
  /\ runMode # "production-write" => inbox \cap Gaps = {}

ReviewIInv == RunKept(s1, s2, s3, s8) /\ HookKept(s1, s4, s5, s6, s7, s9)

LEMMA ReviewInit == D!Init => ReviewIInv
<1> SUFFICES ASSUME D!Init PROVE ReviewIInv
    OBVIOUS
<1>1. OutcomeOK(s1, D!Idle)
  BY FS_EmptySet DEF OutcomeOK, Traced, D!Idle
<1>2. RunKept(s1, s2, s3, s8)
  BY <1>1 DEF D!Init, RunKept, FileOK, D!Absent
<1>3. HookKept(s1, s4, s5, s6, s7, s9)
  BY DEF D!Init, HookKept, D!NoHook
<1> QED
  BY <1>2, <1>3 DEF ReviewIInv

LEMMA StartRunKeeps == ASSUME ReviewIInv, NEW o \in RunOutcomes, D!StartRun(o) PROVE ReviewIInv'
<1>1. s1' = s1 /\ s2' = [of |-> o, todo |-> D!Files] /\ s3' = s3 /\ s8' = s8 + 1
  BY DEF D!StartRun
<1>2. OutcomeOK(s1, o)
  BY DeckAssumption DEF D!StartRun, OutcomeOK
<1>3. RunKept(s1', s2', s3', s8')
  BY <1>1, <1>2 DEF ReviewIInv, RunKept, FileOK
<1> QED
  BY <1>3 DEF ReviewIInv, D!StartRun

LEMMA WriteFileKeeps == ASSUME ReviewIInv, NEW f \in D!Files, D!WriteFile(f) PROVE ReviewIInv'
<1>1. /\ s1' = s1 /\ s2' = [s2 EXCEPT !.todo = @ \ {f}] /\ s8' = s8
      /\ s3' = [s3 EXCEPT ![f] = [file |-> "ok", of |-> s2.of, n |-> s8]]
  BY DEF D!WriteFile
<1>2. s2' = [of |-> s2.of, todo |-> s2.todo \ {f}]
  BY <1>1 DEF ReviewIInv, RunKept
<1>3. s3' = [g \in D!Files |-> IF g = f THEN [file |-> "ok", of |-> s2.of, n |-> s8] ELSE s3[g]]
  BY <1>1 DEF ReviewIInv, RunKept
<1> DEFINE fresh == [file |-> "ok", of |-> s2.of, n |-> s8]
<1>4. /\ OutcomeOK(s1, s2.of) /\ s8 \in Nat
      /\ \A g \in D!Files : FileOK(s1, s3[g], s8) /\ (s3[g].n = s8 => s3[g].of = s2.of)
      /\ \A g, h \in D!Files : s3[g].n = s3[h].n => s3[g].of = s3[h].of
  BY DEF ReviewIInv, RunKept
<1>5. fresh.n = s8 /\ fresh.of = s2.of /\ FileOK(s1, fresh, s8)
  BY <1>4 DEF FileOK
<1>6. \A g \in D!Files : s3'[g] = IF g = f THEN fresh ELSE s3[g]
  BY <1>3
<1> HIDE DEF fresh
<1>7. \A g, h \in D!Files : s3'[g].n = s3'[h].n => s3'[g].of = s3'[h].of
  BY <1>4, <1>5, <1>6
<1>8. \A g \in D!Files : FileOK(s1, s3'[g], s8) /\ (s3'[g].n = s8 => s3'[g].of = s2.of)
  BY <1>4, <1>5, <1>6
<1>9. s3' = [g \in D!Files |-> s3'[g]]
  BY <1>3
<1>10. /\ s1 \in {"scan-dry-run", "zilliz-plan-dry-run", "production-write"}
       /\ s2' = [of |-> s2'.of, todo |-> s2'.todo] /\ s2'.todo \subseteq D!Files /\ s2'.of = s2.of
  BY <1>2 DEF ReviewIInv, RunKept
<1>11. \A g \in D!Files : FileOK(s1', s3'[g], s8') /\ (s3'[g].n = s8' => s3'[g].of = s2'.of)
  BY <1>1, <1>8, <1>10
<1>12. OutcomeOK(s1', s2'.of) /\ s8' \in Nat /\ s1' \in {"scan-dry-run", "zilliz-plan-dry-run", "production-write"}
  BY <1>1, <1>4, <1>10
<1> HIDE DEF D!Files
<1>13. RunKept(s1', s2', s3', s8')
  BY <1>7, <1>9, <1>10, <1>11, <1>12, Zenon DEF RunKept
<1> QED
  BY <1>13 DEF ReviewIInv, D!WriteFile

LEMMA DieKeeps == ASSUME ReviewIInv, D!Die PROVE ReviewIInv'
<1>1. s1' = s1 /\ s2' = [of |-> s2.of, todo |-> {}] /\ s8' = s8
  BY DEF D!Die, ReviewIInv, RunKept
<1>2. RunKept(s1', s2', s3', s8')
  <2>1. CASE s3' = s3
    BY <1>1, <2>1 DEF ReviewIInv, RunKept
  <2>2. CASE \E f \in s2.todo : s3' = [s3 EXCEPT ![f] = [@ EXCEPT !.file = "torn"]]
    <3>1. PICK f \in D!Files : s3' = [s3 EXCEPT ![f] = [@ EXCEPT !.file = "torn"]]
      BY <2>2 DEF ReviewIInv, RunKept
    <3>2. s3' = [g \in D!Files |-> IF g = f THEN [file |-> "torn", of |-> s3[f].of, n |-> s3[f].n] ELSE s3[g]]
      BY <3>1 DEF ReviewIInv, RunKept, FileOK
    <3> QED
      BY <1>1, <3>2 DEF ReviewIInv, RunKept, FileOK
  <2> QED
    BY <2>1, <2>2 DEF D!Die
<1> QED
  BY <1>2 DEF ReviewIInv, D!Die

LEMMA ReviewCardinality == \A set : D!Cardinality(set) = Cardinality(set)
BY DEF D!Cardinality, Cardinality

LEMMA FilesFinite == IsFiniteSet(D!Files)
<1>1. /\ IsFiniteSet({"manifest"}) /\ IsFiniteSet({"rollback"})
      /\ IsFiniteSet({"llm"}) /\ IsFiniteSet({"summary"})
  BY FS_Singleton
<1>2. IsFiniteSet(({"manifest"} \cup {"rollback"}) \cup ({"llm"} \cup {"summary"}))
  <2>1. IsFiniteSet({"manifest"} \cup {"rollback"}) /\ IsFiniteSet({"llm"} \cup {"summary"})
    BY <1>1, FS_Union
  <2> QED
    BY <2>1, FS_Union
<1>3. D!Files = ({"manifest"} \cup {"rollback"}) \cup ({"llm"} \cup {"summary"})
  BY DEF D!Files
<1> QED
  BY <1>2, <1>3

\* Files that agree on their number were written by one run.
LEMMA OneRunRead ==
  ASSUME RunKept(s1, s2, s3, s8), NEW files \in SUBSET D!Files, Cardinality({s3[f].n : f \in files}) = 1,
         NEW f \in files, NEW g \in files
  PROVE  s3[f].of = s3[g].of
<1> DEFINE number == [h \in files |-> s3[h].n]
<1>1. IsFiniteSet(files)
  BY FilesFinite, FS_Subset
<1>2. {number[h] : h \in files} = {s3[h].n : h \in files}
  OBVIOUS
<1>3. number = [h \in files |-> number[h]]
  OBVIOUS
<1> HIDE DEF number
<1>4. IsFiniteSet({number[h] : h \in files})
  BY <1>1, <1>3, ImageFinite
<1>5. PICK x : {s3[h].n : h \in files} = {x}
  BY <1>2, <1>4, FS_Singleton
<1>6. s3[f].n = s3[g].n
  BY <1>5
<1> QED
  BY <1>6 DEF RunKept

\* No rollback gap: the files of one run list every chunk that the run retained.
LEMMA NoGapCovers ==
  ASSUME RunKept(s1, s2, s3, s8), NEW files \in SUBSET D!Files, "summary" \in files,
         Cardinality({s3[f].n : f \in files}) = 1,
         ~D!RollbackGap(D!Cardinality(s3["summary"].of.inserted), D!Hashes(D!Read("rollback", files)))
  PROVE  s3["summary"].of.inserted \subseteq D!Hashes(D!Read("rollback", files))
<1> DEFINE inserted == s3["summary"].of.inserted
           hashes == D!Hashes(D!Read("rollback", files))
<1>1. IsFiniteSet(inserted) /\ Cardinality(inserted) \in Nat
  BY FS_CardinalityType DEF RunKept, FileOK, OutcomeOK, Traced, D!Files
<1>2. CASE inserted = {}
  BY <1>2
<1>3. CASE inserted # {}
  <2>1. Cardinality(inserted) > 0
    BY <1>1, <1>3, FS_EmptySet
  <2>2. ~(Cardinality(hashes) < Cardinality(inserted))
    BY <2>1, ReviewCardinality DEF D!RollbackGap
  <2>3. hashes # {}
    BY <2>1, <2>2, <1>1, FS_EmptySet
  <2>4. "rollback" \in files /\ hashes = s3["rollback"].of.tracked
    BY <2>3 DEF D!Hashes, D!Read, D!Absent
  <2>5. s3["rollback"].of = s3["summary"].of
    BY <2>4, OneRunRead
  <2>6. hashes \subseteq inserted
    BY <2>4, <2>5 DEF RunKept, FileOK, OutcomeOK, Traced, D!Files
  <2>7. IsFiniteSet(hashes) /\ Cardinality(hashes) <= Cardinality(inserted) /\ Cardinality(hashes) \in Nat
    BY <2>6, <1>1, FS_Subset, FS_CardinalityType
  <2>8. Cardinality(inserted) = Cardinality(hashes)
    BY <1>1, <2>2, <2>7
  <2> QED
    BY <1>1, <2>6, <2>8, FS_Subset
<1> QED
  BY <1>2, <1>3

\* What a review holds against a run that retained nothing is no gap.
LEMMA NothingWrittenNoGap ==
  ASSUME NEW summary, NEW manifest, NEW rollback, NEW llm, summary.of.inserted = {},
         NEW x \in D!BuildFindings(summary, manifest, rollback, llm)
  PROVE  x.id \notin Gaps
<1>1. D!Cardinality(summary.of.inserted) = 0
  BY ReviewCardinality, FS_EmptySet
<1>2. ~D!RollbackGap(0, D!Hashes(rollback)) /\ ~D!ManifestMissing(0, D!Rows(manifest))
  BY DEF D!RollbackGap, D!ManifestMissing
<1> DEFINE observed(found) == {[f EXCEPT !.status = "observe_only"] : f \in found}
<1>3. \A sev, when : \A y \in observed(D!Finding("low-value-llm-distillation", sev, when)) :
        y.id = "low-value-llm-distillation"
  BY DEF D!Finding
<1>4. \A id, sev, when : \A y \in D!Finding(id, sev, when) : y.id = id /\ when
  BY DEF D!Finding
<1>5. \/ x.id = "session-distiller-failed-session" \/ x.id = "zilliz-low-traceability-row"
      \/ x.id = "zilliz-duplicate-chunk-hash" \/ x.id = "low-value-llm-distillation"
      \/ x.id = "llm-summary-trace-missing"
  BY <1>1, <1>2, <1>3, <1>4 DEF D!BuildFindings
<1> QED
  BY <1>5 DEF Gaps

LEMMA Verdicts ==
  ASSUME NEW findings
  PROVE  /\ D!Verdict(findings) \in {"clean", "observe_quality", "repair_work_order_required"}
         /\ D!Verdict(findings) = "clean" => findings = {}
         /\ D!Verdict(findings) = "observe_quality" =>
              findings # {} /\ \A f \in findings : f.status = "observe_only"
<1>1. CASE \E f \in findings : f.status # "observe_only"
  BY <1>1 DEF D!Verdict
<1>2. CASE (\A f \in findings : f.status = "observe_only") /\ findings # {}
  BY <1>2 DEF D!Verdict
<1>3. CASE findings = {}
  BY <1>3 DEF D!Verdict
<1> QED
  BY <1>1, <1>2, <1>3

LEMMA ReviewMadeIsOK ==
  ASSUME RunKept(s1, s2, s3, s8), NEW files \in SUBSET D!Files, "summary" \in files
  PROVE  ReviewOK(s1, D!ReviewSessionDistillerOutput(files))
<1> DEFINE summary == D!Read("summary", files)
           manifest == D!Read("manifest", files)
           rollback == D!Read("rollback", files)
           llm == D!Read("llm", files)
           findings == D!BuildFindings(summary, manifest, rollback, llm)
<1>1. summary = s3["summary"]
  BY DEF D!Read
<1> DEFINE r == D!ReviewSessionDistillerOutput(files)
<1>2. /\ r.verdict = D!Verdict(findings) /\ r.findings = findings /\ r.orders = D!RepairWorkOrders(findings)
      /\ r.inserted = s3["summary"].of.inserted /\ r.hashes = D!Hashes(rollback)
      /\ r.read = {s3[f].n : f \in files}
  BY DEF D!ReviewSessionDistillerOutput
<1>3. ~D!RollbackGap(D!Cardinality(s3["summary"].of.inserted), D!Hashes(rollback)) \/ findings # {}
  <2>1. D!RollbackGap(D!Cardinality(s3["summary"].of.inserted), D!Hashes(rollback)) =>
          D!Finding("zilliz-rollback-trace-gap", "P1",
            D!RollbackGap(D!Cardinality(summary.of.inserted), D!Hashes(rollback))) # {}
    BY <1>1 DEF D!Finding
  <2> HIDE DEF summary, rollback, manifest, llm
  <2> QED
    BY <2>1 DEF D!BuildFindings
<1>4. s1 # "production-write" => \A x \in findings : x.id \notin Gaps
  <2>1. s1 # "production-write" => summary.of.inserted = {}
    BY <1>1 DEF RunKept, FileOK, OutcomeOK, D!Files
  <2> HIDE DEF summary, rollback, manifest, llm
  <2> QED
    BY <2>1, NothingWrittenNoGap
<1> HIDE DEF r, findings
<1>5. r.verdict = "clean" /\ D!Cardinality(r.read) = 1 => r.inserted \subseteq r.hashes
  BY <1>2, <1>3, Verdicts, NoGapCovers, ReviewCardinality
<1>6. r.verdict = "observe_quality" => r.orders = {} /\ r.findings # {}
  BY <1>2, Verdicts DEF D!RepairWorkOrders
<1>7. s1 # "production-write" => r.orders \cap Gaps = {}
  BY <1>2, <1>4 DEF D!RepairWorkOrders
<1>8. r.verdict \in {"clean", "observe_quality", "repair_work_order_required"}
  BY <1>2, Verdicts
<1>9. ReviewOK(s1, r)
  BY <1>5, <1>6, <1>7, <1>8 DEF ReviewOK
<1> QED
  BY <1>9 DEF r

LEMMA StartHookKeeps == ASSUME ReviewIInv, D!StartHook PROVE ReviewIInv'
<1>1. /\ s1' = s1 /\ s2' = s2 /\ s3' = s3 /\ s8' = s8 /\ s5' = s5 /\ s7' = s7
      /\ s4.pc = "idle"
  BY DEF D!StartHook, D!HookOnly
<1>2. \/ \E s \in {"skipped", "failed"} : s6' = s /\ s4' = D!NoHook /\ s9' = FALSE
      \/ /\ "summary" \in D!Passed /\ s6' = s6 /\ s9' = s9
         /\ s4' = [pc |-> "reviewed", review |-> {D!ReviewSessionDistillerOutput(D!Passed)}]
  <2>1. CASE "summary" \notin D!Passed
    BY <2>1 DEF D!StartHook, D!WriteStatus
  <2>2. CASE "summary" \in D!Passed /\ \E f \in D!Passed : s3[f].file = "torn"
    BY <2>2 DEF D!StartHook, D!WriteStatus
  <2>3. CASE "summary" \in D!Passed /\ ~\E f \in D!Passed : s3[f].file = "torn"
    BY <2>3 DEF D!StartHook
  <2> QED
    BY <2>1, <2>2, <2>3
<1>3. CASE \E s \in {"skipped", "failed"} : s6' = s /\ s4' = D!NoHook /\ s9' = FALSE
  <2>1. HookKept(s1', s4', s5', s6', s7', s9')
    BY <1>1, <1>3 DEF ReviewIInv, HookKept, D!NoHook
  <2> QED
    BY <1>1, <2>1 DEF ReviewIInv
<1>4. CASE /\ "summary" \in D!Passed /\ s6' = s6 /\ s9' = s9
           /\ s4' = [pc |-> "reviewed", review |-> {D!ReviewSessionDistillerOutput(D!Passed)}]
  <2> DEFINE r == D!ReviewSessionDistillerOutput(D!Passed)
  <2>1. ReviewOK(s1, r)
    <3>1. D!Passed \in SUBSET D!Files
      BY DEF D!Passed
    <3> QED
      BY <1>4, <3>1, ReviewMadeIsOK DEF ReviewIInv
  <2> HIDE DEF r
  <2>2. s4'.pc = "reviewed" /\ s4'.review = {r} /\ s4' = [pc |-> s4'.pc, review |-> s4'.review]
    BY <1>4 DEF r
  <2>3. HookKept(s1', s4', s5', s6', s7', s9')
    BY <1>1, <1>4, <2>1, <2>2 DEF ReviewIInv, HookKept
  <2> QED
    BY <1>1, <2>3 DEF ReviewIInv
<1> QED
  BY <1>2, <1>3, <1>4

LEMMA CopyLatestKeeps == ASSUME ReviewIInv, D!CopyLatest PROVE ReviewIInv'
<1>1. /\ s1' = s1 /\ s2' = s2 /\ s3' = s3 /\ s8' = s8 /\ s5' = s4.review /\ s6' = s6 /\ s7' = s7 /\ s9' = s9
      /\ s4.pc = "reviewed" /\ s4' = [s4 EXCEPT !.pc = "copied"]
  BY DEF D!CopyLatest, D!HookOnly, D!Moves
<1>2. s4' = [pc |-> "copied", review |-> s4.review]
  BY <1>1 DEF ReviewIInv, HookKept
<1>3. HookKept(s1', s4', s5', s6', s7', s9')
  BY <1>1, <1>2 DEF ReviewIInv, HookKept
<1> QED
  BY <1>1, <1>3 DEF ReviewIInv

LEMMA ExportInboxKeeps == ASSUME ReviewIInv, D!ExportInbox PROVE ReviewIInv'
<1>1. /\ s1' = s1 /\ s2' = s2 /\ s3' = s3 /\ s8' = s8 /\ s5' = s5 /\ s4.pc = "copied"
      /\ \/ /\ s4' = [s4 EXCEPT !.pc = "exported"] /\ s6' = s6 /\ s9' = s9
            /\ s7' = s7 \cup (UNION {r.orders : r \in s4.review})
         \/ s6' = "failed" /\ s4' = D!NoHook /\ s9' = FALSE /\ s7' = s7
  BY DEF D!ExportInbox, D!HookOnly, D!Moves, D!WriteStatus
<1>2. CASE s6' = "failed" /\ s4' = D!NoHook /\ s9' = FALSE /\ s7' = s7
  <2>1. HookKept(s1', s4', s5', s6', s7', s9')
    BY <1>1, <1>2 DEF ReviewIInv, HookKept, D!NoHook
  <2> QED
    BY <1>1, <2>1 DEF ReviewIInv
<1>3. CASE /\ s4' = [s4 EXCEPT !.pc = "exported"] /\ s6' = s6 /\ s9' = s9
           /\ s7' = s7 \cup (UNION {r.orders : r \in s4.review})
  <2>1. PICK r : s4.review = {r} /\ ReviewOK(s1, r) /\ s5 = {r}
    BY <1>1 DEF ReviewIInv, HookKept
  <2>2. s4' = [pc |-> "exported", review |-> {r}]
    BY <1>3, <2>1 DEF ReviewIInv, HookKept
  <2>3. s7' = s7 \cup r.orders
    BY <1>3, <2>1
  <2>4. s1 # "production-write" => s7' \cap Gaps = {}
    BY <2>1, <2>3 DEF ReviewIInv, HookKept, ReviewOK
  <2>5. s6 \in {"none", "skipped", "failed", "ok"} /\ s9 \in BOOLEAN
    BY DEF ReviewIInv, HookKept
  <2>6. HookKept(s1', s4', s5', s6', s7', s9')
    BY <1>1, <1>3, <2>1, <2>2, <2>3, <2>4, <2>5 DEF HookKept
  <2> QED
    BY <1>1, <2>6 DEF ReviewIInv
<1> QED
  BY <1>1, <1>2, <1>3

LEMMA FinishHookKeeps == ASSUME ReviewIInv, D!FinishHook PROVE ReviewIInv'
<1>1. /\ s1' = s1 /\ s2' = s2 /\ s3' = s3 /\ s8' = s8 /\ s5' = s5 /\ s7' = s7 /\ s4.pc = "exported"
      /\ s6' \in {"ok", "failed"} /\ s4' = D!NoHook /\ s9' = FALSE
  BY DEF D!FinishHook, D!HookOnly, D!WriteStatus
<1>2. \E r \in s5 : r.orders \subseteq s7
  BY <1>1 DEF ReviewIInv, HookKept
<1>3. HookKept(s1', s4', s5', s6', s7', s9')
  BY <1>1, <1>2 DEF ReviewIInv, HookKept, D!NoHook
<1> QED
  BY <1>1, <1>3 DEF ReviewIInv

LEMMA KillHookKeeps == ASSUME ReviewIInv, D!KillHook PROVE ReviewIInv'
<1>1. /\ s1' = s1 /\ s2' = s2 /\ s3' = s3 /\ s8' = s8 /\ s5' = s5 /\ s6' = s6 /\ s7' = s7
      /\ s4' = D!NoHook /\ s9' = TRUE
  BY DEF D!KillHook, D!HookOnly
<1>2. HookKept(s1', s4', s5', s6', s7', s9')
  BY <1>1 DEF ReviewIInv, HookKept, D!NoHook
<1> QED
  BY <1>1, <1>2 DEF ReviewIInv

LEMMA ReviewStep == ASSUME ReviewIInv, D!Next PROVE ReviewIInv'
BY StartRunKeeps, WriteFileKeeps, DieKeeps, StartHookKeeps, CopyLatestKeeps, ExportInboxKeeps,
   FinishHookKeeps, KillHookKeeps DEF D!Next

\* What ReviewsAreBacked says of the review, it says of every state of the invariant.
LEMMA ReviewProperties ==
  ReviewIInv => /\ D!TypeOK /\ D!OkMeansExported /\ D!CleanRunIsCovered /\ D!ObservingOpensNothing
                /\ D!DryRunsOpenNoGap
<1> SUFFICES ASSUME ReviewIInv
             PROVE  /\ D!TypeOK /\ D!OkMeansExported /\ D!CleanRunIsCovered /\ D!ObservingOpensNothing
                    /\ D!DryRunsOpenNoGap
  OBVIOUS
<1>1. D!Cardinality(s5) <= 1
  <2>1. D!Cardinality(s5) \in {0, 1}
    BY ReviewCardinality, FS_EmptySet, FS_Singleton DEF ReviewIInv, HookKept
  <2> QED
    BY <2>1
<1>2. \A f \in D!Files : s3[f].file \in {"absent", "torn", "ok"} /\ s3[f].n <= s8
  BY DEF ReviewIInv, RunKept, FileOK
<1>3. D!TypeOK
  BY <1>1, <1>2 DEF ReviewIInv, HookKept, ReviewOK, D!TypeOK
<1>4. D!OkMeansExported
  BY DEF ReviewIInv, HookKept, D!OkMeansExported
<1>5. D!CleanRunIsCovered /\ D!ObservingOpensNothing
  BY DEF ReviewIInv, HookKept, ReviewOK, D!CleanRunIsCovered, D!ObservingOpensNothing
<1>6. D!DryRunsOpenNoGap
  BY DEF ReviewIInv, HookKept, Gaps, D!DryRunsOpenNoGap
<1> QED
  BY <1>3, <1>4, <1>5, <1>6

-----------------------------------------------------------------------------
(* The preflight.  The report is what the fixtures at hand make of it, and *)
(* the two gates are compared on one candidate at a time.                  *)

PreflightIInv ==
  /\ s1 \in [DOMAIN PreflightDeck -> 0..MaxGathered]
  /\ s2 = Q!EvaluateMisaEvolution(Q!Traces(s1))

LEMMA PreflightInit == Q!Init => PreflightIInv
BY DeckAssumption DEF Q!Init, PreflightIInv

LEMMA PreflightStep == ASSUME PreflightIInv, Q!Next PROVE PreflightIInv'
<1>1. PICK i \in DOMAIN PreflightDeck :
        /\ s1[i] < MaxGathered
        /\ s1' = [s1 EXCEPT ![i] = @ + 1]
        /\ s2' = Q!EvaluateMisaEvolution(Q!Traces(s1'))
  BY DEF Q!Next, Q!Gather
<1>2. s1' \in [DOMAIN PreflightDeck -> 0..MaxGathered]
  BY <1>1, DeckAssumption DEF PreflightIInv
<1> QED
  BY <1>1, <1>2 DEF PreflightIInv

\* The fixtures at hand, and what the loop makes of each.
LEMMA PreflightTraces ==
  ASSUME PreflightIInv, NEW i \in DOMAIN Q!Traces(s1)
  PROVE  LET t == Q!Traces(s1)[i] IN
         /\ i \in Nat \ {0}
         /\ t = Q!SimulateLearningCycle(t.event)
         /\ t.event.evidence \in Nat \ {0}
<1>1. i \in DOMAIN PreflightDeck /\ s1[i] > 0
  BY DEF Q!Traces
<1>2. i \in Nat \ {0} /\ s1[i] \in Nat \ {0}
  BY <1>1, DeckAssumption DEF PreflightIInv
<1> DEFINE e == Q!Event(i, s1[i])
<1>3. Q!Traces(s1)[i] = Q!SimulateLearningCycle(e)
  BY <1>1 DEF Q!Traces
<1>4. e.evidence = s1[i]
  BY DEF Q!Event
<1>5. Q!SimulateLearningCycle(e).event = e
  BY DEF Q!SimulateLearningCycle
<1> HIDE DEF e
<1> QED
  BY <1>2, <1>3, <1>4, <1>5

\* The routes of the loop, and when it says which.
LEMMA PreflightRoute ==
  ASSUME NEW e
  PROVE  LET route == Q!ClassifyRoute(e) IN
         /\ route.target \in {"memory", "skill", "case", "policy", "damping", "ignore"}
         /\ route.status = "rejected" <=> route.target = "ignore" \/ "candidate_replay_failed" \in e.signals
         /\ "candidate_replay_failed" \in e.signals => route.target = "damping"
<1>1. \A t, a, s, p, c : Q!Route(t, a, s, p, c).target = t /\ Q!Route(t, a, s, p, c).status = s
  BY DEF Q!Route
<1>2. Q!HasSignal(e, {"candidate_replay_failed"}) <=> "candidate_replay_failed" \in e.signals
  BY DEF Q!HasSignal
<1> QED
  BY <1>1, <1>2 DEF Q!ClassifyRoute

\* What is computed of one fixture: the bounds of its score, and that what the adaptive gate
\* declares ready is what the preflight passes.
LEMMA PreflightCandidate ==
  ASSUME NEW t, t = Q!SimulateLearningCycle(t.event), t.event.evidence \in Nat \ {0}
  PROVE  LET c == Q!BuildOptimizationCandidate(t) IN
         /\ c.score \in (IF c.suppressed THEN -1550 ELSE 0)..10000
         /\ c.state = "ready_for_daily_rollup" <=> c.status = "preflight_passed"
         /\ c.suppressed = Q!SuppressCandidate(t)
         /\ Q!SuppressCandidate(t) => c.status = "suppressed"
         /\ Q!RouteStrategy(t) = "suppress_failed_candidate" => Q!SuppressCandidate(t)
<1> DEFINE c == Q!BuildOptimizationCandidate(t)
           item == Q!BuildQueueItem(t)
           e == t.event
<1>1. t.route = Q!ClassifyRoute(e) /\ t.positive = (t.route.target # "ignore")
  BY DEF Q!SimulateLearningCycle
<1>2. /\ t.route.target \in {"memory", "skill", "case", "policy", "damping", "ignore"}
      /\ t.route.status = "rejected" <=> t.route.target = "ignore" \/ Q!SuppressCandidate(t)
      /\ Q!SuppressCandidate(t) => t.route.target = "damping"
  BY <1>1, PreflightRoute DEF Q!SuppressCandidate, Q!HasSignal
<1>3. item.target = t.route.target /\ item.state = Q!QueueStateFor(Q!ClassifyDecision(t))
      /\ item.priority = Q!PriorityFor(t, Q!ClassifyDecision(t))
  BY DEF Q!BuildQueueItem, Q!BuildAdaptiveCandidate
<1>4. Q!ClassifyDecision(t) \in {"rejected", "held_for_more_evidence", "validation_ready"}
  BY DEF Q!ClassifyDecision
<1>5. item.state = "ready_for_daily_rollup" <=> Q!ClassifyDecision(t) = "validation_ready"
  BY <1>3, <1>4 DEF Q!QueueStateFor
<1>6. Q!ClassifyDecision(t) = "validation_ready" =>
        /\ ~Q!SuppressCandidate(t) /\ t.route.target \in {"memory", "skill", "case", "policy"}
        /\ t.positive /\ e.evidence >= 2
  BY <1>1, <1>2 DEF Q!ClassifyDecision
<1>7. /\ c.score = Q!CandidateScore(item, t) /\ c.state = item.state
      /\ c.suppressed = Q!SuppressCandidate(t)
      /\ c.status = (IF Q!PreflightPassed(item, t) THEN "preflight_passed"
                     ELSE IF item.state = "rejected_suppression" THEN "suppressed" ELSE "held_for_more_evidence")
  BY DEF Q!BuildOptimizationCandidate
<1>8. item.state = "ready_for_daily_rollup" => Q!BuildCandidateHygiene(item, t).reportable
  <2> SUFFICES ASSUME item.state = "ready_for_daily_rollup" PROVE Q!BuildCandidateHygiene(item, t).reportable
    OBVIOUS
  <2>1. item.priority \in {"high", "medium"}
    BY <1>3, <1>5 DEF Q!PriorityFor
  <2>2. \A x : Q!When(FALSE, x) = {}
    BY DEF Q!When
  <2>3. item.target \in {"memory", "skill", "case", "policy", "damping"}
    BY <1>3, <1>5, <1>6
  <2> HIDE DEF item, e
  <2>4. e.evidence >= 2 /\ t.positive /\ ~Q!SuppressCandidate(t)
    BY <1>5, <1>6
  <2> QED
    BY <2>1, <2>2, <2>3, <2>4 DEF Q!BuildCandidateHygiene, e
<1>9. Q!PreflightPassed(item, t) <=> item.state = "ready_for_daily_rollup"
  BY <1>5, <1>6, <1>8 DEF Q!PreflightPassed
<1>10. Q!SuppressCandidate(t) => item.state = "rejected_suppression"
  BY <1>3, <1>4 DEF Q!QueueStateFor, Q!ClassifyDecision
<1>11. Q!RouteStrategy(t) = "suppress_failed_candidate" => Q!SuppressCandidate(t)
  BY DEF Q!RouteStrategy, Q!SuppressCandidate
<1>12. Q!CandidateScore(item, t) \in (IF Q!SuppressCandidate(t) THEN -1550 ELSE 0)..10000
  <2> DEFINE evidence == Q!EvidenceScore(e.evidence)
             value == Q!RouteValue(item.target)
             risk == Q!RiskPenalty(e.risk)
             ready == IF item.state = "ready_for_daily_rollup" THEN 2200 ELSE 0
             failed == IF Q!SuppressCandidate(t) THEN 4000 ELSE 0
             raw == evidence + value + ready + 2000 - risk - failed
  <2>1. evidence \in 850..3400
    BY DEF Q!EvidenceScore
  <2>2. value \in 0..2160 /\ (Q!SuppressCandidate(t) => value = 1200)
    BY <1>2, <1>3 DEF Q!RouteValue
  <2>3. risk \in 0..1600
    BY DEF Q!RiskPenalty
  <2>4. Q!CandidateScore(item, t) = ((raw + 5) \div 10) * 10
    BY DEF Q!CandidateScore
  <2>5. ready \in 0..2200 /\ (Q!SuppressCandidate(t) => ready = 0)
    BY <1>5, <1>6
  <2>6. failed = IF Q!SuppressCandidate(t) THEN 4000 ELSE 0
    OBVIOUS
  <2>7. raw \in (IF Q!SuppressCandidate(t) THEN -1550 ELSE 0)..9760
    <3> HIDE DEF evidence, value, risk, ready, failed
    <3>0. raw = evidence + value + ready + 2000 - risk - failed
      OBVIOUS
    <3> HIDE DEF raw
    <3>a. evidence \in Int /\ 850 <= evidence /\ evidence <= 3400
      BY <2>1
    <3>b. value \in Int /\ 0 <= value /\ value <= 2160
      BY <2>2
    <3>c. risk \in Int /\ 0 <= risk /\ risk <= 1600
      BY <2>3
    <3>d. ready \in Int /\ 0 <= ready /\ ready <= 2200
      BY <2>5
    <3>1. CASE Q!SuppressCandidate(t)
      <4>1. value = 1200 /\ ready = 0 /\ failed = 4000
        BY <2>2, <2>5, <2>6, <3>1
      <4>2. raw \in Int /\ -1550 <= raw /\ raw <= 9760
        BY <3>0, <3>a, <3>c, <4>1
      <4> QED
        BY <3>1, <4>2
    <3>2. CASE ~Q!SuppressCandidate(t)
      <4>1. failed = 0
        BY <2>6, <3>2
      <4>2. raw \in Int /\ 0 <= raw /\ raw <= 9760
        BY <3>0, <3>a, <3>b, <3>c, <3>d, <4>1
      <4> QED
        BY <3>2, <4>2
    <3> QED
      BY <3>1, <3>2
  <2> HIDE DEF raw
  <2>8. ((raw + 5) \div 10) * 10 \in (IF Q!SuppressCandidate(t) THEN -1550 ELSE 0)..10000
    BY <2>7
  <2> QED
    BY <2>4, <2>8
<1> HIDE DEF c, item, e
<1>13. c.score \in (IF c.suppressed THEN -1550 ELSE 0)..10000
  BY <1>7, <1>12
<1>14. c.state = "ready_for_daily_rollup" <=> c.status = "preflight_passed"
  BY <1>7, <1>9
<1>15. Q!SuppressCandidate(t) => c.status = "suppressed"
  BY <1>7, <1>9, <1>10
<1> QED
  BY <1>7, <1>11, <1>13, <1>14, <1>15 DEF c

\* The parts of the report.
LEMMA PreflightReport ==
  ASSUME PreflightIInv
  PROVE  LET traces == Q!Traces(s1)
             all == {traces[i] : i \in DOMAIN traces} IN
         /\ s2.candidates = [i \in DOMAIN traces |-> Q!BuildOptimizationCandidate(traces[i])]
         /\ s2.queue = Q!BuildReportQueue(s2.candidates)
         /\ s2.ledger = {i \in DOMAIN traces : s2.candidates[i].status = "suppressed"}
         /\ s2.strategies = [i \in DOMAIN traces |-> Q!RouteStrategy(traces[i])]
         /\ s2.violations = {} =>
              /\ s2.queue # {}
              /\ \E t \in all : Q!SuppressCandidate(t)
<1> DEFINE traces == Q!Traces(s1)
           candidates == [i \in DOMAIN traces |-> Q!BuildOptimizationCandidate(traces[i])]
           all == {traces[i] : i \in DOMAIN traces}
<1> HIDE DEF traces
<1>1. s2 = Q!EvaluateMisaEvolution(traces)
  BY DEF PreflightIInv, traces
<1>2. /\ s2.candidates = candidates
      /\ s2.queue = Q!BuildReportQueue(candidates)
      /\ s2.ledger = {i \in DOMAIN traces : candidates[i].status = "suppressed"}
      /\ s2.strategies = [i \in DOMAIN traces |-> Q!RouteStrategy(traces[i])]
  BY <1>1 DEF Q!EvaluateMisaEvolution
<1>3. /\ Q!When(Q!BuildReportQueue(candidates) = {}, "nothing reportable") \subseteq s2.violations
      /\ Q!ReviewAdaptiveCandidateGate(all) \subseteq s2.violations
  BY <1>1 DEF Q!EvaluateMisaEvolution
<1>4. Q!When(\A t \in all : ~Q!SuppressCandidate(t), "failed replay not suppressed") \subseteq s2.violations
  BY <1>3 DEF Q!ReviewAdaptiveCandidateGate
<1>5. s2.violations = {} => s2.queue # {} /\ \E t \in all : Q!SuppressCandidate(t)
  BY <1>2, <1>3, <1>4 DEF Q!When
<1> QED
  BY <1>2, <1>5 DEF traces

LEMMA PreflightAgrees == PreflightIInv => Q!TypeOK /\ Q!ReadyMeansPassed /\ Q!CleanReportIsComplete
<1> SUFFICES ASSUME PreflightIInv PROVE Q!TypeOK /\ Q!ReadyMeansPassed /\ Q!CleanReportIsComplete
  OBVIOUS
<1> DEFINE traces == Q!Traces(s1)
<1> HIDE DEF traces
<1>1. /\ s2.candidates = [i \in DOMAIN traces |-> Q!BuildOptimizationCandidate(traces[i])]
      /\ s2.queue = Q!BuildReportQueue(s2.candidates)
      /\ s2.ledger = {i \in DOMAIN traces : s2.candidates[i].status = "suppressed"}
      /\ s2.strategies = [i \in DOMAIN traces |-> Q!RouteStrategy(traces[i])]
      /\ s2.violations = {} => s2.queue # {} /\ \E i \in DOMAIN traces : Q!SuppressCandidate(traces[i])
  BY PreflightReport DEF traces
<1>2. ASSUME NEW i \in DOMAIN traces
      PROVE  LET c == s2.candidates[i] IN
             /\ c.score \in (IF c.suppressed THEN -1550 ELSE 0)..10000
             /\ c.state = "ready_for_daily_rollup" <=> c.status = "preflight_passed"
             /\ c.suppressed = Q!SuppressCandidate(traces[i])
             /\ Q!SuppressCandidate(traces[i]) => c.status = "suppressed"
             /\ Q!RouteStrategy(traces[i]) = "suppress_failed_candidate" => Q!SuppressCandidate(traces[i])
  <2>1. traces[i] = Q!SimulateLearningCycle(traces[i].event) /\ traces[i].event.evidence \in Nat \ {0}
    BY <1>2, PreflightTraces DEF traces
  <2>2. s2.candidates[i] = Q!BuildOptimizationCandidate(traces[i])
    BY <1>1
  <2> QED
    BY <2>1, <2>2, PreflightCandidate
<1>3. Q!TypeOK
  <2>1. s2.queue \subseteq DOMAIN s2.candidates
    BY <1>1 DEF Q!BuildReportQueue
  <2>2. s1 \in [DOMAIN PreflightDeck -> 0..MaxGathered]
    BY DEF PreflightIInv
  <2>3. DOMAIN s2.candidates = DOMAIN traces
    BY <1>1
  <2> QED
    BY <1>2, <2>1, <2>2, <2>3 DEF Q!TypeOK
<1>4. Q!ReadyMeansPassed
  BY <1>1, <1>2 DEF Q!ReadyMeansPassed
<1>5. Q!CleanReportIsComplete
  <2> SUFFICES ASSUME s2.violations = {}
               PROVE  /\ s2.queue # {}
                      /\ \E i \in s2.ledger : s2.candidates[i].suppressed
                      /\ \A i \in DOMAIN s2.candidates :
                           s2.strategies[i] = "suppress_failed_candidate" => i \in s2.ledger
    BY DEF Q!CleanReportIsComplete
  <2>1. PICK i \in DOMAIN traces : Q!SuppressCandidate(traces[i])
    BY <1>1
  <2>2. i \in s2.ledger /\ s2.candidates[i].suppressed
    BY <1>1, <1>2, <2>1
  <2>3. ASSUME NEW j \in DOMAIN s2.candidates, s2.strategies[j] = "suppress_failed_candidate"
        PROVE  j \in s2.ledger
    BY <1>1, <1>2, <2>3
  <2> QED
    BY <1>1, <2>2, <2>3
<1> QED
  BY <1>3, <1>4, <1>5

-----------------------------------------------------------------------------
(* Skill supervision.  The supervision and the bridge are functions of the *)
(* contract and the event.                                                 *)

SkillIInv ==
  /\ s1 \in SkillContracts /\ s2 \in S!Events
  /\ s3 = S!SuperviseSkillEvolution(s1, s2)
  /\ s4 = S!BuildSkillEvolutionTournamentBridge(s3)

LEMMA SkillInit == S!Init => SkillIInv
BY DEF S!Init, SkillIInv

\* An event with one field changed is an event.
LEMMA SkillEvent ==
  ASSUME NEW e \in S!Events
  PROVE  /\ \A v \in BOOLEAN : /\ [e EXCEPT !.publicOutput = v] \in S!Events
                              /\ [e EXCEPT !.persistentWrite = v] \in S!Events
                              /\ [e EXCEPT !.skillMatches = v] \in S!Events
                              /\ [e EXCEPT !.gate = v] \in S!Events
         /\ \A l \in {"low", "high"} : [e EXCEPT !.level = l] \in S!Events
         /\ \A a \in {"draft_only", "live_write"} : [e EXCEPT !.authority = a] \in S!Events
         /\ \A acts \in {{"allowed"}, {"forbidden"}, {}} : [e EXCEPT !.action = acts] \in S!Events
         /\ \A used \in SkillMemories : [e EXCEPT !.memory = used] \in S!Events
<1>1. \A v \in BOOLEAN : /\ [e EXCEPT !.publicOutput = v] \in S!Events
                         /\ [e EXCEPT !.persistentWrite = v] \in S!Events
                         /\ [e EXCEPT !.skillMatches = v] \in S!Events
                         /\ [e EXCEPT !.gate = v] \in S!Events
  BY DEF S!Events
<1>2. /\ \A l \in {"low", "high"} : [e EXCEPT !.level = l] \in S!Events
      /\ \A a \in {"draft_only", "live_write"} : [e EXCEPT !.authority = a] \in S!Events
      /\ \A acts \in {{"allowed"}, {"forbidden"}, {}} : [e EXCEPT !.action = acts] \in S!Events
      /\ \A used \in SkillMemories : [e EXCEPT !.memory = used] \in S!Events
  BY DEF S!Events
<1> QED
  BY <1>1, <1>2

LEMMA SkillStep == ASSUME SkillIInv, S!Next PROVE SkillIInv'
<1>1. PICK e \in S!Events : S!Review(e)
  <2>1. s2 \in S!Events /\ TRUE \in BOOLEAN /\ FALSE \in BOOLEAN
    BY DEF SkillIInv
  <2>2. CASE S!Escalate
    <3>1. \/ S!Review([s2 EXCEPT !.publicOutput = TRUE])
          \/ S!Review([s2 EXCEPT !.persistentWrite = TRUE])
          \/ S!Review([s2 EXCEPT !.level = "high"])
          \/ S!Review([s2 EXCEPT !.authority = "live_write"])
          \/ \E a \in {{"forbidden"}, {}} : S!Review([s2 EXCEPT !.action = a])
          \/ \E used \in SkillMemories \ {{}} : S!Review([s2 EXCEPT !.memory = used])
          \/ S!Review([s2 EXCEPT !.skillMatches = FALSE])
      BY <2>2 DEF S!Escalate
    <3>2. /\ [s2 EXCEPT !.publicOutput = TRUE] \in S!Events
          /\ [s2 EXCEPT !.persistentWrite = TRUE] \in S!Events
          /\ [s2 EXCEPT !.level = "high"] \in S!Events
          /\ [s2 EXCEPT !.authority = "live_write"] \in S!Events
          /\ \A a \in {{"forbidden"}, {}} : [s2 EXCEPT !.action = a] \in S!Events
          /\ \A used \in SkillMemories \ {{}} : [s2 EXCEPT !.memory = used] \in S!Events
          /\ [s2 EXCEPT !.skillMatches = FALSE] \in S!Events
      BY <2>1, SkillEvent, Zenon
    <3> QED
      BY <3>1, <3>2
  <2>3. CASE S!PassGate
    <3>1. S!Review([s2 EXCEPT !.gate = TRUE])
      BY <2>3 DEF S!PassGate
    <3> QED
      BY <2>1, <3>1, SkillEvent, Zenon
  <2> QED
    BY <2>2, <2>3 DEF S!Next
<1> QED
  BY <1>1 DEF S!Review, SkillIInv

\* Every candidate of a supervision brings one piece of evidence.
LEMMA SupervisedCandidate ==
  ASSUME SkillIInv, NEW i \in DOMAIN s3.candidates
  PROVE  s3.candidates[i].refs = 1
<1> DEFINE explicit == S!CandidateFromEvent(s2, S!Violations(s1, s2))
           inferred == S!InferredCandidates(s1, s2, explicit)
           y1 == S!Inferred(s1, "successful_reply_pattern")
           y2 == S!Inferred(s1, "cooldown_damping")
           made == {explicit[n] : n \in DOMAIN explicit} \cup {y1, y2}
<1>1. s3.candidates = explicit \o inferred
  BY DEF SkillIInv, S!SuperviseSkillEvolution
<1>2. \/ explicit = <<>>
      \/ explicit = <<explicit[1]>> /\ s2.candidate # S!None /\ explicit[1].refs = s2.candidate.refs
  <2> DEFINE own ==
        [target |-> s2.candidate.target, refs |-> s2.candidate.refs,
         status |-> IF S!Violations(s1, s2) # {} \/ S!CandidateForbidden(s2) THEN "blocked" ELSE "replay_required",
         allowedMatch |-> "allowed" \in s2.candidate.target.lists,
         forbiddenMatch |-> S!CandidateForbidden(s2)]
  <2>1. explicit = IF s2.candidate = S!None THEN <<>> ELSE <<own>>
    BY Zenon DEF S!CandidateFromEvent
  <2>2. own.refs = s2.candidate.refs
    OBVIOUS
  <2> HIDE DEF own, explicit
  <2>3. <<own>>[1] = own
    OBVIOUS
  <2> QED
    BY <2>1, <2>2, <2>3
<1>3. s2.candidate # S!None => s2.candidate.refs = 1
  BY DEF SkillIInv, S!Events, S!Candidates
<1>4. y1.refs = 1 /\ y2.refs = 1
  BY DEF S!Inferred
<1>5. \A x \in made : x.refs = 1
  <2> HIDE DEF explicit, y1, y2
  <2> QED
    BY <1>2, <1>3, <1>4
<1>6. explicit \in Seq(made)
  <2> HIDE DEF y1, y2
  <2>1. explicit \in Seq({explicit[n] : n \in DOMAIN explicit})
    <3> HIDE DEF explicit
    <3>1. CASE explicit = <<>>
      BY <3>1
    <3>2. CASE explicit = <<explicit[1]>>
      <4> DEFINE own == explicit[1]
                 all == {explicit[n] : n \in DOMAIN explicit}
      <4>1. 1 \in DOMAIN <<own>>
        OBVIOUS
      <4>2. own \in all
        BY <3>2, <4>1
      <4>3. explicit = <<own>>
        BY <3>2
      <4> HIDE DEF own, all
      <4> QED
        BY <4>2, <4>3 DEF all
    <3> QED
      BY <1>2, <3>1, <3>2
  <2> HIDE DEF explicit
  <2> QED
    BY <2>1
<1>7. inferred \in Seq(made)
  <2> HIDE DEF explicit
  <2> DEFINE first == IF {"positive_engagement", "policy_clean"} \subseteq s2.feedback THEN <<y1>> ELSE <<>>
             second == IF "policy_conflict" \in s2.feedback THEN <<y2>> ELSE <<>>
  <2>1. inferred = IF explicit # <<>> THEN <<>> ELSE first \o second
    BY DEF S!InferredCandidates
  <2> HIDE DEF y1, y2
  <2>2. y1 \in made /\ y2 \in made
    OBVIOUS
  <2> HIDE DEF made
  <2>3. first \in Seq(made) /\ second \in Seq(made)
    BY <2>2
  <2> HIDE DEF first, second, inferred
  <2>4. first \o second \in Seq(made)
    BY <2>3
  <2> QED
    BY <2>1, <2>4
<1> HIDE DEF explicit, inferred, made
<1>8. s3.candidates \in Seq(made)
  BY <1>1, <1>6, <1>7
<1>9. s3.candidates[i] \in made
  BY <1>8
<1> QED
  BY <1>5, <1>9

\* The score of a candidate that brings one piece of evidence.
Points == 0..10000

LEMMA SkillPoints ==
  ASSUME NEW s, NEW c
  PROVE  /\ c.refs = 1 => S!ScoreForSkillCandidate(s, c) \in Points
         /\ S!RouteForCandidate(s, c) \in S!KnownTournamentRoutes
<1> DEFINE route == S!RouteForCandidate(s, c)
           risk == S!RiskPenalty(S!RiskLevelFor(s))
           value == [skill |-> 2160, memory |-> 2016, case |-> 1920, policy |-> 1872, damping |-> 1392][route]
           listed == IF c.allowedMatch /\ ~c.forbiddenMatch THEN 1400 ELSE 0
<1>1. route \in {"skill", "memory", "case", "policy", "damping"}
  BY DEF S!RouteForCandidate, S!KnownTournamentRoutes
<1>2. risk \in 0..1000
  BY DEF S!RiskPenalty, S!RiskLevelFor
<1>3. value \in 1392..2160
  <2> HIDE DEF route
  <2> QED
    BY <1>1
<1>4. listed \in 0..1400
  OBVIOUS
<1>5. route \in S!KnownTournamentRoutes
  BY <1>1 DEF S!KnownTournamentRoutes
<1> DEFINE evidence == 550 * (IF c.refs > 4 THEN 4 ELSE IF c.refs < 1 THEN 1 ELSE c.refs)
           valued == evidence + value
           safe == valued + 3000
           listing == safe + listed
           calm == 1000 - risk
           score == listing + calm
<1>6. S!ScoreForSkillCandidate(s, c) = score
  BY DEF S!ScoreForSkillCandidate
<1> HIDE DEF risk, value, listed
<1> SUFFICES ASSUME c.refs = 1 PROVE score \in Points /\ route \in S!KnownTournamentRoutes
  BY <1>5, <1>6 DEF route
<1>7. evidence \in 550..550
  OBVIOUS
<1> HIDE DEF evidence
<1>8. valued \in 1942..2710
  BY <1>3, <1>7
<1> HIDE DEF valued
<1>9. safe \in 4942..5710
  BY <1>8
<1> HIDE DEF safe
<1>10. listing \in 4942..7110
  BY <1>4, <1>9
<1> HIDE DEF listing
<1>11. calm \in 0..1000
  BY <1>2
<1> HIDE DEF calm
<1>12. score \in Points
  BY <1>10, <1>11 DEF Points
<1> QED
  BY <1>5, <1>12

LEMMA SkillTypes == SkillIInv => S!TypeOK
<1> SUFFICES ASSUME SkillIInv PROVE S!TypeOK
  OBVIOUS
<1>1. ASSUME NEW i \in DOMAIN s4
      PROVE  s4[i].score \in Points /\ s4[i].route \in S!KnownTournamentRoutes
  <2> DEFINE c == s3.candidates[i]
             zero == 0
  <2>1. i \in DOMAIN s3.candidates
    BY <1>1 DEF SkillIInv, S!BuildSkillEvolutionTournamentBridge
  <2>2. c.refs = 1
    BY <2>1, SupervisedCandidate
  <2>3. /\ s4[i].route = S!RouteForCandidate(s3, c)
        /\ s4[i].score = S!ScoreForSkillCandidate(s3, c) \/ s4[i].score = zero
    BY <2>1 DEF SkillIInv, S!BuildSkillEvolutionTournamentBridge
  <2>4. zero \in Points
    BY DEF Points
  <2>5. S!ScoreForSkillCandidate(s3, c) \in Points /\ S!RouteForCandidate(s3, c) \in S!KnownTournamentRoutes
    BY <2>2, SkillPoints
  <2> HIDE DEF c, zero
  <2> QED
    BY <2>3, <2>4, <2>5
<1>2. s1 \in SkillContracts /\ s2 \in S!Events
  BY DEF SkillIInv
<1>3. \A i \in DOMAIN s4 : s4[i].score \in 0..10000 /\ s4[i].route \in S!KnownTournamentRoutes
  BY <1>1, Zenon DEF Points
<1> QED
  BY <1>2, <1>3, Zenon DEF S!TypeOK

\* The supervisor's checks and its violations, which are computed apart, against each other.
LEMMA SkillFailures ==
  ASSUME NEW c, NEW e \in S!Events, S!Violations(c, e) = {}
  PROVE  /\ S!FailedChecks(c, e) \subseteq {"target"}
         /\ "target" \in S!FailedChecks(c, e) => e.candidate.target.lists = {}
<1>1. /\ e.skillMatches /\ "forbidden" \notin e.action /\ ~S!ForbiddenMemory(e)
      /\ ~S!MissingGate(c, e) /\ ~S!CandidateForbidden(e)
  BY DEF S!Violations
<1>2. S!FailedChecks(c, e) \subseteq {"target"}
  <2> SUFFICES ASSUME NEW check \in S!FailedChecks(c, e), check # "target" PROVE FALSE
    OBVIOUS
  <2>1. check \in {"skill id", "action", "memory", "persistent", "public", "risk", "live"}
    BY DEF S!FailedChecks
  <2>2. CASE check = "skill id"
    BY <1>1, <2>2 DEF S!FailedChecks
  <2>3. CASE check = "action"
    BY <1>1, <2>3 DEF S!FailedChecks
  <2>4. CASE check = "memory"
    BY <1>1, <2>4 DEF S!FailedChecks
  <2>5. CASE check = "persistent"
    BY <1>1, <2>5 DEF S!FailedChecks, S!MissingGate
  <2>6. CASE check = "public"
    BY <1>1, <2>6 DEF S!FailedChecks, S!MissingGate
  <2>7. CASE check = "risk"
    BY <1>1, <2>7 DEF S!FailedChecks, S!MissingGate
  <2>8. CASE check = "live"
    BY <1>1, <2>8 DEF S!FailedChecks, S!MissingGate
  <2> QED
    BY <2>1, <2>2, <2>3, <2>4, <2>5, <2>6, <2>7, <2>8
<1>3. ASSUME "target" \in S!FailedChecks(c, e) PROVE e.candidate.target.lists = {}
  <2>1. ~S!CandidateAllowed(e)
    BY <1>1, <1>3 DEF S!FailedChecks
  <2>2. e.candidate # S!None /\ "allowed" \notin e.candidate.target.lists
    BY <2>1 DEF S!CandidateAllowed
  <2>3. "forbidden" \notin e.candidate.target.lists
    BY <1>1, <2>2 DEF S!CandidateForbidden
  <2>4. e.candidate.target.lists \subseteq {"allowed", "forbidden"}
    BY <2>2 DEF S!Events, S!Candidates, S!Lists
  <2> QED
    BY <2>2, <2>3, <2>4
<1> QED
  BY <1>2, <1>3

LEMMA SkillSupervised ==
  ASSUME SkillIInv
  PROVE  /\ s2 \in S!Events
         /\ s3.violations = S!Violations(s1, s2) /\ s3.failed = S!FailedChecks(s1, s2)
         /\ s3.ok = (s3.violations = {} /\ s3.failed = {})
BY DEF SkillIInv, S!SuperviseSkillEvolution

LEMMA FailuresExplained == SkillIInv => S!FailuresAreExplained
<1> SUFFICES ASSUME SkillIInv, s3.failed # {}, s3.violations = {}
             PROVE  s3.failed = {"target"} /\ s2.candidate.target.lists = {}
  BY DEF S!FailuresAreExplained
<1>1. S!FailedChecks(s1, s2) \subseteq {"target"} /\ ("target" \in S!FailedChecks(s1, s2) => s2.candidate.target.lists = {})
  BY SkillSupervised, SkillFailures
<1> QED
  BY <1>1, SkillSupervised

LEMMA AdmissionsClean == SkillIInv => S!AdmissionRequiresCleanEvent
<1> DEFINE gated == \/ s2.authority = "live_write"
                    \/ s2.persistentWrite /\ s1.persistPolicy \in {"forbidden", "gated_only"}
                    \/ s2.level = "high" /\ "high_risk" \in s1.gateFor
<1> SUFFICES ASSUME SkillIInv, NEW i \in DOMAIN s4, s4[i].admitted
             PROVE  /\ s2.skillMatches /\ "forbidden" \notin s2.action
                    /\ \A class \in s2.memory : "forbidden" \notin class
                    /\ s2.gate \/ ~gated
  BY Zenon DEF S!AdmissionRequiresCleanEvent
<1>1. s4[i].admitted = S!AdmissionChecks(s3, s3.candidates[i])
  BY DEF SkillIInv, S!BuildSkillEvolutionTournamentBridge
<1>2. S!Violations(s1, s2) = {}
  BY <1>1, SkillSupervised DEF S!AdmissionChecks
<1>3. /\ s2.skillMatches /\ "forbidden" \notin s2.action /\ ~S!ForbiddenMemory(s2) /\ ~S!MissingGate(s1, s2)
  BY <1>2 DEF S!Violations
<1>4. s2.level = "high" => S!RiskAtLeast(s2.level, "high")
  BY DEF S!RiskAtLeast, S!Levels
<1> QED
  BY <1>3, <1>4 DEF S!ForbiddenMemory, S!MissingGate, S!PersistentWriteNeedsGate, S!HighRiskGateRequired, S!LiveAuthority

-----------------------------------------------------------------------------
(* The tournament: four variants, what they score, and the winner.         *)

TournamentIInv == Drawn(s1) /\ s2 = BuildTournament(s1)

LEMMA TournamentInit == s1 \in Drawings /\ s2 = BuildTournament(s1) => TournamentIInv
BY DeckAssumption DEF TournamentIInv

LEMMA TournamentStep == ASSUME TournamentIInv, Gather PROVE TournamentIInv'
<1>1. s1' = [s1 EXCEPT !.count = @ + 1] /\ s2' = BuildTournament(s1')
  BY DEF Gather, candidate, tournament
<1>2. Drawn(s1')
  BY <1>1 DEF TournamentIInv, Drawn
<1> QED
  BY <1>1, <1>2 DEF TournamentIInv

Changes == {"baseline", "trace_reflective", "pareto_compact"}

LEMMA StrategyNames == Range(Strategies) = Changes \cup {"aggressive_auto_publish"}
<1>1. DOMAIN Strategies = 1..4
  BY DEF Strategies
<1>2. /\ Strategies[1] = "baseline" /\ Strategies[2] = "trace_reflective"
      /\ Strategies[3] = "pareto_compact" /\ Strategies[4] = "aggressive_auto_publish"
  BY DEF Strategies
<1>3. Range(Strategies) = {Strategies[i] : i \in 1..4}
  BY <1>1 DEF Range
<1> QED
  BY <1>2, <1>3 DEF Changes

\* A built variant: its words and its outline are counted, and it asks for operations
\* only when it publishes by itself.
Built(v) ==
  /\ v.words \in Nat /\ v.outline \in Nat /\ v.novelty \in 15..95 /\ v.operations \in {0, 3}
  /\ v.operations = 0 => v.novelty <= 74

Compact == [words |-> 21, outline |-> 18, novelty |-> 58, operations |-> 0, surfaces |-> {"draft_report"}]

LEMMA VariantsBuilt ==
  ASSUME NEW c, Drawn(c)
  PROVE  /\ \A s \in Range(Strategies) : Built(BuildVariants(c)[s])
         /\ \A s \in Changes : BuildVariants(c)[s].operations = 0
         /\ BuildVariants(c)["aggressive_auto_publish"].operations = 3
         /\ BuildVariants(c)["pareto_compact"] = Compact
         /\ BuildVariants(c)["trace_reflective"].surfaces = {"draft_report", "local_eval_metadata"}
         /\ BuildVariants(c)["trace_reflective"].novelty = 74
<1> DEFINE n == Cardinality(c.signals)
           m == Most(1, n)
           b == BuildVariants(c)
<1>1. c.words \in Nat /\ n \in Nat
  BY FS_CardinalityType DEF Drawn
<1>2. m \in Nat
  BY <1>1 DEF Most
<1> HIDE DEF n
<1>3. b = [baseline |-> [words |-> c.words, outline |-> 19, novelty |-> 15,
                         operations |-> 0, surfaces |-> {"draft_report"}],
           trace_reflective |-> [words |-> c.words + 21 + m, outline |-> 36,
                         novelty |-> 74, operations |-> 0, surfaces |-> {"draft_report", "local_eval_metadata"}],
           pareto_compact |-> [words |-> 21, outline |-> 18, novelty |-> 58,
                         operations |-> 0, surfaces |-> {"draft_report"}],
           aggressive_auto_publish |-> [words |-> 23, outline |-> 18, novelty |-> 95, operations |-> 3,
                         surfaces |-> {"draft_report", "persistent_state", "skill_registry"}]]
  BY DEF BuildVariants, n
<1> HIDE DEF m, b
<1>4. /\ b["baseline"].operations = 0 /\ b["trace_reflective"].operations = 0 /\ b["pareto_compact"].operations = 0
      /\ b["aggressive_auto_publish"].operations = 3
      /\ b["pareto_compact"] = Compact
      /\ b["trace_reflective"].surfaces = {"draft_report", "local_eval_metadata"}
      /\ b["trace_reflective"].novelty = 74
  BY <1>3 DEF Compact
<1>5. /\ Built(b["baseline"]) /\ Built(b["trace_reflective"]) /\ Built(b["pareto_compact"])
      /\ Built(b["aggressive_auto_publish"])
  BY <1>1, <1>2, <1>3 DEF Built
<1> HIDE DEF Built
<1> QED
  BY <1>4, <1>5, StrategyNames DEF b, Changes

LEMMA EvidenceFits == ASSUME NEW c, Drawn(c) PROVE EvidenceFit(c) \in 550..1000
BY DEF Drawn, EvidenceFit, Most, Least

LEMMA VariantHeld ==
  ASSUME NEW v, Built(v)
  PROVE  /\ Holdout(v) \in 500..1000
         /\ Safety(v) \in 0..1000
         /\ Compactness180(v) \in 36..180
         /\ HardGatePassed(v) <=> v.operations = 0 /\ TextBudgetOk(v)
         /\ HardGatePassed(v) => Holdout(v) = 1000 /\ Safety(v) = 1000
         /\ ~HardGatePassed(v) => Safety(v) <= 390
         /\ v.operations = 0 => Holdout(v) = 1000
<1> DEFINE n == Violations(v)
           w == v.words + v.outline
<1>1. n \in 0..5 /\ (n = 0 <=> v.operations = 0 /\ TextBudgetOk(v))
  BY DEF Violations, If, Built
<1>2. HardGatePassed(v) <=> n = 0
  BY DEF HardGatePassed
<1>3. Safety(v) = IF HardGatePassed(v) THEN 1000 ELSE Most(0, 450 - 60 * n)
  BY DEF Safety
<1>4. Compactness180(v) \in 36..180
  <2>1. v.words \in Nat /\ v.outline \in Nat
    BY DEF Built
  <2> QED
    BY <2>1 DEF Compactness180, Most
<1>5. Holdout(v) = IF v.operations = 0 THEN 1000 ELSE 500
  BY DEF Holdout
<1> HIDE DEF n
<1>6. Safety(v) \in 0..1000 /\ (~HardGatePassed(v) => Safety(v) <= 390) /\ (HardGatePassed(v) => Safety(v) = 1000)
  BY <1>1, <1>2, <1>3 DEF Most
<1> QED
  BY <1>1, <1>2, <1>4, <1>5, <1>6

LEMMA UnitClamped == \A x \in Int : Clamp01(x) \in 0..100
BY DEF Clamp01, Most, Least

LEMMA FitsIn == ASSUME NEW c, NEW s PROVE StrategyFit(c, s) \in 0..100
<1>1. \A p, x : x \in Int => If(p, x) \in Int
  BY DEF If
<1> DEFINE risky == c.risk \in {"high", "critical"}
<1>2. CASE s = "baseline"
  <2> DEFINE a1 == If(c.route = "damping", 30)
             a2 == If(c.count <= 2, 16)
             a3 == If(c.risk = "low", 8)
             a4 == If(risky, 14)
             a5 == If(c.route = "policy", 12)
             x == 58 + a1 + a2 + a3 - a4 - a5
  <2>1. a1 \in Int /\ a2 \in Int /\ a3 \in Int /\ a4 \in Int /\ a5 \in Int
    BY DEF If
  <2>2. StrategyFit(c, s) = Clamp01(x)
    BY <1>2 DEF StrategyFit
  <2> HIDE DEF a1, a2, a3, a4, a5
  <2>3. x \in Int
    BY <2>1
  <2> HIDE DEF x
  <2> QED
    BY <2>2, <2>3, UnitClamped
<1>3. CASE s = "trace_reflective"
  <2> DEFINE a1 == If(c.route = "policy", 24)
             a2 == If(c.route = "case", 22)
             a3 == If(c.route = "skill", 10)
             a4 == If(risky, 10)
             a5 == If(c.sourceBacked, 5)
             a6 == If("repeated_failure_pattern" \in c.signals, 5)
             a7 == If("public_posting_boundary" \in c.signals, 5)
             a8 == If("real_chat_validation_required" \in c.signals, 4)
             x == 62 + a1 + a2 + a3 + a4 + a5 + a6 + a7 + a8
  <2>1. a1 \in Int /\ a2 \in Int /\ a3 \in Int /\ a4 \in Int /\ a5 \in Int /\ a6 \in Int /\ a7 \in Int /\ a8 \in Int
    BY DEF If
  <2>2. StrategyFit(c, s) = Clamp01(x)
    BY <1>3 DEF StrategyFit
  <2> HIDE DEF a1, a2, a3, a4, a5, a6, a7, a8
  <2>3. x \in Int
    BY <2>1
  <2> HIDE DEF x
  <2> QED
    BY <2>2, <2>3, UnitClamped
<1>4. CASE s = "pareto_compact"
  <2> DEFINE a1 == If(c.route = "memory", 20)
             a2 == If(c.route = "skill", 12)
             a3 == If(c.risk = "low", 8)
             a4 == If(c.count >= 4, 6)
             a5 == If(c.route = "policy", 18)
             a6 == If(c.route = "case", 10)
             a7 == If(c.route = "damping", 12)
             a8 == If("public_posting_boundary" \in c.signals, 8)
             x == 70 + a1 + a2 + a3 + a4 - a5 - a6 - a7 - a8
  <2>1. a1 \in Int /\ a2 \in Int /\ a3 \in Int /\ a4 \in Int /\ a5 \in Int /\ a6 \in Int /\ a7 \in Int /\ a8 \in Int
    BY DEF If
  <2>2. StrategyFit(c, s) = Clamp01(x)
    BY <1>4 DEF StrategyFit
  <2> HIDE DEF a1, a2, a3, a4, a5, a6, a7, a8
  <2>3. x \in Int
    BY <2>1
  <2> HIDE DEF x
  <2> QED
    BY <2>2, <2>3, UnitClamped
<1>5. CASE s \notin Changes
  <2>1. StrategyFit(c, s) = 10
    BY <1>5 DEF StrategyFit, Changes
  <2> QED
    BY <2>1
<1> QED
  BY <1>2, <1>3, <1>4, <1>5 DEF Changes

\* The parts of a composite, in 1/90000.
Parts(e, h, y, k, n, f) ==
  32400 + (144 * e) \div 10 + (144 * h) \div 10 + (126 * y) \div 10 + 25 * k + 36 * n + 81 * f

\* What PartsIn and its readers know of a part: hidden, for the provers are slow on ranges.
Between(x, a, b) == x \in Int /\ a <= x /\ x <= b

LEMMA PartsIn ==
  ASSUME NEW e, NEW h, NEW y, NEW k, NEW n, NEW f,
         Between(e, 550, 1000), Between(h, 500, 1000), Between(y, 0, 1000), Between(k, 36, 180),
         Between(n, 15, 95), Between(f, 0, 100)
  PROVE  /\ Parts(e, h, y, k, n, f) \in Int /\ Parts(e, h, y, k, n, f) >= 0 /\ Parts(e, h, y, k, n, f) <= 89820
         /\ y <= 390 => Parts(e, h, y, k, n, f) <= 82134
         /\ h = 1000 /\ y = 1000 => Parts(e, h, y, k, n, f) >= 68760
         /\ n <= 74 => Parts(e, h, y, k, n, f) <= 89064
<1> DEFINE e1 == (144 * e) \div 10
           h1 == (144 * h) \div 10
           y1 == (126 * y) \div 10
<1>1. e1 \in Int /\ e1 >= 7920 /\ e1 <= 14400
  BY DEF Between
<1>2. h1 \in Int /\ h1 >= 7200 /\ h1 <= 14400 /\ (h = 1000 => h1 = 14400)
  BY DEF Between
<1>3. y1 \in Int /\ y1 >= 0 /\ y1 <= 12600 /\ (y = 1000 => y1 = 12600) /\ (y <= 390 => y1 <= 4914)
  BY DEF Between
<1> DEFINE k1 == 25 * k
           n1 == 36 * n
           f1 == 81 * f
<1>4. k1 \in Int /\ k1 >= 900 /\ k1 <= 4500 /\ n1 \in Int /\ n1 >= 540 /\ n1 <= 3420 /\ f1 \in Int /\ f1 >= 0 /\ f1 <= 8100 /\ (n <= 74 => n1 <= 2664)
  BY DEF Between
<1> DEFINE a1 == 32400 + e1
           a2 == a1 + h1
           a3 == a2 + y1
           a4 == a3 + k1
           a5 == a4 + n1
           a6 == a5 + f1
<1>5. Parts(e, h, y, k, n, f) = a6
  BY DEF Parts
<1> HIDE DEF e1, h1, y1, k1, n1, f1
<1>6. a1 \in Int /\ a1 >= 40320 /\ a1 <= 46800
  BY <1>1
<1> HIDE DEF a1
<1>7. a2 \in Int /\ a2 >= 47520 /\ a2 <= 61200 /\ (h = 1000 => a2 >= 54720)
  BY <1>2, <1>6
<1> HIDE DEF a2
<1>8. a3 \in Int /\ a3 >= 47520 /\ a3 <= 73800 /\ (h = 1000 /\ y = 1000 => a3 >= 67320) /\ (y <= 390 => a3 <= 66114)
  BY <1>3, <1>7
<1> HIDE DEF a3
<1>9. a4 \in Int /\ a4 >= 48420 /\ a4 <= 78300 /\ (h = 1000 /\ y = 1000 => a4 >= 68220) /\ (y <= 390 => a4 <= 70614)
  BY <1>4, <1>8
<1> HIDE DEF a4
<1>10. /\ a5 \in Int /\ a5 >= 48960 /\ a5 <= 81720 /\ (h = 1000 /\ y = 1000 => a5 >= 68760) /\ (y <= 390 => a5 <= 74034)
       /\ n <= 74 => a5 <= 80964
  BY <1>4, <1>9
<1> HIDE DEF a5
<1>11. /\ a6 \in Int /\ a6 >= 48960 /\ a6 <= 89820 /\ (h = 1000 /\ y = 1000 => a6 >= 68760) /\ (y <= 390 => a6 <= 82134)
       /\ n <= 74 => a6 <= 89064
  BY <1>4, <1>10
<1> HIDE DEF a6
<1> QED
  BY <1>5, <1>11

LEMMA RoundedIn ==
  ASSUME NEW x, Between(x, 0, 50634) \/ Between(x, 68760, 89064)
  PROVE  /\ RoundTo1000(x, 90000) \in 0..1000
         /\ Between(x, 0, 50634) => RoundTo1000(x, 90000) <= 570
         /\ Between(x, 68760, 89064) => RoundTo1000(x, 90000) >= 760
<1> DEFINE y == 2000 * x + 90000
           r == y \div 180000
<1>1. RoundTo1000(x, 90000) = r
  BY DEF RoundTo1000
<1>2. /\ y \in Int /\ y >= 90000 /\ y <= 178218000
      /\ Between(x, 0, 50634) => y <= 101358000
      /\ Between(x, 68760, 89064) => y >= 137610000
  BY DEF Between
<1> HIDE DEF y
<1>3. r \in Int /\ 180000 * r <= y /\ y < 180000 * r + 180000
  BY <1>2
<1> HIDE DEF r
<1> QED
  BY <1>1, <1>2, <1>3

\* What is left after the penalty for a failed hard gate.
Penalized(x, passed) == Most(0, x - If(~passed, 31500))

LEMMA PenalizedIn ==
  ASSUME NEW x, NEW passed \in BOOLEAN, passed => Between(x, 68760, 89064), ~passed => Between(x, 0, 82134),
         NEW z, z = Penalized(x, passed)
  PROVE  (passed => Between(z, 68760, 89064)) /\ (~passed => Between(z, 0, 50634))
<1>1. ASSUME passed PROVE z = x
  BY <1>1 DEF Penalized, If, Most, Between
<1>2. ASSUME ~passed PROVE Between(z, 0, 50634)
  BY <1>2 DEF Penalized, If, Most, Between
<1> QED
  BY <1>1, <1>2

\* A composite lies between nothing and 1, and one that failed the hard gate lies well
\* below every one that passed it.
LEMMA CompositeIn ==
  ASSUME NEW c, Drawn(c), NEW s, NEW v, Built(v)
  PROVE  /\ Composite(c, s, v) \in 0..1000
         /\ ~HardGatePassed(v) => Composite(c, s, v) <= 570
         /\ HardGatePassed(v) => Composite(c, s, v) >= 760
<1> DEFINE e == EvidenceFit(c)
           h == Holdout(v)
           y == Safety(v)
           k == Compactness180(v)
           n == v.novelty
           f == StrategyFit(c, s)
           passed == HardGatePassed(v)
<1>1. e \in 550..1000 /\ f \in 0..100
  BY EvidenceFits, FitsIn
<1>2. /\ h \in 500..1000 /\ y \in 0..1000 /\ k \in 36..180
      /\ passed <=> v.operations = 0 /\ TextBudgetOk(v)
      /\ passed => h = 1000 /\ y = 1000
      /\ ~passed => y <= 390
  BY VariantHeld
<1>3. n \in 15..95 /\ (passed => n <= 74)
  BY <1>2 DEF Built
<1>4. passed \in BOOLEAN
  BY DEF HardGatePassed
<1>5. Composite(c, s, v) = RoundTo1000(Penalized(Parts(e, h, y, k, n, f), passed), 90000)
  BY DEF Composite, Parts, Penalized
<1> HIDE DEF e, h, y, k, n, f, passed
<1> DEFINE x == Parts(e, h, y, k, n, f)
<1>11. /\ Between(e, 550, 1000) /\ Between(h, 500, 1000) /\ Between(y, 0, 1000) /\ Between(k, 36, 180)
       /\ Between(n, 15, 95) /\ Between(f, 0, 100)
  BY <1>1, <1>2, <1>3 DEF Between
<1>6. /\ x \in Int /\ x >= 0 /\ x <= 89820
      /\ y <= 390 => x <= 82134
      /\ h = 1000 /\ y = 1000 => x >= 68760
      /\ n <= 74 => x <= 89064
  BY <1>11, PartsIn
<1> HIDE DEF x
<1>7. /\ passed => Between(x, 68760, 89064)
      /\ ~passed => Between(x, 0, 82134)
  BY <1>2, <1>3, <1>6 DEF Between
<1> DEFINE z == Penalized(x, passed)
<1>8. (passed => Between(z, 68760, 89064)) /\ (~passed => Between(z, 0, 50634))
  BY <1>4, <1>7, PenalizedIn
<1>9. Composite(c, s, v) = RoundTo1000(z, 90000)
  BY <1>5 DEF x
<1> HIDE DEF z
<1>10. /\ RoundTo1000(z, 90000) \in 0..1000
       /\ ~passed => RoundTo1000(z, 90000) <= 570
       /\ passed => RoundTo1000(z, 90000) >= 760
  BY <1>8, RoundedIn
<1> QED
  BY <1>9, <1>10 DEF passed

Keys == {"evidence_fit", "holdout", "safety", "compactness", "novelty", "strategy_fit", "regression", "composite"}

\* What a variant scores: every score lies between nothing and 1, and all of those the
\* hard gate decides are full for the variants that passed it.
LEMMA VariantScores ==
  ASSUME NEW c, Drawn(c), NEW s, NEW v, Built(v)
  PROVE  LET scores == ScoreVariant(c, s, v) IN
         /\ DOMAIN scores = Keys
         /\ \A key \in Keys : scores[key] \in 0..1000
         /\ ~HardGatePassed(v) => scores["composite"] <= 570
         /\ HardGatePassed(v) => /\ scores["composite"] >= 760 /\ scores["holdout"] = 1000
                                 /\ scores["safety"] = 1000 /\ scores["regression"] = 1000
         /\ v.operations = 0 => scores["holdout"] = 1000
<1> DEFINE k == Compactness180(v)
           e == EvidenceFit(c)
           h == Holdout(v)
           y == Safety(v)
           m == RoundTo1000(k, 180)
           n == 10 * v.novelty
           f == StrategyFit(c, s)
           g == 10 * f
           passed == HardGatePassed(v)
           r == IF passed THEN 1000 ELSE 100
           t == Composite(c, s, v)
           scores == ScoreVariant(c, s, v)
<1>1. e \in 0..1000
  BY EvidenceFits
<1>2. /\ h \in 0..1000 /\ y \in 0..1000
      /\ passed => h = 1000 /\ y = 1000
      /\ v.operations = 0 => h = 1000
  BY VariantHeld
<1>3. m \in 0..1000
  <2>1. k \in 36..180
    BY VariantHeld
  <2> HIDE DEF k
  <2> QED
    BY <2>1 DEF RoundTo1000
<1>4. n \in 0..1000
  BY DEF Built
<1>5. g \in 0..1000
  <2>1. f \in 0..100
    BY FitsIn
  <2> HIDE DEF f
  <2> QED
    BY <2>1
<1>6. r \in 0..1000 /\ (passed => r = 1000)
  OBVIOUS
<1>7. t \in 0..1000 /\ (~passed => t <= 570) /\ (passed => t >= 760)
  BY CompositeIn
<1>8. scores = [evidence_fit |-> e, holdout |-> h, safety |-> y, compactness |-> m, novelty |-> n,
                strategy_fit |-> g, regression |-> r, composite |-> t]
  BY DEF ScoreVariant
<1> HIDE DEF k, e, h, y, m, n, f, g, r, t, passed, scores
<1>9. DOMAIN scores = Keys
  BY <1>8 DEF Keys
<1>10. /\ scores["evidence_fit"] = e /\ scores["holdout"] = h /\ scores["safety"] = y
       /\ scores["compactness"] = m /\ scores["novelty"] = n /\ scores["strategy_fit"] = g
       /\ scores["regression"] = r /\ scores["composite"] = t
  BY <1>8
<1> DEFINE unit == 0..1000
<1>11. \A key \in Keys : scores[key] \in 0..1000
  <2>1. /\ e \in unit /\ h \in unit /\ y \in unit /\ m \in unit /\ n \in unit /\ g \in unit
        /\ r \in unit /\ t \in unit
    BY <1>1, <1>2, <1>3, <1>4, <1>5, <1>6, <1>7
  <2> HIDE DEF unit
  <2>2. \A key \in Keys : scores[key] \in unit
    BY <1>10, <2>1, Zenon DEF Keys
  <2> QED
    BY <2>2 DEF unit
<1>12. /\ ~passed => scores["composite"] <= 570
       /\ passed => /\ scores["composite"] >= 760 /\ scores["holdout"] = 1000
                    /\ scores["safety"] = 1000 /\ scores["regression"] = 1000
       /\ v.operations = 0 => scores["holdout"] = 1000
  BY <1>2, <1>6, <1>7, <1>10
<1> QED
  BY <1>9, <1>11, <1>12 DEF scores, passed

\* A variant of a tournament, once scored.
Unit == 0..1000

LEMMA UnitScores == Unit \subseteq Int
BY DEF Unit

Contender(x) ==
  /\ x.passed \in BOOLEAN /\ DOMAIN x.scores = Keys
  /\ \A key \in Keys : x.scores[key] \in Unit
  /\ ~x.passed => x.scores["composite"] <= 570
  /\ x.passed => /\ x.scores["composite"] >= 760 /\ x.scores["holdout"] = 1000
                 /\ x.scores["safety"] = 1000 /\ x.scores["regression"] = 1000

LEMMA VariantsScored ==
  ASSUME NEW c, Drawn(c), NEW vs, vs = Scored(c)
  PROVE  /\ DOMAIN vs = Range(Strategies)
         /\ \A s \in Range(Strategies) :
              /\ vs[s].passed = HardGatePassed(BuildVariants(c)[s])
              /\ vs[s].scores = ScoreVariant(c, s, BuildVariants(c)[s])
              /\ vs[s].footprint = ControlFootprint(s, BuildVariants(c)[s])
              /\ vs[s].blocked = BuildVariants(c)[s].operations
<1> DEFINE built(s) == BuildVariants(c)[s]
           passed(s) == HardGatePassed(built(s))
           scores(s) == ScoreVariant(c, s, built(s))
           footprint(s) == ControlFootprint(s, built(s))
           blocked(s) == built(s).operations
<1>1. vs = [s \in Range(Strategies) |-> [passed |-> passed(s), scores |-> scores(s),
                                         footprint |-> footprint(s), blocked |-> blocked(s)]]
  BY DEF Scored
<1> HIDE DEF passed, scores, footprint, blocked
<1>2. /\ DOMAIN vs = Range(Strategies)
      /\ \A s \in Range(Strategies) :
           /\ vs[s].passed = passed(s)
           /\ vs[s].scores = scores(s)
           /\ vs[s].footprint = footprint(s)
           /\ vs[s].blocked = blocked(s)
  BY <1>1
<1> QED
  BY <1>2 DEF passed, scores, footprint, blocked

Contested(vs) ==
  /\ DOMAIN vs = Changes \cup {"aggressive_auto_publish"}
  /\ \A s \in DOMAIN vs : Contender(vs[s])
  /\ vs["pareto_compact"].passed /\ ~vs["aggressive_auto_publish"].passed
  /\ vs["pareto_compact"].footprint.restraint <= vs["trace_reflective"].footprint.restraint
  /\ vs["trace_reflective"].scores["holdout"] = 1000

LEMMA Contest == ASSUME NEW c, Drawn(c), NEW vs, vs = Scored(c) PROVE Contested(vs)
<1> DEFINE b == BuildVariants(c)
<1>1. DOMAIN vs = Changes \cup {"aggressive_auto_publish"}
  BY VariantsScored, StrategyNames
<1>2. ASSUME NEW s \in DOMAIN vs PROVE Contender(vs[s])
  <2>1. Built(b[s])
    BY <1>1, VariantsBuilt, StrategyNames
  <2>2. vs[s].passed = HardGatePassed(b[s]) /\ vs[s].scores = ScoreVariant(c, s, b[s])
    BY <1>1, VariantsScored, StrategyNames
  <2>3. HardGatePassed(b[s]) \in BOOLEAN
    BY DEF HardGatePassed
  <2> QED
    BY <2>1, <2>2, <2>3, VariantScores DEF Contender, Unit
<1>3. vs["pareto_compact"].passed
  <2>1. vs["pareto_compact"].passed = HardGatePassed(Compact)
    BY VariantsScored, VariantsBuilt, StrategyNames DEF Changes
  <2>2. Built(Compact) /\ TextBudgetOk(Compact) /\ Compact.operations = 0
    BY DEF Built, TextBudgetOk, Compact
  <2> QED
    BY <2>1, <2>2, VariantHeld
<1>4. ~vs["aggressive_auto_publish"].passed
  <2>1. vs["aggressive_auto_publish"].passed = HardGatePassed(b["aggressive_auto_publish"])
    BY VariantsScored, StrategyNames
  <2>2. Built(b["aggressive_auto_publish"]) /\ b["aggressive_auto_publish"].operations = 3
    BY VariantsBuilt, StrategyNames
  <2> QED
    BY <2>1, <2>2, VariantHeld
<1>5. vs["pareto_compact"].footprint.restraint <= vs["trace_reflective"].footprint.restraint
  <2> DEFINE p == b["pareto_compact"]
             t == b["trace_reflective"]
             np == Cardinality(p.surfaces)
             nt == Cardinality(t.surfaces)
  <2>1. /\ vs["pareto_compact"].footprint = ControlFootprint("pareto_compact", p)
        /\ vs["trace_reflective"].footprint = ControlFootprint("trace_reflective", t)
    BY VariantsScored, StrategyNames DEF Changes
  <2>2. p = Compact /\ t.surfaces = {"draft_report", "local_eval_metadata"} /\ t.novelty = 74 /\ t.operations = 0
    BY VariantsBuilt DEF Changes
  <2>3. p.surfaces = {"draft_report"} /\ p.novelty = 58 /\ p.operations = 0
    BY <2>2 DEF Compact
  <2>4. np = 1
    BY <2>3, FS_Singleton
  <2>5. nt = 2
    <3>1. IsFiniteSet({"draft_report"}) /\ Cardinality({"draft_report"}) = 1 /\ "local_eval_metadata" \notin {"draft_report"}
      BY FS_Singleton
    <3>2. t.surfaces = {"draft_report"} \cup {"local_eval_metadata"}
      BY <2>2
    <3>3. Cardinality({"draft_report"} \cup {"local_eval_metadata"}) = 1 + 1
      BY <3>1, FS_AddElement
    <3> QED
      BY <3>2, <3>3
  <2> HIDE DEF p, t, np, nt
  <2>6. ControlFootprint("pareto_compact", p).restraint = 1000 * 2 + 10 * 58 + 250 + 0
    BY <2>3, <2>4 DEF ControlFootprint, Least, np
  <2>7. ControlFootprint("trace_reflective", t).restraint = 1000 * 3 + 10 * 74 + 500 + 0
    BY <2>2, <2>5 DEF ControlFootprint, Least, nt
  <2> QED
    BY <2>1, <2>6, <2>7
<1>6. vs["trace_reflective"].scores["holdout"] = 1000
  <2>1. Built(b["trace_reflective"]) /\ b["trace_reflective"].operations = 0
    BY VariantsBuilt, StrategyNames DEF Changes
  <2>2. vs["trace_reflective"].scores = ScoreVariant(c, "trace_reflective", b["trace_reflective"])
    BY VariantsScored, StrategyNames DEF Changes
  <2> QED
    BY <2>1, <2>2, VariantScores
<1> QED
  BY <1>1, <1>2, <1>3, <1>4, <1>5, <1>6 DEF Contested

\* Of equal composites the incumbent comes first, then the synthesis, then the revision.
Prior(a, b) == a = "baseline" \/ (b # "baseline" /\ NameOrder(a) < NameOrder(b))

LEMMA SafeRanks ==
  ASSUME NEW vs, NEW a, NEW b, Contender(vs[a]), Contender(vs[b]), vs[a].passed, vs[b].passed
  PROVE  RanksBefore(vs, a, b) <=>
           \/ vs[a].scores["composite"] > vs[b].scores["composite"]
           \/ vs[a].scores["composite"] = vs[b].scores["composite"] /\ Prior(a, b)
<1> DEFINE x == vs[a].scores
           y == vs[b].scores
           p == Prior(a, b)
<1>1. x["holdout"] = 1000 /\ x["safety"] = 1000 /\ y["holdout"] = 1000 /\ y["safety"] = 1000
  BY DEF Contender
<1>2. RanksBefore(vs, a, b) <=>
        \/ x["composite"] > y["composite"]
        \/ x["composite"] = y["composite"] /\ x["holdout"] > y["holdout"]
        \/ /\ x["composite"] = y["composite"] /\ x["holdout"] = y["holdout"]
           /\ x["safety"] > y["safety"]
        \/ /\ x["composite"] = y["composite"] /\ x["holdout"] = y["holdout"] /\ x["safety"] = y["safety"]
           /\ p
  BY DEF RanksBefore, Prior
<1> HIDE DEF x, y, p
<1>3. ~(x["holdout"] > y["holdout"]) /\ ~(x["safety"] > y["safety"]) /\ x["holdout"] = y["holdout"]
      /\ x["safety"] = y["safety"]
  BY <1>1
<1>4. RanksBefore(vs, a, b) <=> (x["composite"] > y["composite"] \/ (x["composite"] = y["composite"] /\ p))
  BY <1>2, <1>3
<1> QED
  BY <1>4 DEF x, y, p

\* A first among the changes and the incumbent, whatever they score.
LEMMA FirstOfThree ==
  ASSUME NEW f, \A s \in Changes : f[s] \in Int, NEW O \in SUBSET Changes, O # {}
  PROVE  \E s \in O : \A t \in O \ {s} : f[s] > f[t] \/ (f[s] = f[t] /\ Prior(s, t))
<1> DEFINE ahead(s, t) == f[s] > f[t] \/ (f[s] = f[t] /\ Prior(s, t))
           i == "baseline"
           p == "pareto_compact"
           r == "trace_reflective"
<1>1. NameOrder(p) = 3 /\ NameOrder(r) = 4
  BY DEF NameOrder
<1>2. Prior(i, p) /\ Prior(i, r) /\ Prior(p, r)
  BY <1>1 DEF Prior
<1>3. f[i] \in Int /\ f[p] \in Int /\ f[r] \in Int
  BY DEF Changes
<1> DEFINE x == f[i]
           y == f[p]
           z == f[r]
<1>4. (ahead(i, p) \/ ahead(p, i)) /\ (ahead(i, r) \/ ahead(r, i)) /\ (ahead(p, r) \/ ahead(r, p))
  <2>1. /\ x > y \/ x = y \/ y > x
        /\ x > z \/ x = z \/ z > x
        /\ y > z \/ y = z \/ z > y
    <3> HIDE DEF x, y, z
    <3>1. x \in Int /\ y \in Int /\ z \in Int
      BY <1>3 DEF x, y, z
    <3> QED
      BY <3>1
  <2> QED
    BY <1>2, <2>1
<1>5. \/ ahead(i, p) /\ ahead(i, r)
      \/ ahead(p, i) /\ ahead(p, r)
      \/ ahead(r, i) /\ ahead(r, p)
  <2>1. /\ x >= y \/ y > x
        /\ x >= z \/ z > x
        /\ y >= z \/ z > y
        /\ \/ x >= y /\ x >= z
           \/ y > x /\ y >= z
           \/ z > x /\ z > y
    <3> HIDE DEF x, y, z
    <3>1. x \in Int /\ y \in Int /\ z \in Int
      BY <1>3 DEF x, y, z
    <3> QED
      BY <3>1
  <2>2. /\ x >= y => x > y \/ x = y
        /\ x >= z => x > z \/ x = z
        /\ y >= z => y > z \/ y = z
    <3> HIDE DEF x, y, z
    <3>1. x \in Int /\ y \in Int /\ z \in Int
      BY <1>3 DEF x, y, z
    <3> QED
      BY <3>1
  <2> QED
    BY <1>2, <2>1, <2>2
<1> HIDE DEF ahead
<1>6. \A s \in O : s = i \/ s = p \/ s = r
  BY DEF Changes
<1>7. \E s \in O : \A t \in O \ {s} : ahead(s, t)
  BY <1>4, <1>5, <1>6, Zenon
<1> QED
  BY <1>7 DEF ahead

Safe(vs) == {s \in DOMAIN vs : vs[s].passed}
Open(vs) ==
  Safe(vs) \ (IF "trace_reflective" \in Safe(vs) /\ ~SynthesisCanBeatRevision(vs, Safe(vs))
              THEN {"pareto_compact"} ELSE {})

\* The winner is one of the safe variants, and it ranks before every other that is not
\* barred.
LEMMA WinnerChosen ==
  ASSUME NEW vs, Contested(vs), NEW w, w = ChooseWinner(vs)
  PROVE  /\ w \in Open(vs) /\ w \in Changes /\ vs[w].passed
         /\ \A t \in Open(vs) \ {w} : \/ vs[w].scores["composite"] > vs[t].scores["composite"]
                                      \/ vs[w].scores["composite"] = vs[t].scores["composite"] /\ Prior(w, t)
<1> DEFINE safe == Safe(vs)
           open == Open(vs)
           f == [s \in DOMAIN vs |-> vs[s].scores["composite"]]
<1>12. /\ DOMAIN vs = Changes \cup {"aggressive_auto_publish"}
       /\ \A s \in DOMAIN vs : Contender(vs[s])
       /\ vs["pareto_compact"].passed /\ ~vs["aggressive_auto_publish"].passed
  BY DEF Contested
<1>1. safe \subseteq Changes /\ "pareto_compact" \in safe
  BY <1>12 DEF Safe, Changes
<1>2. open \subseteq safe /\ open # {}
  BY <1>1 DEF Open
<1>3. w = CHOOSE s \in open : \A t \in open \ {s} : RanksBefore(vs, s, t)
  <2> DEFINE barred == IF "trace_reflective" \in safe /\ ~SynthesisCanBeatRevision(vs, safe)
                       THEN {"pareto_compact"} ELSE {}
  <2>1. safe # {} /\ safe \ barred # {} /\ open = safe \ barred
    BY <1>1, <1>2 DEF Open
  <2>2. {s \in DOMAIN vs : vs[s].passed} = safe
    BY DEF Safe
  <2> HIDE DEF safe, open
  <2> QED
    BY <2>1, <2>2 DEF ChooseWinner
<1>4. \A s \in Changes : f[s] \in Int
  <2> SUFFICES ASSUME NEW s \in Changes PROVE f[s] \in Int
    OBVIOUS
  <2>1. s \in DOMAIN vs
    BY <1>12
  <2>2. vs[s].scores["composite"] \in Unit
    BY <1>12, <2>1 DEF Contender, Keys
  <2>3. f[s] = vs[s].scores["composite"] /\ Unit \subseteq Int
    BY <2>1 DEF Unit
  <2> HIDE DEF f
  <2> QED
    BY <2>2, <2>3
<1>5. \E s \in open : \A t \in open \ {s} : f[s] > f[t] \/ (f[s] = f[t] /\ Prior(s, t))
  <2> HIDE DEF open, f, safe
  <2>1. open \in SUBSET Changes
    BY <1>1, <1>2
  <2> QED
    BY <1>2, <1>4, <2>1, FirstOfThree
<1>6. \A s, t \in open : RanksBefore(vs, s, t) <=> (f[s] > f[t] \/ (f[s] = f[t] /\ Prior(s, t)))
  <2> SUFFICES ASSUME NEW s \in open, NEW t \in open
               PROVE  RanksBefore(vs, s, t) <=> (f[s] > f[t] \/ (f[s] = f[t] /\ Prior(s, t)))
    OBVIOUS
  <2>1. s \in DOMAIN vs /\ t \in DOMAIN vs /\ vs[s].passed /\ vs[t].passed
    BY <1>2 DEF Safe
  <2>2. Contender(vs[s]) /\ Contender(vs[t])
    BY <1>12, <2>1
  <2>3. f[s] = vs[s].scores["composite"] /\ f[t] = vs[t].scores["composite"]
    BY <2>1
  <2> HIDE DEF open, safe, f
  <2> QED
    BY <2>1, <2>2, <2>3, SafeRanks
<1> HIDE DEF open, safe
<1>7. \E s \in open : \A t \in open \ {s} : RanksBefore(vs, s, t)
  <2> HIDE DEF f
  <2> QED
    BY <1>5, <1>6
<1>8. w \in open /\ \A t \in open \ {w} : RanksBefore(vs, w, t)
  <2> HIDE DEF f
  <2> QED
    BY <1>3, <1>7
<1>9. \A t \in open \ {w} : f[w] > f[t] \/ (f[w] = f[t] /\ Prior(w, t))
  <2> HIDE DEF f
  <2> QED
    BY <1>6, <1>8
<1>10. \A t \in open : t \in DOMAIN vs /\ vs[t].passed /\ t \in Changes
  BY <1>1, <1>2 DEF safe, Safe
<1>11. \A t \in open : f[t] = vs[t].scores["composite"]
  BY <1>10
<1> HIDE DEF f
<1> QED
  BY <1>8, <1>9, <1>10, <1>11 DEF open

LEMMA TournamentParts ==
  ASSUME NEW c, NEW t, t = BuildTournament(c), NEW vs, vs = Scored(c), NEW w, w = ChooseWinner(vs)
  PROVE  /\ t.variants = vs /\ t.winner = w /\ t.losers = DOMAIN vs \ {w}
         /\ t.canBeat = SynthesisCanBeatRevision(vs, DOMAIN vs)
         /\ \A s \in t.losers : t.class[s] = LoserClass(vs[w], vs[s]) /\ t.failure[s] = FailureType(vs[w], vs[s])
         /\ t.gaming = MetricGamingScore(vs, w)
<1> DEFINE losers == DOMAIN vs \ {w}
           class == [s \in losers |-> LoserClass(vs[w], vs[s])]
           failure == [s \in losers |-> FailureType(vs[w], vs[s])]
           none == If(w = "baseline", 1)
           beat == SynthesisCanBeatRevision(vs, DOMAIN vs)
           drift == ScopeDriftScore(vs, w)
           gaming == MetricGamingScore(vs, w)
<1>1. t = [candidate |-> c, variants |-> vs, winner |-> w, losers |-> losers, class |-> class,
           failure |-> failure, noChange |-> none, canBeat |-> beat, drift |-> drift, gaming |-> gaming]
  BY Zenon DEF BuildTournament
<1> HIDE DEF none, beat, drift, gaming, class, failure, losers
<1>2. /\ t.variants = vs /\ t.winner = w /\ t.losers = losers /\ t.canBeat = beat
      /\ t.class = class /\ t.failure = failure /\ t.gaming = gaming
  BY <1>1
<1>3. \A s \in losers : class[s] = LoserClass(vs[w], vs[s]) /\ failure[s] = FailureType(vs[w], vs[s])
  BY DEF class, failure
<1> QED
  BY <1>2, <1>3 DEF losers, beat, gaming

\* The scoring, the choice of the winner and the classes of losers never build a tournament
\* that the gate's validation refuses.
LEMMA GateAccepts == TournamentIInv => GateAcceptsWhatItBuilds
<1> SUFFICES ASSUME TournamentIInv PROVE GateAcceptsWhatItBuilds
  OBVIOUS
<1> DEFINE t == s2
           vs == Scored(s1)
           w == ChooseWinner(vs)
<1>1. Drawn(s1) /\ t = BuildTournament(s1)
  BY DEF TournamentIInv
<1>2. /\ t.variants = vs /\ t.winner = w /\ t.losers = DOMAIN vs \ {w}
      /\ t.canBeat = SynthesisCanBeatRevision(vs, DOMAIN vs)
      /\ \A s \in t.losers : t.class[s] = LoserClass(vs[w], vs[s]) /\ t.failure[s] = FailureType(vs[w], vs[s])
  BY <1>1, TournamentParts
<1>3. /\ DOMAIN vs = Changes \cup {"aggressive_auto_publish"}
      /\ \A s \in DOMAIN vs : Contender(vs[s])
      /\ vs["pareto_compact"].passed /\ ~vs["aggressive_auto_publish"].passed
      /\ vs["pareto_compact"].footprint.restraint <= vs["trace_reflective"].footprint.restraint
      /\ vs["trace_reflective"].scores["holdout"] = 1000
  BY <1>1, Contest DEF Contested
<1>10. Contested(vs)
  BY <1>1, Contest
<1> HIDE DEF vs
<1>9. w = ChooseWinner(vs)
  OBVIOUS
<1> HIDE DEF w
<1>4. w \in Open(vs) /\ w \in Changes /\ vs[w].passed
  BY <1>9, <1>10, WinnerChosen
<1>5. w = "pareto_compact" => t.canBeat
  <2> SUFFICES ASSUME w = "pareto_compact" PROVE SynthesisCanBeatRevision(vs, DOMAIN vs)
    BY <1>2
  <2> DEFINE p == vs["pareto_compact"]
             r == vs["trace_reflective"]
  <2>1. {"trace_reflective", "pareto_compact"} \subseteq DOMAIN vs
    BY <1>3 DEF Changes
  <2>2. CASE "trace_reflective" \in Safe(vs)
    <3>1. SynthesisCanBeatRevision(vs, Safe(vs))
      BY <1>4, <2>2 DEF Open
    <3> QED
      BY <2>1, <3>1, Zenon DEF SynthesisCanBeatRevision
  <2>3. CASE "trace_reflective" \notin Safe(vs)
    <3>1. ~r.passed /\ p.passed /\ Contender(r) /\ Contender(p)
      BY <1>3, <2>1, <2>3 DEF Safe
    <3>2. /\ p.scores["composite"] \in Unit /\ r.scores["composite"] \in Unit
          /\ p.scores["safety"] = 1000 /\ p.scores["holdout"] = 1000 /\ p.scores["regression"] = 1000
          /\ r.scores["safety"] \in Unit /\ r.scores["regression"] \in Unit
          /\ p.scores["composite"] >= 760 /\ r.scores["composite"] <= 570
      BY <3>1 DEF Contender, Keys
    <3> DEFINE x == p.scores["composite"]
               y == r.scores["composite"]
               a == r.scores["safety"]
               b == r.scores["regression"]
    <3>3. 100 * x >= 97 * y
      <4>1. x \in Unit /\ y \in Unit /\ x >= 760 /\ y <= 570
        BY <3>2
      <4> HIDE DEF x, y
      <4>2. x \in Int /\ y \in Int
        BY <4>1, UnitScores
      <4> QED
        BY <4>1, <4>2
    <3>4. 1000 >= a /\ 1000 >= b /\ 1000 >= 1000
      <4>1. a \in Unit /\ b \in Unit
        BY <3>2
      <4> HIDE DEF a, b
      <4> QED
        BY <4>1 DEF Unit
    <3>5. \A key \in {"safety", "holdout", "regression"} : p.scores[key] >= r.scores[key]
      BY <1>3, <3>2, <3>4
    <3> QED
      BY <1>3, <2>1, <3>3, <3>5, Zenon DEF SynthesisCanBeatRevision
  <2> QED
    BY <2>2, <2>3
<1>6. \A s \in DOMAIN vs : vs[s].scores["composite"] \in Unit /\ \A key \in DOMAIN vs[s].scores : vs[s].scores[key] \in 0..1000
  <2> DEFINE unit == 0..1000
  <2>1. unit = Unit
    BY DEF Unit
  <2> HIDE DEF unit
  <2> SUFFICES ASSUME NEW s \in DOMAIN vs
               PROVE  vs[s].scores["composite"] \in Unit /\ \A key \in DOMAIN vs[s].scores : vs[s].scores[key] \in unit
    BY DEF unit
  <2>2. Contender(vs[s])
    BY <1>3
  <2> QED
    BY <2>1, <2>2, Zenon DEF Contender, Keys
<1>7. ASSUME NEW s \in t.losers
      PROVE  /\ ~vs[s].passed => t.class[s] = "unsafe"
             /\ t.class[s] = "unsafe" => t.failure[s] = "safety_boundary"
             /\ t.class[s] # "unsafe" => CandidatePoolEffect(t.class[s]) # "strong_suppression"
  <2> DEFINE class == LoserClass(vs[w], vs[s])
             failure == FailureType(vs[w], vs[s])
  <2>1. t.class[s] = class /\ t.failure[s] = failure
    BY <1>2
  <2>2. /\ class \in {"unsafe", "promising", "weak"}
        /\ class = "unsafe" <=> (~vs[s].passed \/ vs[s].blocked > 0)
    BY DEF LoserClass
  <2>3. (~vs[s].passed \/ vs[s].blocked > 0) => failure = "safety_boundary"
    BY DEF FailureType
  <2> HIDE DEF class, failure
  <2>4. class # "unsafe" => CandidatePoolEffect(class) # "strong_suppression"
    BY <2>2 DEF CandidatePoolEffect
  <2> QED
    BY <2>1, <2>2, <2>3, <2>4
<1>8. TournamentViolations(t) = {}
  <2>1. /\ ~(t.winner = "pareto_compact" /\ ~t.canBeat)
        /\ t.variants[t.winner].passed
        /\ ~(\A s \in DOMAIN t.variants : t.variants[s].passed)
        /\ ~(\E s \in t.losers : ~t.variants[s].passed /\ t.class[s] # "unsafe")
        /\ ~(\E s \in t.losers : t.class[s] # "unsafe" /\ CandidatePoolEffect(t.class[s]) = "strong_suppression")
        /\ ~(\E s \in t.losers : t.class[s] = "unsafe" /\ t.failure[s] # "safety_boundary")
    BY <1>2, <1>3, <1>4, <1>5, <1>7
  <2> QED
    BY <2>1, Zenon DEF TournamentViolations
<1> QED
  BY <1>2, <1>6, <1>8 DEF GateAcceptsWhatItBuilds, tournament

-----------------------------------------------------------------------------
(* The orders of the Hermes adapter.  The log only grows, so that a report *)
(* is about a prefix of it, and both hooks around a call have one cluster. *)

Logged(e) == [e EXCEPT !.query = "none", !.humanReview = FALSE, !.origin = "none", !.evidence = {}]
Line == {HO!Torn} \cup HookEvents \cup {Logged(e) : e \in HookEvents}

OrdersIInv ==
  /\ s1 \in HookSources /\ s2 \in Seq(Line)
  /\ s4 \subseteq {HO!PluginFiles[i] : i \in DOMAIN HO!PluginFiles}
  /\ s5 \in {HO!Idle, HO!PluginFiles, Tail(HO!PluginFiles), Tail(Tail(HO!PluginFiles)), <<>>}
  /\ s7 = HO!NoReport \/ \E n \in 0..Len(s2) : s7 = HO!ReadHermesRuntimeEventLog(SubSeq(s2, 1, n))

LEMMA OrdersInit == HO!Init => OrdersIInv
<1> SUFFICES ASSUME HO!Init PROVE OrdersIInv
  OBVIOUS
<1>1. s1 \in HookSources /\ s2 = <<>> /\ s5 = HO!Idle /\ s7 = HO!NoReport
  BY DEF HO!Init
<1>2. s4 \subseteq {HO!PluginFiles[i] : i \in DOMAIN HO!PluginFiles}
  BY DEF HO!Init
<1> QED
  BY <1>1, <1>2 DEF OrdersIInv

\* What a report says of a prefix stays so when the log grows.
LEMMA LogGrows ==
  ASSUME OrdersIInv, NEW more \in Seq(Line), s2' = s2 \o more, s7' = s7
  PROVE  /\ s2' \in Seq(Line)
         /\ s7' = HO!NoReport \/ \E n \in 0..Len(s2') : s7' = HO!ReadHermesRuntimeEventLog(SubSeq(s2', 1, n))
<1>1. s2 \in Seq(Line) /\ s2' \in Seq(Line) /\ Len(s2) \in Nat /\ Len(s2) <= Len(s2')
  BY DEF OrdersIInv
<1>2. ASSUME NEW n \in 0..Len(s2) PROVE n \in 0..Len(s2') /\ SubSeq(s2', 1, n) = SubSeq(s2, 1, n)
  <2>1. n \in Nat /\ n <= Len(s2) /\ n <= Len(s2')
    BY <1>1, <1>2
  <2>2. \A i \in 1..n : s2'[i] = s2[i]
    BY <1>1, <2>1
  <2>3. SubSeq(s2', 1, n) \in Seq(Line) /\ SubSeq(s2, 1, n) \in Seq(Line)
    BY <1>1, <2>1
  <2>4. Len(SubSeq(s2', 1, n)) = n /\ Len(SubSeq(s2, 1, n)) = n
    BY <1>1, <2>1
  <2>5. \A i \in 1..n : SubSeq(s2', 1, n)[i] = s2'[i] /\ SubSeq(s2, 1, n)[i] = s2[i]
    BY <1>1, <2>1
  <2> QED
    BY <2>1, <2>2, <2>3, <2>4, <2>5
<1> QED
  BY <1>1, <1>2 DEF OrdersIInv

LEMMA OrdersStep == ASSUME OrdersIInv, HO!Next PROVE OrdersIInv'
<1>1. ASSUME NEW e \in HookEvents, NEW n \in HookBursts, HO!Emit(e, n) PROVE OrdersIInv'
  <2>1. s1' = s1 /\ s4' = s4 /\ s5' = s5 /\ s7' = s7
    BY <1>1 DEF HO!Emit
  <2>2. n \in Nat \ {0}
    BY DeckAssumption
  <2>3. HO!Recorded(e) \in Line
    <3>1. HO!Recorded(e) = e \/ HO!Recorded(e) = Logged(e)
      BY Zenon DEF HO!Recorded, Logged
    <3> QED
      BY <3>1 DEF Line
  <2>4. \A k \in Nat : [i \in 1..k |-> HO!Recorded(e)] \in Seq(Line)
    BY <2>3
  <2>5. PICK k \in {n, n - 1} : s2' = s2 \o [i \in 1..k |-> HO!Recorded(e)]
    BY <1>1 DEF HO!Emit
  <2>6. k \in Nat
    BY <2>2
  <2> QED
    BY <2>1, <2>4, <2>5, <2>6, LogGrows DEF OrdersIInv
<1>2. ASSUME HO!TearLine PROVE OrdersIInv'
  <2>1. s1' = s1 /\ s4' = s4 /\ s5' = s5 /\ s7' = s7 /\ s2' = Append(s2, HO!Torn)
    BY <1>2 DEF HO!TearLine
  <2>2. s2 \in Seq(Line) /\ HO!Torn \in Line
    BY DEF OrdersIInv, Line
  <2>3. s2' = s2 \o <<HO!Torn>> /\ <<HO!Torn>> \in Seq(Line)
    BY <2>1, <2>2
  <2> QED
    BY <2>1, <2>3, LogGrows DEF OrdersIInv
<1>3. ASSUME HO!RunHermesRuntimeAdapter PROVE OrdersIInv'
  <2>1. s1' = s1 /\ s2' = s2 /\ s4' = s4 /\ s5' = s5 /\ s7' = HO!ReadHermesRuntimeEventLog(s2)
    BY <1>3 DEF HO!RunHermesRuntimeAdapter
  <2>2. Len(s2) \in 0..Len(s2) /\ SubSeq(s2, 1, Len(s2)) = s2
    BY DEF OrdersIInv
  <2>3. s7' = HO!ReadHermesRuntimeEventLog(SubSeq(s2', 1, Len(s2)))
    BY <2>1, <2>2
  <2> QED
    BY <2>1, <2>2, <2>3 DEF OrdersIInv
<1>4. ASSUME HO!RunHermesRuntimePluginDoctor PROVE OrdersIInv'
  BY <1>4 DEF HO!RunHermesRuntimePluginDoctor, OrdersIInv
<1>5. ASSUME HO!StartInstall PROVE OrdersIInv'
  BY <1>5 DEF HO!StartInstall, OrdersIInv
<1>6. ASSUME HO!CopyFile PROVE OrdersIInv'
  <2>1. /\ s1' = s1 /\ s2' = s2 /\ s7' = s7 /\ s5' = Tail(s5) /\ s4' = s4 \cup {s5[1]}
        /\ s5 # HO!Idle /\ s5 # <<>>
    BY <1>6 DEF HO!CopyFile
  <2>2. s5 \in {HO!PluginFiles, Tail(HO!PluginFiles), Tail(Tail(HO!PluginFiles))}
    BY <2>1 DEF OrdersIInv
  <2>3. /\ HO!PluginFiles = <<"plugin.yaml", "__init__.py", "README.md">>
        /\ Tail(HO!PluginFiles) = <<"__init__.py", "README.md">>
        /\ Tail(Tail(HO!PluginFiles)) = <<"README.md">> /\ Tail(Tail(Tail(HO!PluginFiles))) = <<>>
    BY DEF HO!PluginFiles
  <2>4. s5[1] \in {"plugin.yaml", "__init__.py", "README.md"}
    BY <2>2, <2>3
  <2>5. {HO!PluginFiles[i] : i \in DOMAIN HO!PluginFiles} = {"plugin.yaml", "__init__.py", "README.md"}
    BY DEF HO!PluginFiles
  <2>6. s4' \subseteq {HO!PluginFiles[i] : i \in DOMAIN HO!PluginFiles}
    BY <2>1, <2>4, <2>5 DEF OrdersIInv
  <2>7. s5' \in {Tail(HO!PluginFiles), Tail(Tail(HO!PluginFiles)), <<>>}
    BY <2>1, <2>2, <2>3
  <2> QED
    BY <2>1, <2>6, <2>7 DEF OrdersIInv
<1>7. ASSUME HO!FinishInstall PROVE OrdersIInv'
  BY <1>7 DEF HO!FinishInstall, OrdersIInv
<1>8. ASSUME HO!CopyFails PROVE OrdersIInv'
  BY <1>8 DEF HO!CopyFails, OrdersIInv
<1> QED
  BY <1>1, <1>2, <1>3, <1>4, <1>5, <1>6, <1>7, <1>8 DEF HO!Next

LEMMA OrdersCardinality == \A set : HO!Cardinality(set) = Cardinality(set)
BY DEF HO!Cardinality, Cardinality

LEMMA FirstLine == ASSUME NEW set \in SUBSET Nat, set # {} PROVE HO!MinOf(set) \in set
<1> DEFINE less == OpToRel(<, Nat)
<1>0. \A x, y \in Nat : y < x => <<y, x>> \in less
  BY Zenon DEF OpToRel
<1>a. IsWellFoundedOn(less, Nat)
  BY NatLessThanWellFounded, Zenon
<1> HIDE DEF less
<1>1. PICK x \in set : \A y \in set : <<y, x>> \notin less
  BY <1>a, WFMin
<1>2. \A y \in set : x <= y
  <2> TAKE y \in set
  <2>1. ~(y < x)
    BY <1>0, <1>1
  <2> QED
    BY <2>1
<1> QED
  BY <1>2 DEF HO!MinOf

LEMMA LineFacts ==
  ASSUME NEW x \in Line
  PROVE  /\ x = HO!Torn \/ x.kind \in {"runtime", "model_io_tap"}
         /\ x.kind = "runtime" /\ x.tool # "none" => x.hook \in {"pre_tool_call", "post_tool_call"}
<1>1. HO!Torn.kind = "torn"
  BY DEF HO!Torn
<1>2. ASSUME NEW e \in HookEvents
      PROVE  /\ e.kind \in {"runtime", "model_io_tap"}
             /\ e.kind = "runtime" /\ e.tool # "none" => e.hook \in {"pre_tool_call", "post_tool_call"}
  BY DeckAssumption DEF Hooked
<1>3. ASSUME NEW e \in HookEvents,
             x = Logged(e)
      PROVE  x.kind = e.kind /\ x.tool = e.tool /\ x.hook = e.hook
  BY <1>3 DEF Logged
<1> QED
  BY <1>1, <1>2, <1>3 DEF Line

\* What the report was built from.
LEMMA Reported ==
  ASSUME OrdersIInv
  PROVE  /\ s7.seen \in 0..Len(s2)
         /\ SubSeq(s2, 1, s7.seen) \in Seq(Line)
         /\ \/ (s7.status \in {"none", "failed"} /\ s7.orders = {})
            \/ s7 = HO!BuildHermesRuntimeAdapterReport(SubSeq(s2, 1, s7.seen))
<1>0. s2 \in Seq(Line) /\ Len(s2) \in Nat
  BY DEF OrdersIInv
<1>1. /\ HO!NoReport.seen = 0 /\ HO!NoReport.status = "none" /\ HO!NoReport.orders = {}
  BY DEF HO!NoReport
<1>2. ASSUME s7 = HO!NoReport
      PROVE  s7.seen \in 0..Len(s2) /\ s7.status \in {"none", "failed"} /\ s7.orders = {}
  BY <1>0, <1>1, <1>2
<1>3. ASSUME NEW n \in 0..Len(s2), s7 = HO!ReadHermesRuntimeEventLog(SubSeq(s2, 1, n))
      PROVE  /\ s7.seen = n
             /\ \/ (s7.status \in {"none", "failed"} /\ s7.orders = {})
                \/ s7 = HO!BuildHermesRuntimeAdapterReport(SubSeq(s2, 1, n))
  <2> DEFINE all == SubSeq(s2, 1, n)
  <2>1. HO!Len(all) = n
    BY <1>0, <1>3
  <2>2. HO!BuildHermesRuntimeAdapterReport(all).seen = HO!Len(all)
    BY DEF HO!BuildHermesRuntimeAdapterReport
  <2>3. LET failed == [HO!NoReport EXCEPT !.status = "failed", !.seen = HO!Len(all)] IN
        failed.seen = HO!Len(all) /\ failed.status = "failed" /\ failed.orders = {}
    <3> DEFINE long == HO!Len(all)
    <3> HIDE DEF all, long
    <3>1. LET failed == [HO!NoReport EXCEPT !.status = "failed", !.seen = long] IN
          failed.seen = long /\ failed.status = "failed" /\ failed.orders = {}
      BY DEF HO!NoReport
    <3> QED
      BY <3>1 DEF long
  <2>4. \/ s7 = [HO!NoReport EXCEPT !.status = "failed", !.seen = HO!Len(all)]
        \/ s7 = HO!BuildHermesRuntimeAdapterReport(all)
    BY <1>3, Zenon DEF HO!ReadHermesRuntimeEventLog
  <2> HIDE DEF all
  <2>5. s7.seen = n
    BY <2>1, <2>2, <2>3, <2>4
  <2>6. (s7.status \in {"none", "failed"} /\ s7.orders = {}) \/ s7 = HO!BuildHermesRuntimeAdapterReport(all)
    BY <2>3, <2>4
  <2> QED
    BY <2>5, <2>6 DEF all
<1>4. s7.seen \in 0..Len(s2)
  BY <1>2, <1>3 DEF OrdersIInv
<1>5. SubSeq(s2, 1, s7.seen) \in Seq(Line)
  BY <1>0, <1>4
<1> QED
  BY <1>2, <1>3, <1>4, <1>5 DEF OrdersIInv

\* The runtime events among the lines seen.
LEMMA SeenLines ==
  ASSUME OrdersIInv
  PROVE  /\ DOMAIN HO!Seen \subseteq Nat /\ IsFiniteSet(DOMAIN HO!Seen)
         /\ \A i \in DOMAIN HO!Seen : HO!Seen[i] \in Line /\ HO!Seen[i].kind = "runtime"
<1> DEFINE all == SubSeq(s2, 1, s7.seen)
<1>1. all \in Seq(Line)
  BY Reported
<1>2. HO!Seen = [i \in {j \in DOMAIN all : all[j].kind = "runtime"} |-> all[i]]
  BY DEF HO!Seen, HO!Lines
<1> HIDE DEF all
<1>3. DOMAIN all = 1..Len(all) /\ Len(all) \in Nat /\ \A i \in DOMAIN all : all[i] \in Line
  BY <1>1
<1>4. IsFiniteSet(DOMAIN all) /\ DOMAIN all \subseteq Nat
  BY <1>3, FS_Interval
<1>5. DOMAIN HO!Seen \subseteq DOMAIN all
  BY <1>2
<1>6. IsFiniteSet(DOMAIN HO!Seen)
  BY <1>4, <1>5, FS_Subset
<1> QED
  BY <1>2, <1>3, <1>4, <1>5, <1>6

LEMMA OrdersOf ==
  ASSUME OrdersIInv, s7 = HO!BuildHermesRuntimeAdapterReport(SubSeq(s2, 1, s7.seen))
  PROVE  LET log == HO!Seen
             taps == HO!Lines(SubSeq(s2, 1, s7.seen), "model_io_tap") IN
         /\ s7.status = "done"
         /\ s7.orders = {i \in HO!Candidates(log) : HO!GoesToWorkOrder(log, i)}
         /\ s7.observed = HO!Cardinality(HO!Candidates(log) \ s7.orders) + HO!MonitorRecords(log, taps)
         /\ s7.verdict = HO!MeasurementQualityGate(log, taps)
<1> DEFINE all == SubSeq(s2, 1, s7.seen)
<1>1. HO!Seen = HO!Lines(all, "runtime")
  BY DEF HO!Seen
<1>2. s7 = HO!BuildHermesRuntimeAdapterReport(all)
  OBVIOUS
<1> HIDE DEF all
<1>3. ASSUME NEW r, r = HO!BuildHermesRuntimeAdapterReport(all)
      PROVE  LET log == HO!Lines(all, "runtime")
                 taps == HO!Lines(all, "model_io_tap") IN
             /\ r.status = "done"
             /\ r.orders = {i \in HO!Candidates(log) : HO!GoesToWorkOrder(log, i)}
             /\ r.observed = HO!Cardinality(HO!Candidates(log) \ r.orders) + HO!MonitorRecords(log, taps)
             /\ r.verdict = HO!MeasurementQualityGate(log, taps)
  BY <1>3 DEF HO!BuildHermesRuntimeAdapterReport
<1> QED
  BY <1>1, <1>2, <1>3 DEF all

\* Only a tool call is an anomaly, so that the hooks before and after it have one cluster,
\* and the order is its representative.
LEMMA OrderedByRule ==
  ASSUME OrdersIInv, NEW i \in HO!RuntimeOrders(HO!Seen)
  PROVE  /\ i \in HO!Candidates(HO!Seen)
         /\ HO!Seen[i].hook \in {"pre_tool_call", "post_tool_call"}
         /\ i = HO!Representative(HO!Seen, HO!Cluster(HO!Seen, i))
         /\ HO!Seen[i].tool # "none"
<1> DEFINE log == HO!Seen
           e == log[i]
<1>1. i \in s7.orders /\ ~HO!Explicit(e)
  BY DEF HO!RuntimeOrders
<1>2. i \in HO!Candidates(log) /\ HO!GoesToWorkOrder(log, i)
  <2>1. s7 = HO!BuildHermesRuntimeAdapterReport(SubSeq(s2, 1, s7.seen))
    BY <1>1, Reported
  <2> QED
    BY <1>1, <2>1, OrdersOf
<1>3. HO!AnomalyRules(log, i) # {} /\ i = HO!Representative(log, HO!Cluster(log, i))
  BY <1>1, <1>2 DEF HO!GoesToWorkOrder
<1>4. e.tool \in {"memory", "skill_manage"}
  <2> DEFINE count == HO!Cardinality(HO!Cluster(log, i))
             skill(actions) == e.tool = "skill_manage" /\ HO!ActionFor(e) \in actions
             written == HO!MemoryWrite(e)
             created == skill({"create"}) /\ HO!Burst(count)
             patched == skill({"patch", "write_file"}) /\ HO!Burst(count)
             sensitive == skill({"write_file"}) /\ e.sensitive
             repeated == skill({"create"}) /\ HO!CaptureHasFailure(log)
             failing == e.hook = "post_tool_call" /\ e.tool = "skill_manage" /\ HO!ToolFailure(e)
             rules ==
               { <<"memory_write_boundary_pressure", written>>, <<"skill_manage_create_burst", created>>,
                 <<"persistent_skill_mutation_pressure", patched>>, <<"write_file_sensitive_path", sensitive>>,
                 <<"repeated_failure_then_skill_create", repeated>>,
                 <<"post_tool_call_failure_after_skill_manage", failing>> }
  <2>1. HO!AnomalyRules(log, i) = {rule[1] : rule \in {rule \in rules : ~HO!Explicit(e) /\ rule[2]}}
    BY Zenon DEF HO!AnomalyRules, HO!AnomalyRuleIdsFor
  <2>2. /\ written => e.tool = "memory"
        /\ created \/ patched \/ sensitive \/ repeated \/ failing => e.tool = "skill_manage"
    <3> HIDE DEF e, log, count
    <3> QED
      BY DEF HO!MemoryWrite
  <2> HIDE DEF written, created, patched, sensitive, repeated, failing
  <2>3. ASSUME NEW rule \in rules, rule[2]
        PROVE  written \/ created \/ patched \/ sensitive \/ repeated \/ failing
    <3>1. \E x : \/ rule = <<x, written>> \/ rule = <<x, created>> \/ rule = <<x, patched>>
                 \/ rule = <<x, sensitive>> \/ rule = <<x, repeated>> \/ rule = <<x, failing>>
      OBVIOUS
    <3>2. rule[2] \in {written, created, patched, sensitive, repeated, failing}
      BY <3>1
    <3> HIDE DEF rules
    <3> QED
      BY <2>3, <3>2, Zenon
  <2> HIDE DEF rules
  <2> QED
    BY <1>3, <2>1, <2>2, <2>3
<1>5. i \in DOMAIN log
  BY <1>2 DEF HO!Candidates
<1>6. e \in Line /\ e.kind = "runtime"
  BY <1>5, SeenLines
<1> HIDE DEF e, log
<1>7. e.hook \in {"pre_tool_call", "post_tool_call"}
  BY <1>4, <1>6, LineFacts
<1> QED
  BY <1>2, <1>3, <1>4, <1>7 DEF e, log

LEMMA OneOrder == OrdersIInv => HO!OneOrderPerAction
<1> DEFINE log == HO!Seen
<1> SUFFICES ASSUME OrdersIInv, NEW i \in HO!RuntimeOrders(log), NEW j \in HO!RuntimeOrders(log),
                    HO!Fingerprint(log[i]) = HO!Fingerprint(log[j]),
                    HO!CandidateTypeFor(log[i]) = HO!CandidateTypeFor(log[j])
             PROVE  i = j
  BY DEF HO!OneOrderPerAction
<1>1. HO!HookFamilyFor(log[i]) = "tool_call" /\ HO!HookFamilyFor(log[j]) = "tool_call"
  BY OrderedByRule DEF HO!HookFamilyFor
<1> HIDE DEF log
<1>2. HO!ClusterKey(log[i]) = HO!ClusterKey(log[j])
  BY <1>1 DEF HO!ClusterKey
<1>3. HO!Cluster(log, i) = HO!Cluster(log, j)
  BY <1>2 DEF HO!Cluster
<1>4. i = HO!Representative(log, HO!Cluster(log, i)) /\ j = HO!Representative(log, HO!Cluster(log, j))
  BY OrderedByRule DEF log
<1> QED
  BY <1>3, <1>4

LEMMA ResultPreferred == OrdersIInv => HO!ResultIsPreferred
<1> DEFINE log == HO!Seen
<1> SUFFICES ASSUME OrdersIInv, NEW i \in HO!RuntimeOrders(log), log[i].hook = "pre_tool_call",
                    NEW j \in HO!Candidates(log), log[j].hook = "post_tool_call",
                    HO!Fingerprint(log[j]) = HO!Fingerprint(log[i]),
                    HO!CandidateTypeFor(log[j]) = HO!CandidateTypeFor(log[i])
             PROVE  FALSE
  BY DEF HO!ResultIsPreferred
<1> DEFINE cluster == HO!Cluster(log, i)
           posts == {l \in cluster : log[l].hook = "post_tool_call"}
<1>1. HO!HookFamilyFor(log[i]) = "tool_call" /\ HO!HookFamilyFor(log[j]) = "tool_call"
  BY DEF HO!HookFamilyFor
<1>2. j \in posts
  <2> HIDE DEF log
  <2>1. HO!ClusterKey(log[j]) = HO!ClusterKey(log[i])
    BY <1>1 DEF HO!ClusterKey
  <2> QED
    BY <2>1 DEF HO!Cluster
<1>3. posts \in SUBSET Nat
  BY SeenLines DEF HO!Cluster, HO!Candidates
<1>4. i = HO!Representative(log, cluster)
  BY OrderedByRule
<1>5. HO!Representative(log, cluster) = HO!MinOf(posts)
  <2> HIDE DEF cluster, log
  <2> QED
    BY <1>2 DEF HO!Representative
<1>6. HO!MinOf(posts) \in posts
  <2> HIDE DEF posts
  <2> QED
    BY <1>2, <1>3, FirstLine
<1>7. log[i].hook = "post_tool_call"
  BY <1>4, <1>5, <1>6
<1> QED
  BY <1>7

LEMMA OrdersTyped == OrdersIInv => HO!TypeOK
<1> SUFFICES ASSUME OrdersIInv PROVE HO!TypeOK
  OBVIOUS
<1>1. s1 \in {"log", "fixture"}
  BY DeckAssumption DEF OrdersIInv
<1>2. \A i \in DOMAIN s2 : s2[i] = HO!Torn \/ s2[i].kind \in {"runtime", "model_io_tap"}
  <2>1. \A i \in DOMAIN s2 : s2[i] \in Line
    BY DEF OrdersIInv
  <2> QED
    BY <2>1, LineFacts
<1>3. s4 \subseteq {HO!PluginFiles[i] : i \in DOMAIN HO!PluginFiles}
  BY DEF OrdersIInv
<1> DEFINE log == HO!Seen
           taps == HO!Lines(SubSeq(s2, 1, s7.seen), "model_io_tap")
<1>4. s7.seen \in 0..Len(s2)
  BY Reported
<1>5. CASE s7.status \in {"none", "failed"} /\ s7.orders = {}
  <2>1. s7.orders \subseteq DOMAIN log /\ s7.status \in {"none", "done", "failed"} /\ s7.status # "done"
    BY <1>5
  <2> QED
    BY <1>1, <1>2, <1>3, <1>4, <2>1 DEF HO!TypeOK
<1>6. CASE s7 = HO!BuildHermesRuntimeAdapterReport(SubSeq(s2, 1, s7.seen))
  <2>1. /\ s7.status = "done"
        /\ s7.orders = {i \in HO!Candidates(log) : HO!GoesToWorkOrder(log, i)}
        /\ s7.observed = HO!Cardinality(HO!Candidates(log) \ s7.orders) + HO!MonitorRecords(log, taps)
        /\ s7.verdict = HO!MeasurementQualityGate(log, taps)
    BY <1>6, OrdersOf
  <2>2. s7.orders \subseteq HO!Candidates(log) /\ HO!Candidates(log) \subseteq DOMAIN log
    BY <2>1 DEF HO!Candidates
  <2>3. IsFiniteSet(HO!Candidates(log)) /\ IsFiniteSet(s7.orders)
    BY <2>2, SeenLines, FS_Subset
  <2> HIDE DEF log, taps
  <2>4. s7.verdict = "no_gate" => HO!MonitorRecords(log, taps) = 0
    <3> SUFFICES ASSUME s7.verdict = "no_gate" PROVE HO!MonitorRecords(log, taps) = 0
      OBVIOUS
    <3>1. HO!MeasurementGateVerdictFor(log, taps) # "no_gate"
      BY DEF HO!MeasurementGateVerdictFor
    <3>2. HO!ActionHistory(log) = {} /\ DOMAIN taps = {} /\ HO!MeasurementQualityGate(log, taps) = "no_gate"
      BY <2>1, <3>1 DEF HO!MeasurementQualityGate
    <3>3. HO!Cardinality(DOMAIN taps) = 0
      BY <3>2, OrdersCardinality, FS_EmptySet
    <3> QED
      BY <3>2, <3>3 DEF HO!MonitorRecords
  <2>5. s7.verdict = "no_gate" =>
          s7.observed + HO!Cardinality(s7.orders) = HO!Cardinality(HO!Candidates(log))
    <3> SUFFICES ASSUME s7.verdict = "no_gate"
                 PROVE  s7.observed + HO!Cardinality(s7.orders) = HO!Cardinality(HO!Candidates(log))
      OBVIOUS
    <3> DEFINE whole == HO!Candidates(log)
               taken == s7.orders
               rest == whole \ taken
               a == Cardinality(rest)
               b == Cardinality(taken)
    <3>1. IsFiniteSet(rest)
      BY <2>3, FS_Subset
    <3>2. rest \cup taken = whole /\ rest \cap taken = {}
      BY <2>2
    <3> HIDE DEF whole, taken, rest
    <3>3. a \in Nat /\ b \in Nat /\ Cardinality({}) = 0
      BY <2>3, <3>1, FS_CardinalityType, FS_EmptySet DEF taken
    <3>4. Cardinality(whole) = a + b - 0
      <4>1. IsFiniteSet(taken)
        BY <2>3 DEF taken
      <4>2. Cardinality(rest \cup taken) = Cardinality(rest) + Cardinality(taken) - Cardinality(rest \cap taken)
        BY <3>1, <4>1, FS_Union
      <4> QED
        BY <3>2, <3>3, <4>2
    <3>5. s7.observed = a + 0
      BY <2>1, <2>4, OrdersCardinality DEF rest, whole, taken
    <3>6. HO!Cardinality(whole) = Cardinality(whole) /\ HO!Cardinality(taken) = b
      BY OrdersCardinality
    <3> HIDE DEF a, b
    <3>7. (a + 0) + b = a + b - 0
      BY <3>3
    <3> QED
      BY <3>4, <3>5, <3>6, <3>7 DEF whole, taken
  <2>6. s7.orders \subseteq DOMAIN log /\ s7.status \in {"none", "done", "failed"}
    BY <2>1, <2>2
  <2> QED
    BY <1>1, <1>2, <1>3, <1>4, <2>5, <2>6 DEF HO!TypeOK, log
<1> QED
  BY <1>5, <1>6, Reported

LEMMA OrdersAgree == OrdersIInv => HO!TypeOK /\ HO!OneOrderPerAction /\ HO!ResultIsPreferred
BY OrdersTyped, OneOrder, ResultPreferred

=============================================================================
