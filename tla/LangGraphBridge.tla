--------------------------- MODULE LangGraphBridge ---------------------------
(***************************************************************************)
(* The contract between the governance and a LangGraph runtime             *)
(* (scripts/lib/langgraph-qianxuesen-bridge.mjs and its -contract.mjs):    *)
(* routed work orders are projected into interrupts, an effective decision *)
(* and a bill of materials (the BOM) of that decision; the evaluator       *)
(* checks a bridge that a runtime has carried, and may have changed.       *)
(*                                                                         *)
(* The orders come from the router or from the Hermes work orders, in one  *)
(* of the shapes the bridge reads: "routing" (the router's own), "compact" *)
(* (one order as the distillation mapper hands it out, without an owner    *)
(* report and without its source) and "summary" (the one of a fixture's    *)
(* summary, with its severity and executor).  The constant parts of a      *)
(* bridge (stages, hooks, field lists, the determinism contract, safety)   *)
(* are the set of clauses that hold of it.  Left out: titles, reasons,     *)
(* identifiers, texts of rules.                                            *)
(***************************************************************************)
EXTENDS Integers, FiniteSets

CONSTANTS
  Tickets,     \* repair tickets
  Reports,     \* operator reports
  Candidates,  \* Hermes candidates
  Callers,     \* routing policies
  MaxEdits     \* bound: the changes a runtime makes to one bridge

R == INSTANCE WorkOrderRouting
       WITH Texts <- {}, Policies <- {}, MaxReports <- 0,
            file <- {}, reports <- {}, routing <- {}, output <- "none"

VARIABLES
  routed,    \* [caller, tickets, reports, candidates]: what has been routed so far
  shape,     \* the shape in which the bridge gets it
  bridge,    \* the bridge: a set of at most one
  edits,     \* changes made to it since it was built
  verdict    \* what the evaluator said of it last: a set of at most one

vars == <<routed, shape, bridge, edits, verdict>>

-----------------------------------------------------------------------------
(* The orders, as the bridge reads them.                                   *)

RollbackRequired(o) ==
  \/ o.id[1] = "ticket" /\ o.severity = "P0"
  \/ o.id[1] = "hermes" /\ o.severity = "P1"

\* An order in a shape; what a shape does not carry has the bridge's default.
Projected(o, s) ==
  [id |-> o.id, severity |-> o.severity, executor |-> o.executor,
   confirm |-> IF s = "summary" THEN TRUE ELSE o.confirm,
   ownerReport |-> s = "routing" /\ o.ownerReport,
   rollback |-> RollbackRequired(o),
   cited |-> s # "summary" /\ o.refs > 0]

RoutedOrders(r) ==
  R!BuildWorkOrderRouting(r.tickets, r.reports, r.caller).orders
    \cup R!BuildHermesWorkOrderRouting(r.candidates, FALSE).orders

WorkOrders(r, s) == {Projected(o, s) : o \in RoutedOrders(r)}

-----------------------------------------------------------------------------
(* Interrupts.                                                             *)

DurableOrPublicEffect(o) == o.executor = "human_owner" \/ o.rollback

EffectBoundary(o) ==
  [requiresInterrupt |-> o.confirm \/ o.ownerReport \/ DurableOrPublicEffect(o),
   withoutHuman |-> FALSE]

InterruptFromWorkOrder(o) ==
  [id |-> o.id, durable |-> DurableOrPublicEffect(o), boundary |-> EffectBoundary(o),
   humanOwner |-> DurableOrPublicEffect(o),
   decisions |-> {"execute_locally", "hold", "escalate", "reject"}, recorded |-> TRUE]

\* No order of the router allows a durable or public effect.
Interrupts(o) == o.confirm \/ o.ownerReport \/ o.executor = "human_owner"

BuildInterruptQueue(orders) == {InterruptFromWorkOrder(o) : o \in {p \in orders : Interrupts(p)}}

EffectiveDecision(orders, queue) ==
  CASE queue # {} -> "require_interrupt"
    [] queue = {} /\ orders # {} -> "allow_bounded_local_work"
    [] OTHER -> "allow_readonly_projection"

AllowedOutcomes ==
  {"allow_readonly_projection", "allow_bounded_local_work", "require_interrupt", "deny"}

-----------------------------------------------------------------------------
(* The bridge and its BOM.                                                 *)

LayerClauses == {"control_layer", "carrier_layer"}
StageClauses == {"custom_nodes_deterministic", "hooks_not_overridable", "custom_node_stages",
                 "hook_stages", "hook_edges"}
GraphClauses == {"checkpointer", "state_inputs", "persist_fields", "interrupt_required",
                 "trigger_sources", "resume_requires", "llm_must_not", "llm_decides_nothing"}
SafetyClauses == {"no_live_effect"}
DeterminismClauses == {"claim_scope", "upstream_boundary", "distill", "route", "handoff"}
PolicyClauses == {"fail_closed", "rules"}
ClauseGroups == {LayerClauses, StageClauses, GraphClauses, SafetyClauses, DeterminismClauses, PolicyClauses}
Clauses == UNION ClauseGroups

\* The BOM: which required fields are present, the outcome and the boundary it states; its
\* integrity hash is what the hash was computed of.
BuildDecisionBom(orders, queue, decision, clauses) ==
  LET core == [missing |-> (IF "control_layer" \in clauses THEN {} ELSE {"control_owner"})
                           \cup (IF orders = {} \/ \E o \in orders : o.cited THEN {} ELSE {"evidence_source_refs"})
                           \cup (IF "rules" \in clauses THEN {} ELSE {"policy_rules_evaluated"}),
               outcome |-> decision,
               boundary |-> IF queue # {} THEN "interrupt_required" ELSE "no_interrupt_required"]
  IN  [core |-> core, hash |-> core]

DecisionViolations(b) ==
  (IF b.decision \in AllowedOutcomes THEN {} ELSE {"outcome_unknown"})
  \cup (IF b.queue # {} /\ b.decision # "require_interrupt" THEN {"interrupts_force_require_interrupt"} ELSE {})

InterruptViolations(b) ==
  (IF \A i \in b.queue : {"execute_locally", "hold", "escalate", "reject"} \subseteq i.decisions
   THEN {} ELSE {"resume_decisions"})
  \cup (IF \A i \in b.queue : i.recorded THEN {} ELSE {"resume_record"})
  \cup (IF \A i \in b.queue : i.boundary.requiresInterrupt /\ ~i.boundary.withoutHuman
        THEN {} ELSE {"effect_boundary"})

BomViolations(b) ==
  (IF b.bom.core.missing = {} THEN {} ELSE {"bom_incomplete"})
  \cup (IF b.bom.hash = b.bom.core THEN {} ELSE {"bom_hash"})
  \cup (IF b.bom.core.outcome = b.decision THEN {} ELSE {"bom_outcome"})

ViolationsForBridge(b) ==
  (Clauses \ b.clauses) \cup InterruptViolations(b) \cup DecisionViolations(b) \cup BomViolations(b)

BuildBridge(orders) ==
  LET queue == BuildInterruptQueue(orders)
      decision == EffectiveDecision(orders, queue)
  IN  [orders |-> orders, queue |-> queue, decision |-> decision, clauses |-> Clauses,
       bom |-> BuildDecisionBom(orders, queue, decision, Clauses)]

-----------------------------------------------------------------------------
(* The machine: orders are routed and bridged; a runtime carries the       *)
(* bridge, and whatever it changed is evaluated.                           *)

Bridged(r, s) == /\ routed' = r
                 /\ shape' = s
                 /\ bridge' = {BuildBridge(WorkOrders(r, s))}
                 /\ verdict' = {ViolationsForBridge(b) : b \in bridge'}
                 /\ edits' = 0

Init == /\ routed \in [caller : Callers, tickets : {{}}, reports : {{}}, candidates : {{}}]
        /\ shape = "routing"
        /\ bridge = {}
        /\ edits = 0
        /\ verdict = {}

\* A routing is the router's or the Hermes work orders', never both.
RouteTicket == /\ routed.candidates = {}
               /\ \E t \in Tickets \ routed.tickets :
                    Bridged([routed EXCEPT !.tickets = @ \cup {t}], "routing")
RouteReport == /\ routed.candidates = {}
               /\ \E q \in Reports \ routed.reports :
                    Bridged([routed EXCEPT !.reports = @ \cup {q}], "routing")
RouteCandidate == /\ routed.tickets \cup routed.reports = {}
                  /\ \E c \in Candidates \ routed.candidates :
                       Bridged([routed EXCEPT !.candidates = @ \cup {c}], "routing")
BridgeNothing == routed.tickets \cup routed.reports \cup routed.candidates = {} /\ Bridged(routed, "routing")

\* The mapper's work_order is the one order it routed, under the default policy.
ReadCompact ==
  \E s \in {"compact", "summary"} :
    /\ routed.caller.mode = "risk_graded_default"
    /\ Cardinality(routed.tickets) + Cardinality(routed.reports) = 1
    /\ routed.candidates = {}
    /\ Bridged(routed, s)

Edit(b) == /\ edits < MaxEdits
           /\ edits' = edits + 1
           /\ bridge' = {b}
           /\ verdict' = {ViolationsForBridge(b)}
           /\ UNCHANGED <<routed, shape>>

DropClauses == \E b \in bridge, group \in ClauseGroups : Edit([b EXCEPT !.clauses = @ \ group])
ChangeDecision == \E b \in bridge, d \in AllowedOutcomes \cup {"approved"} : Edit([b EXCEPT !.decision = d])
FreeItem ==
  \E b \in bridge : \E i \in b.queue :
    Edit([b EXCEPT !.queue = (@ \ {i}) \cup {[i EXCEPT !.boundary.withoutHuman = TRUE]}])
SkipRecord ==
  \E b \in bridge : \E i \in b.queue :
    Edit([b EXCEPT !.queue = (@ \ {i}) \cup {[i EXCEPT !.recorded = FALSE]}])
RewriteBom ==
  \E b \in bridge, d \in AllowedOutcomes : Edit([b EXCEPT !.bom.core.outcome = d])
DeclareComplete == \E b \in bridge : Edit([b EXCEPT !.bom.core.missing = {}])
RebuildBom ==
  \E b \in bridge : Edit([b EXCEPT !.bom = BuildDecisionBom(b.orders, b.queue, b.decision, b.clauses)])

Next == \/ RouteTicket \/ RouteReport \/ RouteCandidate \/ BridgeNothing \/ ReadCompact
        \/ DropClauses \/ ChangeDecision \/ FreeItem \/ SkipRecord \/ RewriteBom \/ DeclareComplete
        \/ RebuildBom

Spec == Init /\ [][Next]_vars

-----------------------------------------------------------------------------
(* Properties.                                                             *)

Built == edits = 0
Accepted == verdict = {{}}

TypeOK ==
  /\ shape \in {"routing", "compact", "summary"}
  /\ edits \in 0..MaxEdits
  /\ \A b \in bridge : /\ b.decision \in AllowedOutcomes \cup {"approved"}
                       /\ Cardinality(b.queue) <= Cardinality(b.orders)
                       /\ Built => \A i \in b.queue : i.durable => i.boundary.requiresInterrupt
  /\ verdict = {ViolationsForBridge(b) : b \in bridge}

\* A critical order, or one that must be rolled back, is an interrupt that a human owner
\* resumes, under every routing policy and in every shape the bridge reads.
CriticalAlwaysInterrupts ==
  Built => \A b \in bridge : \A o \in b.orders :
    o.severity = "P0" \/ (shape = "routing" /\ o.rollback) =>
      \E i \in b.queue : i.id = o.id /\ i.humanOwner

\* Bounded work is allowed without an interrupt only if the routing itself lets an agent
\* resolve each of its orders.
FreeWorkResolvesItself ==
  Built /\ shape = "routing" =>
    \A b \in bridge : b.decision = "allow_bounded_local_work" =>
      \A o \in RoutedOrders(routed) : o.selfResolve

\* However a runtime changed the bridge, and even when it computed the BOM again, the
\* evaluator accepts it only with its whole contract, with every interrupt it holds still
\* waiting for a recorded human decision, and with a BOM that says so.
AcceptedKeepsBoundary ==
  Accepted => \A b \in bridge :
    /\ b.clauses = Clauses
    /\ b.queue # {} => b.decision = "require_interrupt" /\ b.bom.core.outcome = "require_interrupt"
    /\ \A i \in b.queue : i.recorded /\ ~i.boundary.withoutHuman

\* Work orders whose source nobody named are never accepted, not even when a runtime
\* declares their BOM complete or computes it again.
AcceptedIsSourced ==
  Accepted => \A b \in bridge : b.orders = {} \/ \E o \in b.orders : o.cited

\* One more order never takes back the interrupt the others needed.
MoreOrdersNeverRelax ==
  \A b \in bridge, nx \in bridge' :
   edits = 0 /\ edits' = 0 /\ shape = "routing" /\ shape' = "routing"
   /\ b.decision = "require_interrupt" => nx.decision = "require_interrupt"
=============================================================================
