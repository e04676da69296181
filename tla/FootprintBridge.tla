--------------------------- MODULE FootprintBridge ---------------------------
(***************************************************************************)
(* Footprints of external agents as evidence                               *)
(* (scripts/lib/omniagent-footprint-bridge.mjs): the events of a session   *)
(* of OmniAgent or agentmemory become one event of the learning loop,      *)
(* which routes it; the adaptive gate then decides about it.               *)
(*                                                                         *)
(* A footprint grows while the session runs, and is reviewed after every   *)
(* event.  An event is [type, tool, ok, error, marks, refs]: marks are the *)
(* patterns its text matches, refs the kinds of source refs it carries     *)
(* ("memory" is agentmemory:observation and the like, "internal" a ref of  *)
(* Hermes, the repository or a test, "other" anything else).  Left out:    *)
(* texts, paths of skills, times, and flags that are constant.             *)
(***************************************************************************)
EXTENDS LearningLoop

CONSTANTS
  Events,      \* events a session may emit
  MaxEvents    \* bound: the length of a footprint

VARIABLES
  footprint,   \* [agentmemory, occurrences, given]: given is the outcome it states, or "none"
  events,      \* the events so far
  review       \* the bridge's latest review: a set of at most one

vars == <<footprint, events, review>>

Happened == {events[i] : i \in 1..Len(events)}

-----------------------------------------------------------------------------
(* Side effects the external agent had.                                    *)

WriteTools == {"write_file", "apply_patch"}
ReadTools == {"read_file"}

\* The count of written files compares names exactly; this test does not.
IsWriteLike(e) == e.tool \in WriteTools \cup {"Write_File"} \/ "write" \in e.marks

IsAutoAgentsMdWrite(e) == "agents_md" \in e.marks /\ (IsWriteLike(e) \/ "rule" \in e.marks)
IsAutoMemoryWrite(e) ==
  {"memory_write", "memory_save"} \cap e.marks # {} \/ ("memory_db" \in e.marks /\ IsWriteLike(e))
IsAutoSkillWrite(e) ==
  "skill_install" \in e.marks \/ ("skill_path" \in e.marks /\ IsWriteLike(e))
IsPublicSend(e) == {"public", "send"} \subseteq e.marks
IsRuntimeMutation(e) == {"service", "restart"} \subseteq e.marks
IsContextInjectionRisk(e) == "system_block" \in e.marks \/ {"inject", "context"} \subseteq e.marks
IsMemoryProviderTakeover(e) == {"memory_save", "provider"} \cap e.marks # {}

AutoWriteIndicators(es) ==
  When(\E e \in es : IsAutoAgentsMdWrite(e), "agents_md_write")
  \cup When(\E e \in es : IsAutoMemoryWrite(e), "memory_write")
  \cup When(\E e \in es : IsAutoSkillWrite(e), "skill_write")
  \cup When(\E e \in es : IsPublicSend(e), "public_send")
  \cup When(\E e \in es : IsRuntimeMutation(e) \/ IsMemoryProviderTakeover(e), "runtime_mutation")
  \cup When(\E e \in es : IsContextInjectionRisk(e), "context_injection")
  \cup When(\E e \in es : IsMemoryProviderTakeover(e), "memory_provider_takeover")

FootprintRisk(es, indicators) ==
  CASE indicators \cap {"public_send", "runtime_mutation", "memory_provider_takeover"} # {} -> "critical"
    [] indicators # {} /\ indicators \subseteq {"agents_md_write", "memory_write", "skill_write",
                                                "context_injection"} -> "high"
    [] indicators = {} /\ \E e \in es : e.tool = "bash" -> "medium"
    [] OTHER -> "low"

-----------------------------------------------------------------------------
(* What the session did.                                                   *)

Ended(es) == {i \in 1..Len(es) : es[i].type = "tool_end"}
Succeeded(es) == {i \in Ended(es) : es[i].ok # "no" /\ es[i].tool # "none"}
ToolErrors(es) == {es[i].error : i \in {j \in Ended(es) : es[j].ok = "no"}}

\* The outcome the footprint states, or that of the last agent_end.
InferOutcome(fp, es) ==
  LET ends == {i \in 1..Len(es) : es[i].type = "agent_end"}
  IN  CASE fp.given # "none" -> fp.given
        [] fp.given = "none" /\ ends = {} -> "unknown"
        [] OTHER -> CASE es[Max(ends)].ok = "yes" -> "success"
                      [] es[Max(ends)].ok = "no" -> "failure"
                      [] OTHER -> "unknown"

SourceRefs(es) == {"footprint"} \cup UNION {e.refs : e \in es}

ProvenanceHeld(fp, refs) == fp.agentmemory /\ refs \cap {"memory", "internal"} = {}

BoundarySignals(indicators) ==
  When("public_send" \in indicators, "public_posting_boundary")
  \cup When("context_injection" \in indicators, "context_injection_risk")
  \cup When("memory_provider_takeover" \in indicators, "memory_provider_takeover_risk")
  \cup When(indicators \ {"public_send"} # {}, "explicit_user_boundary")

ProvenanceSignals(held, indicators) ==
  When(held /\ {"context_injection", "memory_provider_takeover"} \cap indicators = {}, "avoid_overreaction")

FailureSignals(fp, es) ==
  LET errors == Cardinality(ToolErrors(es))
      failing == InferOutcome(fp, es) = "failure" \/ errors > 0
      repeated == fp.occurrences >= 2 \/ errors >= 2
  IN  When(failing /\ repeated, "repeated_failure_pattern")
      \cup (IF failing /\ ~repeated THEN {"single_failure", "avoid_overreaction"} ELSE {})

WorkflowSignals(fp, es, indicators) ==
  LET workflow == /\ indicators = {}
                  /\ InferOutcome(fp, es) = "success"
                  /\ Cardinality(Succeeded(es)) >= 2
                  /\ \E i \in Succeeded(es) : es[i].tool \in ReadTools \cup WriteTools
  IN  When(workflow, "reusable_workflow")
      \cup When(workflow /\ fp.occurrences < 2, "avoid_overreaction")

InferSignals(fp, es, indicators, held) ==
  LET own == UNION {BoundarySignals(indicators), ProvenanceSignals(held, indicators),
                    FailureSignals(fp, es), WorkflowSignals(fp, es, indicators)}
  IN  IF own = {} THEN {"single_failure", "avoid_overreaction"} ELSE own

EvidenceCount(fp, es) == fp.occurrences

\* The learning event.  The adaptive gate takes every event of the bridge for an external
\* one, and looks for an internal ref.
FootprintEvent(fp, es) ==
  LET happened == {es[i] : i \in 1..Len(es)}
      indicators == AutoWriteIndicators(happened)
      refs == SourceRefs(happened)
  IN  [signals |-> InferSignals(fp, es, indicators, ProvenanceHeld(fp, refs)),
       evidence |-> EvidenceCount(fp, es), risk |-> FootprintRisk(happened, indicators),
       channel |-> "local", toolErrors |-> ToolErrors(es) # {},
       refs |-> {"external"} \cup (refs \cap {"internal"})]

ReviewFootprint(fp, es) ==
  LET event == FootprintEvent(fp, es)
      happened == {es[i] : i \in 1..Len(es)}
      trace == SimulateLearningCycle(event)
  IN  [indicators |-> AutoWriteIndicators(happened), event |-> event, route |-> trace.route.target,
       held |-> ProvenanceHeld(fp, SourceRefs(happened)), decision |-> ClassifyDecision(trace),
       warned |-> "avoid_overreaction" \in event.signals]

-----------------------------------------------------------------------------

Footprints ==
  [agentmemory : BOOLEAN, occurrences : 0..2, given : {"none", "success", "failure"}]

Init == footprint \in Footprints /\ events = <<>> /\ review = {}

Emit == \E e \in Events :
  /\ Len(events) < MaxEvents
  /\ events' = Append(events, e)
  /\ review' = {ReviewFootprint(footprint, Append(events, e))}
  /\ UNCHANGED footprint

\* The same task was seen again, or its outcome is now known.
SeeAgain == /\ footprint.occurrences < 2
            /\ footprint' = [footprint EXCEPT !.occurrences = @ + 1]
            /\ review' = {ReviewFootprint(footprint', events)}
            /\ UNCHANGED events

Next == Emit \/ SeeAgain

Spec == Init /\ [][Next]_vars

-----------------------------------------------------------------------------
(* Properties.                                                             *)

TypeOK ==
  /\ footprint \in Footprints
  /\ events \in Seq(Events) /\ Len(events) <= MaxEvents
  /\ \A r \in review : /\ r.route \in {"memory", "skill", "case", "policy", "damping", "ignore"}
                       /\ r.event.risk \in {"low", "medium", "high", "critical"}
                       /\ (r.indicators # {}) = (r.event.risk \in {"high", "critical"})

\* A session in which the agent wrote memory, skills or AGENTS.md, published something or
\* touched a service or a prompt is never learnt as a skill, a case or a memory, however
\* often it succeeded or failed.
SideEffectsNeverPromote ==
  \A r \in review : r.indicators # {} => r.route \in {"policy", "damping"}

\* A recall of agentmemory without its observations, and without a ref of our own, is
\* low-trust evidence: no success, failure or repetition makes it more than damping.
UnprovenNeverPromotes == \A r \in review : r.held => r.route \in {"policy", "damping"}

\* One footprint promotes nothing, with however many tools that worked or failed in it.
OneFootprintNeverPromotes ==
  \A r \in review : footprint.occurrences < 2 => r.route \notin {"skill", "case", "memory"}

\* What only the external agent says never passes the adaptive gate as memory, skill or
\* policy.
ExternalAloneIsHeld ==
  \A r \in review :
    /\ r.decision = "validation_ready"
    /\ ~\E e \in Happened : "internal" \in e.refs
    => r.route = "case"

\* A boundary once seen stays policy evidence, whatever happens in the rest of the
\* session: a public send, an injected prompt or a takeover of memory.
BoundaryStaysPolicy ==
  \A r \in review, nx \in review' :
   HasSignal(r.event, PolicyBoundarySignals) => nx.route = "policy"
=============================================================================
