---------------------------- MODULE RuntimeThread ----------------------------
(***************************************************************************)
(* The runtime thread of scripts/lib/runtime-thread.mjs: an append-only    *)
(* event log, a business state kept beside it, and the deterministic       *)
(* choice of the next step.  A thread is first assembled by                *)
(* buildRuntimeThreadFromPackets (the builder, one action per call it      *)
(* makes) or created bare, and then handed to callers of the exported      *)
(* functions.                                                              *)
(*                                                                         *)
(* Abstracted: timestamps, summaries, refs and the order in which pending  *)
(* escalations are named by a pause.  The packet checks of the local gate  *)
(* (context locked, reducer deterministic, drafts only) are one Boolean.   *)
(***************************************************************************)
EXTENDS Naturals, Sequences, SequencesExt

CONSTANTS Escalations,   \* ids of the human escalations
          Decisions,     \* what --decision may carry: any string
          Starts,        \* bound: which of "bare" and "built" threads to start
          MaxEscalations,\* bound: how many escalations the builder is given
          MaxEvents      \* bound: no exported call once the log is this long

None == "null"           \* JavaScript's null

ASSUME NamesAssumption ==
  /\ None \notin Escalations
  /\ None \notin Decisions
ASSUME BoundsAssumption == MaxEscalations \in Nat /\ MaxEvents \in Nat

VARIABLES thread,        \* the misa.agent_thread.v1 value
          build          \* the builder's arguments and where it stands

vars == <<thread, build>>

AcceptedDecisions ==
  {"approve", "reject", "modify", "choose_executor", "release_safe_mode", "hold"}
Approving == {"approve", "choose_executor", "release_safe_mode"}
Holding == {"hold", "reject"}

StepTypes == {"prepare_context", "draft_candidate", "pause_for_human",
              "run_local_gate", "complete", "hold", "error"}
EventTypes == {"thread_launched", "candidate_context_ready",
               "candidate_reducer_ready", "human_escalation_requested",
               "human_decision_recorded", "next_step_determined",
               "local_gate_passed", "thread_completed", "thread_held",
               "runtime_error_compacted"}
Statuses == {"running", "paused", "completed", "held", "failed"}
Phases == {"launched", "context_ready", "waiting_for_human", "resumed",
           "local_gate", "completed", "held", "failed"}

-----------------------------------------------------------------------------
(* Events, and what the code reads off the log.                            *)

Event(type) == [type |-> type, id |-> None, decision |-> None, step |-> None]
EscalationEvent(e) == [Event("human_escalation_requested") EXCEPT !.id = e]
DecisionEvent(d, e) ==
  [Event("human_decision_recorded") EXCEPT !.decision = d, !.id = e]
StepEvent(s) == [Event("next_step_determined") EXCEPT !.step = s]

HasEvent(log, type) == \E i \in DOMAIN log : log[i].type = type

DecidedEscalationIds(log) ==
  {log[i].id : i \in {j \in DOMAIN log : log[j].type = "human_decision_recorded"}}
     \ {None}

\* The value of the last decision in the log, None if there is no decision.
LatestDecision(log) ==
  LET at == {i \in DOMAIN log : log[i].type = "human_decision_recorded"}
  IN  IF at = {} THEN None
      ELSE log[CHOOSE i \in at : \A j \in at : j <= i].decision

Unresolved(t) == t.business.pending \ DecidedEscalationIds(t.log)

-----------------------------------------------------------------------------
(* The business state, twice: appendThreadEvent keeps it up to date, and   *)
(* replay folds applyBusinessStateEvent over the log.                      *)

InitialBusinessState ==
  [phase |-> "launched", pending |-> {}, approved |-> 0, completed |-> 0,
   last |-> None]

\* Mutant: a decision leaves its escalation pending.
ApplyBusinessStateEventMutant(b, e) ==
  CASE e.type = "candidate_context_ready" -> [b EXCEPT !.phase = "context_ready"]
    [] e.type = "human_escalation_requested" ->
         [b EXCEPT !.pending = @ \cup ({e.id} \ {None}),
                   !.phase = "waiting_for_human"]
    [] e.type = "human_decision_recorded" ->
         [b EXCEPT !.last = e.decision,
                   !.approved = IF e.decision \in Approving THEN @ + 1 ELSE @,
                   !.phase = IF e.decision \in Holding THEN "held" ELSE "resumed"]
    [] e.type = "local_gate_passed" ->
         [b EXCEPT !.completed = @ + 1, !.phase = "completed"]
    [] e.type = "thread_completed" -> [b EXCEPT !.phase = "completed"]
    [] e.type = "thread_held" -> [b EXCEPT !.phase = "held"]
    [] e.type = "runtime_error_compacted" -> [b EXCEPT !.phase = "failed"]
    [] OTHER -> b

ApplyBusinessStateEvent(b, e) ==
  CASE e.type = "candidate_context_ready" -> [b EXCEPT !.phase = "context_ready"]
    [] e.type = "human_escalation_requested" ->
         [b EXCEPT !.pending = @ \cup ({e.id} \ {None}),
                   !.phase = "waiting_for_human"]
    [] e.type = "human_decision_recorded" ->
         [b EXCEPT !.last = e.decision,
                   !.approved = IF e.decision \in Approving THEN @ + 1 ELSE @,
                   !.pending = @ \ {e.id},
                   !.phase = IF e.decision \in Holding THEN "held" ELSE "resumed"]
    [] e.type = "local_gate_passed" ->
         [b EXCEPT !.completed = @ + 1, !.phase = "completed"]
    [] e.type = "thread_completed" -> [b EXCEPT !.phase = "completed"]
    [] e.type = "thread_held" -> [b EXCEPT !.phase = "held"]
    [] e.type = "runtime_error_compacted" -> [b EXCEPT !.phase = "failed"]
    [] OTHER -> b

BusinessStateFromEvents(log) ==
  LET after[n \in 0..Len(log)] ==
        IF n = 0 THEN InitialBusinessState
        ELSE ApplyBusinessStateEvent(after[n - 1], log[n])
  IN  after[Len(log)]

\* The phase an event leaves; events that say nothing keep the old one.  Unlike
\* the fold, an append says nothing of thread_completed and thread_held.
PhaseAfterEvent(phase, e) ==
  CASE e.type = "candidate_context_ready" -> "context_ready"
    [] e.type = "human_escalation_requested" -> "waiting_for_human"
    [] e.type = "human_decision_recorded" ->
         IF e.decision \in Holding THEN "held" ELSE "resumed"
    [] e.type = "local_gate_passed" -> "completed"
    [] e.type = "runtime_error_compacted" -> "failed"
    [] OTHER -> phase

PendingAfterEvent(pending, e) ==
  CASE e.type = "human_escalation_requested" -> pending \cup ({e.id} \ {None})
    [] e.type = "human_decision_recorded" -> pending \ {e.id}
    [] OTHER -> pending

BusinessAfterEvent(b, e) ==
  LET isDecision == e.type = "human_decision_recorded"
  IN  [phase |-> PhaseAfterEvent(b.phase, e),
       pending |-> PendingAfterEvent(b.pending, e),
       approved |-> IF isDecision /\ e.decision \in Approving
                    THEN b.approved + 1 ELSE b.approved,
       completed |-> IF e.type = "local_gate_passed"
                     THEN b.completed + 1 ELSE b.completed,
       last |-> IF isDecision THEN e.decision ELSE b.last]

AppendThreadEvent(t, e) ==
  [log |-> Append(t.log, e), status |-> t.status,
   business |-> BusinessAfterEvent(t.business, e), latest |-> t.latest]

-----------------------------------------------------------------------------
(* The next step.                                                          *)

\* Mutant: publishes the step itself.
StatusForStepMutant(step) == IF step = "pause_for_human" THEN "paused" ELSE step

StatusForStep(step) ==
  CASE step = "pause_for_human" -> "paused"
    [] step = "complete" -> "completed"
    [] step = "hold" -> "held"
    [] step = "error" -> "failed"
    [] OTHER -> "running"

PhaseForStep(step) ==
  CASE step = "draft_candidate" -> "context_ready"
    [] step = "pause_for_human" -> "waiting_for_human"
    [] step = "run_local_gate" -> "local_gate"
    [] step = "complete" -> "completed"
    [] step = "hold" -> "held"
    [] step = "error" -> "failed"
    [] OTHER -> "launched"

\* Mutant: waits for nobody.
DetermineNextStepNoPause(t) ==
  IF HasEvent(t.log, "runtime_error_compacted") \/ t.status = "failed" THEN "error"
  ELSE IF LatestDecision(t.log) \in Holding THEN "hold"
  ELSE IF /\ HasEvent(t.log, "human_decision_recorded")
          /\ ~HasEvent(t.log, "local_gate_passed") THEN "run_local_gate"
  ELSE IF ~HasEvent(t.log, "candidate_context_ready") THEN "prepare_context"
  ELSE IF ~HasEvent(t.log, "candidate_reducer_ready") THEN "draft_candidate"
  ELSE "complete"

\* Mutant: asks the human before it looks for an error.
DetermineNextStepPauseFirst(t) ==
  IF Unresolved(t) # {} THEN "pause_for_human"
  ELSE IF HasEvent(t.log, "runtime_error_compacted") \/ t.status = "failed" THEN "error"
  ELSE IF LatestDecision(t.log) \in Holding THEN "hold"
  ELSE IF /\ HasEvent(t.log, "human_decision_recorded")
          /\ ~HasEvent(t.log, "local_gate_passed") THEN "run_local_gate"
  ELSE IF ~HasEvent(t.log, "candidate_context_ready") THEN "prepare_context"
  ELSE IF ~HasEvent(t.log, "candidate_reducer_ready") THEN "draft_candidate"
  ELSE "complete"

\* Mutant: a thread that passed its gate is complete, whatever was decided since.
DetermineNextStepGateFirst(t) ==
  IF HasEvent(t.log, "runtime_error_compacted") \/ t.status = "failed" THEN "error"
  ELSE IF Unresolved(t) # {} THEN "pause_for_human"
  ELSE IF HasEvent(t.log, "local_gate_passed") THEN "complete"
  ELSE IF LatestDecision(t.log) \in Holding THEN "hold"
  ELSE IF HasEvent(t.log, "human_decision_recorded") THEN "run_local_gate"
  ELSE IF ~HasEvent(t.log, "candidate_context_ready") THEN "prepare_context"
  ELSE IF ~HasEvent(t.log, "candidate_reducer_ready") THEN "draft_candidate"
  ELSE "complete"

DetermineNextStep(t) ==
  IF HasEvent(t.log, "runtime_error_compacted") \/ t.status = "failed" THEN "error"
  ELSE IF Unresolved(t) # {} THEN "pause_for_human"
  ELSE IF LatestDecision(t.log) \in Holding THEN "hold"
  ELSE IF /\ HasEvent(t.log, "human_decision_recorded")
          /\ ~HasEvent(t.log, "local_gate_passed") THEN "run_local_gate"
  ELSE IF ~HasEvent(t.log, "candidate_context_ready") THEN "prepare_context"
  ELSE IF ~HasEvent(t.log, "candidate_reducer_ready") THEN "draft_candidate"
  ELSE "complete"

\* A step and the event count it is named after (step_id).
BuildStep(t, offset) ==
  [type |-> DetermineNextStep(t), at |-> Len(t.log) + offset]

Publish(t, s) ==
  [log |-> t.log, status |-> StatusForStep(s.type),
   business |-> [t.business EXCEPT !.phase = PhaseForStep(s.type)],
   latest |-> s]

RecordNextStep(t, s) == Publish(AppendThreadEvent(t, StepEvent(s.type)), s)

\* Every caller in the code determines with an offset of 1, then records.
Advance(t) == RecordNextStep(t, BuildStep(t, 1))

ReplayRuntimeThread(t) ==
  LET base == [log |-> t.log, status |-> "running",
               business |-> BusinessStateFromEvents(t.log),
               latest |-> t.latest]
  IN  Publish(base, BuildStep(base, 0))

RecordRuntimeErrorSignal(t) ==
  Advance(AppendThreadEvent(t, Event("runtime_error_compacted")))

\* Mutant: does not ask whether the gate is the next step.
EvaluateRuntimeLocalGateMutant(t, packetsOk) ==
  /\ packetsOk
  /\ HasEvent(t.log, "candidate_context_ready")
  /\ HasEvent(t.log, "candidate_reducer_ready")
  /\ HasEvent(t.log, "human_decision_recorded")
  /\ Unresolved(t) = {}

\* packetsOk stands for the checks on the two packets the caller passes.
EvaluateRuntimeLocalGate(t, packetsOk) ==
  LET replayed == ReplayRuntimeThread(t)
  IN  /\ packetsOk
      /\ HasEvent(t.log, "candidate_context_ready")
      /\ HasEvent(t.log, "candidate_reducer_ready")
      /\ HasEvent(t.log, "human_decision_recorded")
      /\ Unresolved(t) = {}
      /\ DetermineNextStep(t) = "run_local_gate"
      /\ replayed.latest.type = DetermineNextStep(t)
      /\ replayed.status = StatusForStep(DetermineNextStep(t))

RecordRuntimeLocalGate(t, packetsOk) ==
  IF EvaluateRuntimeLocalGate(t, packetsOk)
  THEN Advance(AppendThreadEvent(t, Event("local_gate_passed")))
  ELSE RecordRuntimeErrorSignal(t)

-----------------------------------------------------------------------------
(* The builder and the callers.                                            *)

CreateAgentThread ==
  AppendThreadEvent([log |-> <<>>, status |-> "running",
                     business |-> InitialBusinessState,
                     latest |-> [type |-> "prepare_context", at |-> 0]],
                    Event("thread_launched"))

\* "callers": the thread is assembled and in the hands of its callers.
Points == {"context", "reducer", "escalations", "decision", "step", "gate",
           "error", "callers"}
Idle == [pc |-> "callers", todo |-> <<>>, decision |-> None, about |-> None,
         gate |-> FALSE, packetsOk |-> FALSE, error |-> FALSE]

\* The arguments of the builder; a decision answers the first escalation.
StartBuild(escalations, decision, gate, packetsOk, error) ==
  [pc |-> "context", todo |-> escalations, decision |-> decision,
   about |-> IF escalations = <<>> THEN None ELSE Head(escalations),
   gate |-> gate, packetsOk |-> packetsOk, error |-> error]

Init ==
  /\ thread = CreateAgentThread
  /\ \/ "bare" \in Starts /\ build = Idle
     \/ /\ "built" \in Starts
        /\ \E es \in SeqOf(Escalations, MaxEscalations), d \in Decisions \cup {None},
              gate, ok, error \in BOOLEAN :
             build = StartBuild(es, d, gate, ok, error)

At(point) == build.pc = point
Goto(point) == build' = [build EXCEPT !.pc = point]
Add(e) == thread' = AppendThreadEvent(thread, e)

BuildContext ==
  At("context") /\ Add(Event("candidate_context_ready")) /\ Goto("reducer")

BuildReducer ==
  At("reducer") /\ Add(Event("candidate_reducer_ready")) /\ Goto("escalations")

BuildEscalation ==
  /\ At("escalations") /\ build.todo # <<>>
  /\ Add(EscalationEvent(Head(build.todo)))
  /\ build' = [build EXCEPT !.todo = Tail(@)]

BuildDecision ==
  /\ At("escalations") /\ build.todo = <<>> /\ build.decision # None
  /\ Add(DecisionEvent(build.decision, build.about))
  /\ Goto("step")

BuildNextStep ==
  /\ \/ At("step")
     \/ /\ At("escalations") /\ build.todo = <<>>
        /\ build.decision = None
  /\ thread' = Advance(thread)
  /\ Goto("gate")

BuildLocalGate ==
  /\ At("gate") /\ build.gate
  /\ thread' = RecordRuntimeLocalGate(thread, build.packetsOk)
  /\ Goto("error")

GateDone == At("error") \/ (At("gate") /\ ~build.gate)

BuildErrorSignal ==
  /\ build.error
  /\ GateDone
  /\ thread' = RecordRuntimeErrorSignal(thread)
  /\ build' = Idle

BuildReturn ==
  /\ ~build.error
  /\ GateDone
  /\ build' = Idle
  /\ UNCHANGED thread

Builder ==
  \/ BuildContext \/ BuildReducer \/ BuildEscalation \/ BuildDecision
  \/ BuildNextStep \/ BuildLocalGate \/ BuildErrorSignal \/ BuildReturn

\* The bound on the log is the only guard that is not the code's.
MayCall == At("callers") /\ Len(thread.log) < MaxEvents /\ UNCHANGED build

PacketReady ==
  /\ MayCall
  /\ \E type \in {"candidate_context_ready", "candidate_reducer_ready"} :
        Add(Event(type))

\* The schema knows these two events and replay reads them; no code emits them.
ThreadClosed ==
  MayCall /\ \E type \in {"thread_completed", "thread_held"} : Add(Event(type))

RequestEscalation ==
  MayCall /\ \E e \in Escalations : Add(EscalationEvent(e))

RecordDecision ==
  /\ MayCall
  /\ \E d \in Decisions, e \in Escalations \cup {None} : Add(DecisionEvent(d, e))

DetermineAndRecord == MayCall /\ thread' = Advance(thread)

LocalGate ==
  /\ MayCall
  /\ \E ok \in BOOLEAN : thread' = RecordRuntimeLocalGate(thread, ok)

ErrorSignal == MayCall /\ thread' = RecordRuntimeErrorSignal(thread)

\* A caller that keeps the thread only as its log goes on from the replay.
Replay == MayCall /\ thread' = ReplayRuntimeThread(thread)

Callers ==
  \/ PacketReady \/ ThreadClosed \/ RequestEscalation \/ RecordDecision
  \/ DetermineAndRecord \/ LocalGate \/ ErrorSignal \/ Replay

Next == Builder \/ Callers

Spec == Init /\ [][Next]_vars

-----------------------------------------------------------------------------
(* Properties.                                                             *)

Events == [type : EventTypes, id : Escalations \cup {None},
           decision : Decisions \cup {None}, step : StepTypes \cup {None}]
BusinessStates == [phase : Phases, pending : SUBSET Escalations,
                   approved : Nat, completed : Nat,
                   last : Decisions \cup {None}]
Steps == [type : StepTypes, at : Nat]
Threads == [log : Seq(Events), status : Statuses, business : BusinessStates,
            latest : Steps]

\* Every value the code can hold; ApplyBusinessStateEvent stays inside too.
TypeOK ==
  /\ thread \in Threads
  /\ build \in
       [pc : Points, todo : Seq(Escalations), decision : Decisions \cup {None},
        about : Escalations \cup {None}, gate : BOOLEAN, packetsOk : BOOLEAN,
        error : BOOLEAN]

\* The log as it was when its i-th event was appended.
Before(log, i) == SubSeq(log, 1, i - 1)

RequestedIds(log) ==
  {log[i].id : i \in {j \in DOMAIN log : log[j].type = "human_escalation_requested"}}

\* Nobody is waited for, nobody said no, and nothing broke.
MayGoOn(log) ==
  /\ RequestedIds(log) \subseteq DecidedEscalationIds(log)
  /\ LatestDecision(log) \notin Holding
  /\ ~HasEvent(log, "runtime_error_compacted")

CompletionDue(log) ==
  /\ MayGoOn(log)
  /\ HasEvent(log, "human_decision_recorded") => HasEvent(log, "local_gate_passed")
  /\ HasEvent(log, "candidate_reducer_ready")

GateDue(log) ==
  /\ MayGoOn(log)
  /\ \A type \in {"candidate_context_ready", "candidate_reducer_ready",
                  "human_decision_recorded"} : HasEvent(log, type)
  /\ ~HasEvent(log, "local_gate_passed")

\* "Complete" is only ever recorded over a log in which every escalation ever
\* requested was answered, the last answer did not hold the thread, the draft
\* exists, and the local gate was passed if a human was asked at all
\* (determineNextStep).
CompletionEarned ==
  \A i \in DOMAIN thread.log :
    thread.log[i].step = "complete" => CompletionDue(Before(thread.log, i))

\* The local gate is passed at most once, and only over a log that has both
\* packets, a human decision that does not hold, no open escalation and no
\* compacted error (evaluateRuntimeLocalGate).
GateEarned ==
  \A i \in DOMAIN thread.log :
    thread.log[i].type = "local_gate_passed" => GateDue(Before(thread.log, i))

\* Folding the log gives the business state the appends kept up to date, and
\* replaying a thread whose last event is a recorded step gives that thread
\* back: status, phase, step type and step id (replayRuntimeThread).
ReplayAgrees ==
  LET t == thread
      rebuilt == BusinessStateFromEvents(t.log)
  IN  /\ [rebuilt EXCEPT !.phase = t.business.phase] = t.business
      /\ t.log[Len(t.log)].type = "next_step_determined" =>
           ReplayRuntimeThread(t) = t

\* Once an error is in the log, every step the thread publishes is "error" and
\* the gate is not passed again: no call un-fails a thread.
FailClosed ==
  [][HasEvent(thread.log, "runtime_error_compacted") =>
       /\ thread'.latest # thread.latest => thread'.latest.type = "error"
       /\ thread.status = "failed" => thread'.status = "failed"
       /\ thread'.business.completed = thread.business.completed]_vars

PacketsOf(log) ==
  (IF HasEvent(log, "candidate_context_ready") THEN {"context"} ELSE {})
  \cup (IF HasEvent(log, "candidate_reducer_ready") THEN {"reducer"} ELSE {})

\* The thread as its summary: RuntimeThread implements ThreadAuthority.
Authority == INSTANCE ThreadAuthority WITH
  outstanding <- Unresolved(thread),
  decided <- DecidedEscalationIds(thread.log),
  verdict <- LatestDecision(thread.log),
  ready <- PacketsOf(thread.log),
  cleared <- HasEvent(thread.log, "local_gate_passed"),
  broken <- HasEvent(thread.log, "runtime_error_compacted"),
  posture <- thread.status

ImplementsAuthority == Authority!Spec

\* schemas/agent_thread.schema.json allows last_human_decision only the six
\* accepted decisions; the builder stores whatever --decision carries.
LastDecisionAccepted ==
  thread.business.last \in AcceptedDecisions \cup {None}
=============================================================================
