------------------------- MODULE RuntimeThreadProofs -------------------------
(***************************************************************************)
(* Proofs about RuntimeThread, for any escalations, decisions and bounds:  *)
(* type correctness, the safety properties the runs check, and that the    *)
(* thread implements ThreadAuthority.                                      *)
(*                                                                         *)
(* The inductive invariant IInv says of the thread (Core) that its log is  *)
(* well formed and folds to its business state (FoldsTo), that the past    *)
(* events were due when they were recorded (Earned), that what the helpers *)
(* read off the log is complete (Answered), and that a failed thread has   *)
(* an error in its log (FailureShown).                                     *)
(***************************************************************************)
EXTENDS RuntimeThread, TLAPS, SequenceTheorems

-----------------------------------------------------------------------------
(* What the helpers read off a log that grew by one event.                 *)

LEMMA AppendFacts ==
  ASSUME NEW log \in Seq(Events), NEW e \in Events
  PROVE  /\ Append(log, e) \in Seq(Events)
         /\ Len(Append(log, e)) = Len(log) + 1
         /\ DOMAIN Append(log, e) = 1..(Len(log) + 1)
         /\ DOMAIN log = 1..Len(log)
         /\ \A i \in 1..Len(log) : Append(log, e)[i] = log[i]
         /\ Append(log, e)[Len(log) + 1] = e
         /\ Len(log) \in Nat
  OBVIOUS

LEMMA HasEventAppend ==
  ASSUME NEW log \in Seq(Events), NEW e \in Events, NEW type
  PROVE  HasEvent(Append(log, e), type) <=> HasEvent(log, type) \/ e.type = type
  BY AppendFacts DEF HasEvent

LEMMA RequestedAppend ==
  ASSUME NEW log \in Seq(Events), NEW e \in Events
  PROVE  RequestedIds(Append(log, e)) =
           RequestedIds(log)
             \cup (IF e.type = "human_escalation_requested" THEN {e.id} ELSE {})
  BY AppendFacts DEF RequestedIds

LEMMA DecidedAppend ==
  ASSUME NEW log \in Seq(Events), NEW e \in Events
  PROVE  DecidedEscalationIds(Append(log, e)) =
           DecidedEscalationIds(log)
             \cup (IF e.type = "human_decision_recorded" THEN {e.id} \ {None} ELSE {})
  BY AppendFacts DEF DecidedEscalationIds

\* The decisions of a log have a last one.  True of every finite sequence, but
\* that is an induction over the sequence: here it is an invariant of the
\* thread, whose log grows by one event at a time.
DecisionsAt(log) == {i \in DOMAIN log : log[i].type = "human_decision_recorded"}
HasLatest(log) ==
  DecisionsAt(log) = {} \/ \E i \in DecisionsAt(log) :
                              \A j \in DecisionsAt(log) : j <= i

LEMMA LatestAppend ==
  ASSUME NEW log \in Seq(Events), NEW e \in Events, HasLatest(log)
  PROVE  /\ HasLatest(Append(log, e))
         /\ LatestDecision(Append(log, e)) =
              IF e.type = "human_decision_recorded" THEN e.decision
              ELSE LatestDecision(log)
<1> DEFINE new == Append(log, e)
           Deciding(s) == {i \in DOMAIN s : s[i].type = "human_decision_recorded"}
<1>1. CASE e.type = "human_decision_recorded"
  <2>1. Deciding(new) = Deciding(log) \cup {Len(log) + 1}
    BY <1>1, AppendFacts
  <2>2. \A i \in Deciding(new) : (\A j \in Deciding(new) : j <= i) <=> i = Len(log) + 1
    BY <2>1, AppendFacts
  <2>3. (CHOOSE i \in Deciding(new) : \A j \in Deciding(new) : j <= i) = Len(log) + 1
    BY <2>1, <2>2
  <2>4. Len(log) + 1 \in Deciding(new)
    BY <2>1
  <2> QED
    BY <1>1, <2>1, <2>2, <2>3, <2>4, AppendFacts
    DEF LatestDecision, HasLatest, DecisionsAt
<1>2. CASE e.type # "human_decision_recorded"
  <2>1. Deciding(new) = Deciding(log)
    BY <1>2, AppendFacts
  <2>2. CASE Deciding(log) = {}
    BY <1>2, <2>1, <2>2 DEF LatestDecision, HasLatest, DecisionsAt
  <2>3. CASE Deciding(log) # {}
    <3> DEFINE i == CHOOSE k \in Deciding(log) : \A j \in Deciding(log) : j <= k
    <3>1. i \in Deciding(log) /\ \A j \in Deciding(log) : j <= i
      BY <2>3 DEF HasLatest, DecisionsAt
    <3>2. new[i] = log[i]
      BY <3>1, AppendFacts
    <3>3. LatestDecision(new) = new[i].decision
      BY <2>1, <2>3 DEF LatestDecision
    <3>4. LatestDecision(log) = log[i].decision
      BY <2>3 DEF LatestDecision
    <3> QED
      BY <1>2, <2>1, <3>1, <3>2, <3>3, <3>4 DEF HasLatest, DecisionsAt
  <2> QED
    BY <2>2, <2>3
<1> QED
  BY <1>1, <1>2

LEMMA BeforeAppend ==
  ASSUME NEW log \in Seq(Events), NEW e \in Events
  PROVE  /\ \A i \in DOMAIN log : Before(Append(log, e), i) = Before(log, i)
         /\ Before(Append(log, e), Len(log) + 1) = log
<1>1. \A i \in 1..Len(log) + 1 :
        SubSeq(Append(log, e), 1, i - 1) = SubSeq(log, 1, i - 1)
  <2> TAKE i \in 1..Len(log) + 1
  <2>1. \A j \in 1..i-1 : Append(log, e)[j] = log[j] /\ log[j] \in Events
    BY AppendFacts
  <2>2. /\ SubSeq(log, 1, i - 1) \in Seq(Events)
        /\ Len(SubSeq(log, 1, i - 1)) = i - 1
        /\ \A j \in 1..i-1 : SubSeq(log, 1, i - 1)[j] = log[j]
    BY <2>1
  <2>3. /\ SubSeq(Append(log, e), 1, i - 1) \in Seq(Events)
        /\ Len(SubSeq(Append(log, e), 1, i - 1)) = i - 1
        /\ \A j \in 1..i-1 : SubSeq(Append(log, e), 1, i - 1)[j] = log[j]
    BY <2>1, AppendFacts
  <2> QED
    BY <2>2, <2>3, SeqEqual
<1>2. SubSeq(log, 1, Len(log)) = log
  BY SubSeqFull
<1> QED
  BY <1>1, <1>2, AppendFacts DEF Before

-----------------------------------------------------------------------------
(* Replaying a log.  "f records the business states along log" is the      *)
(* recursion of BusinessStateFromEvents with its function made explicit.   *)

Records(f, log) ==
  f = [n \in 0..Len(log) |->
         IF n = 0 THEN InitialBusinessState
         ELSE ApplyBusinessStateEvent(f[n - 1], log[n])]

FoldsTo(log, b) ==
  /\ \E f : Records(f, log)
  /\ \A f : Records(f, log) => f[Len(log)] = b

LEMMA FoldValue ==
  ASSUME NEW log, NEW b, FoldsTo(log, b)
  PROVE  BusinessStateFromEvents(log) = b
BY DEF FoldsTo, Records, BusinessStateFromEvents

LEMMA FoldAppend ==
  ASSUME NEW log \in Seq(Events), NEW e \in Events, NEW b, FoldsTo(log, b)
  PROVE  FoldsTo(Append(log, e), ApplyBusinessStateEvent(b, e))
<1> DEFINE n == Len(log)
           new == Append(log, e)
<1>0. n \in Nat /\ Len(new) = n + 1 /\ new[n + 1] = e
         /\ \A i \in 1..n : new[i] = log[i]
  BY AppendFacts
<1>1. \E g : Records(g, new)
  <2>1. PICK f : Records(f, log)
    BY DEF FoldsTo
  <2> DEFINE g == [i \in 0..(n + 1) |->
                     IF i <= n THEN f[i] ELSE ApplyBusinessStateEvent(f[n], e)]
  <2>2. ASSUME NEW i \in 0..(n + 1)
        PROVE  g[i] = IF i = 0 THEN InitialBusinessState
                      ELSE ApplyBusinessStateEvent(g[i - 1], new[i])
    <3>1. CASE i = 0
      BY <1>0, <2>1, <3>1 DEF Records
    <3>2. CASE i \in 1..n
      <4>1. g[i] = f[i] /\ g[i - 1] = f[i - 1] /\ new[i] = log[i]
        BY <1>0, <3>2
      <4>2. f[i] = ApplyBusinessStateEvent(f[i - 1], log[i])
        BY <1>0, <2>1, <3>2 DEF Records
      <4> QED
        BY <1>0, <3>2, <4>1, <4>2
    <3>3. CASE i = n + 1
      <4>1. g[i] = ApplyBusinessStateEvent(f[n], e)
        BY <1>0, <3>3
      <4>2. g[i - 1] = f[n] /\ new[i] = e
        BY <1>0, <3>3
      <4> QED
        BY <1>0, <3>3, <4>1, <4>2
    <3> QED
      BY <1>0, <3>1, <3>2, <3>3
  <2>3. Records(g, new)
    <3> DEFINE h == [i \in 0..Len(new) |->
                       IF i = 0 THEN InitialBusinessState
                       ELSE ApplyBusinessStateEvent(g[i - 1], new[i])]
    <3>1. \A i \in 0..(n + 1) : g[i] = h[i]
      BY <1>0, <2>2
    <3>2. g = [i \in 0..(n + 1) |-> g[i]]
      OBVIOUS
    <3>3. h = [i \in 0..(n + 1) |-> h[i]]
      BY <1>0
    <3> HIDE DEF g
    <3>4. [i \in 0..(n + 1) |-> g[i]] = [i \in 0..(n + 1) |-> h[i]]
      BY <3>1
    <3> QED
      BY <3>2, <3>3, <3>4 DEF Records
  <2> HIDE DEF g
  <2> QED
    BY <2>3
<1>2. ASSUME NEW g, Records(g, new)
      PROVE  g[Len(new)] = ApplyBusinessStateEvent(b, e)
  <2> DEFINE f == [i \in 0..n |-> g[i]]
  <2>1. \A i \in 0..(n + 1) :
          g[i] = IF i = 0 THEN InitialBusinessState
                 ELSE ApplyBusinessStateEvent(g[i - 1], new[i])
    BY <1>0, <1>2 DEF Records
  <2>2. \A i \in 0..n :
          f[i] = IF i = 0 THEN InitialBusinessState
                 ELSE ApplyBusinessStateEvent(f[i - 1], log[i])
    <3> TAKE i \in 0..n
    <3>1. CASE i = 0
      BY <1>0, <2>1, <3>1
    <3>2. CASE i \in 1..n
      <4>1. f[i] = g[i] /\ f[i - 1] = g[i - 1] /\ new[i] = log[i]
        BY <1>0, <3>2
      <4>2. g[i] = ApplyBusinessStateEvent(g[i - 1], new[i])
        BY <1>0, <2>1, <3>2
      <4> QED
        BY <1>0, <3>2, <4>1, <4>2
    <3> QED
      BY <1>0, <3>1, <3>2
  <2>3. Records(f, log)
    <3> DEFINE h == [i \in 0..n |->
                       IF i = 0 THEN InitialBusinessState
                       ELSE ApplyBusinessStateEvent(f[i - 1], log[i])]
    <3>1. \A i \in 0..n : f[i] = h[i]
      BY <2>2
    <3>2. f = [i \in 0..n |-> f[i]]
      OBVIOUS
    <3> HIDE DEF f
    <3>3. h = [i \in 0..n |-> f[i]]
      BY <3>1
    <3> QED
      BY <3>2, <3>3 DEF Records
  <2>4. g[n] = b
    <3>1. f[n] = g[n]
      BY <1>0
    <3> QED
      BY <2>3, <3>1 DEF FoldsTo
  <2>5. g[n + 1] = ApplyBusinessStateEvent(g[n], new[n + 1])
    BY <1>0, <2>1
  <2> QED
    BY <1>0, <2>4, <2>5
<1> QED
  BY <1>1, <1>2 DEF FoldsTo

\* Equal but for the phase, which a recorded step overwrites.
SameButPhase(b, c) ==
  /\ b.pending = c.pending
  /\ b.approved = c.approved
  /\ b.completed = c.completed
  /\ b.last = c.last

LEMMA PhaseTyped ==
  ASSUME NEW phase \in Phases, NEW e \in Events
  PROVE  PhaseAfterEvent(phase, e) \in Phases
<1> USE DEF PhaseAfterEvent, Phases
<1>1. CASE e.type = "candidate_context_ready"
  BY <1>1
<1>2. CASE e.type = "human_escalation_requested"
  BY <1>2
<1>3. CASE e.type = "human_decision_recorded"
  BY <1>3
<1>4. CASE e.type = "local_gate_passed"
  BY <1>4
<1>5. CASE e.type = "runtime_error_compacted"
  BY <1>5
<1>6. CASE e.type \notin {"candidate_context_ready", "human_escalation_requested",
                          "human_decision_recorded", "local_gate_passed",
                          "runtime_error_compacted"}
  BY <1>6
<1> QED
  BY <1>1, <1>2, <1>3, <1>4, <1>5, <1>6

LEMMA PendingTyped ==
  ASSUME NEW pending \in SUBSET Escalations, NEW e \in Events
  PROVE  PendingAfterEvent(pending, e) \in SUBSET Escalations
<1>1. CASE e.type = "human_escalation_requested"
  BY <1>1 DEF PendingAfterEvent, Events
<1>2. CASE e.type = "human_decision_recorded"
  BY <1>2 DEF PendingAfterEvent
<1>3. CASE e.type \notin {"human_escalation_requested", "human_decision_recorded"}
  BY <1>3 DEF PendingAfterEvent
<1> QED
  BY <1>1, <1>2, <1>3

LEMMA BusinessTyped ==
  ASSUME NEW b \in BusinessStates, NEW e \in Events
  PROVE  BusinessAfterEvent(b, e) \in BusinessStates
<1>1. b.phase \in Phases /\ b.pending \in SUBSET Escalations
        /\ b.approved \in Nat /\ b.completed \in Nat
        /\ b.last \in Decisions \cup {None}
  BY DEF BusinessStates
<1>2. e.decision \in Decisions \cup {None}
  BY DEF Events
<1> QED
  BY <1>1, <1>2, PhaseTyped, PendingTyped DEF BusinessAfterEvent, BusinessStates

LEMMA AppendTyped ==
  ASSUME NEW t \in Threads, NEW e \in Events
  PROVE  /\ AppendThreadEvent(t, e) \in Threads
         /\ AppendThreadEvent(t, e).log = Append(t.log, e)
         /\ AppendThreadEvent(t, e).status = t.status
         /\ AppendThreadEvent(t, e).latest = t.latest
         /\ AppendThreadEvent(t, e).business = BusinessAfterEvent(t.business, e)
<1>1. /\ Append(t.log, e) \in Seq(Events)
      /\ BusinessAfterEvent(t.business, e) \in BusinessStates
      /\ t.status \in Statuses
      /\ t.latest \in Steps
  BY AppendFacts, BusinessTyped DEF Threads
<1> QED
  BY <1>1 DEF AppendThreadEvent, Threads

\* applyBusinessStateEvent does to the four fields what appendThreadEvent does.
LEMMA ApplyIsAppend ==
  ASSUME NEW b \in BusinessStates, NEW c \in BusinessStates, NEW e \in Events,
         SameButPhase(b, c)
  PROVE  /\ ApplyBusinessStateEvent(b, e) \in BusinessStates
         /\ SameButPhase(ApplyBusinessStateEvent(b, e), BusinessAfterEvent(c, e))
<1> DEFINE a == ApplyBusinessStateEvent(b, e)
           d == BusinessAfterEvent(c, e)
<1>0. /\ d.pending = PendingAfterEvent(c.pending, e)
      /\ d.approved = IF /\ e.type = "human_decision_recorded"
                         /\ e.decision \in Approving
                      THEN c.approved + 1 ELSE c.approved
      /\ d.completed = IF e.type = "local_gate_passed"
                       THEN c.completed + 1 ELSE c.completed
      /\ d.last = IF e.type = "human_decision_recorded"
                  THEN e.decision ELSE c.last
  BY DEF BusinessAfterEvent
<1>b. /\ b = [phase |-> b.phase, pending |-> b.pending, approved |-> b.approved,
              completed |-> b.completed, last |-> b.last]
      /\ b.phase \in Phases /\ b.pending \in SUBSET Escalations
      /\ b.approved \in Nat /\ b.completed \in Nat
      /\ b.last \in Decisions \cup {None}
  BY DEF BusinessStates
<1>e. e.id \in Escalations \cup {None} /\ e.decision \in Decisions \cup {None}
  BY DEF Events
<1> HIDE DEF d
<1>1. CASE e.type = "candidate_context_ready"
  <2>1. a = [phase |-> "context_ready",
            pending |-> b.pending,
            approved |-> b.approved,
            completed |-> b.completed,
            last |-> b.last]
    BY <1>1, <1>b DEF ApplyBusinessStateEvent
  <2>2. d.pending = c.pending
    BY <1>0, <1>1 DEF PendingAfterEvent
  <2> HIDE DEF a
  <2>3. a \in BusinessStates
    BY <1>b, <1>e, <2>1 DEF BusinessStates, Phases
  <2>4. SameButPhase(a, d)
    BY <1>0, <1>1, <1>b, <2>1, <2>2 DEF SameButPhase
  <2> QED
    BY <2>3, <2>4 DEF a, d
<1>2. CASE e.type = "human_escalation_requested"
  <2>1. a = [phase |-> "waiting_for_human",
            pending |-> b.pending \cup ({e.id} \ {None}),
            approved |-> b.approved,
            completed |-> b.completed,
            last |-> b.last]
    BY <1>2, <1>b DEF ApplyBusinessStateEvent
  <2>2. d.pending = c.pending \cup ({e.id} \ {None})
    BY <1>0, <1>2 DEF PendingAfterEvent
  <2> HIDE DEF a
  <2>3. a \in BusinessStates
    BY <1>b, <1>e, <2>1 DEF BusinessStates, Phases
  <2>4. SameButPhase(a, d)
    BY <1>0, <1>2, <1>b, <2>1, <2>2 DEF SameButPhase
  <2> QED
    BY <2>3, <2>4 DEF a, d
<1>3. CASE e.type = "human_decision_recorded"
  <2>1. a = [phase |-> IF e.decision \in Holding THEN "held" ELSE "resumed",
            pending |-> b.pending \ {e.id},
            approved |-> IF e.decision \in Approving
                         THEN b.approved + 1 ELSE b.approved,
            completed |-> b.completed,
            last |-> e.decision]
    BY <1>3, <1>b DEF ApplyBusinessStateEvent
  <2>2. d.pending = c.pending \ {e.id}
    BY <1>0, <1>3 DEF PendingAfterEvent
  <2> HIDE DEF a
  <2>3. a \in BusinessStates
    BY <1>b, <1>e, <2>1 DEF BusinessStates, Phases
  <2>4. SameButPhase(a, d)
    BY <1>0, <1>3, <1>b, <2>1, <2>2 DEF SameButPhase
  <2> QED
    BY <2>3, <2>4 DEF a, d
<1>4. CASE e.type = "local_gate_passed"
  <2>1. a = [phase |-> "completed",
            pending |-> b.pending,
            approved |-> b.approved,
            completed |-> b.completed + 1,
            last |-> b.last]
    BY <1>4, <1>b DEF ApplyBusinessStateEvent
  <2>2. d.pending = c.pending
    BY <1>0, <1>4 DEF PendingAfterEvent
  <2> HIDE DEF a
  <2>3. a \in BusinessStates
    BY <1>b, <1>e, <2>1 DEF BusinessStates, Phases
  <2>4. SameButPhase(a, d)
    BY <1>0, <1>4, <1>b, <2>1, <2>2 DEF SameButPhase
  <2> QED
    BY <2>3, <2>4 DEF a, d
<1>5. CASE e.type = "runtime_error_compacted"
  <2>1. a = [phase |-> "failed",
            pending |-> b.pending,
            approved |-> b.approved,
            completed |-> b.completed,
            last |-> b.last]
    BY <1>5, <1>b DEF ApplyBusinessStateEvent
  <2>2. d.pending = c.pending
    BY <1>0, <1>5 DEF PendingAfterEvent
  <2> HIDE DEF a
  <2>3. a \in BusinessStates
    BY <1>b, <1>e, <2>1 DEF BusinessStates, Phases
  <2>4. SameButPhase(a, d)
    BY <1>0, <1>5, <1>b, <2>1, <2>2 DEF SameButPhase
  <2> QED
    BY <2>3, <2>4 DEF a, d
<1>7. CASE e.type = "thread_completed"
  <2>1. a = [phase |-> "completed",
            pending |-> b.pending,
            approved |-> b.approved,
            completed |-> b.completed,
            last |-> b.last]
    BY <1>7, <1>b DEF ApplyBusinessStateEvent
  <2>2. d.pending = c.pending
    BY <1>0, <1>7 DEF PendingAfterEvent
  <2> HIDE DEF a
  <2>3. a \in BusinessStates
    BY <1>b, <1>e, <2>1 DEF BusinessStates, Phases
  <2>4. SameButPhase(a, d)
    BY <1>0, <1>7, <1>b, <2>1, <2>2 DEF SameButPhase
  <2> QED
    BY <2>3, <2>4 DEF a, d
<1>8. CASE e.type = "thread_held"
  <2>1. a = [phase |-> "held",
            pending |-> b.pending,
            approved |-> b.approved,
            completed |-> b.completed,
            last |-> b.last]
    BY <1>8, <1>b DEF ApplyBusinessStateEvent
  <2>2. d.pending = c.pending
    BY <1>0, <1>8 DEF PendingAfterEvent
  <2> HIDE DEF a
  <2>3. a \in BusinessStates
    BY <1>b, <1>e, <2>1 DEF BusinessStates, Phases
  <2>4. SameButPhase(a, d)
    BY <1>0, <1>8, <1>b, <2>1, <2>2 DEF SameButPhase
  <2> QED
    BY <2>3, <2>4 DEF a, d
<1>6. CASE e.type \notin {"candidate_context_ready", "human_escalation_requested",
                          "human_decision_recorded", "local_gate_passed",
                          "runtime_error_compacted", "thread_completed",
                          "thread_held"}
  <2>1. a = [phase |-> b.phase,
            pending |-> b.pending,
            approved |-> b.approved,
            completed |-> b.completed,
            last |-> b.last]
    BY <1>6, <1>b DEF ApplyBusinessStateEvent
  <2>2. d.pending = c.pending
    BY <1>0, <1>6 DEF PendingAfterEvent
  <2> HIDE DEF a
  <2>3. a \in BusinessStates
    BY <1>b, <1>e, <2>1 DEF BusinessStates, Phases
  <2>4. SameButPhase(a, d)
    BY <1>0, <1>6, <1>b, <2>1, <2>2 DEF SameButPhase
  <2> QED
    BY <2>3, <2>4 DEF a, d
<1> QED
  BY <1>1, <1>2, <1>3, <1>4, <1>5, <1>6, <1>7, <1>8 DEF d

-----------------------------------------------------------------------------
(* The inductive invariant, as a predicate of a thread.                    *)

Answered(t) ==
  /\ HasLatest(t.log)
  /\ LatestDecision(t.log) = None <=> ~HasEvent(t.log, "human_decision_recorded")
  /\ RequestedIds(t.log) \subseteq t.business.pending \cup DecidedEscalationIds(t.log)

FailureShown(t) == t.status = "failed" => HasEvent(t.log, "runtime_error_compacted")

Folded(t) ==
  \E b \in BusinessStates : FoldsTo(t.log, b) /\ SameButPhase(b, t.business)

EventDue(log, e) ==
  /\ e.type = "human_decision_recorded" => e.decision # None
  /\ e.type = "human_escalation_requested" => e.id # None
  /\ e.step = "complete" => CompletionDue(log)
  /\ e.type = "local_gate_passed" => GateDue(log)

Earned(log) ==
  \A i \in DOMAIN log :
    /\ log[i].step = "complete" => CompletionDue(Before(log, i))
    /\ log[i].type = "local_gate_passed" => GateDue(Before(log, i))

Core(t) ==
  t \in Threads /\ Answered(t) /\ FailureShown(t) /\ Folded(t) /\ Earned(t.log)

\* A thread that just recorded a step shows that step.
Settled(t) ==
  t.log[Len(t.log)].type = "next_step_determined" =>
    /\ t.latest = BuildStep(t, 0)
    /\ t.status = StatusForStep(t.latest.type)
    /\ t.business.phase = PhaseForStep(t.latest.type)

LEMMA AnsweredAppend ==
  ASSUME NEW t \in Threads, Answered(t), NEW e \in Events, EventDue(t.log, e)
  PROVE  Answered(AppendThreadEvent(t, e))
<1> DEFINE u == AppendThreadEvent(t, e)
<1>0. t.log \in Seq(Events) /\ u.log = Append(t.log, e)
        /\ u.business.pending = PendingAfterEvent(t.business.pending, e)
  BY DEF AppendThreadEvent, Threads, BusinessAfterEvent
<1>1. HasLatest(u.log) /\ LatestDecision(u.log) =
         IF e.type = "human_decision_recorded" THEN e.decision
         ELSE LatestDecision(t.log)
  BY <1>0, LatestAppend DEF Answered
<1>2. HasEvent(u.log, "human_decision_recorded") <=>
         \/ HasEvent(t.log, "human_decision_recorded")
         \/ e.type = "human_decision_recorded"
  BY <1>0, HasEventAppend
<1>3. RequestedIds(u.log) \subseteq u.business.pending \cup DecidedEscalationIds(u.log)
  <2>1. CASE e.type = "human_escalation_requested"
    <3>1. u.business.pending = t.business.pending \cup ({e.id} \ {None})
      BY <1>0, <2>1 DEF PendingAfterEvent
    <3>2. RequestedIds(u.log) = RequestedIds(t.log) \cup {e.id}
      BY <1>0, <2>1, RequestedAppend
    <3>3. DecidedEscalationIds(u.log) = DecidedEscalationIds(t.log)
      BY <1>0, <2>1, DecidedAppend
    <3> QED
      BY <2>1, <3>1, <3>2, <3>3 DEF Answered, EventDue
  <2>2. CASE e.type = "human_decision_recorded"
    <3>1. u.business.pending = t.business.pending \ {e.id}
      BY <1>0, <2>2 DEF PendingAfterEvent
    <3>2. RequestedIds(u.log) = RequestedIds(t.log)
      BY <1>0, <2>2, RequestedAppend
    <3>3. DecidedEscalationIds(u.log) = DecidedEscalationIds(t.log) \cup ({e.id} \ {None})
      BY <1>0, <2>2, DecidedAppend
    <3>4. None \notin t.business.pending
      BY NamesAssumption DEF Threads, BusinessStates
    <3> QED
      BY <3>1, <3>2, <3>3, <3>4 DEF Answered
  <2>3. CASE e.type \notin {"human_escalation_requested", "human_decision_recorded"}
    <3>1. u.business.pending = t.business.pending
      BY <1>0, <2>3 DEF PendingAfterEvent
    <3>2. RequestedIds(u.log) = RequestedIds(t.log)
      BY <1>0, <2>3, RequestedAppend
    <3>3. DecidedEscalationIds(u.log) = DecidedEscalationIds(t.log)
      BY <1>0, <2>3, DecidedAppend
    <3> QED
      BY <3>1, <3>2, <3>3 DEF Answered
  <2> QED
    BY <2>1, <2>2, <2>3
<1> QED
  BY <1>1, <1>2, <1>3 DEF Answered, EventDue

LEMMA EarnedAppend ==
  ASSUME NEW log \in Seq(Events), Earned(log), NEW e \in Events, EventDue(log, e)
  PROVE  Earned(Append(log, e))
<1> SUFFICES ASSUME NEW i \in DOMAIN Append(log, e)
             PROVE  LET x == Append(log, e)[i]
                        past == Before(Append(log, e), i)
                    IN  /\ x.step = "complete" => CompletionDue(past)
                        /\ x.type = "local_gate_passed" => GateDue(past)
  BY DEF Earned
<1>1. CASE i \in DOMAIN log
  BY <1>1, AppendFacts, BeforeAppend DEF Earned
<1>2. CASE i = Len(log) + 1
  BY <1>2, AppendFacts, BeforeAppend DEF EventDue
<1> QED
  BY <1>1, <1>2, AppendFacts

LEMMA FoldedAppend ==
  ASSUME NEW t \in Threads, Folded(t), NEW e \in Events
  PROVE  Folded(AppendThreadEvent(t, e))
<1>1. PICK b \in BusinessStates : FoldsTo(t.log, b) /\ SameButPhase(b, t.business)
  BY DEF Folded
<1>2. t.log \in Seq(Events) /\ t.business \in BusinessStates
  BY DEF Threads
<1>3. FoldsTo(Append(t.log, e), ApplyBusinessStateEvent(b, e))
  BY <1>1, <1>2, FoldAppend
<1>4. /\ ApplyBusinessStateEvent(b, e) \in BusinessStates
      /\ SameButPhase(ApplyBusinessStateEvent(b, e), BusinessAfterEvent(t.business, e))
  BY <1>1, <1>2, ApplyIsAppend
<1> QED
  BY <1>3, <1>4, AppendTyped DEF Folded

LEMMA CoreAppend ==
  ASSUME NEW t, Core(t), NEW e \in Events, EventDue(t.log, e)
  PROVE  Core(AppendThreadEvent(t, e))
<1> DEFINE u == AppendThreadEvent(t, e)
<1>1. t \in Threads /\ t.log \in Seq(Events)
  BY DEF Core, Threads
<1>2. u \in Threads /\ u.log = Append(t.log, e) /\ u.status = t.status
  BY <1>1, AppendTyped
<1>3. Answered(u) /\ Folded(u)
  BY <1>1, AnsweredAppend, FoldedAppend DEF Core
<1>4. FailureShown(u)
  BY <1>1, <1>2, HasEventAppend DEF Core, FailureShown
<1>5. Earned(u.log)
  BY <1>1, <1>2, EarnedAppend DEF Core
<1> QED
  BY <1>2, <1>3, <1>4, <1>5 DEF Core

-----------------------------------------------------------------------------
(* The next step.                                                          *)

LEMMA StepTyped ==
  ASSUME NEW t \in Threads, NEW k \in Nat
  PROVE  /\ DetermineNextStep(t) \in StepTypes
         /\ BuildStep(t, k) \in Steps
         /\ BuildStep(t, k).type = DetermineNextStep(t)
<1>1. DetermineNextStep(t) \in StepTypes
  BY DEF DetermineNextStep, StepTypes
<1>2. Len(t.log) + k \in Nat
  BY DEF Threads
<1> QED
  BY <1>1, <1>2 DEF BuildStep, Steps

LEMMA StatusTyped ==
  ASSUME NEW step \in StepTypes
  PROVE  /\ StatusForStep(step) \in Statuses
         /\ PhaseForStep(step) \in Phases
         /\ StatusForStep(step) = "failed" <=> step = "error"
BY DEF StepTypes, StatusForStep, PhaseForStep, Statuses, Phases

\* The step depends on the log and the pending escalations only.
LEMMA SameStep ==
  ASSUME NEW t, NEW u, t.log = u.log, t.business.pending = u.business.pending,
         FailureShown(t), FailureShown(u)
  PROVE  DetermineNextStep(t) = DetermineNextStep(u)
BY DEF DetermineNextStep, Unresolved, FailureShown

LEMMA CompleteIsDue ==
  ASSUME NEW t, Core(t), DetermineNextStep(t) = "complete"
  PROVE  CompletionDue(t.log)
BY DEF Core, Answered, DetermineNextStep, Unresolved, CompletionDue, MayGoOn

LEMMA PublishCore ==
  ASSUME NEW t, Core(t), NEW s \in Steps,
         s.type = "error" => HasEvent(t.log, "runtime_error_compacted")
  PROVE  /\ Core(Publish(t, s))
         /\ Publish(t, s).log = t.log
         /\ Publish(t, s).business.pending = t.business.pending
<1> DEFINE u == Publish(t, s)
<1>1. s.type \in StepTypes
  BY DEF Steps
<1>2. StatusForStep(s.type) \in Statuses /\ PhaseForStep(s.type) \in Phases
  BY <1>1, StatusTyped
<1>3. /\ t.log \in Seq(Events) /\ t.business \in BusinessStates
      /\ u.log = t.log /\ u.latest = s /\ u.status = StatusForStep(s.type)
      /\ u.business = [t.business EXCEPT !.phase = PhaseForStep(s.type)]
  BY DEF Core, Threads, Publish
<1>4. u.business \in BusinessStates /\ SameButPhase(t.business, u.business)
  BY <1>2, <1>3 DEF BusinessStates, SameButPhase
<1>5. u \in Threads
  BY <1>2, <1>3, <1>4 DEF Publish, Threads
<1>6. Answered(u) /\ Earned(u.log)
  BY <1>3, <1>4 DEF Core, Answered, SameButPhase
<1>7. FailureShown(u)
  BY <1>1, <1>3, StatusTyped DEF FailureShown
<1>8. Folded(u)
  BY <1>3, <1>4 DEF Core, Folded, SameButPhase
<1> QED
  BY <1>3, <1>4, <1>5, <1>6, <1>7, <1>8 DEF Core, SameButPhase

LEMMA AdvanceCore ==
  ASSUME NEW t, Core(t)
  PROVE  Core(Advance(t)) /\ Settled(Advance(t))
<1> DEFINE s == BuildStep(t, 1)
           e == StepEvent(s.type)
           w == AppendThreadEvent(t, e)
           u == Publish(w, s)
<1>1. t \in Threads /\ t.log \in Seq(Events) /\ Len(t.log) \in Nat
  BY DEF Core, Threads
<1>2. s \in Steps /\ s.type \in StepTypes /\ s.type = DetermineNextStep(t)
        /\ s.at = Len(t.log) + 1
  BY <1>1, StepTyped DEF BuildStep
<1>3. /\ e.type = "next_step_determined" /\ e.step = s.type
      /\ e \in Events
  BY <1>2 DEF StepEvent, Event, Events, EventTypes
<1> HIDE DEF s, e
<1>4. EventDue(t.log, e)
  BY <1>2, <1>3, CompleteIsDue DEF EventDue
<1>5. Core(w) /\ w.log = Append(t.log, e) /\ w.status = t.status
  BY <1>1, <1>3, <1>4, CoreAppend, AppendTyped
<1>6. \A type : type # "next_step_determined" =>
                  (HasEvent(w.log, type) <=> HasEvent(t.log, type))
  BY <1>1, <1>3, <1>5, HasEventAppend
<1>7. DetermineNextStep(w) = DetermineNextStep(t)
  <2>1. w.business.pending = t.business.pending
    BY <1>3 DEF AppendThreadEvent, BusinessAfterEvent, PendingAfterEvent
  <2>2. DecidedEscalationIds(w.log) = DecidedEscalationIds(t.log)
    BY <1>1, <1>3, <1>5, DecidedAppend
  <2>3. LatestDecision(w.log) = LatestDecision(t.log)
    BY <1>1, <1>3, <1>5, LatestAppend DEF Core, Answered
  <2> HIDE DEF w
  <2> QED
    BY <1>5, <1>6, <2>1, <2>2, <2>3 DEF DetermineNextStep, Unresolved
<1> HIDE DEF w
<1>8. s.type = "error" => HasEvent(w.log, "runtime_error_compacted")
  BY <1>2, <1>6 DEF Core, FailureShown, DetermineNextStep
<1>9. Core(u) /\ u.log = w.log /\ u.business.pending = w.business.pending
  BY <1>2, <1>5, <1>8, PublishCore
<1>10. Settled(u)
  <2>1. DetermineNextStep(u) = DetermineNextStep(w)
    <3> HIDE DEF u
    <3> QED
      BY <1>5, <1>9, SameStep DEF Core
  <2>2. BuildStep(u, 0) = s
    <3>1. Len(u.log) = Len(t.log) + 1
      BY <1>1, <1>3, <1>5, <1>9, AppendFacts
    <3>2. Len(u.log) + 0 = s.at
      BY <1>1, <1>2, <3>1
    <3>3. s = [type |-> s.type, at |-> s.at]
      BY <1>2 DEF Steps
    <3> QED
      BY <1>2, <1>7, <2>1, <3>2, <3>3 DEF BuildStep
  <2>3. u.latest = s /\ u.status = StatusForStep(s.type)
          /\ u.business.phase = PhaseForStep(s.type)
    BY <1>5 DEF Publish, Core, Threads, BusinessStates
  <2> HIDE DEF u
  <2> QED
    BY <2>2, <2>3 DEF Settled
<1>11. Advance(t) = u
  BY DEF Advance, RecordNextStep, u, w, e, s
<1> QED
  BY <1>9, <1>10, <1>11

LEMMA ReplayCore ==
  ASSUME NEW t, Core(t)
  PROVE  /\ Core(ReplayRuntimeThread(t)) /\ Settled(ReplayRuntimeThread(t))
         /\ ReplayRuntimeThread(t).log = t.log
         /\ ReplayRuntimeThread(t).business.pending = t.business.pending
         /\ ReplayRuntimeThread(t).latest = BuildStep(t, 0)
         /\ ReplayRuntimeThread(t).status = StatusForStep(DetermineNextStep(t))
         /\ ReplayRuntimeThread(t).business.phase = PhaseForStep(DetermineNextStep(t))
         /\ SameButPhase(ReplayRuntimeThread(t).business, t.business)
<1> DEFINE b == BusinessStateFromEvents(t.log)
           base == [log |-> t.log, status |-> "running", business |-> b,
                    latest |-> t.latest]
           s == BuildStep(base, 0)
           u == Publish(base, s)
<1>1. t \in Threads /\ t.log \in Seq(Events) /\ Len(t.log) \in Nat
  BY DEF Core, Threads
<1>2. b \in BusinessStates /\ FoldsTo(t.log, b) /\ SameButPhase(b, t.business)
  BY FoldValue DEF Core, Folded
<1> HIDE DEF b
<1>3. Core(base)
  <2>1. base \in Threads
    BY <1>1, <1>2 DEF Threads, Statuses
  <2>2. Answered(base)
    BY <1>2 DEF Core, Answered, SameButPhase
  <2>3. FailureShown(base)
    BY DEF FailureShown
  <2>4. Folded(base)
    BY <1>2 DEF Folded, SameButPhase
  <2> QED
    BY <2>1, <2>2, <2>3, <2>4 DEF Core
<1>4. DetermineNextStep(base) = DetermineNextStep(t)
  BY <1>2, <1>3, SameStep DEF Core, SameButPhase
<1>5. /\ s \in Steps /\ s.type = DetermineNextStep(base)
      /\ s = BuildStep(t, 0)
  BY <1>1, <1>3, <1>4, StepTyped DEF BuildStep, Core
<1>6. s.type = "error" => HasEvent(base.log, "runtime_error_compacted")
  BY <1>5 DEF DetermineNextStep
<1> HIDE DEF s
<1>7. Core(u) /\ u.log = t.log /\ u.business.pending = b.pending
  <2> HIDE DEF base
  <2>1. Core(u) /\ u.log = base.log /\ u.business.pending = base.business.pending
    BY <1>3, <1>5, <1>6, PublishCore
  <2> QED
    BY <2>1 DEF base
<1>8. /\ u.latest = s /\ u.status = StatusForStep(s.type)
      /\ u.business = [b EXCEPT !.phase = PhaseForStep(s.type)]
  BY DEF Publish
<1>9. /\ u.business.phase = PhaseForStep(s.type)
      /\ SameButPhase(u.business, t.business)
  BY <1>2, <1>8 DEF BusinessStates, SameButPhase
<1>10. DetermineNextStep(u) = DetermineNextStep(t)
  BY <1>2, <1>7, SameStep DEF Core, SameButPhase
<1>11. Settled(u)
  <2> HIDE DEF u
  <2> QED
    BY <1>4, <1>5, <1>7, <1>8, <1>9, <1>10 DEF Settled, BuildStep
<1>12. ReplayRuntimeThread(t) = u
  BY DEF ReplayRuntimeThread, u, s, base, b
<1> HIDE DEF u
<1> QED
  BY <1>2, <1>4, <1>5, <1>7, <1>8, <1>9, <1>11, <1>12 DEF SameButPhase

LEMMA EventsTyped ==
  /\ \A type \in EventTypes : Event(type) \in Events
  /\ \A e \in Escalations : EscalationEvent(e) \in Events
  /\ \A d \in Decisions, e \in Escalations \cup {None} : DecisionEvent(d, e) \in Events
BY DEF Event, EscalationEvent, DecisionEvent, Events, EventTypes

LEMMA ErrorCore ==
  ASSUME NEW t, Core(t)
  PROVE  Core(RecordRuntimeErrorSignal(t)) /\ Settled(RecordRuntimeErrorSignal(t))
<1> DEFINE e == Event("runtime_error_compacted")
<1>1. e \in Events /\ EventDue(t.log, e)
  BY EventsTyped DEF EventTypes, EventDue, Event, None
<1>2. Core(AppendThreadEvent(t, e))
  BY <1>1, CoreAppend
<1> QED
  BY <1>2, AdvanceCore DEF RecordRuntimeErrorSignal

LEMMA GateIsDue ==
  ASSUME NEW t, Core(t), NEW ok, EvaluateRuntimeLocalGate(t, ok)
  PROVE  GateDue(t.log)
<1>1. /\ HasEvent(t.log, "candidate_context_ready")
      /\ HasEvent(t.log, "candidate_reducer_ready")
      /\ HasEvent(t.log, "human_decision_recorded")
      /\ Unresolved(t) = {}
      /\ DetermineNextStep(t) = "run_local_gate"
  BY DEF EvaluateRuntimeLocalGate
<1> QED
  BY <1>1 DEF Core, Answered, Unresolved, DetermineNextStep, GateDue, MayGoOn

LEMMA GateCore ==
  ASSUME NEW t, Core(t), NEW ok
  PROVE  Core(RecordRuntimeLocalGate(t, ok)) /\ Settled(RecordRuntimeLocalGate(t, ok))
<1>1. CASE EvaluateRuntimeLocalGate(t, ok)
  <2> DEFINE e == Event("local_gate_passed")
  <2>1. e \in Events /\ EventDue(t.log, e)
    BY <1>1, EventsTyped, GateIsDue DEF EventTypes, EventDue, Event, None
  <2>2. Core(AppendThreadEvent(t, e))
    BY <2>1, CoreAppend
  <2> QED
    BY <1>1, <2>2, AdvanceCore DEF RecordRuntimeLocalGate
<1>2. CASE ~EvaluateRuntimeLocalGate(t, ok)
  BY <1>2, ErrorCore DEF RecordRuntimeLocalGate
<1> QED
  BY <1>1, <1>2

\* Appending anything but a recorded step leaves nothing to be settled.
LEMMA AppendSettled ==
  ASSUME NEW t \in Threads, NEW e \in Events, e.type # "next_step_determined"
  PROVE  Settled(AppendThreadEvent(t, e))
<1>1. t.log \in Seq(Events)
  BY DEF Threads
<1>2. AppendThreadEvent(t, e).log[Len(AppendThreadEvent(t, e).log)] = e
  BY <1>1, AppendTyped, AppendFacts
<1> QED
  BY <1>2 DEF Settled

LEMMA CreatedCore ==
  Core(CreateAgentThread) /\ Settled(CreateAgentThread)
<1> DEFINE blank == [log |-> <<>>, status |-> "running",
                     business |-> InitialBusinessState,
                     latest |-> [type |-> "prepare_context", at |-> 0]]
           e == Event("thread_launched")
<1>1. e \in Events /\ EventDue(<<>>, e) /\ e.type = "thread_launched"
  BY EventsTyped DEF EventTypes, EventDue, Event, None
<1>2. InitialBusinessState \in BusinessStates
  BY DEF InitialBusinessState, BusinessStates, Phases
<1>3. blank \in Threads
  <2>1. [type |-> "prepare_context", at |-> 0] \in Steps
    BY DEF Steps, StepTypes
  <2>2. <<>> \in Seq(Events)
    OBVIOUS
  <2> QED
    BY <1>2, <2>1, <2>2 DEF Threads, Statuses
<1>4. Answered(blank)
  BY DEF Answered, HasLatest, DecisionsAt, LatestDecision, HasEvent, RequestedIds
<1>5. FailureShown(blank)
  BY DEF FailureShown
<1>6. FoldsTo(<<>>, InitialBusinessState)
  <2>1. Records([n \in 0..0 |-> InitialBusinessState], <<>>)
    BY DEF Records
  <2>2. \A f : Records(f, <<>>) => f[Len(<<>>)] = InitialBusinessState
    BY DEF Records
  <2> QED
    BY <2>1, <2>2 DEF FoldsTo
<1>7. Folded(blank)
  BY <1>2, <1>6 DEF Folded, SameButPhase
<1>8. Earned(blank.log)
  BY DEF Earned
<1>9. Core(blank)
  BY <1>3, <1>4, <1>5, <1>7, <1>8 DEF Core
<1> QED
  <2>1. EventDue(blank.log, e)
    BY <1>1
  <2> HIDE DEF blank, e
  <2>2. Core(AppendThreadEvent(blank, e)) /\ Settled(AppendThreadEvent(blank, e))
    BY <1>1, <1>9, <2>1, CoreAppend, AppendSettled DEF Core
  <2> QED
    BY <2>2 DEF CreateAgentThread, blank, e

-----------------------------------------------------------------------------
(* The invariant of the specification.                                     *)

BuildTyped ==
  build \in
    [pc : Points, todo : Seq(Escalations), decision : Decisions \cup {None},
     about : Escalations \cup {None}, gate : BOOLEAN, packetsOk : BOOLEAN,
     error : BOOLEAN]

IInv == Core(thread) /\ Settled(thread) /\ BuildTyped

LEMMA InitIInv == Init => IInv
<1> SUFFICES ASSUME Init PROVE IInv
  OBVIOUS
<1>1. Core(thread) /\ Settled(thread)
  BY CreatedCore DEF Init
<1>2. BuildTyped
  <2>1. CASE build = Idle
    BY <2>1 DEF BuildTyped, Idle, Points
  <2>2. ASSUME NEW es \in SeqOf(Escalations, MaxEscalations),
               NEW d \in Decisions \cup {None},
               NEW gate \in BOOLEAN, NEW ok \in BOOLEAN, NEW error \in BOOLEAN,
               build = StartBuild(es, d, gate, ok, error)
        PROVE  BuildTyped
    <3>1. es \in Seq(Escalations)
      BY BoundsAssumption DEF SeqOf
    <3>2. (IF es = <<>> THEN None ELSE Head(es)) \in Escalations \cup {None}
      BY <3>1
    <3> QED
      BY <2>2, <3>1, <3>2 DEF StartBuild, BuildTyped, Points
  <2> QED
    BY <2>1, <2>2 DEF Init
<1> QED
  BY <1>1, <1>2 DEF IInv

\* The builder only moves its own pointer, or becomes idle.
LEMMA BuildMoves ==
  ASSUME BuildTyped
  PROVE  /\ \A p \in Points : Goto(p) => BuildTyped'
         /\ build' = Idle => BuildTyped'
         /\ UNCHANGED build => BuildTyped'
<1>1. ASSUME NEW p \in Points, Goto(p) PROVE BuildTyped'
  BY <1>1 DEF BuildTyped, Goto
<1>2. ASSUME build' = Idle PROVE BuildTyped'
  BY <1>2 DEF BuildTyped, Idle, Points
<1> QED
  BY <1>1, <1>2 DEF BuildTyped

LEMMA AddKeeps ==
  ASSUME Core(thread), NEW e \in Events, EventDue(thread.log, e),
         e.type # "next_step_determined", Add(e)
  PROVE  Core(thread)' /\ Settled(thread)'
<1>1. thread \in Threads
  BY DEF Core
<1> QED
  BY <1>1, CoreAppend, AppendSettled DEF Add

LEMMA NextIInv == IInv /\ [Next]_vars => IInv'
<1> SUFFICES ASSUME IInv, [Next]_vars PROVE IInv'
  OBVIOUS
<1>0. Core(thread) /\ Settled(thread) /\ BuildTyped
  BY DEF IInv
<1>p. /\ \A type \in {"candidate_context_ready", "candidate_reducer_ready",
                      "thread_completed", "thread_held"} :
           /\ Event(type) \in Events /\ EventDue(thread.log, Event(type))
           /\ Event(type).type # "next_step_determined"
      /\ \A e \in Escalations :
           /\ EscalationEvent(e) \in Events
           /\ EventDue(thread.log, EscalationEvent(e))
           /\ EscalationEvent(e).type # "next_step_determined"
      /\ \A d \in Decisions, e \in Escalations \cup {None} :
           /\ DecisionEvent(d, e) \in Events
           /\ EventDue(thread.log, DecisionEvent(d, e))
           /\ DecisionEvent(d, e).type # "next_step_determined"
  BY EventsTyped, NamesAssumption
  DEF EventTypes, EventDue, Event, EscalationEvent, DecisionEvent, None
<1>1. CASE BuildContext
  <2>1. Core(thread)' /\ Settled(thread)'
    BY <1>0, <1>1, <1>p, AddKeeps DEF BuildContext
  <2> QED
    BY <1>0, <1>1, <2>1, BuildMoves DEF BuildContext, Points, IInv
<1>2. CASE BuildReducer
  <2>1. Core(thread)' /\ Settled(thread)'
    BY <1>0, <1>2, <1>p, AddKeeps DEF BuildReducer
  <2> QED
    BY <1>0, <1>2, <2>1, BuildMoves DEF BuildReducer, Points, IInv
<1>3. CASE BuildEscalation
  <2>1. build.todo \in Seq(Escalations) /\ build.todo # <<>>
    BY <1>0, <1>3 DEF BuildEscalation, BuildTyped
  <2>2. Head(build.todo) \in Escalations /\ Tail(build.todo) \in Seq(Escalations)
    BY <2>1
  <2>3. Core(thread)' /\ Settled(thread)'
    BY <1>0, <1>3, <1>p, <2>2, AddKeeps DEF BuildEscalation
  <2>4. BuildTyped'
    BY <1>0, <1>3, <2>2 DEF BuildEscalation, BuildTyped
  <2> QED
    BY <2>3, <2>4 DEF IInv
<1>4. CASE BuildDecision
  <2>1. build.decision \in Decisions /\ build.about \in Escalations \cup {None}
    BY <1>0, <1>4 DEF BuildDecision, BuildTyped
  <2>2. Core(thread)' /\ Settled(thread)'
    BY <1>0, <1>4, <1>p, <2>1, AddKeeps DEF BuildDecision
  <2> QED
    BY <1>0, <1>4, <2>2, BuildMoves DEF BuildDecision, Points, IInv
<1>5. CASE BuildNextStep
  <2>1. Core(thread)' /\ Settled(thread)'
    BY <1>0, <1>5, AdvanceCore DEF BuildNextStep
  <2> QED
    BY <1>0, <1>5, <2>1, BuildMoves DEF BuildNextStep, Points, IInv
<1>6. CASE BuildLocalGate
  <2>1. Core(thread)' /\ Settled(thread)'
    BY <1>0, <1>6, GateCore DEF BuildLocalGate
  <2> QED
    BY <1>0, <1>6, <2>1, BuildMoves DEF BuildLocalGate, Points, IInv
<1>7. CASE BuildErrorSignal
  <2>1. Core(thread)' /\ Settled(thread)'
    BY <1>0, <1>7, ErrorCore DEF BuildErrorSignal
  <2> QED
    BY <1>0, <1>7, <2>1, BuildMoves DEF BuildErrorSignal, IInv
<1>8. CASE BuildReturn
  BY <1>0, <1>8, BuildMoves DEF BuildReturn, IInv
<1>9. CASE PacketReady
  <2>1. Core(thread)' /\ Settled(thread)'
    BY <1>0, <1>9, <1>p, AddKeeps DEF PacketReady
  <2> QED
    BY <1>0, <1>9, <2>1, BuildMoves DEF PacketReady, MayCall, IInv
<1>10. CASE RequestEscalation
  <2>1. Core(thread)' /\ Settled(thread)'
    BY <1>0, <1>10, <1>p, AddKeeps DEF RequestEscalation
  <2> QED
    BY <1>0, <1>10, <2>1, BuildMoves DEF RequestEscalation, MayCall, IInv
<1>11. CASE RecordDecision
  <2>1. Core(thread)' /\ Settled(thread)'
    BY <1>0, <1>11, <1>p, AddKeeps DEF RecordDecision
  <2> QED
    BY <1>0, <1>11, <2>1, BuildMoves DEF RecordDecision, MayCall, IInv
<1>12. CASE DetermineAndRecord
  <2>1. Core(thread)' /\ Settled(thread)'
    BY <1>0, <1>12, AdvanceCore DEF DetermineAndRecord
  <2> QED
    BY <1>0, <1>12, <2>1, BuildMoves DEF DetermineAndRecord, MayCall, IInv
<1>13. CASE LocalGate
  <2>1. Core(thread)' /\ Settled(thread)'
    BY <1>0, <1>13, GateCore DEF LocalGate
  <2> QED
    BY <1>0, <1>13, <2>1, BuildMoves DEF LocalGate, MayCall, IInv
<1>14. CASE ErrorSignal
  <2>1. Core(thread)' /\ Settled(thread)'
    BY <1>0, <1>14, ErrorCore DEF ErrorSignal
  <2> QED
    BY <1>0, <1>14, <2>1, BuildMoves DEF ErrorSignal, MayCall, IInv
<1>15. CASE Replay
  <2>1. Core(thread)' /\ Settled(thread)'
    BY <1>0, <1>15, ReplayCore DEF Replay
  <2> QED
    BY <1>0, <1>15, <2>1, BuildMoves DEF Replay, MayCall, IInv
<1>16. CASE ThreadClosed
  <2>1. Core(thread)' /\ Settled(thread)'
    BY <1>0, <1>16, <1>p, AddKeeps DEF ThreadClosed
  <2> QED
    BY <1>0, <1>16, <2>1, BuildMoves DEF ThreadClosed, MayCall, IInv
<1>17. CASE UNCHANGED vars
  BY <1>0, <1>17 DEF vars, IInv, BuildTyped
<1> QED
  BY <1>1, <1>2, <1>3, <1>4, <1>5, <1>6, <1>7, <1>8, <1>9, <1>10, <1>11, <1>12,
     <1>13, <1>14, <1>15, <1>16, <1>17 DEF Next, Builder, Callers

\* Whatever the builder and the callers do, the thread stays well formed, its
\* log folds to its business state, and its completions and gates were earned.
THEOREM Invariance == Spec => []IInv
BY InitIInv, NextIInv, PTL DEF Spec

\* Every value stays in its type, whatever --decision carries.
THEOREM TypeCorrect == Spec => []TypeOK
<1>1. IInv => TypeOK
  BY DEF IInv, Core, BuildTyped, TypeOK
<1> QED
  BY <1>1, Invariance, PTL

\* determineNextStep: no "complete" over an open question or an unpassed gate.
THEOREM CompletionIsEarned == Spec => []CompletionEarned
<1>1. IInv => CompletionEarned
  BY DEF IInv, Core, Earned, CompletionEarned
<1> QED
  BY <1>1, Invariance, PTL

\* evaluateRuntimeLocalGate: the gate is passed once, by a resumed thread.
THEOREM GateIsEarned == Spec => []GateEarned
<1>1. IInv => GateEarned
  BY DEF IInv, Core, Earned, GateEarned
<1> QED
  BY <1>1, Invariance, PTL

\* replayRuntimeThread: the fold over the log and the incremental updates of
\* appendThreadEvent never drift apart, for logs of every length.
THEOREM ReplayAlwaysAgrees == Spec => []ReplayAgrees
<1>1. ASSUME IInv PROVE ReplayAgrees
  <2> DEFINE t == thread
             r == ReplayRuntimeThread(t)
             rebuilt == BusinessStateFromEvents(t.log)
  <2>0. Core(t) /\ Settled(t) /\ t \in Threads
    BY <1>1 DEF IInv, Core
  <2>1. PICK b \in BusinessStates : FoldsTo(t.log, b) /\ SameButPhase(b, t.business)
    BY <2>0 DEF Core, Folded
  <2>2. rebuilt = b
    BY <2>1, FoldValue
  <2>3. [b EXCEPT !.phase = t.business.phase] = t.business
    <3>1. /\ b = [phase |-> b.phase, pending |-> b.pending,
                  approved |-> b.approved, completed |-> b.completed,
                  last |-> b.last]
          /\ t.business = [phase |-> t.business.phase,
                  pending |-> t.business.pending,
                  approved |-> t.business.approved,
                  completed |-> t.business.completed,
                  last |-> t.business.last]
      BY <2>0 DEF Threads, BusinessStates
    <3>2. [b EXCEPT !.phase = t.business.phase]
            = [phase |-> t.business.phase, pending |-> b.pending,
               approved |-> b.approved, completed |-> b.completed,
               last |-> b.last]
      BY DEF BusinessStates
    <3> QED
      BY <2>1, <3>1, <3>2 DEF SameButPhase
  <2>4. ASSUME t.log[Len(t.log)].type = "next_step_determined"
        PROVE  r = t
    <3>1. /\ t.latest = BuildStep(t, 0)
          /\ t.latest.type = DetermineNextStep(t)
          /\ t.status = StatusForStep(DetermineNextStep(t))
          /\ t.business.phase = PhaseForStep(DetermineNextStep(t))
      BY <2>0, <2>4 DEF Settled, BuildStep
    <3>2. /\ r \in Threads
          /\ r.log = t.log /\ r.latest = t.latest /\ r.status = t.status
          /\ r.business.phase = t.business.phase
          /\ SameButPhase(r.business, t.business)
      BY <2>0, <3>1, ReplayCore DEF Core
    <3> HIDE DEF r
    <3>3. r.business = t.business
      BY <2>0, <3>2 DEF Threads, BusinessStates, SameButPhase
    <3>4. /\ r = [log |-> r.log, status |-> r.status, business |-> r.business,
                  latest |-> r.latest]
          /\ t = [log |-> t.log, status |-> t.status, business |-> t.business,
                  latest |-> t.latest]
      BY <2>0, <3>2 DEF Threads
    <3> QED
      BY <3>2, <3>3, <3>4
  <2> QED
    BY <2>2, <2>3, <2>4 DEF ReplayAgrees
<1> QED
  BY <1>1, Invariance, PTL

-----------------------------------------------------------------------------
(* A failed thread stays failed.                                           *)

Broken(t) == HasEvent(t.log, "runtime_error_compacted")

StaysFailed(t, u) ==
  Broken(t) =>
    /\ u.latest # t.latest => u.latest.type = "error"
    /\ t.status = "failed" => u.status = "failed"
    /\ u.business.completed = t.business.completed

LEMMA AppendStaysFailed ==
  ASSUME NEW t \in Threads, NEW e \in Events, e.type # "local_gate_passed"
  PROVE  StaysFailed(t, AppendThreadEvent(t, e))
BY DEF StaysFailed, AppendThreadEvent, BusinessAfterEvent

LEMMA AdvanceFails ==
  ASSUME NEW t, Core(t), Broken(t)
  PROVE  /\ Advance(t).latest.type = "error"
         /\ Advance(t).status = "failed"
         /\ Advance(t).business.completed = t.business.completed
<1> DEFINE s == BuildStep(t, 1)
           w == AppendThreadEvent(t, StepEvent(s.type))
<1>1. s.type = "error"
  BY DEF BuildStep, DetermineNextStep, Broken
<1>2. w.business.completed = t.business.completed /\ w.business \in BusinessStates
  <2>1. t \in Threads /\ StepEvent(s.type) \in Events
          /\ StepEvent(s.type).type = "next_step_determined"
    BY <1>1 DEF Core, StepEvent, Event, Events, EventTypes, StepTypes
  <2>2. w \in Threads
    BY <2>1, AppendTyped
  <2> QED
    BY <2>1, <2>2 DEF AppendThreadEvent, BusinessAfterEvent, Threads
<1>3. Advance(t) = Publish(w, s)
  BY DEF Advance, RecordNextStep
<1> HIDE DEF w, s
<1> QED
  BY <1>1, <1>2, <1>3 DEF Publish, StatusForStep, BusinessStates

LEMMA ErrorStaysFailed ==
  ASSUME NEW t, Core(t)
  PROVE  /\ StaysFailed(t, RecordRuntimeErrorSignal(t))
         /\ RecordRuntimeErrorSignal(t).status = "failed"
<1> DEFINE e == Event("runtime_error_compacted")
           w == AppendThreadEvent(t, e)
<1>1. e \in Events /\ EventDue(t.log, e) /\ e.type = "runtime_error_compacted"
  BY EventsTyped DEF EventTypes, EventDue, Event, None
<1>2. Core(w)
  BY <1>1, CoreAppend
<1>3. Broken(w)
  BY <1>1, AppendTyped, HasEventAppend DEF Broken, Core, Threads
<1>4. w.business.completed = t.business.completed
  BY <1>1 DEF AppendThreadEvent, BusinessAfterEvent
<1> HIDE DEF w, e
<1> QED
  BY <1>2, <1>3, <1>4, AdvanceFails DEF StaysFailed, RecordRuntimeErrorSignal, w, e

LEMMA GateStaysFailed ==
  ASSUME NEW t, Core(t), NEW ok
  PROVE  StaysFailed(t, RecordRuntimeLocalGate(t, ok))
<1>1. CASE EvaluateRuntimeLocalGate(t, ok)
  <2>1. ~Broken(t)
    BY <1>1, GateIsDue DEF GateDue, MayGoOn, Broken
  <2> QED
    BY <2>1 DEF StaysFailed
<1>2. CASE ~EvaluateRuntimeLocalGate(t, ok)
  BY <1>2, ErrorStaysFailed DEF RecordRuntimeLocalGate
<1> QED
  BY <1>1, <1>2

\* No call un-fails a thread (determineNextStep looks for errors first).
THEOREM ThreadsFailClosed == Spec => FailClosed
<1>1. ASSUME IInv, [Next]_vars
      PROVE  [StaysFailed(thread, thread')]_vars
  <2>0. Core(thread) /\ thread \in Threads /\ BuildTyped
    BY <1>1 DEF IInv, Core
  <2>p. \A e \in Events : Add(e) /\ e.type # "local_gate_passed" =>
                            StaysFailed(thread, thread')
    BY <2>0, AppendStaysFailed DEF Add
  <2>a. thread' = Advance(thread) => StaysFailed(thread, thread')
    BY <2>0, AdvanceFails DEF StaysFailed
  <2>e. thread' = RecordRuntimeErrorSignal(thread) => StaysFailed(thread, thread')
    BY <2>0, ErrorStaysFailed
  <2>g. \A ok : thread' = RecordRuntimeLocalGate(thread, ok) =>
                  StaysFailed(thread, thread')
    BY <2>0, GateStaysFailed
  <2>t. /\ Event("candidate_context_ready").type # "local_gate_passed"
        /\ Event("candidate_reducer_ready").type # "local_gate_passed"
        /\ Event("thread_completed").type # "local_gate_passed"
        /\ Event("thread_held").type # "local_gate_passed"
        /\ \A e : EscalationEvent(e).type # "local_gate_passed"
        /\ \A d, e : DecisionEvent(d, e).type # "local_gate_passed"
    BY DEF Event, EscalationEvent, DecisionEvent
  <2>1. CASE BuildContext \/ BuildReducer \/ PacketReady \/ ThreadClosed
    BY <2>1, <2>p, <2>t, EventsTyped
    DEF BuildContext, BuildReducer, PacketReady, ThreadClosed, EventTypes
  <2>2. CASE BuildEscalation
    <3>1. Head(build.todo) \in Escalations
      BY <2>0, <2>2 DEF BuildEscalation, BuildTyped
    <3> QED
      BY <2>2, <2>p, <2>t, <3>1, EventsTyped DEF BuildEscalation
  <2>3. CASE BuildDecision
    <3>1. build.decision \in Decisions /\ build.about \in Escalations \cup {None}
      BY <2>0, <2>3 DEF BuildDecision, BuildTyped
    <3> QED
      BY <2>3, <2>p, <2>t, <3>1, EventsTyped DEF BuildDecision
  <2>4. CASE RequestEscalation \/ RecordDecision
    BY <2>4, <2>p, <2>t, EventsTyped DEF RequestEscalation, RecordDecision
  <2>5. CASE BuildNextStep \/ DetermineAndRecord
    BY <2>5, <2>a DEF BuildNextStep, DetermineAndRecord
  <2>6. CASE BuildLocalGate \/ LocalGate
    BY <2>6, <2>g DEF BuildLocalGate, LocalGate
  <2>7. CASE BuildErrorSignal \/ ErrorSignal
    BY <2>7, <2>e DEF BuildErrorSignal, ErrorSignal
  <2>8. CASE Replay
    <3>1. ReplayRuntimeThread(thread).latest = BuildStep(thread, 0)
            /\ ReplayRuntimeThread(thread).status
                 = StatusForStep(DetermineNextStep(thread))
            /\ SameButPhase(ReplayRuntimeThread(thread).business, thread.business)
      BY <2>0, ReplayCore
    <3>2. Broken(thread) => DetermineNextStep(thread) = "error"
      BY DEF Broken, DetermineNextStep
    <3> QED
      BY <2>8, <3>1, <3>2
      DEF Replay, StaysFailed, SameButPhase, BuildStep, StatusForStep
  <2>9. CASE BuildReturn \/ UNCHANGED vars
    BY <2>9 DEF BuildReturn, StaysFailed, vars
  <2> QED
    BY <1>1, <2>1, <2>2, <2>3, <2>4, <2>5, <2>6, <2>7, <2>8, <2>9
    DEF Next, Builder, Callers
<1>2. [StaysFailed(thread, thread')]_vars =>
        [HasEvent(thread.log, "runtime_error_compacted") =>
           /\ thread'.latest # thread.latest => thread'.latest.type = "error"
           /\ thread.status = "failed" => thread'.status = "failed"
           /\ thread'.business.completed = thread.business.completed]_vars
  BY DEF StaysFailed, Broken
<1> QED
  BY <1>1, <1>2, Invariance, PTL DEF Spec, FailClosed

-----------------------------------------------------------------------------
(* The thread implements ThreadAuthority.                                  *)

SameSummary(t, u) ==
  /\ Unresolved(u) = Unresolved(t)
  /\ DecidedEscalationIds(u.log) = DecidedEscalationIds(t.log)
  /\ LatestDecision(u.log) = LatestDecision(t.log)
  /\ PacketsOf(u.log) = PacketsOf(t.log)
  /\ HasEvent(u.log, "local_gate_passed") <=> HasEvent(t.log, "local_gate_passed")
  /\ Broken(u) <=> Broken(t)

LEMMA UnresolvedAppend ==
  ASSUME NEW t \in Threads, NEW e \in Events
  PROVE  Unresolved(AppendThreadEvent(t, e)) =
           CASE e.type = "human_escalation_requested" ->
                  Unresolved(t) \cup (({e.id} \ {None}) \ DecidedEscalationIds(t.log))
             [] e.type = "human_decision_recorded" -> Unresolved(t) \ {e.id}
             [] OTHER -> Unresolved(t)
<1> DEFINE u == AppendThreadEvent(t, e)
<1>0. t.log \in Seq(Events) /\ u.log = Append(t.log, e)
        /\ u.business.pending = PendingAfterEvent(t.business.pending, e)
  BY DEF AppendThreadEvent, Threads, BusinessAfterEvent
<1>1. CASE e.type = "human_escalation_requested"
  <2>1. u.business.pending = t.business.pending \cup ({e.id} \ {None})
    BY <1>0, <1>1 DEF PendingAfterEvent
  <2>2. DecidedEscalationIds(u.log) = DecidedEscalationIds(t.log)
    BY <1>0, <1>1, DecidedAppend
  <2> HIDE DEF u
  <2> QED
    BY <1>1, <2>1, <2>2 DEF Unresolved, u
<1>2. CASE e.type = "human_decision_recorded"
  <2>1. u.business.pending = t.business.pending \ {e.id}
    BY <1>0, <1>2 DEF PendingAfterEvent
  <2>2. DecidedEscalationIds(u.log) = DecidedEscalationIds(t.log) \cup ({e.id} \ {None})
    BY <1>0, <1>2, DecidedAppend
  <2>3. None \notin t.business.pending
    BY NamesAssumption DEF Threads, BusinessStates
  <2>4. Unresolved(u) = Unresolved(t) \ {e.id}
    BY <2>1, <2>2, <2>3 DEF Unresolved
  <2> QED
    BY <1>2, <2>4
<1>3. CASE e.type \notin {"human_escalation_requested", "human_decision_recorded"}
  <2>1. u.business.pending = t.business.pending
    BY <1>0, <1>3 DEF PendingAfterEvent
  <2>2. DecidedEscalationIds(u.log) = DecidedEscalationIds(t.log)
    BY <1>0, <1>3, DecidedAppend
  <2>3. Unresolved(u) = Unresolved(t)
    BY <2>1, <2>2 DEF Unresolved
  <2> QED
    BY <1>3, <2>3
<1> QED
  BY <1>1, <1>2, <1>3

\* A recorded step changes the status and nothing the summary is made of.
LEMMA AdvanceSummary ==
  ASSUME NEW t, Core(t)
  PROVE  /\ SameSummary(t, Advance(t))
         /\ Advance(t).status = StatusForStep(DetermineNextStep(t))
<1> DEFINE s == BuildStep(t, 1)
           e == StepEvent(s.type)
           w == AppendThreadEvent(t, e)
<1>1. t \in Threads /\ t.log \in Seq(Events)
  BY DEF Core, Threads
<1>2. s.type \in StepTypes /\ s.type = DetermineNextStep(t)
  BY <1>1, StepTyped
<1>3. e.type = "next_step_determined" /\ e \in Events
  BY <1>2 DEF StepEvent, Event, Events, EventTypes
<1> HIDE DEF s, e
<1>4. /\ w.log = Append(t.log, e)
      /\ Unresolved(w) = Unresolved(t)
      /\ DecidedEscalationIds(w.log) = DecidedEscalationIds(t.log)
      /\ LatestDecision(w.log) = LatestDecision(t.log)
  BY <1>1, <1>3, AppendTyped, UnresolvedAppend, DecidedAppend, LatestAppend
  DEF Core, Answered
<1>5. \A type : type # "next_step_determined" =>
                  (HasEvent(w.log, type) <=> HasEvent(t.log, type))
  BY <1>1, <1>3, <1>4, HasEventAppend
<1>6. Advance(t) = Publish(w, s)
  BY DEF Advance, RecordNextStep, s, e
<1> HIDE DEF w
<1>7. /\ Advance(t).log = w.log
      /\ Advance(t).business.pending = w.business.pending
      /\ Advance(t).status = StatusForStep(s.type)
  <2>1. w \in Threads
    BY <1>1, <1>3, AppendTyped DEF w
  <2> QED
    BY <1>6, <2>1 DEF Publish, Threads, BusinessStates
<1>8. Unresolved(Advance(t)) = Unresolved(w)
  BY <1>7 DEF Unresolved
<1> QED
  BY <1>2, <1>4, <1>5, <1>7, <1>8 DEF SameSummary, PacketsOf, Broken

LEMMA ReplaySummary ==
  ASSUME NEW t, Core(t)
  PROVE  /\ SameSummary(t, ReplayRuntimeThread(t))
         /\ ReplayRuntimeThread(t).status = StatusForStep(DetermineNextStep(t))
<1>1. /\ ReplayRuntimeThread(t).log = t.log
      /\ ReplayRuntimeThread(t).business.pending = t.business.pending
      /\ ReplayRuntimeThread(t).status = StatusForStep(DetermineNextStep(t))
  BY ReplayCore
<1> QED
  BY <1>1 DEF SameSummary, Unresolved, Broken

\* What an error signal does to the summary: it breaks the thread.
LEMMA ErrorSummary ==
  ASSUME NEW t, Core(t)
  PROVE  LET u == RecordRuntimeErrorSignal(t)
         IN  /\ Unresolved(u) = Unresolved(t)
             /\ DecidedEscalationIds(u.log) = DecidedEscalationIds(t.log)
             /\ LatestDecision(u.log) = LatestDecision(t.log)
             /\ PacketsOf(u.log) = PacketsOf(t.log)
             /\ HasEvent(u.log, "local_gate_passed") <=>
                  HasEvent(t.log, "local_gate_passed")
             /\ Broken(u)
             /\ u.status = "failed"
<1> DEFINE e == Event("runtime_error_compacted")
           w == AppendThreadEvent(t, e)
           u == RecordRuntimeErrorSignal(t)
<1>1. t \in Threads /\ t.log \in Seq(Events)
  BY DEF Core, Threads
<1>2. e \in Events /\ EventDue(t.log, e) /\ e.type = "runtime_error_compacted"
  BY EventsTyped DEF EventTypes, EventDue, Event, None
<1>3. Core(w)
  BY <1>2, CoreAppend
<1> HIDE DEF e
<1>4. /\ w.log = Append(t.log, e)
      /\ Unresolved(w) = Unresolved(t)
      /\ DecidedEscalationIds(w.log) = DecidedEscalationIds(t.log)
      /\ LatestDecision(w.log) = LatestDecision(t.log)
  BY <1>1, <1>2, AppendTyped, UnresolvedAppend, DecidedAppend, LatestAppend
  DEF Core, Answered
<1>5. \A type : HasEvent(w.log, type) <=>
                  HasEvent(t.log, type) \/ type = "runtime_error_compacted"
  BY <1>1, <1>2, <1>4, HasEventAppend
<1>6. u = Advance(w)
  BY DEF RecordRuntimeErrorSignal, e
<1> HIDE DEF w, u
<1>7. SameSummary(w, u)
  BY <1>3, <1>6, AdvanceSummary
<1>8. u.status = "failed"
  BY ErrorStaysFailed DEF u
<1> QED
  BY <1>4, <1>5, <1>7, <1>8 DEF SameSummary, PacketsOf, Broken, u

\* What passing the gate does to the summary, and when it may.
LEMMA GateSummary ==
  ASSUME NEW t, Core(t), NEW ok, EvaluateRuntimeLocalGate(t, ok)
  PROVE  LET u == RecordRuntimeLocalGate(t, ok)
         IN  /\ Unresolved(u) = Unresolved(t)
             /\ DecidedEscalationIds(u.log) = DecidedEscalationIds(t.log)
             /\ LatestDecision(u.log) = LatestDecision(t.log)
             /\ PacketsOf(u.log) = PacketsOf(t.log)
             /\ PacketsOf(t.log) = {"context", "reducer"}
             /\ Unresolved(t) = {}
             /\ LatestDecision(t.log) \notin Holding \cup {None}
             /\ ~HasEvent(t.log, "local_gate_passed") /\ ~Broken(t)
             /\ HasEvent(u.log, "local_gate_passed") /\ ~Broken(u)
             /\ u.status = "completed"
<1> DEFINE e == Event("local_gate_passed")
           w == AppendThreadEvent(t, e)
           u == RecordRuntimeLocalGate(t, ok)
<1>0. /\ t \in Threads /\ t.log \in Seq(Events)
      /\ GateDue(t.log) /\ Unresolved(t) = {}
  BY GateIsDue DEF Core, Threads, EvaluateRuntimeLocalGate
<1>1. e \in Events /\ EventDue(t.log, e) /\ e.type = "local_gate_passed"
  BY <1>0, EventsTyped DEF EventTypes, EventDue, Event, None
<1>2. Core(w)
  BY <1>1, CoreAppend
<1> HIDE DEF e
<1>3. /\ w.log = Append(t.log, e)
      /\ Unresolved(w) = Unresolved(t)
      /\ DecidedEscalationIds(w.log) = DecidedEscalationIds(t.log)
      /\ LatestDecision(w.log) = LatestDecision(t.log)
  BY <1>0, <1>1, AppendTyped, UnresolvedAppend, DecidedAppend, LatestAppend
  DEF Core, Answered
<1>4. \A type : HasEvent(w.log, type) <=>
                  HasEvent(t.log, type) \/ type = "local_gate_passed"
  BY <1>0, <1>1, <1>3, HasEventAppend
<1>5. u = Advance(w)
  BY DEF RecordRuntimeLocalGate, e
<1> HIDE DEF w, u
<1>6. ~HasEvent(w.log, "runtime_error_compacted")
  BY <1>0, <1>4 DEF GateDue, MayGoOn
<1>7. DetermineNextStep(w) = "complete"
  <2>1. w.status # "failed"
    BY <1>2, <1>6 DEF Core, FailureShown
  <2>2. LatestDecision(w.log) \notin Holding
    BY <1>0, <1>3 DEF GateDue, MayGoOn
  <2>3. /\ HasEvent(w.log, "candidate_context_ready")
        /\ HasEvent(w.log, "candidate_reducer_ready")
        /\ HasEvent(w.log, "local_gate_passed")
    BY <1>0, <1>4 DEF GateDue
  <2> QED
    BY <1>0, <1>3, <1>6, <2>1, <2>2, <2>3 DEF DetermineNextStep
<1>8. SameSummary(w, u) /\ u.status = "completed"
  BY <1>2, <1>5, <1>7, AdvanceSummary DEF StatusForStep
<1>9. LatestDecision(t.log) # None
  BY <1>0 DEF Core, Answered, GateDue
<1> QED
  BY <1>0, <1>3, <1>4, <1>6, <1>8, <1>9
  DEF SameSummary, PacketsOf, Broken, GateDue, MayGoOn, u

\* The summary of the next state is the summary of the next thread.
LEMMA SummaryPrime ==
  /\ Unresolved(thread)' = Unresolved(thread')
  /\ DecidedEscalationIds(thread.log)' = DecidedEscalationIds(thread'.log)
  /\ LatestDecision(thread.log)' = LatestDecision(thread'.log)
  /\ PacketsOf(thread.log)' = PacketsOf(thread'.log)
  /\ HasEvent(thread.log, "local_gate_passed")'
       = HasEvent(thread'.log, "local_gate_passed")
  /\ HasEvent(thread.log, "runtime_error_compacted")'
       = HasEvent(thread'.log, "runtime_error_compacted")
  /\ thread.status' = thread'.status
BY DEF Unresolved, DecidedEscalationIds, LatestDecision, PacketsOf, HasEvent

LEMMA HasEventBoolean ==
  /\ \A log, type : HasEvent(log, type) => HasEvent(log, type) = TRUE
  /\ \A l, m, type : (HasEvent(l, type) <=> HasEvent(m, type)) =>
                      HasEvent(l, type) = HasEvent(m, type)
BY DEF HasEvent

LEMMA InitRefines == Init => Authority!Init
<1> SUFFICES ASSUME Init PROVE Authority!Init
  OBVIOUS
<1> DEFINE e == Event("thread_launched")
<1>1. /\ thread.log = <<e>> /\ thread.status = "running"
      /\ thread.business.pending = {}
  BY DEF Init, CreateAgentThread, AppendThreadEvent, BusinessAfterEvent, Event,
         PendingAfterEvent, InitialBusinessState
<1>2. e.type = "thread_launched"
  BY DEF Event
<1> HIDE DEF e
<1>3. \A type : HasEvent(thread.log, type) <=> type = "thread_launched"
  BY <1>1, <1>2 DEF HasEvent
<1>4. DecidedEscalationIds(thread.log) = {} /\ LatestDecision(thread.log) = "null"
  BY <1>1, <1>2 DEF DecidedEscalationIds, LatestDecision, None
<1>5. Unresolved(thread) = {} /\ PacketsOf(thread.log) = {}
  BY <1>1, <1>3 DEF Unresolved, PacketsOf
<1> QED
  BY <1>1, <1>3, <1>4, <1>5 DEF Authority!Init

\* The published status is the one the summary calls for.
LEMMA PostureRefines ==
  ASSUME Core(thread)
  PROVE  StatusForStep(DetermineNextStep(thread)) = Authority!Posture
<1>1. /\ thread.status = "failed" => Broken(thread)
      /\ LatestDecision(thread.log) = None <=>
           ~HasEvent(thread.log, "human_decision_recorded")
  BY DEF Core, FailureShown, Answered, Broken
<1>2. PacketsOf(thread.log) = {"context", "reducer"} <=>
        /\ HasEvent(thread.log, "candidate_context_ready")
        /\ HasEvent(thread.log, "candidate_reducer_ready")
  BY DEF PacketsOf
<1> QED
  BY <1>1, <1>2
  DEF DetermineNextStep, StatusForStep, Authority!Posture, Authority!Packets,
      Broken, None

\* An appended packet, escalation or decision is the abstract step of its name.
LEMMA PacketRefines ==
  ASSUME Core(thread),
         NEW type \in {"candidate_context_ready", "candidate_reducer_ready"},
         Add(Event(type))
  PROVE  Authority!Next
<1> DEFINE e == Event(type)
<1>0. thread \in Threads /\ thread.log \in Seq(Events)
  BY DEF Core, Threads
<1>1. e \in Events /\ e.type = type
  BY EventsTyped DEF EventTypes, Event
<1> HIDE DEF e
<1>a. thread' = AppendThreadEvent(thread, e)
  BY DEF Add, e
<1>2. /\ thread'.log = Append(thread.log, e) /\ thread'.status = thread.status
      /\ Unresolved(thread') = Unresolved(thread)
      /\ DecidedEscalationIds(thread'.log) = DecidedEscalationIds(thread.log)
      /\ LatestDecision(thread'.log) = LatestDecision(thread.log)
  BY <1>0, <1>1, <1>a, AppendTyped, UnresolvedAppend, DecidedAppend, LatestAppend
  DEF Core, Answered
<1>3. \A x : HasEvent(thread'.log, x) <=> HasEvent(thread.log, x) \/ x = type
  BY <1>0, <1>1, <1>2, HasEventAppend
<1>4. \E p \in {"context", "reducer"} :
         PacketsOf(thread'.log) = PacketsOf(thread.log) \cup {p}
  BY <1>3 DEF PacketsOf
<1>k. /\ HasEvent(thread'.log, "local_gate_passed")
           = HasEvent(thread.log, "local_gate_passed")
      /\ HasEvent(thread'.log, "runtime_error_compacted")
           = HasEvent(thread.log, "runtime_error_compacted")
  BY <1>3, HasEventBoolean
<1> QED
  BY <1>2, <1>4, <1>k, SummaryPrime DEF Authority!Next, Authority!Prepare, Authority!Packets

\* The summary does not see a thread closed by an event.
LEMMA ClosedRefines ==
  ASSUME Core(thread), NEW type \in {"thread_completed", "thread_held"},
         Add(Event(type))
  PROVE  UNCHANGED Authority!vars
<1> DEFINE e == Event(type)
<1>0. thread \in Threads /\ thread.log \in Seq(Events)
  BY DEF Core, Threads
<1>1. e \in Events /\ e.type = type
  BY EventsTyped DEF EventTypes, Event
<1> HIDE DEF e
<1>a. thread' = AppendThreadEvent(thread, e)
  BY DEF Add, e
<1>2. /\ thread'.log = Append(thread.log, e) /\ thread'.status = thread.status
      /\ Unresolved(thread') = Unresolved(thread)
      /\ DecidedEscalationIds(thread'.log) = DecidedEscalationIds(thread.log)
      /\ LatestDecision(thread'.log) = LatestDecision(thread.log)
  BY <1>0, <1>1, <1>a, AppendTyped, UnresolvedAppend, DecidedAppend, LatestAppend
  DEF Core, Answered
<1>3. \A x : HasEvent(thread'.log, x) <=> HasEvent(thread.log, x) \/ x = type
  BY <1>0, <1>1, <1>2, HasEventAppend
<1>4. PacketsOf(thread'.log) = PacketsOf(thread.log)
  BY <1>3 DEF PacketsOf
<1>5. /\ HasEvent(thread'.log, "local_gate_passed")
           = HasEvent(thread.log, "local_gate_passed")
      /\ HasEvent(thread'.log, "runtime_error_compacted")
           = HasEvent(thread.log, "runtime_error_compacted")
  BY <1>3, HasEventBoolean
<1> QED
  BY <1>2, <1>4, <1>5, SummaryPrime DEF Authority!vars

LEMMA EscalationRefines ==
  ASSUME Core(thread), NEW x \in Escalations, Add(EscalationEvent(x))
  PROVE  Authority!Next
<1> DEFINE e == EscalationEvent(x)
<1>0. thread \in Threads /\ thread.log \in Seq(Events)
  BY DEF Core, Threads
<1>1. e \in Events /\ e.type = "human_escalation_requested" /\ e.id = x
  BY EventsTyped DEF EscalationEvent, Event
<1> HIDE DEF e
<1>a. thread' = AppendThreadEvent(thread, e)
  BY DEF Add, e
<1>2. /\ thread'.log = Append(thread.log, e) /\ thread'.status = thread.status
      /\ Unresolved(thread') =
           Unresolved(thread) \cup ({x} \ DecidedEscalationIds(thread.log))
      /\ DecidedEscalationIds(thread'.log) = DecidedEscalationIds(thread.log)
      /\ LatestDecision(thread'.log) = LatestDecision(thread.log)
  BY <1>0, <1>1, <1>a, NamesAssumption, AppendTyped, UnresolvedAppend, DecidedAppend,
     LatestAppend
  DEF Core, Answered
<1>3. \A type : type # "human_escalation_requested" =>
                  (HasEvent(thread'.log, type) <=> HasEvent(thread.log, type))
  BY <1>0, <1>1, <1>2, HasEventAppend
<1>4. PacketsOf(thread'.log) = PacketsOf(thread.log)
  BY <1>3 DEF PacketsOf
<1>k. /\ HasEvent(thread'.log, "local_gate_passed")
           = HasEvent(thread.log, "local_gate_passed")
      /\ HasEvent(thread'.log, "runtime_error_compacted")
           = HasEvent(thread.log, "runtime_error_compacted")
  BY <1>3, HasEventBoolean
<1> QED
  BY <1>2, <1>4, <1>k, SummaryPrime DEF Authority!Next, Authority!Raise

LEMMA DecisionRefines ==
  ASSUME Core(thread), NEW d \in Decisions, NEW x \in Escalations \cup {None},
         Add(DecisionEvent(d, x))
  PROVE  Authority!Next
<1> DEFINE e == DecisionEvent(d, x)
           about == {x} \ {None}
<1>0. thread \in Threads /\ thread.log \in Seq(Events)
        /\ thread.business.pending \subseteq Escalations
  BY DEF Core, Threads, BusinessStates
<1>1. e \in Events /\ e.type = "human_decision_recorded"
        /\ e.id = x /\ e.decision = d
  BY EventsTyped DEF DecisionEvent, Event
<1> HIDE DEF e
<1>a. thread' = AppendThreadEvent(thread, e)
  BY DEF Add, e
<1>2. /\ thread'.log = Append(thread.log, e) /\ thread'.status = thread.status
      /\ Unresolved(thread') = Unresolved(thread) \ {x}
      /\ DecidedEscalationIds(thread'.log) =
           DecidedEscalationIds(thread.log) \cup about
      /\ LatestDecision(thread'.log) = d
  BY <1>0, <1>1, <1>a, AppendTyped, UnresolvedAppend, DecidedAppend, LatestAppend
  DEF Core, Answered
<1>3. Unresolved(thread) \ {x} = Unresolved(thread) \ about
  BY <1>0, NamesAssumption DEF Unresolved
<1>4. \A type : type # "human_decision_recorded" =>
                  (HasEvent(thread'.log, type) <=> HasEvent(thread.log, type))
  BY <1>0, <1>1, <1>2, HasEventAppend
<1>5. PacketsOf(thread'.log) = PacketsOf(thread.log)
  BY <1>4 DEF PacketsOf
<1>6. about \in {{}} \cup {{y} : y \in Escalations}
  BY NamesAssumption
<1>k. /\ HasEvent(thread'.log, "local_gate_passed")
           = HasEvent(thread.log, "local_gate_passed")
      /\ HasEvent(thread'.log, "runtime_error_compacted")
           = HasEvent(thread.log, "runtime_error_compacted")
  BY <1>4, HasEventBoolean
<1>7. Authority!Decide(d, about)
  BY <1>2, <1>3, <1>5, <1>k, SummaryPrime DEF Authority!Decide
<1> QED
  BY <1>6, <1>7 DEF Authority!Next

LEMMA PublishRefines ==
  ASSUME Core(thread), SameSummary(thread, thread'),
         thread'.status = StatusForStep(DetermineNextStep(thread))
  PROVE  Authority!Next
<1>k. /\ HasEvent(thread'.log, "local_gate_passed")
           = HasEvent(thread.log, "local_gate_passed")
      /\ HasEvent(thread'.log, "runtime_error_compacted")
           = HasEvent(thread.log, "runtime_error_compacted")
  BY HasEventBoolean DEF SameSummary, Broken
<1> QED
  BY <1>k, PostureRefines, SummaryPrime
  DEF SameSummary, Authority!Next, Authority!Publish

LEMMA ErrorRefines ==
  ASSUME Core(thread), thread' = RecordRuntimeErrorSignal(thread)
  PROVE  Authority!Next
<1>k. /\ HasEvent(thread'.log, "local_gate_passed")
           = HasEvent(thread.log, "local_gate_passed")
      /\ HasEvent(thread'.log, "runtime_error_compacted") = TRUE
  BY ErrorSummary, HasEventBoolean DEF Broken
<1> QED
  BY <1>k, ErrorSummary, SummaryPrime DEF Authority!Next, Authority!Break

LEMMA GateRefines ==
  ASSUME Core(thread), NEW ok, thread' = RecordRuntimeLocalGate(thread, ok)
  PROVE  Authority!Next
<1>1. CASE EvaluateRuntimeLocalGate(thread, ok)
  <2>k. /\ HasEvent(thread'.log, "local_gate_passed") = TRUE
        /\ HasEvent(thread'.log, "runtime_error_compacted")
             = HasEvent(thread.log, "runtime_error_compacted")
    BY <1>1, GateSummary, HasEventBoolean DEF Broken
  <2> QED
    BY <1>1, <2>k, GateSummary, SummaryPrime
    DEF Broken, None, Authority!Next, Authority!Clear, Authority!Packets
<1>2. CASE ~EvaluateRuntimeLocalGate(thread, ok)
  BY <1>2, ErrorRefines DEF RecordRuntimeLocalGate
<1> QED
  BY <1>1, <1>2

\* A runtime thread is a thread authority: whatever its callers do, in any
\* order, its published status follows from the questions, answers, gate and
\* errors so far.
THEOREM Refinement == Spec => ImplementsAuthority
<1>1. Init => Authority!Init
  BY InitRefines
<1>2. ASSUME IInv, [Next]_vars
      PROVE  [Authority!Next]_(Authority!vars)
  <2>0. Core(thread) /\ BuildTyped
    BY <1>2 DEF IInv
  <2>1. CASE BuildContext \/ BuildReducer \/ PacketReady
    BY <2>0, <2>1, PacketRefines DEF BuildContext, BuildReducer, PacketReady
  <2>2. CASE BuildEscalation
    <3>1. Head(build.todo) \in Escalations
      BY <2>0, <2>2 DEF BuildEscalation, BuildTyped
    <3> QED
      BY <2>0, <2>2, <3>1, EscalationRefines DEF BuildEscalation
  <2>3. CASE BuildDecision
    <3>1. build.decision \in Decisions /\ build.about \in Escalations \cup {None}
      BY <2>0, <2>3 DEF BuildDecision, BuildTyped
    <3> QED
      BY <2>0, <2>3, <3>1, DecisionRefines DEF BuildDecision
  <2>4. CASE RequestEscalation
    BY <2>0, <2>4, EscalationRefines DEF RequestEscalation
  <2>5. CASE RecordDecision
    BY <2>0, <2>5, DecisionRefines DEF RecordDecision
  <2>6. CASE BuildNextStep \/ DetermineAndRecord
    BY <2>0, <2>6, AdvanceSummary, PublishRefines
    DEF BuildNextStep, DetermineAndRecord
  <2>7. CASE BuildLocalGate \/ LocalGate
    BY <2>0, <2>7, GateRefines DEF BuildLocalGate, LocalGate
  <2>8. CASE BuildErrorSignal \/ ErrorSignal
    BY <2>0, <2>8, ErrorRefines DEF BuildErrorSignal, ErrorSignal
  <2>9. CASE Replay
    BY <2>0, <2>9, ReplaySummary, PublishRefines DEF Replay
  <2>10. CASE BuildReturn \/ UNCHANGED vars
    <3>1. thread' = thread
      BY <2>10 DEF BuildReturn, vars
    <3> QED
      BY <3>1, SummaryPrime DEF Authority!vars
  <2>11. CASE ThreadClosed
    BY <2>0, <2>11, ClosedRefines DEF ThreadClosed
  <2> QED
    BY <1>2, <2>1, <2>2, <2>3, <2>4, <2>5, <2>6, <2>7, <2>8, <2>9, <2>10, <2>11
    DEF Next, Builder, Callers
<1> QED
  BY <1>1, <1>2, Invariance, PTL DEF Spec, ImplementsAuthority, Authority!Spec
=============================================================================
