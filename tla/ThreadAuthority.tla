--------------------------- MODULE ThreadAuthority ---------------------------
(***************************************************************************)
(* What a runtime thread promises, said without its event log: work is     *)
(* reported as completed only when nobody is waited for, nobody said no,   *)
(* and, once a human has spoken, the local gate has been passed.  A thread *)
(* that broke stays broken.                                                *)
(*                                                                         *)
(* RuntimeThread implements this: the summary below is what its helpers    *)
(* (hasEvent, decidedEscalationIds, latestDecisionEvent) read off the log. *)
(***************************************************************************)
CONSTANTS Escalations,   \* ids of the human escalations
          Decisions,     \* the words a human owner may answer with
          Holding        \* the answers that keep a thread held

VARIABLES outstanding,   \* escalations raised and not answered
          decided,       \* escalations answered at least once
          verdict,       \* the last answer, "null" before the first one
          ready,         \* the packets the thread has: context, reducer
          cleared,       \* the local gate was passed
          broken,        \* an error was compacted into the thread
          posture        \* the status last published

vars == <<outstanding, decided, verdict, ready, cleared, broken, posture>>

Packets == {"context", "reducer"}

\* The status the thread has to publish, given what happened to it.
Posture ==
  IF broken THEN "failed"
  ELSE IF outstanding # {} THEN "paused"
  ELSE IF verdict \in Holding THEN "held"
  ELSE IF verdict # "null" /\ ~cleared THEN "running"
  ELSE IF ready = Packets THEN "completed" ELSE "running"

Init ==
  /\ outstanding = {} /\ decided = {} /\ verdict = "null"
  /\ ready = {} /\ cleared = FALSE /\ broken = FALSE
  /\ posture = "running"

Prepare(p) ==
  /\ ready' = ready \cup {p}
  /\ UNCHANGED <<outstanding, decided, verdict, cleared, broken, posture>>

\* An escalation answered once is not waited for again.
Raise(e) ==
  /\ outstanding' = outstanding \cup ({e} \ decided)
  /\ UNCHANGED <<decided, verdict, ready, cleared, broken, posture>>

\* An answer to some escalations; none when no escalation was open.
Decide(d, about) ==
  /\ verdict' = d
  /\ outstanding' = outstanding \ about
  /\ decided' = decided \cup about
  /\ UNCHANGED <<ready, cleared, broken, posture>>

Publish ==
  /\ posture' = Posture
  /\ UNCHANGED <<outstanding, decided, verdict, ready, cleared, broken>>

\* The gate is passed once, by a complete thread that a human let go on.
Clear ==
  /\ ready = Packets /\ outstanding = {}
  /\ verdict # "null" /\ verdict \notin Holding
  /\ ~cleared /\ ~broken
  /\ cleared' = TRUE /\ posture' = "completed"
  /\ UNCHANGED <<outstanding, decided, verdict, ready, broken>>

Break ==
  /\ broken' = TRUE /\ posture' = "failed"
  /\ UNCHANGED <<outstanding, decided, verdict, ready, cleared>>

Next ==
  \/ \E p \in Packets : Prepare(p)
  \/ \E e \in Escalations : Raise(e)
  \/ \E d \in Decisions, about \in {{}} \cup {{e} : e \in Escalations} :
        Decide(d, about)
  \/ Publish
  \/ Clear
  \/ Break

Spec == Init /\ [][Next]_vars
=============================================================================
