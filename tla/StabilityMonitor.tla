-------------------------- MODULE StabilityMonitor --------------------------
(***************************************************************************)
(* scripts/lib/stability-monitor.mjs and its command: the divergence brake *)
(* of the learning loop.  Each run reads the deployment tickets and the    *)
(* skill replays it is given (or its built-in samples), computes two       *)
(* indicators and from them the safe mode, writes one incident file per    *)
(* divergent indicator, then replaces the status file other programs read. *)
(*                                                                         *)
(* Evidence arrives from outside: candidates land, their metrics are       *)
(* measured, later perhaps again, and skill candidates are replayed.       *)
(*                                                                         *)
(* Abstracted: the percentage thresholds are integers; the evidence lists, *)
(* reasons and texts of the report are left out, and so is the schema      *)
(* check before the status file is written, which such a status passes.    *)
(***************************************************************************)
EXTENDS PostDeployMeasurement, FiniteSets, Sequences

CONSTANTS
  Deployments,     \* names of landed candidates
  Plan,            \* their tickets at landing: kind, route, direction, target,
                   \*   tolerance, pre, post
  PostValues,      \* what a measurement may find
  MemoryThresholds, SkillThresholds,  \* [warning, safe, min]; memory in percent
  MaxReplays,      \* bound: skill replays
  MaxRuns          \* bound: runs of the monitor

ASSUME MonitorAssumption ==
  /\ \A d \in Deployments : {"route", "post"} \subseteq DOMAIN Plan[d]
  /\ PostValues \subseteq Nat /\ MaxReplays \in Nat /\ MaxRuns \in Nat
  /\ \A th \in {MemoryThresholds, SkillThresholds} :
       th.min \in Nat \ {0} /\ th.safe \in Nat \ {0} /\ th.warning \in 0..th.safe

VARIABLES
  tickets,    \* the ticket file: deployment -> ticket, for those that landed
  replays,    \* the replay file: a sequence of [route, passed]
  run,        \* the monitor: how many runs there were, and what is left to write
  incidents,  \* incident files: [indicator, run, whole]
  status,     \* the status file, replaced as a whole
  seen        \* history: what the evidence behind the status deserved

vars == <<tickets, replays, run, incidents, status, seen>>

Routes == {"memory", "skill", "case", "policy", "damping", "ignore"}
SafeModeAllowedRoutes == {"damping", "ignore"}
Indicators == {"memory", "skill"}    \* the route each indicator watches

-----------------------------------------------------------------------------
(* The review: a function of the evidence.                                 *)

SampleTicket(pre, post) ==
  [kind |-> "memory", route |-> "memory", direction |-> "minimize",
   target |-> 20 * Grain, tolerance |-> 10 * Grain, pre |-> pre * Grain,
   post |-> post * Grain]

\* What a run without --post-deploy-file, or without --skill-replay-file, reads.
SampleStablePostDeployTickets ==
  <<SampleTicket(50, 30), SampleTicket(40, 30), SampleTicket(30, 31)>>
SampleStableSkillReplayResults ==
  <<[route |-> "skill", passed |-> TRUE], [route |-> "skill", passed |-> FALSE],
    [route |-> "skill", passed |-> TRUE]>>

\* "value" is over "scale": percents of a ratio, or a plain count.
StatusFor(samples, value, scale, th) ==
  IF samples < th.min THEN "insufficient_data"
  ELSE IF value >= th.safe * scale THEN "divergent"
  ELSE IF value >= th.warning * scale THEN "warning" ELSE "stable"

\* Mutant: a ticket that waits for its measurement counts as a good one.
MemoryRollbackMutant(measured) ==
  LET memory == {d \in DOMAIN measured : measured[d].route = "memory"}
      negative == {d \in memory : measured[d].decision = "confirmed_negative"}
  IN  StatusFor(Cardinality(memory), 100 * Cardinality(negative), Cardinality(memory),
                MemoryThresholds)

MemoryRollbackIndicator(measured) ==
  LET memory == {d \in DOMAIN measured : /\ measured[d].route = "memory"
                                         /\ measured[d].decision # "pending"}
      negative == {d \in memory : measured[d].decision = "confirmed_negative"}
  IN  StatusFor(Cardinality(memory), 100 * Cardinality(negative), Cardinality(memory),
                MemoryThresholds)

TrailingFailureStreak(results) ==
  LET streak[n \in 0..Len(results)] ==
        IF n = 0 \/ results[n].passed THEN 0 ELSE 1 + streak[n - 1]
  IN  streak[Len(results)]

SkillResults(results) ==
  LET kept[n \in 0..Len(results)] ==
        IF n = 0 THEN <<>>
        ELSE IF results[n].route = "skill" THEN Append(kept[n - 1], results[n]) ELSE kept[n - 1]
  IN  kept[Len(results)]

SkillReplayFailureIndicator(results) ==
  LET skill == SkillResults(results)
  IN  StatusFor(Len(skill), TrailingFailureStreak(skill), 1, SkillThresholds)

\* buildIncidents: the indicators that trigger the safe mode.
ReviewStabilityIndicators(ticketFile, replayFile) ==
  LET measured == [d \in DOMAIN ticketFile |-> MeasurePostDeployTicket(ticketFile[d])]
  IN  {i \in Indicators :
         \/ i = "memory" /\ MemoryRollbackIndicator(measured) = "divergent"
         \/ i = "skill" /\ SkillReplayFailureIndicator(replayFile) = "divergent"}

SafeModeState(divergent) ==
  IF divergent = {}
  THEN [state |-> "normal", allowed |-> Routes]
  ELSE [state |-> "safe_mode", allowed |-> SafeModeAllowedRoutes]

ToSidecarStatus(divergent, number, recorded) ==
  [mode |-> SafeModeState(divergent), incidents |-> divergent, run |-> number,
   recorded |-> recorded]

-----------------------------------------------------------------------------
(* The files and the command.                                              *)

NoStatus == [mode |-> SafeModeState({}), incidents |-> {}, run |-> 0, recorded |-> FALSE]
Stopped(number) == [number |-> number, pc |-> "idle", todo |-> {}, status |-> NoStatus,
                    deserved |-> {}]

\* The indicators the evidence puts in divergence, counted from its meaning: of
\* the memory deployments that are settled, a share of at least safe percent went
\* wrong; at least safe skill replays failed since the last that passed.
DeservedIncidents(file, results) ==
  LET settled(decisions) ==
        {n \in DOMAIN file : /\ file[n].route = "memory"
                             /\ MeasurePostDeployTicket(file[n]).decision \in decisions}
      negative == Cardinality(settled({"confirmed_negative"}))
      all == negative + Cardinality(settled({"confirmed_positive", "null_effect"}))
      skill == {n \in DOMAIN results : results[n].route = "skill"}
      failedSince == {n \in skill : \A m \in skill : m >= n => ~results[m].passed}
  IN  {i \in Indicators :
         \/ i = "memory" /\ all >= MemoryThresholds.min
            /\ 100 * negative >= MemoryThresholds.safe * all
         \/ i = "skill" /\ Cardinality(skill) >= SkillThresholds.min
            /\ Cardinality(failedSince) >= SkillThresholds.safe}

Init ==
  /\ tickets = [d \in {} |-> NoStatus] /\ replays = <<>>
  /\ run = Stopped(0) /\ incidents = {}
  /\ status = NoStatus /\ seen = {}

Land(d) ==
  /\ d \notin DOMAIN tickets
  /\ tickets' = [e \in DOMAIN tickets \cup {d} |->
                   IF e = d THEN [Plan[d] EXCEPT !.post = Unmeasured] ELSE tickets[e]]
  /\ UNCHANGED <<replays, run, incidents, status, seen>>

Observe(d, value) ==
  /\ d \in DOMAIN tickets /\ tickets[d].post # value
  /\ tickets' = [tickets EXCEPT ![d].post = value]
  /\ UNCHANGED <<replays, run, incidents, status, seen>>

Replay(route, passed) ==
  /\ Len(replays) < MaxReplays
  /\ replays' = Append(replays, [route |-> route, passed |-> passed])
  /\ UNCHANGED <<tickets, run, incidents, status, seen>>

\* One malformed ticket makes the whole review throw, before anything is written.
RunStabilityMonitor(files, writeIncidents, writeStatus) ==
  LET read == [tickets |-> IF "tickets" \in files THEN tickets
                           ELSE SampleStablePostDeployTickets,
               replays |-> IF "replays" \in files THEN replays
                           ELSE SampleStableSkillReplayResults]
      number == run.number + 1
      divergent == ReviewStabilityIndicators(read.tickets, read.replays)
  IN  /\ run.pc = "idle" /\ run.number < MaxRuns
      /\ run' = IF \E n \in DOMAIN read.tickets : Throws(read.tickets[n])
                THEN Stopped(number)
                ELSE [number |-> number, deserved |-> DeservedIncidents(read.tickets, read.replays),
                      pc |-> IF writeStatus THEN "status" ELSE "last",
                      todo |-> IF writeIncidents THEN divergent ELSE {},
                      status |-> ToSidecarStatus(divergent, number, writeIncidents)]
      /\ UNCHANGED <<tickets, replays, incidents, status, seen>>

\* The incidents are written in the order of the indicators.
IsNext(i) == i \in run.todo /\ (i = "skill" => "memory" \notin run.todo)

WriteIncident ==
  /\ run.pc # "idle"
  /\ \E i \in Indicators :
       /\ IsNext(i)
       /\ incidents' = incidents \cup {[indicator |-> i, run |-> run.number, whole |-> TRUE]}
       /\ run' = [run EXCEPT !.todo = @ \ {i}]
  /\ UNCHANGED <<tickets, replays, status, seen>>

\* Mutant: replaces the status file before the incidents are written.
WriteStatusMutant ==
  /\ run.pc = "status"
  /\ status' = run.status /\ seen' = run.deserved
  /\ run' = [run EXCEPT !.pc = "last"]
  /\ UNCHANGED <<tickets, replays, incidents>>

\* writeJsonAtomic: a temporary file, then rename.
WriteStatus ==
  /\ run.pc = "status" /\ run.todo = {}
  /\ status' = run.status /\ seen' = run.deserved
  /\ run' = Stopped(run.number)
  /\ UNCHANGED <<tickets, replays, incidents>>

Finish ==
  /\ run.pc = "last" /\ run.todo = {}
  /\ run' = Stopped(run.number)
  /\ UNCHANGED <<tickets, replays, incidents, status, seen>>

\* Between two writes, or inside the write of an incident file.
Crash ==
  /\ run.pc # "idle"
  /\ run' = Stopped(run.number)
  /\ \/ UNCHANGED incidents
     \/ \E i \in Indicators :
          /\ IsNext(i)
          /\ incidents' = incidents \cup
               {[indicator |-> i, run |-> run.number, whole |-> FALSE]}
  /\ UNCHANGED <<tickets, replays, status, seen>>

Next ==
  \/ \E d \in Deployments : Land(d) \/ \E v \in PostValues : Observe(d, v)
  \/ \E route \in {"skill", "case"}, passed \in BOOLEAN : Replay(route, passed)
  \/ \E files \in SUBSET {"tickets", "replays"}, i, s \in BOOLEAN :
       RunStabilityMonitor(files, i, s)
  \/ WriteIncident \/ WriteStatus \/ Finish \/ Crash

Spec == Init /\ [][Next]_vars

-----------------------------------------------------------------------------
(* Properties.                                                             *)

\* Files, evidence and the monitor keep their shape.
TypeOK ==
  /\ DOMAIN tickets \subseteq Deployments
  /\ \A d \in DOMAIN tickets : tickets[d].post \in PostValues \cup {Unmeasured}
  /\ replays \in Seq([route : {"skill", "case"}, passed : BOOLEAN])
  /\ run.number \in 0..MaxRuns /\ run.pc \in {"idle", "status", "last"}
  /\ run.todo \subseteq run.status.incidents /\ status.incidents \subseteq Indicators
  /\ incidents \subseteq [indicator : Indicators, run : 1..MaxRuns, whole : BOOLEAN]

\* A status file from a run with --write-incidents names no incident whose file
\* is missing or cut short, wherever the monitor died: the files come first and
\* the status is renamed into place.
BroadcastIsBacked ==
  status.recorded =>
    \A i \in status.incidents :
      [indicator |-> i, run |-> status.run, whole |-> TRUE] \in incidents

\* The status file freezes the durable routes exactly if the evidence read for
\* it deserved that: pending deployments and other routes' replays do not count,
\* and a run that threw or died leaves the status of an earlier one.
StatusIsDeserved ==
  status.run > 0 =>
    /\ status.incidents = seen
    /\ (status.mode.allowed = SafeModeAllowedRoutes) <=> (seen # {})

Ended == ReviewStabilityIndicators(tickets, replays)
         \ ReviewStabilityIndicators(tickets', replays')

\* An indicator leaves divergence only by good news about its own route: a skill
\* replay that passed, or a memory deployment measured anew and not as
\* negative.  A new deployment, still pending, and other routes never do.
OnlyGoodNewsEndsDivergence ==
  /\ "skill" \in Ended =>
       replays' = Append(replays, [route |-> "skill", passed |-> TRUE])
  /\ "memory" \in Ended =>
       \E d \in DOMAIN tickets : /\ tickets[d].route = "memory"
                                 /\ tickets'[d] # tickets[d]
                                 /\ MeasurePostDeployTicket(tickets'[d]).decision
                                      # "confirmed_negative"
=============================================================================
