------------------------------ MODULE HealthProofs ------------------------------
(***************************************************************************)
(* Proofs about the programs of MCHealth, for every value of the           *)
(* constants.  Stability monitor: a status written with its incidents      *)
(* never names one whose file is missing or cut short, and its safe mode   *)
(* is the one the evidence of its run deserved.  Full loop: the verdict of *)
(* a run is earned and its probes find what they ask for; what a run       *)
(* writes to its history is written once, and the latest manifest of a run *)
(* with history is backed.  The last two need that no two runs share a     *)
(* directory (DistinctIds), which the code leaves to the clock: two runs   *)
(* of one millisecond share one.  The slow loop, the registry and the      *)
(* health of the components agree with themselves and with their past.     *)
(***************************************************************************)
EXTENDS MCHealth, FiniteSetTheorems, SequenceTheorems, WellFoundedInduction, TLAPS

(***************************************************************************)
(* Induction and recursion.  The library's induction theorems are about an *)
(* operator and cannot be cited; its theorem that finite sets are well     *)
(* founded is about sets, and a minimal counterexample does the rest.      *)
(***************************************************************************)

\* The families of finite sets have minimal members; the facts about recursion
\* rest on this, as a minimal counterexample stands for an induction.
Family(T, U) == T \subseteq SUBSET U
Minimal(m, T) == m \in T /\ \A u \in T : u \subseteq m => u = m

LEMMA MinimalSet ==
  ASSUME NEW U, IsFiniteSet(U), NEW T, Family(T, U), T # {}
  PROVE  \E m : Minimal(m, T)
<1>1. IsWellFoundedOn(StrictSubsetOrdering(U), SUBSET U)
  BY FS_StrictSubsetOrderingWellFounded, FS_FiniteSubsetsOfFinite
<1>2. \E m \in T : \A u \in T : <<u, m>> \notin StrictSubsetOrdering(U)
  BY <1>1, WFMin DEF Family
<1> QED
  BY <1>2 DEF StrictSubsetOrdering, Family, Minimal

LEMMA LeastNatural ==
  ASSUME NEW T \in SUBSET Nat, T # {}
  PROVE  \E m \in T : \A n \in T : m <= n
<1>1. PICK k \in T : TRUE
  OBVIOUS
<1> DEFINE F == {0..n : n \in {j \in T : j <= k}}
<1>2. IsFiniteSet(0..k)
  BY <1>1, FS_Interval
<1>3. Family(F, 0..k)
  BY DEF Family
<1>4. F # {}
  BY <1>1
<1> HIDE DEF F
<1>5. PICK s : Minimal(s, F)
  BY <1>2, <1>3, <1>4, MinimalSet
<1>6. PICK m \in T : m <= k /\ s = 0..m
  BY <1>5 DEF F, Minimal
<1>7. ASSUME NEW n \in T, n < m PROVE FALSE
  <2>1. 0..n \in F
    BY <1>6, <1>7, <1>1 DEF F
  <2>2. 0..n \subseteq s /\ 0..n # s
    BY <1>6, <1>7
  <2> QED
    BY <1>5, <2>1, <2>2 DEF Minimal
<1> QED
  BY <1>6, <1>7

\* A function that each number takes from the one before it exists.
Recursive(g, N, Value, b, step) ==
  g \in [0..N -> Value] /\ g[0] = b /\ \A n \in 1..N : g[n] = step[n][g[n - 1]]
Steps(N, Value) == [1..N -> [Value -> Value]]

LEMMA PrefixRecursion ==
  ASSUME NEW N \in Nat, NEW Value, NEW b \in Value, NEW step \in Steps(N, Value)
  PROVE  \E g : Recursive(g, N, Value, b, step)
<1> DEFINE Fine(m) == \E g \in [0..m -> Value] : g[0] = b /\ \A n \in 1..m : g[n] = step[n][g[n - 1]]
           Bad == {m \in 0..N : ~Fine(m)}
<1>1. Fine(0)
  <2> DEFINE g == [n \in 0..0 |-> b]
  <2>1. g \in [0..0 -> Value] /\ g[0] = b /\ \A n \in 1..0 : g[n] = step[n][g[n - 1]]
    OBVIOUS
  <2> HIDE DEF g
  <2> QED
    BY <2>1
<1>2. ASSUME NEW m \in 1..N, Fine(m - 1) PROVE Fine(m)
  <2>1. PICK g \in [0..(m - 1) -> Value] : g[0] = b /\ \A n \in 1..(m - 1) : g[n] = step[n][g[n - 1]]
    BY <1>2
  <2> DEFINE h == [n \in 0..m |-> IF n = m THEN step[m][g[m - 1]] ELSE g[n]]
  <2>2. step[m][g[m - 1]] \in Value
    BY <2>1 DEF Steps
  <2>3. h \in [0..m -> Value]
    BY <2>1, <2>2
  <2>4. h[m] = step[m][g[m - 1]] /\ \A n \in 0..(m - 1) : h[n] = g[n]
    OBVIOUS
  <2> HIDE DEF h
  <2>5. h[0] = b /\ \A n \in 1..m : h[n] = step[n][h[n - 1]]
    BY <2>1, <2>4
  <2> QED
    BY <2>3, <2>5
<1> HIDE DEF Fine
<1>3. Bad = {}
  <2> SUFFICES ASSUME Bad # {} PROVE FALSE
    OBVIOUS
  <2>1. PICK m \in Bad : \A n \in Bad : m <= n
    <3>1. Bad \in SUBSET Nat
      OBVIOUS
    <3> HIDE DEF Bad
    <3> QED
      BY <3>1, LeastNatural
  <2>2. m # 0 /\ m \in 0..N /\ ~Fine(m)
    BY <1>1, <2>1
  <2>3. m - 1 \in 0..N /\ ~(m <= m - 1)
    BY <2>2
  <2>4. Fine(m - 1)
    BY <2>1, <2>3
  <2> QED
    BY <1>2, <2>2, <2>4
<1>4. Fine(N)
  BY <1>3
<1> QED
  BY <1>4 DEF Fine, Recursive

\* Induction up to N over a set of numbers.
LEMMA UpTo ==
  ASSUME NEW N \in Nat, NEW Fine, 0 \in Fine, \A n \in 1..N : n - 1 \in Fine => n \in Fine
  PROVE  0..N \subseteq Fine
<1> SUFFICES ASSUME (0..N) \ Fine # {} PROVE FALSE
  OBVIOUS
<1>1. (0..N) \ Fine \in SUBSET Nat
  OBVIOUS
<1>2. PICK m \in (0..N) \ Fine : \A n \in (0..N) \ Fine : m <= n
  BY <1>1, LeastNatural
<1>3. m \in 1..N /\ m - 1 \in 0..N /\ ~(m <= m - 1)
  BY <1>2
<1> QED
  BY <1>2, <1>3

-----------------------------------------------------------------------------
(* The stability monitor.  The inductive invariant looks at a run between  *)
(* its writes: of the incidents its status will name, each is written or   *)
(* still to do (Owed).  What the indicators compute stays closed: only     *)
(* that it is a set of indicators is used.                                 *)

Statuses ==
  [mode : {SafeModeState(divergent) : divergent \in SUBSET Indicators},
   incidents : SUBSET Indicators, run : 0..MaxRuns, recorded : BOOLEAN]
MonitorRuns ==
  [number : 0..MaxRuns, pc : {"idle", "status", "last"}, todo : SUBSET Indicators,
   status : Statuses, deserved : SUBSET Indicators]

Incident(i, n) == [indicator |-> i, run |-> n, whole |-> TRUE]

MonitorTyped ==
  /\ DOMAIN tickets \subseteq Deployments
  /\ \A d \in DOMAIN tickets : /\ "post" \in DOMAIN tickets[d]
                               /\ tickets[d].post \in PostValues \cup {Unmeasured}
  /\ replays \in Seq([route : {"skill", "case"}, passed : BOOLEAN])
  /\ run \in MonitorRuns /\ run.todo \subseteq run.status.incidents
  /\ run.pc # "idle" => run.number \in 1..MaxRuns
  /\ status \in Statuses
  /\ incidents \subseteq [indicator : Indicators, run : 1..MaxRuns, whole : BOOLEAN]

\* Before the status is replaced, every incident it names is whole or still to do.
Owed ==
  run.pc = "status" =>
    /\ run.status.run = run.number
    /\ run.status.recorded =>
         \A i \in run.status.incidents : i \in run.todo \/ Incident(i, run.number) \in incidents

MonitorIInv == MonitorTyped /\ Owed /\ BroadcastIsBacked

-----------------------------------------------------------------------------
LEMMA StatusFacts ==
  ASSUME NEW divergent \in SUBSET Indicators, NEW n \in 0..MaxRuns, NEW recorded \in BOOLEAN
  PROVE  /\ ToSidecarStatus(divergent, n, recorded) \in Statuses
         /\ ToSidecarStatus(divergent, n, recorded).incidents = divergent
         /\ ToSidecarStatus(divergent, n, recorded).run = n
         /\ ToSidecarStatus(divergent, n, recorded).recorded = recorded
<1> DEFINE mode == SafeModeState(divergent)
<1>1. mode \in {SafeModeState(d) : d \in SUBSET Indicators}
  OBVIOUS
<1>2. ToSidecarStatus(divergent, n, recorded)
        = [mode |-> mode, incidents |-> divergent, run |-> n, recorded |-> recorded]
  BY DEF ToSidecarStatus
<1> HIDE DEF mode
<1> QED
  BY <1>1, <1>2 DEF Statuses

LEMMA NoStatusFacts == NoStatus \in Statuses /\ NoStatus.incidents = {} /\ NoStatus.recorded = FALSE
<1>1. NoStatus = ToSidecarStatus({}, 0, FALSE)
  BY DEF NoStatus, ToSidecarStatus
<1>2. 0 \in 0..MaxRuns /\ {} \in SUBSET Indicators
  BY MonitorAssumption
<1> QED
  BY <1>1, <1>2, StatusFacts

LEMMA StoppedFacts ==
  ASSUME NEW n \in 0..MaxRuns
  PROVE  /\ Stopped(n) \in MonitorRuns /\ Stopped(n).pc = "idle" /\ Stopped(n).todo = {}
         /\ Stopped(n).number = n
BY NoStatusFacts DEF Stopped, MonitorRuns

LEMMA MonitorInit == Init => MonitorIInv
<1> SUFFICES ASSUME Init PROVE MonitorIInv
  OBVIOUS
<1>1. run = Stopped(0) /\ 0 \in 0..MaxRuns
  BY MonitorAssumption DEF Init
<1>2. run \in MonitorRuns /\ run.pc = "idle" /\ run.todo = {}
  BY <1>1, StoppedFacts
<1>3. status \in Statuses /\ status.recorded = FALSE
  BY NoStatusFacts DEF Init
<1>4. DOMAIN tickets = {} /\ incidents = {} /\ replays = <<>>
  BY DEF Init
<1> QED
  BY <1>2, <1>3, <1>4 DEF MonitorIInv, MonitorTyped, Owed, BroadcastIsBacked

\* The evidence does not touch the monitor's files.
LEMMA EvidenceStep ==
  ASSUME MonitorIInv, UNCHANGED <<run, incidents, status>>,
         DOMAIN tickets' \subseteq Deployments,
         \A d \in DOMAIN tickets' : /\ "post" \in DOMAIN tickets'[d]
                                    /\ tickets'[d].post \in PostValues \cup {Unmeasured},
         replays' \in Seq([route : {"skill", "case"}, passed : BOOLEAN])
  PROVE  MonitorIInv'
<1>1. MonitorTyped'
  BY DEF MonitorIInv, MonitorTyped
<1>2. Owed' /\ BroadcastIsBacked'
  BY DEF MonitorIInv, Owed, BroadcastIsBacked
<1> QED
  BY <1>1, <1>2 DEF MonitorIInv

LEMMA LandStep == ASSUME MonitorIInv, NEW d \in Deployments, Land(d) PROVE MonitorIInv'
<1> DEFINE new == [Plan[d] EXCEPT !.post = Unmeasured]
<1>1. "post" \in DOMAIN new /\ new.post = Unmeasured
  BY MonitorAssumption
<1>2. /\ tickets' = [e \in DOMAIN tickets \cup {d} |-> IF e = d THEN new ELSE tickets[e]]
      /\ UNCHANGED <<replays, run, incidents, status, seen>>
  BY DEF Land
<1> HIDE DEF new
<1>3. \A e \in DOMAIN tickets' : /\ "post" \in DOMAIN tickets'[e]
                                 /\ tickets'[e].post \in PostValues \cup {Unmeasured}
  BY <1>1, <1>2 DEF MonitorIInv, MonitorTyped
<1> QED
  BY <1>2, <1>3, EvidenceStep DEF MonitorIInv, MonitorTyped

LEMMA ObserveStep ==
  ASSUME MonitorIInv, NEW d \in Deployments, NEW v \in PostValues, Observe(d, v) PROVE MonitorIInv'
<1> DEFINE new == [tickets[d] EXCEPT !.post = v]
<1>1. "post" \in DOMAIN new /\ new.post = v
  BY DEF MonitorIInv, MonitorTyped, Observe
<1>2. /\ d \in DOMAIN tickets /\ tickets' = [tickets EXCEPT ![d] = new]
      /\ UNCHANGED <<replays, run, incidents, status, seen>>
  BY DEF Observe
<1> HIDE DEF new
<1>3. DOMAIN tickets' = DOMAIN tickets
  BY <1>2
<1>4. \A e \in DOMAIN tickets' : /\ "post" \in DOMAIN tickets'[e]
                                 /\ tickets'[e].post \in PostValues \cup {Unmeasured}
  BY <1>1, <1>2 DEF MonitorIInv, MonitorTyped
<1> QED
  BY <1>2, <1>3, <1>4, EvidenceStep DEF MonitorIInv, MonitorTyped

LEMMA ReplayStep ==
  ASSUME MonitorIInv, NEW route \in {"skill", "case"}, NEW passed \in BOOLEAN, Replay(route, passed)
  PROVE  MonitorIInv'
<1>1. replays' \in Seq([route : {"skill", "case"}, passed : BOOLEAN])
  BY DEF Replay, MonitorIInv, MonitorTyped
<1> QED
  BY <1>1, EvidenceStep DEF Replay, MonitorIInv, MonitorTyped

\* A run that ends, whatever it leaves of an incident file that is not named yet.
LEMMA StopStep ==
  ASSUME MonitorIInv, run' = Stopped(run.number), UNCHANGED <<tickets, replays, status>>,
         incidents \subseteq incidents',
         incidents' \subseteq [indicator : Indicators, run : 1..MaxRuns, whole : BOOLEAN]
  PROVE  MonitorIInv'
<1>1. run' \in MonitorRuns /\ run'.pc = "idle" /\ run'.todo = {}
  BY StoppedFacts DEF MonitorIInv, MonitorTyped, MonitorRuns
<1>2. MonitorTyped' /\ Owed'
  BY <1>1 DEF MonitorIInv, MonitorTyped, Owed
<1>3. BroadcastIsBacked'
  BY DEF MonitorIInv, BroadcastIsBacked
<1> QED
  BY <1>2, <1>3 DEF MonitorIInv

LEMMA MonitorStep ==
  ASSUME MonitorIInv, NEW given \in SUBSET {"tickets", "replays"}, NEW i \in BOOLEAN, NEW s \in BOOLEAN,
         RunStabilityMonitor(given, i, s)
  PROVE  MonitorIInv'
<1> DEFINE file == IF "tickets" \in given THEN tickets ELSE SampleStablePostDeployTickets
           results == IF "replays" \in given THEN replays ELSE SampleStableSkillReplayResults
           number == run.number + 1
           divergent == ReviewStabilityIndicators(file, results)
           deserved == DeservedIncidents(file, results)
           new == [number |-> number, deserved |-> deserved,
                   pc |-> IF s THEN "status" ELSE "last",
                   todo |-> IF i THEN divergent ELSE {},
                   status |-> ToSidecarStatus(divergent, number, i)]
<1>1. divergent \in SUBSET Indicators /\ deserved \in SUBSET Indicators
  BY Zenon DEF ReviewStabilityIndicators, DeservedIncidents
<1>2. /\ run.number < MaxRuns
      /\ run' = Stopped(number) \/ run' = new
      /\ UNCHANGED <<tickets, replays, incidents, status, seen>>
  BY Zenon DEF RunStabilityMonitor
<1>3. number \in 1..MaxRuns
  BY <1>2, MonitorAssumption DEF MonitorIInv, MonitorTyped, MonitorRuns
<1> HIDE DEF file, results, divergent, deserved, number
<1>4. CASE run' = Stopped(number)
  <2>1. run' \in MonitorRuns /\ run'.pc = "idle" /\ run'.todo = {}
    BY <1>3, <1>4, StoppedFacts
  <2> QED
    BY <1>2, <2>1 DEF MonitorIInv, MonitorTyped, Owed, BroadcastIsBacked
<1>5. CASE run' = new
  <2>1. /\ ToSidecarStatus(divergent, number, i) \in Statuses
        /\ ToSidecarStatus(divergent, number, i).incidents = divergent
        /\ ToSidecarStatus(divergent, number, i).run = number
        /\ ToSidecarStatus(divergent, number, i).recorded = i
    BY <1>1, <1>3, StatusFacts
  <2>2. /\ run'.number = number /\ run'.pc = (IF s THEN "status" ELSE "last")
        /\ run'.todo = (IF i THEN divergent ELSE {})
        /\ run'.status = ToSidecarStatus(divergent, number, i)
    BY <1>5
  <2>3. run' \in MonitorRuns
    BY <1>1, <1>3, <1>5, <2>1 DEF MonitorRuns
  <2>4. MonitorTyped'
    BY <1>2, <1>3, <2>1, <2>2, <2>3 DEF MonitorIInv, MonitorTyped
  <2>5. Owed'
    BY <2>1, <2>2 DEF Owed
  <2> QED
    BY <1>2, <2>4, <2>5 DEF MonitorIInv, BroadcastIsBacked
<1> QED
  BY <1>2, <1>4, <1>5

LEMMA WriteIncidentStep == ASSUME MonitorIInv, WriteIncident PROVE MonitorIInv'
<1>1. PICK i \in Indicators :
        /\ i \in run.todo /\ incidents' = incidents \cup {Incident(i, run.number)}
        /\ run' = [run EXCEPT !.todo = @ \ {i}]
  BY DEF WriteIncident, IsNext, Incident
<1>2. UNCHANGED <<tickets, replays, status, seen>> /\ run.number \in 1..MaxRuns
  BY DEF WriteIncident, MonitorIInv, MonitorTyped
<1>3. /\ run' \in MonitorRuns /\ run'.todo = run.todo \ {i} /\ run'.pc = run.pc
      /\ run'.number = run.number /\ run'.status = run.status
  BY <1>1 DEF MonitorIInv, MonitorTyped, MonitorRuns
<1>4. Incident(i, run.number) \in [indicator : Indicators, run : 1..MaxRuns, whole : BOOLEAN]
  BY <1>2 DEF Incident
<1>5. MonitorTyped'
  BY <1>1, <1>2, <1>3, <1>4 DEF MonitorIInv, MonitorTyped
<1>6. Owed'
  BY <1>1, <1>3 DEF MonitorIInv, Owed
<1>7. BroadcastIsBacked'
  BY <1>1, <1>2 DEF MonitorIInv, BroadcastIsBacked
<1> QED
  BY <1>5, <1>6, <1>7 DEF MonitorIInv

\* With nothing left to do, every incident the new status names is whole.
LEMMA WriteStatusStep == ASSUME MonitorIInv, WriteStatus PROVE MonitorIInv'
<1>1. /\ run.pc = "status" /\ run.todo = {} /\ status' = run.status
      /\ run' = Stopped(run.number) /\ UNCHANGED <<tickets, replays, incidents>>
  BY DEF WriteStatus
<1>2. run' \in MonitorRuns /\ run'.pc = "idle" /\ run'.todo = {}
  BY <1>1, StoppedFacts DEF MonitorIInv, MonitorTyped, MonitorRuns
<1>3. run.status \in Statuses
  BY DEF MonitorIInv, MonitorTyped, MonitorRuns
<1>4. MonitorTyped' /\ Owed'
  BY <1>1, <1>2, <1>3 DEF MonitorIInv, MonitorTyped, Owed
<1>5. BroadcastIsBacked'
  BY <1>1 DEF MonitorIInv, Owed, BroadcastIsBacked, Incident
<1> QED
  BY <1>4, <1>5 DEF MonitorIInv

LEMMA CrashStep == ASSUME MonitorIInv, Crash PROVE MonitorIInv'
<1>1. run' = Stopped(run.number) /\ UNCHANGED <<tickets, replays, status>>
  BY DEF Crash
<1>2. run.number \in 1..MaxRuns
  BY DEF Crash, MonitorIInv, MonitorTyped
<1>3. /\ incidents \subseteq incidents'
      /\ incidents' \subseteq [indicator : Indicators, run : 1..MaxRuns, whole : BOOLEAN]
  <2>1. CASE UNCHANGED incidents
    BY <2>1 DEF MonitorIInv, MonitorTyped
  <2>2. ASSUME NEW i \in Indicators,
               incidents' = incidents \cup {[indicator |-> i, run |-> run.number, whole |-> FALSE]}
        PROVE  /\ incidents \subseteq incidents'
               /\ incidents' \subseteq [indicator : Indicators, run : 1..MaxRuns, whole : BOOLEAN]
    <3> DEFINE cut == [indicator |-> i, run |-> run.number, whole |-> FALSE]
    <3>1. cut \in [indicator : Indicators, run : 1..MaxRuns, whole : BOOLEAN]
      BY <1>2
    <3>2. incidents \subseteq [indicator : Indicators, run : 1..MaxRuns, whole : BOOLEAN]
      BY DEF MonitorIInv, MonitorTyped
    <3> HIDE DEF cut
    <3> QED
      BY <2>2, <3>1, <3>2 DEF cut
  <2> QED
    BY <2>1, <2>2 DEF Crash
<1> QED
  BY <1>1, <1>3, StopStep

LEMMA MonitorNext == MonitorIInv /\ [Next]_vars => MonitorIInv'
<1> SUFFICES ASSUME MonitorIInv, [Next]_vars PROVE MonitorIInv'
  OBVIOUS
<1>1. ASSUME NEW d \in Deployments, Land(d) PROVE MonitorIInv'
  BY <1>1, LandStep
<1>2. ASSUME NEW d \in Deployments, NEW v \in PostValues, Observe(d, v) PROVE MonitorIInv'
  BY <1>2, ObserveStep
<1>3. ASSUME NEW route \in {"skill", "case"}, NEW passed \in BOOLEAN, Replay(route, passed)
      PROVE  MonitorIInv'
  BY <1>3, ReplayStep
<1>4. ASSUME NEW given \in SUBSET {"tickets", "replays"}, NEW i \in BOOLEAN, NEW s \in BOOLEAN,
             RunStabilityMonitor(given, i, s)
      PROVE  MonitorIInv'
  BY <1>4, MonitorStep
<1>5. CASE WriteIncident
  BY <1>5, WriteIncidentStep
<1>6. CASE WriteStatus
  BY <1>6, WriteStatusStep
<1>7. CASE Finish
  BY <1>7, StopStep DEF Finish, MonitorIInv, MonitorTyped
<1>8. CASE Crash
  BY <1>8, CrashStep
<1>9. CASE UNCHANGED vars
  BY <1>9, EvidenceStep DEF vars, MonitorIInv, MonitorTyped
<1> QED
  BY <1>1, <1>2, <1>3, <1>4, <1>5, <1>6, <1>7, <1>8, <1>9, Zenon DEF Next

-----------------------------------------------------------------------------
(* The theorems.                                                           *)

\* The inductive invariant holds of every reachable state, wherever the monitor
\* dies.
THEOREM MonitorInvariance == Spec => []MonitorIInv
<1> QED
  BY MonitorInit, MonitorNext, PTL DEF Spec

\* Files, evidence and the monitor keep their shape.
THEOREM MonitorTypeCorrect == Spec => []TypeOK
<1>1. MonitorIInv => TypeOK
  BY DEF MonitorIInv, MonitorTyped, TypeOK, MonitorRuns, Statuses
<1> QED
  BY <1>1, MonitorInvariance, PTL

\* A status file from a run with --write-incidents names no incident whose file
\* is missing or cut short.
THEOREM BroadcastBacked == Spec => []BroadcastIsBacked
<1>1. MonitorIInv => BroadcastIsBacked
  BY DEF MonitorIInv
<1> QED
  BY <1>1, MonitorInvariance, PTL

-----------------------------------------------------------------------------
(* The status that was deserved.  The monitor counts back over the replays *)
(* of skills and takes a share of the tickets; StreakIsMeant and           *)
(* ShareIsMeant say what both are, whatever the evidence.                  *)

ReplayResults == [route : {"skill", "case"}, passed : BOOLEAN]

Streak(s) == CHOOSE f : f = [n \in 0..Len(s) |-> IF n = 0 \/ s[n].passed THEN 0 ELSE 1 + f[n - 1]]

\* The recursion of the streak, as a fact.
LEMMA StreakRecursion ==
  ASSUME NEW s \in Seq(ReplayResults)
  PROVE  /\ Streak(s) \in [0..Len(s) -> Nat] /\ Streak(s)[0] = 0
         /\ \A n \in 1..Len(s) : Streak(s)[n] = IF s[n].passed THEN 0 ELSE 1 + Streak(s)[n - 1]
         /\ TrailingFailureStreak(s) = Streak(s)[Len(s)]
<1> DEFINE Rec(f) == [n \in 0..Len(s) |-> IF n = 0 \/ s[n].passed THEN 0 ELSE 1 + f[n - 1]]
           step == [n \in 1..Len(s) |-> [v \in Nat |-> IF s[n].passed THEN 0 ELSE 1 + v]]
<1>1. Len(s) \in Nat
  OBVIOUS
<1>2. step \in Steps(Len(s), Nat)
  BY DEF Steps
<1>3. \A n \in 1..Len(s), v \in Nat : step[n][v] = IF s[n].passed THEN 0 ELSE 1 + v
  OBVIOUS
<1> HIDE DEF step
<1>4. PICK g : Recursive(g, Len(s), Nat, 0, step)
  BY <1>1, <1>2, PrefixRecursion
<1>5. g = Rec(g)
  <2>1. ASSUME NEW n \in 0..Len(s) PROVE g[n] = Rec(g)[n]
    <3>1. Rec(g)[n] = IF n = 0 \/ s[n].passed THEN 0 ELSE 1 + g[n - 1]
      OBVIOUS
    <3>2. CASE n = 0
      BY <1>4, <3>1, <3>2 DEF Recursive
    <3>3. CASE n \in 1..Len(s)
      <4>1. g[n] = step[n][g[n - 1]] /\ n - 1 \in 0..Len(s) /\ g[n - 1] \in Nat
        BY <1>4, <3>3 DEF Recursive
      <4>2. step[n][g[n - 1]] = IF s[n].passed THEN 0 ELSE 1 + g[n - 1]
        BY <1>3, <3>3, <4>1
      <4>3. n # 0
        BY <3>3
      <4> HIDE DEF Rec
      <4>4. CASE s[n].passed
        BY <3>1, <4>1, <4>2, <4>4
      <4>5. CASE ~s[n].passed
        BY <3>1, <4>1, <4>2, <4>3, <4>5
      <4> QED
        BY <4>4, <4>5
    <3> QED
      BY <1>1, <3>2, <3>3
  <2>2. g = [n \in 0..Len(s) |-> g[n]] /\ Rec(g) = [n \in 0..Len(s) |-> Rec(g)[n]]
    BY <1>4 DEF Recursive
  <2> HIDE DEF Rec
  <2> QED
    BY <2>1, <2>2
<1> DEFINE f == Streak(s)
<1>6. f = Rec(f)
  BY <1>5, Zenon DEF Streak
<1>7. \A n \in 0..Len(s) : f[n] = IF n = 0 \/ s[n].passed THEN 0 ELSE 1 + f[n - 1]
  <2> HIDE DEF f
  <2> QED
    BY <1>6
<1>8. f = [n \in 0..Len(s) |-> f[n]]
  <2>1. DOMAIN Rec(f) = 0..Len(s) /\ Rec(f) = [n \in DOMAIN Rec(f) |-> Rec(f)[n]]
    OBVIOUS
  <2> HIDE DEF f, Rec
  <2> QED
    BY <1>6, <2>1
<1>9. TrailingFailureStreak(s) = f[Len(s)]
  BY Zenon DEF TrailingFailureStreak, Streak
<1> HIDE DEF f
<1>10. 0..Len(s) \subseteq {n \in 0..Len(s) : f[n] \in Nat}
  <2> DEFINE Fine == {n \in 0..Len(s) : f[n] \in Nat}
  <2>1. 0 \in Fine
    BY <1>1, <1>7
  <2>2. \A n \in 1..Len(s) : n - 1 \in Fine => n \in Fine
    BY <1>1, <1>7
  <2> HIDE DEF Fine
  <2>3. 0..Len(s) \subseteq Fine
    BY <1>1, <2>1, <2>2, UpTo
  <2> QED
    BY <2>3 DEF Fine
<1>11. f \in [0..Len(s) -> Nat]
  BY <1>8, <1>10
<1> QED
  BY <1>1, <1>7, <1>9, <1>11 DEF f

LEMMA StreakOfAppend ==
  ASSUME NEW s \in Seq(ReplayResults), NEW r \in ReplayResults
  PROVE  /\ TrailingFailureStreak(s) \in Nat
         /\ TrailingFailureStreak(Append(s, r)) = IF r.passed THEN 0 ELSE 1 + TrailingFailureStreak(s)
<1> DEFINE t == Append(s, r)
           f == Streak(s)
           g == Streak(t)
           Fine == {n \in 0..Len(s) : f[n] = g[n]}
<1>1. t \in Seq(ReplayResults) /\ Len(t) = Len(s) + 1 /\ t[Len(t)] = r /\ Len(s) \in Nat
      /\ \A n \in 1..Len(s) : t[n] = s[n]
  OBVIOUS
<1>2. /\ f \in [0..Len(s) -> Nat] /\ f[0] = 0
      /\ \A n \in 1..Len(s) : f[n] = IF s[n].passed THEN 0 ELSE 1 + f[n - 1]
      /\ TrailingFailureStreak(s) = f[Len(s)]
  BY StreakRecursion
<1> HIDE DEF t
<1>3. /\ g[0] = 0
      /\ \A n \in 1..Len(t) : g[n] = IF t[n].passed THEN 0 ELSE 1 + g[n - 1]
      /\ TrailingFailureStreak(t) = g[Len(t)]
  BY <1>1, StreakRecursion
<1> HIDE DEF f, g
<1>4. 0 \in Fine /\ \A n \in 1..Len(s) : n - 1 \in Fine => n \in Fine
  BY <1>1, <1>2, <1>3
<1> HIDE DEF Fine
<1>5. 0..Len(s) \subseteq Fine
  BY <1>1, <1>4, UpTo
<1>6. f[Len(s)] = g[Len(s)]
  BY <1>1, <1>5 DEF Fine
<1> QED
  BY <1>1, <1>2, <1>3, <1>6 DEF t

LEMMA StreakOfNone == TrailingFailureStreak(<<>>) = 0
<1>1. <<>> \in Seq(ReplayResults) /\ Len(<<>>) = 0
  OBVIOUS
<1> QED
  BY <1>1, StreakRecursion

\* What the monitor reads: the prefix of n results.
SkillIn(results, n) == {k \in 1..n : results[k].route = "skill"}
FailedSince(results, n) ==
  {k \in SkillIn(results, n) : \A m \in SkillIn(results, n) : m >= k => ~results[m].passed}

Kept(s) == CHOOSE f : f = [n \in 0..Len(s) |->
             IF n = 0 THEN <<>> ELSE IF s[n].route = "skill" THEN Append(f[n - 1], s[n]) ELSE f[n - 1]]

LEMMA KeptRecursion ==
  ASSUME NEW s \in Seq(ReplayResults)
  PROVE  /\ Kept(s)[0] = <<>>
         /\ \A n \in 1..Len(s) :
              Kept(s)[n] = IF s[n].route = "skill" THEN Append(Kept(s)[n - 1], s[n]) ELSE Kept(s)[n - 1]
         /\ SkillResults(s) = Kept(s)[Len(s)]
<1> DEFINE Next1(n, v) == IF s[n].route = "skill" THEN Append(v, s[n]) ELSE v
           Rec(f) == [n \in 0..Len(s) |-> IF n = 0 THEN <<>> ELSE Next1(n, f[n - 1])]
           step == [n \in 1..Len(s) |-> [v \in Seq(ReplayResults) |-> Next1(n, v)]]
<1>1. Len(s) \in Nat /\ <<>> \in Seq(ReplayResults)
  OBVIOUS
<1>2. step \in Steps(Len(s), Seq(ReplayResults))
  <2>1. ASSUME NEW n \in 1..Len(s), NEW v \in Seq(ReplayResults) PROVE Next1(n, v) \in Seq(ReplayResults)
    <3>1. s[n] \in ReplayResults
      OBVIOUS
    <3> HIDE DEF ReplayResults
    <3> QED
      BY <3>1
  <2> HIDE DEF Next1
  <2> QED
    BY <2>1 DEF Steps
<1>3. \A n \in 1..Len(s), v \in Seq(ReplayResults) : step[n][v] = Next1(n, v)
  <2> HIDE DEF Next1
  <2> QED
    OBVIOUS
<1> HIDE DEF step
<1>4. PICK g : Recursive(g, Len(s), Seq(ReplayResults), <<>>, step)
  BY <1>1, <1>2, PrefixRecursion
<1>5. g = Rec(g)
  <2> HIDE DEF Next1
  <2>1. ASSUME NEW n \in 0..Len(s) PROVE g[n] = Rec(g)[n]
    <3>1. Rec(g)[n] = IF n = 0 THEN <<>> ELSE Next1(n, g[n - 1])
      OBVIOUS
    <3>2. CASE n = 0
      BY <1>4, <3>1, <3>2 DEF Recursive
    <3>3. CASE n \in 1..Len(s)
      <4>1. n - 1 \in 0..Len(s)
        BY <1>1, <3>3
      <4>2. g[n] = step[n][g[n - 1]] /\ g[n - 1] \in Seq(ReplayResults)
        BY <1>4, <3>3, <4>1, Zenon DEF Recursive
      <4>3. n # 0
        BY <3>3
      <4> HIDE DEF Rec
      <4> QED
        BY <1>3, <3>1, <3>3, <4>2, <4>3
    <3> QED
      BY <1>1, <3>2, <3>3
  <2>2. g = [n \in 0..Len(s) |-> g[n]] /\ Rec(g) = [n \in 0..Len(s) |-> Rec(g)[n]]
    BY <1>4 DEF Recursive
  <2> HIDE DEF Rec
  <2> QED
    BY <2>1, <2>2
<1> DEFINE f == Kept(s)
<1>6. f = Rec(f)
  BY <1>5, Zenon DEF Kept
<1>7. \A n \in 0..Len(s) : f[n] = IF n = 0 THEN <<>> ELSE Next1(n, f[n - 1])
  <2> HIDE DEF f, Next1
  <2> QED
    BY <1>6
<1>8. SkillResults(s) = f[Len(s)]
  BY Zenon DEF SkillResults, Kept
<1> HIDE DEF f
<1>9. f[0] = <<>>
  BY <1>1, <1>7
<1>10. ASSUME NEW n \in 1..Len(s) PROVE f[n] = Next1(n, f[n - 1])
  <2>1. n \in 0..Len(s) /\ n # 0
    OBVIOUS
  <2> HIDE DEF Next1
  <2> QED
    BY <1>7, <2>1
<1> QED
  BY <1>8, <1>9, <1>10 DEF f

LEMMA SkillPrefix ==
  ASSUME NEW s \in Seq(ReplayResults), NEW n \in 1..Len(s)
  PROVE  /\ IsFiniteSet(SkillIn(s, n)) /\ IsFiniteSet(FailedSince(s, n))
         /\ s[n].route # "skill" =>
              SkillIn(s, n) = SkillIn(s, n - 1) /\ FailedSince(s, n) = FailedSince(s, n - 1)
         /\ s[n].route = "skill" =>
              /\ SkillIn(s, n) = SkillIn(s, n - 1) \cup {n} /\ n \notin SkillIn(s, n - 1)
              /\ s[n].passed => FailedSince(s, n) = {}
              /\ ~s[n].passed =>
                   FailedSince(s, n) = FailedSince(s, n - 1) \cup {n} /\ n \notin FailedSince(s, n - 1)
<1>1. IsFiniteSet(1..n) /\ SkillIn(s, n) \subseteq 1..n /\ FailedSince(s, n) \subseteq 1..n
  BY FS_Interval DEF SkillIn, FailedSince
<1>2. IsFiniteSet(SkillIn(s, n)) /\ IsFiniteSet(FailedSince(s, n))
  BY <1>1, FS_Subset
<1>3. ASSUME NEW k PROVE k \in 1..n <=> k \in 1..(n - 1) \/ k = n
  OBVIOUS
<1>4. \A k \in 1..(n - 1) : ~(k >= n) /\ n >= k
  OBVIOUS
<1>5. s[n].route # "skill" => SkillIn(s, n) = SkillIn(s, n - 1)
  BY <1>3 DEF SkillIn
<1>6. s[n].route = "skill" => SkillIn(s, n) = SkillIn(s, n - 1) \cup {n} /\ n \notin SkillIn(s, n - 1)
  BY <1>3, <1>4 DEF SkillIn
<1>7. SkillIn(s, n - 1) \subseteq 1..(n - 1)
  BY DEF SkillIn
<1>8. n >= n
  OBVIOUS
<1> QED
  BY <1>2, <1>4, <1>5, <1>6, <1>7, <1>8 DEF FailedSince

\* The streak of the replays of skills counts those that failed since the last
\* that passed.
LEMMA StreakIsMeant ==
  ASSUME NEW s \in Seq(ReplayResults)
  PROVE  /\ SkillResults(s) \in Seq(ReplayResults)
         /\ Len(SkillResults(s)) = Cardinality(SkillIn(s, Len(s)))
         /\ TrailingFailureStreak(SkillResults(s)) = Cardinality(FailedSince(s, Len(s)))
<1> DEFINE f == Kept(s)
           Means(n) == /\ f[n] \in Seq(ReplayResults)
                       /\ Len(f[n]) = Cardinality(SkillIn(s, n))
                       /\ TrailingFailureStreak(f[n]) = Cardinality(FailedSince(s, n))
           Fine == {n \in 0..Len(s) : Means(n)}
<1>1. /\ f[0] = <<>> /\ SkillResults(s) = f[Len(s)]
      /\ \A n \in 1..Len(s) : f[n] = IF s[n].route = "skill" THEN Append(f[n - 1], s[n]) ELSE f[n - 1]
  BY KeptRecursion
<1> HIDE DEF f
<1>2. Len(s) \in Nat
  OBVIOUS
<1>3. Means(0)
  <2>1. SkillIn(s, 0) = {} /\ FailedSince(s, 0) = {}
    BY DEF SkillIn, FailedSince
  <2>2. <<>> \in Seq(ReplayResults) /\ Len(<<>>) = 0
    OBVIOUS
  <2> QED
    BY <1>1, <2>1, <2>2, StreakOfNone, FS_EmptySet
<1>4. ASSUME NEW n \in 1..Len(s), Means(n - 1) PROVE Means(n)
  <2>1. s[n] \in ReplayResults /\ f[n - 1] \in Seq(ReplayResults)
    BY <1>4
  <2>2. CASE s[n].route # "skill"
    BY <1>1, <1>4, <2>2, SkillPrefix
  <2>3. CASE s[n].route = "skill"
    <3>1. f[n] = Append(f[n - 1], s[n]) 
      BY <1>1, <2>3
    <3>2. f[n] \in Seq(ReplayResults) /\ Len(f[n]) = Len(f[n - 1]) + 1
      BY <2>1, <3>1
    <3>3. IsFiniteSet(SkillIn(s, n - 1)) /\ IsFiniteSet(FailedSince(s, n - 1))
      <4>1. IsFiniteSet(1..(n - 1))
        BY FS_Interval
      <4>2. SkillIn(s, n - 1) \subseteq 1..(n - 1) /\ FailedSince(s, n - 1) \subseteq 1..(n - 1)
        BY DEF SkillIn, FailedSince
      <4> QED
        BY <4>1, <4>2, FS_Subset
    <3>4. Cardinality(SkillIn(s, n)) = Cardinality(SkillIn(s, n - 1)) + 1
      BY <2>3, <3>3, SkillPrefix, FS_AddElement
    <3>5. TrailingFailureStreak(f[n]) = IF s[n].passed THEN 0 ELSE 1 + TrailingFailureStreak(f[n - 1])
      BY <2>1, <3>1, StreakOfAppend
    <3>6. Cardinality(FailedSince(s, n)) = IF s[n].passed THEN 0 ELSE 1 + Cardinality(FailedSince(s, n - 1))
      <4>1. CASE s[n].passed
        BY <2>3, <4>1, SkillPrefix, FS_EmptySet
      <4>2. CASE ~s[n].passed
        <5>1. /\ FailedSince(s, n) = FailedSince(s, n - 1) \cup {n}
              /\ n \notin FailedSince(s, n - 1)
          BY <2>3, <4>2, SkillPrefix
        <5>2. Cardinality(FailedSince(s, n - 1)) \in Nat
          BY <3>3, FS_CardinalityType
        <5>3. Cardinality(FailedSince(s, n - 1) \cup {n}) = Cardinality(FailedSince(s, n - 1)) + 1
          BY <3>3, <5>1, FS_AddElement
        <5> QED
          BY <4>2, <5>1, <5>2, <5>3
      <4> QED
        BY <4>1, <4>2
    <3> QED
      BY <1>4, <3>2, <3>4, <3>5, <3>6
  <2> QED
    BY <2>2, <2>3
<1> HIDE DEF Means
<1>5. 0 \in Fine /\ \A n \in 1..Len(s) : n - 1 \in Fine => n \in Fine
  BY <1>2, <1>3, <1>4
<1> HIDE DEF Fine
<1>6. 0..Len(s) \subseteq Fine
  BY <1>2, <1>5, UpTo
<1>7. Means(Len(s))
  BY <1>2, <1>6 DEF Fine
<1> QED
  BY <1>1, <1>7 DEF Means

LEMMA Measured ==
  ASSUME NEW ticket
  PROVE  /\ MeasurePostDeployTicket(ticket).route = ticket.route
         /\ MeasurePostDeployTicket(ticket).decision
              \in {"pending", "confirmed_positive", "confirmed_negative", "null_effect"}
         /\ MeasurePostDeployTicket(ticket).decision = "pending" <=> ticket.post = Unmeasured
BY DEF MeasurePostDeployTicket, ClassifyDelta

\* The tickets of a route whose measurement came to one of these decisions.
Settled(file, decisions) ==
  {n \in DOMAIN file : /\ file[n].route = "memory"
                       /\ MeasurePostDeployTicket(file[n]).decision \in decisions}
Negative(file) == Settled(file, {"confirmed_negative"})
Decided(file) == Settled(file, {"confirmed_negative", "confirmed_positive", "null_effect"})
MemoryDiverges(file) ==
  /\ Cardinality(Decided(file)) >= MemoryThresholds.min
  /\ 100 * Cardinality(Negative(file)) >= MemoryThresholds.safe * Cardinality(Decided(file))
SkillDiverges(results) ==
  /\ Cardinality(SkillIn(results, Len(results))) >= SkillThresholds.min
  /\ Cardinality(FailedSince(results, Len(results))) >= SkillThresholds.safe

LEMMA ShareIsMeant ==
  ASSUME NEW file, IsFiniteSet(DOMAIN file)
  PROVE  /\ IsFiniteSet(Decided(file)) /\ IsFiniteSet(Negative(file))
         /\ Cardinality(Decided(file)) \in Nat /\ Cardinality(Negative(file)) \in Nat
         /\ Cardinality(Negative(file)) <= Cardinality(Decided(file))
         /\ MemoryRollbackIndicator([d \in DOMAIN file |-> MeasurePostDeployTicket(file[d])]) = "divergent"
              <=> MemoryDiverges(file)
         /\ Cardinality(Decided(file))
              = Cardinality(Negative(file))
                + Cardinality(Settled(file, {"confirmed_positive", "null_effect"}))
<1> DEFINE measured == [d \in DOMAIN file |-> MeasurePostDeployTicket(file[d])]
           rest == Settled(file, {"confirmed_positive", "null_effect"})
<1>1. /\ {d \in DOMAIN measured : measured[d].route = "memory" /\ measured[d].decision # "pending"}
           = Decided(file)
      /\ {d \in Decided(file) : measured[d].decision = "confirmed_negative"} = Negative(file)
  <2>1. DOMAIN measured = DOMAIN file /\ \A d \in DOMAIN file : measured[d] = MeasurePostDeployTicket(file[d])
    OBVIOUS
  <2> HIDE DEF measured
  <2> QED
    BY <2>1, Measured DEF Decided, Negative, Settled
<1>2. /\ IsFiniteSet(Decided(file)) /\ IsFiniteSet(Negative(file)) /\ IsFiniteSet(rest)
  BY FS_Subset DEF Decided, Negative, Settled
<1>3. /\ Cardinality(Decided(file)) \in Nat /\ Cardinality(Negative(file)) \in Nat /\ Cardinality(rest) \in Nat
      /\ Cardinality(Negative(file)) <= Cardinality(Decided(file))
  <2>1. Negative(file) \subseteq Decided(file)
    BY DEF Decided, Negative, Settled
  <2> QED
    BY <1>2, <2>1, FS_CardinalityType, FS_Subset
<1>4. Cardinality(Decided(file)) = Cardinality(Negative(file)) + Cardinality(rest)
  <2>1. Decided(file) = Negative(file) \cup rest /\ Negative(file) \cap rest = {}
    BY DEF Decided, Negative, Settled
  <2>2. Cardinality(Negative(file) \cap rest) = 0
    BY <2>1, FS_EmptySet
  <2>3. Cardinality(Negative(file) \cup rest)
          = Cardinality(Negative(file)) + Cardinality(rest) - Cardinality(Negative(file) \cap rest)
    BY <1>2, FS_Union
  <2> HIDE DEF rest
  <2> QED
    BY <1>3, <2>1, <2>2, <2>3
<1>5. MemoryRollbackIndicator(measured)
        = StatusFor(Cardinality(Decided(file)), 100 * Cardinality(Negative(file)), Cardinality(Decided(file)),
                    MemoryThresholds)
  BY <1>1, Zenon DEF MemoryRollbackIndicator
<1> HIDE DEF measured
<1>6. MemoryRollbackIndicator(measured) = "divergent" <=> MemoryDiverges(file)
  BY <1>3, <1>5, MonitorAssumption DEF StatusFor, MemoryDiverges
<1> QED
  BY <1>2, <1>3, <1>4, <1>6 DEF measured

LEMMA SkillIsMeant ==
  ASSUME NEW results \in Seq(ReplayResults)
  PROVE  SkillReplayFailureIndicator(results) = "divergent" <=> SkillDiverges(results)
<1>1. SkillReplayFailureIndicator(results)
        = StatusFor(Cardinality(SkillIn(results, Len(results))),
                    Cardinality(FailedSince(results, Len(results))), 1, SkillThresholds)
  BY StreakIsMeant DEF SkillReplayFailureIndicator
<1>2. /\ Cardinality(SkillIn(results, Len(results))) \in Nat
      /\ Cardinality(FailedSince(results, Len(results))) \in Nat
  <2>1. SkillResults(results) \in Seq(ReplayResults)
    BY StreakIsMeant
  <2>2. Len(SkillResults(results)) \in Nat
    BY <2>1
  <2>3. TrailingFailureStreak(SkillResults(results)) \in Nat
    BY <2>1, StreakRecursion
  <2> QED
    BY <2>2, <2>3, StreakIsMeant
<1> QED
  BY <1>1, <1>2, MonitorAssumption DEF StatusFor, SkillDiverges

\* The review finds in divergence what deserves it.
LEMMA ReviewIsDeserved ==
  ASSUME NEW file, IsFiniteSet(DOMAIN file), NEW results \in Seq(ReplayResults)
  PROVE  ReviewStabilityIndicators(file, results) = DeservedIncidents(file, results)
<1>1. /\ "memory" \in ReviewStabilityIndicators(file, results) <=> MemoryDiverges(file)
      /\ "skill" \in ReviewStabilityIndicators(file, results) <=> SkillDiverges(results)
  BY ShareIsMeant, SkillIsMeant DEF ReviewStabilityIndicators, Indicators
<1>2. /\ "memory" \in DeservedIncidents(file, results)
           <=> /\ Cardinality(Negative(file)) + Cardinality(Settled(file, {"confirmed_positive", "null_effect"}))
                    >= MemoryThresholds.min
               /\ 100 * Cardinality(Negative(file))
                    >= MemoryThresholds.safe
                         * (Cardinality(Negative(file))
                            + Cardinality(Settled(file, {"confirmed_positive", "null_effect"})))
  BY Zenon DEF DeservedIncidents, Indicators, Negative, Settled
<1>3. "skill" \in DeservedIncidents(file, results) <=> SkillDiverges(results)
  <2>1. DOMAIN results = 1..Len(results)
    OBVIOUS
  <2> QED
    BY <2>1 DEF DeservedIncidents, Indicators, SkillDiverges, SkillIn, FailedSince
<1>4. /\ ReviewStabilityIndicators(file, results) \subseteq {"memory", "skill"}
      /\ DeservedIncidents(file, results) \subseteq {"memory", "skill"}
  BY Zenon DEF ReviewStabilityIndicators, DeservedIncidents, Indicators
<1> DEFINE reviewed == ReviewStabilityIndicators(file, results)
           deserved == DeservedIncidents(file, results)
<1>5. "memory" \in DeservedIncidents(file, results) <=> MemoryDiverges(file)
  BY <1>2, ShareIsMeant DEF MemoryDiverges
<1>6. ("memory" \in reviewed <=> "memory" \in deserved) /\ ("skill" \in reviewed <=> "skill" \in deserved)
  BY <1>1, <1>3, <1>5
<1>7. reviewed \subseteq {"memory", "skill"} /\ deserved \subseteq {"memory", "skill"}
  BY <1>4
<1> HIDE DEF reviewed, deserved
<1>8. reviewed = deserved
  <2>1. \A x : x \in reviewed <=> x \in deserved
    BY <1>6, <1>7
  <2> QED
    BY <2>1
<1> QED
  BY <1>8 DEF reviewed, deserved

\* The evidence is finite and names its routes; what a run has told or will tell
\* is what its evidence deserved.
Evidence ==
  IsFiniteSet(DOMAIN tickets) /\ \A d \in DOMAIN tickets : {"route", "post"} \subseteq DOMAIN tickets[d]

Deserved ==
  /\ run.pc = "status" => run.deserved = run.status.incidents
  /\ run.status.mode = SafeModeState(run.status.incidents)
  /\ status.mode = SafeModeState(status.incidents)
  /\ status.run > 0 => status.incidents = seen

DeservedIInv == Evidence /\ Deserved

LEMMA DeservedInit == Init => DeservedIInv
<1> SUFFICES ASSUME Init PROVE DeservedIInv
  OBVIOUS
<1>1. tickets = [d \in {} |-> NoStatus] /\ run = Stopped(0) /\ status = NoStatus
  BY DEF Init
<1>2. DOMAIN tickets = {}
  BY <1>1
<1>3. Evidence
  BY <1>2, FS_EmptySet DEF Evidence
<1>4. /\ NoStatus.mode = SafeModeState(NoStatus.incidents) /\ NoStatus.run = 0
      /\ Stopped(0).pc = "idle" /\ Stopped(0).status = NoStatus
  BY DEF Stopped, NoStatus
<1>5. Deserved
  BY <1>1, <1>4 DEF Deserved
<1> QED
  BY <1>3, <1>5 DEF DeservedIInv

LEMMA LandEvidence ==
  ASSUME DeservedIInv, NEW d \in Deployments, Land(d)
  PROVE  Evidence' /\ UNCHANGED <<replays, run, status, seen>>
         /\ d \notin DOMAIN tickets /\ DOMAIN tickets' = DOMAIN tickets \cup {d}
         /\ tickets'[d].post = Unmeasured /\ \A e \in DOMAIN tickets : tickets'[e] = tickets[e]
<1> DEFINE new == [Plan[d] EXCEPT !.post = Unmeasured]
<1>1. {"route", "post"} \subseteq DOMAIN new /\ new.post = Unmeasured
  BY MonitorAssumption
<1>2. /\ tickets' = [e \in DOMAIN tickets \cup {d} |-> IF e = d THEN new ELSE tickets[e]]
      /\ d \notin DOMAIN tickets /\ UNCHANGED <<replays, run, status, seen>>
  BY DEF Land
<1> HIDE DEF new
<1>3. /\ DOMAIN tickets' = DOMAIN tickets \cup {d} /\ tickets'[d] = new
      /\ \A e \in DOMAIN tickets : tickets'[e] = tickets[e]
  BY <1>2
<1>4. IsFiniteSet(DOMAIN tickets')
  BY <1>3, FS_AddElement DEF DeservedIInv, Evidence
<1>5. Evidence'
  BY <1>1, <1>3, <1>4 DEF DeservedIInv, Evidence
<1> QED
  BY <1>1, <1>2, <1>3, <1>5

LEMMA ObserveEvidence ==
  ASSUME DeservedIInv, NEW d \in Deployments, NEW v \in PostValues, Observe(d, v)
  PROVE  Evidence' /\ UNCHANGED <<replays, run, status, seen>>
         /\ d \in DOMAIN tickets /\ DOMAIN tickets' = DOMAIN tickets
         /\ tickets'[d].route = tickets[d].route /\ tickets'[d].post = v /\ tickets'[d] # tickets[d]
         /\ \A e \in DOMAIN tickets : e # d => tickets'[e] = tickets[e]
<1> DEFINE new == [tickets[d] EXCEPT !.post = v]
<1>1. /\ d \in DOMAIN tickets /\ tickets[d].post # v /\ tickets' = [tickets EXCEPT ![d] = new]
      /\ UNCHANGED <<replays, run, status, seen>>
  BY DEF Observe
<1>2. {"route", "post"} \subseteq DOMAIN new /\ new.post = v /\ new.route = tickets[d].route
  BY <1>1 DEF DeservedIInv, Evidence
<1> HIDE DEF new
<1>3. DOMAIN tickets' = DOMAIN tickets /\ tickets'[d] = new /\ \A e \in DOMAIN tickets : e # d => tickets'[e] = tickets[e]
  BY <1>1
<1>4. Evidence'
  BY <1>2, <1>3 DEF DeservedIInv, Evidence
<1> QED
  BY <1>1, <1>2, <1>3, <1>4

LEMMA MonitorDeserved ==
  ASSUME MonitorIInv, DeservedIInv, NEW given \in SUBSET {"tickets", "replays"}, NEW i \in BOOLEAN,
         NEW s \in BOOLEAN, RunStabilityMonitor(given, i, s)
  PROVE  DeservedIInv'
<1> DEFINE file == IF "tickets" \in given THEN tickets ELSE SampleStablePostDeployTickets
           results == IF "replays" \in given THEN replays ELSE SampleStableSkillReplayResults
           number == run.number + 1
           divergent == ReviewStabilityIndicators(file, results)
           deserved == DeservedIncidents(file, results)
           new == [number |-> number, deserved |-> deserved,
                   pc |-> IF s THEN "status" ELSE "last",
                   todo |-> IF i THEN divergent ELSE {},
                   status |-> ToSidecarStatus(divergent, number, i)]
<1>1. /\ run' = Stopped(number) \/ run' = new
      /\ UNCHANGED <<tickets, replays, incidents, status, seen>>
  BY Zenon DEF RunStabilityMonitor
<1>2. IsFiniteSet(DOMAIN file)
  <2>1. DOMAIN SampleStablePostDeployTickets = 1..3
    BY DEF SampleStablePostDeployTickets
  <2>2. IsFiniteSet(1..3)
    <3>1. 1 \in Int /\ 3 \in Int
      OBVIOUS
    <3> QED
      BY <3>1, FS_Interval
  <2>3. IsFiniteSet(DOMAIN SampleStablePostDeployTickets)
    BY <2>1, <2>2
  <2>4. IsFiniteSet(DOMAIN tickets)
    BY DEF DeservedIInv, Evidence
  <2> QED
    BY <2>3, <2>4
<1>3. results \in Seq(ReplayResults)
  <2>1. SampleStableSkillReplayResults \in Seq(ReplayResults)
    BY DEF SampleStableSkillReplayResults, ReplayResults
  <2> QED
    BY <2>1 DEF MonitorIInv, MonitorTyped, ReplayResults
<1> HIDE DEF file, results
<1>4. divergent = deserved
  BY <1>2, <1>3, ReviewIsDeserved
<1> HIDE DEF divergent, deserved, number
<1>5. CASE run' = Stopped(number)
  BY <1>1, <1>5 DEF DeservedIInv, Evidence, Deserved, Stopped, NoStatus
<1>6. CASE run' = new
  <2>1. run'.deserved = deserved /\ run'.status = ToSidecarStatus(divergent, number, i)
    BY <1>6
  <2>2. run'.status.incidents = divergent /\ run'.status.mode = SafeModeState(divergent)
    BY <2>1 DEF ToSidecarStatus
  <2> QED
    BY <1>1, <1>4, <2>1, <2>2 DEF DeservedIInv, Evidence, Deserved
<1> QED
  BY <1>1, <1>5, <1>6

LEMMA DeservedNext == MonitorIInv /\ DeservedIInv /\ [Next]_vars => DeservedIInv'
<1> SUFFICES ASSUME MonitorIInv, DeservedIInv, [Next]_vars PROVE DeservedIInv'
  OBVIOUS
<1>1. ASSUME Evidence', UNCHANGED <<run, status, seen>> PROVE DeservedIInv'
  BY <1>1 DEF DeservedIInv, Deserved
<1>2. ASSUME run' = Stopped(run.number), UNCHANGED <<tickets, status, seen>> PROVE DeservedIInv'
  BY <1>2 DEF DeservedIInv, Evidence, Deserved, Stopped, NoStatus
<1>3. ASSUME NEW d \in Deployments, Land(d) PROVE DeservedIInv'
  BY <1>1, <1>3, LandEvidence
<1>4. ASSUME NEW d \in Deployments, NEW v \in PostValues, Observe(d, v) PROVE DeservedIInv'
  BY <1>1, <1>4, ObserveEvidence
<1>5. ASSUME NEW route \in {"skill", "case"}, NEW passed \in BOOLEAN, Replay(route, passed)
      PROVE  DeservedIInv'
  BY <1>1, <1>5 DEF Replay, DeservedIInv, Evidence
<1>6. ASSUME NEW given \in SUBSET {"tickets", "replays"}, NEW i \in BOOLEAN, NEW s \in BOOLEAN,
             RunStabilityMonitor(given, i, s)
      PROVE  DeservedIInv'
  BY <1>6, MonitorDeserved
<1>7. CASE WriteIncident
  <2>1. PICK i \in Indicators : run' = [run EXCEPT !.todo = @ \ {i}]
    BY <1>7 DEF WriteIncident
  <2>2. run'.pc = run.pc /\ run'.status = run.status /\ run'.deserved = run.deserved
    BY <2>1 DEF MonitorIInv, MonitorTyped, MonitorRuns
  <2> QED
    BY <1>7, <2>2 DEF WriteIncident, DeservedIInv, Evidence, Deserved
<1>8. CASE WriteStatus
  BY <1>8 DEF WriteStatus, DeservedIInv, Evidence, Deserved, Stopped, NoStatus
<1>9. CASE Finish
  BY <1>2, <1>9 DEF Finish
<1>10. CASE Crash
  BY <1>2, <1>10 DEF Crash
<1>11. CASE UNCHANGED vars
  BY <1>1, <1>11 DEF vars, DeservedIInv, Evidence
<1> QED
  BY <1>3, <1>4, <1>5, <1>6, <1>7, <1>8, <1>9, <1>10, <1>11, Zenon DEF Next

\* What a run tells is what its evidence deserved, for every evidence.
THEOREM DeservedInvariance == Spec => [](MonitorIInv /\ DeservedIInv)
<1> QED
  BY MonitorInit, MonitorNext, DeservedInit, DeservedNext, PTL DEF Spec

\* The status file freezes the durable routes exactly if the evidence read for it
\* deserved that.
THEOREM StatusDeserved == Spec => []StatusIsDeserved
<1>1. DeservedIInv => StatusIsDeserved
  <2>1. SafeModeAllowedRoutes # Routes
    <3>1. "memory" \in Routes /\ "memory" \notin SafeModeAllowedRoutes
      BY DEF SafeModeAllowedRoutes, Routes
    <3> QED
      BY <3>1
  <2>2. \A x : SafeModeState(x).allowed = IF x = {} THEN Routes ELSE SafeModeAllowedRoutes
    BY DEF SafeModeState
  <2> QED
    BY <2>1, <2>2 DEF DeservedIInv, Deserved, StatusIsDeserved
<1> QED
  BY <1>1, DeservedInvariance, PTL

\* The results before one more are those that were there.
LEMMA EarlierResults ==
  ASSUME NEW s \in Seq(ReplayResults), NEW r \in ReplayResults
  PROVE  LET t == Append(s, r) IN
         /\ t \in Seq(ReplayResults) /\ Len(t) = Len(s) + 1 /\ Len(t) \in 1..Len(t) /\ Len(t) - 1 = Len(s)
         /\ t[Len(t)] = r
         /\ SkillIn(t, Len(s)) = SkillIn(s, Len(s)) /\ FailedSince(t, Len(s)) = FailedSince(s, Len(s))
<1> DEFINE t == Append(s, r)
<1>1. /\ t \in Seq(ReplayResults) /\ Len(t) = Len(s) + 1 /\ Len(s) \in Nat /\ t[Len(t)] = r
      /\ \A n \in 1..Len(s) : t[n] = s[n]
  OBVIOUS
<1> HIDE DEF t
<1>2. SkillIn(t, Len(s)) = SkillIn(s, Len(s))
  BY <1>1 DEF SkillIn
<1>3. SkillIn(s, Len(s)) \subseteq 1..Len(s)
  BY DEF SkillIn
<1>4. FailedSince(t, Len(s)) = FailedSince(s, Len(s))
  BY <1>1, <1>2, <1>3 DEF FailedSince
<1> QED
  BY <1>1, <1>2, <1>4 DEF t

LEMMA OneMoreReplay ==
  ASSUME NEW s \in Seq(ReplayResults), NEW r \in ReplayResults,
         SkillDiverges(s), ~SkillDiverges(Append(s, r))
  PROVE  r.route = "skill" /\ r.passed
<1> DEFINE t == Append(s, r)
<1>1. /\ t \in Seq(ReplayResults) /\ Len(t) \in 1..Len(t) /\ Len(t) - 1 = Len(s) /\ t[Len(t)] = r
      /\ SkillIn(t, Len(s)) = SkillIn(s, Len(s)) /\ FailedSince(t, Len(s)) = FailedSince(s, Len(s))
  BY EarlierResults
<1> HIDE DEF t
<1>2. CASE r.route # "skill"
  <2>1. /\ SkillIn(t, Len(t)) = SkillIn(s, Len(s))
        /\ FailedSince(t, Len(t)) = FailedSince(s, Len(s))
    BY <1>1, <1>2, SkillPrefix
  <2>2. SkillDiverges(t)
    BY <2>1 DEF SkillDiverges
  <2> QED
    BY <2>2 DEF t
<1>3. CASE r.route = "skill" /\ ~r.passed
  <2>1. /\ SkillIn(t, Len(t)) = SkillIn(s, Len(s)) \cup {Len(t)}
        /\ FailedSince(t, Len(t)) = FailedSince(s, Len(s)) \cup {Len(t)}
    BY <1>1, <1>3, SkillPrefix
  <2>2. IsFiniteSet(SkillIn(t, Len(t))) /\ IsFiniteSet(FailedSince(t, Len(t)))
    BY <1>1, SkillPrefix
  <2>3. /\ SkillIn(s, Len(s)) \subseteq SkillIn(t, Len(t))
        /\ FailedSince(s, Len(s)) \subseteq FailedSince(t, Len(t))
    BY <2>1
  <2>4. /\ Cardinality(SkillIn(s, Len(s))) <= Cardinality(SkillIn(t, Len(t)))
        /\ Cardinality(FailedSince(s, Len(s))) <= Cardinality(FailedSince(t, Len(t)))
    BY <2>2, <2>3, FS_Subset
  <2>5. /\ Cardinality(SkillIn(s, Len(s))) \in Nat /\ Cardinality(SkillIn(t, Len(t))) \in Nat
        /\ Cardinality(FailedSince(s, Len(s))) \in Nat /\ Cardinality(FailedSince(t, Len(t))) \in Nat
    BY <2>2, <2>3, FS_Subset, FS_CardinalityType
  <2>6. SkillDiverges(t)
    BY <2>4, <2>5, MonitorAssumption DEF SkillDiverges
  <2> QED
    BY <2>6 DEF t
<1> QED
  BY <1>2, <1>3

\* A share that is at least a percentage stays so with one more in both.
LEMMA OneMoreInBoth ==
  ASSUME NEW part1 \in Nat, NEW all \in Nat \ {0}, NEW percent \in Nat,
         part1 <= all, 100 * part1 >= percent * all
  PROVE  100 * (part1 + 1) >= percent * (all + 1)
<1>1. percent <= 100
  <2> SUFFICES ASSUME percent > 100 PROVE FALSE
    OBVIOUS
  <2>1. (percent - 101) * all \in Nat
    <3>1. percent - 101 \in Nat
      OBVIOUS
    <3> QED
      BY <3>1
  <2>2. (percent - 101) * all = percent * all - 101 * all
    OBVIOUS
  <2>3. percent * all \in Nat
    OBVIOUS
  <2> QED
    BY <2>1, <2>2, <2>3
<1>2. percent * (all + 1) = percent * all + percent
  OBVIOUS
<1>3. percent * all \in Nat
  OBVIOUS
<1> QED
  BY <1>1, <1>2, <1>3

\* A new deployment is still pending.
LEMMA LandKeepsShare ==
  ASSUME DeservedIInv, NEW d \in Deployments, Land(d), MemoryDiverges(tickets)
  PROVE  MemoryDiverges(tickets')
<1>1. /\ d \notin DOMAIN tickets /\ DOMAIN tickets' = DOMAIN tickets \cup {d}
      /\ tickets'[d].post = Unmeasured /\ \A e \in DOMAIN tickets : tickets'[e] = tickets[e]
  BY LandEvidence
<1>2. MeasurePostDeployTicket(tickets'[d]).decision = "pending"
  BY <1>1, Measured
<1>3. Decided(tickets') = Decided(tickets) /\ Negative(tickets') = Negative(tickets)
  BY <1>1, <1>2 DEF Decided, Negative, Settled
<1> QED
  BY <1>3 DEF MemoryDiverges

\* Only a measurement that is not negative withdraws what is held against memory.
LEMMA ObserveKeepsShare ==
  ASSUME DeservedIInv, NEW d \in Deployments, NEW v \in PostValues, Observe(d, v),
         MemoryDiverges(tickets), ~MemoryDiverges(tickets')
  PROVE  /\ d \in DOMAIN tickets /\ tickets[d].route = "memory" /\ tickets'[d] # tickets[d]
         /\ MeasurePostDeployTicket(tickets'[d]).decision # "confirmed_negative"
<1>1. /\ Evidence' /\ d \in DOMAIN tickets /\ DOMAIN tickets' = DOMAIN tickets
      /\ tickets'[d].route = tickets[d].route /\ tickets'[d] # tickets[d]
      /\ \A e \in DOMAIN tickets : e # d => tickets'[e] = tickets[e]
  BY ObserveEvidence
<1>2. CASE tickets[d].route # "memory"
  <2>1. Decided(tickets') = Decided(tickets) /\ Negative(tickets') = Negative(tickets)
    BY <1>1, <1>2 DEF Decided, Negative, Settled
  <2> QED
    BY <2>1 DEF MemoryDiverges
<1>3. CASE /\ tickets[d].route = "memory"
           /\ MeasurePostDeployTicket(tickets'[d]).decision = "confirmed_negative"
  <2> DEFINE all == Cardinality(Decided(tickets))
             negative == Cardinality(Negative(tickets))
             allNow == Cardinality(Decided(tickets'))
             negativeNow == Cardinality(Negative(tickets'))
  <2>1. Decided(tickets') = Decided(tickets) \cup {d} /\ Negative(tickets') = Negative(tickets) \cup {d}
    BY <1>1, <1>3 DEF Decided, Negative, Settled
  <2>2. d \in Negative(tickets) => d \in Decided(tickets)
    BY DEF Decided, Negative, Settled
  <2>3. /\ IsFiniteSet(Decided(tickets)) /\ IsFiniteSet(Negative(tickets))
        /\ all \in Nat /\ negative \in Nat /\ negative <= all
    BY ShareIsMeant DEF DeservedIInv, Evidence
  <2>4. /\ allNow = IF d \in Decided(tickets) THEN all ELSE all + 1
        /\ negativeNow = IF d \in Negative(tickets) THEN negative ELSE negative + 1
    BY <2>1, <2>3, FS_AddElement
  <2>5. all >= MemoryThresholds.min /\ 100 * negative >= MemoryThresholds.safe * all
    BY DEF MemoryDiverges
  <2>6. MemoryThresholds.min \in Nat \ {0} /\ MemoryThresholds.safe \in Nat
    BY MonitorAssumption
  <2> HIDE DEF all, negative, allNow, negativeNow
  <2>7. 100 * (negative + 1) >= MemoryThresholds.safe * (all + 1)
    BY <2>3, <2>5, <2>6, OneMoreInBoth
  <2>8. allNow >= MemoryThresholds.min /\ 100 * negativeNow >= MemoryThresholds.safe * allNow
    <3>1. CASE d \in Decided(tickets)
      <4>1. allNow = all /\ negativeNow >= negative /\ negativeNow \in Nat
        BY <2>3, <2>4, <3>1
      <4>2. MemoryThresholds.safe * all \in Nat
        BY <2>3, <2>6
      <4> QED
        BY <2>3, <2>5, <4>1, <4>2
    <3>2. CASE d \notin Decided(tickets)
      <4>1. allNow = all + 1 /\ negativeNow = negative + 1
        BY <2>2, <2>4, <3>2
      <4> QED
        BY <2>3, <2>5, <2>6, <2>7, <4>1
    <3> QED
      BY <3>1, <3>2
  <2> QED
    BY <2>8 DEF MemoryDiverges, allNow, negativeNow
<1> QED
  BY <1>1, <1>2, <1>3

LEMMA GoodNewsOnly ==
  ASSUME MonitorIInv, DeservedIInv, [Next]_vars
  PROVE  UNCHANGED <<tickets, replays>> \/ OnlyGoodNewsEndsDivergence
<1>1. MonitorIInv' /\ DeservedIInv'
  BY MonitorNext, DeservedNext
<1>2. /\ IsFiniteSet(DOMAIN tickets) /\ IsFiniteSet(DOMAIN tickets')
      /\ replays \in Seq(ReplayResults) /\ replays' \in Seq(ReplayResults)
  BY <1>1 DEF MonitorIInv, MonitorTyped, DeservedIInv, Evidence, ReplayResults
<1>3. /\ "memory" \in Ended <=> MemoryDiverges(tickets) /\ ~MemoryDiverges(tickets')
      /\ "skill" \in Ended <=> SkillDiverges(replays) /\ ~SkillDiverges(replays')
  <2>1. ASSUME NEW file, IsFiniteSet(DOMAIN file), NEW results \in Seq(ReplayResults)
        PROVE  /\ "memory" \in ReviewStabilityIndicators(file, results) <=> MemoryDiverges(file)
               /\ "skill" \in ReviewStabilityIndicators(file, results) <=> SkillDiverges(results)
    BY <2>1, ShareIsMeant, SkillIsMeant DEF ReviewStabilityIndicators, Indicators
  <2>2. /\ "memory" \in ReviewStabilityIndicators(tickets, replays) <=> MemoryDiverges(tickets)
        /\ "skill" \in ReviewStabilityIndicators(tickets, replays) <=> SkillDiverges(replays)
    BY <1>2, <2>1
  <2>3. /\ "memory" \in ReviewStabilityIndicators(tickets', replays') <=> MemoryDiverges(tickets')
        /\ "skill" \in ReviewStabilityIndicators(tickets', replays') <=> SkillDiverges(replays')
    BY <1>2, <2>1
  <2> QED
    BY <2>2, <2>3, Zenon DEF Ended
<1>4. ASSUME NEW d \in Deployments, Land(d) PROVE OnlyGoodNewsEndsDivergence
  <2>1. replays' = replays
    BY <1>4 DEF Land
  <2>2. "skill" \notin Ended
    BY <1>3, <2>1
  <2>3. "memory" \notin Ended
    BY <1>3, <1>4, LandKeepsShare
  <2> QED
    BY <2>2, <2>3 DEF OnlyGoodNewsEndsDivergence
<1>5. ASSUME NEW d \in Deployments, NEW v \in PostValues, Observe(d, v) PROVE OnlyGoodNewsEndsDivergence
  <2>1. replays' = replays
    BY <1>5 DEF Observe
  <2>2. "skill" \notin Ended
    BY <1>3, <2>1
  <2> QED
    BY <1>3, <1>5, <2>2, ObserveKeepsShare DEF OnlyGoodNewsEndsDivergence
<1>6. ASSUME NEW route \in {"skill", "case"}, NEW passed \in BOOLEAN, Replay(route, passed)
      PROVE  OnlyGoodNewsEndsDivergence
  <2> DEFINE r == [route |-> route, passed |-> passed]
  <2>1. tickets' = tickets /\ replays' = Append(replays, r) /\ r \in ReplayResults
    BY <1>6 DEF Replay, ReplayResults
  <2>2. "memory" \notin Ended
    BY <1>3, <2>1
  <2>3. r.route = route /\ r.passed = passed
    OBVIOUS
  <2>4. "skill" \in Ended => r.route = "skill" /\ r.passed
    <3> HIDE DEF r
    <3> QED
      BY <1>2, <1>3, <2>1, OneMoreReplay
  <2>5. "skill" \in Ended => replays' = Append(replays, [route |-> "skill", passed |-> TRUE])
    BY <2>1, <2>3, <2>4
  <2> QED
    BY <2>2, <2>5 DEF OnlyGoodNewsEndsDivergence
<1>7. \/ \E d \in Deployments : Land(d) \/ \E v \in PostValues : Observe(d, v)
      \/ \E route \in {"skill", "case"}, passed \in BOOLEAN : Replay(route, passed)
      \/ UNCHANGED <<tickets, replays>>
  BY Zenon DEF Next, vars, RunStabilityMonitor, WriteIncident, WriteStatus, Finish, Crash
<1> QED
  BY <1>4, <1>5, <1>6, <1>7

-----------------------------------------------------------------------------
(* The full loop.                                                          *)

\* Runs with history have directories of their own.
DistinctIds ==
  \A r, s \in Runs : KeepHistory[r] /\ KeepHistory[s] /\ RunId[r] = RunId[s] => r = s

FileStates == {"none", "torn", "whole"}

LoopTyped ==
  /\ pc \in [Runs -> 0..14] /\ found \in [Runs -> {"none"} \cup DOMAIN Inputs]
  /\ files \in [Files -> [state : FileStates, run : {"none"} \cup Runs]]
  /\ \A r \in Runs : pc[r] # 0 => found[r] # "none"
  /\ \A f \in Files : files[f].state = "whole" => files[f].run \in Runs /\ pc[files[f].run] # 0

\* A file of a history is missing until its run opens it and whole once it has
\* been filled; a run that was killed leaves what there was.
Progress(r) ==
  \A k \in 1..4 :
    /\ pc[r] < 2 * k => files[WritePlan(r)[k]] = Missing
    /\ pc[r] = 2 * k => files[WritePlan(r)[k]] = Torn
    /\ pc[r] \in (2 * k + 1)..13 => files[WritePlan(r)[k]] = Whole(r)

Backed == Latest.state = "whole" /\ KeepHistory[Latest.run] =>
            /\ pc[Latest.run] > 8
            /\ \A k \in 1..4 : files[WritePlan(Latest.run)[k]] = Whole(Latest.run)

LoopIInv == LoopTyped /\ (\A r \in Runs : KeepHistory[r] => Progress(r)) /\ Backed

-----------------------------------------------------------------------------
(* The plan of a run.                                                      *)

LEMMA PlanFacts ==
  ASSUME NEW r \in Runs, NEW k \in 1..6
  PROVE  /\ WritePlan(r)[k] \in Files
         /\ k \in 1..4 => WritePlan(r)[k][1] = RunRoot(r)
         /\ k > 4 => WritePlan(r)[k][1] = "root"
         /\ \A s \in Runs, j \in 1..6 : WritePlan(r)[k] = WritePlan(s)[j] => k = j
<1> DEFINE name == <<"smoke", "calibration", "health.json", "health.md", "latest.json", "latest.md">>
<1>1. ASSUME NEW s \in Runs, NEW j \in 1..6
      PROVE  WritePlan(s)[j] = <<IF j < 5 THEN RunRoot(s) ELSE "root", name[j]>>
  <2>1. j = 1 \/ j = 2 \/ j = 3 \/ j = 4 \/ j = 5 \/ j = 6
    OBVIOUS
  <2> QED
    BY <2>1 DEF WritePlan
<1>2. \A i, j \in 1..6 : name[i] = name[j] => i = j
  OBVIOUS
<1>3. WritePlan(r)[k] \in Files
  BY DEF Files
<1> HIDE DEF name
<1>4. ASSUME NEW s \in Runs, NEW j \in 1..6 PROVE WritePlan(s)[j][2] = name[j]
  BY <1>1
<1> QED
  BY <1>1, <1>2, <1>3, <1>4

\* Nobody else writes what a run with history has in its directory.
LEMMA Own ==
  ASSUME DistinctIds, NEW r \in Runs, KeepHistory[r], NEW k \in 1..4,
         NEW s \in Runs, NEW j \in 1..6, WritePlan(s)[j] = WritePlan(r)[k]
  PROVE  s = r /\ j = k
<1>1. j = k
  BY PlanFacts
<1>2. RunRoot(s) = RunRoot(r)
  BY <1>1, PlanFacts
<1>3. s = r
  BY <1>2, FullLoopAssumption DEF RunRoot, DistinctIds
<1> QED
  BY <1>1, <1>3

LEMMA LatestFile ==
  /\ <<"root", "latest.json">> \in Files
  /\ \A r \in Runs : /\ WritePlan(r)[5] = <<"root", "latest.json">>
                     /\ KeepHistory[r] =>
                          \A k \in 1..4 : WritePlan(r)[k] # <<"root", "latest.json">>
<1>1. ASSUME NEW r \in Runs PROVE WritePlan(r)[5] = <<"root", "latest.json">>
  BY DEF WritePlan
<1>2. ASSUME NEW r \in Runs, KeepHistory[r], NEW k \in 1..4
      PROVE  WritePlan(r)[k] # <<"root", "latest.json">>
  BY <1>1, PlanFacts
<1>3. PICK r \in Runs : TRUE
  BY FullLoopAssumption
<1>4. <<"root", "latest.json">> \in Files
  BY <1>1, <1>3, PlanFacts
<1> QED
  BY <1>1, <1>2, <1>4

LEMMA OpenStep ==
  ASSUME NEW r \in Runs, pc \in [Runs -> 0..14], Open(r)
  PROVE  \E k \in 1..6 : /\ pc[r] = 2 * k - 1 /\ pc' = [pc EXCEPT ![r] = 2 * k]
                         /\ files' = [files EXCEPT ![WritePlan(r)[k]] = Torn]
                         /\ UNCHANGED found
<1>1. PICK k \in 1..6 : pc[r] = 2 * k - 1
  BY DEF Open
<1>2. (pc[r] + 1) \div 2 = k /\ pc[r] + 1 = 2 * k
  BY <1>1
<1> QED
  BY <1>1, <1>2 DEF Open

LEMMA FillStep ==
  ASSUME NEW r \in Runs, pc \in [Runs -> 0..14], Fill(r)
  PROVE  \E k \in 1..6 : \E written \in Filled(r, files[WritePlan(r)[k]]) :
           /\ pc[r] = 2 * k /\ pc' = [pc EXCEPT ![r] = 2 * k + 1]
           /\ files' = [files EXCEPT ![WritePlan(r)[k]] = written]
           /\ UNCHANGED found
<1>1. PICK k \in 1..6 : pc[r] = 2 * k
  BY DEF Fill
<1>2. pc[r] \div 2 = k /\ pc[r] + 1 = 2 * k + 1
  BY <1>1
<1> QED
  BY <1>1, <1>2 DEF Fill

-----------------------------------------------------------------------------
(* The types, which hold of any runs.                                      *)

\* A write of the k-th file of r keeps the files typed, whoever shares its directory.
LEMMA FilesTyped ==
  ASSUME LoopTyped, NEW r \in Runs, NEW k \in 1..6, NEW written,
         found[r] # "none", pc'[r] # 0,
         written \in {Torn, Whole(r)},
         files' = [files EXCEPT ![WritePlan(r)[k]] = written], UNCHANGED found,
         pc' \in [Runs -> 0..14], \A s \in Runs : pc'[s] = 0 <=> pc[s] = 0
  PROVE  LoopTyped'
<1>1. WritePlan(r)[k] \in Files
  BY PlanFacts
<1>2. written \in [state : FileStates, run : {"none"} \cup Runs] /\ (written.state = "whole" => written.run = r)
  BY DEF Torn, Whole, FileStates
<1>3. files' \in [Files -> [state : FileStates, run : {"none"} \cup Runs]]
  BY <1>1, <1>2 DEF LoopTyped
<1>4. ASSUME NEW f \in Files, files'[f].state = "whole" PROVE files'[f].run \in Runs /\ pc'[files'[f].run] # 0
  <2>1. CASE f = WritePlan(r)[k]
    BY <1>1, <1>2, <1>4, <2>1 DEF LoopTyped
  <2>2. CASE f # WritePlan(r)[k]
    BY <1>4, <2>2 DEF LoopTyped
  <2> QED
    BY <2>1, <2>2
<1> QED
  BY <1>3, <1>4 DEF LoopTyped

\* Every step of a run keeps the files typed.
LEMMA LoopTypedStep == LoopTyped /\ [LoopNext]_loopVars => LoopTyped'
<1> SUFFICES ASSUME LoopTyped, [LoopNext]_loopVars PROVE LoopTyped'
  OBVIOUS
<1>1. ASSUME NEW r \in Runs, NEW i \in DOMAIN Inputs, Begin(r, i) PROVE LoopTyped'
  BY <1>1, FullLoopAssumption DEF Begin, LoopTyped
<1>2. ASSUME NEW r \in Runs, Open(r) PROVE LoopTyped'
  <2>1. PICK k \in 1..6 :
          /\ pc[r] = 2 * k - 1 /\ pc' = [pc EXCEPT ![r] = 2 * k]
          /\ files' = [files EXCEPT ![WritePlan(r)[k]] = Torn] /\ UNCHANGED found
    BY <1>2, OpenStep DEF LoopTyped
  <2>2. found[r] # "none" /\ pc'[r] # 0 /\ pc' \in [Runs -> 0..14] /\ \A s \in Runs : pc'[s] = 0 <=> pc[s] = 0
    BY <2>1 DEF LoopTyped
  <2> QED
    BY <2>1, <2>2, FilesTyped
<1>3. ASSUME NEW r \in Runs, Fill(r) PROVE LoopTyped'
  <2>1. PICK k \in 1..6 : \E written \in Filled(r, files[WritePlan(r)[k]]) :
          /\ pc[r] = 2 * k /\ pc' = [pc EXCEPT ![r] = 2 * k + 1]
          /\ files' = [files EXCEPT ![WritePlan(r)[k]] = written] /\ UNCHANGED found
    BY <1>3, FillStep DEF LoopTyped
  <2>2. PICK written \in {Torn, Whole(r)} : files' = [files EXCEPT ![WritePlan(r)[k]] = written]
    BY <2>1 DEF Filled
  <2>3. found[r] # "none" /\ pc'[r] # 0 /\ pc' \in [Runs -> 0..14] /\ \A s \in Runs : pc'[s] = 0 <=> pc[s] = 0
    BY <2>1 DEF LoopTyped
  <2> QED
    BY <2>1, <2>2, <2>3, FilesTyped
<1>4. ASSUME NEW r \in Runs, Kill(r) PROVE LoopTyped'
  BY <1>4 DEF Kill, LoopTyped
<1>5. CASE UNCHANGED loopVars
  BY <1>5 DEF loopVars, LoopTyped
<1> QED
  BY <1>1, <1>2, <1>3, <1>4, <1>5 DEF LoopNext

\* Type correctness: a file that is complete was written by a run that had found
\* its inputs by then.
THEOREM LoopTypeCorrect == LoopSpec => []LoopTypeOK
<1>1. LoopInit => LoopTyped
  BY DEF LoopInit, LoopTyped, Missing, FileStates
<1>2. LoopTyped => LoopTypeOK
  BY DEF LoopTyped, LoopTypeOK
<1> QED
  BY <1>1, <1>2, LoopTypedStep, PTL DEF LoopSpec

-----------------------------------------------------------------------------
(* The inductive invariant.                                                *)

LEMMA LoopInitIInv == LoopInit => LoopIInv
<1> SUFFICES ASSUME LoopInit PROVE LoopIInv
  OBVIOUS
<1>1. LoopTyped
  BY DEF LoopInit, LoopTyped, Missing, FileStates
<1>2. ASSUME NEW r \in Runs PROVE Progress(r)
  BY PlanFacts DEF LoopInit, Progress
<1>3. Backed
  <2>1. Latest.state # "whole"
    BY LatestFile DEF LoopInit, Latest, Missing
  <2> QED
    BY <2>1 DEF Backed
<1> QED
  BY <1>1, <1>2, <1>3 DEF LoopIInv

\* A write of the k-th file of r leaves the finished files of every history alone.
LEMMA WriteStep ==
  ASSUME DistinctIds, LoopIInv, NEW r \in Runs, NEW k \in 1..6, NEW written,
         \/ pc[r] = 2 * k - 1 /\ pc' = [pc EXCEPT ![r] = 2 * k] /\ written = Torn
         \/ pc[r] = 2 * k /\ pc' = [pc EXCEPT ![r] = 2 * k + 1]
              /\ written \in Filled(r, files[WritePlan(r)[k]]),
         files' = [files EXCEPT ![WritePlan(r)[k]] = written], UNCHANGED found
  PROVE  /\ LoopIInv'
         /\ \A f \in Files : f[1] # "root" /\ files[f].state = "whole" => files'[f] = files[f]
<1> DEFINE f == WritePlan(r)[k]
<1>1. f \in Files /\ LoopTyped
  BY PlanFacts DEF LoopIInv
<1>2. written \in [state : FileStates, run : {"none"} \cup Runs]
      /\ (written.state = "whole" => written.run = r /\ pc[r] = 2 * k)
  BY DEF Filled, Whole, Torn, FileStates
<1>3. LoopTyped'
  BY <1>1, <1>2 DEF LoopTyped
<1>4. /\ \A g \in Files : g # f => files'[g] = files[g]
      /\ files'[f] = written
      /\ \A s \in Runs : s # r => pc'[s] = pc[s]
      /\ pc'[r] = pc[r] + 1 /\ pc[r] \in 2 * k - 1..2 * k
  BY <1>1 DEF LoopTyped
<1> HIDE DEF f
<1>5. ASSUME NEW s \in Runs, KeepHistory[s], s # r, NEW j \in 1..4
      PROVE  files'[WritePlan(s)[j]] = files[WritePlan(s)[j]]
  BY <1>4, <1>5, PlanFacts, Own DEF f
<1>6. ASSUME KeepHistory[r], NEW j \in 1..4, j # k
      PROVE  files'[WritePlan(r)[j]] = files[WritePlan(r)[j]]
  BY <1>4, <1>6, PlanFacts DEF f
<1>7. ASSUME KeepHistory[r], k < 5
      PROVE  /\ pc[r] = 2 * k - 1 => written = Torn /\ files[f] = Missing
             /\ pc[r] = 2 * k => written = Whole(r) /\ files[f] = Torn
  <2>1. Progress(r)
    BY <1>7 DEF LoopIInv
  <2>2. /\ pc[r] = 2 * k - 1 => files[f] = Missing
        /\ pc[r] = 2 * k => files[f] = Torn
    BY <1>7, <2>1 DEF Progress, f
  <2> QED
    <3>1. pc[r] = 2 * k - 1 => written = Torn
      BY <1>4
    <3>2. pc[r] = 2 * k => written \in Filled(r, files[f])
      BY <1>4 DEF f
    <3>3. Filled(r, Torn) = {Whole(r)}
      BY DEF Filled, Torn
    <3> QED
      BY <2>2, <3>1, <3>2, <3>3
<1>8. ASSUME NEW s \in Runs, KeepHistory[s] PROVE Progress(s)'
  <2>1. CASE s # r
    BY <1>4, <1>5, <1>8, <2>1 DEF LoopIInv, Progress
  <2>2. CASE s = r
    BY <1>4, <1>6, <1>7, <1>8, <2>2 DEF LoopIInv, Progress
  <2> QED
    BY <2>1, <2>2
<1>9. Backed'
  <2>1. CASE k = 5
    <3>1. Latest' = written
      BY <1>4, <2>1, LatestFile DEF f, Latest
    <3>2. SUFFICES ASSUME written.state = "whole", KeepHistory[r]
          PROVE  pc'[r] > 8 /\ \A j \in 1..4 : files'[WritePlan(r)[j]] = Whole(r)
      BY <1>2, <3>1 DEF Backed
    <3>3. pc[r] = 10
      BY <1>2, <2>1, <3>2
    <3>4. \A j \in 1..4 : files[WritePlan(r)[j]] = Whole(r)
      BY <3>2, <3>3 DEF LoopIInv, Progress
    <3> QED
      BY <1>4, <1>6, <2>1, <3>2, <3>3, <3>4
  <2>2. CASE k # 5
    <3>1. f # <<"root", "latest.json">>
      BY <2>2, PlanFacts, LatestFile DEF f
    <3>2. Latest' = Latest
      BY <1>4, <3>1, LatestFile DEF Latest
    <3>3. SUFFICES ASSUME NEW q, q = Latest.run, Latest.state = "whole", KeepHistory[q]
          PROVE  pc'[q] > 8 /\ \A j \in 1..4 : files'[WritePlan(q)[j]] = Whole(q)
      BY <3>2 DEF Backed
    <3>4. q \in Runs
      BY <1>1, <3>3, LatestFile DEF LoopTyped, Latest
    <3>5. pc[q] > 8 /\ \A j \in 1..4 : files[WritePlan(q)[j]] = Whole(q)
      BY <3>3 DEF LoopIInv, Backed
    <3>6. CASE q = r
      BY <1>1, <1>4, <1>6, <3>3, <3>5, <3>6 DEF LoopTyped
    <3>7. CASE q # r
      BY <1>4, <1>5, <3>3, <3>4, <3>5, <3>7
    <3> QED
      BY <3>6, <3>7
  <2> QED
    BY <2>1, <2>2
<1>10. ASSUME NEW g \in Files, g[1] # "root", files[g].state = "whole"
       PROVE  files'[g] = files[g]
  <2>1. CASE g = f
    <3>1. KeepHistory[r] /\ k < 5
      BY <1>10, <2>1, PlanFacts DEF f, RunRoot
    <3> QED
      BY <1>4, <1>7, <1>10, <2>1, <3>1 DEF Missing, Torn
  <2> QED
    BY <1>4, <2>1
<1> QED
  BY <1>3, <1>8, <1>9, <1>10 DEF LoopIInv

LEMMA LoopStep ==
  ASSUME DistinctIds, LoopIInv, [LoopNext]_loopVars
  PROVE  /\ LoopIInv'
         /\ \A f \in Files : f[1] # "root" /\ files[f].state = "whole" => files'[f] = files[f]
<1>1. ASSUME NEW r \in Runs, NEW i \in DOMAIN Inputs, Begin(r, i) PROVE LoopIInv' /\ UNCHANGED files
  <2>1. LoopTyped'
    BY <1>1, FullLoopAssumption DEF Begin, LoopIInv, LoopTyped
  <2>2. ASSUME NEW s \in Runs, KeepHistory[s] PROVE Progress(s)'
    BY <1>1, <2>2 DEF Begin, LoopIInv, LoopTyped, Progress
  <2>3. Backed'
    BY <1>1 DEF Begin, LoopIInv, LoopTyped, Backed, Latest
  <2> QED
    BY <1>1, <2>1, <2>2, <2>3 DEF LoopIInv, Begin
<1>2. ASSUME NEW r \in Runs, Open(r)
      PROVE  /\ LoopIInv'
             /\ \A f \in Files : f[1] # "root" /\ files[f].state = "whole" => files'[f] = files[f]
  <2>1. pc \in [Runs -> 0..14]
    BY DEF LoopIInv, LoopTyped
  <2>2. PICK k \in 1..6 :
          /\ pc[r] = 2 * k - 1 /\ pc' = [pc EXCEPT ![r] = 2 * k]
          /\ files' = [files EXCEPT ![WritePlan(r)[k]] = Torn] /\ UNCHANGED found
    BY <1>2, <2>1, OpenStep
  <2> QED
    BY <2>2, WriteStep
<1>3. ASSUME NEW r \in Runs, Fill(r)
      PROVE  /\ LoopIInv'
             /\ \A f \in Files : f[1] # "root" /\ files[f].state = "whole" => files'[f] = files[f]
  <2>1. pc \in [Runs -> 0..14]
    BY DEF LoopIInv, LoopTyped
  <2>2. PICK k \in 1..6 : \E written \in Filled(r, files[WritePlan(r)[k]]) :
          /\ pc[r] = 2 * k /\ pc' = [pc EXCEPT ![r] = 2 * k + 1]
          /\ files' = [files EXCEPT ![WritePlan(r)[k]] = written] /\ UNCHANGED found
    BY <1>3, <2>1, FillStep
  <2>3. PICK written \in Filled(r, files[WritePlan(r)[k]]) :
          /\ pc[r] = 2 * k /\ pc' = [pc EXCEPT ![r] = 2 * k + 1]
          /\ files' = [files EXCEPT ![WritePlan(r)[k]] = written] /\ UNCHANGED found
    BY <2>2
  <2> QED
    BY <2>3, WriteStep
<1>4. ASSUME NEW r \in Runs, Kill(r) PROVE LoopIInv' /\ UNCHANGED files
  <2>1. LoopTyped'
    BY <1>4 DEF Kill, LoopIInv, LoopTyped
  <2>2. ASSUME NEW s \in Runs, KeepHistory[s] PROVE Progress(s)'
    BY <1>4, <2>2 DEF Kill, LoopIInv, LoopTyped, Progress
  <2>3. Backed'
    BY <1>4 DEF Kill, LoopIInv, LoopTyped, Backed, Latest
  <2> QED
    BY <1>4, <2>1, <2>2, <2>3 DEF LoopIInv, Kill
<1>5. CASE UNCHANGED loopVars
  BY <1>5 DEF loopVars, LoopIInv, LoopTyped, Progress, Backed, Latest
<1> QED
  BY <1>1, <1>2, <1>3, <1>4, <1>5 DEF LoopNext

THEOREM LoopInvariance == ASSUME DistinctIds PROVE LoopSpec => []LoopIInv
<1>1. LoopInit => LoopIInv
  BY LoopInitIInv
<1>2. LoopIInv /\ [LoopNext]_loopVars => LoopIInv'
  BY LoopStep
<1> QED
  BY <1>1, <1>2, PTL DEF LoopSpec

\* writeQianxuesenFullLoopHealth: the entry point is written last, so a latest
\* manifest of a run with history points to complete files of that very run,
\* whatever runs beside it and wherever runs are killed.
THEOREM LatestBacked == ASSUME DistinctIds PROVE LoopSpec => []LatestIsBacked
<1>1. LoopIInv => LatestIsBacked
  BY DEF LoopIInv, Backed, LatestIsBacked
<1> QED
  BY <1>1, LoopInvariance, PTL

\* history/<run-id>/ is append-only: a complete file there is never opened again.
THEOREM HistoryOnlyGrows == ASSUME DistinctIds PROVE LoopSpec => HistoryIsAppendOnly
<1>1. LoopIInv /\ [LoopNext]_loopVars =>
        [\A f \in Files : f[1] # "root" /\ files[f].state = "whole" => files'[f] = files[f]]_loopVars
  BY LoopStep
<1> QED
  BY <1>1, LoopInvariance, PTL DEF LoopSpec, HistoryIsAppendOnly
-----------------------------------------------------------------------------
(* The slow loop.  On the grid of three decimals the middle loop's distance *)
(* is the slow loop's: rounding changes nothing (RoundOnGrid).             *)

LEMMA GridFacts ==
  ASSUME NEW x \in Int, NEW y \in Int, x % SlowGrain = 0, y % SlowGrain = 0
  PROVE  (x - y) % SlowGrain = 0 /\ (y - x) % SlowGrain = 0
<1>1. SlowGrain \in Nat \ {0}
  BY DeckAssumption
<1>2. PICK j \in Int : x = SlowGrain * j
  BY <1>1
<1>3. PICK k \in Int : y = SlowGrain * k
  BY <1>1
<1>4. x - y = SlowGrain * (j - k) /\ y - x = SlowGrain * (k - j)
  BY <1>1, <1>2, <1>3
<1> QED
  BY <1>1, <1>4

LEMMA RoundOnGrid ==
  ASSUME NEW x \in Nat, x % SlowGrain = 0
  PROVE  O!Round(x) = x
<1>1. SlowGrain \in Nat \ {0}
  BY DeckAssumption
<1>2. PICK k \in Int : x = SlowGrain * k
  BY <1>1
<1>3. 2 * x + SlowGrain = (2 * SlowGrain) * k + SlowGrain
  BY <1>1, <1>2
<1>4. (2 * x + SlowGrain) \div (2 * SlowGrain) = k
  BY <1>1, <1>3
<1> QED
  BY <1>2, <1>4 DEF O!Round

\* The evidence of the slow loop: one metric, at least one sample, and counts.
Outcomes == [evaluated : Nat, rejected : Nat, postDeploy : Nat, negative : Nat]
SlowTyped == s1 \in Metrics /\ s2 \in Seq(Values) /\ s2 # <<>> /\ s3 \in Outcomes

LEMMA DistanceOnGrid ==
  ASSUME NEW direction, NEW target \in Int, NEW value \in Int,
         target % SlowGrain = 0, value % SlowGrain = 0
  PROVE  LET d == O!DistanceToTarget(direction, target, value)
         IN  d \in Nat /\ d % SlowGrain = 0 /\ O!Round(d) = d
<1> DEFINE d == O!DistanceToTarget(direction, target, value)
<1>1. d \in {0, value - target, target - value} /\ d \in Nat
  BY DEF O!DistanceToTarget, O!AtLeast0, O!Abs
<1>2. 0 % SlowGrain = 0
  BY DeckAssumption
<1>3. (value - target) % SlowGrain = 0 /\ (target - value) % SlowGrain = 0
  BY GridFacts
<1> HIDE DEF d
<1>4. d % SlowGrain = 0
  BY <1>1, <1>2, <1>3
<1> QED
  BY <1>1, <1>4, RoundOnGrid DEF d

LEMMA LastFacts ==
  ASSUME SlowTyped
  PROVE  s2[1] \in Nat /\ O!Last(s2) \in Nat
<1>1. Values \subseteq Nat
  BY DeckAssumption DEF O!OuterAssumption
<1>2. Len(s2) \in Nat /\ Len(s2) >= 1
  BY DEF SlowTyped
<1>3. s2[1] \in Values /\ s2[Len(s2)] \in Values
  BY <1>2 DEF SlowTyped
<1> QED
  BY <1>1, <1>3 DEF O!Last

\* What the review recommends about the metric itself.
LEMMA SetpointFacts ==
  ASSUME SlowTyped
  PROVE  LET distance(value) == O!DistanceToTarget(s1.direction, s1.target, value) IN
         "setpoint_adjustment_candidate" \in O!Review.recommendations
           <=> /\ distance(O!Last(s2)) > s1.tolerance
               /\ distance(s2[1]) - distance(O!Last(s2)) < s1.tolerance
<1> DEFINE trend == O!ReviewMetricTrend(s2)
<1>1. "setpoint_adjustment_candidate" \in O!Review.recommendations
        <=> trend = "setpoint_adjustment_candidate"
  BY DEF O!Review, O!ReviewOuterLoop, O!ReviewRouteOutcome, O!ReviewMetricRegistryGap
<1> QED
  BY <1>1 DEF SlowTyped, O!ReviewMetricTrend

LEMMA SlowLoopsAgree == SlowTyped => O!LoopsAgree
<1> SUFFICES ASSUME SlowTyped,
                    \A v \in {s1.target, s1.tolerance, s2[1], O!Last(s2)} : O!OnGrid(v)
             PROVE  /\ O!Window.decision = "confirmed_positive" =>
                         "setpoint_adjustment_candidate" \notin O!Review.recommendations
                    /\ /\ O!Window.decision = "confirmed_negative"
                       /\ O!DistanceToTarget(s1.direction, s1.target, O!Last(s2)) > s1.tolerance
                       => "setpoint_adjustment_candidate" \in O!Review.recommendations
  BY DEF O!LoopsAgree
<1> DEFINE distance(value) == O!DistanceToTarget(s1.direction, s1.target, value)
           first == distance(s2[1])
           latest == distance(O!Last(s2))
<1>1. s1.target \in Int /\ s1.tolerance \in Nat
  BY DeckAssumption DEF SlowTyped, O!OuterAssumption
<1>2. s2[1] \in Nat /\ O!Last(s2) \in Nat
  BY LastFacts
<1>3. /\ first \in Nat /\ O!Round(first) = first
      /\ latest \in Nat /\ O!Round(latest) = latest
  BY <1>1, <1>2, DistanceOnGrid DEF O!OnGrid
<1>4. O!Window.decision = O!ClassifyDelta(first, latest, s1.tolerance)
  <2>1. O!Last(s2) # O!Unmeasured
    BY <1>2 DEF O!Unmeasured
  <2>2. O!AtLeast0(s1.tolerance) = s1.tolerance
    BY <1>1 DEF O!AtLeast0
  <2> QED
    BY <1>3, <2>1, <2>2 DEF O!Window, O!Ticket, O!MeasurePostDeployTicket
<1>5. "setpoint_adjustment_candidate" \in O!Review.recommendations
        <=> latest > s1.tolerance /\ first - latest < s1.tolerance
  BY SetpointFacts
<1> HIDE DEF first, latest, distance
<1>6. /\ O!Window.decision = "confirmed_positive" =>
           first - latest > s1.tolerance \/ latest <= s1.tolerance
      /\ O!Window.decision = "confirmed_negative" => first - latest < -s1.tolerance
  BY <1>4 DEF O!ClassifyDelta
<1> QED
  BY <1>1, <1>3, <1>5, <1>6 DEF latest, distance

LEMMA SlowInit == part = "slow" /\ HealthInit => SlowTyped
<1> SUFFICES ASSUME part = "slow", HealthInit PROVE SlowTyped
  OBVIOUS
<1>1. O!Init
  BY DEF HealthInit
<1>2. PICK v \in Values : s2 = <<v>>
  BY <1>1 DEF O!Init
<1> QED
  BY <1>1, <1>2 DEF O!Init, SlowTyped, O!NoOutcome, Outcomes

\* The counts of a route grow: a rejection counts among the evaluated, a
\* negative deployment among the measured.
OneMoreOf(more, all) ==
  \E v \in {0, 1} : s3' = [s3 EXCEPT ![all] = @ + 1, ![more] = @ + v]

LEMMA SlowOutcome ==
  ASSUME O!Next
  PROVE  s3' = s3 \/ OneMoreOf("rejected", "evaluated") \/ OneMoreOf("negative", "postDeploy")
<1>1. ASSUME NEW rejected \in BOOLEAN, O!Evaluate(rejected) PROVE OneMoreOf("rejected", "evaluated")
  BY <1>1 DEF O!Evaluate, OneMoreOf
<1>2. ASSUME NEW v \in Values, O!Land(v) PROVE OneMoreOf("negative", "postDeploy")
  BY <1>2, Zenon DEF O!Land, OneMoreOf
<1>3. O!ObserveGap \/ (\E v \in Values : O!Drift(v)) => s3' = s3
  BY DEF O!ObserveGap, O!Drift
<1> QED
  BY <1>1, <1>2, <1>3 DEF O!Next

LEMMA SlowStep == ASSUME SlowTyped, O!Next PROVE SlowTyped'
<1>1. ASSUME NEW v \in Values PROVE Append(s2, v) \in Seq(Values) /\ Append(s2, v) # <<>>
  BY DEF SlowTyped
<1>2. s1' = s1 /\ (s2' = s2 \/ \E v \in Values : s2' = Append(s2, v))
  <2>1. ASSUME NEW rejected \in BOOLEAN, O!Evaluate(rejected) PROVE s1' = s1 /\ s2' = s2
    BY <2>1 DEF O!Evaluate
  <2>2. ASSUME NEW v \in Values, O!Land(v) \/ O!Drift(v) PROVE s1' = s1 /\ s2' = Append(s2, v)
    BY <2>2 DEF O!Land, O!Drift
  <2>3. ASSUME O!ObserveGap PROVE s1' = s1 /\ s2' = s2
    BY <2>3 DEF O!ObserveGap
  <2> QED
    BY <2>1, <2>2, <2>3 DEF O!Next
<1>3. s3' \in Outcomes
  BY SlowOutcome DEF SlowTyped, Outcomes, OneMoreOf
<1> QED
  BY <1>1, <1>2, <1>3 DEF SlowTyped

\* A mark for recalibration goes only with a candidate that passes or a
\* deployment that is not negative.
LEMMA SlowWithdraws == ASSUME SlowTyped, O!Next PROVE O!OnlyGoodOutcomesWithdraw
<1>1. ASSUME NEW trend, NEW counts, NEW gapFile
      PROVE  "route_recalibration_candidate" \in O!ReviewOuterLoop(trend, counts, gapFile).actionable
               <=> O!Recalibrates(counts)
  BY DEF O!ReviewOuterLoop, O!ReviewMetricTrend, O!ReviewRouteOutcome, O!ReviewMetricRegistryGap
<1>2. /\ s3.evaluated \in Nat /\ s3.rejected \in Nat /\ s3.postDeploy \in Nat /\ s3.negative \in Nat
  BY DEF SlowTyped, Outcomes
<1> SUFFICES ASSUME O!Recalibrates(s3), ~O!Recalibrates(s3')
             PROVE  \/ s3'.evaluated - s3'.rejected > s3.evaluated - s3.rejected
                    \/ s3'.postDeploy - s3'.negative > s3.postDeploy - s3.negative
  BY <1>1 DEF O!OnlyGoodOutcomesWithdraw
<1>3. CASE s3' = s3
  BY <1>3
<1>4. CASE OneMoreOf("rejected", "evaluated")
  <2>1. PICK v \in {0, 1} : /\ s3'.evaluated = s3.evaluated + 1 /\ s3'.rejected = s3.rejected + v
                            /\ s3'.postDeploy = s3.postDeploy /\ s3'.negative = s3.negative
    BY <1>4 DEF OneMoreOf, SlowTyped, Outcomes
  <2> QED
    BY <1>2, <2>1 DEF O!Recalibrates
<1>5. CASE OneMoreOf("negative", "postDeploy")
  <2>1. PICK v \in {0, 1} : /\ s3'.postDeploy = s3.postDeploy + 1 /\ s3'.negative = s3.negative + v
                            /\ s3'.evaluated = s3.evaluated /\ s3'.rejected = s3.rejected
    BY <1>5 DEF OneMoreOf, SlowTyped, Outcomes
  <2> QED
    BY <1>2, <2>1 DEF O!Recalibrates
<1> QED
  BY <1>3, <1>4, <1>5, SlowOutcome

-----------------------------------------------------------------------------
(* The metric registry.  Two entries never share an id once the review     *)
(* admits it, so the map holds the one entry there is (OneEntry).          *)

RegistryTyped ==
  /\ s1 \in Seq(R!Entries)
  /\ s2 \in [states : Seq(PlantComponents), mapped : SUBSET Actuators, authority : BOOLEAN]

LEMMA NoDuplicates ==
  ASSUME NEW registry \in Seq(R!Entries), R!DuplicateValues(registry) = {},
         NEW m \in DOMAIN registry, NEW n \in DOMAIN registry, registry[m].id = registry[n].id
  PROVE  m = n
<1>1. m \in 1..Len(registry) /\ n \in 1..Len(registry) /\ Len(registry) \in Nat
  OBVIOUS
<1>2. ASSUME NEW j \in DOMAIN registry, NEW k \in DOMAIN registry, j < k
      PROVE  registry[j].id # registry[k].id
  <2>1. j \in 1..(k - 1)
    BY <1>2
  <2>2. registry[j].id = registry[k].id => registry[k].id \in R!DuplicateValues(registry)
    BY <2>1 DEF R!DuplicateValues
  <2> QED
    BY <2>2
<1> QED
  BY <1>1, <1>2

LEMMA OneEntry ==
  ASSUME NEW registry \in Seq(R!Entries), NEW n \in DOMAIN registry,
         \A m \in DOMAIN registry : registry[m].id = registry[n].id => m = n
  PROVE  R!MetricMap(registry, registry[n].id) = registry[n]
<1> DEFINE at == {m \in DOMAIN registry : registry[m].id = registry[n].id}
<1>1. at = {n}
  OBVIOUS
<1>2. n <= n
  OBVIOUS
<1> QED
  BY <1>1, <1>2 DEF R!MetricMap

\* A measurable setpoint has its entry, whichever way the registry is read.
LEMMA ReadingFacts ==
  ASSUME NEW registry \in Seq(R!Entries), NEW setpoint,
         \A m, n \in DOMAIN registry : registry[m].id = registry[n].id => m = n
  PROVE  R!ReviewMeasurableSetpoint(setpoint, registry)
           <=> \E n \in DOMAIN registry : /\ registry[n].id = setpoint.id
                                          /\ registry[n].direction = setpoint.direction
                                          /\ setpoint.tolerance >= 0
<1>1. ASSUME NEW n \in DOMAIN registry, registry[n].id = setpoint.id
      PROVE  R!MetricMap(registry, setpoint.id) = registry[n]
  BY <1>1, OneEntry
<1> QED
  BY <1>1 DEF R!ReviewMeasurableSetpoint, R!Ids

LEMMA OneReading == RegistryTyped => R!OneReadingOfTheRegistry
<1> SUFFICES ASSUME RegistryTyped, R!Admitted, NEW s \in R!Setpoints
             PROVE  R!ReviewMeasurableSetpoint(s, s1)
                      <=> R!ReviewMeasurableSetpoint(s, R!Reverse(s1))
  BY DEF R!OneReadingOfTheRegistry
<1> DEFINE back == R!Reverse(s1)
           turned(n) == Len(s1) - n + 1
<1>1. s1 \in Seq(R!Entries) /\ Len(s1) \in Nat /\ DOMAIN s1 = 1..Len(s1)
  BY DEF RegistryTyped
<1>2. \A m, n \in DOMAIN s1 : s1[m].id = s1[n].id => m = n
  BY <1>1, NoDuplicates DEF R!Admitted, R!ReviewMetricRegistry
<1>3. /\ back \in Seq(R!Entries) /\ DOMAIN back = DOMAIN s1
      /\ \A n \in DOMAIN s1 : turned(n) \in DOMAIN s1 /\ back[n] = s1[turned(n)]
                              /\ s1[n] = back[turned(n)]
  <2>1. back = [n \in 1..Len(s1) |-> s1[turned(n)]]
    BY DEF R!Reverse
  <2>2. \A n \in 1..Len(s1) : turned(n) \in 1..Len(s1) /\ turned(turned(n)) = n
    BY <1>1
  <2>3. \A n \in 1..Len(s1) : s1[n] \in R!Entries
    BY <1>1
  <2> HIDE DEF turned, back
  <2>4. \A n \in 1..Len(s1) : back[n] = s1[turned(n)]
    BY <2>1
  <2>5. back \in Seq(R!Entries) /\ DOMAIN back = 1..Len(s1)
    BY <1>1, <2>1, <2>2, <2>3
  <2> QED
    BY <1>1, <2>2, <2>4, <2>5
<1> HIDE DEF back
<1>4. \A m, n \in DOMAIN back : back[m].id = back[n].id => m = n
  <2> SUFFICES ASSUME NEW m \in DOMAIN back, NEW n \in DOMAIN back, back[m].id = back[n].id
               PROVE  m = n
    OBVIOUS
  <2>1. turned(m) = turned(n)
    BY <1>2, <1>3
  <2> QED
    BY <1>1, <1>3, <2>1
<1>5. R!ReviewMeasurableSetpoint(s, s1)
        <=> \E n \in DOMAIN s1 : /\ s1[n].id = s.id /\ s1[n].direction = s.direction
                                 /\ s.tolerance >= 0
  BY <1>1, <1>2, ReadingFacts
<1>6. R!ReviewMeasurableSetpoint(s, back)
        <=> \E n \in DOMAIN back : /\ back[n].id = s.id /\ back[n].direction = s.direction
                                   /\ s.tolerance >= 0
  BY <1>3, <1>4, ReadingFacts
<1> HIDE DEF turned
<1> QED
  BY <1>3, <1>5, <1>6 DEF back

LEMMA Computed == RegistryTyped => R!MeasurableMeansComputed
<1> SUFFICES ASSUME RegistryTyped, R!Admitted, NEW s \in R!Setpoints,
                    R!ReviewMeasurableSetpoint(s, s1)
             PROVE  /\ s.id \in DOMAIN Expected
                    /\ R!MetricMap(s1, s.id).reducer = Expected[s.id]
                    /\ R!Cardinality({n \in DOMAIN s2.states :
                                        s2.states[n] = R!MetricMap(s1, s.id).component}) = 1
  BY DEF R!MeasurableMeansComputed
<1>1. s1 \in Seq(R!Entries)
  BY DEF RegistryTyped
<1>2. PICK k \in DOMAIN s1 : s1[k].id = s.id
  BY DEF R!ReviewMeasurableSetpoint, R!Ids
<1>3. R!MetricMap(s1, s.id) = s1[k]
  BY <1>1, <1>2, NoDuplicates, OneEntry DEF R!Admitted, R!ReviewMetricRegistry
<1>4. s.id \in DOMAIN Expected /\ s1[k].reducer = Expected[s.id]
  BY <1>2 DEF R!Admitted, R!ReviewMetricRegistry, R!SourceContractViolations
<1>5. PICK n \in DOMAIN s2.states : s2.states[n] = s1[k].component
  BY <1>2 DEF R!Admitted, R!ReviewMetricRegistry, R!PlantStateIds
<1>6. {m \in DOMAIN s2.states : s2.states[m] = s1[k].component} = {n}
  BY <1>5 DEF R!Admitted, R!ReviewPlantModel
<1>7. R!Cardinality({n}) = 1
  BY FS_Singleton DEF R!Cardinality, R!IsFiniteSet, Cardinality, IsFiniteSet
<1> QED
  BY <1>3, <1>4, <1>6, <1>7

LEMMA RegistryInit == part = "registry" /\ HealthInit => RegistryTyped
<1> SUFFICES ASSUME part = "registry", HealthInit PROVE RegistryTyped
  OBVIOUS
<1>1. R!Init
  BY DEF HealthInit
<1>2. <<>> \in Seq(R!Entries) /\ <<>> \in Seq(PlantComponents)
  OBVIOUS
<1>3. s1 = <<>> /\ s2 = [states |-> <<>>, mapped |-> {}, authority |-> FALSE]
  BY <1>1 DEF R!Init
<1> QED
  BY <1>2, <1>3 DEF RegistryTyped

LEMMA RegistryStep == ASSUME RegistryTyped, R!Next PROVE RegistryTyped'
<1>1. s1' \in Seq(R!Entries)
  <2>1. ASSUME NEW e \in R!Entries, s1' = Append(s1, e) PROVE s1' \in Seq(R!Entries)
    BY <2>1 DEF RegistryTyped
  <2>2. ASSUME NEW n \in DOMAIN s1, s1' = R!RemoveAt(s1, n) PROVE s1' \in Seq(R!Entries)
    <3>1. Len(s1) \in Nat /\ n \in 1..Len(s1) /\ s1 \in Seq(R!Entries)
      BY DEF RegistryTyped
    <3>2. SubSeq(s1, 1, n - 1) \in Seq(R!Entries) /\ SubSeq(s1, n + 1, Len(s1)) \in Seq(R!Entries)
      BY <3>1
    <3>3. SubSeq(s1, 1, n - 1) \o SubSeq(s1, n + 1, Len(s1)) \in Seq(R!Entries)
      BY <3>2
    <3> QED
      BY <2>2, <3>3 DEF R!RemoveAt
  <2> QED
    BY <2>1, <2>2 DEF RegistryTyped, R!Next, R!EditRegistry, R!EditPlantModel
<1>2. s2' \in [states : Seq(PlantComponents), mapped : SUBSET Actuators, authority : BOOLEAN]
  <2>1. ASSUME NEW c \in PlantComponents, s2' = [s2 EXCEPT !.states = Append(@, c)]
        PROVE  s2' \in [states : Seq(PlantComponents), mapped : SUBSET Actuators, authority : BOOLEAN]
    <3>1. Append(s2.states, c) \in Seq(PlantComponents)
      BY DEF RegistryTyped
    <3> QED
      BY <2>1, <3>1 DEF RegistryTyped
  <2>2. ASSUME NEW a \in Actuators, s2' = [s2 EXCEPT !.mapped = @ \cup {a}]
        PROVE  s2' \in [states : Seq(PlantComponents), mapped : SUBSET Actuators, authority : BOOLEAN]
    BY <2>2 DEF RegistryTyped
  <2>3. ASSUME s2' = [s2 EXCEPT !.authority = TRUE]
        PROVE  s2' \in [states : Seq(PlantComponents), mapped : SUBSET Actuators, authority : BOOLEAN]
    BY <2>3 DEF RegistryTyped
  <2>4. CASE R!EditRegistry
    BY <2>4 DEF R!EditRegistry, RegistryTyped
  <2>5. CASE R!EditPlantModel
    BY <2>1, <2>2, <2>3, <2>5 DEF R!EditPlantModel
  <2> QED
    BY <2>4, <2>5 DEF R!Next
<1> QED
  BY <1>1, <1>2 DEF RegistryTyped

-----------------------------------------------------------------------------
(* The health of the components.  A review finds every component once, so  *)
(* what it says of one is the class of one check (ReviewFacts); the history *)
(* it returns repeats what the reviews so far amount to (CountsKept).      *)

Checks(smoke) == C!BaseChecks(smoke) \cup {C!NoLiveWritesCheck(smoke)}
CheckNames == {"boundary"} \cup UNION {DOMAIN s : s \in Smokes}

LEMMA CheckFacts ==
  ASSUME NEW smoke \in Smokes
  PROVE  /\ CheckNames = {"boundary"} \cup DOMAIN smoke
         /\ CheckNames \subseteq C!Names
         /\ \A x \in Checks(smoke) : x.name \in CheckNames
         /\ \A id \in CheckNames : \E x \in Checks(smoke) : x.name = id
         /\ \A x, y \in Checks(smoke) : x.name = y.name => x = y
<1>1. CheckNames = {"boundary"} \cup DOMAIN smoke
  BY DeckAssumption DEF CheckNames
<1>2. DOMAIN smoke \subseteq DOMAIN C!SummarizedEffects
  BY DeckAssumption
<1>3. "boundary" \notin DOMAIN C!SummarizedEffects
  BY DEF C!SummarizedEffects
<1>4. \A id \in DOMAIN smoke : C!CheckResult(id, smoke[id]).name = id
  BY DEF C!CheckResult
<1>5. C!NoLiveWritesCheck(smoke).name = "boundary"
  BY DEF C!NoLiveWritesCheck
<1> QED
  BY <1>1, <1>2, <1>3, <1>4, <1>5 DEF Checks, C!BaseChecks, C!Names

\* The parts of a review.
LEMMA ReviewParts ==
  ASSUME NEW smoke, NEW past, NEW now, NEW threshold,
         NEW r, r = C!ReviewHealth(smoke, past, now, threshold)
  PROVE  /\ r.components = {C!ClassifyComponent(x, past, now, threshold) : x \in Checks(smoke)}
         /\ r.at = now /\ r.threshold = threshold
         /\ r.candidates = {C!DiagnosticCandidate(x) :
                              x \in {y \in r.components : y.status \in C!Unhealthy /\ ~y.cooldown}}
         /\ r.status = C!OverallStatus(r.components)
         /\ r.reducers = C!BuildHealthReducers(Checks(smoke))
<1> DEFINE checks == Checks(smoke)
           components == {C!ClassifyComponent(x, past, now, threshold) : x \in checks}
           open == {x \in components : x.status \in C!Unhealthy /\ ~x.cooldown}
           candidates == {C!DiagnosticCandidate(x) : x \in open}
           diagnostics == C!BuildComponentHealthDiagnostics(checks, past, now, threshold)
<1>1. diagnostics = [status |-> C!OverallStatus(components), components |-> components, at |-> now,
                     threshold |-> threshold, candidates |-> candidates,
                     reducers |-> C!BuildHealthReducers(checks)]
  BY DEF C!BuildComponentHealthDiagnostics
<1> HIDE DEF components, open, candidates, diagnostics
<1>2. r
        = [status |-> diagnostics.status, components |-> diagnostics.components, at |-> now,
           threshold |-> threshold, candidates |-> diagnostics.candidates,
           reducers |-> diagnostics.reducers, smokeOk |-> C!SmokeOk(C!BaseChecks(smoke), smoke),
           ran |-> smoke]
  BY DEF C!ReviewHealth, Checks, diagnostics
<1> QED
  BY <1>1, <1>2 DEF components, candidates, open

\* ConsecutiveFailures and the status count the same thing.
LEMMA ClassFacts ==
  ASSUME NEW x, NEW past, NEW now \in Nat, NEW threshold \in Nat,
         C!Previous(past, x.name).count \in Nat
  PROVE  LET c == C!ClassifyComponent(x, past, now, threshold)
             previous == C!Previous(past, x.name)
         IN  /\ c.name = x.name /\ c.last = previous.last
             /\ c.status \in {"HEALTHY", "WARNING"} \cup C!Unhealthy
             /\ c.count = IF c.status \in C!Unhealthy THEN previous.count + 1 ELSE 0
             /\ ~c.ok => (c.status = "CRITICAL" <=> c.count >= threshold)
             /\ c.cooldown = (c.status \in C!Unhealthy /\ \E t \in previous.last : now - t < C!Cooldown)
<1> DEFINE previous == C!Previous(past, x.name)
           risks == C!RiskSignalsForCheck(x)
           worst == C!WorstRiskStatus(risks)
           failures == C!ConsecutiveFailures(x, previous)
           verdict == IF x.ok THEN worst
                     ELSE IF failures >= C!Max({1, threshold}) THEN "CRITICAL" ELSE "DEGRADED"
           cooldown == C!CooldownActive(verdict, previous, now)
<1>1. C!ClassifyComponent(x, past, now, threshold)
        = [name |-> x.name, ok |-> x.ok, status |-> verdict, risks |-> risks, count |-> failures,
           cooldown |-> cooldown, last |-> previous.last]
  BY DEF C!ClassifyComponent
<1>2. worst \in {"HEALTHY", "WARNING"} \cup C!Unhealthy
  BY DEF C!WorstRiskStatus, C!Unhealthy
<1>3. failures = IF x.ok /\ worst \notin C!Unhealthy THEN 0 ELSE previous.count + 1
  BY DEF C!ConsecutiveFailures
<1>4. C!Max({1, threshold}) = IF threshold > 1 THEN threshold ELSE 1
  BY DEF C!Max
<1>5. cooldown = (verdict \in C!Unhealthy /\ \E t \in previous.last : now - t < C!Cooldown)
  BY DEF C!CooldownActive
<1> HIDE DEF worst, failures, risks, previous, cooldown
<1>6. verdict \in {"HEALTHY", "WARNING"} \cup C!Unhealthy
  BY <1>2 DEF C!Unhealthy
<1>7. failures = IF verdict \in C!Unhealthy THEN previous.count + 1 ELSE 0
  BY <1>3 DEF C!Unhealthy
<1>8. ~x.ok => (verdict = "CRITICAL" <=> failures >= threshold)
  BY <1>3, <1>4 DEF previous
<1> HIDE DEF verdict
<1> QED
  BY <1>1, <1>5, <1>6, <1>7, <1>8 DEF previous

LEMMA OverallFacts ==
  ASSUME NEW components
  PROVE  C!OverallStatus(components) \in {"HEALTHY", "WARNING"} \cup C!Unhealthy
BY DEF C!OverallStatus, C!Unhealthy

LEMMA CandidateFacts ==
  ASSUME NEW c, c.status \in C!Unhealthy
  PROVE  LET d == C!DiagnosticCandidate(c)
         IN  d.component = c.name /\ d.route \in {"damping", "policy"} /\ d.severity \in {"P1", "P2"}
<1>1. C!CandidateRoute(c) \in {"damping", "policy"}
  BY DEF C!CandidateRoute, C!Unhealthy
<1> QED
  BY <1>1 DEF C!DiagnosticCandidate

LEMMA ReducerFacts ==
  ASSUME NEW checks
  PROVE  \A k \in DOMAIN C!BuildHealthReducers(checks) :
           C!BuildHealthReducers(checks)[k] \in {"HEALTHY", "DEGRADED", "NO_DATA"}
<1>1. ASSUME NEW p, NEW h PROVE C!Judge(p, h) \in {"HEALTHY", "DEGRADED", "NO_DATA"}
  BY DEF C!Judge
<1> DEFINE session == C!SessionHealth(C!FindCheck(checks, "session"))
           thread == C!RuntimeHealth(C!FindCheck(checks, "thread"))
           inbox == C!InboxHealth(C!FindCheck(checks, "inbox"))
           vector == C!VectorHealth(C!FindCheck(checks, "store"), C!FindCheck(checks, "rank"))
           tools == C!ToolLoopHealth(C!FindCheck(checks, "hermes"))
<1>2. /\ session \in {"HEALTHY", "DEGRADED", "NO_DATA"}
      /\ thread \in {"HEALTHY", "DEGRADED", "NO_DATA"}
      /\ inbox \in {"HEALTHY", "DEGRADED", "NO_DATA"}
  BY <1>1, Zenon DEF C!SessionHealth, C!RuntimeHealth, C!InboxHealth
<1>3. vector \in {"HEALTHY", "DEGRADED", "NO_DATA"}
  BY <1>1, Zenon DEF C!VectorHealth
<1>4. tools \in {"HEALTHY", "DEGRADED", "NO_DATA"}
  BY <1>1, ZenonT(60) DEF C!ToolLoopHealth
<1>5. C!BuildHealthReducers(checks)
        = [session |-> session, thread |-> thread, inbox |-> inbox, vector |-> vector, tools |-> tools]
  BY DEF C!BuildHealthReducers
<1> HIDE DEF session, thread, inbox, vector, tools
<1> QED
  BY <1>2, <1>3, <1>4, <1>5

-----------------------------------------------------------------------------
(* What the reviews so far amount to.                                      *)

\* The history a review returns repeats the log: the count of unhealthy reviews
\* in a row, and of the diagnoses the last.
CountsKept ==
  \A id \in CheckNames :
    LET previous == C!Previous(s2, id) IN
    /\ previous.count = s4[id].unhealthy /\ previous.count \in 0..s5
    /\ previous.last \subseteq s4[id].diagnosed
    /\ \A t, u \in previous.last : t = u
    /\ \A t \in s4[id].diagnosed : \E u \in previous.last : t <= u

ReviewKept ==
  \A r \in s3 :
    /\ r.at \in 0..s1 /\ \A x \in r.components : x.name \in CheckNames
    /\ r.status \in {"HEALTHY", "WARNING"} \cup C!Unhealthy
    /\ \A d \in r.candidates : d.route \in {"damping", "policy"} /\ d.severity \in {"P1", "P2"}
    /\ \A k \in DOMAIN r.reducers : r.reducers[k] \in {"HEALTHY", "DEGRADED", "NO_DATA"}

ComponentsTyped ==
  /\ s1 \in 0..MaxClock /\ s5 \in 0..MaxHealthReviews
  /\ DOMAIN s2 \subseteq CheckNames
  /\ s4 \in [C!Names -> [unhealthy : Nat, diagnosed : SUBSET (0..s1)]]
  /\ \A id \in C!Names : id \notin CheckNames => s4[id].diagnosed = {}

ComponentsIInv ==
  /\ ComponentsTyped /\ CountsKept /\ ReviewKept
  /\ C!EscalationIsEarned /\ C!CooldownHolds /\ C!NoFailureIsSilent

LEMMA ComponentsInit == part = "components" /\ HealthInit => ComponentsIInv
<1> SUFFICES ASSUME part = "components", HealthInit PROVE ComponentsIInv
  OBVIOUS
<1>1. /\ s1 = 0 /\ s2 = <<>> /\ s3 = {} /\ s5 = 0
      /\ s4 = [id \in C!Names |-> [unhealthy |-> 0, diagnosed |-> {}]]
  BY DEF HealthInit, C!Init
<1>2. DOMAIN s2 = {}
  BY <1>1
<1>3. MaxClock \in Nat /\ MaxHealthReviews \in Nat
  BY DeckAssumption
<1>4. ComponentsTyped
  BY <1>1, <1>2, <1>3 DEF ComponentsTyped
<1>5. CheckNames \subseteq C!Names
  BY DeckAssumption DEF CheckNames, C!Names
<1>6. CountsKept
  BY <1>1, <1>2, <1>5 DEF CountsKept, C!Previous
<1> QED
  BY <1>1, <1>4, <1>6
     DEF ComponentsIInv, ReviewKept, C!EscalationIsEarned, C!CooldownHolds, C!NoFailureIsSilent

LEMMA WaitStep == ASSUME ComponentsIInv, C!Wait PROVE ComponentsIInv'
<1>1. s1' = s1 + 1 /\ s1 < MaxClock /\ UNCHANGED <<s2, s3, s4, s5>>
  BY DEF C!Wait
<1>2. s1 \in Nat /\ MaxClock \in Nat /\ s1' \in 0..MaxClock /\ 0..s1 \subseteq 0..s1'
  BY <1>1, DeckAssumption DEF ComponentsIInv, ComponentsTyped
<1>3. ComponentsTyped'
  BY <1>1, <1>2 DEF ComponentsIInv, ComponentsTyped
<1>4. CountsKept' /\ ReviewKept'
  BY <1>1, <1>2 DEF ComponentsIInv, CountsKept, ReviewKept
<1> QED
  BY <1>1, <1>3, <1>4
     DEF ComponentsIInv, C!EscalationIsEarned, C!CooldownHolds, C!NoFailureIsSilent

\* Of every component a review has one class, and opens a diagnosis of it or none.
LEMMA OneComponent ==
  ASSUME ComponentsIInv, NEW smoke \in Smokes, NEW threshold \in Nat, NEW id \in CheckNames,
         NEW r, r = C!ReviewHealth(smoke, s2, s1, threshold), NEW previous, previous = C!Previous(s2, id)
  PROVE  \E c \in r.components :
           /\ c.name = id /\ \A x \in r.components : x.name = id => x = c
           /\ c.status \in {"HEALTHY", "WARNING"} \cup C!Unhealthy
           /\ c.last = previous.last
           /\ c.count = IF c.status \in C!Unhealthy THEN previous.count + 1 ELSE 0
           /\ ~c.ok => (c.status = "CRITICAL" <=> c.count >= threshold)
           /\ c.cooldown = (c.status \in C!Unhealthy
                              /\ \E t \in previous.last : s1 - t < C!Cooldown)
           /\ (\E d \in r.candidates : d.component = id)
                <=> c.status \in C!Unhealthy /\ ~c.cooldown
<1> DEFINE class(x) == C!ClassifyComponent(x, s2, s1, threshold)
<1>1. s1 \in Nat
  BY DeckAssumption DEF ComponentsIInv, ComponentsTyped
<1>2. \A x \in Checks(smoke) : C!Previous(s2, x.name).count \in Nat
  BY CheckFacts DEF ComponentsIInv, CountsKept
<1>3. \A x \in Checks(smoke) :
        /\ class(x).name = x.name
        /\ class(x).status \in {"HEALTHY", "WARNING"} \cup C!Unhealthy
        /\ class(x).last = C!Previous(s2, x.name).last
        /\ class(x).count = IF class(x).status \in C!Unhealthy
                        THEN C!Previous(s2, x.name).count + 1 ELSE 0
        /\ ~class(x).ok => (class(x).status = "CRITICAL" <=> class(x).count >= threshold)
        /\ class(x).cooldown = (class(x).status \in C!Unhealthy
                              /\ \E t \in C!Previous(s2, x.name).last : s1 - t < C!Cooldown)
  BY <1>1, <1>2, ClassFacts
<1>4. /\ r.components = {class(x) : x \in Checks(smoke)}
      /\ r.candidates = {C!DiagnosticCandidate(x) :
                       x \in {y \in r.components : y.status \in C!Unhealthy /\ ~y.cooldown}}
  BY ReviewParts
<1> HIDE DEF class
<1>5. PICK y \in Checks(smoke) : y.name = id
  BY CheckFacts
<1>6. \A x \in Checks(smoke) : class(x).name = id => x = y
  BY <1>3, <1>5, CheckFacts
<1>7. \A x \in r.components : x.name = id => x = class(y)
  BY <1>4, <1>6
<1>8. (\E d \in r.candidates : d.component = id)
        <=> class(y).status \in C!Unhealthy /\ ~class(y).cooldown
  BY <1>3, <1>4, <1>5, <1>7, CandidateFacts
<1>9. class(y) \in r.components
  BY <1>4, <1>5
<1> QED
  BY <1>3, <1>5, <1>7, <1>8, <1>9

LEMMA CandidatesInReview ==
  ASSUME ComponentsIInv, NEW smoke \in Smokes, NEW threshold \in Nat,
         NEW r, r = C!ReviewHealth(smoke, s2, s1, threshold)
  PROVE  /\ {x.name : x \in r.components} = CheckNames
         /\ \A d \in r.candidates : /\ d.component \in CheckNames
                                /\ d.route \in {"damping", "policy"}
                                /\ d.severity \in {"P1", "P2"}
<1> DEFINE class(x) == C!ClassifyComponent(x, s2, s1, threshold)
<1>1. \A x \in Checks(smoke) : class(x).name = x.name
  BY DEF C!ClassifyComponent
<1>2. /\ r.components = {class(x) : x \in Checks(smoke)}
      /\ r.candidates = {C!DiagnosticCandidate(x) :
                       x \in {y \in r.components : y.status \in C!Unhealthy /\ ~y.cooldown}}
  BY ReviewParts
<1> HIDE DEF class
<1>3. \A x \in r.components : x.name \in CheckNames
  BY <1>1, <1>2, CheckFacts
<1>4. \A id \in CheckNames : \E x \in r.components : x.name = id
  BY <1>1, <1>2, CheckFacts
<1>5. \A d \in r.candidates : /\ d.component \in CheckNames
                          /\ d.route \in {"damping", "policy"}
                          /\ d.severity \in {"P1", "P2"}
  BY <1>2, <1>3, CandidateFacts
<1> QED
  BY <1>3, <1>4, <1>5

\* What a review leaves of a component in history and log: c is its class, open
\* says whether it is diagnosed.
Effect(c, open, threshold) ==
  LET previous == C!Previous(s2, c.name) IN
  /\ c.count = IF c.status \in C!Unhealthy THEN previous.count + 1 ELSE 0
  /\ ~c.ok => (c.status = "CRITICAL" <=> c.count >= threshold)
  /\ open <=> c.status \in C!Unhealthy /\ \A t \in previous.last : ~(s1 - t < C!Cooldown)
  /\ C!Previous(s2, c.name)' = [count |-> c.count, last |-> IF open THEN {s1} ELSE previous.last]
  /\ s4'[c.name] = [unhealthy |-> IF c.status \in C!Unhealthy THEN s4[c.name].unhealthy + 1 ELSE 0,
                    diagnosed |-> s4[c.name].diagnosed \cup IF open THEN {s1} ELSE {}]

LEMMA ReviewEffect ==
  ASSUME ComponentsIInv, NEW smoke \in Smokes, NEW threshold \in Nat, C!Review(smoke, threshold),
         NEW id \in CheckNames, NEW r, r = C!ReviewHealth(smoke, s2, s1, threshold),
         NEW previous, previous = C!Previous(s2, id)
  PROVE  \E c \in r.components : \E open \in BOOLEAN :
           c.name = id /\ (\A x \in r.components : x.name = id => x = c) /\ Effect(c, open, threshold)
<1>1. PICK c \in r.components :
           /\ c.name = id /\ \A x \in r.components : x.name = id => x = c
           /\ c.status \in {"HEALTHY", "WARNING"} \cup C!Unhealthy
           /\ c.last = previous.last
           /\ c.count = IF c.status \in C!Unhealthy THEN previous.count + 1 ELSE 0
           /\ ~c.ok => (c.status = "CRITICAL" <=> c.count >= threshold)
           /\ c.cooldown = (c.status \in C!Unhealthy
                              /\ \E t \in previous.last : s1 - t < C!Cooldown)
           /\ (\E d \in r.candidates : d.component = id)
                <=> c.status \in C!Unhealthy /\ ~c.cooldown
  BY OneComponent
<1>2. r.at = s1
  BY ReviewParts
<1>3. s2' = C!NextHistory(r) /\ s4' = C!Logged(r)
  BY DEF C!Review
<1>4. id \in {x.name : x \in r.components} /\ id \in C!Names
  BY <1>1, CheckFacts
<1> DEFINE open == \E d \in r.candidates : d.component = id
<1>5. (CHOOSE x \in r.components : x.name = id) = c
  BY <1>1
<1>6. C!NextHistory(r)[id] = [count |-> c.count, last |-> IF open THEN {s1} ELSE c.last]
  BY <1>2, <1>4, <1>5 DEF C!NextHistory
<1>7. C!Previous(C!NextHistory(r), id) = C!NextHistory(r)[id]
  BY <1>4 DEF C!Previous, C!NextHistory
<1>8. C!Logged(r)[id] =
        [unhealthy |-> IF c.status \in C!Unhealthy THEN s4[id].unhealthy + 1 ELSE 0,
         diagnosed |-> s4[id].diagnosed \cup {s1 : d \in {e \in r.candidates : e.component = id}}]
  BY <1>1, <1>2, <1>4 DEF C!Logged
<1>9. {s1 : d \in {e \in r.candidates : e.component = id}} = IF open THEN {s1} ELSE {}
  OBVIOUS
<1>10. C!Previous(s2, id)' = [count |-> c.count, last |-> IF open THEN {s1} ELSE previous.last]
  BY <1>1, <1>3, <1>6, <1>7 DEF C!Previous
<1>11. open <=> /\ c.status \in C!Unhealthy
                /\ \A t \in previous.last : ~(s1 - t < C!Cooldown)
  BY <1>1
<1>12. open \in BOOLEAN
  OBVIOUS
<1> HIDE DEF open
<1> WITNESS c \in r.components
<1> WITNESS open \in BOOLEAN
<1> QED
  BY <1>1, <1>3, <1>8, <1>9, <1>10, <1>11 DEF Effect

LEMMA ReviewStep ==
  ASSUME ComponentsIInv, NEW smoke \in Smokes, NEW threshold \in Thresholds,
         C!Review(smoke, threshold)
  PROVE  ComponentsIInv'
<1> DEFINE r == C!ReviewHealth(smoke, s2, s1, threshold)
<1>1. threshold \in Nat /\ MaxHealthReviews \in Nat /\ MaxClock \in Nat
  BY DeckAssumption
<1>2. s3' = {r} /\ s2' = C!NextHistory(r) /\ s4' = C!Logged(r) /\ s5' = s5 + 1 /\ s1' = s1
      /\ s5 < MaxHealthReviews
  BY DEF C!Review
<1>3. r.at = s1 /\ r.threshold = threshold /\ r.status = C!OverallStatus(r.components)
      /\ r.reducers = C!BuildHealthReducers(Checks(smoke))
  BY ReviewParts
<1>4. /\ {x.name : x \in r.components} = CheckNames
      /\ \A d \in r.candidates : /\ d.component \in CheckNames
                                 /\ d.route \in {"damping", "policy"}
                                 /\ d.severity \in {"P1", "P2"}
  BY <1>1, CandidatesInReview
<1>5. ASSUME NEW id \in CheckNames
      PROVE  \E c \in r.components : \E open \in BOOLEAN :
               c.name = id /\ (\A x \in r.components : x.name = id => x = c) /\ Effect(c, open, threshold)
  BY <1>1, ReviewEffect
<1> HIDE DEF r
<1>6. ASSUME NEW x \in r.components
       PROVE  x.name \in CheckNames /\ \E open \in BOOLEAN : Effect(x, open, threshold)
  BY <1>4, <1>5
<1>7. CheckNames \subseteq C!Names
  BY CheckFacts
<1>8. s1 \in 0..MaxClock /\ s1 \in Nat /\ s5 \in 0..MaxHealthReviews
  BY <1>1 DEF ComponentsIInv, ComponentsTyped
<1>9. ASSUME NEW id \in C!Names, id \notin CheckNames PROVE s4'[id] = s4[id]
  <2>1. ~ \E x \in r.components : x.name = id
    BY <1>4, <1>9
  <2> QED
    BY <1>2, <2>1 DEF C!Logged
<1>10. s4 \in [C!Names -> [unhealthy : Nat, diagnosed : SUBSET (0..s1)]]
  BY DEF ComponentsIInv, ComponentsTyped
<1>11. ASSUME NEW id \in CheckNames PROVE s4'[id] \in [unhealthy : Nat, diagnosed : SUBSET (0..s1)]
  <2>1. s4[id].unhealthy \in Nat /\ s4[id].diagnosed \subseteq 0..s1 /\ s1 \in 0..s1
    BY <1>7, <1>8, <1>10
  <2>2. PICK c \in r.components : c.name = id /\ \E open \in BOOLEAN : Effect(c, open, threshold)
    BY <1>5
  <2>3. PICK open \in BOOLEAN : Effect(c, open, threshold)
    BY <2>2
  <2> QED
    BY <2>1, <2>2, <2>3 DEF Effect
<1>12. ComponentsTyped'
  <2>1. DOMAIN s4' = C!Names
    BY <1>2 DEF C!Logged
  <2>2. s4' = [id \in C!Names |-> s4'[id]]
    BY <1>2 DEF C!Logged
  <2>3. s4' \in [C!Names -> [unhealthy : Nat, diagnosed : SUBSET (0..s1)]]
    BY <1>9, <1>10, <1>11, <2>2
  <2>4. DOMAIN s2' = CheckNames
    BY <1>2, <1>4 DEF C!NextHistory
  <2>5. s5' \in 0..MaxHealthReviews
    BY <1>1, <1>2, <1>8
  <2>6. \A id \in C!Names : id \notin CheckNames => s4'[id].diagnosed = {}
    BY <1>9 DEF ComponentsIInv, ComponentsTyped
  <2> QED
    BY <1>2, <1>8, <2>3, <2>4, <2>5, <2>6 DEF ComponentsTyped
<1>13. CountsKept'
  <2> SUFFICES ASSUME NEW id \in CheckNames
               PROVE  LET previous == C!Previous(s2, id)' IN
                      /\ previous.count = s4'[id].unhealthy /\ previous.count \in 0..s5'
                      /\ previous.last \subseteq s4'[id].diagnosed
                      /\ \A t, u \in previous.last : t = u
                      /\ \A t \in s4'[id].diagnosed : \E u \in previous.last : t <= u
    BY DEF CountsKept
  <2> DEFINE old == C!Previous(s2, id)
             new == C!Previous(s2, id)'
  <2>1. /\ old.count = s4[id].unhealthy /\ old.count \in 0..s5
        /\ old.last \subseteq s4[id].diagnosed
        /\ \A t, u \in old.last : t = u
        /\ \A t \in s4[id].diagnosed : \E u \in old.last : t <= u
    BY DEF ComponentsIInv, CountsKept
  <2>2. PICK c \in r.components, open \in BOOLEAN : c.name = id /\ Effect(c, open, threshold)
    BY <1>5
  <2>3. s4[id].diagnosed \subseteq 0..s1
    BY <1>7, <1>10
  <2>4. /\ new.count = IF c.status \in C!Unhealthy THEN old.count + 1 ELSE 0
        /\ new.last = IF open THEN {s1} ELSE old.last
        /\ s4'[id].unhealthy = IF c.status \in C!Unhealthy THEN s4[id].unhealthy + 1 ELSE 0
        /\ s4'[id].diagnosed = s4[id].diagnosed \cup IF open THEN {s1} ELSE {}
    BY <2>2 DEF Effect
  <2> HIDE DEF old, new
  <2>5. new.count = s4'[id].unhealthy /\ new.count \in 0..s5'
    BY <1>2, <1>8, <2>1, <2>4
  <2>6. /\ new.last \subseteq s4'[id].diagnosed
        /\ \A t, u \in new.last : t = u
        /\ \A t \in s4'[id].diagnosed : \E u \in new.last : t <= u
    <3>2. CASE open
      BY <1>8, <2>1, <2>3, <2>4, <3>2
    <3>3. CASE ~open
      BY <2>1, <2>4, <3>3
    <3> QED
      BY <3>2, <3>3
  <2> QED
    BY <2>5, <2>6 DEF new
<1>14. ReviewKept'
  BY <1>2, <1>3, <1>4, <1>8, OverallFacts, ReducerFacts DEF ReviewKept
<1>15. C!EscalationIsEarned'
  <2> SUFFICES ASSUME NEW x \in r.components, ~x.ok
               PROVE  x.status = "CRITICAL" <=> s4'[x.name].unhealthy >= threshold
    BY <1>2, <1>3 DEF C!EscalationIsEarned
  <2>1. x.name \in CheckNames
    BY <1>6
  <2>2. /\ x.count = IF x.status \in C!Unhealthy THEN C!Previous(s2, x.name).count + 1 ELSE 0
        /\ x.status = "CRITICAL" <=> x.count >= threshold
        /\ s4'[x.name].unhealthy = IF x.status \in C!Unhealthy THEN s4[x.name].unhealthy + 1 ELSE 0
    <3>1. PICK open \in BOOLEAN : Effect(x, open, threshold)
      BY <1>6
    <3> QED
      BY <3>1 DEF Effect
  <2>3. C!Previous(s2, x.name).count = s4[x.name].unhealthy
    BY <2>1 DEF ComponentsIInv, CountsKept
  <2> QED
    BY <2>2, <2>3
<1>16. C!CooldownHolds'
  <2> SUFFICES ASSUME NEW id \in C!Names, NEW t \in s4'[id].diagnosed, NEW u \in s4'[id].diagnosed,
                      t # u
               PROVE  t + C!Cooldown <= u \/ u + C!Cooldown <= t
    BY DEF C!CooldownHolds
  <2>1. CASE t \in s4[id].diagnosed /\ u \in s4[id].diagnosed
    BY <2>1 DEF ComponentsIInv, C!CooldownHolds
  <2>2. id \in CheckNames
    BY <1>9 DEF ComponentsIInv, ComponentsTyped
  <2>3. PICK c \in r.components, open \in BOOLEAN : c.name = id /\ Effect(c, open, threshold)
    BY <1>5, <2>2
  <2>4. /\ open => \A v \in C!Previous(s2, id).last : ~(s1 - v < C!Cooldown)
        /\ s4'[id].diagnosed = s4[id].diagnosed \cup IF open THEN {s1} ELSE {}
    BY <2>3 DEF Effect
  <2>5. ASSUME NEW v \in s4[id].diagnosed, open PROVE v + C!Cooldown <= s1
    <3>1. PICK w \in C!Previous(s2, id).last : v <= w /\ w \in s4[id].diagnosed
      BY <2>2 DEF ComponentsIInv, CountsKept
    <3>2. v \in 0..s1 /\ w \in 0..s1
      BY <1>7, <1>10, <2>2, <3>1
    <3> QED
      BY <1>8, <2>4, <2>5, <3>1, <3>2 DEF C!Cooldown
  <2> QED
    BY <2>1, <2>4, <2>5
<1>17. C!NoFailureIsSilent'
  <2> SUFFICES ASSUME NEW x \in r.components, x.status \in C!Unhealthy
               PROVE  \E t \in s4'[x.name].diagnosed : s1 < t + C!Cooldown
    BY <1>2, <1>3 DEF C!NoFailureIsSilent
  <2>1. x.name \in CheckNames
    BY <1>4
  <2>2. PICK open \in BOOLEAN : Effect(x, open, threshold)
    BY <1>6
  <2>3. /\ open <=> \A v \in C!Previous(s2, x.name).last : ~(s1 - v < C!Cooldown)
        /\ s4'[x.name].diagnosed = s4[x.name].diagnosed \cup IF open THEN {s1} ELSE {}
    BY <2>2 DEF Effect
  <2>4. CASE open
    BY <1>8, <2>3, <2>4 DEF C!Cooldown
  <2>5. CASE ~open
    <3>1. PICK v \in C!Previous(s2, x.name).last : s1 - v < C!Cooldown
      BY <2>3, <2>5
    <3>2. v \in s4[x.name].diagnosed /\ v \in 0..s1
      BY <1>7, <1>10, <2>1, <3>1 DEF ComponentsIInv, CountsKept
    <3> QED
      BY <1>8, <2>3, <3>1, <3>2 DEF C!Cooldown
  <2> QED
    BY <2>4, <2>5
<1> QED
  BY <1>12, <1>13, <1>14, <1>15, <1>16, <1>17 DEF ComponentsIInv

(***************************************************************************)
(* The reports.  Two of the reducers say "healthy" of nothing but what the *)
(* module reported; a smoke that passes saw no effect.                     *)
(***************************************************************************)

ReportChecks(smoke) == D!BaseChecks(smoke) \cup {D!NoLiveWritesCheck(smoke)}
ToolEvents == [hook : STRING, failed : BOOLEAN, refs : Nat]

LEMMA FoundCheck ==
  ASSUME NEW smoke, NEW name, name # "boundary", NEW x \in D!FindCheck(ReportChecks(smoke), name)
  PROVE  name \in DOMAIN smoke /\ x = D!CheckResult(name, smoke[name])
<1>1. x \in ReportChecks(smoke) /\ x.name = name
  BY DEF D!FindCheck
<1>2. D!NoLiveWritesCheck(smoke).name = "boundary"
  BY DEF D!NoLiveWritesCheck
<1>3. PICK y \in DOMAIN smoke : x = D!CheckResult(y, smoke[y])
  BY <1>1, <1>2 DEF ReportChecks, D!BaseChecks
<1>4. x.name = y
  BY <1>3 DEF D!CheckResult
<1> QED
  BY <1>1, <1>3, <1>4

LEMMA CountedInterval == \A n \in Nat : IsFiniteSet(1..n) /\ Cardinality(1..n) = n
<1> TAKE n \in Nat
<1>1. IsFiniteSet(1..n) /\ Cardinality(1..n) = IF 1 > n THEN 0 ELSE n - 1 + 1
  BY FS_Interval
<1> QED
  BY <1>1

LEMMA SameCardinality == \A S : D!Cardinality(S) = Cardinality(S)
BY DEF D!Cardinality, D!IsFiniteSet, Cardinality, IsFiniteSet

\* The numbers of the tool loop's check.
LEMMA ToolSummary ==
  ASSUME NEW data, data.events \in Seq(ToolEvents), data.unmatched \in Nat
  PROVE  LET s == D!SummarizeAdapterToolLoop(data)
             n == Len(data.events)
             failed == Cardinality({i \in 1..n : data.events[i].failed})
             grounded == Cardinality({i \in 1..n : data.events[i].refs > 1})
         IN  /\ {"tool_event_count", "failed_tool_result_count", "unmatched_tool_intent_count",
                 "tool_events_missing_evidence_count"} \subseteq DOMAIN s
             /\ s["tool_event_count"] = n /\ s["failed_tool_result_count"] = failed
             /\ s["unmatched_tool_intent_count"] = data.unmatched
             /\ s["tool_events_missing_evidence_count"] = n - grounded
             /\ n \in Nat /\ failed \in Nat /\ grounded \in Nat /\ grounded <= n
<1> DEFINE n == Len(data.events)
           Bad == {i \in 1..n : data.events[i].failed}
           Grounded == {i \in 1..n : data.events[i].refs > 1}
           failed == D!Cardinality(Bad)
           grounded == D!Cardinality(Grounded)
           counts == [tool_event_count |-> n, failed_tool_result_count |-> failed,
                      unmatched_tool_intent_count |-> data.unmatched,
                      tool_events_missing_evidence_count |-> n - grounded,
                      tool_events_with_evidence_refs |-> grounded,
                      tool_loop_failure_count |-> failed + data.unmatched + (n - grounded)]
           rates == [tool_loop_integrity_rate |->
                       1000 - D!Ratio(D!Min({failed + data.unmatched + (n - grounded), n}), n),
                     tool_loop_evidence_ref_rate |-> D!Ratio(grounded, n)]
           all == [f \in DOMAIN counts \cup DOMAIN rates |-> IF f \in DOMAIN counts THEN counts[f] ELSE rates[f]]
           s == D!SummarizeAdapterToolLoop(data)
<1>1. s = IF data.events = <<>> THEN counts ELSE all
  BY DEF D!SummarizeAdapterToolLoop
<1>2. n \in Nat /\ IsFiniteSet(1..n) /\ Cardinality(1..n) = n
  BY CountedInterval
<1>3. /\ failed = Cardinality(Bad) /\ failed \in Nat
      /\ grounded = Cardinality(Grounded) /\ grounded \in Nat /\ grounded <= n
  <2>1. Bad \in SUBSET (1..n) /\ Grounded \in SUBSET (1..n)
    OBVIOUS
  <2>2. IsFiniteSet(Bad) /\ IsFiniteSet(Grounded) /\ Cardinality(Grounded) <= n
    BY <1>2, <2>1, FS_Subset
  <2> QED
    BY <2>2, SameCardinality, FS_CardinalityType
<1> HIDE DEF failed, grounded, n
<1>4. /\ DOMAIN counts \subseteq DOMAIN s
      /\ \A f \in DOMAIN counts : s[f] = counts[f]
  <2> HIDE DEF counts, rates, s
  <2> QED
    BY <1>1
<1>5. {"tool_event_count", "failed_tool_result_count", "unmatched_tool_intent_count",
       "tool_events_missing_evidence_count"} \subseteq DOMAIN counts
  OBVIOUS
<1> HIDE DEF s
<1>6. /\ s["tool_event_count"] = n /\ s["failed_tool_result_count"] = failed
      /\ s["unmatched_tool_intent_count"] = data.unmatched
      /\ s["tool_events_missing_evidence_count"] = n - grounded
  BY <1>4, <1>5
<1> QED
  BY <1>2, <1>3, <1>4, <1>5, <1>6 DEF s, n, failed, grounded

\* The reducer of the tool loop calls it healthy only over events that all went well.
LEMMA HealthyTools ==
  ASSUME NEW smoke, ReportsOfModules(smoke),
         D!ToolLoopHealth(D!FindCheck(ReportChecks(smoke), "hermes")) = "HEALTHY"
  PROVE  /\ "hermes" \in DOMAIN smoke /\ smoke["hermes"].data.unmatched = 0
         /\ \A i \in 1..Len(smoke["hermes"].data.events) :
              ~smoke["hermes"].data.events[i].failed /\ smoke["hermes"].data.events[i].refs > 1
<1> DEFINE loops == D!FindCheck(ReportChecks(smoke), "hermes")
           sampled == {x \in loops : D!Field(x, "tool_event_count") > 0}
           Rated(x) == LET events == x.data.tool_event_count
                       IN  /\ 1000 - D!Ratio(D!Min({D!ToolFailures(x), events}), events) >= 1000
                           /\ D!Ratio(x.data.tool_events_with_evidence_refs, events) >= 1000
           Fit(x) == Rated(x) /\ D!ToolFailures(x) = 0
           Healthy == \A x \in sampled : Fit(x)
           data == smoke["hermes"].data
           n == Len(data.events)
           Bad == {i \in 1..n : data.events[i].failed}
           Grounded == {i \in 1..n : data.events[i].refs > 1}
<1>1. D!ToolLoopHealth(loops) = D!Judge(sampled # {}, Healthy)
  BY DEF D!ToolLoopHealth
<1>2. sampled # {} /\ Healthy
  <2> HIDE DEF sampled, Healthy, loops
  <2> QED
    BY <1>1 DEF D!Judge, loops
<1>3. PICK x \in loops : D!ToolFailures(x) = 0
  <2>1. PICK x \in sampled : TRUE
    BY <1>2
  <2>2. D!ToolFailures(x) = 0
    <3> HIDE DEF Rated, sampled
    <3> QED
      BY <1>2, <2>1
  <2> QED
    BY <2>1, <2>2
<1>4. "hermes" \in DOMAIN smoke /\ x = D!CheckResult("hermes", smoke["hermes"])
  BY <1>3, FoundCheck
<1>5. x.data = D!SummarizeAdapterToolLoop(data)
  BY <1>4 DEF D!CheckResult
<1>6. data.events \in Seq(ToolEvents) /\ data.unmatched \in Nat
  BY <1>4 DEF ReportsOfModules, ToolEvents
<1>7. D!ToolFailures(x) = Cardinality(Bad) + data.unmatched + (n - Cardinality(Grounded))
  BY <1>5, <1>6, ToolSummary DEF D!ToolFailures, D!Field
<1>8. /\ n \in Nat /\ Cardinality(Bad) \in Nat /\ Cardinality(Grounded) \in Nat
      /\ Cardinality(Grounded) <= n
  BY <1>6, ToolSummary
<1>9. Cardinality(Bad) = 0 /\ data.unmatched = 0 /\ Cardinality(Grounded) = n
  <2> HIDE DEF n, Bad, Grounded, data
  <2> QED
    BY <1>3, <1>6, <1>7, <1>8
<1>10. Bad = {} /\ Grounded = 1..n
  <2>1. IsFiniteSet(1..n) /\ Cardinality(1..n) = n
    BY <1>8, CountedInterval
  <2>2. Bad \in SUBSET (1..n) /\ Grounded \in SUBSET (1..n)
    OBVIOUS
  <2> QED
    BY <1>9, <2>1, <2>2, FS_Subset, FS_EmptySet
<1> QED
  BY <1>4, <1>9, <1>10

\* The reducer of the vector store calls it healthy only over a store that wrote nothing.
LEMMA HealthyStore ==
  ASSUME NEW smoke, NEW ranks, D!VectorHealth(D!FindCheck(ReportChecks(smoke), "store"), ranks) = "HEALTHY"
  PROVE  "store" \in DOMAIN smoke /\ smoke["store"].effects \cap D!SummarizedEffects.store = {}
<1> DEFINE stores == D!FindCheck(ReportChecks(smoke), "store")
           writes == {"local_vector_store_written", "zilliz_written", "embedding_created"}
           shown == (UNION {x.effects : x \in stores}) \cap writes
           failures == IF stores = {} THEN 3 ELSE D!Cardinality(shown)
           rates == {x.data.top1_exact_recall : x \in ranks}
           healthy == rates # {} /\ failures = 0 /\ \A v \in rates : v >= 1000
<1>1. D!VectorHealth(stores, ranks) = D!Judge(rates # {} \/ failures > 0, healthy)
  BY DEF D!VectorHealth
<1>2. failures = 0
  <2> HIDE DEF failures, rates
  <2> QED
    BY <1>1 DEF D!Judge
<1>3. stores # {} /\ Cardinality(shown) = 0
  BY <1>2, SameCardinality
<1>4. IsFiniteSet(shown)
  <2>1. IsFiniteSet(writes)
    <3>1. IsFiniteSet({"local_vector_store_written"} \cup {"zilliz_written"})
      BY FS_Singleton, FS_AddElement
    <3>2. IsFiniteSet({"local_vector_store_written"} \cup {"zilliz_written"} \cup {"embedding_created"})
      BY <3>1, FS_AddElement
    <3>3. writes = {"local_vector_store_written"} \cup {"zilliz_written"} \cup {"embedding_created"}
      OBVIOUS
    <3> QED
      BY <3>2, <3>3
  <2>2. shown \in SUBSET writes
    OBVIOUS
  <2> QED
    BY <2>1, <2>2, FS_Subset
<1>5. shown = {}
  BY <1>3, <1>4, FS_EmptySet
<1>6. PICK x \in stores : TRUE
  BY <1>3
<1>7. "store" \in DOMAIN smoke /\ x = D!CheckResult("store", smoke["store"])
  BY <1>6, FoundCheck
<1>8. D!SummarizedEffects["store"] = writes
  BY DEF D!SummarizedEffects
<1>9. x.effects = smoke["store"].effects \cap D!SummarizedEffects["store"]
  BY <1>7 DEF D!CheckResult
<1>10. x.effects \cap writes = {}
  BY <1>5, <1>6
<1> QED
  BY <1>7, <1>8, <1>9, <1>10

-----------------------------------------------------------------------------
\* The parts of a report.
LEMMA ReportParts ==
  ASSUME NEW smoke, NEW past, NEW now, NEW threshold,
         NEW r, r = D!ReviewHealth(smoke, past, now, threshold)
  PROVE  /\ r.ran = smoke /\ r.smokeOk = D!SmokeOk(D!BaseChecks(smoke), smoke)
         /\ r.status = D!OverallStatus({D!ClassifyComponent(x, past, now, threshold) : x \in ReportChecks(smoke)})
         /\ r.reducers = D!BuildHealthReducers(ReportChecks(smoke))
<1> DEFINE checks == ReportChecks(smoke)
           components == {D!ClassifyComponent(x, past, now, threshold) : x \in checks}
           open == {x \in components : x.status \in D!Unhealthy /\ ~x.cooldown}
           candidates == {D!DiagnosticCandidate(x) : x \in open}
           diagnostics == D!BuildComponentHealthDiagnostics(checks, past, now, threshold)
<1>1. diagnostics = [status |-> D!OverallStatus(components), components |-> components, at |-> now,
                     threshold |-> threshold, candidates |-> candidates,
                     reducers |-> D!BuildHealthReducers(checks)]
  BY DEF D!BuildComponentHealthDiagnostics
<1> HIDE DEF components, open, candidates, diagnostics
<1>2. r
        = [status |-> diagnostics.status, components |-> diagnostics.components, at |-> now,
           threshold |-> threshold, candidates |-> diagnostics.candidates,
           reducers |-> diagnostics.reducers, smokeOk |-> D!SmokeOk(D!BaseChecks(smoke), smoke),
           ran |-> smoke]
  BY DEF D!ReviewHealth, ReportChecks, diagnostics
<1> QED
  BY <1>1, <1>2 DEF components

\* A set of components is healthy when each is.
LEMMA OverallOfHealthy ==
  ASSUME NEW components
  PROVE  D!OverallStatus(components) \notin D!Unhealthy <=> \A x \in components : x.status \notin D!Unhealthy
<1> DEFINE all == {x.status : x \in components}
<1>1. D!OverallStatus(components) =
        CASE "CRITICAL" \in all -> "CRITICAL"
          [] "CRITICAL" \notin all /\ "DEGRADED" \in all -> "DEGRADED"
          [] all \cap D!Unhealthy = {} /\ "WARNING" \in all -> "WARNING"
          [] OTHER -> "HEALTHY"
  BY DEF D!OverallStatus
<1>2. (\A x \in components : x.status \notin D!Unhealthy) <=> all \cap D!Unhealthy = {}
  OBVIOUS
<1> HIDE DEF all
<1> QED
  BY <1>1, <1>2 DEF D!Unhealthy

\* The status of a check that passes does not depend on its past.
LEMMA StatusOfPassed ==
  ASSUME NEW x, x.ok, NEW past, NEW now, NEW threshold
  PROVE  D!ClassifyComponent(x, past, now, threshold).status = D!WorstRiskStatus(D!RiskSignalsForCheck(x))
<1> DEFINE previous == D!Previous(past, x.name)
           risks == D!RiskSignalsForCheck(x)
           worst == D!WorstRiskStatus(risks)
           failures == D!ConsecutiveFailures(x, previous)
           verdict == IF x.ok THEN worst
                      ELSE IF failures >= D!Max({1, threshold}) THEN "CRITICAL" ELSE "DEGRADED"
           cooldown == D!CooldownActive(verdict, previous, now)
<1>1. D!ClassifyComponent(x, past, now, threshold)
        = [name |-> x.name, ok |-> x.ok, status |-> verdict, risks |-> risks, count |-> failures,
           cooldown |-> cooldown, last |-> previous.last]
  BY DEF D!ClassifyComponent
<1> HIDE DEF worst, failures, risks, previous, cooldown
<1> QED
  BY <1>1 DEF worst, risks

\* A boundary that holds reports nothing.
LEMMA BoundaryThatHolds ==
  ASSUME NEW smoke, D!NoLiveWritesCheck(smoke).ok
  PROVE  /\ \A x \in DOMAIN smoke : smoke[x].effects \cap D!GuardedEffects[x] = {}
         /\ D!WorstRiskStatus(D!RiskSignalsForCheck(D!NoLiveWritesCheck(smoke))) = "HEALTHY"
<1> DEFINE shown == UNION {smoke[x].effects \cap D!GuardedEffects[x] : x \in DOMAIN smoke}
           routed == IF "route" \in DOMAIN smoke
                     THEN smoke["route"].effects \cap D!SummarizedEffects["route"] ELSE {}
           check == D!NoLiveWritesCheck(smoke)
<1>1. check = [name |-> "boundary", ok |-> shown = {}, data |-> D!NoData, effects |-> routed]
  BY DEF D!NoLiveWritesCheck
<1>2. \A x \in DOMAIN smoke : smoke[x].effects \cap D!GuardedEffects[x] = {}
  <2> DEFINE clean == shown = {}
  <2>1. check.ok = clean /\ clean \in BOOLEAN
    <3>1. clean \in BOOLEAN
      OBVIOUS
    <3>2. check = [name |-> "boundary", ok |-> clean, data |-> D!NoData, effects |-> routed]
      BY <1>1
    <3> HIDE DEF clean, routed, check
    <3> QED
      BY <3>1, <3>2
  <2>2. clean
    <3> HIDE DEF clean
    <3> QED
      BY <2>1
  <2> QED
    BY <2>2
<1>3. D!GuardedEffects["route"] = D!SummarizedEffects["route"]
  BY DEF D!GuardedEffects, D!SummarizedEffects
<1>4. check.effects = {} /\ check.data = D!NoData
  BY <1>1, <1>2, <1>3
<1> HIDE DEF check
<1>5. \A f : f # "none" => D!Field(check, f) = 0 /\ ~D!Given(check, f)
  BY <1>4 DEF D!Field, D!Given, D!NoData
<1>6. D!RiskSignalsForCheck(check) = {}
  <2> DEFINE critical == (check.effects \cap D!CriticalFields)
                           \cup {x \in D!CriticalFields : D!Field(check, x) > 0}
             counted == {x \in D!CountFields : D!Field(check, x) > 0}
             rated == {x \in D!RateFields : D!Given(check, x) /\ D!Field(check, x) < 1000}
             worse == {x \in {"avg_delta"} : D!Given(check, x) /\ D!Field(check, x) <= 0}
             repairs == {x \in {"repair_work_orders"} : D!Field(check, x) > 0}
  <2>1. critical = {} /\ counted = {} /\ rated = {} /\ worse = {} /\ repairs = {}
    BY <1>4, <1>5 DEF D!CriticalFields, D!CountFields, D!RateFields, D!ToolFields
  <2>2. D!RiskSignalsForCheck(check)
          = UNION {D!Risks("critical", critical), D!Risks("degraded", counted), D!Risks("degraded", rated),
                   D!Risks("degraded", worse), D!Risks("warning", repairs)}
    BY DEF D!RiskSignalsForCheck
  <2>3. ASSUME NEW severity PROVE D!Risks(severity, {}) = {}
    BY DEF D!Risks
  <2> HIDE DEF critical, counted, rated, worse, repairs
  <2> QED
    BY <2>1, <2>2, <2>3
<1>7. D!WorstRiskStatus({}) = "HEALTHY"
  BY DEF D!WorstRiskStatus
<1> QED
  BY <1>2, <1>6, <1>7 DEF check

\* A smoke that passes saw no effect, and no review with a past finds less than it did.
LEMMA PassedSmoke ==
  ASSUME NEW smoke, D!SmokeOk(D!BaseChecks(smoke), smoke), NEW past, NEW now, NEW threshold
  PROVE  /\ \A x \in DOMAIN smoke : smoke[x].effects \cap D!GuardedEffects[x] = {}
         /\ D!OverallStatus({D!ClassifyComponent(x, past, now, threshold) : x \in ReportChecks(smoke)})
              \notin D!Unhealthy
<1> DEFINE base == D!BaseChecks(smoke)
           boundary == D!NoLiveWritesCheck(smoke)
           first == {D!ClassifyComponent(x, <<>>, 0, 3) : x \in base}
           Worst(x) == D!WorstRiskStatus(D!RiskSignalsForCheck(x))
<1> HIDE DEF base, boundary, Worst
<1>1. (\A x \in base \cup {boundary} : x.ok)
      /\ D!BuildComponentHealthDiagnostics(base, <<>>, 0, 3).status \notin D!Unhealthy
  BY DEF D!SmokeOk, base, boundary
<1>2. D!BuildComponentHealthDiagnostics(base, <<>>, 0, 3).status = D!OverallStatus(first)
  BY DEF D!BuildComponentHealthDiagnostics
<1>3. \A x \in first : x.status \notin D!Unhealthy
  BY <1>1, <1>2, OverallOfHealthy
<1>4. ASSUME NEW x \in base PROVE Worst(x) \notin D!Unhealthy
  BY <1>1, <1>3, StatusOfPassed DEF Worst
<1>5. Worst(boundary) \notin D!Unhealthy
  BY <1>1, BoundaryThatHolds DEF Worst, boundary, D!Unhealthy
<1>6. ASSUME NEW x \in base \cup {boundary}
      PROVE  D!ClassifyComponent(x, past, now, threshold).status \notin D!Unhealthy
  BY <1>1, <1>4, <1>5, StatusOfPassed DEF Worst
<1>7. D!OverallStatus({D!ClassifyComponent(x, past, now, threshold) : x \in base \cup {boundary}})
        \notin D!Unhealthy
  BY <1>6, OverallOfHealthy
<1> QED
  BY <1>1, <1>7, BoundaryThatHolds DEF ReportChecks, base, boundary

ReportsTrue == D!ReducersAgree /\ D!PassedSmokeIsClean

LEMMA ReportIsTrue ==
  ASSUME NEW smoke \in Reports, NEW past, NEW now, NEW threshold,
         s3' = {D!ReviewHealth(smoke, past, now, threshold)}
  PROVE  ReportsTrue'
<1> DEFINE r == D!ReviewHealth(smoke, past, now, threshold)
           checks == ReportChecks(smoke)
           loops == D!FindCheck(checks, "hermes")
<1>1. ReportsOfModules(smoke)
  BY FoundAssumption
<1>2. /\ r.ran = smoke /\ r.smokeOk = D!SmokeOk(D!BaseChecks(smoke), smoke)
      /\ r.status = D!OverallStatus({D!ClassifyComponent(x, past, now, threshold) : x \in checks})
      /\ r.reducers = D!BuildHealthReducers(checks)
  BY ReportParts
<1>3. /\ r.reducers.tools = D!ToolLoopHealth(D!FindCheck(checks, "hermes"))
      /\ r.reducers.vector = D!VectorHealth(D!FindCheck(checks, "store"), D!FindCheck(checks, "rank"))
  BY <1>2 DEF D!BuildHealthReducers
<1> HIDE DEF r, checks
<1>4. D!ReducersAgree'
  <2>1. r.reducers.tools = "HEALTHY" =>
          /\ "hermes" \in DOMAIN smoke /\ smoke["hermes"].data.unmatched = 0
          /\ \A i \in 1..Len(smoke["hermes"].data.events) :
               ~smoke["hermes"].data.events[i].failed /\ smoke["hermes"].data.events[i].refs > 1
    BY <1>1, <1>3, HealthyTools DEF checks
  <2>2. r.reducers.vector = "HEALTHY" =>
          "store" \in DOMAIN smoke /\ smoke["store"].effects \cap D!SummarizedEffects.store = {}
    BY <1>3, HealthyStore DEF checks
  <2> QED
    BY <1>2, <2>1, <2>2 DEF D!ReducersAgree, r
<1>5. D!PassedSmokeIsClean'
  <2>1. ASSUME r.smokeOk
        PROVE  /\ \A x \in DOMAIN smoke :
                    smoke[x].effects \cap {"live_effect_allowed", "writes_persistent_memory", "zilliz_written"} = {}
               /\ r.status \notin D!Unhealthy
    <3>1. D!SmokeOk(D!BaseChecks(smoke), smoke)
      BY <1>2, <2>1
    <3>2. \A x \in DOMAIN smoke : smoke[x].effects \cap C!GuardedEffects[x] = {}
      BY <3>1, PassedSmoke DEF C!GuardedEffects, D!GuardedEffects, C!SummarizedEffects, D!SummarizedEffects
    <3>3. r.status \notin D!Unhealthy
      BY <1>2, <3>1, PassedSmoke DEF checks
    <3> QED
      BY <1>1, <3>2, <3>3 DEF ReportsOfModules
  <2> QED
    BY <1>2, <2>1 DEF D!PassedSmokeIsClean, r
<1> QED
  BY <1>4, <1>5 DEF ReportsTrue

LEMMA ReportsStep == ASSUME ReportsTrue, D!Next \/ UNCHANGED slots PROVE ReportsTrue'
<1>1. ASSUME NEW smoke \in Reports, NEW threshold \in {0, 3}, D!Review(smoke, threshold) PROVE ReportsTrue'
  <2>1. s3' = {D!ReviewHealth(smoke, s2, s1, threshold)}
    BY <1>1 DEF D!Review
  <2> QED
    BY <2>1, ReportIsTrue
<1>2. CASE D!Wait \/ UNCHANGED slots
  BY <1>2 DEF D!Wait, slots, ReportsTrue, D!ReducersAgree, D!PassedSmokeIsClean
<1> QED
  BY <1>1, <1>2 DEF D!Next

(***************************************************************************)
(* The findings.  The verdict of a full loop is taken apart down to what the*)
(* sample sets, the replay and the smoke reported.                         *)
(***************************************************************************)

Smoked(input) == W!RunCurrentLineSmoke(input.smoke)
Calibrated(input) == W!RunCurrentLineCalibration(input.samples, input.replay)
SamplesOf(input) == {W!CalibrateSampleSet(x) : x \in input.samples}
ProbeOf(sample) == W!BuildRetrievalProbe(W!V!BuildVectorMemoryStoragePlan(sample.orders, TRUE, 1))
Verdict(input) == W!BuildQianxuesenFullLoopHealth(input)
StatusOf(input) == W!ComponentStatus(Calibrated(input), Smoked(input))

LEMMA CheckHolds == \A name : \A b \in BOOLEAN : W!CheckResult(name, b).ok = b
BY DEF W!CheckResult

LEMMA VerdictParts ==
  ASSUME NEW input
  PROVE  /\ Verdict(input).ok = (Smoked(input).ok /\ Calibrated(input).ok /\ Verdict(input).failures = {})
         /\ Verdict(input).failures = W!BlockingFailures(Calibrated(input), Smoked(input), StatusOf(input))
         /\ Verdict(input).probes = {x.probe : x \in Calibrated(input).samples}
<1> DEFINE smoke == Smoked(input)
           calibration == Calibrated(input)
           failures == W!BlockingFailures(calibration, smoke, StatusOf(input))
           passed == smoke.ok /\ calibration.ok /\ failures = {}
           probes == {x.probe : x \in calibration.samples}
           closed == W!BoundaryReadsClosed(W!SafetySummary(calibration, smoke))
<1>1. Verdict(input) = [ok |-> passed, failures |-> failures, closed |-> closed, probes |-> probes]
  BY DEF Verdict, W!BuildQianxuesenFullLoopHealth, Smoked, Calibrated, StatusOf
<1>2. passed \in BOOLEAN
  OBVIOUS
<1>3. Verdict(input).ok = passed /\ Verdict(input).failures = failures /\ Verdict(input).probes = probes
  <2> HIDE DEF passed, failures, probes, closed
  <2> QED
    BY <1>1, <1>2
<1> QED
  BY <1>3

LEMMA CalibrationParts ==
  ASSUME NEW input
  PROVE  LET c == Calibrated(input)
         IN  /\ c.samples = SamplesOf(input) /\ c.summary = W!BuildSummary(SamplesOf(input))
             /\ c.ok = \A x \in c.checks : x.ok
             /\ \A x \in SamplesOf(input) : x.checks \subseteq c.checks
             /\ W!RunPerceptionShadowReplay(input.replay).checks \subseteq c.checks
<1> DEFINE results == SamplesOf(input)
           perception == W!RunPerceptionShadowReplay(input.replay)
           summary == W!BuildSummary(results)
           overall ==
             {W!CheckResult("all sample sets passed", \A x \in results : x.ok),
              W!CheckResult("all retrieval probes exact-match top1", summary.recall = 1000),
              W!CheckResult("perception shadow replay passed", perception.ok),
              W!CheckResult("curiosity gate kept signal selection precise", perception.curiosityOk),
              W!CheckResult("shadow mode kept all live effects off", ~summary.live /\ summary.calls = 0)}
           checks == (UNION {x.checks : x \in results}) \cup perception.checks \cup overall
           passed == \A x \in checks : x.ok
           c == Calibrated(input)
<1>1. c = [ok |-> passed, summary |-> summary, samples |-> results, perception |-> perception,
           checks |-> checks]
  BY DEF Calibrated, W!RunCurrentLineCalibration, SamplesOf
<1>2. passed \in BOOLEAN
  OBVIOUS
<1>3. c.ok = passed /\ c.summary = summary /\ c.samples = results /\ c.checks = checks
  <2> HIDE DEF passed, summary, results, perception, checks, c
  <2> QED
    BY <1>1, <1>2
<1>4. (\A x \in results : x.checks \subseteq checks) /\ perception.checks \subseteq checks
  <2> HIDE DEF results, perception, overall
  <2> QED
    OBVIOUS
<1> HIDE DEF results, summary, perception, overall, c
<1> QED
  BY <1>3, <1>4 DEF results, summary, perception, c

LEMMA SampleParts ==
  ASSUME NEW sample
  PROVE  LET result == W!CalibrateSampleSet(sample)
         IN  /\ result.probe = ProbeOf(sample) /\ result.routes = sample.routes
             /\ (\A x \in result.checks : x.ok) =>
                  /\ sample.exports = {} /\ sample.ticketEffects = {} /\ sample.tournamentEffects = {}
                  /\ Cardinality(sample.orders) = sample.tickets.count
                  /\ W!MissingExpectedRoutes(sample.routes, sample.expectedRoutes) = {}
                  /\ W!JudgeMatches(sample.judge, sample.expectedJudge)
                  /\ sample.calls = 0
<1> DEFINE live == "live_effect_allowed" \in sample.ticketEffects \cup sample.tournamentEffects
           probe == ProbeOf(sample)
           a1 == sample.memoryOk
           a2 == sample.nonSkillPromoted = 0 /\ sample.exports = {}
           a3 == sample.tickets.ok /\ sample.ticketEffects \subseteq {"live_effect_allowed"}
           a4 == sample.ordersOk /\ W!Cardinality(sample.orders) = sample.tickets.count /\ ~sample.durable
           a5 == probe.ok
           a6 == sample.tournamentOk
           a7 == sample.preserved /\ sample.tournamentEffects = {}
           a8 == W!MissingExpectedRoutes(sample.routes, sample.expectedRoutes) = {}
           a9 == W!JudgeMatches(sample.judge, sample.expectedJudge)
           a10 == ~live /\ sample.calls = 0
           checks ==
             {W!CheckResult("memory-layer sample review", a1),
              W!CheckResult("minimal-positive keeps non-skill routes out of skill export", a2),
              W!CheckResult("repair tickets stay local", a3),
              W!CheckResult("work-order routing mirrors repair tickets", a4),
              W!CheckResult("retrieval probe keeps requested kind first", a5),
              W!CheckResult("tournament sample review", a6),
              W!CheckResult("tournament preserves route and safety", a7),
              W!CheckResult("expected route coverage", a8),
              W!CheckResult("expected judge-escalation shape", a9),
              W!CheckResult("no live writes or provider calls", a10)}
           passed == \A x \in checks : x.ok
           production == "production_authority" \in sample.tournamentEffects
           result == W!CalibrateSampleSet(sample)
<1>1. result =
        [id |-> sample.id, checks |-> checks, ok |-> passed, probe |-> probe,
         routes |-> sample.routes, sources |-> sample.sources, signals |-> sample.signals,
         production |-> production, live |-> live, calls |-> sample.calls]
  BY DEF W!CalibrateSampleSet, ProbeOf
<1>2. /\ a2 \in BOOLEAN /\ a3 \in BOOLEAN /\ a4 \in BOOLEAN /\ a7 \in BOOLEAN
      /\ a8 \in BOOLEAN /\ a9 \in BOOLEAN /\ a10 \in BOOLEAN
  BY DEF W!JudgeMatches
<1>3. result.probe = probe /\ result.routes = sample.routes /\ result.checks = checks
  <2> HIDE DEF checks, passed, probe, live, production, result
  <2> QED
    BY <1>1
<1>4. ASSUME passed PROVE a2 /\ a3 /\ a4 /\ a7 /\ a8 /\ a9 /\ a10
  <2> HIDE DEF a1, a2, a3, a4, a5, a6, a7, a8, a9, a10
  <2>1. /\ W!CheckResult("minimal-positive keeps non-skill routes out of skill export", a2).ok
        /\ W!CheckResult("repair tickets stay local", a3).ok
        /\ W!CheckResult("work-order routing mirrors repair tickets", a4).ok
        /\ W!CheckResult("tournament preserves route and safety", a7).ok
        /\ W!CheckResult("expected route coverage", a8).ok
        /\ W!CheckResult("expected judge-escalation shape", a9).ok
        /\ W!CheckResult("no live writes or provider calls", a10).ok
    BY <1>4, Zenon
  <2>2. a2 /\ a3
    BY <1>2, <2>1, CheckHolds, Zenon
  <2>3. a4 /\ a7
    BY <1>2, <2>1, CheckHolds, Zenon
  <2>4. a8 /\ a9 /\ a10
    BY <1>2, <2>1, CheckHolds, Zenon
  <2> QED
    BY <2>2, <2>3, <2>4
<1>5. W!Cardinality(sample.orders) = Cardinality(sample.orders)
  BY DEF W!Cardinality, W!IsFiniteSet, Cardinality, IsFiniteSet
<1>6. ASSUME a2, a3, a4, a7, a8, a9, a10
      PROVE  /\ sample.exports = {} /\ sample.ticketEffects = {} /\ sample.tournamentEffects = {}
             /\ Cardinality(sample.orders) = sample.tickets.count
             /\ W!MissingExpectedRoutes(sample.routes, sample.expectedRoutes) = {}
             /\ W!JudgeMatches(sample.judge, sample.expectedJudge)
             /\ sample.calls = 0
  <2>1. sample.exports = {} /\ sample.tournamentEffects = {} /\ sample.calls = 0
    BY <1>6
  <2>2. sample.ticketEffects = {}
    BY <1>6
  <2>3. Cardinality(sample.orders) = sample.tickets.count
    BY <1>5, <1>6
  <2> QED
    BY <1>6, <2>1, <2>2, <2>3
<1> HIDE DEF checks, probe, a2, a3, a4, a7, a8, a9, a10, result
<1> QED
  BY <1>3, <1>4, <1>6 DEF probe, result

LEMMA ReplayParts ==
  ASSUME NEW replay
  PROVE  (\A x \in W!RunPerceptionShadowReplay(replay).checks : x.ok) =>
           replay.effects = {} /\ replay.missed = 0
<1> DEFINE curiosity == replay.missed = 0 /\ replay.noise = 0
           authority == {"controller_authority", "changes_route", "changes_winner"}
           a1 == replay.shadow
           a2 == authority \cap replay.effects = {}
           a3 == replay.effects \subseteq authority
           a4 == replay.riskPriority > replay.noisePriority /\ replay.topPriority >= replay.riskPriority
           a5 == replay.ledger = W!ExpectedLedger
           a6 == replay.clustered
           a7 == replay.proposalsOnly
           checks ==
             {W!CheckResult("perception replay stays shadow-only", a1),
              W!CheckResult("perception replay keeps Qianxuesen route authority", a2),
              W!CheckResult("perception replay keeps writes and provider calls off", a3),
              W!CheckResult("perception replay prioritizes public risk above noise", a4),
              W!CheckResult("perception replay suppresses repeats and detects recurrence", a5),
              W!CheckResult("perception replay clusters duplicate workflow evidence", a6),
              W!CheckResult("perception replay proposes ledger updates without writing", a7),
              W!CheckResult("curiosity gate catches review-worthy signals without selecting noise", curiosity)}
           passed == \A x \in checks : x.ok
           result == W!RunPerceptionShadowReplay(replay)
<1>1. result = [checks |-> checks, ok |-> passed, missed |-> replay.missed, noise |-> replay.noise,
                curiosityOk |-> curiosity, effects |-> replay.effects]
  BY DEF W!RunPerceptionShadowReplay
<1>2. a2 \in BOOLEAN /\ a3 \in BOOLEAN /\ curiosity \in BOOLEAN
  OBVIOUS
<1>3. result.checks = checks
  <2> HIDE DEF checks, passed, curiosity, result
  <2> QED
    BY <1>1
<1>4. ASSUME passed PROVE a2 /\ a3 /\ curiosity
  <2> HIDE DEF a1, a2, a3, a4, a5, a6, a7, curiosity
  <2>1. /\ W!CheckResult("perception replay keeps Qianxuesen route authority", a2).ok
        /\ W!CheckResult("perception replay keeps writes and provider calls off", a3).ok
        /\ W!CheckResult("curiosity gate catches review-worthy signals without selecting noise", curiosity).ok
    BY <1>4, Zenon
  <2> QED
    BY <1>2, <2>1, CheckHolds, Zenon
<1>5. a2 /\ a3 /\ curiosity => replay.effects = {} /\ replay.missed = 0
  OBVIOUS
<1> HIDE DEF checks, result, a2, a3, curiosity
<1> QED
  BY <1>3, <1>4, <1>5 DEF result

\* A smoke that passes, as the full loop reads it.
LEMMA SmokedClean ==
  ASSUME NEW input, ReportsOfModules(input.smoke), Smoked(input).ok, NEW x \in DOMAIN input.smoke
  PROVE  /\ input.smoke[x].ok
         /\ {"zilliz_written", "writes_persistent_memory"} \cap input.smoke[x].effects = {}
<1> DEFINE smoke == input.smoke
           base == W!H!BaseChecks(smoke)
           fine == W!H!SmokeOk(base, smoke)
           health == [name |-> "health",
                      ok |-> W!H!BuildComponentHealthDiagnostics(base, <<>>, 0, 3).status \notin W!H!Unhealthy,
                      data |-> W!H!NoData, effects |-> {}]
           checks == base \cup {health, W!H!NoLiveWritesCheck(smoke)}
           guarded == UNION {smoke[y].effects \cap W!H!GuardedEffects[y] : y \in DOMAIN smoke}
           clean == guarded = {}
           routed == IF "route" \in DOMAIN smoke
                     THEN smoke["route"].effects \cap W!H!SummarizedEffects["route"] ELSE {}
           boundary == W!H!NoLiveWritesCheck(smoke)
<1>1. Smoked(input) = [ok |-> fine, checks |-> checks, summary |-> {}]
  BY DEF Smoked, W!RunCurrentLineSmoke
<1>2. fine \in BOOLEAN
  BY DEF W!H!SmokeOk
<1>3. fine
  <2> HIDE DEF fine, checks
  <2> QED
    BY <1>1, <1>2
<1>4. (\A y \in base : y.ok) /\ boundary.ok
  BY <1>3 DEF W!H!SmokeOk
<1>5. smoke[x].ok
  <2>1. W!H!CheckResult(x, smoke[x]).ok
    BY <1>4 DEF W!H!BaseChecks
  <2> QED
    BY <2>1 DEF W!H!CheckResult
<1>6. boundary = [name |-> "boundary", ok |-> clean, data |-> W!H!NoData, effects |-> routed]
  BY DEF W!H!NoLiveWritesCheck
<1>7. clean
  <2>1. clean \in BOOLEAN
    OBVIOUS
  <2> HIDE DEF clean, routed, boundary
  <2> QED
    BY <1>4, <1>6, <2>1
<1>8. smoke[x].effects \cap W!H!GuardedEffects[x] = {}
  BY <1>7
<1>9. W!H!GuardedEffects[x] = C!GuardedEffects[x]
  BY DEF C!GuardedEffects, W!H!GuardedEffects, C!SummarizedEffects, W!H!SummarizedEffects
<1> QED
  BY <1>5, <1>8, <1>9 DEF ReportsOfModules

-----------------------------------------------------------------------------
(* The routes the sample sets together took.                               *)

\* The sum FoldSet takes.
RouteSum(results, route) ==
  CHOOSE f : f = [s \in SUBSET results |->
    IF s = {} THEN 0 ELSE f[s \ {CHOOSE x \in s : TRUE}] + W!Count((CHOOSE x \in s : TRUE).routes, route)]

\* Nothing adds up to nothing.
LEMMA SumOfNone ==
  ASSUME NEW results, IsFiniteSet(results), NEW route, \A x \in results : W!Count(x.routes, route) = 0
  PROVE  RouteSum(results, route)[results] = 0
<1> DEFINE Pick(s) == CHOOSE x \in s : TRUE
           Rec(f) == [s \in SUBSET results |->
                        IF s = {} THEN 0
                        ELSE f[s \ {CHOOSE x \in s : TRUE}] + W!Count((CHOOSE x \in s : TRUE).routes, route)]
           g == [s \in SUBSET results |-> 0]
           f == RouteSum(results, route)
           Wrong == {s \in SUBSET results : f[s] # 0}
<1>1. ASSUME NEW s \in SUBSET results, s # {} PROVE /\ Pick(s) \in s /\ s \ {Pick(s)} \in SUBSET results
                                              /\ W!Count(Pick(s).routes, route) = 0
  BY <1>1
<1>2. g = Rec(g)
  <2>1. ASSUME NEW s \in SUBSET results
        PROVE  0 = IF s = {} THEN 0 ELSE g[s \ {Pick(s)}] + W!Count(Pick(s).routes, route)
    <3>1. CASE s = {}
      BY <3>1
    <3>2. CASE s # {}
      <4>1. g[s \ {Pick(s)}] = 0 /\ W!Count(Pick(s).routes, route) = 0
        BY <1>1, <3>2
      <4> HIDE DEF g, Pick
      <4> QED
        BY <3>2, <4>1
    <3> QED
      BY <3>1, <3>2
  <2> QED
    BY <2>1
<1>3. f = Rec(f)
  BY <1>2, Zenon DEF RouteSum
<1> HIDE DEF g
<1>4. ASSUME NEW s \in SUBSET results
      PROVE  f[s] = IF s = {} THEN 0 ELSE f[s \ {Pick(s)}] + W!Count(Pick(s).routes, route)
  <2> HIDE DEF f
  <2> QED
    BY <1>3
<1> HIDE DEF f, Rec
<1> SUFFICES ASSUME Wrong # {} PROVE FALSE
  BY DEF f
<1>5. Family(Wrong, results)
  BY DEF Family
<1>6. PICK s : Minimal(s, Wrong)
  BY <1>5, MinimalSet
<1>7. s \in SUBSET results /\ f[s] # 0 /\ s # {}
  BY <1>4, <1>6 DEF Minimal
<1>8. s \ {Pick(s)} \notin Wrong
  BY <1>1, <1>6, <1>7 DEF Minimal
<1>9. f[s \ {Pick(s)}] = 0 /\ W!Count(Pick(s).routes, route) = 0
  BY <1>1, <1>7, <1>8
<1>10. f[s] = f[s \ {Pick(s)}] + W!Count(Pick(s).routes, route)
  BY <1>4, <1>7
<1> QED
  BY <1>7, <1>9, <1>10

\* A route that the sample sets together took was taken by one of them.
LEMMA RouteTaken ==
  ASSUME NEW results, IsFiniteSet(results), NEW route, \A x \in results : W!Count(x.routes, route) \in Nat,
         W!Count(W!AggregateRouteCounts(results), route) > 0
  PROVE  \E x \in results : W!Count(x.routes, route) > 0
<1> SUFFICES ASSUME \A x \in results : W!Count(x.routes, route) = 0 PROVE FALSE
  OBVIOUS
<1> DEFINE counts == W!AggregateRouteCounts(results)
           routes == UNION {DOMAIN x.routes : x \in results}
           Sum(r) == RouteSum(results, r)[results]
<1>1. counts = [r \in routes |-> Sum(r)]
  BY Zenon DEF W!AggregateRouteCounts, W!FoldSet, W!MapThenFoldSet, RouteSum
<1>2. Sum(route) = 0
  BY SumOfNone
<1> HIDE DEF Sum, routes, counts
<1>3. W!Count(counts, route) = 0
  BY <1>1, <1>2 DEF W!Count
<1> QED
  BY <1>3 DEF counts

-----------------------------------------------------------------------------
(* The plan a probe asks.                                                  *)

PlanOf(sample) == W!V!BuildVectorMemoryStoragePlan(sample.orders, TRUE, 1)
PlannedKinds ==
  {"decision_trace", "audit_log", "repair_work_order", "agent_experience_candidate", "policy_boundary"}

\* What the probe needs of a plan.
Probable(records) ==
  /\ IsFiniteSet(records) /\ records # {}
  /\ \A r \in records : W!RecordIndex(r) \in Nat /\ r.kind \in PlannedKinds
  /\ \A r, s \in records : r.kind = s.kind => r.authority = s.authority

LEMMA FiniteImage ==
  ASSUME NEW S, IsFiniteSet(S), NEW f, f = [x \in S |-> f[x]]
  PROVE  IsFiniteSet({f[x] : x \in S})
<1> DEFINE T == {f[x] : x \in S}
<1>1. f \in [S -> T]
  OBVIOUS
<1>2. f \in Surjection(S, T)
  BY <1>1 DEF Surjection
<1> QED
  BY <1>2, FS_Surjection

LEMMA RecordShape ==
  ASSUME NEW kind, NEW id, NEW n, NEW original, NEW trace, NEW approval, NEW blocked,
         NEW r, r = W!V!RecordForKind(kind, id, n, original, trace, approval, blocked)
  PROVE  r.kind = kind /\ r.n = n /\ r.authority = W!V!Collections[kind].authority
BY DEF W!V!RecordForKind

LEMMA IndexFacts ==
  ASSUME NEW r, r.kind \in PlannedKinds, r.n \in Nat \ {0}
  PROVE  W!RecordIndex(r) \in Nat
BY DEF W!RecordIndex, PlannedKinds

LEMMA PlanIsProbable ==
  ASSUME NEW sample, CountedSample(sample)
  PROVE  Probable(PlanOf(sample))
<1> DEFINE orders == sample.orders
           trace == W!V!DecisionTraceId(TRUE, 1)
           bridge == W!V!RecordsFromLangGraphBridge(trace, 1)
           Planned(o) == W!V!RecordsFromWorkOrder(o, trace)
           Rec(o, kind, approval) ==
             W!V!RecordForKind(kind, o.id, o.n, W!V!OriginalSourceFromWorkOrder(o), trace, approval,
                               W!V!BlockedSurfaces(o))
           records == PlanOf(sample)
<1>1. records = bridge \cup UNION {Planned(o) : o \in orders}
  BY Zenon DEF PlanOf, W!V!BuildVectorMemoryStoragePlan
<1>2. bridge = {W!V!RecordForKind(k, trace, 1, trace, trace, FALSE, {}) : k \in {"decision_trace", "audit_log"}}
  BY DEF W!V!RecordsFromLangGraphBridge
<1>3. ASSUME NEW o \in orders
      PROVE  /\ Planned(o) \subseteq {Rec(o, "repair_work_order", o.owner),
                                  Rec(o, "agent_experience_candidate", o.owner),
                                  Rec(o, "policy_boundary", TRUE)}
             /\ Planned(o) # {}
  BY DEF W!V!RecordsFromWorkOrder
<1> HIDE DEF trace, bridge, Planned, Rec, records
<1>4. IsFiniteSet(bridge)
  <2>1. bridge = {W!V!RecordForKind("decision_trace", trace, 1, trace, trace, FALSE, {})}
                 \cup {W!V!RecordForKind("audit_log", trace, 1, trace, trace, FALSE, {})}
    BY <1>2
  <2> QED
    BY <2>1, FS_Singleton, FS_Union
<1>5. ASSUME NEW o \in orders PROVE IsFiniteSet(Planned(o))
  <2> DEFINE a == Rec(o, "repair_work_order", o.owner)
             b == Rec(o, "agent_experience_candidate", o.owner)
             c == Rec(o, "policy_boundary", TRUE)
  <2> HIDE DEF a, b, c
  <2>1. IsFiniteSet({a} \cup {b})
    BY FS_Singleton, FS_Union
  <2>2. IsFiniteSet({a} \cup {b} \cup {c})
    BY <2>1, FS_Singleton, FS_Union
  <2>3. Planned(o) \in SUBSET ({a} \cup {b} \cup {c})
    BY <1>3 DEF a, b, c
  <2> QED
    BY <2>2, <2>3, FS_Subset
<1>6. IsFiniteSet(records)
  <2> DEFINE f == [o \in orders |-> Planned(o)]
             sets == {f[o] : o \in orders}
  <2>1. IsFiniteSet(orders)
    BY DEF CountedSample
  <2>2. f = [o \in orders |-> f[o]]
    OBVIOUS
  <2>3. \A T \in sets : IsFiniteSet(T)
    BY <1>5
  <2>4. sets = {Planned(o) : o \in orders}
    OBVIOUS
  <2> HIDE DEF f
  <2>5. IsFiniteSet(sets)
    BY <2>1, <2>2, FiniteImage
  <2> HIDE DEF sets
  <2>6. IsFiniteSet(UNION sets)
    BY <2>3, <2>5, FS_UNION
  <2> QED
    BY <1>1, <1>4, <2>4, <2>6, FS_Union
<1>7. ASSUME NEW r \in records
      PROVE  /\ r.kind \in PlannedKinds /\ r.n \in Nat \ {0}
             /\ r.authority = W!V!Collections[r.kind].authority
  <2>1. CASE r \in bridge
    <3>1. PICK k \in {"decision_trace", "audit_log"} :
            r = W!V!RecordForKind(k, trace, 1, trace, trace, FALSE, {})
      BY <1>2, <2>1
    <3>2. r.kind = k /\ r.n = 1 /\ r.authority = W!V!Collections[k].authority
      BY <3>1 DEF W!V!RecordForKind
    <3> QED
      BY <3>2 DEF PlannedKinds
  <2>2. ASSUME NEW o \in orders, r \in Planned(o)
        PROVE  /\ r.kind \in PlannedKinds /\ r.n \in Nat \ {0}
               /\ r.authority = W!V!Collections[r.kind].authority
    <3>1. PICK k \in {"repair_work_order", "agent_experience_candidate", "policy_boundary"},
               approval \in {o.owner, TRUE} : r = Rec(o, k, approval)
      BY <1>3, <2>2
    <3>2. r.kind = k /\ r.n = o.n /\ r.authority = W!V!Collections[k].authority
      BY <3>1, RecordShape DEF Rec
    <3>3. o.n \in Nat \ {0}
      BY DEF CountedSample
    <3> QED
      BY <3>2, <3>3 DEF PlannedKinds
  <2> QED
    BY <1>1, <2>1, <2>2
<1>8. records # {}
  BY <1>1, <1>2
<1> QED
  BY <1>6, <1>7, <1>8, IndexFacts DEF Probable, records

-----------------------------------------------------------------------------
(* The target of a probe. *)

TargetOf(records) == CHOOSE r \in W!ProbeTarget(records) : TRUE

LEMMA FirstExists ==
  ASSUME NEW records, \A r \in records : W!RecordIndex(r) \in Nat, records # {}
  PROVE  W!First(records) # {} /\ W!First(records) \subseteq records
<1> DEFINE indexes == {W!RecordIndex(r) : r \in records}
<1>1. indexes \in SUBSET Nat /\ indexes # {}
  OBVIOUS
<1> HIDE DEF indexes
<1>2. PICK m \in indexes : \A n \in indexes : m <= n
  BY <1>1, LeastNatural
<1>3. PICK r \in records : m = W!RecordIndex(r)
  BY <1>2 DEF indexes
<1>4. \A s \in records : W!RecordIndex(r) <= W!RecordIndex(s)
  BY <1>2, <1>3 DEF indexes
<1> QED
  BY <1>3, <1>4 DEF W!First

LEMMA TargetIsRecord ==
  ASSUME NEW records, Probable(records)
  PROVE  TargetOf(records) \in records
<1> DEFINE Kind(k) == {r \in records : r.kind = k}
<1>1. W!ProbeTarget(records) =
        CASE Kind("repair_work_order") # {} -> W!First(Kind("repair_work_order"))
          [] Kind("repair_work_order") = {} /\ Kind("policy_boundary") # {} -> W!First(Kind("policy_boundary"))
          [] OTHER -> W!First(records)
  BY DEF W!ProbeTarget
<1>2. ASSUME NEW k, Kind(k) # {} PROVE W!First(Kind(k)) # {} /\ W!First(Kind(k)) \subseteq records
  BY <1>2, FirstExists DEF Probable
<1>3. W!First(records) # {} /\ W!First(records) \subseteq records
  BY FirstExists DEF Probable
<1> HIDE DEF Kind
<1>4. W!ProbeTarget(records) # {} /\ W!ProbeTarget(records) \subseteq records
  BY <1>1, <1>2, <1>3
<1> QED
  BY <1>4 DEF TargetOf

-----------------------------------------------------------------------------
(* Its score. *)

\* No probe asks for an answer's context, the one surface that looks at what a record blocks.
LEMMA ProbeSurface ==
  ASSUME NEW kind \in PlannedKinds
  PROVE  W!V!SurfaceFromQuery(W!SurfaceTerms(kind)) # "answer_context"
<1>1. "reply" \notin W!SurfaceTerms(kind)
  BY DEF W!SurfaceTerms, PlannedKinds
<1> QED
  BY <1>1 DEF W!V!SurfaceFromQuery

\* Of two records of the asked kind all weights but the score, the shared source and the
\* original source are the same.
LEMMA FinalOfKind ==
  ASSUME NEW q, NEW kind \in PlannedKinds, NEW t, NEW r, NEW own \in BOOLEAN, own, NEW same \in BOOLEAN,
         q.terms = W!SurfaceTerms(kind), t.kind = kind, r.kind = kind, t.authority = r.authority
  PROVE  /\ W!V!FinalScore(q, t, 58, kind, 0, own) \in Int
         /\ W!V!FinalScore(q, r, 42, kind, 0, same) \in Int
         /\ W!V!FinalScore(q, t, 58, kind, 0, own) > W!V!FinalScore(q, r, 42, kind, 0, same)
<1> DEFINE surface == W!V!SurfaceFromQuery(q.terms)
           weight == W!V!AuthorityWeight(t, surface)
           guard == W!V!SurfaceGuard(t, surface)
           lexical == W!V!LexicalIntentMatch(q, t, kind)
<1>1. surface # "answer_context"
  BY ProbeSurface
<1> HIDE DEF surface
<1>2. weight \in Int /\ W!V!AuthorityWeight(r, surface) = weight
  BY DEF W!V!AuthorityWeight
<1>3. guard \in Int /\ W!V!SurfaceGuard(r, surface) = guard
  BY <1>1 DEF W!V!SurfaceGuard
<1>4. lexical \in Int /\ W!V!LexicalIntentMatch(q, r, kind) = lexical
  BY DEF W!V!LexicalIntentMatch
<1>5. W!V!TraceQuality(t) \in {10, 13} /\ W!V!TraceQuality(r) \in {10, 13}
  BY DEF W!V!TraceQuality
<1> HIDE DEF weight, guard, lexical
<1>6. W!V!FinalScore(q, t, 58, kind, 0, own)
        = 58 + 34 + 18 + (IF own THEN 12 ELSE 0) + weight + W!V!TraceQuality(t) + lexical + guard
  BY DEF W!V!FinalScore, surface, weight, guard, lexical
<1>7. W!V!FinalScore(q, r, 42, kind, 0, same)
        = 42 + 34 + 18 + (IF same THEN 12 ELSE 0) + weight + W!V!TraceQuality(r) + lexical + guard
  BY <1>2, <1>3, <1>4 DEF W!V!FinalScore, surface
<1>8. weight \in Int /\ guard \in Int /\ lexical \in Int
  BY <1>2, <1>3, <1>4
<1>9. (IF same THEN 12 ELSE 0) \in {0, 12}
  OBVIOUS
<1> DEFINE high == W!V!FinalScore(q, t, 58, kind, 0, own)
           low == W!V!FinalScore(q, r, 42, kind, 0, same)
           traceT == W!V!TraceQuality(t)
           traceR == W!V!TraceQuality(r)
           shared == IF same THEN 12 ELSE 0
           ownShare == IF own THEN 12 ELSE 0
<1>10. high = 58 + 34 + 18 + ownShare + weight + traceT + lexical + guard
  BY <1>6
<1>11. low = 94 + shared + weight + traceR + lexical + guard
  BY <1>5, <1>7, <1>8, <1>9
<1>12. traceT \in {10, 13} /\ traceR \in {10, 13} /\ shared \in {0, 12} /\ ownShare = 12
  BY <1>5, <1>9
<1> HIDE DEF high, low, traceT, traceR, shared, ownShare
<1>13. high \in Int /\ low \in Int /\ high > low
  BY <1>8, <1>10, <1>11, <1>12
<1> QED
  BY <1>13 DEF high, low

-----------------------------------------------------------------------------
(* The hits of a probe, as the ranker orders them.                         *)

NoKind == "none"

\* What the ranker makes of a record, when the probe asks for t.
Asked(t) == [kind |-> t.kind, terms |-> W!SurfaceTerms(t.kind)]
ProbeHit(r, t) == [record |-> r, score |-> W!ScoreForProbeHit(r, t), n |-> W!RecordIndex(r)]
ProbeHits(records, t) == {ProbeHit(r, t) : r \in records}
SharesSource(h, anchors) == \E a \in anchors : W!V!HasSharedSource(h.record, a.record)
ShelfOf(h, t, anchors) ==
  W!V!Bucket(h.record, t.kind, t.kind # NoKind /\ anchors # {}, SharesSource(h, anchors))
ScoredHit(h, t, anchors) ==
  [record |-> h.record, score |-> h.score, n |-> h.n, bucket |-> ShelfOf(h, t, anchors),
   final |-> W!V!FinalScore(Asked(t), h.record, h.score, t.kind, ShelfOf(h, t, anchors), SharesSource(h, anchors))]

\* The hits that stay, and how many are before one of them.
StayingHits(hits, t, anchors) == {s \in {ScoredHit(h, t, anchors) : h \in hits} : s.bucket # 3}
Before(s, kept) == {u \in kept : W!V!RankedBefore(u, s)}

LEMMA RankingParts ==
  ASSUME NEW t, t.kind # NoKind, NEW given, NEW anchors, anchors = W!V!Anchors(given, t.kind),
         NEW kept, kept = StayingHits(given, t, anchors)
  PROVE  W!V!RankVectorMemoryHits(Asked(t), given).hits =
           {[record |-> s.record, bucket |-> s.bucket, rank |-> 1 + Cardinality(Before(s, kept))] :
              s \in {u \in kept : 1 + Cardinality(Before(u, kept)) <= 5}}
<1>1. W!V!InferVectorMemoryQueryIntent(Asked(t)) = t.kind
  BY Zenon DEF W!V!InferVectorMemoryQueryIntent, Asked, NoKind
<1>2. \A S : W!V!Cardinality(S) = Cardinality(S)
  BY DEF W!V!Cardinality, W!V!IsFiniteSet, Cardinality, IsFiniteSet
<1> DEFINE asked == W!V!InferVectorMemoryQueryIntent(Asked(t))
           all == W!V!Anchors(given, asked)
           locked == asked # NoKind /\ all # {}
           Scored(h) ==
             LET same == \E a \in all : W!V!HasSharedSource(h.record, a.record)
                 bucket == W!V!Bucket(h.record, asked, locked, same)
             IN [record |-> h.record, score |-> h.score, n |-> h.n, bucket |-> bucket,
                 final |-> W!V!FinalScore(Asked(t), h.record, h.score, asked, bucket, same)]
           some == {s \in {Scored(h) : h \in given} : s.bucket # 3}
           Rank(s) == 1 + W!V!Cardinality({u \in some : W!V!RankedBefore(u, s)})
           ranked == {[record |-> s.record, bucket |-> s.bucket, rank |-> Rank(s)] :
                        s \in {u \in some : Rank(u) <= 5}}
           below == {h.record : h \in {g \in given : g.score < W!V!MinPrimaryScore}}
           heads == {a.record : a \in all}
<1>3. W!V!RankVectorMemoryHits(Asked(t), given)
        = [kind |-> asked, anchor |-> heads, below |-> below, hits |-> ranked]
  BY Zenon DEF W!V!RankVectorMemoryHits, NoKind
<1>4. W!V!RankVectorMemoryHits(Asked(t), given).hits = ranked
  <2> HIDE DEF asked, heads, below, ranked
  <2> QED
    BY <1>3
<1>5. some = kept
  <2>1. all = anchors /\ asked = t.kind
    BY <1>1
  <2>2. \A h \in given : Scored(h) = ScoredHit(h, t, anchors)
    BY <2>1, Zenon DEF ScoredHit, ShelfOf, SharesSource
  <2> HIDE DEF Scored
  <2> QED
    BY <2>2 DEF StayingHits
<1>6. \A s : Rank(s) = 1 + Cardinality(Before(s, kept))
  BY <1>2, <1>5 DEF Before
<1> HIDE DEF some, Rank
<1> QED
  BY <1>4, <1>5, <1>6

\* The anchor of a probe is the record it asks for.
LEMMA ProbeScores ==
  ASSUME NEW records, Probable(records), NEW t \in records, NEW r \in records
  PROVE  /\ r = t => ProbeHit(r, t).score = 58
         /\ r # t /\ r.kind = t.kind => ProbeHit(r, t).score = 42
         /\ ProbeHit(r, t).record = r /\ ProbeHit(r, t).n \in Nat
<1> DEFINE score == W!ScoreForProbeHit(r, t)
<1>1. /\ r = t => score = 58
      /\ r # t /\ r.kind = t.kind => score = 42
  BY DEF W!ScoreForProbeHit
<1> HIDE DEF score
<1>2. ProbeHit(r, t) = [record |-> r, score |-> score, n |-> W!RecordIndex(r)]
  BY DEF ProbeHit, score
<1> QED
  BY <1>1, <1>2 DEF Probable

LEMMA AnchorIsTarget ==
  ASSUME NEW records, Probable(records), NEW t \in records, t.kind # NoKind
  PROVE  W!V!Anchors(ProbeHits(records, t), t.kind) = {ProbeHit(t, t)}
<1> DEFINE given == ProbeHits(records, t)
           primary == {h \in given : h.record.kind \in W!V!PrimaryKinds(t.kind) /\ h.score >= W!V!MinPrimaryScore}
           own == ProbeHit(t, t)
<1>1. W!V!PrimaryKinds(t.kind) = {t.kind} /\ W!V!MinPrimaryScore = 35
  <2>1. W!V!PrimaryKinds(t.kind) = {t.kind}
    BY Zenon DEF W!V!PrimaryKinds, NoKind
  <2> QED
    BY <2>1 DEF W!V!MinPrimaryScore
<1>2. own \in primary /\ own.score = 58
  BY <1>1, ProbeScores DEF ProbeHits
<1>3. ASSUME NEW h \in primary, h # own PROVE h.score = 42
  <2>1. PICK r \in records : h = ProbeHit(r, t)
    BY DEF ProbeHits
  <2>2. r # t /\ h.record = r /\ r.kind = t.kind
    BY <1>1, <1>3, <2>1, ProbeScores
  <2> QED
    BY <2>1, <2>2, ProbeScores
<1> HIDE DEF primary, own
<1>4. \A h \in primary : h = own \/ W!V!InputBefore(own, h)
  BY <1>2, <1>3 DEF W!V!InputBefore
<1>5. \A h \in primary : h # own => ~W!V!InputBefore(h, own)
  BY <1>2, <1>3 DEF W!V!InputBefore
<1>6. W!V!Anchors(given, t.kind) = {h \in primary : \A g \in primary : g = h \/ W!V!InputBefore(h, g)}
  BY DEF W!V!Anchors, primary
<1> QED
  BY <1>2, <1>4, <1>5, <1>6 DEF own

\* A record of the asked kind is on the first shelf; any other is behind, or filtered out.
LEMMA ProbeShelves ==
  ASSUME NEW records, Probable(records), NEW t \in records, t.kind # NoKind, NEW r \in records,
         NEW anchors, anchors = {ProbeHit(t, t)}
  PROVE  ShelfOf(ProbeHit(r, t), t, anchors) \in IF r.kind = t.kind THEN {0} ELSE {1, 3}
<1> DEFINE h == ProbeHit(r, t)
           same == SharesSource(h, anchors)
           locked == t.kind # NoKind /\ anchors # {}
           support == W!V!SupportKindsForIntent(t.kind)
<1>1. h.record = r /\ locked
  BY ProbeScores
<1>2. W!V!PrimaryKinds(t.kind) = {t.kind}
  BY Zenon DEF W!V!PrimaryKinds, NoKind
<1>3. ShelfOf(h, t, anchors) = W!V!Bucket(h.record, t.kind, locked, same)
  BY Zenon DEF ShelfOf
<1>4. W!V!Bucket(r, t.kind, locked, same)
        = IF r.kind \in {t.kind} THEN 0
          ELSE IF r.kind \in support /\ same THEN 1
          ELSE IF locked THEN 3 ELSE 2
  BY <1>2, Zenon DEF W!V!Bucket
<1> HIDE DEF same, support, locked, h
<1>5. CASE r.kind = t.kind
  BY <1>1, <1>3, <1>4, <1>5 DEF h
<1>6. CASE r.kind # t.kind
  BY <1>1, <1>3, <1>4, <1>6 DEF h
<1> QED
  BY <1>5, <1>6

LEMMA TargetBefore ==
  ASSUME NEW records, Probable(records), NEW t \in records, t.kind # NoKind, NEW r \in records, r # t,
         NEW anchors, anchors = {ProbeHit(t, t)}
  PROVE  LET own == ScoredHit(ProbeHit(t, t), t, anchors)
             other == ScoredHit(ProbeHit(r, t), t, anchors)
         IN  W!V!RankedBefore(own, other) /\ ~W!V!RankedBefore(other, own) /\ other.record = r
<1> DEFINE a == ProbeHit(t, t)
           h == ProbeHit(r, t)
           shelf == ShelfOf(h, t, anchors)
           same == SharesSource(h, anchors)
           mine == SharesSource(a, anchors)
           own == ScoredHit(a, t, anchors)
           other == ScoredHit(h, t, anchors)
           high == W!V!FinalScore(Asked(t), t, 58, t.kind, 0, mine)
           low == W!V!FinalScore(Asked(t), r, h.score, t.kind, shelf, same)
           last == W!V!FinalScore(Asked(t), r, 42, t.kind, 0, same)
<1>1. a.record = t /\ a.score = 58 /\ h.record = r
  BY ProbeScores
<1>2. ShelfOf(a, t, anchors) = 0 /\ shelf \in IF r.kind = t.kind THEN {0} ELSE {1, 3}
  <2>1. ShelfOf(a, t, anchors) \in {0}
    BY ProbeShelves
  <2>2. shelf \in IF r.kind = t.kind THEN {0} ELSE {1, 3}
    BY ProbeShelves
  <2> QED
    BY <2>1, <2>2
<1>3. mine /\ mine \in BOOLEAN /\ same \in BOOLEAN
  BY <1>1 DEF SharesSource, W!V!HasSharedSource
<1> HIDE DEF shelf, same, mine
<1>4. own = [record |-> t, score |-> 58, n |-> a.n, bucket |-> 0, final |-> high]
  BY <1>1, <1>2, Zenon DEF ScoredHit, mine
<1>5. other = [record |-> r, score |-> h.score, n |-> h.n, bucket |-> shelf, final |-> low]
  BY <1>1, Zenon DEF ScoredHit, shelf, same
<1>6. CASE r.kind = t.kind
  <2>1. shelf = 0 /\ h.score = 42
    BY <1>2, <1>6, ProbeScores
  <2>2. low = last
    BY <2>1
  <2>3. Asked(t).terms = W!SurfaceTerms(t.kind) /\ t.kind \in PlannedKinds /\ t.authority = r.authority
    BY <1>6 DEF Asked, Probable
  <2>4. high \in Int /\ last \in Int /\ high > last
    BY <1>3, <1>6, <2>3, FinalOfKind
  <2> HIDE DEF high, low, last, own, other, a, h
  <2> QED
    BY <1>4, <1>5, <2>1, <2>2, <2>4 DEF W!V!RankedBefore, own, other, a, h
<1>7. CASE r.kind # t.kind
  <2>1. shelf \in {1, 3}
    BY <1>2, <1>7
  <2> HIDE DEF high, low, own, other, a, h
  <2> QED
    BY <1>4, <1>5, <2>1 DEF W!V!RankedBefore, own, other, a, h
<1> QED
  BY <1>6, <1>7

LEMMA TargetNotBefore ==
  ASSUME NEW records, Probable(records), NEW t \in records, t.kind # NoKind,
         NEW anchors, anchors = {ProbeHit(t, t)}
  PROVE  LET own == ScoredHit(ProbeHit(t, t), t, anchors) IN ~W!V!RankedBefore(own, own)
<1> DEFINE a == ProbeHit(t, t)
           mine == SharesSource(a, anchors)
           own == ScoredHit(a, t, anchors)
           high == W!V!FinalScore(Asked(t), t, 58, t.kind, 0, mine)
<1>1. a.record = t /\ a.score = 58 /\ a.n \in Nat
  BY ProbeScores
<1>2. ShelfOf(a, t, anchors) = 0
  BY ProbeShelves
<1>3. mine /\ mine \in BOOLEAN
  BY <1>1 DEF SharesSource, W!V!HasSharedSource
<1> HIDE DEF mine
<1>4. own = [record |-> t, score |-> 58, n |-> a.n, bucket |-> 0, final |-> high]
  BY <1>1, <1>2, Zenon DEF ScoredHit, mine
<1>5. Asked(t).terms = W!SurfaceTerms(t.kind) /\ t.kind \in PlannedKinds
  BY DEF Asked, Probable
<1>6. high \in Int
  BY <1>3, <1>5, FinalOfKind
<1> HIDE DEF high, own, a
<1> QED
  BY <1>1, <1>4, <1>6 DEF W!V!RankedBefore, W!V!InputBefore, own, a

\* The probe finds the record it asks for.
LEMMA ProbeFound ==
  ASSUME NEW records, Probable(records)
  PROVE  LET probe == W!BuildRetrievalProbe(records) IN probe.top = probe.target
<1> DEFINE t == TargetOf(records)
           given == ProbeHits(records, t)
           anchors == {ProbeHit(t, t)}
           own == ScoredHit(ProbeHit(t, t), t, anchors)
           kept == StayingHits(given, t, anchors)
           Rank(s) == 1 + Cardinality(Before(s, kept))
           ranked == {[record |-> s.record, bucket |-> s.bucket, rank |-> Rank(s)] : s \in {u \in kept : Rank(u) <= 5}}
           top == {x.record : x \in {y \in ranked : y.rank = 1}}
           probe == W!BuildRetrievalProbe(records)
<1>1. t \in records /\ records # {}
  BY TargetIsRecord DEF Probable
<1>2. t.kind # NoKind
  <2>1. t.kind \in PlannedKinds
    BY <1>1 DEF Probable
  <2> QED
    BY <2>1, Zenon DEF PlannedKinds, NoKind
<1>3. W!V!Anchors(given, t.kind) = anchors
  BY <1>1, <1>2, AnchorIsTarget
<1>4. W!V!RankVectorMemoryHits(Asked(t), given).hits = ranked
  BY <1>2, <1>3, RankingParts
<1>5. probe = [ok |-> \E r \in top : r.id = t.id /\ r.kind = t.kind, target |-> {t}, top |-> top]
  <2>1. probe = LET found1 == {x.record : x \in {y \in W!V!RankVectorMemoryHits(Asked(t), given).hits : y.rank = 1}}
                IN  [ok |-> \E r \in found1 : r.id = t.id /\ r.kind = t.kind, target |-> {t}, top |-> found1]
    BY <1>1, Zenon DEF W!BuildRetrievalProbe, Asked, ProbeHits, ProbeHit, TargetOf
  <2> QED
    BY <1>4, <2>1, Zenon
<1>6. own \in kept /\ own.record = t
  <2>1. ProbeHit(t, t) \in given
    BY <1>1 DEF ProbeHits
  <2>2. ShelfOf(ProbeHit(t, t), t, anchors) = 0
    BY <1>1, <1>2, ProbeShelves
  <2>3. own.bucket = 0
    BY <2>2, Zenon DEF ScoredHit
  <2>4. own.record = t
    BY <1>1, ProbeScores DEF ScoredHit
  <2> QED
    BY <2>1, <2>3, <2>4 DEF StayingHits
<1>7. ASSUME NEW s \in kept PROVE \/ s = own
                                 \/ /\ s.record # t /\ W!V!RankedBefore(own, s)
                                    /\ ~W!V!RankedBefore(s, own)
  <2>1. PICK r \in records : s = ScoredHit(ProbeHit(r, t), t, anchors)
    BY DEF StayingHits, ProbeHits
  <2> QED
    BY <1>1, <1>2, <2>1, TargetBefore
<1>8. IsFiniteSet(kept)
  <2> DEFINE f == [r \in records |-> ScoredHit(ProbeHit(r, t), t, anchors)]
  <2>1. f = [r \in records |-> f[r]]
    OBVIOUS
  <2>2. kept \in SUBSET {f[r] : r \in records}
    BY DEF StayingHits, ProbeHits
  <2> HIDE DEF f
  <2>3. IsFiniteSet({f[r] : r \in records})
    BY <2>1, FiniteImage DEF Probable
  <2> QED
    BY <2>2, <2>3, FS_Subset
<1> HIDE DEF kept, own, anchors, given, t
<1>9. ~W!V!RankedBefore(own, own)
  BY <1>1, <1>2, TargetNotBefore DEF own, anchors
<1>10. Rank(own) = 1
  <2>1. Before(own, kept) = {}
    BY <1>7, <1>9 DEF Before
  <2> QED
    BY <2>1, FS_EmptySet
<1>11. ASSUME NEW s \in kept, s # own PROVE Rank(s) # 1
  <2>1. own \in Before(s, kept) /\ Before(s, kept) \in SUBSET kept
    BY <1>6, <1>7, <1>11 DEF Before
  <2>2. IsFiniteSet(Before(s, kept))
    BY <1>8, <2>1, FS_Subset
  <2>3. Cardinality(Before(s, kept)) # 0 /\ Cardinality(Before(s, kept)) \in Nat
    BY <2>1, <2>2, FS_EmptySet, FS_CardinalityType
  <2> QED
    BY <2>3
<1>12. \A x : x \in ranked /\ x.rank = 1 <=> x = [record |-> t, bucket |-> own.bucket, rank |-> 1]
  <2> HIDE DEF Rank
  <2>1. Rank(own) <= 5
    BY <1>10
  <2> QED
    BY <1>6, <1>10, <1>11, <2>1
<1> HIDE DEF ranked
<1>13. top = {t}
  <2> DEFINE x == [record |-> t, bucket |-> own.bucket, rank |-> 1]
  <2>1. x.record = t
    OBVIOUS
  <2> HIDE DEF x
  <2>2. {y \in ranked : y.rank = 1} = {x}
    BY <1>12 DEF x
  <2> QED
    BY <2>1, <2>2
<1> HIDE DEF top, probe
<1>14. probe.top = top /\ probe.target = {t}
  <2> DEFINE ok == \E r \in top : r.id = t.id /\ r.kind = t.kind
  <2>1. probe = [ok |-> ok, target |-> {t}, top |-> top]
    BY <1>5
  <2> HIDE DEF ok
  <2> QED
    BY <2>1
<1> QED
  BY <1>13, <1>14 DEF probe

-----------------------------------------------------------------------------
(* The verdict.                                                            *)

LEMMA SmokeStatus == \A calibration, smoke :
  W!ComponentStatus(calibration, smoke).current_line_smoke = smoke.ok
BY Zenon DEF W!ComponentStatus

LEMMA RouteStatus == \A calibration, smoke :
  W!ComponentStatus(calibration, smoke).route_decision = W!RoutesCovered(calibration.summary.routes)
BY Zenon DEF W!ComponentStatus

LEMMA StatusNames == \A calibration, smoke :
  {"current_line_smoke", "route_decision"} \subseteq DOMAIN W!ComponentStatus(calibration, smoke)
BY DEF W!ComponentStatus

\* What is blocking: a check of the calibration that failed, and a component whose status is not good.
LEMMA Blocking ==
  ASSUME NEW calibration, NEW smoke, NEW components, W!BlockingFailures(calibration, smoke, components) = {}
  PROVE  (\A x \in calibration.checks : x.ok) /\ (\A x \in DOMAIN components : components[x])
<1>1. ASSUME NEW x \in calibration.checks, ~x.ok PROVE FALSE
  <2>1. [source |-> "current-line-calibration", name |-> x.name]
          \in W!FailedChecks("current-line-calibration", calibration.checks)
    BY <1>1, Zenon DEF W!FailedChecks
  <2> QED
    BY <2>1, Zenon DEF W!BlockingFailures
<1>2. ASSUME NEW x \in DOMAIN components, ~components[x] PROVE FALSE
  BY <1>2, Zenon DEF W!BlockingFailures
<1> QED
  BY <1>1, <1>2

\* A verdict that is not good has a failure to name.
LEMMA FailureNamed ==
  ASSUME NEW input, ~Verdict(input).ok
  PROVE  Verdict(input).failures # {}
<1> DEFINE components == StatusOf(input)
<1> SUFFICES ASSUME Verdict(input).failures = {} PROVE FALSE
  OBVIOUS
<1>1. W!BlockingFailures(Calibrated(input), Smoked(input), components) = {}
  BY VerdictParts
<1>2. (\A x \in Calibrated(input).checks : x.ok) /\ (\A x \in DOMAIN components : components[x])
  BY <1>1, Blocking
<1>3. Calibrated(input).ok
  BY <1>2, CalibrationParts
<1>4. Smoked(input).ok
  BY <1>2, SmokeStatus, StatusNames DEF StatusOf
<1> QED
  BY <1>3, <1>4, VerdictParts

\* What the release gives a run to find.
Findable(input) ==
  /\ ReportsOfModules(input.smoke)
  /\ IsFiniteSet(input.samples)
  /\ \A x \in input.samples : CountedSample(x)

LEMMA SamplesShape ==
  ASSUME NEW input, Findable(input)
  PROVE  /\ IsFiniteSet(SamplesOf(input))
         /\ \A x \in SamplesOf(input) : \E s \in input.samples :
              x = W!CalibrateSampleSet(s) /\ x.routes = s.routes
         /\ \A x \in SamplesOf(input) : \A route : W!Count(x.routes, route) \in Nat
<1> DEFINE f == [s \in input.samples |-> W!CalibrateSampleSet(s)]
<1>1. IsFiniteSet(SamplesOf(input))
  <2>1. f = [s \in input.samples |-> f[s]]
    OBVIOUS
  <2>2. SamplesOf(input) = {f[s] : s \in input.samples}
    BY DEF SamplesOf
  <2> HIDE DEF f
  <2> QED
    BY <2>1, <2>2, FiniteImage DEF Findable
<1>2. ASSUME NEW x \in SamplesOf(input)
      PROVE  \E s \in input.samples : x = W!CalibrateSampleSet(s) /\ x.routes = s.routes
  BY SampleParts DEF SamplesOf
<1>3. ASSUME NEW x \in SamplesOf(input), NEW route PROVE W!Count(x.routes, route) \in Nat
  <2>1. PICK s \in input.samples : x.routes = s.routes
    BY <1>2
  <2> QED
    BY <2>1 DEF Findable, CountedSample, W!Count
<1> QED
  BY <1>1, <1>2, <1>3

\* A verdict that is good was earned.
LEMMA PassEarned ==
  ASSUME NEW input, Findable(input), Verdict(input).ok
  PROVE  /\ \A route \in {"memory", "skill", "case", "policy", "damping"} :
              \E x \in input.samples : W!Count(x.routes, route) > 0
         /\ \A x \in input.samples :
              /\ W!MissingExpectedRoutes(x.routes, x.expectedRoutes) = {}
              /\ W!JudgeMatches(x.judge, x.expectedJudge)
              /\ x.calls = 0 /\ x.exports = {} /\ x.ticketEffects = {} /\ x.tournamentEffects = {}
              /\ Cardinality(x.orders) = x.tickets.count
         /\ input.replay.effects = {} /\ input.replay.missed = 0
         /\ \A x \in DOMAIN input.smoke :
              /\ input.smoke[x].ok
              /\ {"zilliz_written", "writes_persistent_memory"} \cap input.smoke[x].effects = {}
<1> DEFINE components == StatusOf(input)
           c == Calibrated(input)
<1>1. Smoked(input).ok /\ W!BlockingFailures(c, Smoked(input), components) = {}
  BY VerdictParts
<1>2. (\A x \in c.checks : x.ok) /\ (\A x \in DOMAIN components : components[x])
  BY <1>1, Blocking
<1>3. W!RoutesCovered(c.summary.routes)
  BY <1>2, RouteStatus, StatusNames DEF StatusOf
<1>4. ASSUME NEW route \in {"memory", "skill", "case", "policy", "damping"}
      PROVE  \E x \in input.samples : W!Count(x.routes, route) > 0
  <2>1. c.summary.routes = W!AggregateRouteCounts(SamplesOf(input))
    <3>1. c.summary = W!BuildSummary(SamplesOf(input))
      BY CalibrationParts
    <3>2. W!BuildSummary(SamplesOf(input)).routes = W!AggregateRouteCounts(SamplesOf(input))
      BY Zenon DEF W!BuildSummary
    <3> QED
      BY <3>1, <3>2
  <2>2. W!Count(W!AggregateRouteCounts(SamplesOf(input)), route) > 0
    BY <1>3, <2>1 DEF W!RoutesCovered, W!RequiredRoutes
  <2>3. PICK x \in SamplesOf(input) : W!Count(x.routes, route) > 0
    BY <2>2, SamplesShape, RouteTaken
  <2> QED
    BY <2>3, SamplesShape
<1>5. ASSUME NEW x \in input.samples
      PROVE  /\ W!MissingExpectedRoutes(x.routes, x.expectedRoutes) = {}
             /\ W!JudgeMatches(x.judge, x.expectedJudge)
             /\ x.calls = 0 /\ x.exports = {} /\ x.ticketEffects = {} /\ x.tournamentEffects = {}
             /\ Cardinality(x.orders) = x.tickets.count
  <2>1. W!CalibrateSampleSet(x) \in SamplesOf(input)
    BY DEF SamplesOf
  <2>2. \A y \in W!CalibrateSampleSet(x).checks : y.ok
    BY <1>2, <2>1, CalibrationParts
  <2> QED
    BY <2>2, SampleParts
<1>6. input.replay.effects = {} /\ input.replay.missed = 0
  <2>1. \A y \in W!RunPerceptionShadowReplay(input.replay).checks : y.ok
    BY <1>2, CalibrationParts
  <2> QED
    BY <2>1, ReplayParts
<1>7. ASSUME NEW x \in DOMAIN input.smoke
      PROVE  /\ input.smoke[x].ok
             /\ {"zilliz_written", "writes_persistent_memory"} \cap input.smoke[x].effects = {}
  BY <1>1, SmokedClean DEF Findable
<1> QED
  BY <1>4, <1>5, <1>6, <1>7

\* Every probe of a verdict finds the record it asks for.
LEMMA ProbesFind ==
  ASSUME NEW input, Findable(input), NEW p \in Verdict(input).probes
  PROVE  p.top = p.target
<1>1. PICK x \in SamplesOf(input) : p = x.probe
  <2>1. Verdict(input).probes = {x.probe : x \in Calibrated(input).samples}
    BY VerdictParts
  <2>2. Calibrated(input).samples = SamplesOf(input)
    BY CalibrationParts
  <2> QED
    BY <2>1, <2>2
<1>2. PICK s \in input.samples : x = W!CalibrateSampleSet(s)
  BY SamplesShape
<1>3. p = ProbeOf(s)
  BY <1>1, <1>2, SampleParts
<1>4. Probable(PlanOf(s))
  BY <1>2, PlanIsProbable DEF Findable
<1> QED
  BY <1>3, <1>4, ProbeFound DEF ProbeOf, PlanOf

-----------------------------------------------------------------------------
(* What the one run of this program found.                                 *)

FindingsTyped == s2 \in [{"r1"} -> DOMAIN Findings \cup {"none"}]

LEMMA FindingsStep == ASSUME FindingsTyped, W!LoopNext PROVE FindingsTyped'
BY DEF FindingsTyped, W!LoopNext, W!Begin, W!Open, W!Fill, W!Kill

\* The full loop counts as the library does.
LEMMA OwnCardinality == \A S : W!Cardinality(S) = Cardinality(S)
BY DEF W!Cardinality, W!IsFiniteSet, Cardinality, IsFiniteSet

\* Whatever its inputs, the verdict a run found is earned, a bad one names its failures, and its
\* probes find what they ask for.
LEMMA FindingsEarned == FindingsTyped => W!PassIsEarned /\ W!FailureIsNamed /\ W!ProbeFindsTarget
<1> SUFFICES ASSUME FindingsTyped PROVE W!PassIsEarned /\ W!FailureIsNamed /\ W!ProbeFindsTarget
  OBVIOUS
<1>1. ASSUME NEW r \in {"r1"}, s2[r] # "none"
      PROVE  Findable(Findings[s2[r]]) /\ W!Health[s2[r]] = Verdict(Findings[s2[r]])
  <2>1. s2[r] \in DOMAIN Findings
    BY <1>1 DEF FindingsTyped
  <2> QED
    BY <2>1, FoundAssumption DEF Findable, W!Health, Verdict
<1>2. W!PassIsEarned
  <2> SUFFICES ASSUME NEW r \in {"r1"}, s2[r] # "none", W!Health[s2[r]].ok
               PROVE  LET input == Findings[s2[r]]
                      IN  /\ \A route \in {"memory", "skill", "case", "policy", "damping"} :
                               \E x \in input.samples : W!Count(x.routes, route) > 0
                          /\ \A x \in input.samples :
                               /\ W!MissingExpectedRoutes(x.routes, x.expectedRoutes) = {}
                               /\ W!JudgeMatches(x.judge, x.expectedJudge)
                               /\ x.calls = 0 /\ x.exports = {} /\ x.ticketEffects = {}
                               /\ x.tournamentEffects = {}
                               /\ Cardinality(x.orders) = x.tickets.count
                          /\ input.replay.effects = {} /\ input.replay.missed = 0
                          /\ \A x \in DOMAIN input.smoke :
                               /\ input.smoke[x].ok
                               /\ {"zilliz_written", "writes_persistent_memory"}
                                    \cap input.smoke[x].effects = {}
    BY OwnCardinality DEF W!PassIsEarned
  <2> QED
    BY <1>1, PassEarned
<1>3. W!FailureIsNamed
  BY <1>1, FailureNamed DEF W!FailureIsNamed
<1>4. W!ProbeFindsTarget
  BY <1>1, ProbesFind DEF W!ProbeFindsTarget
<1> QED
  BY <1>2, <1>3, <1>4

-----------------------------------------------------------------------------
(* The theorems on the host of the five programs.                          *)

LEMMA ComponentsStep == ASSUME ComponentsIInv, C!Next PROVE ComponentsIInv'
<1>1. ASSUME NEW smoke \in Smokes, NEW threshold \in Thresholds, C!Review(smoke, threshold)
      PROVE  ComponentsIInv'
  BY <1>1, ReviewStep
<1> QED
  BY <1>1, WaitStep DEF C!Next

\* One invariant for the programs that take turns on s1 to s5.
TurnsIInv ==
  /\ part = "slow" => SlowTyped
  /\ part = "registry" => RegistryTyped
  /\ part = "components" => ComponentsIInv
  /\ part = "reports" => ReportsTrue
  /\ part = "findings" => FindingsTyped

\* Each program on s1 to s5 keeps its own.
LEMMA ReportsInit == part = "reports" /\ HealthInit => ReportsTrue
BY DEF HealthInit, D!Init, ReportsTrue, D!ReducersAgree, D!PassedSmokeIsClean

LEMMA FindingsInit == part = "findings" /\ HealthInit => FindingsTyped
BY DEF HealthInit, W!LoopInit, FindingsTyped

THEOREM TurnsInvariance == HealthSpec => []TurnsIInv
<1>1. HealthInit => TurnsIInv
  BY SlowInit, RegistryInit, ComponentsInit, ReportsInit, FindingsInit DEF TurnsIInv
<1>2. TurnsIInv /\ [HealthNext]_<<part, vars, loopVars, slots>> => TurnsIInv'
  <2> SUFFICES ASSUME TurnsIInv, [HealthNext]_<<part, vars, loopVars, slots>> PROVE TurnsIInv'
    OBVIOUS
  <2>1. part' = part
    BY DEF HealthNext, Monitoring, Looping, Reviewing, Reporting, Finding, Steering, Registering
  <2>2. ASSUME part = "slow", SlowTyped PROVE SlowTyped'
    <3>1. O!Next \/ UNCHANGED slots
      BY <2>2 DEF HealthNext, Monitoring, Looping, Reviewing, Reporting, Finding, Steering, Registering
    <3>2. UNCHANGED slots => SlowTyped'
      BY <2>2 DEF slots, SlowTyped
    <3> QED
      BY <2>2, <3>1, <3>2, SlowStep
  <2>3. ASSUME part = "registry", RegistryTyped PROVE RegistryTyped'
    <3>1. R!Next \/ UNCHANGED slots
      BY <2>3 DEF HealthNext, Monitoring, Looping, Reviewing, Reporting, Finding, Steering, Registering
    <3>2. UNCHANGED slots => RegistryTyped'
      BY <2>3 DEF slots, RegistryTyped
    <3> QED
      BY <2>3, <3>1, <3>2, RegistryStep
  <2>4. ASSUME part = "components", ComponentsIInv PROVE ComponentsIInv'
    <3>1. C!Next \/ UNCHANGED slots
      BY <2>4 DEF HealthNext, Monitoring, Looping, Reviewing, Reporting, Finding, Steering, Registering
    <3>2. UNCHANGED slots => ComponentsIInv'
      BY <2>4 DEF slots, ComponentsIInv, ComponentsTyped, CountsKept, ReviewKept,
                  C!EscalationIsEarned, C!CooldownHolds, C!NoFailureIsSilent
    <3> QED
      BY <2>4, <3>1, <3>2, ComponentsStep
  <2>5. ASSUME part = "reports", ReportsTrue PROVE ReportsTrue'
    <3>1. D!Next \/ UNCHANGED slots
      BY <2>5 DEF HealthNext, Monitoring, Looping, Reviewing, Reporting, Finding, Steering, Registering
    <3> QED
      BY <2>5, <3>1, ReportsStep
  <2>6. ASSUME part = "findings", FindingsTyped PROVE FindingsTyped'
    <3>1. W!LoopNext \/ UNCHANGED slots
      BY <2>6 DEF HealthNext, Monitoring, Looping, Reviewing, Reporting, Finding, Steering, Registering
    <3>2. UNCHANGED slots => FindingsTyped'
      BY <2>6 DEF slots, FindingsTyped
    <3> QED
      BY <2>6, <3>1, <3>2, FindingsStep
  <2> QED
    BY <2>1, <2>2, <2>3, <2>4, <2>5, <2>6 DEF TurnsIInv
<1> QED
  BY <1>1, <1>2, PTL DEF HealthSpec

LEMMA ComponentsTypeOK == ComponentsIInv => C!TypeOK
<1> SUFFICES ASSUME ComponentsIInv PROVE C!TypeOK
  OBVIOUS
<1>1. s1 \in 0..MaxClock /\ s5 \in 0..MaxHealthReviews /\ MaxHealthReviews \in Nat /\ MaxClock \in Nat
  BY DeckAssumption DEF ComponentsIInv, ComponentsTyped
<1>2. ASSUME NEW id \in DOMAIN s2
      PROVE  /\ s2[id].count \in 0..MaxHealthReviews
             /\ s2[id].last \subseteq 0..MaxClock /\ C!Cardinality(s2[id].last) <= 1
  <2>1. id \in CheckNames /\ id \in C!Names /\ C!Previous(s2, id) = s2[id]
    BY <1>2, DeckAssumption DEF ComponentsIInv, ComponentsTyped, CheckNames, C!Names, C!Previous
  <2>2. /\ s2[id].count \in 0..s5 /\ s2[id].last \subseteq s4[id].diagnosed
        /\ \A t, u \in s2[id].last : t = u
    BY <2>1 DEF ComponentsIInv, CountsKept
  <2>3. s4[id].diagnosed \subseteq 0..s1
    BY <2>1 DEF ComponentsIInv, ComponentsTyped
  <2>4. Cardinality(s2[id].last) <= 1
    <3>1. CASE s2[id].last = {}
      BY <3>1, FS_EmptySet
    <3>2. CASE s2[id].last # {}
      <4>1. PICK t \in s2[id].last : TRUE
        BY <3>2
      <4>2. s2[id].last = {t}
        BY <2>2, <4>1
      <4> QED
        BY <4>2, FS_Singleton
    <3> QED
      BY <3>1, <3>2
  <2>5. C!Cardinality(s2[id].last) = Cardinality(s2[id].last)
    BY DEF C!Cardinality, C!IsFiniteSet, Cardinality, IsFiniteSet
  <2> QED
    BY <1>1, <2>2, <2>3, <2>4, <2>5
<1> QED
  BY <1>1, <1>2 DEF C!TypeOK, ComponentsIInv, ReviewKept

\* The slow and the middle loop, the registry's two reviews and the health of
\* the components, each with its past, for all metrics, samples, registries,
\* smokes and setpoints.
THEOREM LoopsDoAgree == HealthSpec => []LoopsAgree
<1>1. TurnsIInv => LoopsAgree
  BY SlowLoopsAgree, OneReading, Computed, ComponentsTypeOK DEF TurnsIInv, LoopsAgree, ComponentsIInv
<1> QED
  BY <1>1, TurnsInvariance, PTL

\* The host implements its two programs with files of their own.
THEOREM HostImplements == HealthSpec => Spec /\ LoopSpec
<1>1. HealthInit => Init /\ LoopInit
  BY DEF HealthInit
<1>2. [HealthNext]_<<part, vars, loopVars, slots>> => [Next]_vars /\ [LoopNext]_loopVars
  BY DEF HealthNext, Monitoring, Looping, Reviewing, Reporting, Finding, Steering, Registering
<1> QED
  BY <1>1, <1>2, PTL DEF HealthSpec, Spec, LoopSpec

\* Only good news about a route withdraws what was held against it, in the
\* monitor and in the slow loop, whatever the evidence and in every order.
THEOREM GoodNewsWithdraws == HealthSpec => OnlyGoodNewsWithdraws
<1> DEFINE Step == /\ part = "monitor" => UNCHANGED <<tickets, replays>> \/ OnlyGoodNewsEndsDivergence
                   /\ part = "slow" => O!OnlyGoodOutcomesWithdraw
           all == <<part, vars, loopVars, slots>>
<1>1. MonitorIInv /\ DeservedIInv /\ TurnsIInv /\ [HealthNext]_all => [Step]_all
  <2> SUFFICES ASSUME MonitorIInv, DeservedIInv, TurnsIInv, HealthNext PROVE Step
    OBVIOUS
  <2>1. [Next]_vars
    BY DEF HealthNext, Monitoring, Looping, Reviewing, Reporting, Finding, Steering, Registering
  <2>2. UNCHANGED <<tickets, replays>> \/ OnlyGoodNewsEndsDivergence
    BY <2>1, GoodNewsOnly
  <2>3. part = "slow" => SlowTyped /\ O!Next
    BY DEF TurnsIInv, HealthNext, Monitoring, Looping, Reviewing, Reporting, Finding, Steering, Registering
  <2> QED
    BY <2>2, <2>3, SlowWithdraws
<1>2. HealthSpec => Spec
  BY HostImplements
<1> QED
  BY <1>1, <1>2, DeservedInvariance, TurnsInvariance, PTL DEF HealthSpec, OnlyGoodNewsWithdraws

\* What a health report says was earned: the safe mode of the monitor's status by the evidence its
\* run read, the verdict of a reducer by what its module reported, a smoke that passes by a run in
\* which no effect was seen, and the verdict of a full loop by its sample sets, its replay and its
\* smoke, whatever they were and in every order.
THEOREM HealthEarned == HealthSpec => []HealthIsEarned
<1>1. TurnsIInv => /\ part = "reports" => D!ReducersAgree /\ D!PassedSmokeIsClean
                   /\ part = "findings" => W!PassIsEarned /\ W!FailureIsNamed /\ W!ProbeFindsTarget
  BY FindingsEarned DEF TurnsIInv, ReportsTrue
<1>2. /\ TypeOK /\ StatusIsDeserved /\ LoopTypeOK
      /\ part = "reports" => D!ReducersAgree /\ D!PassedSmokeIsClean
      /\ part = "findings" => W!PassIsEarned /\ W!FailureIsNamed /\ W!ProbeFindsTarget
      => HealthIsEarned
  BY DEF HealthIsEarned
<1> QED
  BY <1>1, <1>2, HostImplements, MonitorTypeCorrect, StatusDeserved, LoopTypeCorrect, TurnsInvariance, PTL
=============================================================================
