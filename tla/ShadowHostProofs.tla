---------------------------- MODULE ShadowHostProofs ----------------------------
(***************************************************************************)
(* Proofs about the programs that keep a shadow host: ShadowUpdate, for    *)
(* any flags, broken commits and bounds; InboxWriters, for any reviews,    *)
(* classes, threshold, capacity and processes; ShadowDeploy, for any       *)
(* records, any sets of parts that fail and any bounds; and the umbrella   *)
(* invariant of MCShadowHost.                                              *)
(***************************************************************************)
EXTENDS MCShadowHost, TLAPS, FiniteSetTheorems

-----------------------------------------------------------------------------
(* The deploy.  What latest.json says was earned, the files it points to   *)
(* are there, and attaching the event log loses no event.                  *)
(*                                                                         *)
(* A deploy is a sequence of parts, so the inductive invariant says, for   *)
(* each place in the sequence, what the parts before it have left: which   *)
(* faults show in "failed" (Caught), which replays were counted (Counted)  *)
(* and which reports are of this run (Reported).                           *)

Records == BootRecords \cup HandRecords

\* The places of a run, from some place on.
Finishing == {"finish"}
Reviewing == {"review"} \cup Finishing
Distilling == {"window"} \cup Reviewing
Ordering == {"orders"} \cup Distilling
Adapting == {"adapter"} \cup Ordering
Attached == {"plugin doctor"} \cup Adapting
Installed == {"stat", "create"} \cup Attached
Quickstarted == {"install"} \cup Installed
Bootstrapped == {"proof"} \cup Quickstarted
Upserted == {"bootstrap"} \cup Bootstrapped
Examined == {"upsert"} \cup Upserted
Places == {"off", "doctor"} \cup Examined

Checks == {"clone doctor", "store initialized", "bootstrap", "value proof", "quickstart",
           "plugin installed", "plugin doctor", "window"}
Deploys ==
  [pc : Places, run : 0..MaxRuns, faults : SUBSET Parts, failed : SUBSET Checks,
   held : SUBSET Records, absent : BOOLEAN, counts : [doctor : Nat, adapter : Nat, orders : Nat]]

Typed ==
  /\ log \in [state : {"absent", "whole", "torn"}, events : 0..MaxEvents]
  /\ log.state = "absent" => log.events = 0
  /\ store \subseteq stored /\ stored \subseteq Records
  /\ deploy \in Deploys /\ deploy.held \subseteq stored
  /\ deploy.pc \in Attached => log.state # "absent"
  /\ reports \in [Files -> 0..deploy.run]
  /\ hand \in [holds : BOOLEAN, held : SUBSET Records, count : Nat] /\ hand.held \subseteq stored

\* What fails is among the failures from the moment its part has run; a summary
\* that cannot be read ends the run.
Caught ==
  /\ deploy.pc \in Examined /\ "doctor" \in deploy.faults => deploy.failed # {}
  /\ deploy.pc \in Upserted /\ "template" \in deploy.faults => deploy.failed # {}
  /\ deploy.pc \in Bootstrapped /\ "health" \in deploy.faults => deploy.failed # {}
  /\ deploy.pc \in Quickstarted /\ "proof" \in deploy.faults => deploy.failed # {}
  /\ deploy.pc \in Installed /\ "plugin" \in deploy.faults => deploy.failed # {}
  /\ deploy.pc \in Reviewing /\ "window" \in deploy.faults => deploy.failed # {}
  /\ deploy.pc \in Finishing => "summary" \notin deploy.faults

\* The replays followed one another on the log.
Counted ==
  /\ deploy.pc \in Adapting => deploy.counts.doctor <= log.events
  /\ deploy.pc \in Ordering => /\ deploy.counts.doctor <= deploy.counts.adapter
                               /\ deploy.counts.adapter <= log.events
  /\ deploy.pc \in Distilling => /\ deploy.counts.adapter <= deploy.counts.orders
                                 /\ deploy.counts.orders <= log.events

Reported ==
  /\ deploy.pc \in Bootstrapped => reports["bootstrap"] = deploy.run
  /\ deploy.pc \in Quickstarted => reports["quickstart"] = deploy.run
  /\ deploy.pc \in Installed => reports["install"] = deploy.run
  /\ deploy.pc \in Adapting => reports["doctor"] = deploy.run
  /\ deploy.pc \in Reviewing => reports["window"] = deploy.run
  /\ deploy.pc \in Finishing => reports["review"] = deploy.run

\* latest.json is of a run that has ended.
LatestEnded ==
  \A l \in latest : /\ l.run \in 0..deploy.run /\ (l.run = deploy.run => deploy.pc = "off")
                     /\ l.counts \in [doctor : Nat, adapter : Nat, orders : Nat]

IInv ==
  /\ Typed /\ Caught /\ Counted /\ Reported
  /\ LatestEnded /\ LatestIsBacked /\ PassIsEarned

USE ShadowDeployAssumption

-----------------------------------------------------------------------------
(* What each part does to the run.                                         *)

\* The run goes on at pc, with these failures.
Moves(pc, failed) ==
  /\ deploy' \in Deploys /\ deploy'.pc = pc /\ deploy'.failed = failed
  /\ deploy'.run = deploy.run /\ deploy'.faults = deploy.faults

SameCounts == deploy'.counts = deploy.counts
SameMemory == deploy'.held = deploy.held

LEMMA OffFacts ==
  ASSUME NEW run \in 0..MaxRuns
  PROVE  Off(run) \in Deploys /\ Off(run).pc = "off" /\ Off(run).run = run /\ Off(run).held = {}
BY DEF Off, Deploys, Places

LEMMA StartMoves ==
  ASSUME deploy \in Deploys, Start
  PROVE  /\ deploy' \in Deploys /\ deploy'.pc = "doctor" /\ deploy'.run = deploy.run + 1
         /\ deploy'.held = {}
<1>1. PICK faults \in Faults :
        deploy' = [Off(deploy.run + 1) EXCEPT !.pc = "doctor", !.faults = faults]
  BY Zenon DEF Start
<1>2. deploy.run + 1 \in 0..MaxRuns
  BY DEF Start, Deploys
<1>3. Off(deploy.run + 1) \in Deploys
  BY <1>2, OffFacts
<1>4. Off(deploy.run + 1).run = deploy.run + 1 /\ Off(deploy.run + 1).held = {}
  BY <1>2, OffFacts
<1>5. "doctor" \in Places /\ faults \in SUBSET Parts
  BY DEF Places
<1> QED
  BY <1>1, <1>3, <1>4, <1>5 DEF Deploys

LEMMA PlacesFacts ==
  /\ {"upsert", "bootstrap", "proof", "install", "stat", "create", "plugin doctor"} \subseteq Places
  /\ {"adapter", "orders", "window", "review", "finish"} \subseteq Places
BY DEF Places, Examined, Upserted, Bootstrapped, Quickstarted, Installed, Attached, Adapting,
       Ordering, Distilling, Reviewing, Finishing

LEMMA PcMoves ==
  ASSUME deploy \in Deploys, NEW pc \in Places, NEW failed \in SUBSET Checks,
         deploy' = [deploy EXCEPT !.pc = pc, !.failed = failed]
  PROVE  Moves(pc, failed) /\ SameCounts /\ SameMemory
BY DEF Deploys, Moves, SameCounts, SameMemory

LEMMA PlainMoves ==
  ASSUME deploy \in Deploys, NEW pc \in Places, deploy' = [deploy EXCEPT !.pc = pc]
  PROVE  Moves(pc, deploy.failed) /\ SameCounts /\ SameMemory
BY DEF Deploys, Moves, SameCounts, SameMemory

\* What is among the failures stays there.
LEMMA FailedFacts ==
  ASSUME deploy \in Deploys, NEW check \in Checks, NEW condition \in BOOLEAN
  PROVE  /\ FailedIf(check, condition) \in SUBSET Checks
         /\ deploy.failed \subseteq FailedIf(check, condition)
         /\ condition => FailedIf(check, condition) # {}
BY DEF Deploys, FailedIf

LEMMA DoctorMoves ==
  ASSUME Typed, RunPublicRepoDoctor
  PROVE  /\ Moves("upsert", FailedIf("clone doctor", Fails("doctor")))
         /\ SameCounts /\ deploy'.held = store
<1>1. deploy' = [deploy EXCEPT !.pc = "upsert", !.held = store,
                               !.failed = FailedIf("clone doctor", Fails("doctor"))]
  BY DEF RunPublicRepoDoctor
<1>2. FailedIf("clone doctor", Fails("doctor")) \in SUBSET Checks
  <2>1. Fails("doctor") \in BOOLEAN /\ "clone doctor" \in Checks /\ deploy \in Deploys
    BY DEF Fails, Checks, Typed
  <2> QED
    BY <2>1, FailedFacts
<1>3. "upsert" \in Places /\ store \in SUBSET Records
  BY PlacesFacts DEF Typed
<1> QED
  BY <1>1, <1>2, <1>3 DEF Typed, Deploys, Moves, SameCounts

LEMMA StatMoves ==
  ASSUME Typed, StatEventLog
  PROVE  Moves("create", deploy.failed) /\ SameCounts /\ SameMemory
<1>1. deploy' = [deploy EXCEPT !.pc = "create", !.absent = log.state = "absent"]
  BY DEF StatEventLog
<1> QED
  BY <1>1, PlacesFacts DEF Typed, Deploys, Moves, SameCounts, SameMemory

LEMMA PluginDoctorMoves ==
  ASSUME Typed, RunPluginDoctor
  PROVE  /\ Moves("adapter", FailedIf("plugin doctor", DoctorFails)) /\ SameMemory
         /\ deploy'.counts.doctor = log.events
<1>1. deploy' = [deploy EXCEPT !.pc = "adapter", !.counts.doctor = log.events,
                               !.failed = FailedIf("plugin doctor", DoctorFails)]
  BY DEF RunPluginDoctor
<1>2. FailedIf("plugin doctor", DoctorFails) \in SUBSET Checks
  BY FailedFacts DEF Typed, Checks, DoctorFails, Fails
<1>3. log.events \in Nat
  BY DEF Typed
<1>4. [deploy.counts EXCEPT !.doctor = log.events] \in [doctor : Nat, adapter : Nat, orders : Nat]
  BY <1>3 DEF Typed, Deploys
<1> QED
  BY <1>1, <1>2, <1>3, <1>4, PlacesFacts DEF Typed, Deploys, Moves, SameMemory

LEMMA AdapterMoves ==
  ASSUME Typed, deploy' = [deploy EXCEPT !.pc = "orders", !.counts.adapter = log.events]
  PROVE  /\ Moves("orders", deploy.failed) /\ SameMemory
         /\ deploy'.counts.adapter = log.events /\ deploy'.counts.doctor = deploy.counts.doctor
<1>1. log.events \in Nat
  BY DEF Typed
<1>2. [deploy.counts EXCEPT !.adapter = log.events] \in [doctor : Nat, adapter : Nat, orders : Nat]
  BY <1>1 DEF Typed, Deploys
<1> QED
  BY <1>1, <1>2, PlacesFacts DEF Typed, Deploys, Moves, SameMemory

LEMMA OrdersMoves ==
  ASSUME Typed, deploy' = [deploy EXCEPT !.pc = "window", !.counts.orders = log.events]
  PROVE  /\ Moves("window", deploy.failed) /\ SameMemory
         /\ deploy'.counts.adapter = deploy.counts.adapter
         /\ deploy'.counts.doctor = deploy.counts.doctor /\ deploy'.counts.orders = log.events
<1>1. log.events \in Nat
  BY DEF Typed
<1>2. [deploy.counts EXCEPT !.orders = log.events] \in [doctor : Nat, adapter : Nat, orders : Nat]
  BY <1>1 DEF Typed, Deploys
<1> QED
  BY <1>1, <1>2, PlacesFacts DEF Typed, Deploys, Moves, SameMemory

-----------------------------------------------------------------------------
(* The inductive invariant.                                                *)

LEMMA InitIInv == Init => IInv
<1> SUFFICES ASSUME Init PROVE IInv
  OBVIOUS
<1>1. deploy \in Deploys /\ deploy.pc = "off" /\ deploy.run = 0 /\ deploy.held = {}
  BY OffFacts DEF Init
<1>2. Typed
  <2>1. log \in [state : {"absent", "whole", "torn"}, events : 0..MaxEvents] /\ log.events = 0
    BY DEF Init
  <2>2. reports \in [Files -> 0..deploy.run]
    BY <1>1 DEF Init
  <2>3. hand \in [holds : BOOLEAN, held : SUBSET Records, count : Nat] /\ hand.held \subseteq stored
    BY DEF Init
  <2>4. deploy.pc \notin Attached
    BY <1>1 DEF Attached, Adapting, Ordering, Distilling, Reviewing, Finishing
  <2> QED
    BY <1>1, <2>1, <2>2, <2>3, <2>4 DEF Init, Typed, Records
<1>3. Caught /\ Counted /\ Reported
  BY <1>1 DEF Caught, Counted, Reported, Examined, Upserted, Bootstrapped, Quickstarted, Installed, Attached, Adapting,
              Ordering, Distilling, Reviewing, Finishing
<1>4. LatestEnded /\ LatestIsBacked /\ PassIsEarned
  BY DEF Init, LatestEnded, LatestIsBacked, PassIsEarned
<1> QED
  BY <1>2, <1>3, <1>4 DEF IInv

\* A part that throws, and a run that dies, leave everything but the run alone.
LEMMA StopStep ==
  ASSUME IInv, deploy' = Off(deploy.run), UNCHANGED <<log, store, reports, latest, hand, stored>>
  PROVE  IInv'
<1>1. deploy' \in Deploys /\ deploy'.pc = "off" /\ deploy'.run = deploy.run /\ deploy'.held = {}
  BY OffFacts DEF IInv, Typed, Deploys
<1>2. Typed'
  BY <1>1 DEF IInv, Typed, Examined, Upserted, Bootstrapped, Quickstarted, Installed, Attached, Adapting,
              Ordering, Distilling, Reviewing, Finishing
<1>3. Caught' /\ Counted' /\ Reported'
  BY <1>1 DEF Caught, Counted, Reported, Examined, Upserted, Bootstrapped, Quickstarted, Installed, Attached, Adapting,
              Ordering, Distilling, Reviewing, Finishing
<1>4. LatestEnded' /\ LatestIsBacked' /\ PassIsEarned'
  BY <1>1 DEF IInv, LatestEnded, LatestIsBacked, PassIsEarned
<1> QED
  BY <1>2, <1>3, <1>4 DEF IInv

\* Until a run ends, latest.json is of an earlier one, and new reports only make
\* the files it points to newer.
LEMMA LatestStep ==
  ASSUME IInv, deploy.pc # "off", deploy'.run = deploy.run, latest' = latest,
         log' \in [state : {"absent", "whole", "torn"}, events : 0..MaxEvents],
         log'.events >= log.events,
         reports' = reports \/ \E f \in Files : Report(f)
  PROVE  LatestEnded' /\ LatestIsBacked' /\ PassIsEarned'
<1>1. deploy.run \in Nat /\ reports \in [Files -> Nat] /\ log.events \in Nat
  BY DEF IInv, Typed, Deploys
<1>2. \A l \in latest : l.run \in Nat /\ l.run < deploy.run
  BY <1>1 DEF IInv, LatestEnded
<1>3. LatestEnded'
  BY <1>1, <1>2 DEF IInv, LatestEnded
<1>4. \A l \in latest, f \in Files : reports'[f] >= l.run
  BY <1>1, <1>2 DEF IInv, LatestIsBacked, Report
<1>5. LatestIsBacked'
  BY <1>2, <1>4 DEF LatestIsBacked
<1>6. ASSUME NEW l \in latest, l.ok PROVE l.counts.orders <= log'.events
  <2>1. l.counts.orders <= log.events /\ l.faults = {}
    BY <1>6 DEF IInv, PassIsEarned
  <2>2. l.counts.orders \in Nat /\ log'.events \in Nat
    BY DEF IInv, LatestEnded
  <2> QED
    BY <1>1, <2>1, <2>2
<1>7. PassIsEarned'
  BY <1>6 DEF IInv, PassIsEarned
<1> QED
  BY <1>3, <1>5, <1>7

LEMMA ReportFacts ==
  ASSUME Typed, NEW f \in Files, Report(f)
  PROVE  /\ reports' \in [Files -> 0..deploy.run] /\ reports'[f] = deploy.run
         /\ \A g \in Files : g # f => reports'[g] = reports[g]
BY DEF Typed, Deploys, Report

LEMMA RunPublicRepoDoctorStep == ASSUME IInv, RunPublicRepoDoctor PROVE IInv'
<1>1. deploy \in Deploys /\ Typed /\ deploy.pc # "off"
  BY DEF IInv, Typed, RunPublicRepoDoctor
<1>2. /\ Moves("upsert", FailedIf("clone doctor", Fails("doctor"))) /\ SameCounts
      /\ deploy'.held = store
      /\ "doctor" \in deploy.faults => FailedIf("clone doctor", Fails("doctor")) # {}
  BY <1>1, DoctorMoves DEF FailedIf, Fails
<1>4. Typed'
  BY <1>1, <1>2 DEF RunPublicRepoDoctor, Moves, SameMemory, Typed, Records,
              Examined, Upserted, Bootstrapped, Quickstarted, Installed, Attached, Adapting,
              Ordering, Distilling, Reviewing, Finishing
<1>5. Caught'
  BY <1>1, <1>2 DEF RunPublicRepoDoctor, IInv, Moves, Caught,
              Examined, Upserted, Bootstrapped, Quickstarted, Installed, Attached, Adapting,
              Ordering, Distilling, Reviewing, Finishing
<1>6. Counted'
  BY <1>1, <1>2 DEF RunPublicRepoDoctor, IInv, Typed, Deploys, Moves, SameCounts, Counted,
              Examined, Upserted, Bootstrapped, Quickstarted, Installed, Attached, Adapting,
              Ordering, Distilling, Reviewing, Finishing
<1>7. Reported'
  BY <1>1, <1>2 DEF RunPublicRepoDoctor, IInv, Typed, Moves, Reported, Files,
              Examined, Upserted, Bootstrapped, Quickstarted, Installed, Attached, Adapting,
              Ordering, Distilling, Reviewing, Finishing
<1>8. LatestEnded' /\ LatestIsBacked' /\ PassIsEarned'
  <2>1. log' = log /\ latest' = latest /\ (reports' = reports \/ \E f \in Files : Report(f))
    BY DEF RunPublicRepoDoctor, Files
  <2>2. log \in [state : {"absent", "whole", "torn"}, events : 0..MaxEvents] /\ log.events >= log.events
    BY <1>1 DEF Typed
  <2> QED
    BY <1>1, <1>2, <2>1, <2>2, LatestStep DEF Moves
<1> QED
  BY <1>4, <1>5, <1>6, <1>7, <1>8 DEF IInv

LEMMA BootstrapUpsertStep == ASSUME IInv, BootstrapUpsert PROVE IInv'
<1>1. deploy \in Deploys /\ Typed /\ deploy.pc # "off"
  BY DEF IInv, Typed, BootstrapUpsert
<1>2. /\ Moves("bootstrap", FailedIf("store initialized", Fails("template"))) /\ SameCounts /\ SameMemory
      /\ deploy.failed \subseteq FailedIf("store initialized", Fails("template"))
      /\ Fails("template") => FailedIf("store initialized", Fails("template")) # {}
  <2>1. Fails("template") \in BOOLEAN /\ "store initialized" \in Checks
    BY DEF Fails, Checks
  <2>2. /\ FailedIf("store initialized", Fails("template")) \in SUBSET Checks
        /\ deploy.failed \subseteq FailedIf("store initialized", Fails("template"))
        /\ Fails("template") => FailedIf("store initialized", Fails("template")) # {}
    BY <1>1, <2>1, FailedFacts
  <2>3. deploy' = [deploy EXCEPT !.pc = "bootstrap", !.failed = FailedIf("store initialized", Fails("template"))]
    BY DEF BootstrapUpsert
  <2> QED
    BY <1>1, <2>2, <2>3, PcMoves, PlacesFacts
<1>4. Typed'
  BY <1>1, <1>2 DEF BootstrapUpsert, Moves, SameMemory, Typed, Records, Fails,
              Examined, Upserted, Bootstrapped, Quickstarted, Installed, Attached, Adapting,
              Ordering, Distilling, Reviewing, Finishing
<1>5. Caught'
  BY <1>1, <1>2 DEF BootstrapUpsert, IInv, Moves, Caught, Fails,
              Examined, Upserted, Bootstrapped, Quickstarted, Installed, Attached, Adapting,
              Ordering, Distilling, Reviewing, Finishing
<1>6. Counted'
  BY <1>1, <1>2 DEF BootstrapUpsert, IInv, Typed, Deploys, Moves, SameCounts, Counted,
              Examined, Upserted, Bootstrapped, Quickstarted, Installed, Attached, Adapting,
              Ordering, Distilling, Reviewing, Finishing
<1>7. Reported'
  BY <1>1, <1>2 DEF BootstrapUpsert, IInv, Typed, Moves, Reported, Files,
              Examined, Upserted, Bootstrapped, Quickstarted, Installed, Attached, Adapting,
              Ordering, Distilling, Reviewing, Finishing
<1>8. LatestEnded' /\ LatestIsBacked' /\ PassIsEarned'
  <2>1. log' = log /\ latest' = latest /\ (reports' = reports \/ \E f \in Files : Report(f))
    BY DEF BootstrapUpsert, Files
  <2>2. log \in [state : {"absent", "whole", "torn"}, events : 0..MaxEvents] /\ log.events >= log.events
    BY <1>1 DEF Typed
  <2> QED
    BY <1>1, <1>2, <2>1, <2>2, LatestStep DEF Moves
<1> QED
  BY <1>4, <1>5, <1>6, <1>7, <1>8 DEF IInv

LEMMA RunLocalBootstrapStep == ASSUME IInv, RunLocalBootstrap PROVE IInv'
<1>1. deploy \in Deploys /\ Typed /\ deploy.pc # "off"
  BY DEF IInv, Typed, RunLocalBootstrap
<1>2. /\ Moves("proof", FailedIf("bootstrap", BootstrapChecks)) /\ SameCounts /\ SameMemory
      /\ deploy.failed \subseteq FailedIf("bootstrap", BootstrapChecks)
      /\ BootstrapChecks => FailedIf("bootstrap", BootstrapChecks) # {}
  <2>1. BootstrapChecks \in BOOLEAN /\ "bootstrap" \in Checks
    BY DEF BootstrapChecks, Fails, Checks
  <2>2. /\ FailedIf("bootstrap", BootstrapChecks) \in SUBSET Checks
        /\ deploy.failed \subseteq FailedIf("bootstrap", BootstrapChecks)
        /\ BootstrapChecks => FailedIf("bootstrap", BootstrapChecks) # {}
    BY <1>1, <2>1, FailedFacts
  <2>3. deploy' = [deploy EXCEPT !.pc = "proof", !.failed = FailedIf("bootstrap", BootstrapChecks)]
    BY DEF RunLocalBootstrap
  <2> QED
    BY <1>1, <2>2, <2>3, PcMoves, PlacesFacts
<1>3. /\ reports' \in [Files -> 0..deploy.run] /\ reports'["bootstrap"] = deploy.run
      /\ \A f \in Files : f # "bootstrap" => reports'[f] = reports[f]
  BY <1>1, ReportFacts DEF RunLocalBootstrap, Typed, Files
<1>4. Typed'
  BY <1>1, <1>2, <1>3 DEF RunLocalBootstrap, Moves, SameMemory, Typed, Records, BootstrapChecks, Fails,
              Examined, Upserted, Bootstrapped, Quickstarted, Installed, Attached, Adapting,
              Ordering, Distilling, Reviewing, Finishing
<1>5. Caught'
  BY <1>1, <1>2 DEF RunLocalBootstrap, IInv, Moves, Caught, BootstrapChecks, Fails,
              Examined, Upserted, Bootstrapped, Quickstarted, Installed, Attached, Adapting,
              Ordering, Distilling, Reviewing, Finishing
<1>6. Counted'
  BY <1>1, <1>2 DEF RunLocalBootstrap, IInv, Typed, Deploys, Moves, SameCounts, Counted,
              Examined, Upserted, Bootstrapped, Quickstarted, Installed, Attached, Adapting,
              Ordering, Distilling, Reviewing, Finishing
<1>7. Reported'
  BY <1>1, <1>2, <1>3 DEF RunLocalBootstrap, IInv, Typed, Moves, Reported, Files,
              Examined, Upserted, Bootstrapped, Quickstarted, Installed, Attached, Adapting,
              Ordering, Distilling, Reviewing, Finishing
<1>8. LatestEnded' /\ LatestIsBacked' /\ PassIsEarned'
  <2>1. log' = log /\ latest' = latest /\ (reports' = reports \/ \E f \in Files : Report(f))
    BY DEF RunLocalBootstrap, Files
  <2>2. log \in [state : {"absent", "whole", "torn"}, events : 0..MaxEvents] /\ log.events >= log.events
    BY <1>1 DEF Typed
  <2> QED
    BY <1>1, <1>2, <2>1, <2>2, LatestStep DEF Moves
<1> QED
  BY <1>4, <1>5, <1>6, <1>7, <1>8 DEF IInv

LEMMA RunLocalSidecarQuickstartStep == ASSUME IInv, RunLocalSidecarQuickstart PROVE IInv'
<1>1. deploy \in Deploys /\ Typed /\ deploy.pc # "off"
  BY DEF IInv, Typed, RunLocalSidecarQuickstart
<1>2. /\ Moves("install", deploy'.failed) /\ SameCounts /\ SameMemory
      /\ deploy.failed # {} \/ Fails("proof") => deploy'.failed # {}
  <2> DEFINE failed == FailedIf("value proof", Fails("proof"))
             result == IF QuickstartFailed(failed) THEN {"quickstart"} ELSE {}
  <2>1. deploy' = [deploy EXCEPT !.pc = "install", !.failed = result]
    BY DEF RunLocalSidecarQuickstart
  <2>2. result \in SUBSET Checks
    BY DEF Checks
  <2>3. deploy.failed # {} \/ Fails("proof") => result # {}
    BY DEF FailedIf, QuickstartFailed
  <2> HIDE DEF result
  <2> QED
    BY <1>1, <2>1, <2>2, <2>3, PcMoves, PlacesFacts DEF Moves
<1>3. /\ reports' \in [Files -> 0..deploy.run] /\ reports'["quickstart"] = deploy.run
      /\ \A f \in Files : f # "quickstart" => reports'[f] = reports[f]
  BY <1>1, ReportFacts DEF RunLocalSidecarQuickstart, Typed, Files
<1>4. Typed'
  BY <1>1, <1>2, <1>3 DEF RunLocalSidecarQuickstart, Moves, SameMemory, Typed, Records, Fails,
              Examined, Upserted, Bootstrapped, Quickstarted, Installed, Attached, Adapting,
              Ordering, Distilling, Reviewing, Finishing
<1>5. Caught'
  BY <1>1, <1>2 DEF RunLocalSidecarQuickstart, IInv, Moves, Caught, Fails,
              Examined, Upserted, Bootstrapped, Quickstarted, Installed, Attached, Adapting,
              Ordering, Distilling, Reviewing, Finishing
<1>6. Counted'
  BY <1>1, <1>2 DEF RunLocalSidecarQuickstart, IInv, Typed, Deploys, Moves, SameCounts, Counted,
              Examined, Upserted, Bootstrapped, Quickstarted, Installed, Attached, Adapting,
              Ordering, Distilling, Reviewing, Finishing
<1>7. Reported'
  BY <1>1, <1>2, <1>3 DEF RunLocalSidecarQuickstart, IInv, Typed, Moves, Reported, Files,
              Examined, Upserted, Bootstrapped, Quickstarted, Installed, Attached, Adapting,
              Ordering, Distilling, Reviewing, Finishing
<1>8. LatestEnded' /\ LatestIsBacked' /\ PassIsEarned'
  <2>1. log' = log /\ latest' = latest /\ (reports' = reports \/ \E f \in Files : Report(f))
    BY DEF RunLocalSidecarQuickstart, Files
  <2>2. log \in [state : {"absent", "whole", "torn"}, events : 0..MaxEvents] /\ log.events >= log.events
    BY <1>1 DEF Typed
  <2> QED
    BY <1>1, <1>2, <2>1, <2>2, LatestStep DEF Moves
<1> QED
  BY <1>4, <1>5, <1>6, <1>7, <1>8 DEF IInv

LEMMA InstallPluginStep == ASSUME IInv, InstallPlugin PROVE IInv'
<1>1. deploy \in Deploys /\ Typed /\ deploy.pc # "off"
  BY DEF IInv, Typed, InstallPlugin
<1>2. /\ Moves("stat", FailedIf("plugin installed", DoctorFails)) /\ SameCounts /\ SameMemory
      /\ deploy.failed \subseteq FailedIf("plugin installed", DoctorFails)
      /\ DoctorFails => FailedIf("plugin installed", DoctorFails) # {}
  <2>1. DoctorFails \in BOOLEAN /\ "plugin installed" \in Checks
    BY DEF DoctorFails, Fails, Checks
  <2>2. /\ FailedIf("plugin installed", DoctorFails) \in SUBSET Checks
        /\ deploy.failed \subseteq FailedIf("plugin installed", DoctorFails)
        /\ DoctorFails => FailedIf("plugin installed", DoctorFails) # {}
    BY <1>1, <2>1, FailedFacts
  <2>3. deploy' = [deploy EXCEPT !.pc = "stat", !.failed = FailedIf("plugin installed", DoctorFails)]
    BY DEF InstallPlugin
  <2> QED
    BY <1>1, <2>2, <2>3, PcMoves, PlacesFacts
<1>3. /\ reports' \in [Files -> 0..deploy.run] /\ reports'["install"] = deploy.run
      /\ \A f \in Files : f # "install" => reports'[f] = reports[f]
  BY <1>1, ReportFacts DEF InstallPlugin, Typed, Files
<1>4. Typed'
  BY <1>1, <1>2, <1>3 DEF InstallPlugin, Moves, SameMemory, Typed, Records, DoctorFails, Fails,
              Examined, Upserted, Bootstrapped, Quickstarted, Installed, Attached, Adapting,
              Ordering, Distilling, Reviewing, Finishing
<1>5. Caught'
  BY <1>1, <1>2 DEF InstallPlugin, IInv, Moves, Caught, DoctorFails, Fails,
              Examined, Upserted, Bootstrapped, Quickstarted, Installed, Attached, Adapting,
              Ordering, Distilling, Reviewing, Finishing
<1>6. Counted'
  BY <1>1, <1>2 DEF InstallPlugin, IInv, Typed, Deploys, Moves, SameCounts, Counted,
              Examined, Upserted, Bootstrapped, Quickstarted, Installed, Attached, Adapting,
              Ordering, Distilling, Reviewing, Finishing
<1>7. Reported'
  BY <1>1, <1>2, <1>3 DEF InstallPlugin, IInv, Typed, Moves, Reported, Files,
              Examined, Upserted, Bootstrapped, Quickstarted, Installed, Attached, Adapting,
              Ordering, Distilling, Reviewing, Finishing
<1>8. LatestEnded' /\ LatestIsBacked' /\ PassIsEarned'
  <2>1. log' = log /\ latest' = latest /\ (reports' = reports \/ \E f \in Files : Report(f))
    BY DEF InstallPlugin, Files
  <2>2. log \in [state : {"absent", "whole", "torn"}, events : 0..MaxEvents] /\ log.events >= log.events
    BY <1>1 DEF Typed
  <2> QED
    BY <1>1, <1>2, <2>1, <2>2, LatestStep DEF Moves
<1> QED
  BY <1>4, <1>5, <1>6, <1>7, <1>8 DEF IInv

LEMMA StatEventLogStep == ASSUME IInv, StatEventLog PROVE IInv'
<1>1. deploy \in Deploys /\ Typed /\ deploy.pc # "off"
  BY DEF IInv, Typed, StatEventLog
<1>2. Moves("create", deploy.failed) /\ SameCounts /\ SameMemory
  BY <1>1, StatMoves
<1>4. Typed'
  BY <1>1, <1>2 DEF StatEventLog, Moves, SameMemory, Typed, Records,
              Examined, Upserted, Bootstrapped, Quickstarted, Installed, Attached, Adapting,
              Ordering, Distilling, Reviewing, Finishing
<1>5. Caught'
  BY <1>1, <1>2 DEF StatEventLog, IInv, Moves, Caught,
              Examined, Upserted, Bootstrapped, Quickstarted, Installed, Attached, Adapting,
              Ordering, Distilling, Reviewing, Finishing
<1>6. Counted'
  BY <1>1, <1>2 DEF StatEventLog, IInv, Typed, Deploys, Moves, SameCounts, Counted,
              Examined, Upserted, Bootstrapped, Quickstarted, Installed, Attached, Adapting,
              Ordering, Distilling, Reviewing, Finishing
<1>7. Reported'
  BY <1>1, <1>2 DEF StatEventLog, IInv, Typed, Moves, Reported, Files,
              Examined, Upserted, Bootstrapped, Quickstarted, Installed, Attached, Adapting,
              Ordering, Distilling, Reviewing, Finishing
<1>8. LatestEnded' /\ LatestIsBacked' /\ PassIsEarned'
  <2>1. log' = log /\ latest' = latest /\ (reports' = reports \/ \E f \in Files : Report(f))
    BY DEF StatEventLog, Files
  <2>2. log \in [state : {"absent", "whole", "torn"}, events : 0..MaxEvents] /\ log.events >= log.events
    BY <1>1 DEF Typed
  <2> QED
    BY <1>1, <1>2, <2>1, <2>2, LatestStep DEF Moves
<1> QED
  BY <1>4, <1>5, <1>6, <1>7, <1>8 DEF IInv

LEMMA RunPluginDoctorStep == ASSUME IInv, RunPluginDoctor PROVE IInv'
<1>1. deploy \in Deploys /\ Typed /\ deploy.pc # "off"
  BY DEF IInv, Typed, RunPluginDoctor
<1>2. /\ Moves("adapter", deploy'.failed) /\ SameMemory /\ deploy'.counts.doctor = log.events
      /\ deploy.failed \subseteq deploy'.failed
  BY <1>1, PluginDoctorMoves DEF Moves, FailedIf
<1>3. /\ reports' \in [Files -> 0..deploy.run] /\ reports'["doctor"] = deploy.run
      /\ \A f \in Files : f # "doctor" => reports'[f] = reports[f]
  BY <1>1, ReportFacts DEF RunPluginDoctor, Typed, Files
<1>4. Typed'
  BY <1>1, <1>2, <1>3 DEF RunPluginDoctor, Moves, SameMemory, Typed, Records,
              Examined, Upserted, Bootstrapped, Quickstarted, Installed, Attached, Adapting,
              Ordering, Distilling, Reviewing, Finishing
<1>5. Caught'
  BY <1>1, <1>2 DEF RunPluginDoctor, IInv, Moves, Caught,
              Examined, Upserted, Bootstrapped, Quickstarted, Installed, Attached, Adapting,
              Ordering, Distilling, Reviewing, Finishing
<1>6. Counted'
  <2>1. log' = log /\ log.events \in Nat
    <3>1. log' = log
      BY DEF RunPluginDoctor
    <3>2. log.events \in 0..MaxEvents
      BY <1>1 DEF Typed
    <3> QED
      BY <3>1, <3>2
  <2>2. deploy'.counts.doctor <= log.events
    BY <1>2, <2>1
  <2> QED
    BY <1>2, <2>1, <2>2 DEF Moves, Counted, Examined, Upserted, Bootstrapped, Quickstarted, Installed, Attached, Adapting,
              Ordering, Distilling, Reviewing, Finishing
<1>7. Reported'
  BY <1>1, <1>2, <1>3 DEF RunPluginDoctor, IInv, Typed, Moves, Reported, Files,
              Examined, Upserted, Bootstrapped, Quickstarted, Installed, Attached, Adapting,
              Ordering, Distilling, Reviewing, Finishing
<1>8. LatestEnded' /\ LatestIsBacked' /\ PassIsEarned'
  <2>1. log' = log /\ latest' = latest /\ (reports' = reports \/ \E f \in Files : Report(f))
    BY DEF RunPluginDoctor, Files
  <2>2. log \in [state : {"absent", "whole", "torn"}, events : 0..MaxEvents] /\ log.events >= log.events
    BY <1>1 DEF Typed
  <2> QED
    BY <1>1, <1>2, <2>1, <2>2, LatestStep DEF Moves
<1> QED
  BY <1>4, <1>5, <1>6, <1>7, <1>8 DEF IInv

LEMMA DistillWindowStep == ASSUME IInv, DistillWindow PROVE IInv'
<1>1. deploy \in Deploys /\ Typed /\ deploy.pc # "off"
  BY DEF IInv, Typed, DistillWindow
<1>2. /\ Moves("review", FailedIf("window", Fails("window"))) /\ SameCounts /\ SameMemory
      /\ deploy.failed \subseteq FailedIf("window", Fails("window"))
      /\ Fails("window") => FailedIf("window", Fails("window")) # {}
  <2>1. Fails("window") \in BOOLEAN /\ "window" \in Checks
    BY DEF Fails, Checks
  <2>2. /\ FailedIf("window", Fails("window")) \in SUBSET Checks
        /\ deploy.failed \subseteq FailedIf("window", Fails("window"))
        /\ Fails("window") => FailedIf("window", Fails("window")) # {}
    BY <1>1, <2>1, FailedFacts
  <2>3. deploy' = [deploy EXCEPT !.pc = "review", !.failed = FailedIf("window", Fails("window"))]
    BY DEF DistillWindow
  <2> QED
    BY <1>1, <2>2, <2>3, PcMoves, PlacesFacts
<1>3. /\ reports' \in [Files -> 0..deploy.run] /\ reports'["window"] = deploy.run
      /\ \A f \in Files : f # "window" => reports'[f] = reports[f]
  BY <1>1, ReportFacts DEF DistillWindow, Typed, Files
<1>4. Typed'
  BY <1>1, <1>2, <1>3 DEF DistillWindow, Moves, SameMemory, Typed, Records, Fails,
              Examined, Upserted, Bootstrapped, Quickstarted, Installed, Attached, Adapting,
              Ordering, Distilling, Reviewing, Finishing
<1>5. Caught'
  BY <1>1, <1>2 DEF DistillWindow, IInv, Moves, Caught, Fails,
              Examined, Upserted, Bootstrapped, Quickstarted, Installed, Attached, Adapting,
              Ordering, Distilling, Reviewing, Finishing
<1>6. Counted'
  BY <1>1, <1>2 DEF DistillWindow, IInv, Typed, Deploys, Moves, SameCounts, Counted,
              Examined, Upserted, Bootstrapped, Quickstarted, Installed, Attached, Adapting,
              Ordering, Distilling, Reviewing, Finishing
<1>7. Reported'
  BY <1>1, <1>2, <1>3 DEF DistillWindow, IInv, Typed, Moves, Reported, Files,
              Examined, Upserted, Bootstrapped, Quickstarted, Installed, Attached, Adapting,
              Ordering, Distilling, Reviewing, Finishing
<1>8. LatestEnded' /\ LatestIsBacked' /\ PassIsEarned'
  <2>1. log' = log /\ latest' = latest /\ (reports' = reports \/ \E f \in Files : Report(f))
    BY DEF DistillWindow, Files
  <2>2. log \in [state : {"absent", "whole", "torn"}, events : 0..MaxEvents] /\ log.events >= log.events
    BY <1>1 DEF Typed
  <2> QED
    BY <1>1, <1>2, <2>1, <2>2, LatestStep DEF Moves
<1> QED
  BY <1>4, <1>5, <1>6, <1>7, <1>8 DEF IInv

LEMMA LogFacts == ASSUME Typed PROVE log.events \in Nat /\ log.events >= log.events
BY DEF Typed

\* A log that was absent is created whole, with no event lost.
LEMMA CreateEventLogGoes ==
  ASSUME IInv, CreateEventLog, deploy' = [deploy EXCEPT !.pc = "plugin doctor"]
  PROVE  IInv'
<1>1. deploy \in Deploys /\ Typed /\ deploy.pc # "off"
  BY DEF IInv, Typed, CreateEventLog
<1>2. Moves("plugin doctor", deploy.failed) /\ SameCounts /\ SameMemory
  BY <1>1, PlainMoves, PlacesFacts
<1>3. /\ log' \in [state : {"absent", "whole", "torn"}, events : 0..MaxEvents]
      /\ log'.state # "absent" /\ log'.events = log.events
  BY <1>1 DEF CreateEventLog, Typed
<1>4. Typed'
  BY <1>1, <1>2, <1>3 DEF CreateEventLog, Moves, SameMemory, Typed, Records,
              Examined, Upserted, Bootstrapped, Quickstarted, Installed, Attached, Adapting,
              Ordering, Distilling, Reviewing, Finishing
<1>5. Caught'
  BY <1>1, <1>2 DEF CreateEventLog, IInv, Moves, Caught, Fails,
              Examined, Upserted, Bootstrapped, Quickstarted, Installed, Attached, Adapting,
              Ordering, Distilling, Reviewing, Finishing
<1>6. Counted'
  BY <1>1, <1>2 DEF CreateEventLog, IInv, Typed, Deploys, Moves, SameCounts, Counted,
              Examined, Upserted, Bootstrapped, Quickstarted, Installed, Attached, Adapting,
              Ordering, Distilling, Reviewing, Finishing
<1>7. Reported'
  BY <1>1, <1>2, <1>3 DEF CreateEventLog, IInv, Typed, Moves, Reported, Files,
              Examined, Upserted, Bootstrapped, Quickstarted, Installed, Attached, Adapting,
              Ordering, Distilling, Reviewing, Finishing
<1>8. LatestEnded' /\ LatestIsBacked' /\ PassIsEarned'
  <2>1. latest' = latest /\ reports' = reports
    BY DEF CreateEventLog
  <2>2. log'.events >= log.events
    <3>2. log.events >= log.events
      BY <1>1, LogFacts
    <3>3. log'.events = log.events
      BY <1>3
    <3> QED
      BY <3>2, <3>3, Zenon
  <2> QED
    BY <1>1, <1>2, <1>3, <2>1, <2>2, LatestStep DEF Moves
<1> QED
  BY <1>4, <1>5, <1>6, <1>7, <1>8 DEF IInv

LEMMA CreateEventLogStep == ASSUME IInv, CreateEventLog PROVE IInv'
<1>1. \/ deploy' = Off(deploy.run) /\ UNCHANGED <<log, store, reports, latest, hand, stored>>
      \/ deploy' = [deploy EXCEPT !.pc = "plugin doctor"]
  BY DEF CreateEventLog, Throws
<1> QED
  BY <1>1, StopStep, CreateEventLogGoes

LEMMA RunAdapterGoes ==
  ASSUME IInv, RunAdapter, deploy' = [deploy EXCEPT !.pc = "orders", !.counts.adapter = log.events]
  PROVE  IInv'
<1>1. deploy \in Deploys /\ Typed /\ deploy.pc # "off"
  BY DEF IInv, Typed, RunAdapter
<1>2. /\ Moves("orders", deploy.failed) /\ SameMemory
      /\ deploy'.counts.adapter = log.events /\ deploy'.counts.doctor = deploy.counts.doctor
  BY <1>1, AdapterMoves
<1>4. Typed'
  BY <1>1, <1>2 DEF RunAdapter, Moves, SameMemory, Typed, Records,
              Examined, Upserted, Bootstrapped, Quickstarted, Installed, Attached, Adapting,
              Ordering, Distilling, Reviewing, Finishing
<1>5. Caught'
  BY <1>1, <1>2 DEF RunAdapter, IInv, Moves, Caught, Fails,
              Examined, Upserted, Bootstrapped, Quickstarted, Installed, Attached, Adapting,
              Ordering, Distilling, Reviewing, Finishing
<1>6. Counted'
  <2>1. log' = log /\ log.events \in 0..MaxEvents
    <3>1. log' = log
      BY DEF RunAdapter
    <3>2. log.events \in 0..MaxEvents
      BY <1>1 DEF Typed
    <3> QED
      BY <3>1, <3>2
  <2>2. deploy'.counts.doctor <= log.events /\ deploy'.counts.adapter <= log.events
    BY <1>1, <1>2, <2>1 DEF RunAdapter, IInv, Counted,
              Examined, Upserted, Bootstrapped, Quickstarted, Installed, Attached, Adapting,
              Ordering, Distilling, Reviewing, Finishing
  <2> QED
    BY <1>2, <2>1, <2>2 DEF Moves, Counted,
              Examined, Upserted, Bootstrapped, Quickstarted, Installed, Attached, Adapting,
              Ordering, Distilling, Reviewing, Finishing
<1>7. Reported'
  BY <1>1, <1>2 DEF RunAdapter, IInv, Typed, Moves, Reported, Files,
              Examined, Upserted, Bootstrapped, Quickstarted, Installed, Attached, Adapting,
              Ordering, Distilling, Reviewing, Finishing
<1>8. LatestEnded' /\ LatestIsBacked' /\ PassIsEarned'
  <2>1. log' = log /\ latest' = latest /\ (reports' = reports \/ \E f \in Files : Report(f))
    BY DEF RunAdapter, Files
  <2>2. log \in [state : {"absent", "whole", "torn"}, events : 0..MaxEvents] /\ log.events >= log.events
    BY <1>1 DEF Typed
  <2> QED
    BY <1>1, <1>2, <2>1, <2>2, LatestStep DEF Moves
<1> QED
  BY <1>4, <1>5, <1>6, <1>7, <1>8 DEF IInv

LEMMA RunAdapterStep == ASSUME IInv, RunAdapter PROVE IInv'
<1>1. \/ deploy' = Off(deploy.run) /\ UNCHANGED <<log, store, reports, latest, hand, stored>>
      \/ deploy' = [deploy EXCEPT !.pc = "orders", !.counts.adapter = log.events]
  BY Zenon DEF RunAdapter, Throws
<1> QED
  BY <1>1, StopStep, RunAdapterGoes

LEMMA RunWorkOrdersGoes ==
  ASSUME IInv, RunWorkOrders, deploy' = [deploy EXCEPT !.pc = "window", !.counts.orders = log.events]
  PROVE  IInv'
<1>1. deploy \in Deploys /\ Typed /\ deploy.pc # "off"
  BY DEF IInv, Typed, RunWorkOrders
<1>2. /\ Moves("window", deploy.failed) /\ SameMemory
      /\ deploy'.counts.adapter = deploy.counts.adapter
      /\ deploy'.counts.doctor = deploy.counts.doctor /\ deploy'.counts.orders = log.events
  BY <1>1, OrdersMoves
<1>4. Typed'
  BY <1>1, <1>2 DEF RunWorkOrders, Moves, SameMemory, Typed, Records,
              Examined, Upserted, Bootstrapped, Quickstarted, Installed, Attached, Adapting,
              Ordering, Distilling, Reviewing, Finishing
<1>5. Caught'
  BY <1>1, <1>2 DEF RunWorkOrders, IInv, Moves, Caught, Fails,
              Examined, Upserted, Bootstrapped, Quickstarted, Installed, Attached, Adapting,
              Ordering, Distilling, Reviewing, Finishing
<1>6. Counted'
  <2>1. log' = log /\ log.events \in 0..MaxEvents
    <3>1. log' = log
      BY DEF RunWorkOrders
    <3>2. log.events \in 0..MaxEvents
      BY <1>1 DEF Typed
    <3> QED
      BY <3>1, <3>2
  <2>2. /\ deploy'.counts.doctor <= log.events /\ deploy'.counts.orders <= log.events
        /\ deploy'.counts.doctor <= deploy'.counts.adapter
        /\ deploy'.counts.adapter <= log.events
    BY <1>1, <1>2, <2>1 DEF RunWorkOrders, IInv, Counted,
              Examined, Upserted, Bootstrapped, Quickstarted, Installed, Attached, Adapting,
              Ordering, Distilling, Reviewing, Finishing
  <2> QED
    BY <1>2, <2>1, <2>2 DEF Moves, Counted,
              Examined, Upserted, Bootstrapped, Quickstarted, Installed, Attached, Adapting,
              Ordering, Distilling, Reviewing, Finishing
<1>7. Reported'
  BY <1>1, <1>2 DEF RunWorkOrders, IInv, Typed, Moves, Reported, Files,
              Examined, Upserted, Bootstrapped, Quickstarted, Installed, Attached, Adapting,
              Ordering, Distilling, Reviewing, Finishing
<1>8. LatestEnded' /\ LatestIsBacked' /\ PassIsEarned'
  <2>1. log' = log /\ latest' = latest /\ (reports' = reports \/ \E f \in Files : Report(f))
    BY DEF RunWorkOrders, Files
  <2>2. log \in [state : {"absent", "whole", "torn"}, events : 0..MaxEvents] /\ log.events >= log.events
    BY <1>1 DEF Typed
  <2> QED
    BY <1>1, <1>2, <2>1, <2>2, LatestStep DEF Moves
<1> QED
  BY <1>4, <1>5, <1>6, <1>7, <1>8 DEF IInv

LEMMA RunWorkOrdersStep == ASSUME IInv, RunWorkOrders PROVE IInv'
<1>1. \/ deploy' = Off(deploy.run) /\ UNCHANGED <<log, store, reports, latest, hand, stored>>
      \/ deploy' = [deploy EXCEPT !.pc = "window", !.counts.orders = log.events]
  BY Zenon DEF RunWorkOrders, Throws
<1> QED
  BY <1>1, StopStep, RunWorkOrdersGoes

LEMMA ReviewSessionsGoes ==
  ASSUME IInv, ReviewSessions, ~Fails("summary"), Report("review"),
         deploy' = [deploy EXCEPT !.pc = "finish"]
  PROVE  IInv'
<1>1. deploy \in Deploys /\ Typed /\ deploy.pc # "off"
  BY DEF IInv, Typed, ReviewSessions
<1>2. /\ Moves("finish", deploy.failed) /\ SameCounts /\ SameMemory
      /\ "summary" \notin deploy.faults
  BY <1>1, PlainMoves, PlacesFacts DEF Fails
<1>3. /\ reports' \in [Files -> 0..deploy.run] /\ reports'["review"] = deploy.run
      /\ \A f \in Files : f # "review" => reports'[f] = reports[f]
  <2>1. Report("review") /\ "review" \in Files
    BY DEF ReviewSessions, Files
  <2> QED
    BY <1>1, <2>1, ReportFacts
<1>4. Typed'
  BY <1>1, <1>2, <1>3 DEF ReviewSessions, Moves, SameMemory, Typed, Records,
              Examined, Upserted, Bootstrapped, Quickstarted, Installed, Attached, Adapting,
              Ordering, Distilling, Reviewing, Finishing
<1>5. Caught'
  BY <1>1, <1>2 DEF ReviewSessions, IInv, Moves, Caught, Fails,
              Examined, Upserted, Bootstrapped, Quickstarted, Installed, Attached, Adapting,
              Ordering, Distilling, Reviewing, Finishing
<1>6. Counted'
  BY <1>1, <1>2 DEF ReviewSessions, IInv, Typed, Deploys, Moves, SameCounts, Counted,
              Examined, Upserted, Bootstrapped, Quickstarted, Installed, Attached, Adapting,
              Ordering, Distilling, Reviewing, Finishing
<1>7. Reported'
  BY <1>1, <1>2, <1>3 DEF ReviewSessions, IInv, Typed, Moves, Reported, Files,
              Examined, Upserted, Bootstrapped, Quickstarted, Installed, Attached, Adapting,
              Ordering, Distilling, Reviewing, Finishing
<1>8. LatestEnded' /\ LatestIsBacked' /\ PassIsEarned'
  <2>1. log' = log /\ latest' = latest /\ (reports' = reports \/ \E f \in Files : Report(f))
    BY DEF ReviewSessions, Files
  <2>2. log \in [state : {"absent", "whole", "torn"}, events : 0..MaxEvents] /\ log.events >= log.events
    BY <1>1 DEF Typed
  <2> QED
    BY <1>1, <1>2, <2>1, <2>2, LatestStep DEF Moves
<1> QED
  BY <1>4, <1>5, <1>6, <1>7, <1>8 DEF IInv

LEMMA ReviewSessionsStep == ASSUME IInv, ReviewSessions PROVE IInv'
<1>1. \/ deploy' = Off(deploy.run) /\ UNCHANGED <<log, store, reports, latest, hand, stored>>
      \/ ~Fails("summary") /\ Report("review") /\ deploy' = [deploy EXCEPT !.pc = "finish"]
  BY Zenon DEF ReviewSessions, Throws
<1> QED
  BY <1>1, StopStep, ReviewSessionsGoes

-----------------------------------------------------------------------------
(* The beginning and the end of a run, and what goes on beside it.         *)

LEMMA StartStep == ASSUME IInv, Start PROVE IInv'
<1>1. /\ deploy' \in Deploys /\ deploy'.pc = "doctor" /\ deploy'.run = deploy.run + 1
      /\ deploy'.held = {}
  BY StartMoves DEF IInv, Typed
<1>2. /\ UNCHANGED <<log, store, reports, latest, hand, stored>>
      /\ deploy.run \in Nat /\ deploy.pc = "off"
  BY DEF Start, IInv, Typed, Deploys
<1>3. Typed'
  <2>1. reports \in [Files -> 0..deploy.run + 1]
    BY <1>2 DEF IInv, Typed
  <2>2. "doctor" \notin Attached
    BY DEF Attached, Adapting, Ordering, Distilling, Reviewing, Finishing
  <2> QED
    BY <1>1, <1>2, <2>1, <2>2 DEF IInv, Typed
<1>4. Caught' /\ Counted' /\ Reported'
  BY <1>1 DEF Caught, Counted, Reported, Examined, Upserted, Bootstrapped, Quickstarted, Installed, Attached, Adapting,
              Ordering, Distilling, Reviewing, Finishing
<1>5. \A l \in latest : l.run \in Nat /\ l.run < deploy.run + 1
  BY <1>2 DEF IInv, LatestEnded
<1>6. LatestEnded'
  BY <1>1, <1>2, <1>5 DEF IInv, LatestEnded
<1>7. LatestIsBacked'
  BY <1>1, <1>2, <1>5 DEF IInv, LatestIsBacked
<1>8. PassIsEarned'
  BY <1>2 DEF IInv, PassIsEarned
<1> QED
  BY <1>3, <1>4, <1>6, <1>7, <1>8 DEF IInv

\* A run that ends with no failure had no fault: each is of a part that has run.
LEMMA FinishStep == ASSUME IInv, Finish PROVE IInv'
<1>1. /\ deploy.pc = "finish" /\ deploy' = Off(deploy.run)
      /\ UNCHANGED <<log, store, reports, hand, stored>>
  BY DEF Finish
<1>2. /\ deploy' \in Deploys /\ deploy'.pc = "off" /\ deploy'.run = deploy.run
      /\ deploy'.held = {}
  BY <1>1, OffFacts DEF IInv, Typed, Deploys
<1>3. PICK l : /\ latest' = {l} /\ l.run = deploy.run /\ l.faults = deploy.faults
               /\ l.counts = deploy.counts
               /\ l.ok => deploy.failed = {}
  <2> DEFINE new == [run |-> deploy.run, ok |-> deploy.failed = {} /\ log.state # "absent",
                     faults |-> deploy.faults, counts |-> deploy.counts,
                     written |-> LocalVectorStoreWritten]
  <2>1. latest' = {new}
    BY Zenon DEF Finish
  <2>2. new.run = deploy.run /\ new.faults = deploy.faults /\ new.counts = deploy.counts
    BY Zenon
  <2>3. new.ok => deploy.failed = {}
    BY Zenon
  <2> QED
    BY <2>1, <2>2, <2>3, Zenon
<1>4. Typed'
  <2>1. "off" \notin Attached
    BY DEF Attached, Adapting, Ordering, Distilling, Reviewing, Finishing
  <2> QED
    BY <1>1, <1>2, <2>1 DEF IInv, Typed
<1>5. Caught' /\ Counted' /\ Reported'
  BY <1>2 DEF Caught, Counted, Reported, Examined, Upserted, Bootstrapped, Quickstarted, Installed, Attached, Adapting,
              Ordering, Distilling, Reviewing, Finishing
<1>6. LatestEnded'
  <2>1. deploy.run \in Nat /\ deploy.counts \in [doctor : Nat, adapter : Nat, orders : Nat]
    BY DEF IInv, Typed, Deploys
  <2> QED
    BY <1>2, <1>3, <2>1 DEF LatestEnded
<1>7. LatestIsBacked'
  <2>1. \A f \in Files : reports[f] = deploy.run
    BY <1>1 DEF IInv, Reported, Files, Examined, Upserted, Bootstrapped, Quickstarted, Installed, Attached, Adapting,
              Ordering, Distilling, Reviewing, Finishing
  <2>2. deploy.run \in Nat
    BY DEF IInv, Typed, Deploys
  <2> QED
    BY <1>1, <1>2, <1>3, <2>1, <2>2 DEF LatestIsBacked
<1>8. PassIsEarned'
  <2>1. deploy.failed = {} => deploy.faults = {}
    <3>1. deploy.failed = {} => \A x \in Parts : x \notin deploy.faults
      BY <1>1 DEF IInv, Caught, Parts, Examined, Upserted, Bootstrapped, Quickstarted, Installed, Attached, Adapting,
              Ordering, Distilling, Reviewing, Finishing
    <3> QED
      BY <3>1 DEF IInv, Typed, Deploys
  <2>2. /\ deploy.counts.doctor <= deploy.counts.adapter
        /\ deploy.counts.adapter <= deploy.counts.orders
        /\ deploy.counts.orders <= log.events
    BY <1>1 DEF IInv, Counted, Examined, Upserted, Bootstrapped, Quickstarted, Installed, Attached, Adapting,
              Ordering, Distilling, Reviewing, Finishing
  <2> QED
    BY <1>1, <1>3, <2>1, <2>2 DEF PassIsEarned
<1> QED
  BY <1>4, <1>5, <1>6, <1>7, <1>8 DEF IInv

\* More of the log disturbs neither the run nor what latest.json counts.
LEMMA LogStep ==
  ASSUME IInv, UNCHANGED <<store, deploy, reports, latest, hand, stored>>,
         log' \in [state : {"whole", "torn"}, events : 0..MaxEvents], log'.events >= log.events
  PROVE  IInv'
<1>1. /\ log.events \in Nat /\ log'.events \in Nat
      /\ log' \in [state : {"absent", "whole", "torn"}, events : 0..MaxEvents]
      /\ log'.state # "absent"
  BY DEF IInv, Typed
<1>2. deploy.counts \in [doctor : Nat, adapter : Nat, orders : Nat]
  BY DEF IInv, Typed, Deploys
<1>3. Typed'
  BY <1>1 DEF IInv, Typed
<1>4. Caught' /\ Reported'
  BY DEF IInv, Caught, Reported
<1>5. Counted'
  <2>1. /\ deploy.counts.doctor \in Nat /\ deploy.counts.adapter \in Nat
        /\ deploy.counts.orders \in Nat
    BY <1>2
  <2> QED
    BY <1>1, <2>1 DEF IInv, Counted
<1>6. LatestEnded' /\ LatestIsBacked'
  BY DEF IInv, LatestEnded, LatestIsBacked
<1>7. PassIsEarned'
  <2>1. \A l \in latest : l.counts.orders \in Nat
    BY DEF IInv, LatestEnded
  <2> QED
    BY <1>1, <2>1 DEF IInv, PassIsEarned
<1> QED
  BY <1>3, <1>4, <1>5, <1>6, <1>7 DEF IInv

LEMMA EmitStep == ASSUME IInv, Emit PROVE IInv'
<1>1. PICK state \in {"whole", "torn"} : log' = [state |-> state, events |-> log.events + 1]
  BY DEF Emit
<1>2. log.events \in Nat /\ log.events < MaxEvents
  BY DEF Emit, IInv, Typed
<1>3. log' \in [state : {"whole", "torn"}, events : 0..MaxEvents] /\ log'.events >= log.events
  BY <1>1, <1>2
<1> QED
  BY <1>3, LogStep DEF Emit

LEMMA EndLineStep == ASSUME IInv, EndLine PROVE IInv'
<1>1. log' \in [state : {"whole", "torn"}, events : 0..MaxEvents] /\ log'.events >= log.events
  BY DEF EndLine, IInv, Typed
<1> QED
  BY <1>1, LogStep DEF EndLine

\* The store and the upsert by hand.
LEMMA HandStep ==
  ASSUME IInv, UNCHANGED <<log, deploy, reports, latest>>,
         store' \subseteq stored', stored' \subseteq Records, stored \subseteq stored',
         hand' \in [holds : BOOLEAN, held : SUBSET Records, count : Nat],
         hand'.held \subseteq stored'
  PROVE  IInv'
<1>1. Typed'
  BY DEF IInv, Typed
<1>2. Caught' /\ Counted' /\ Reported'
  BY DEF IInv, Caught, Counted, Reported
<1>3. LatestEnded' /\ LatestIsBacked' /\ PassIsEarned'
  BY DEF IInv, LatestEnded, LatestIsBacked, PassIsEarned
<1> QED
  BY <1>1, <1>2, <1>3 DEF IInv

LEMMA ReadByHandStep == ASSUME IInv, ReadByHand PROVE IInv'
<1>1. hand' \in [holds : BOOLEAN, held : SUBSET Records, count : Nat] /\ hand'.held \subseteq stored
  BY DEF ReadByHand, IInv, Typed
<1> QED
  BY <1>1, HandStep DEF ReadByHand, IInv, Typed

LEMMA UpsertByHandStep == ASSUME IInv, UpsertByHand PROVE IInv'
<1>1. hand' \in [holds : BOOLEAN, held : SUBSET Records, count : Nat] /\ hand'.held = {}
  BY DEF UpsertByHand, IInv, Typed
<1>2. /\ store' \subseteq stored' /\ stored' \subseteq Records /\ stored \subseteq stored'
      /\ UNCHANGED <<log, deploy, reports, latest>>
  BY DEF UpsertByHand, IInv, Typed, Records
<1> QED
  BY <1>1, <1>2, HandStep

LEMMA StepIInv == IInv /\ [Next]_vars => IInv'
<1> SUFFICES ASSUME IInv, [Next]_vars PROVE IInv'
  OBVIOUS
<1>1. CASE Start
  BY <1>1, StartStep
<1>2. CASE RunPublicRepoDoctor
  BY <1>2, RunPublicRepoDoctorStep
<1>3. CASE BootstrapUpsert
  BY <1>3, BootstrapUpsertStep
<1>4. CASE RunLocalBootstrap
  BY <1>4, RunLocalBootstrapStep
<1>5. CASE RunLocalSidecarQuickstart
  BY <1>5, RunLocalSidecarQuickstartStep
<1>6. CASE InstallPlugin
  BY <1>6, InstallPluginStep
<1>7. CASE StatEventLog
  BY <1>7, StatEventLogStep
<1>8. CASE CreateEventLog
  BY <1>8, CreateEventLogStep
<1>9. CASE RunPluginDoctor
  BY <1>9, RunPluginDoctorStep
<1>10. CASE RunAdapter
  BY <1>10, RunAdapterStep
<1>11. CASE RunWorkOrders
  BY <1>11, RunWorkOrdersStep
<1>12. CASE DistillWindow
  BY <1>12, DistillWindowStep
<1>13. CASE ReviewSessions
  BY <1>13, ReviewSessionsStep
<1>14. CASE Finish
  BY <1>14, FinishStep
<1>15. CASE Die
  BY <1>15, StopStep DEF Die, Throws
<1>16. CASE Emit
  BY <1>16, EmitStep
<1>17. CASE EndLine
  BY <1>17, EndLineStep
<1>18. CASE ReadByHand
  BY <1>18, ReadByHandStep
<1>19. CASE UpsertByHand
  BY <1>19, UpsertByHandStep
<1>20. CASE UNCHANGED vars
  <2>1. UNCHANGED <<log, deploy, reports, latest, store, hand, stored>>
    BY <1>20 DEF vars
  <2> QED
    BY <2>1, HandStep DEF IInv, Typed
<1> QED
  BY <1>1, <1>2, <1>3, <1>4, <1>5, <1>6, <1>7, <1>8, <1>9, <1>10, <1>11, <1>12, <1>13,
     <1>14, <1>15, <1>16, <1>17, <1>18, <1>19, <1>20, Zenon DEF Next

-----------------------------------------------------------------------------
(* The theorems.                                                           *)

\* The inductive invariant holds of every reachable state, however the parts
\* fail, the process dies and the plugin writes.
THEOREM Invariance == Spec => []IInv
<1> QED
  BY InitIInv, StepIInv, PTL DEF Spec

\* Every part keeps its shape, no report comes from a run that never was, and a
\* deploy that looked for the log only goes on when there is one.
THEOREM TypeCorrect == Spec => []TypeOK
<1>1. IInv => TypeOK
  <2> SUFFICES ASSUME IInv PROVE TypeOK
    OBVIOUS
  <2>1. {"plugin doctor", "adapter", "orders", "window", "review", "finish"} \subseteq Attached
    BY DEF Attached, Adapting, Ordering, Distilling, Reviewing, Finishing
  <2> QED
    BY <2>1 DEF IInv, Typed, Deploys, TypeOK, Records
<1> QED
  BY <1>1, Invariance, PTL

\* A passing latest.json means that no part of its run failed, and that its
\* replays followed one another on the log.
THEOREM PassEarned == Spec => []PassIsEarned
<1>1. IInv => PassIsEarned
  BY DEF IInv
<1> QED
  BY <1>1, Invariance, PTL

\* Every file latest.json points to was written by its run or a later one.
THEOREM LatestBacked == Spec => []LatestIsBacked
<1>1. IInv => LatestIsBacked
  BY DEF IInv
<1> QED
  BY <1>1, Invariance, PTL

\* Attaching the event log never loses an event, whenever the plugin writes.
THEOREM LogGrows == Spec => LogOnlyGrows
<1>1. IInv /\ [Next]_vars
        => [log'.events >= log.events /\ (log.state # "absent" => log'.state # "absent")]_log
  <2> SUFFICES ASSUME IInv, [Next]_vars
               PROVE  [log'.events >= log.events
                         /\ (log.state # "absent" => log'.state # "absent")]_log
    OBVIOUS
  <2>1. log.events \in Nat /\ log.state \in {"absent", "whole", "torn"}
        /\ (log.state = "absent" => log.events = 0)
    BY DEF IInv, Typed
  <2>2. CASE CreateEventLog
    <3>1. log' = IF log.state = "absent" THEN [state |-> "whole", events |-> 0] ELSE log
      BY <2>2 DEF CreateEventLog
    <3>2. CASE log.state = "absent"
      BY <2>1, <3>1, <3>2
    <3>3. CASE log.state # "absent"
      BY <2>1, <3>1, <3>3
    <3> QED
      BY <3>2, <3>3
  <2>3. CASE Emit
    BY <2>1, <2>3 DEF Emit
  <2>4. CASE EndLine
    <3>1. log \in [state : {"absent", "whole", "torn"}, events : 0..MaxEvents]
      BY DEF IInv, Typed
    <3> QED
      BY <2>1, <2>4, <3>1 DEF EndLine
  <2>5. CASE UNCHANGED log
    BY <2>5
  <2>6. CreateEventLog \/ Emit \/ EndLine \/ UNCHANGED log
    BY DEF Next, vars, Start, RunPublicRepoDoctor, BootstrapUpsert, RunLocalBootstrap,
           RunLocalSidecarQuickstart, InstallPlugin, StatEventLog, RunPluginDoctor, RunAdapter,
           RunWorkOrders, DistillWindow, ReviewSessions, Finish, Die, ReadByHand, UpsertByHand
  <2> QED
    BY <2>2, <2>3, <2>4, <2>5, <2>6
<1> QED
  BY <1>1, Invariance, PTL DEF Spec, LogOnlyGrows

HIDE ShadowDeployAssumption

-----------------------------------------------------------------------------
(* ShadowUpdate.  Type correctness and HookRunsOnce hold for any number of *)
(* updaters at once.  The other three invariants are proved for one        *)
(* updater at a time, which they need: beside another update, an installer *)
(* may pin a commit that nothing checked.                                  *)

Pcs == {"off", "fetch", "merge", "ci", "packages", "proof", "hook", "dropin", "legacy",
        "rev-parse", "pin", "reload", "clean"}
Dirs == {"legacy", "current"}

\* Where an update is past the step that ...
Checked == {"hook", "dropin", "legacy", "rev-parse", "pin", "reload", "clean"}
Copied == {"dropin", "legacy", "rev-parse", "pin", "reload"}
Replaced == {"rev-parse", "pin", "reload"}

-----------------------------------------------------------------------------
(* Any number of updaters.                                                 *)

UpdateTyped ==
  /\ remote \in Commits
  /\ tree \in [head : Commits, fetched : Commits, dirty : BOOLEAN, deps : Commits]
  /\ host \in [hook : Commits, pin : Commits, dropins : SUBSET Dirs, loaded : SUBSET Dirs]
  /\ update \in [Updaters -> [pc : Pcs, flags : Flags, expected : Commits]]

\* The checkout follows what it fetched, which follows upstream.
Ordered == tree.head <= tree.fetched /\ tree.fetched <= remote

\* The drop-in of an install stays, and the legacy one does not come back.
Dropins ==
  /\ host.dropins # {} /\ host.loaded # {}
  /\ \A u \in Updaters :
       /\ update[u].pc = "legacy" => "current" \in host.dropins
       /\ update[u].pc \in Replaced => host.dropins = {"current"}
       /\ update[u].pc = "clean" /\ update[u].flags.install =>
            host.dropins = {"current"} /\ host.loaded = {"current"}
  /\ completed # {} => host.dropins = {"current"} /\ host.loaded = {"current"}

UpdateIInv == UpdateTyped /\ Ordered /\ Dropins

LEMMA InitUpdateIInv == UpdateInit => UpdateIInv
BY ShadowUpdateAssumption
   DEF UpdateInit, UpdateIInv, UpdateTyped, Ordered, Dropins, Commits, Dirs, Pcs, Replaced, UpdateOff, NoFlags, Flags

USE DEF Goes, Exits, Flag, ghosts, UpdateOff, NoFlags

LEMMA StepUpdateIInv == UpdateIInv /\ [UpdateNext]_updateVars => UpdateIInv'
<1> SUFFICES ASSUME UpdateIInv, [UpdateNext]_updateVars PROVE UpdateIInv'
    OBVIOUS
<1> USE ShadowUpdateAssumption DEF UpdateIInv, UpdateTyped, Ordered, Dropins, Commits, Dirs, Pcs, Replaced
<1>1. ASSUME NEW u \in Updaters, StartUpdate(u) PROVE UpdateIInv'
  <2>1. PICK flags \in Options :
          update' = [update EXCEPT ![u] = [UpdateOff EXCEPT !.pc = "fetch", !.flags = flags]]
    BY <1>1, Zenon DEF StartUpdate
  <2> DEFINE fresh == [UpdateOff EXCEPT !.pc = "fetch"]
             began == [fresh EXCEPT !.flags = flags]
  <2>2. began \in [pc : Pcs, flags : Flags, expected : Commits] /\ began.pc = "fetch"
    <3>1. flags \in Flags /\ UpdateOff \in [pc : Pcs, flags : Flags, expected : Commits]
      BY DEF Flags
    <3>2. fresh \in [pc : Pcs, flags : Flags, expected : Commits] /\ fresh.pc = "fetch"
      BY <3>1
    <3> QED
      BY <3>1, <3>2
  <2>3. update' \in [Updaters -> [pc : Pcs, flags : Flags, expected : Commits]]
    BY <2>1, <2>2
  <2>4. \A v \in Updaters : v # u => update'[v] = update[v]
    BY <2>1
  <2>5. update'[u].pc = "fetch"
    BY <2>1, <2>2
  <2> QED
    BY <1>1, <2>3, <2>4, <2>5 DEF StartUpdate
<1>2. ASSUME NEW u \in Updaters, Fetch(u) PROVE UpdateIInv'
  BY <1>2 DEF Fetch
<1>3. ASSUME NEW u \in Updaters, Merge(u) PROVE UpdateIInv'
  <2>1. CASE tree' = [tree EXCEPT !.head = tree.fetched] /\ Goes(u, "ci")
    BY <1>3, <2>1 DEF Merge
  <2>2. CASE UNCHANGED tree /\ Exits(u)
    BY <1>3, <2>2 DEF Merge, Flags
  <2> QED
    BY <1>3, <2>1, <2>2 DEF Merge
<1>4. ASSUME NEW u \in Updaters, BeginCi(u) PROVE UpdateIInv'
  BY <1>4 DEF BeginCi
<1>5. ASSUME NEW u \in Updaters, EndCi(u) PROVE UpdateIInv'
  BY <1>5 DEF EndCi
<1>6. ASSUME NEW u \in Updaters, FullShadow(u) PROVE UpdateIInv'
  <2>1. CASE Exits(u)
    BY <1>6, <2>1 DEF FullShadow, Flags
  <2>2. CASE Goes(u, "hook")
    BY <1>6, <2>2 DEF FullShadow
  <2>3. CASE Goes(u, "clean") /\ ~update[u].flags.install
    BY <1>6, <2>3 DEF FullShadow
  <2> QED
    BY <1>6, <2>1, <2>2, <2>3 DEF FullShadow
<1>7. ASSUME NEW u \in Updaters, FinishUpdate(u) PROVE UpdateIInv'
  BY <1>7 DEF FinishUpdate, Flags
<1>8. ASSUME NEW u \in Updaters, InstallHook(u) PROVE UpdateIInv'
  BY <1>8 DEF InstallHook
<1>9. ASSUME NEW u \in Updaters, InstallDropin(u) PROVE UpdateIInv'
  BY <1>9 DEF InstallDropin
<1>10. ASSUME NEW u \in Updaters, RemoveLegacyDropins(u) PROVE UpdateIInv'
  BY <1>10 DEF RemoveLegacyDropins
<1>11. ASSUME NEW u \in Updaters, ReadExpectedCommit(u) PROVE UpdateIInv'
  <2>1. /\ update' \in [Updaters -> [pc : Pcs, flags : Flags, expected : Commits]]
        /\ \A v \in Updaters : v # u => update'[v] = update[v]
        /\ update'[u].pc = "pin" /\ update[u].pc = "rev-parse"
    <3> DEFINE moved == [update EXCEPT ![u].pc = "pin"]
    <3>1. /\ moved \in [Updaters -> [pc : Pcs, flags : Flags, expected : Commits]]
          /\ \A v \in Updaters : v # u => moved[v] = update[v]
          /\ moved[u].pc = "pin"
      OBVIOUS
    <3>2. update' = [moved EXCEPT ![u].expected = tree.head] /\ update[u].pc = "rev-parse"
      BY <1>11 DEF ReadExpectedCommit
    <3> HIDE DEF moved
    <3> QED
      BY <3>1, <3>2
  <2> QED
    BY <1>11, <2>1 DEF ReadExpectedCommit
<1>12. ASSUME NEW u \in Updaters, WritePin(u) PROVE UpdateIInv'
  BY <1>12 DEF WritePin
<1>13. ASSUME NEW u \in Updaters, DaemonReload(u) PROVE UpdateIInv'
  BY <1>13 DEF DaemonReload
<1>14. ASSUME NEW u \in Updaters, Kill(u) PROVE UpdateIInv'
  BY <1>14 DEF Kill, Flags
<1>15. CASE Push
  BY <1>15 DEF Push
<1>16. CASE ByHand
  <2>1. CASE tree' = [tree EXCEPT !.fetched = remote, !.head = remote]
    <3>1. /\ tree' \in [head : Commits, fetched : Commits, dirty : BOOLEAN, deps : Commits]
          /\ tree'.head = remote /\ tree'.fetched = remote
      BY <2>1
    <3> QED
      BY <1>16, <3>1 DEF ByHand
  <2>2. CASE tree' = [tree EXCEPT !.dirty = ~@]
    BY <1>16, <2>2 DEF ByHand
  <2> QED
    BY <1>16, <2>1, <2>2 DEF ByHand
<1>17. CASE ExternalReload
  BY <1>17 DEF ExternalReload
<1>18. CASE ServiceRunsHook
  BY <1>18 DEF ServiceRunsHook
<1>19. CASE UNCHANGED updateVars
  BY <1>19 DEF updateVars
<1> QED
  BY <1>1, <1>2, <1>3, <1>4, <1>5, <1>6, <1>7, <1>8, <1>9, <1>10, <1>11, <1>12, <1>13,
     <1>14, <1>15, <1>16, <1>17, <1>18, <1>19 DEF UpdateNext

THEOREM UpdateInvariance == UpdateSpec => []UpdateIInv
<1>1. UpdateInit => UpdateIInv
  BY InitUpdateIInv
<1>2. UpdateIInv /\ [UpdateNext]_updateVars => UpdateIInv'
  BY StepUpdateIInv
<1> QED
  BY <1>1, <1>2, PTL DEF UpdateSpec

\* Type correctness: every part of the checkout, the host and the updates keeps
\* its shape, and the checkout is never ahead of what it fetched.
THEOREM UpdateTypeCorrect == UpdateSpec => []UpdateTypeOK
<1>1. UpdateIInv => UpdateTypeOK
  BY DEF UpdateIInv, UpdateTyped, Ordered, Dropins, UpdateTypeOK, Dirs
<1> QED
  BY <1>1, UpdateInvariance, PTL

\* The drop-ins of install-vps-full-shadow.sh: after an update that ended with
\* "ok" one drop-in runs the hook, however many updates there are at once.
THEOREM HookIsRunOnce == UpdateSpec => []HookRunsOnce
<1>1. UpdateIInv => HookRunsOnce
  <2>1. Cardinality({"current"}) = 1
    BY FS_Singleton
  <2> QED
    BY <2>1 DEF UpdateIInv, Dropins, HookRunsOnce
<1> QED
  BY <1>1, UpdateInvariance, PTL

-----------------------------------------------------------------------------
(* One updater.  Its pin is proven because nobody else moves HEAD between  *)
(* the self-check and the pin; what is served under a pin is one commit    *)
(* because HEAD only moves forward, so a checkout that has left the pinned *)
(* commit behind never comes back to it with another hook.                 *)

AlwaysChecks == \A flags \in Options : flags.proof

Steady ==
  /\ host.pin # 0 => host.pin <= host.hook /\ host.hook <= tree.head
  /\ AlwaysChecks => PinnedIsProven /\ \A u \in Updaters : update[u].flags.proof
  /\ \A u \in Updaters :
       /\ update[u].pc \in Checked /\ update[u].flags.proof => tree.head \in proven
       /\ update[u].pc \in Copied => host.hook = tree.head
       /\ update[u].pc = "pin" => update[u].expected = tree.head
       /\ update[u].pc = "reload" => host.pin = tree.head
       /\ update[u].pc = "clean" /\ update[u].flags.install =>
            host.pin = tree.head /\ host.hook = tree.head
       /\ update[u].pc \in Checked \cup {"proof"} /\ update[u].flags.ci =>
            tree.deps = tree.head
  /\ ServedIsOneCommit /\ CompletedIsAligned

LEMMA InitSteady == UpdateInit => Steady
BY DEF UpdateInit, Steady, PinnedIsProven, ServedIsOneCommit, CompletedIsAligned, Checked, Copied

LEMMA StepSteady ==
  ASSUME NEW U, Updaters = {U}, UpdateIInv, Steady, [UpdateNext]_updateVars
  PROVE  Steady'
<1> USE DEF Steady, AlwaysChecks, PinnedIsProven, ServedIsOneCommit, CompletedIsAligned, Checked, Copied
<1>0. /\ tree \in [head : Nat, fetched : Nat, dirty : BOOLEAN, deps : Nat]
      /\ host \in [hook : Nat, pin : Nat, dropins : SUBSET Dirs, loaded : SUBSET Dirs]
      /\ update \in [{U} -> [pc : Pcs, flags : Flags, expected : Nat]]
      /\ remote \in Nat /\ tree.head <= tree.fetched /\ tree.fetched <= remote
  BY ShadowUpdateAssumption DEF UpdateIInv, UpdateTyped, Ordered, Commits
<1>1. ASSUME StartUpdate(U) PROVE Steady'
  BY <1>0, <1>1 DEF StartUpdate
<1>2. ASSUME Fetch(U) PROVE Steady'
  BY <1>0, <1>2 DEF Fetch
<1>3. ASSUME Merge(U) PROVE Steady'
  BY <1>0, <1>3 DEF Merge
<1>4. ASSUME BeginCi(U) PROVE Steady'
  BY <1>0, <1>4 DEF BeginCi
<1>5. ASSUME EndCi(U) PROVE Steady'
  BY <1>0, <1>5 DEF EndCi
<1>6. ASSUME FullShadow(U) PROVE Steady'
  BY <1>0, <1>6 DEF FullShadow
<1>7. ASSUME FinishUpdate(U) PROVE Steady'
  BY <1>0, <1>7 DEF FinishUpdate, InPlace
<1>8. ASSUME InstallHook(U) PROVE Steady'
  BY <1>0, <1>8 DEF InstallHook
<1>9. ASSUME InstallDropin(U) PROVE Steady'
  BY <1>0, <1>9 DEF InstallDropin
<1>10. ASSUME RemoveLegacyDropins(U) PROVE Steady'
  BY <1>0, <1>10 DEF RemoveLegacyDropins
<1>11. ASSUME ReadExpectedCommit(U) PROVE Steady'
  BY <1>0, <1>11 DEF ReadExpectedCommit
<1>12. ASSUME WritePin(U) PROVE Steady'
  BY <1>0, <1>12 DEF WritePin
<1>13. ASSUME DaemonReload(U) PROVE Steady'
  BY <1>0, <1>13 DEF DaemonReload
<1>14. ASSUME Kill(U) PROVE Steady'
  BY <1>0, <1>14 DEF Kill
<1>15. CASE Push
  BY <1>0, <1>15 DEF Push
<1>16. CASE ByHand
  <2>1. CASE /\ tree' = [tree EXCEPT !.fetched = remote, !.head = remote]
             /\ \A u \in Updaters : update[u].pc = "off"
    <3>1. tree'.head = remote
      BY <1>0, <2>1
    <3> QED
      BY <1>0, <1>16, <2>1, <3>1 DEF ByHand
  <2>2. CASE tree' = [tree EXCEPT !.dirty = ~@]
    <3>1. tree'.head = tree.head /\ tree'.deps = tree.deps
      BY <1>0, <2>2
    <3> QED
      BY <1>0, <1>16, <3>1 DEF ByHand
  <2> QED
    BY <1>16, <2>1, <2>2 DEF ByHand
<1>17. CASE ExternalReload
  BY <1>0, <1>17 DEF ExternalReload
<1>18. CASE ServiceRunsHook
  BY <1>0, <1>18 DEF ServiceRunsHook
<1>19. CASE UNCHANGED updateVars
  BY <1>19 DEF updateVars
<1> QED
  BY <1>1, <1>2, <1>3, <1>4, <1>5, <1>6, <1>7, <1>8, <1>9, <1>10, <1>11, <1>12, <1>13,
     <1>14, <1>15, <1>16, <1>17, <1>18, <1>19 DEF UpdateNext

THEOREM SteadyAlways ==
  ASSUME NEW U, Updaters = {U}
  PROVE  UpdateSpec => []Steady
<1>1. UpdateInit => Steady
  BY InitSteady
<1>2. UpdateIInv /\ Steady /\ [UpdateNext]_updateVars => Steady'
  BY StepSteady
<1> QED
  BY <1>1, <1>2, UpdateInvariance, PTL DEF UpdateSpec

\* The proof runs before the refresh (update-vps-shadow.sh): with one updater
\* that does not skip the self-check the wrapper is only ever pinned to a
\* commit that passed it, wherever updates die.
THEOREM PinIsProven ==
  ASSUME NEW U, Updaters = {U}, AlwaysChecks
  PROVE  UpdateSpec => []PinnedIsProven
<1>1. Steady => PinnedIsProven
  BY DEF Steady
<1> QED
  BY <1>1, SteadyAlways, PTL

\* The hook is copied before the pin is written: what the wrapper lets run under
\* a pin is the hook of the commit that is pinned and checked out.
THEOREM ServedOneCommit ==
  ASSUME NEW U, Updaters = {U}
  PROVE  UpdateSpec => []ServedIsOneCommit
<1>1. Steady => ServedIsOneCommit
  BY DEF Steady
<1> QED
  BY <1>1, SteadyAlways, PTL

\* An update that ends with "ok" leaves checkout, packages, hook and pin at one
\* commit.
THEOREM CompletedAligned ==
  ASSUME NEW U, Updaters = {U}
  PROVE  UpdateSpec => []CompletedIsAligned
<1>1. Steady => CompletedIsAligned
  BY DEF Steady
<1> QED
  BY <1>1, SteadyAlways, PTL

-----------------------------------------------------------------------------
(* InboxWriters.  A run writes back what it has in memory, whatever the    *)
(* other runs did meanwhile, so the invariant says of the items in every   *)
(* process' memory what the properties say of the files: each is an item   *)
(* that a file may hold (Kept), and the file it is written to is open.     *)

\* An item of file o, given the digest lines on disk.
Kept(o, item, lines) ==
  /\ item \in W!Items
  /\ IsFiniteSet(item.keys) /\ item.keys # {} /\ item.count > 0
  /\ item.reported > 0 =>
       [name |-> o, count |-> item.reported, keys |-> item.told] \in lines
  /\ Group(o) \subseteq Urgent /\ item.reported = 0 => item.needed

Memory == UNION {[S -> W!Items] : S \in SUBSET Orders}

RunRecords ==
  [pc : {"idle", "orders", "publish", "mark"}, todo : Seq(Orders),
   held : Memory, visible : SUBSET Orders]

WritersTyped ==
  /\ inbox \in [Orders -> [state : {"absent", "open"}, item : W!Items]]
  /\ runs \in [Writers -> RunRecords]
  /\ rounds \in 0..MaxRounds

FilesKept == \A o \in OpenFiles : Kept(o, inbox[o].item, digests)

\* What a process would mark is what the digest it wrote shows.
MemoryKept(p) ==
  /\ runs[p].visible \subseteq DOMAIN runs[p].held
  /\ \A o \in DOMAIN runs[p].held : o \in OpenFiles /\ Kept(o, runs[p].held[o], digests)
  /\ runs[p].pc = "mark" =>
       \A o \in runs[p].visible : W!DigestLine(o, runs[p].held[o]) \in digests
  /\ runs[p].pc # "mark" => runs[p].visible = {}

WritersIInv == WritersTyped /\ FilesKept /\ \A p \in Writers : MemoryKept(p)

LEMMA WriterOrderFacts ==
  ASSUME NEW o \in Orders
  PROVE  /\ ToSet(o) \subseteq DOMAIN ClassOf
         /\ IsFiniteSet(ToSet(o)) /\ ToSet(o) # {}
         /\ Len(o) \in Nat /\ Len(o) > 0
<1>1. o \in Seq(DOMAIN ClassOf) \ {<<>>}
  <2>1. PICK review \in Reviews : o \in ToSet(review)
    BY DEF Orders
  <2>2. review \in Seq(Seq(DOMAIN ClassOf) \ {<<>>})
    BY InboxWritersAssumption
  <2>3. review \in [1..Len(review) -> Seq(DOMAIN ClassOf) \ {<<>>}]
    BY <2>2
  <2> QED
    BY <2>1, <2>3 DEF ToSet
<1>2. o \in [1..Len(o) -> DOMAIN ClassOf] /\ Len(o) \in Nat /\ Len(o) > 0
  BY <1>1
<1>3. ToSet(o) \subseteq DOMAIN ClassOf /\ o[1] \in ToSet(o)
  BY <1>2 DEF ToSet
<1>4. o \in Surjection(1..Len(o), ToSet(o))
  BY <1>2 DEF Surjection, ToSet
<1>5. IsFiniteSet(1..Len(o))
  <2>1. 1 \in Int /\ Len(o) \in Int
    BY <1>2
  <2> QED
    BY <2>1, FS_Interval, Zenon
<1> QED
  BY <1>2, <1>3, <1>4, <1>5, FS_Surjection

LEMMA WriterReviewFacts ==
  ASSUME NEW review \in Reviews
  PROVE  review \in Seq(Orders)
<1>1. review \in Seq(Seq(DOMAIN ClassOf) \ {<<>>})
  BY InboxWritersAssumption
<1>2. Len(review) \in Nat /\ DOMAIN review = 1..Len(review)
  BY <1>1
<1>3. \A n \in 1..Len(review) : review[n] \in Orders
  BY <1>2 DEF Orders, ToSet
<1> QED
  BY <1>1, <1>2, <1>3

\* Refreshing an item that has a count asks for the report of a P1 nobody told of.
LEMMA Refreshed ==
  ASSUME NEW o \in Orders, NEW item \in W!Items, NEW hot, item.count > 0
  PROVE  LET r == W!RefreshObservation(o, item, hot)
         IN  /\ r \in W!Items
             /\ r.keys = item.keys /\ r.count = item.count
             /\ r.reported = item.reported /\ r.told = item.told
             /\ Group(o) \subseteq Urgent /\ r.reported = 0 => r.needed
<1> DEFINE r == W!RefreshObservation(o, item, hot)
<1>1. r = [item EXCEPT !.needed = W!ReportNeeded(o, item, hot)]
  BY DEF W!RefreshObservation
<1>2. W!ReportNeeded(o, item, hot) \in BOOLEAN
  BY DEF W!ReportNeeded
<1>3. item.count \in Nat /\ item.reported \in Nat
  BY DEF W!Items
<1>4. Group(o) \subseteq Urgent /\ item.reported = 0 => W!ReportNeeded(o, item, hot)
  <2> SUFFICES ASSUME Group(o) \subseteq Urgent, item.reported = 0
               PROVE  W!ReportNeeded(o, item, hot)
    OBVIOUS
  <2>1. W!NewSinceLastReport(item) > 0
    BY <1>3 DEF W!NewSinceLastReport
  <2>2. W!IsUrgent(o)
    BY DEF W!IsUrgent, W!Group, Group, W!ToSet, ToSet
  <2> QED
    BY <2>1, <2>2 DEF W!ReportNeeded
<1>5. /\ r \in W!Items /\ r.needed = W!ReportNeeded(o, item, hot)
      /\ r.keys = item.keys /\ r.count = item.count
      /\ r.reported = item.reported /\ r.told = item.told
  BY <1>1, <1>2 DEF W!Items
<1> QED
  BY <1>4, <1>5

LEMMA BuiltIsKept ==
  ASSUME NEW o \in Orders, NEW hot, NEW lines
  PROVE  Kept(o, W!BuildAggregate(o, hot), lines)
<1> DEFINE base == [W!NoItem EXCEPT !.keys = ToSet(o), !.count = Len(o), !.timeline = Len(o)]
           item == W!BuildAggregate(o, hot)
<1>1. /\ base \in W!Items /\ base.keys = ToSet(o) /\ base.count = Len(o) /\ base.reported = 0
  BY WriterOrderFacts DEF W!NoItem, W!Items, W!Failures
<1>2. item = W!RefreshObservation(o, base, hot)
  BY DEF W!BuildAggregate, W!ToSet, ToSet
<1> HIDE DEF base, item
<1>3. /\ item \in W!Items /\ item.keys = ToSet(o) /\ item.count = Len(o) /\ item.reported = 0
      /\ Group(o) \subseteq Urgent /\ item.reported = 0 => item.needed
  BY <1>1, <1>2, WriterOrderFacts, Refreshed
<1>4. Kept(o, item, lines)
  BY <1>3, WriterOrderFacts DEF Kept
<1> QED
  BY <1>4 DEF item

LEMMA ReadIsKept ==
  ASSUME NEW o \in Orders, NEW item, NEW hot, NEW lines, Kept(o, item, lines)
  PROVE  Kept(o, W!RefreshObservation(o, item, hot), lines)
BY Refreshed DEF Kept

LEMMA MergedIsKept ==
  ASSUME NEW o \in Orders, NEW order \in Orders, NEW item, NEW hot, NEW lines,
         Kept(o, item, lines)
  PROVE  Kept(o, W!MergeIntoExistingItem(o, item, order, hot), lines)
<1> DEFINE keys == item.keys \cup ToSet(order)
           new == Cardinality(W!NewOccurrences(item, order))
           c == Cardinality(keys)
           n == item.timeline + new
           base == [item EXCEPT !.keys = keys, !.count = c, !.timeline = @ + new]
           r == W!MergeIntoExistingItem(o, item, order, hot)
<1>1. /\ item \in W!Items /\ item.timeline \in Nat /\ item.reported \in Nat
      /\ item.keys \subseteq DOMAIN ClassOf /\ IsFiniteSet(item.keys) /\ item.keys # {}
  BY DEF Kept, W!Items, W!Failures
<1>2. keys \subseteq DOMAIN ClassOf /\ IsFiniteSet(keys) /\ keys # {}
  BY <1>1, WriterOrderFacts, FS_Union
<1>3. c \in Nat /\ c > 0
  BY <1>2, FS_CardinalityType, FS_EmptySet
<1>4. new \in Nat
  <2>1. W!NewOccurrences(item, order) \subseteq 1..Len(order)
    <3>1. DOMAIN order = 1..Len(order)
      BY InboxWritersAssumption DEF Orders, ToSet
    <3> QED
      BY <3>1 DEF W!NewOccurrences
  <2>2. IsFiniteSet(1..Len(order))
    <3>1. 1 \in Int /\ Len(order) \in Int
      BY WriterOrderFacts
    <3> QED
      BY <3>1, FS_Interval, Zenon
  <2> QED
    BY <2>1, <2>2, FS_Subset, FS_CardinalityType
<1>5. n \in Nat
  BY <1>1, <1>4
<1>6. r = W!RefreshObservation(o, base, hot)
  BY DEF W!MergeIntoExistingItem, W!ToSet, ToSet, W!Cardinality, Cardinality
<1>6a. base = [item EXCEPT !.keys = keys, !.count = c, !.timeline = n]
  BY <1>1 DEF W!Items
<1> HIDE DEF r, c, n, keys, new, base
<1>7. /\ base \in W!Items /\ base.keys = keys /\ base.count = c
      /\ base.reported = item.reported /\ base.told = item.told
  BY <1>1, <1>2, <1>3, <1>5, <1>6a DEF W!Items, W!Failures
<1>8. /\ r \in W!Items /\ r.keys = keys /\ r.count = c
      /\ r.reported = item.reported /\ r.told = item.told
      /\ Group(o) \subseteq Urgent /\ r.reported = 0 => r.needed
  BY <1>3, <1>6, <1>7, Refreshed
<1>9. Kept(o, r, lines)
  BY <1>2, <1>3, <1>8 DEF Kept
<1> QED
  BY <1>9 DEF r

\* Marking an item that the digest on disk shows.
LEMMA MarkedIsKept ==
  ASSUME NEW o \in Orders, NEW item, NEW hot, NEW lines, Kept(o, item, lines),
         W!DigestLine(o, item) \in lines
  PROVE  Kept(o, W!MarkItemReported(o, item, hot), lines)
<1> DEFINE base == [item EXCEPT !.reported = item.count, !.told = item.keys]
           r == W!MarkItemReported(o, item, hot)
<1>1. item \in W!Items /\ item.count \in Nat /\ item.count > 0
  BY DEF Kept, W!Items
<1>2. /\ base \in W!Items /\ base.keys = item.keys /\ base.count = item.count
      /\ base.reported = item.count /\ base.told = item.keys
  BY <1>1 DEF W!Items
<1>3. r = W!RefreshObservation(o, base, hot)
  BY DEF W!MarkItemReported
<1> HIDE DEF base, r
<1>4. /\ r \in W!Items /\ r.keys = item.keys /\ r.count = item.count
      /\ r.reported = item.count /\ r.told = item.keys
      /\ Group(o) \subseteq Urgent /\ r.reported = 0 => r.needed
  BY <1>1, <1>2, <1>3, Refreshed
<1>5. Kept(o, r, lines)
  BY <1>1, <1>4 DEF Kept, W!DigestLine
<1> QED
  BY <1>5 DEF r

-----------------------------------------------------------------------------
(* What a step changes.                                                    *)

LEMMA KeptGrows ==
  ASSUME NEW o, NEW item, NEW few, NEW more, Kept(o, item, few), few \subseteq more
  PROVE  Kept(o, item, more)
BY DEF Kept

LEMMA MemoryFacts ==
  ASSUME NEW held \in Memory
  PROVE  /\ DOMAIN held \subseteq Orders
         /\ held \in [DOMAIN held -> W!Items]
<1>1. PICK S \in SUBSET Orders : held \in [S -> W!Items]
  BY DEF Memory
<1> QED
  BY <1>1

LEMMA IdleIsTyped == Idle \in RunRecords /\ DOMAIN Idle.held = {}
<1>1. <<>> \in Memory
  <2>1. <<>> \in [{} -> W!Items]
    OBVIOUS
  <2>2. {} \in SUBSET Orders
    OBVIOUS
  <2> QED
    BY <2>1, <2>2 DEF Memory
<1> QED
  BY <1>1 DEF Idle, RunRecords

\* A process moves on; what the others have in memory stays sound, for files
\* stay open and digests stay on disk.
LEMMA ProcessMoves ==
  ASSUME WritersIInv, NEW p \in Writers, NEW now \in RunRecords, Becomes(p, now),
         OpenFiles \subseteq OpenFiles', digests \subseteq digests'
  PROVE  /\ runs' \in [Writers -> RunRecords] /\ runs'[p] = now
         /\ \A q \in Writers : q # p => MemoryKept(q)'
<1>1. /\ runs' \in [Writers -> RunRecords] /\ runs'[p] = now
      /\ \A q \in Writers : q # p => runs'[q] = runs[q]
  BY DEF WritersIInv, WritersTyped, Becomes
<1>2. ASSUME NEW q \in Writers, q # p PROVE MemoryKept(q)'
  <2>1. MemoryKept(q) /\ runs'[q] = runs[q]
    BY <1>1, <1>2 DEF WritersIInv
  <2>2. \A o \in DOMAIN runs[q].held : Kept(o, runs[q].held[o], digests')
    BY <2>1, KeptGrows DEF MemoryKept
  <2> QED
    BY <2>1, <2>2 DEF MemoryKept, W!DigestLine
<1> QED
  BY <1>1, <1>2

\* A write leaves the file open with the item written.
LEMMA FileWritten ==
  ASSUME WritersIInv, NEW o \in Orders, NEW item, Kept(o, item, digests), Write(o, item),
         digests' = digests
  PROVE  /\ inbox' \in [Orders -> [state : {"absent", "open"}, item : W!Items]]
         /\ FilesKept' /\ OpenFiles' = OpenFiles \cup {o}
<1> DEFINE file == [state |-> "open", item |-> item]
<1>1. file \in [state : {"absent", "open"}, item : W!Items]
  BY DEF Kept
<1>2. inbox' = [inbox EXCEPT ![o] = file]
  BY DEF Write
<1>3. /\ inbox' \in [Orders -> [state : {"absent", "open"}, item : W!Items]]
      /\ inbox'[o] = file /\ \A n \in Orders : n # o => inbox'[n] = inbox[n]
  BY <1>1, <1>2 DEF WritersIInv, WritersTyped
<1>4. OpenFiles' = OpenFiles \cup {o}
  BY <1>3 DEF OpenFiles
<1>5. FilesKept'
  <2> SUFFICES ASSUME NEW n \in OpenFiles' PROVE Kept(n, inbox'[n].item, digests')
    BY DEF FilesKept
  <2>1. CASE n = o
    BY <1>3, <2>1
  <2>2. CASE n # o
    BY <1>3, <1>4, <2>2 DEF WritersIInv, FilesKept, OpenFiles
  <2> QED
    BY <2>1, <2>2
<1> QED
  BY <1>3, <1>4, <1>5

\* An item read from an open file.
LEMMA ReadFile ==
  ASSUME WritersIInv, NEW o \in OpenFiles, NEW hot
  PROVE  o \in Orders /\ Kept(o, W!ReadItem(o, hot), digests)
<1>1. o \in Orders /\ Kept(o, inbox[o].item, digests)
  BY DEF WritersIInv, FilesKept, OpenFiles
<1>2. Kept(o, W!RefreshObservation(o, inbox[o].item, o \in hot), digests)
  BY <1>1, ReadIsKept
<1> QED
  BY <1>1, <1>2 DEF W!ReadItem

LEMMA ReadFiles ==
  ASSUME WritersIInv, NEW S \in SUBSET OpenFiles
  PROVE  LET held == [o \in S |-> W!ReadItem(o, {})]
         IN  /\ held \in Memory /\ DOMAIN held = S
             /\ \A o \in S : Kept(o, held[o], digests)
<1> DEFINE held == [o \in S |-> W!ReadItem(o, {})]
<1>1. \A o \in S : o \in Orders /\ Kept(o, W!ReadItem(o, {}), digests)
  BY ReadFile
<1>2. held \in [S -> W!Items] /\ S \in SUBSET Orders
  BY <1>1 DEF Kept
<1> QED
  BY <1>1, <1>2 DEF Memory

LEMMA FirstAreOpen == W!FirstOfGroups \subseteq OpenFiles
<1>1. W!OpenFiles = OpenFiles
  BY DEF W!OpenFiles, OpenFiles, W!Orders, Orders, W!ToSet, ToSet
<1>2. \A g \in {W!Group(o) : o \in OpenFiles} :
        (CHOOSE o \in OpenFiles : W!Group(o) = g) \in OpenFiles
  OBVIOUS
<1> QED
  BY <1>1, <1>2 DEF W!FirstOfGroups

LEMMA InitWriters == WritersInit => WritersIInv
<1> SUFFICES ASSUME WritersInit PROVE WritersIInv
  OBVIOUS
<1>1. [keys |-> {}, count |-> 0, timeline |-> 0, reported |-> 0, needed |-> FALSE, told |-> {}]
        \in W!Items
  BY DEF W!Items
<1>2. inbox \in [Orders -> [state : {"absent", "open"}, item : W!Items]] /\ OpenFiles = {}
  BY <1>1 DEF WritersInit, OpenFiles
<1>3. WritersTyped
  BY <1>2, IdleIsTyped, InboxWritersAssumption DEF WritersInit, WritersTyped
<1>4. \A p \in Writers : MemoryKept(p)
  BY IdleIsTyped DEF WritersInit, MemoryKept, Idle
<1> QED
  BY <1>2, <1>3, <1>4 DEF WritersIInv, FilesKept

-----------------------------------------------------------------------------
(* The steps.                                                              *)

LEMMA StartRunKeeps ==
  ASSUME WritersIInv, NEW p \in Writers, StartRun(p)
  PROVE  WritersIInv'
<1> DEFINE held == [o \in W!FirstOfGroups |-> W!ReadItem(o, {})]
<1>1. PICK review \in Reviews :
        Becomes(p, [Idle EXCEPT !.pc = "orders", !.todo = review, !.held = held])
  BY DEF StartRun
<1> DEFINE now == [Idle EXCEPT !.pc = "orders", !.todo = review, !.held = held]
<1>2. /\ held \in Memory /\ DOMAIN held \subseteq OpenFiles
      /\ \A o \in DOMAIN held : Kept(o, held[o], digests)
  BY FirstAreOpen, ReadFiles
<1> HIDE DEF held
<1>3. /\ now \in RunRecords /\ now.pc = "orders" /\ now.held = held /\ now.visible = {}
  BY <1>2, IdleIsTyped, WriterReviewFacts DEF RunRecords, Idle
<1> HIDE DEF now
<1>4. inbox' = inbox /\ digests' = digests /\ OpenFiles' = OpenFiles /\ rounds' \in 0..MaxRounds
  BY InboxWritersAssumption DEF StartRun, OpenFiles, WritersIInv, WritersTyped
<1>5. Becomes(p, now)
  BY <1>1 DEF now
<1>6. /\ runs' \in [Writers -> RunRecords] /\ runs'[p] = now
      /\ \A q \in Writers : q # p => MemoryKept(q)'
  BY <1>3, <1>4, <1>5, ProcessMoves
<1>7. MemoryKept(p)'
  BY <1>2, <1>3, <1>4, <1>6 DEF MemoryKept
<1> QED
  BY <1>4, <1>6, <1>7 DEF WritersIInv, WritersTyped, FilesKept

\* A step of a process in "orders" that drops the order and, when it writes,
\* keeps what it wrote in memory.
LEMMA SkipKeeps ==
  ASSUME WritersIInv, NEW p \in Writers, runs[p].pc = "orders", runs[p].todo # <<>>,
         Skips(p), UNCHANGED <<rounds, digests>>
  PROVE  WritersIInv'
<1> DEFINE now == [runs[p] EXCEPT !.todo = Tail(@)]
<1>1. runs[p] \in RunRecords /\ MemoryKept(p)
  BY DEF WritersIInv, WritersTyped
<1>2. Becomes(p, now) /\ inbox' = inbox /\ OpenFiles' = OpenFiles
  BY DEF Skips, Run, OpenFiles
<1>3. now \in RunRecords /\ now.pc = "orders" /\ now.held = runs[p].held /\ now.visible = runs[p].visible
  <2>1. runs[p].todo \in Seq(Orders)
    BY <1>1 DEF RunRecords
  <2>2. Tail(runs[p].todo) \in Seq(Orders)
    BY <2>1
  <2> QED
    BY <1>1, <2>2 DEF RunRecords
<1> HIDE DEF now
<1>4. /\ runs' \in [Writers -> RunRecords] /\ runs'[p] = now
      /\ \A q \in Writers : q # p => MemoryKept(q)'
  BY <1>2, <1>3, ProcessMoves
<1>5. MemoryKept(p)'
  BY <1>1, <1>2, <1>3, <1>4 DEF MemoryKept
<1> QED
  BY <1>2, <1>4, <1>5 DEF WritersIInv, WritersTyped, FilesKept

LEMMA WriteKeeps ==
  ASSUME WritersIInv, NEW p \in Writers, runs[p].pc = "orders", runs[p].todo # <<>>,
         NEW o \in Orders, NEW item, Kept(o, item, digests),
         Writes(p, o, item), UNCHANGED <<rounds, digests>>
  PROVE  WritersIInv'
<1> DEFINE held == [n \in DOMAIN runs[p].held \cup {o} |-> IF n = o THEN item ELSE runs[p].held[n]]
           now == [runs[p] EXCEPT !.todo = Tail(@), !.held = held]
<1>1. runs[p] \in RunRecords /\ MemoryKept(p) /\ runs[p].held \in Memory
  BY DEF WritersIInv, WritersTyped, RunRecords
<1>2. held \in Memory
  <2>1. DOMAIN runs[p].held \cup {o} \in SUBSET Orders
    BY <1>1, MemoryFacts
  <2>2. held \in [DOMAIN runs[p].held \cup {o} -> W!Items]
    BY <1>1, MemoryFacts DEF Kept
  <2> QED
    BY <2>1, <2>2 DEF Memory
<1>3. /\ inbox' \in [Orders -> [state : {"absent", "open"}, item : W!Items]]
      /\ FilesKept' /\ OpenFiles' = OpenFiles \cup {o}
  BY FileWritten DEF Writes
<1>4. \A n \in DOMAIN held : n \in OpenFiles' /\ Kept(n, held[n], digests)
  BY <1>1, <1>3 DEF MemoryKept
<1>5. DOMAIN runs[p].held \subseteq DOMAIN held
  OBVIOUS
<1>6. Becomes(p, now)
  <2>1. now = [runs[p] EXCEPT !.todo = Tail(@),
                 !.held = [n \in DOMAIN @ \cup {o} |-> IF n = o THEN item ELSE @[n]]]
    BY <1>1 DEF RunRecords
  <2> QED
    BY <2>1 DEF Writes, Run
<1> HIDE DEF held
<1>7. now \in RunRecords /\ now.pc = "orders" /\ now.held = held /\ now.visible = runs[p].visible
  <2>1. runs[p].todo \in Seq(Orders) /\ Tail(runs[p].todo) \in Seq(Orders)
    BY <1>1 DEF RunRecords
  <2> QED
    BY <1>1, <1>2, <2>1 DEF RunRecords
<1> HIDE DEF now
<1>8. /\ runs' \in [Writers -> RunRecords] /\ runs'[p] = now
      /\ \A q \in Writers : q # p => MemoryKept(q)'
  BY <1>3, <1>6, <1>7, ProcessMoves
<1>9. MemoryKept(p)'
  BY <1>1, <1>4, <1>5, <1>7, <1>8 DEF MemoryKept
<1> QED
  BY <1>3, <1>8, <1>9 DEF WritersIInv, WritersTyped

LEMMA ExportOrderKeeps ==
  ASSUME WritersIInv, NEW p \in Writers, ExportOrder(p)
  PROVE  WritersIInv'
<1> DEFINE order == Head(runs[p].todo)
           same == W!Matching(runs[p].held, order)
<1>1. /\ runs[p].pc = "orders" /\ runs[p].todo # <<>> /\ UNCHANGED <<rounds, digests>>
      /\ \/ same = {} /\ Writes(p, order, W!BuildAggregate(order, FALSE))
         \/ Skips(p)
         \/ \E o \in same :
              Writes(p, o, W!MergeIntoExistingItem(o, runs[p].held[o], order, FALSE))
  BY DEF ExportOrder, Run
<1>2. runs[p].todo \in Seq(Orders) /\ MemoryKept(p) /\ runs[p].held \in Memory
  BY DEF WritersIInv, WritersTyped, RunRecords
<1>3. order \in Orders
  BY <1>1, <1>2
<1>4. \A o \in same : o \in Orders /\ Kept(o, runs[p].held[o], digests)
  BY <1>2, MemoryFacts DEF W!Matching, MemoryKept
<1> HIDE DEF order, same
<1>5. CASE Skips(p)
  BY <1>1, <1>5, SkipKeeps
<1>6. CASE Writes(p, order, W!BuildAggregate(order, FALSE))
  BY <1>1, <1>3, <1>6, BuiltIsKept, WriteKeeps
<1>7. ASSUME NEW o \in same,
             Writes(p, o, W!MergeIntoExistingItem(o, runs[p].held[o], order, FALSE))
      PROVE  WritersIInv'
  <2>1. o \in Orders /\ Kept(o, W!MergeIntoExistingItem(o, runs[p].held[o], order, FALSE), digests)
    BY <1>3, <1>4, <1>7, MergedIsKept
  <2> QED
    BY <1>1, <1>7, <2>1, WriteKeeps
<1> QED
  BY <1>1, <1>5, <1>6, <1>7

LEMMA StartDigestKeeps ==
  ASSUME WritersIInv, NEW p \in Writers, StartDigest(p)
  PROVE  WritersIInv'
<1> DEFINE entries == {o \in W!OpenFiles : W!ReadItem(o, {}).needed}
           held == [o \in entries |-> W!ReadItem(o, {})]
           now == [Idle EXCEPT !.pc = "publish", !.held = held]
<1>1. entries \subseteq OpenFiles
  BY DEF W!OpenFiles, OpenFiles, W!Orders, Orders, W!ToSet, ToSet
<1>2. Becomes(p, now) /\ inbox' = inbox /\ digests' = digests /\ rounds' = rounds
      /\ OpenFiles' = OpenFiles
  BY DEF StartDigest, OpenFiles
<1> HIDE DEF entries
<1>3. /\ held \in Memory /\ DOMAIN held \subseteq OpenFiles
      /\ \A o \in DOMAIN held : Kept(o, held[o], digests)
  BY <1>1, ReadFiles
<1> HIDE DEF held
<1>4. now \in RunRecords /\ now.pc = "publish" /\ now.held = held /\ now.visible = {}
  BY <1>3, IdleIsTyped DEF RunRecords, Idle
<1> HIDE DEF now
<1>5. /\ runs' \in [Writers -> RunRecords] /\ runs'[p] = now
      /\ \A q \in Writers : q # p => MemoryKept(q)'
  BY <1>2, <1>4, ProcessMoves
<1>6. MemoryKept(p)'
  BY <1>2, <1>3, <1>4, <1>5 DEF MemoryKept
<1> QED
  BY <1>2, <1>5, <1>6 DEF WritersIInv, WritersTyped, FilesKept

LEMMA PublishKeeps ==
  ASSUME WritersIInv, NEW p \in Writers, Publish(p)
  PROVE  WritersIInv'
<1>1. PICK shown \in W!VisibleItems(runs[p].held) :
        /\ digests' = digests \cup {W!DigestLine(o, runs[p].held[o]) : o \in shown}
        /\ Becomes(p, [runs[p] EXCEPT !.pc = "mark", !.visible = shown])
  BY Zenon DEF Publish, Run
<1> DEFINE now == [runs[p] EXCEPT !.pc = "mark", !.visible = shown]
<1>2. runs[p] \in RunRecords /\ MemoryKept(p)
  BY DEF WritersIInv, WritersTyped
<1>3. shown \subseteq DOMAIN runs[p].held /\ shown \subseteq Orders
  BY <1>2, MemoryFacts DEF W!VisibleItems, RunRecords
<1>4. inbox' = inbox /\ rounds' = rounds /\ OpenFiles' = OpenFiles /\ digests \subseteq digests'
  BY <1>1 DEF Publish, OpenFiles
<1>5. now \in RunRecords /\ now.pc = "mark" /\ now.held = runs[p].held /\ now.visible = shown
  BY <1>2, <1>3 DEF RunRecords
<1>6. Becomes(p, now)
  BY <1>1
<1> HIDE DEF now
<1>7. /\ runs' \in [Writers -> RunRecords] /\ runs'[p] = now
      /\ \A q \in Writers : q # p => MemoryKept(q)'
  BY <1>4, <1>5, <1>6, ProcessMoves
<1>8. \A o \in DOMAIN now.held : o \in OpenFiles' /\ Kept(o, now.held[o], digests')
  BY <1>2, <1>4, <1>5, KeptGrows DEF MemoryKept
<1>9. \A o \in shown : W!DigestLine(o, now.held[o]) \in digests'
  BY <1>1, <1>5
<1>10. MemoryKept(p)'
  BY <1>3, <1>5, <1>7, <1>8, <1>9 DEF MemoryKept, W!DigestLine
<1>11. FilesKept'
  BY <1>4, KeptGrows DEF WritersIInv, FilesKept
<1> QED
  BY <1>4, <1>7, <1>10, <1>11 DEF WritersIInv, WritersTyped

LEMMA MarkReportedKeeps ==
  ASSUME WritersIInv, NEW p \in Writers, MarkReported(p)
  PROVE  WritersIInv'
<1>1. PICK o \in runs[p].visible :
        /\ Write(o, W!MarkItemReported(o, runs[p].held[o], FALSE))
        /\ Becomes(p, [runs[p] EXCEPT !.visible = @ \ {o}])
  BY DEF MarkReported, Run
<1> DEFINE now == [runs[p] EXCEPT !.visible = @ \ {o}]
           item == W!MarkItemReported(o, runs[p].held[o], FALSE)
<1>2. runs[p] \in RunRecords /\ MemoryKept(p) /\ runs[p].pc = "mark"
  BY DEF WritersIInv, WritersTyped, MarkReported, Run
<1>3. /\ o \in Orders /\ o \in OpenFiles /\ Kept(o, runs[p].held[o], digests)
      /\ W!DigestLine(o, runs[p].held[o]) \in digests
  BY <1>2 DEF MemoryKept, RunRecords
<1>4. Kept(o, item, digests)
  BY <1>3, MarkedIsKept
<1>5. digests' = digests /\ rounds' = rounds /\ Write(o, item) /\ Becomes(p, now)
  BY <1>1 DEF MarkReported
<1>6. now \in RunRecords /\ now.pc = "mark" /\ now.held = runs[p].held
      /\ now.visible \subseteq runs[p].visible
  BY <1>2 DEF RunRecords
<1> HIDE DEF now, item
<1>7. /\ inbox' \in [Orders -> [state : {"absent", "open"}, item : W!Items]]
      /\ FilesKept' /\ OpenFiles' = OpenFiles
  BY <1>3, <1>4, <1>5, FileWritten
<1>8. /\ runs' \in [Writers -> RunRecords] /\ runs'[p] = now
      /\ \A q \in Writers : q # p => MemoryKept(q)'
  BY <1>5, <1>6, <1>7, ProcessMoves
<1>9. MemoryKept(p)'
  BY <1>2, <1>5, <1>6, <1>7, <1>8 DEF MemoryKept, W!DigestLine
<1> QED
  BY <1>5, <1>7, <1>8, <1>9 DEF WritersIInv, WritersTyped

LEMMA EndRunKeeps ==
  ASSUME WritersIInv, NEW p \in Writers, EndRun(p)
  PROVE  WritersIInv'
<1>1. Becomes(p, Idle) /\ UNCHANGED <<inbox, rounds, digests>> /\ OpenFiles' = OpenFiles
  BY DEF EndRun, OpenFiles
<1>2. /\ runs' \in [Writers -> RunRecords] /\ runs'[p] = Idle
      /\ \A q \in Writers : q # p => MemoryKept(q)'
  BY <1>1, IdleIsTyped, ProcessMoves
<1>3. MemoryKept(p)'
  BY <1>2, IdleIsTyped DEF MemoryKept, Idle
<1> QED
  BY <1>1, <1>2, <1>3 DEF WritersIInv, WritersTyped, FilesKept

LEMMA StepWriters == WritersIInv /\ [WritersNext]_writersVars => WritersIInv'
<1> SUFFICES ASSUME WritersIInv, [WritersNext]_writersVars PROVE WritersIInv'
  OBVIOUS
<1>1. ASSUME NEW p \in Writers, StartRun(p) PROVE WritersIInv'
  BY <1>1, StartRunKeeps
<1>2. ASSUME NEW p \in Writers, ExportOrder(p) PROVE WritersIInv'
  BY <1>2, ExportOrderKeeps
<1>3. ASSUME NEW p \in Writers, StartDigest(p) PROVE WritersIInv'
  BY <1>3, StartDigestKeeps
<1>4. ASSUME NEW p \in Writers, Publish(p) PROVE WritersIInv'
  BY <1>4, PublishKeeps
<1>5. ASSUME NEW p \in Writers, MarkReported(p) PROVE WritersIInv'
  BY <1>5, MarkReportedKeeps
<1>6. ASSUME NEW p \in Writers, EndRun(p) PROVE WritersIInv'
  BY <1>6, EndRunKeeps
<1>7. CASE UNCHANGED writersVars
  BY <1>7 DEF writersVars, WritersIInv, WritersTyped, FilesKept, MemoryKept, OpenFiles, W!DigestLine
<1> QED
  BY <1>1, <1>2, <1>3, <1>4, <1>5, <1>6, <1>7 DEF WritersNext

THEOREM WritersInvariance == WritersSpec => []WritersIInv
<1>1. WritersInit => WritersIInv
  BY InitWriters
<1>2. WritersIInv /\ [WritersNext]_writersVars => WritersIInv'
  BY StepWriters
<1> QED
  BY <1>1, <1>2, PTL DEF WritersSpec

\* Two or more runs of the inbox at once keep their shape: what a run marks is
\* in its memory, and the file it writes back is still there.
THEOREM WritersTypeCorrect == WritersSpec => []WritersTypeOK
<1>1. WritersIInv => WritersTypeOK
  BY DEF WritersIInv, WritersTyped, RunRecords, MemoryKept, WritersTypeOK
<1> QED
  BY <1>1, WritersInvariance, PTL

\* markInboxEntriesReported writes back the item that the digest was made from:
\* with any number of runs at once, an item says it was reported only if a
\* digest shows it with that count and that evidence.
THEOREM WritersReport == WritersSpec => []ReportedWasDigested
<1>1. WritersIInv => ReportedWasDigested
  BY DEF WritersIInv, FilesKept, Kept, ReportedWasDigested
<1> QED
  BY <1>1, WritersInvariance, PTL

\* Every write refreshes the item first: whichever run is the last to write an
\* item of severity P1 that was never reported, it still asks to be.
THEOREM WritersKeepUrgentDue == WritersSpec => []UrgentStaysDue
<1>1. WritersIInv => UrgentStaysDue
  BY DEF WritersIInv, FilesKept, Kept, UrgentStaysDue
<1> QED
  BY <1>1, WritersInvariance, PTL

-----------------------------------------------------------------------------
(* The host.  Whichever program a behaviour is about, it is a behaviour of *)
(* each of the three, for the other two stand still.                       *)

THEOREM HostImplements == HostSpec => Spec /\ UpdateSpec /\ WritersSpec
<1>1. HostInit => Init /\ UpdateInit /\ WritersInit
  BY DEF HostInit
<1>2. [HostNext]_<<part, vars, updateVars, writersVars>>
        => [Next]_vars /\ [UpdateNext]_updateVars /\ [WritersNext]_writersVars
  BY DEF HostNext, Deploying, Updating, Exporting
<1> QED
  BY <1>1, <1>2, PTL DEF HostSpec, Spec, UpdateSpec, WritersSpec

\* MCShadowHost, for every value of the constants: deploys, updates and inbox
\* runs keep their shape, an update that ended well leaves the hook in one
\* drop-in, and what the inbox says was reported is in a digest.
THEOREM HostOrderKept == HostSpec => []HostKeepsOrder
<1>1. TypeOK /\ UpdateTypeOK /\ WritersTypeOK /\ HookRunsOnce /\ ReportedWasDigested
        /\ UrgentStaysDue => HostKeepsOrder
  BY DEF HostKeepsOrder
<1> QED
  BY <1>1, HostImplements, TypeCorrect, UpdateTypeCorrect, HookIsRunOnce, WritersTypeCorrect,
     WritersReport, WritersKeepUrgentDue, PTL
=============================================================================
