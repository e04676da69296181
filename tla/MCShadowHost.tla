----------------------------- MODULE MCShadowHost -----------------------------
(***************************************************************************)
(* The programs that keep a shadow host, for TLC: the deploy, the update   *)
(* and two runs of the work order inbox at once.  Their files are not the  *)
(* same, so a behaviour is about one of them, and the others stay as they  *)
(* began.  The bounds are those of the three modules.                      *)
(***************************************************************************)
EXTENDS ShadowDeploy, ShadowUpdate, InboxWriters, TLC

VARIABLE part      \* the program this behaviour is about

\* Deploys in which nothing fails, or one part does.
MCFaults == {{}} \cup {{failing} : failing \in Parts}

\* Complete updates, and one with each step but the proof skipped.
MCOptions ==
  {NoFlags, [NoFlags EXCEPT !.pull = FALSE], [NoFlags EXCEPT !.ci = FALSE],
   [NoFlags EXCEPT !.install = FALSE]}
MCBroken == {3}

\* Three timeouts, of severity P1, and two findings of a class that is not urgent.
MCClassOf == [t1 |-> "timeout", t2 |-> "timeout", t3 |-> "timeout",
              g1 |-> "gap", g2 |-> "gap"]
MCUrgent == {"timeout"}
MCReviews == {<< <<"t1">> >>, << <<"t2", "t3">>, <<"g1", "g2">> >>, << <<"t1", "t2">>, <<"g1">> >>}

HostInit ==
  /\ part \in {"deploy", "update", "inbox"}
  /\ Init /\ UpdateInit /\ WritersInit
  /\ part # "update" => host.pin = 0

Deploying == part = "deploy" /\ Next /\ UNCHANGED <<part, updateVars, writersVars>>
Updating == part = "update" /\ UpdateNext /\ UNCHANGED <<part, vars, writersVars>>
Exporting == part = "inbox" /\ WritersNext /\ UNCHANGED <<part, vars, updateVars>>

HostNext == Deploying \/ Updating \/ Exporting

HostSpec == HostInit /\ [][HostNext]_<<part, vars, updateVars, writersVars>>

-----------------------------------------------------------------------------
\* What the three modules call types; once an update ended well the hook is in
\* one drop-in, so that one service run does not run it twice (changelog
\* v0.27.3); and the digest of two inbox runs still shows what the items say
\* was reported, and what is urgent and unreported stays due.
HostKeepsOrder ==
  /\ TypeOK /\ UpdateTypeOK /\ WritersTypeOK
  /\ HookRunsOnce
  /\ ReportedWasDigested /\ UrgentStaysDue
===============================================================================
