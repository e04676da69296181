-------------------------- MODULE MCWorkOrderInbox --------------------------
(* WorkOrderInbox for TLC: four failed sessions, three timeouts and one      *)
(* unreadable answer, and a finding of low severity without failed sessions. *)
EXTENDS WorkOrderInbox, TLC

MCClassOf == [t1 |-> "timeout", t2 |-> "timeout", t3 |-> "timeout",
              p |-> "parse", gap |-> "gap"]
MCUrgent == {"timeout", "parse"}

\* For safety: the last review lists a failure twice (two sessions without an
\* id that failed for the same reason have one occurrence key), the third has
\* failures of two classes, a group of its own.
MCReviews ==
  {<< <<"t1">> >>, << <<"t2", "t3">>, <<"gap">> >>, << <<"t1", "p">> >>,
   << <<"t1", "t1">> >>}

\* For liveness: two groups of severity P1 and one that is not.
MCFewReviews == {<< <<"t1">>, <<"p">> >>, << <<"t2", "t3">> >>, << <<"gap">> >>}
=============================================================================
