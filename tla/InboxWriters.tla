------------------------------ MODULE InboxWriters ------------------------------
(***************************************************************************)
(* Two runs of the work order inbox at once: the review hook's, and one    *)
(* started by hand or by the full shadow deploy when it is given the same  *)
(* root (scripts/full-shadow-deploy.mjs).  Each exports a review and then  *)
(* writes the owner digest, as in WorkOrderInbox, whose operators are used *)
(* here; each keeps the items it read in memory and writes them back later *)
(* without a lock, so a write may undo one of the other run.               *)
(*                                                                         *)
(* Left out, being in WorkOrderInbox: claims, deaths and torn files, and   *)
(* occurrences less than an hour old.                                      *)
(* Bounds: MaxRounds runs in all.                                          *)
(***************************************************************************)
EXTENDS Naturals, FiniteSets, Sequences, SequencesExt

CONSTANTS Reviews, ClassOf, Urgent, Threshold, MaxItems,   \* as in WorkOrderInbox
          Writers,      \* the processes
          MaxRounds     \* bound: runs started

VARIABLES
  inbox,      \* per file name, as in WorkOrderInbox
  runs,       \* per process: where it stands and what it has in memory
  rounds,     \* runs started, of MaxRounds
  \* A history variable: it records what happened and guards nothing.
  digests     \* every line of an owner digest written

writersVars == <<inbox, runs, rounds, digests>>

\* Of its state, the operators used here read the inbox only.
W == INSTANCE WorkOrderInbox WITH
       MaxClaims <- 0, MaxCrashes <- 0,
       run <- <<>>, claims <- 0, crashes <- 0, handed <- {}, damaged <- {}, exported <- {}

ASSUME InboxWritersAssumption ==
  /\ Reviews \subseteq Seq(Seq(DOMAIN ClassOf) \ {<<>>})
  /\ Threshold \in Nat \ {0} /\ MaxItems \in Nat \ {0} /\ MaxRounds \in Nat

Orders == UNION {ToSet(review) : review \in Reviews}
Idle == [pc |-> "idle", todo |-> <<>>, held |-> <<>>, visible |-> {}]

WritersInit ==
  /\ inbox = [o \in Orders |-> [state |-> "absent",
                item |-> [keys |-> {}, count |-> 0, timeline |-> 0, reported |-> 0,
                          needed |-> FALSE, told |-> {}]]]
  /\ runs = [p \in Writers |-> Idle] /\ rounds = 0
  /\ digests = {}

Run(p) == runs[p]
Becomes(p, run) == runs' = [runs EXCEPT ![p] = run]
Write(o, item) == inbox' = [inbox EXCEPT ![o] = [state |-> "open", item |-> item]]

-----------------------------------------------------------------------------

StartRun(p) ==
  /\ Run(p).pc = "idle" /\ rounds < MaxRounds /\ rounds' = rounds + 1
  /\ \E review \in Reviews :
       Becomes(p, [Idle EXCEPT !.pc = "orders", !.todo = review,
                     !.held = [o \in W!FirstOfGroups |-> W!ReadItem(o, {})]])
  /\ UNCHANGED <<inbox, digests>>

Skips(p) == Becomes(p, [Run(p) EXCEPT !.todo = Tail(@)]) /\ UNCHANGED inbox

Writes(p, o, item) ==
  /\ Write(o, item)
  /\ Becomes(p, [Run(p) EXCEPT !.todo = Tail(@),
                   !.held = [n \in DOMAIN @ \cup {o} |-> IF n = o THEN item ELSE @[n]]])

\* What the run has in memory decides whether an order is merged or new; a new
\* one is written with "wx", so a file the other run wrote stays as it is.
ExportOrder(p) ==
  /\ Run(p).pc = "orders" /\ Run(p).todo # <<>>
  /\ LET order == Head(Run(p).todo)
         same == W!Matching(Run(p).held, order)
     IN  \/ /\ same = {} /\ inbox[order].state = "absent"
            /\ Writes(p, order, W!BuildAggregate(order, FALSE))
         \/ /\ same = {} /\ inbox[order].state # "absent" /\ Skips(p)
         \/ \E o \in same :
              IF W!NewOccurrences(Run(p).held[o], order) = {} THEN Skips(p)
              ELSE Writes(p, o, W!MergeIntoExistingItem(o, Run(p).held[o], order, FALSE))
  /\ UNCHANGED <<rounds, digests>>

StartDigest(p) ==
  /\ Run(p).pc = "orders" /\ Run(p).todo = <<>>
  /\ LET entries == {o \in W!OpenFiles : W!ReadItem(o, {}).needed}
     IN  Becomes(p, [Idle EXCEPT !.pc = "publish",
                       !.held = [o \in entries |-> W!ReadItem(o, {})]])
  /\ UNCHANGED <<inbox, rounds, digests>>

Publish(p) ==
  /\ Run(p).pc = "publish"
  /\ \E shown \in W!VisibleItems(Run(p).held) :
       /\ digests' = digests \cup {W!DigestLine(o, Run(p).held[o]) : o \in shown}
       /\ Becomes(p, [Run(p) EXCEPT !.pc = "mark", !.visible = shown])
  /\ UNCHANGED <<inbox, rounds>>

\* Mutant: reads the item again and marks what is on disk by now.
MarkReportedMutant(p) ==
  /\ Run(p).pc = "mark"
  /\ \E o \in Run(p).visible :
       /\ Write(o, W!MarkItemReported(o, inbox[o].item, FALSE))
       /\ Becomes(p, [Run(p) EXCEPT !.visible = @ \ {o}])
  /\ UNCHANGED <<rounds, digests>>

MarkReported(p) ==
  /\ Run(p).pc = "mark"
  /\ \E o \in Run(p).visible :
       /\ Write(o, W!MarkItemReported(o, Run(p).held[o], FALSE))
       /\ Becomes(p, [Run(p) EXCEPT !.visible = @ \ {o}])
  /\ UNCHANGED <<rounds, digests>>

EndRun(p) ==
  /\ Run(p).pc = "mark" /\ Run(p).visible = {} /\ Becomes(p, Idle)
  /\ UNCHANGED <<inbox, rounds, digests>>

WritersNext ==
  \E p \in Writers :
    \/ StartRun(p) \/ ExportOrder(p) \/ StartDigest(p)
    \/ Publish(p) \/ MarkReported(p) \/ EndRun(p)

WritersSpec == WritersInit /\ [][WritersNext]_writersVars

-----------------------------------------------------------------------------
(* Properties.                                                             *)

OpenFiles == {o \in Orders : inbox[o].state = "open"}
Group(order) == {ClassOf[f] : f \in ToSet(order)}

\* Every process keeps its shape, and what it marks is in its memory; a file
\* that was written stays open, whoever writes it.
WritersTypeOK ==
  /\ rounds \in 0..MaxRounds
  /\ \A p \in Writers :
       /\ runs[p].pc \in {"idle", "orders", "publish", "mark"}
       /\ runs[p].visible \subseteq DOMAIN runs[p].held
       /\ DOMAIN runs[p].held \subseteq OpenFiles

\* Also with two runs, an item says it was reported only if a digest shows it
\* with that count and that evidence: the stale item that is written back is
\* the one the digest was made from.
ReportedWasDigested ==
  \A o \in OpenFiles :
    LET item == inbox[o].item
    IN  item.reported > 0 =>
          [name |-> o, count |-> item.reported, keys |-> item.told] \in digests

\* Whichever run writes an item last, one of severity P1 that was never
\* reported asks to be: lost updates cost evidence, never the first report.
UrgentStaysDue ==
  \A o \in OpenFiles :
    Group(o) \subseteq Urgent /\ inbox[o].item.reported = 0 => inbox[o].item.needed
=================================================================================
