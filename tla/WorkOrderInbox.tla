--------------------------- MODULE WorkOrderInbox ---------------------------
(***************************************************************************)
(* The work order inbox of scripts/lib/work-order-inbox.mjs, a directory   *)
(* of JSON files.  The session distiller's hook fills it: one process runs *)
(* exportReviewWorkOrdersToInbox, which merges an order into the open item *)
(* of its dedupe group or writes a new item, and then a second one runs    *)
(* exportInboxOwnerDigest, which writes the digest of the items that need  *)
(* reporting and marks those it shows as reported.  Both read every item   *)
(* first and write them back later, from memory, without a lock; agents    *)
(* claim items in the meantime (external: only the directories and the     *)
(* lifecycle field say how).  The hook may die at any step, also inside a  *)
(* write, which leaves a file that does not parse.                         *)
(*                                                                         *)
(* Abstracted: an order is the list of its failures, and a finding without *)
(* failed sessions is a failure with a class of its own (its "exact"       *)
(* group, its occurrence key the inbox key).  A file is named after the    *)
(* order it was written for (title and inbox_key, a hash of the evidence). *)
(* The clock: which occurrences are less than an hour old is any set.      *)
(* Left out: texts, seen_at, examples, and the latest-* copies, which      *)
(* nothing here reads back.                                                *)
(***************************************************************************)
EXTENDS Naturals, FiniteSets, Sequences, SequencesExt

CONSTANTS Reviews,      \* what the hook may export: sequences of orders
          ClassOf,      \* the reason class of each failure
          Urgent,       \* the classes whose orders have severity P1
          Threshold,    \* OBSERVATION_SPIKE_THRESHOLD: 5
          MaxItems,     \* MAX_OWNER_DIGEST_ITEMS: 25
          MaxClaims,    \* bound: claims by agents
          MaxCrashes    \* bound: runs of the hook that die

Failures == DOMAIN ClassOf
Orders == UNION {ToSet(review) : review \in Reviews}

ASSUME InboxAssumption ==
  /\ Reviews \subseteq Seq(Seq(Failures) \ {<<>>})
  /\ Threshold \in Nat \ {0} /\ MaxItems \in Nat \ {0}
  /\ MaxClaims \in Nat /\ MaxCrashes \in Nat

VARIABLES
  inbox,      \* per file name: absent, open, taken (claimed in place) or torn,
              \*   and the item in it
  run,        \* the hook: where it stands and what it has in memory
  claims,     \* how many claims, of MaxClaims
  crashes,    \* how many crashes, of MaxCrashes
  \* History variables: they record what happened and guard nothing.
  digests,    \* every line of an owner digest written: item, count, evidence
  exported,   \* <<group, failure>> of every order that an export processed
  handed,     \* <<group, failure>> of every item an agent claimed
  damaged     \* <<group, failure>> of every item that was torn

ghosts == <<digests, exported, handed, damaged>>
vars == <<inbox, run, claims, crashes, ghosts>>

\* One class, or the hash of the sorted classes of a mixed order.
Group(order) == {ClassOf[f] : f \in ToSet(order)}
IsUrgent(order) == Group(order) \subseteq Urgent

\* The aggregate of an item: the occurrence keys, occurrence_count, the length
\* of occurrence_timeline, last_reported_occurrence_count (0: never reported),
\* report_needed; "told" are the keys at the last report, for the properties.
NoItem == [keys |-> {}, count |-> 0, timeline |-> 0, reported |-> 0,
           needed |-> FALSE, told |-> {}]

Absent == [state |-> "absent", item |-> NoItem]
Open(item) == [state |-> "open", item |-> item]
Taken == [state |-> "taken", item |-> NoItem]
Torn == [state |-> "torn", item |-> NoItem]

Idle == [pc |-> "idle", todo |-> <<>>, held |-> <<>>, visible |-> {}]

Init ==
  /\ inbox = [o \in Orders |-> Absent]
  /\ run = Idle /\ claims = 0 /\ crashes = 0
  /\ digests = {} /\ exported = {} /\ handed = {} /\ damaged = {}

-----------------------------------------------------------------------------
(* The aggregate.                                                          *)

NewSinceLastReport(item) ==
  IF item.count > item.reported THEN item.count - item.reported ELSE 0

\* Mutant: a P1 item is raised again by anything new.
ReportNeededMutant(order, item, hot) ==
  LET new == NewSinceLastReport(item)
      spike == hot /\ item.count # 1 /\ item.timeline >= Threshold
  IN  \/ item.needed /\ new > 0
      \/ new > 0 /\ IsUrgent(order)
      \/ new > 0 /\ spike /\ (item.reported = 0 \/ new >= Threshold)
      \/ new >= Threshold

\* The report reasons: still pending, a new P1, a spike, growth.  "hot" says
\* whether the timeline's occurrences are less than an hour old.
ReportNeeded(order, item, hot) ==
  LET new == NewSinceLastReport(item)
      spike == hot /\ item.count # 1 /\ item.timeline >= Threshold
  IN  \/ item.needed /\ new > 0
      \/ new > 0 /\ item.reported = 0 /\ IsUrgent(order)
      \/ new > 0 /\ spike /\ (item.reported = 0 \/ new >= Threshold)
      \/ new >= Threshold

RefreshObservation(order, item, hot) ==
  [item EXCEPT !.needed = ReportNeeded(order, item, hot)]

\* A repeated failure counts twice here and once after the next merge.
BuildAggregate(order, hot) ==
  RefreshObservation(order,
    [NoItem EXCEPT !.keys = ToSet(order), !.count = Len(order),
                   !.timeline = Len(order)], hot)

\* The positions in the order of the failures that the item does not have.
NewOccurrences(item, order) == {n \in DOMAIN order : order[n] \notin item.keys}

\* Mutant: the new occurrences replace the old ones.
MergeIntoExistingItemMutant(name, item, order, hot) ==
  LET new == NewOccurrences(item, order)
  IN  RefreshObservation(name,
        [item EXCEPT !.keys = {order[n] : n \in new}, !.count = Cardinality(new),
                     !.timeline = @ + Cardinality(new)], hot)

MergeIntoExistingItem(name, item, order, hot) ==
  LET keys == item.keys \cup ToSet(order)
      new == NewOccurrences(item, order)
  IN  RefreshObservation(name,
        [item EXCEPT !.keys = keys, !.count = Cardinality(keys),
                     !.timeline = @ + Cardinality(new)], hot)

\* Mutant: keeps the count of the report before.
MarkItemReportedMutant(order, item, hot) ==
  RefreshObservation(order, [item EXCEPT !.told = item.keys], hot)

MarkItemReported(order, item, hot) ==
  RefreshObservation(order,
    [item EXCEPT !.reported = item.count, !.told = item.keys], hot)

-----------------------------------------------------------------------------
(* The hook.                                                               *)

OpenFiles == {o \in Orders : inbox[o].state = "open"}
Readable == \A o \in Orders : inbox[o].state # "torn"
Occurrences(order, keys) == {Group(order)} \X keys

\* Reading refreshes every open item in memory; a file is hot or not.
ReadItem(o, hot) == RefreshObservation(o, inbox[o].item, o \in hot)

\* indexOpenInboxByGroup: the first open file of each group.
FirstOfGroups ==
  {CHOOSE o \in OpenFiles : Group(o) = g : g \in {Group(o) : o \in OpenFiles}}

StartRun(review, hot) ==
  /\ run.pc = "idle" /\ Readable
  /\ run' = [pc |-> "orders", todo |-> review, visible |-> {},
             held |-> [o \in FirstOfGroups |-> ReadItem(o, hot)]]
  /\ UNCHANGED <<inbox, claims, crashes, ghosts>>

\* Mutant: looks the order up by its file name, not by its group.
MatchingMutant(held, order) == DOMAIN held \cap {order}

Matching(held, order) == {o \in DOMAIN held : Group(o) = Group(order)}

Write(o, item) == inbox' = [inbox EXCEPT ![o] = Open(item)]
Hold(o, item) ==
  run' = [run EXCEPT !.todo = Tail(@),
                     !.held = [n \in DOMAIN @ \cup {o} |-> IF n = o THEN item ELSE @[n]]]
Skip == run' = [run EXCEPT !.todo = Tail(@)] /\ UNCHANGED inbox

MergeOrder(o, order, hot) ==
  LET item == MergeIntoExistingItem(o, run.held[o], order, hot)
  IN  IF NewOccurrences(run.held[o], order) = {} THEN Skip
      ELSE Write(o, item) /\ Hold(o, item)

\* Written with the flag "wx": a file of that name is left alone.
WriteNewOrder(order, hot) ==
  IF inbox[order].state # "absent" THEN Skip
  ELSE /\ Write(order, BuildAggregate(order, hot))
       /\ Hold(order, BuildAggregate(order, hot))

ExportOrder(hot) ==
  LET order == Head(run.todo)
  IN  /\ run.pc = "orders" /\ run.todo # <<>>
      /\ \/ \E o \in Matching(run.held, order) : MergeOrder(o, order, hot)
         \/ Matching(run.held, order) = {} /\ WriteNewOrder(order, hot)
      /\ exported' = exported \cup Occurrences(order, ToSet(order))
      /\ UNCHANGED <<claims, crashes, digests, handed, damaged>>

\* The second process: reportedInboxEntries.
StartDigest(hot) ==
  /\ run.pc = "orders" /\ run.todo = <<>> /\ Readable
  /\ LET entries == {o \in OpenFiles : ReadItem(o, hot).needed}
     IN  run' = [Idle EXCEPT !.pc = "publish",
                             !.held = [o \in entries |-> ReadItem(o, hot)]]
  /\ UNCHANGED <<inbox, claims, crashes, ghosts>>

\* sortOwnerDigestItems; what it leaves open the work order id decides.
Precedes(held, a, b) ==
  LET new(o) == NewSinceLastReport(held[o])
  IN  IF IsUrgent(a) # IsUrgent(b) THEN IsUrgent(a)
      ELSE IF new(a) # new(b) THEN new(a) > new(b)
      ELSE held[a].count > held[b].count

VisibleItems(held) ==
  {shown \in SUBSET DOMAIN held :
     /\ Cardinality(shown) <= MaxItems
     /\ shown # DOMAIN held => Cardinality(shown) = MaxItems
     /\ \A a \in shown, b \in DOMAIN held \ shown : ~Precedes(held, b, a)}

DigestLine(o, item) == [name |-> o, count |-> item.count, keys |-> item.keys]

\* Mutant: goes on to mark all that was read, also what the digest leaves out.
PublishMarkAll ==
  /\ run.pc = "publish"
  /\ \E shown \in VisibleItems(run.held) :
       /\ run' = [run EXCEPT !.pc = "mark", !.visible = DOMAIN run.held]
       /\ digests' = digests \cup {DigestLine(o, run.held[o]) : o \in shown}
  /\ UNCHANGED <<inbox, claims, crashes, exported, handed, damaged>>

\* Mutant: goes on to mark every item that is open by now.
PublishMarkOpen ==
  /\ run.pc = "publish"
  /\ \E shown \in VisibleItems(run.held) :
       /\ run' = [run EXCEPT !.pc = "mark", !.visible = OpenFiles]
       /\ digests' = digests \cup {DigestLine(o, run.held[o]) : o \in shown}
  /\ UNCHANGED <<inbox, claims, crashes, exported, handed, damaged>>

Publish ==
  /\ run.pc = "publish"
  /\ \E shown \in VisibleItems(run.held) :
       /\ run' = [run EXCEPT !.pc = "mark", !.visible = shown]
       /\ digests' = digests \cup {DigestLine(o, run.held[o]) : o \in shown}
  /\ UNCHANGED <<inbox, claims, crashes, exported, handed, damaged>>

MarkReported(hot) ==
  /\ run.pc = "mark"
  /\ \E o \in run.visible :
       /\ Write(o, MarkItemReported(o, run.held[o], hot))
       /\ run' = [run EXCEPT !.visible = @ \ {o}]
  /\ UNCHANGED <<claims, crashes, ghosts>>

EndRun ==
  /\ run.pc = "mark" /\ run.visible = {}
  /\ run' = Idle
  /\ UNCHANGED <<inbox, claims, crashes, ghosts>>

Hook ==
  \/ \E review \in Reviews, hot \in SUBSET OpenFiles : StartRun(review, hot)
  \/ \E hot \in BOOLEAN : ExportOrder(hot) \/ MarkReported(hot)
  \/ \E hot \in SUBSET OpenFiles : StartDigest(hot)
  \/ Publish \/ EndRun

-----------------------------------------------------------------------------
(* What happens to the hook and to the files.                              *)

Died ==
  /\ run.pc # "idle" /\ crashes < MaxCrashes
  /\ crashes' = crashes + 1 /\ run' = Idle

\* Between two writes; or an item listed was gone when it was read, which
\* makes the process throw.
Crash == Died /\ UNCHANGED <<inbox, claims, ghosts>>

\* The file the hook would write next.
Target ==
  CASE run.pc = "orders" /\ run.todo # <<>> ->
         LET order == Head(run.todo)
         IN  IF Matching(run.held, order) # {}
             THEN {o \in Matching(run.held, order) : NewOccurrences(run.held[o], order) # {}}
             ELSE {o \in {order} : inbox[o].state = "absent"}
    [] run.pc = "mark" -> run.visible
    [] OTHER -> {}

\* Inside a write: the file was truncated and is not yet complete.
CrashWriting ==
  /\ Died
  /\ \E o \in Target :
       /\ inbox' = [inbox EXCEPT ![o] = Torn]
       /\ damaged' = damaged \cup Occurrences(o, inbox[o].item.keys)
  /\ UNCHANGED <<claims, digests, exported, handed>>

\* An agent moves an open item out of the inbox, or marks it in place.
Claim(o) ==
  /\ inbox[o].state = "open" /\ claims < MaxClaims
  /\ claims' = claims + 1
  /\ \E after \in {Absent, Taken} : inbox' = [inbox EXCEPT ![o] = after]
  /\ handed' = handed \cup Occurrences(o, inbox[o].item.keys)
  /\ UNCHANGED <<run, crashes, digests, exported, damaged>>

Clear(o) ==
  /\ inbox[o].state = "taken"
  /\ inbox' = [inbox EXCEPT ![o] = Absent]
  /\ UNCHANGED <<run, claims, crashes, ghosts>>

Next ==
  \/ Hook
  \/ Crash \/ CrashWriting
  \/ \E o \in Orders : Claim(o) \/ Clear(o)

\* The timer runs the hook again and again, and a process that lives goes on.
Spec == Init /\ [][Next]_vars /\ WF_vars(Hook)

-----------------------------------------------------------------------------
(* Properties.                                                             *)

Groups == {Group(o) : o \in Orders}
Items == [keys : SUBSET Failures, count : Nat, timeline : Nat, reported : Nat,
          needed : BOOLEAN, told : SUBSET Failures]

\* Every file and everything in the hook's memory keeps its shape, and what a
\* digest marks is among what it read.
TypeOK ==
  /\ inbox \in [Orders -> [state : {"absent", "open", "taken", "torn"}, item : Items]]
  /\ run.pc \in {"idle", "orders", "publish", "mark"}
  /\ run.todo \in Seq(Orders) /\ run.visible \subseteq DOMAIN run.held
  /\ DOMAIN run.held \subseteq Orders
  /\ \A o \in DOMAIN run.held : run.held[o] \in Items
  /\ claims \in 0..MaxClaims /\ crashes \in 0..MaxCrashes
  /\ digests \subseteq [name : Orders, count : Nat, keys : SUBSET Failures]
  /\ exported \cup handed \cup damaged \subseteq Groups \X Failures

\* Failures of one dedupe group share one open work order, whatever the agents
\* claim while the hook holds the item in memory, and wherever it dies.
OneOpenItemPerGroup ==
  \A a, b \in OpenFiles : Group(a) = Group(b) => a = b

\* Every failure an export processed is in the open item of its group, or was
\* in an item when an agent claimed it; nothing else drops evidence but a
\* write that was cut short.
NoEvidenceLost ==
  exported \subseteq (UNION {Occurrences(o, inbox[o].item.keys) : o \in OpenFiles})
                     \cup handed \cup damaged

\* An item says it was reported only if a digest on disk shows it with that
\* count and with that evidence (the digest is written before the mark).
ReportedWasDigested ==
  \A o \in OpenFiles :
    LET item == inbox[o].item
    IN  item.reported > 0 =>
          [name |-> o, count |-> item.reported, keys |-> item.told] \in digests

\* A reported item is raised again only when at least Threshold of its
\* failures are ones no digest has shown yet (README, work order inbox).
RaisedAgainOnGrowth ==
  \A o \in OpenFiles :
    LET item == inbox[o].item
    IN  item.reported > 0 /\ item.needed =>
          Cardinality(item.keys \ item.told) >= Threshold

Due(o) ==
  /\ inbox[o].state = "open"
  /\ inbox[o].item.needed \/ (IsUrgent(o) /\ inbox[o].item.reported = 0)

\* An item that needs reporting, and so every P1 item nobody was told of, is
\* eventually reported or claimed, also when the digest has room for fewer
\* items than wait; unless a torn file stops every later run.
DueIsReported == \A o \in Orders : Due(o) ~> ~Due(o) \/ ~Readable

\* README, work order inbox: the digest is raised again when the unreported
\* evidence crosses the threshold.
RaisedWhenGrown ==
  \A o \in OpenFiles :
    LET item == inbox[o].item
    IN  item.reported > 0 /\ Cardinality(item.keys \ item.told) >= Threshold =>
          item.needed
=============================================================================
