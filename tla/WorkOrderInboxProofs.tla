------------------------ MODULE WorkOrderInboxProofs ------------------------
(***************************************************************************)
(* Proofs about WorkOrderInbox, for any reviews, classes, threshold, digest*)
(* capacity, claims and crashes: type correctness and the safety properties*)
(* the runs check.                                                         *)
(*                                                                         *)
(* The properties speak of the open files.  The hook writes files from     *)
(* memory that agents have moved in the meantime, so the inductive         *)
(* invariant IInv says the same of the items in its memory: both are well  *)
(* formed items of their file (ItemOK), no two of one group (OneGroup), and*)
(* what is in memory is backed by what is on disk or was handed out        *)
(* (HeldOK).                                                               *)
(***************************************************************************)
EXTENDS WorkOrderInbox, TLAPS, FiniteSetTheorems

-----------------------------------------------------------------------------
(* The inductive invariant.                                                *)

\* An item of file o, given the digest lines on disk.  A report of n counted
\* occurrences covers all keys there were, and the count is that of the report
\* until a merge counts the distinct keys.
ReportOK(item) ==
  item.reported > 0 =>
    /\ Cardinality(item.told) <= item.reported
    /\ item.count <= item.reported \/ item.count = Cardinality(item.keys)
    /\ item.needed => item.count >= item.reported + Threshold

ItemOK(o, item, lines) ==
  /\ item \in Items
  /\ IsFiniteSet(item.keys) /\ Cardinality(item.keys) <= item.count
  /\ ToSet(o) \subseteq item.keys /\ item.told \subseteq item.keys
  /\ ReportOK(item)
  /\ item.reported > 0 =>
       [name |-> o, count |-> item.reported, keys |-> item.told] \in lines

Memories == UNION {[S -> Items] : S \in SUBSET Orders}

RunTyped ==
  /\ run \in [pc : {"idle", "orders", "publish", "mark"}, todo : Seq(Orders),
              held : Memories, visible : SUBSET Orders]
  /\ run.visible \subseteq DOMAIN run.held

FilesTyped ==
  /\ inbox \in [Orders -> [state : {"absent", "open", "taken", "torn"}, item : Items]]
  /\ claims \in 0..MaxClaims /\ crashes \in 0..MaxCrashes
  /\ digests \subseteq [name : Orders, count : Nat, keys : SUBSET Failures]
  /\ exported \cup handed \cup damaged \subseteq Groups \X Failures

\* A file taken in place was handed out with all of the order it is named after.
FilesOK ==
  \A o \in Orders :
    /\ inbox[o].state = "open" => ItemOK(o, inbox[o].item, digests)
    /\ inbox[o].state # "open" => inbox[o].item = NoItem
    /\ inbox[o].state = "taken" => Occurrences(o, ToSet(o)) \subseteq handed

\* The occurrences that are on disk or were taken from it.
OnDisk == UNION {Occurrences(o, inbox[o].item.keys) : o \in OpenFiles}
Evidence == OnDisk \cup handed \cup damaged

HeldOK ==
  \A o \in DOMAIN run.held :
    /\ ItemOK(o, run.held[o], digests)
    /\ inbox[o].item.keys \subseteq run.held[o].keys
    /\ Occurrences(o, run.held[o].keys) \subseteq Evidence

\* While it exports, the hook has every open file in memory.
OneGroup ==
  /\ \A a, b \in OpenFiles \cup DOMAIN run.held : Group(a) = Group(b) => a = b
  /\ run.pc = "orders" => OpenFiles \subseteq DOMAIN run.held

\* A hook that runs has read every file, and marks what the digest shows.
RunOK ==
  /\ run.pc # "idle" => Readable
  /\ run.pc = "mark" => \A o \in run.visible : DigestLine(o, run.held[o]) \in digests

IInv == /\ RunTyped /\ FilesTyped /\ FilesOK /\ HeldOK /\ OneGroup /\ RunOK
        /\ exported \subseteq Evidence

-----------------------------------------------------------------------------
(* Orders and items.                                                       *)

LEMMA OrderFacts ==
  ASSUME NEW o \in Orders
  PROVE  /\ o \in Seq(Failures) /\ ToSet(o) \subseteq Failures
         /\ IsFiniteSet(ToSet(o)) /\ Cardinality(ToSet(o)) <= Len(o)
         /\ Len(o) \in Nat
<1>1. o \in Seq(Failures)
  <2>1. PICK review \in Reviews : o \in ToSet(review)
    BY DEF Orders
  <2>2. review \in Seq(Seq(Failures) \ {<<>>})
    BY InboxAssumption
  <2>3. review \in [1..Len(review) -> Seq(Failures) \ {<<>>}]
    BY <2>2
  <2> QED
    BY <2>1, <2>3 DEF ToSet
<1>2. o \in [1..Len(o) -> Failures] /\ Len(o) \in Nat
  BY <1>1
<1>3. ToSet(o) \subseteq Failures
  BY <1>2 DEF ToSet
<1>4. o \in Surjection(1..Len(o), ToSet(o))
  BY <1>2 DEF Surjection, ToSet
<1>5. IsFiniteSet(1..Len(o)) /\ Cardinality(1..Len(o)) = Len(o)
  <2>1. 1 \in Int /\ Len(o) \in Int
    BY <1>2
  <2>2. /\ IsFiniteSet(1..Len(o))
        /\ Cardinality(1..Len(o)) = IF 1 > Len(o) THEN 0 ELSE Len(o) - 1 + 1
    BY <2>1, FS_Interval, Zenon
  <2> QED
    BY <1>2, <2>2
<1>6. IsFiniteSet(ToSet(o)) /\ Cardinality(ToSet(o)) <= Len(o)
  BY <1>4, <1>5, FS_Surjection
<1> QED
  BY <1>1, <1>2, <1>3, <1>6

LEMMA ReviewFacts ==
  ASSUME NEW review \in Reviews
  PROVE  review \in Seq(Orders)
<1>1. review \in Seq(Seq(Failures) \ {<<>>})
  BY InboxAssumption
<1>2. Len(review) \in Nat /\ DOMAIN review = 1..Len(review)
  BY <1>1
<1>3. \A n \in 1..Len(review) : review[n] \in Orders
  BY <1>2 DEF Orders, ToSet
<1>4. review \in [1..Len(review) -> Orders]
  BY <1>1, <1>2, <1>3
<1> QED
  BY <1>2, <1>4

\* Refreshing changes nothing but whether a report is needed.
LEMMA RefreshFacts ==
  ASSUME NEW o, NEW item \in Items, NEW hot
  PROVE  LET r == RefreshObservation(o, item, hot)
         IN  /\ r \in Items
             /\ r.keys = item.keys /\ r.count = item.count
             /\ r.timeline = item.timeline /\ r.reported = item.reported
             /\ r.told = item.told
             /\ r.needed /\ r.reported > 0 =>
                  \/ item.needed /\ item.count > item.reported
                  \/ item.count >= item.reported + Threshold
<1> DEFINE r == RefreshObservation(o, item, hot)
           new == NewSinceLastReport(item)
<1>1. r = [item EXCEPT !.needed = ReportNeeded(o, item, hot)]
  BY DEF RefreshObservation
<1>2. ReportNeeded(o, item, hot) \in BOOLEAN
  BY DEF ReportNeeded
<1>3. /\ item.count \in Nat /\ item.reported \in Nat
      /\ Threshold \in Nat \ {0}
  BY InboxAssumption DEF Items
<1>4. /\ new > 0 => item.count > item.reported
      /\ new >= Threshold => item.count >= item.reported + Threshold
  BY <1>3 DEF NewSinceLastReport
<1>5. ReportNeeded(o, item, hot) /\ item.reported > 0 =>
        \/ item.needed /\ new > 0
        \/ new >= Threshold
  BY <1>3 DEF ReportNeeded
<1>6. /\ r \in Items /\ r.needed = ReportNeeded(o, item, hot)
      /\ r.keys = item.keys /\ r.count = item.count
      /\ r.timeline = item.timeline /\ r.reported = item.reported
      /\ r.told = item.told
  BY <1>1, <1>2 DEF Items
<1> QED
  BY <1>4, <1>5, <1>6

LEMMA NoItemFacts == NoItem \in Items /\ NoItem.keys = {}
  BY DEF NoItem, Items

\* buildAggregate: the item of a new file.
LEMMA BuildFacts ==
  ASSUME NEW o \in Orders, NEW hot, NEW lines
  PROVE  /\ ItemOK(o, BuildAggregate(o, hot), lines)
         /\ BuildAggregate(o, hot).keys = ToSet(o)
<1> DEFINE base == [NoItem EXCEPT !.keys = ToSet(o), !.count = Len(o),
                                  !.timeline = Len(o)]
           item == BuildAggregate(o, hot)
<1>1. /\ ToSet(o) \subseteq Failures /\ Len(o) \in Nat
      /\ IsFiniteSet(ToSet(o)) /\ Cardinality(ToSet(o)) <= Len(o)
  BY OrderFacts
<1>2. /\ base \in Items /\ base.keys = ToSet(o) /\ base.count = Len(o)
      /\ base.reported = 0 /\ base.told = {}
  BY <1>1 DEF NoItem, Items
<1>3. item = RefreshObservation(o, base, hot)
  BY DEF BuildAggregate
<1> HIDE DEF base, item
<1>4. /\ item \in Items /\ item.keys = ToSet(o) /\ item.count = Len(o)
      /\ item.reported = 0 /\ item.told = {}
  BY <1>2, <1>3, RefreshFacts
<1>5. ItemOK(o, item, lines)
  BY <1>1, <1>4 DEF ItemOK, ReportOK
<1> QED
  BY <1>4, <1>5 DEF item

\* ensureAggregate: reading an item.
LEMMA ReadFacts ==
  ASSUME NEW o \in Orders, NEW item, NEW hot, NEW lines, ItemOK(o, item, lines)
  PROVE  /\ ItemOK(o, RefreshObservation(o, item, hot), lines)
         /\ RefreshObservation(o, item, hot).keys = item.keys
<1> DEFINE r == RefreshObservation(o, item, hot)
<1>1. item \in Items
  BY DEF ItemOK
<1>2. /\ r \in Items
      /\ r.keys = item.keys /\ r.count = item.count
      /\ r.reported = item.reported /\ r.told = item.told
      /\ r.needed /\ r.reported > 0 =>
           \/ item.needed /\ item.count > item.reported
           \/ item.count >= item.reported + Threshold
  BY <1>1, RefreshFacts
<1> HIDE DEF r
<1>3. ReportOK(r)
  BY <1>1, <1>2, InboxAssumption DEF ItemOK, ReportOK, Items
<1>4. ItemOK(o, r, lines)
  BY <1>2, <1>3 DEF ItemOK
<1> QED
  BY <1>2, <1>4 DEF r

\* mergeIntoExistingItem, when there is something to merge.
LEMMA MergeFacts ==
  ASSUME NEW o \in Orders, NEW order \in Orders, NEW item, NEW hot, NEW lines,
         ItemOK(o, item, lines)
  PROVE  /\ ItemOK(o, MergeIntoExistingItem(o, item, order, hot), lines)
         /\ MergeIntoExistingItem(o, item, order, hot).keys
              = item.keys \cup ToSet(order)
<1> DEFINE keys == item.keys \cup ToSet(order)
           base == [item EXCEPT !.keys = keys, !.count = Cardinality(keys),
                      !.timeline = @ + Cardinality(NewOccurrences(item, order))]
           r == MergeIntoExistingItem(o, item, order, hot)
<1>1. /\ item \in Items /\ IsFiniteSet(item.keys) /\ Threshold \in Nat \ {0}
      /\ item.keys \subseteq Failures /\ item.timeline \in Nat
      /\ item.count \in Nat /\ item.reported \in Nat
  BY InboxAssumption DEF ItemOK, Items
<1>2. ToSet(order) \subseteq Failures /\ IsFiniteSet(ToSet(order))
  BY OrderFacts
<1>3. IsFiniteSet(keys) /\ Cardinality(keys) \in Nat
  BY <1>1, <1>2, FS_Union, FS_CardinalityType
<1>4. Cardinality(item.keys) <= Cardinality(keys) /\ Cardinality(item.keys) \in Nat
  BY <1>1, <1>3, FS_Subset, FS_CardinalityType
<1>5. Cardinality(NewOccurrences(item, order)) \in Nat
  <2>1. NewOccurrences(item, order) \subseteq 1..Len(order)
    BY OrderFacts DEF NewOccurrences
  <2>2. IsFiniteSet(1..Len(order))
    <3>1. 1 \in Int /\ Len(order) \in Int
      BY OrderFacts
    <3> QED
      BY <3>1, FS_Interval, Zenon
  <2>3. IsFiniteSet(NewOccurrences(item, order))
    BY <2>1, <2>2, FS_Subset
  <2> QED
    BY <2>3, FS_CardinalityType
<1> DEFINE c == Cardinality(keys)
           n == item.timeline + Cardinality(NewOccurrences(item, order))
<1>5a. /\ keys \in SUBSET Failures /\ c \in Nat /\ n \in Nat
       /\ base = [item EXCEPT !.keys = keys, !.count = c, !.timeline = n]
  BY <1>1, <1>2, <1>3, <1>5
<1> HIDE DEF base, c, n, keys
<1>6. /\ base \in Items /\ base.keys = keys /\ base.count = c
      /\ base.reported = item.reported /\ base.told = item.told
      /\ base.needed = item.needed
  BY <1>1, <1>5a DEF Items
<1> USE DEF c, n, keys
<1>7. r = RefreshObservation(o, base, hot)
  BY DEF MergeIntoExistingItem, base
<1> HIDE DEF r
<1>8. /\ r \in Items /\ r.keys = keys /\ r.count = Cardinality(keys)
      /\ r.reported = item.reported /\ r.told = item.told
      /\ r.needed /\ r.reported > 0 =>
           \/ item.needed /\ Cardinality(keys) > item.reported
           \/ Cardinality(keys) >= item.reported + Threshold
  BY <1>6, <1>7, RefreshFacts
<1>9. item.reported > 0 /\ item.needed =>
        Cardinality(keys) >= item.reported + Threshold
  BY <1>1, <1>3, <1>4 DEF ItemOK, ReportOK
<1>10. ReportOK(r)
  BY <1>8, <1>9 DEF ItemOK, ReportOK
<1>11. r.reported > 0 =>
         [name |-> o, count |-> r.reported, keys |-> r.told] \in lines
  BY <1>8 DEF ItemOK
<1>12. ToSet(o) \subseteq r.keys /\ r.told \subseteq r.keys
  BY <1>8 DEF ItemOK
<1>13. ItemOK(o, r, lines)
  BY <1>3, <1>8, <1>10, <1>11, <1>12 DEF ItemOK
<1> QED
  BY <1>8, <1>13 DEF r

\* markItemReported, when the digest that shows the item is on disk.
LEMMA MarkFacts ==
  ASSUME NEW o \in Orders, NEW item, NEW hot, NEW lines, ItemOK(o, item, lines),
         [name |-> o, count |-> item.count, keys |-> item.keys] \in lines
  PROVE  /\ ItemOK(o, MarkItemReported(o, item, hot), lines)
         /\ MarkItemReported(o, item, hot).keys = item.keys
<1> DEFINE base == [item EXCEPT !.reported = item.count, !.told = item.keys]
           r == MarkItemReported(o, item, hot)
<1>1. /\ item \in Items /\ Threshold \in Nat \ {0} /\ item.count \in Nat
  BY InboxAssumption DEF ItemOK, Items
<1>2. /\ base \in Items /\ base.keys = item.keys /\ base.count = item.count
      /\ base.reported = item.count /\ base.told = item.keys
  BY <1>1 DEF Items
<1>3. r = RefreshObservation(o, base, hot)
  BY DEF MarkItemReported
<1> HIDE DEF base, r
<1>4. /\ r \in Items /\ r.keys = item.keys /\ r.count = item.count
      /\ r.reported = item.count /\ r.told = item.keys
      /\ r.needed /\ r.reported > 0 =>
           \/ item.count > item.count
           \/ item.count >= item.count + Threshold
  BY <1>2, <1>3, RefreshFacts
<1>5. r.reported > 0 => ~r.needed
  BY <1>1, <1>4
<1>6. ItemOK(o, r, lines)
  BY <1>1, <1>4, <1>5 DEF ItemOK, ReportOK
<1> QED
  BY <1>4, <1>6 DEF r

-----------------------------------------------------------------------------
(* What writing a file and losing one does to the evidence.                *)

LEMMA OccurrencesGrow ==
  ASSUME NEW a, NEW b, Group(a) = Group(b), NEW K, NEW L, K \subseteq L
  PROVE  Occurrences(a, K) \subseteq Occurrences(b, L)
  BY DEF Occurrences

LEMMA EvidenceFacts ==
  ASSUME NEW x
  PROVE  x \in Evidence <=>
           \/ \E o \in OpenFiles : x \in Occurrences(o, inbox[o].item.keys)
           \/ x \in handed \/ x \in damaged
  BY DEF Evidence, OnDisk

LEMMA EvidenceNext ==
  ASSUME NEW x
  PROVE  x \in Evidence' <=>
           \/ \E o \in OpenFiles' : x \in Occurrences(o, inbox'[o].item.keys)
           \/ x \in handed' \/ x \in damaged'
  BY DEF Evidence, OnDisk

\* Writing an item that has what the file had keeps all evidence.
LEMMA EvidenceWritten ==
  ASSUME FilesTyped, NEW o \in Orders, NEW item, Write(o, item),
         inbox[o].item.keys \subseteq item.keys, UNCHANGED <<handed, damaged>>
  PROVE  Evidence \subseteq Evidence' /\ Occurrences(o, item.keys) \subseteq Evidence'
<1>1. /\ \A n \in Orders \ {o} : inbox'[n] = inbox[n]
      /\ inbox'[o].state = "open" /\ inbox'[o].item = item
  BY DEF FilesTyped, Write, Open
<1>2. o \in OpenFiles' /\ OpenFiles \subseteq OpenFiles'
  BY <1>1 DEF OpenFiles
<1>3. \A n \in OpenFiles : Occurrences(n, inbox[n].item.keys)
                             \subseteq Occurrences(n, inbox'[n].item.keys)
  BY <1>1, OccurrencesGrow DEF OpenFiles
<1> QED
  BY <1>1, <1>2, <1>3, EvidenceFacts, EvidenceNext

\* Losing a file keeps all evidence if what was in it is handed out or known
\* to be damaged.
LEMMA EvidenceLost ==
  ASSUME FilesTyped, NEW o \in Orders, NEW after,
         inbox' = [inbox EXCEPT ![o] = after],
         handed \subseteq handed', damaged \subseteq damaged',
         inbox[o].state = "open" =>
           Occurrences(o, inbox[o].item.keys) \subseteq handed' \cup damaged'
  PROVE  Evidence \subseteq Evidence'
<1>1. \A n \in Orders \ {o} : inbox'[n] = inbox[n]
  BY DEF FilesTyped
<1>2. OpenFiles \ {o} \subseteq OpenFiles'
  BY <1>1 DEF OpenFiles
<1>3. o \in OpenFiles => Occurrences(o, inbox[o].item.keys) \subseteq handed' \cup damaged'
  BY DEF OpenFiles
<1>4. OpenFiles \subseteq Orders
  BY DEF OpenFiles
<1> QED
  BY <1>1, <1>2, <1>3, <1>4, EvidenceFacts, EvidenceNext

-----------------------------------------------------------------------------
(* The steps.  A step of the hook writes one file or none.                 *)

WriteKeeps(o, item) ==
  /\ Write(o, item) /\ ItemOK(o, item, digests)
  /\ inbox[o].item.keys \subseteq item.keys
  /\ \A a \in OpenFiles \cup DOMAIN run.held : Group(a) = Group(o) => a = o
  /\ DOMAIN run'.held = DOMAIN run.held \cup {o}
  /\ \A n \in DOMAIN run.held \ {o} : run'.held[n] = run.held[n]
  /\ ItemOK(o, run'.held[o], digests) /\ run'.held[o].keys = item.keys
  /\ run.pc \in {"orders", "mark"} /\ run'.pc = run.pc
  /\ UNCHANGED <<claims, crashes, digests, handed, damaged>>

LEMMA WriteStep ==
  ASSUME IInv, NEW o \in Orders, NEW item, WriteKeeps(o, item)
  PROVE  /\ inbox' \in [Orders -> [state : {"absent", "open", "taken", "torn"},
                                   item : Items]]
         /\ FilesOK' /\ HeldOK' /\ OneGroup'
         /\ Readable'
         /\ Evidence \subseteq Evidence' /\ Occurrences(o, item.keys) \subseteq Evidence'
<1> USE DEF WriteKeeps
<1>1. /\ RunTyped /\ FilesTyped /\ FilesOK /\ HeldOK /\ OneGroup /\ RunOK
  BY DEF IInv
<1>2. item \in Items
  BY DEF ItemOK
<1>3. /\ \A n \in Orders \ {o} : inbox'[n] = inbox[n]
      /\ inbox'[o].state = "open" /\ inbox'[o].item = item
      /\ inbox' \in [Orders -> [state : {"absent", "open", "taken", "torn"},
                                item : Items]]
  BY <1>1, <1>2 DEF FilesTyped, Write, Open
<1>4. Evidence \subseteq Evidence' /\ Occurrences(o, item.keys) \subseteq Evidence'
  BY <1>1, EvidenceWritten
<1>5. FilesOK'
  BY <1>1, <1>3 DEF FilesOK
<1>6. DOMAIN run.held \subseteq Orders
  BY <1>1 DEF RunTyped, Memories
<1>7. HeldOK'
  <2> SUFFICES ASSUME NEW n \in DOMAIN run'.held
               PROVE  /\ ItemOK(n, run'.held[n], digests)
                      /\ inbox'[n].item.keys \subseteq run'.held[n].keys
                      /\ Occurrences(n, run'.held[n].keys) \subseteq Evidence'
    BY DEF HeldOK
  <2>1. CASE n = o
    BY <1>3, <1>4, <2>1
  <2>2. CASE n # o
    BY <1>1, <1>3, <1>4, <1>6, <2>2 DEF HeldOK
  <2> QED
    BY <2>1, <2>2
<1>8. OpenFiles' = OpenFiles \cup {o}
  BY <1>3 DEF OpenFiles
<1>9. OneGroup'
  BY <1>1, <1>8 DEF OneGroup
<1>10. Readable'
  BY <1>1, <1>3 DEF RunOK, Readable
<1> QED
  BY <1>3, <1>4, <1>5, <1>7, <1>9, <1>10

LEMMA OccurrencesTyped ==
  ASSUME NEW o \in Orders, NEW K \in SUBSET Failures
  PROVE  Occurrences(o, K) \subseteq Groups \X Failures
  BY DEF Occurrences, Groups

LEMMA IdleTyped ==
  /\ Idle \in [pc : {"idle", "orders", "publish", "mark"}, todo : Seq(Orders),
               held : Memories, visible : SUBSET Orders]
  /\ DOMAIN Idle.held = {} /\ Idle.visible = {} /\ Idle.pc = "idle"
<1>1. <<>> \in [{} -> Items] /\ DOMAIN <<>> = {} /\ <<>> \in Seq(Orders)
  OBVIOUS
<1>2. <<>> \in Memories
  BY <1>1 DEF Memories
<1> QED
  BY <1>1, <1>2 DEF Idle

\* Reading a set of open files into memory.
LEMMA ReadStep ==
  ASSUME IInv, NEW S \in SUBSET OpenFiles, NEW hot,
         run'.held = [o \in S |-> ReadItem(o, hot)],
         UNCHANGED <<inbox, claims, crashes, ghosts>>
  PROVE  /\ run'.held \in Memories /\ DOMAIN run'.held = S
         /\ FilesOK' /\ HeldOK' /\ FilesTyped' /\ Evidence' = Evidence
         /\ \A a, b \in OpenFiles' \cup DOMAIN run'.held : Group(a) = Group(b) => a = b
<1> USE DEF ghosts
<1>1. /\ FilesTyped /\ FilesOK /\ OneGroup
  BY DEF IInv
<1>2. OpenFiles \subseteq Orders /\ OpenFiles' = OpenFiles
  BY DEF OpenFiles
<1>3. Evidence' = Evidence
  BY <1>2 DEF Evidence, OnDisk
<1>4. \A o \in S : /\ ItemOK(o, ReadItem(o, hot), digests)
                   /\ ReadItem(o, hot).keys = inbox[o].item.keys
                   /\ Occurrences(o, inbox[o].item.keys) \subseteq Evidence
  <2> TAKE o \in S
  <2>1. ItemOK(o, inbox[o].item, digests)
    BY <1>1 DEF FilesOK, OpenFiles
  <2>2. /\ ItemOK(o, ReadItem(o, hot), digests)
        /\ ReadItem(o, hot).keys = inbox[o].item.keys
    BY <1>2, <2>1, ReadFacts DEF ReadItem
  <2>3. Occurrences(o, inbox[o].item.keys) \subseteq Evidence
    BY EvidenceFacts
  <2> QED
    BY <2>2, <2>3
<1>5. run'.held \in [S -> Items] /\ S \in SUBSET Orders
  BY <1>2, <1>4 DEF ItemOK
<1>6. run'.held \in Memories
  BY <1>5 DEF Memories
<1>7. HeldOK'
  BY <1>3, <1>4 DEF HeldOK
<1>8. FilesOK' /\ FilesTyped'
  BY <1>1 DEF FilesOK, FilesTyped
<1> QED
  BY <1>1, <1>2, <1>3, <1>5, <1>6, <1>7, <1>8 DEF OneGroup

LEMMA StartRunStep ==
  ASSUME IInv, NEW review \in Reviews, NEW hot, StartRun(review, hot)
  PROVE  IInv'
<1> USE DEF StartRun
<1>1. RunTyped /\ OneGroup /\ exported \subseteq Evidence
  BY DEF IInv
<1>2. FirstOfGroups = OpenFiles
  <2>1. \A o \in OpenFiles : (CHOOSE n \in OpenFiles : Group(n) = Group(o)) = o
    BY <1>1 DEF OneGroup
  <2> QED
    BY <2>1 DEF FirstOfGroups
<1>3. run' = [pc |-> "orders", todo |-> review, visible |-> {},
              held |-> [o \in OpenFiles |-> ReadItem(o, hot)]]
  BY <1>2
<1>4. /\ run'.held \in Memories /\ DOMAIN run'.held = OpenFiles
      /\ FilesOK' /\ HeldOK' /\ FilesTyped' /\ Evidence' = Evidence
      /\ \A a, b \in OpenFiles' \cup DOMAIN run'.held : Group(a) = Group(b) => a = b
  BY <1>3, ReadStep
<1>5. RunTyped'
  BY <1>3, <1>4, ReviewFacts DEF RunTyped
<1>6. OneGroup'
  BY <1>4 DEF OneGroup, OpenFiles
<1>7. RunOK'
  BY <1>3 DEF RunOK, Readable
<1> QED
  BY <1>1, <1>4, <1>5, <1>6, <1>7 DEF IInv, ghosts

LEMMA StartDigestStep ==
  ASSUME IInv, NEW hot, StartDigest(hot)
  PROVE  IInv'
<1>1. exported \subseteq Evidence
  BY DEF IInv
<1>2. PICK S \in SUBSET OpenFiles :
        run' = [Idle EXCEPT !.pc = "publish",
                            !.held = [o \in S |-> ReadItem(o, hot)]]
  BY DEF StartDigest
<1>3. UNCHANGED <<inbox, claims, crashes, ghosts>> /\ Readable
  BY DEF StartDigest
<1>4. run' = [pc |-> "publish", todo |-> <<>>, visible |-> {},
              held |-> [o \in S |-> ReadItem(o, hot)]]
  BY <1>2 DEF Idle
<1>5. /\ run'.held \in Memories /\ DOMAIN run'.held = S
      /\ FilesOK' /\ HeldOK' /\ FilesTyped' /\ Evidence' = Evidence
      /\ \A a, b \in OpenFiles' \cup DOMAIN run'.held : Group(a) = Group(b) => a = b
  BY <1>3, <1>4, ReadStep
<1>6. RunTyped'
  <2>1. <<>> \in Seq(Orders)
    OBVIOUS
  <2> QED
    BY <1>4, <1>5, <2>1 DEF RunTyped
<1>7. OneGroup'
  BY <1>4, <1>5 DEF OneGroup, OpenFiles
<1>8. RunOK'
  BY <1>3, <1>4 DEF RunOK, Readable
<1> QED
  BY <1>1, <1>3, <1>5, <1>6, <1>7, <1>8 DEF IInv, ghosts

LEMMA PublishStep ==
  ASSUME IInv, Publish
  PROVE  IInv'
<1>1. /\ RunTyped /\ FilesTyped /\ FilesOK /\ HeldOK /\ OneGroup /\ RunOK
      /\ exported \subseteq Evidence
  BY DEF IInv
<1>2. PICK shown \in SUBSET DOMAIN run.held :
        /\ run' = [run EXCEPT !.pc = "mark", !.visible = shown]
        /\ digests' = digests \cup {DigestLine(o, run.held[o]) : o \in shown}
  BY DEF Publish, VisibleItems
<1>3. /\ run'.pc = "mark" /\ run'.visible = shown
      /\ run'.held = run.held /\ run'.todo = run.todo
      /\ run.pc = "publish"
      /\ UNCHANGED <<inbox, claims, crashes, exported, handed, damaged>>
  BY <1>1, <1>2 DEF Publish, RunTyped
<1>4. DOMAIN run.held \subseteq Orders
  BY <1>1 DEF RunTyped, Memories
<1>5. \A o, item : ItemOK(o, item, digests) => ItemOK(o, item, digests')
  BY <1>2 DEF ItemOK
<1>6. \A o \in DOMAIN run.held :
        DigestLine(o, run.held[o]) \in [name : Orders, count : Nat, keys : SUBSET Failures]
  BY <1>1, <1>4 DEF HeldOK, ItemOK, Items, DigestLine
<1>7. FilesTyped'
  BY <1>1, <1>2, <1>3, <1>6 DEF FilesTyped
<1>8. RunTyped'
  BY <1>1, <1>2, <1>3, <1>4 DEF RunTyped
<1>9. Evidence' = Evidence /\ OpenFiles' = OpenFiles
  BY <1>3 DEF Evidence, OnDisk, OpenFiles
<1>10. FilesOK' /\ HeldOK'
  BY <1>1, <1>3, <1>5, <1>9 DEF FilesOK, HeldOK
<1>11. OneGroup'
  BY <1>1, <1>3, <1>9 DEF OneGroup
<1>12. RunOK'
  BY <1>1, <1>2, <1>3 DEF RunOK, Readable, DigestLine
<1> QED
  BY <1>1, <1>3, <1>7, <1>8, <1>9, <1>10, <1>11, <1>12 DEF IInv

\* The run ends or dies, and the files stay.
LEMMA IdleStep ==
  ASSUME IInv, run' = Idle, UNCHANGED <<inbox, claims, ghosts>>,
         crashes' \in 0..MaxCrashes
  PROVE  IInv'
<1> USE DEF ghosts
<1>1. /\ FilesTyped /\ FilesOK /\ OneGroup /\ exported \subseteq Evidence
  BY DEF IInv
<1>2. Evidence' = Evidence /\ OpenFiles' = OpenFiles
  BY DEF Evidence, OnDisk, OpenFiles
<1>3. RunTyped'
  BY IdleTyped DEF RunTyped
<1>4. FilesTyped' /\ FilesOK'
  BY <1>1 DEF FilesTyped, FilesOK
<1>5. HeldOK' /\ OneGroup' /\ RunOK'
  BY <1>1, <1>2, IdleTyped DEF HeldOK, OneGroup, RunOK
<1> QED
  BY <1>1, <1>2, <1>3, <1>4, <1>5 DEF IInv

\* An order whose failures the item in memory has already: no file is written.
LEMMA SkipStep ==
  ASSUME IInv, run.pc = "orders", run.todo # <<>>, Skip,
         exported' = exported \cup Occurrences(Head(run.todo), ToSet(Head(run.todo))),
         Occurrences(Head(run.todo), ToSet(Head(run.todo))) \subseteq Evidence,
         UNCHANGED <<claims, crashes, digests, handed, damaged>>
  PROVE  IInv'
<1>1. /\ RunTyped /\ FilesTyped /\ FilesOK /\ HeldOK /\ OneGroup /\ RunOK
      /\ exported \subseteq Evidence
  BY DEF IInv
<1>2. /\ run.todo \in Seq(Orders) /\ Head(run.todo) \in Orders
      /\ Tail(run.todo) \in Seq(Orders)
  BY <1>1 DEF RunTyped
<1>3. /\ run' = [run EXCEPT !.todo = Tail(run.todo)] /\ inbox' = inbox
      /\ run'.pc = run.pc /\ run'.held = run.held /\ run'.visible = run.visible
  BY <1>1 DEF Skip, RunTyped
<1>4. RunTyped'
  BY <1>1, <1>2, <1>3 DEF RunTyped
<1>5. Evidence' = Evidence /\ OpenFiles' = OpenFiles
  BY <1>3 DEF Evidence, OnDisk, OpenFiles
<1>6. exported' \subseteq Groups \X Failures
  <2>1. Occurrences(Head(run.todo), ToSet(Head(run.todo))) \subseteq Groups \X Failures
    BY <1>2, OrderFacts, OccurrencesTyped
  <2> QED
    BY <1>1, <2>1 DEF FilesTyped
<1>7. FilesTyped' /\ FilesOK' /\ HeldOK' /\ OneGroup' /\ RunOK'
  BY <1>1, <1>3, <1>5, <1>6
  DEF FilesTyped, FilesOK, HeldOK, OneGroup, RunOK, Readable
<1> QED
  BY <1>1, <1>4, <1>5, <1>7 DEF IInv

\* An order that is written: merged into the item of its group, or a new item.
LEMMA OrderWrittenStep ==
  ASSUME IInv, run.pc = "orders", run.todo # <<>>,
         NEW o \in Orders, NEW item, Write(o, item), Hold(o, item),
         ItemOK(o, item, digests), inbox[o].item.keys \subseteq item.keys,
         Group(o) = Group(Head(run.todo)), ToSet(Head(run.todo)) \subseteq item.keys,
         \A a \in OpenFiles \cup DOMAIN run.held : Group(a) = Group(o) => a = o,
         exported' = exported \cup Occurrences(Head(run.todo), ToSet(Head(run.todo))),
         UNCHANGED <<claims, crashes, digests, handed, damaged>>
  PROVE  IInv'
<1> DEFINE order == Head(run.todo)
<1>1. /\ RunTyped /\ FilesTyped /\ OneGroup /\ RunOK /\ exported \subseteq Evidence
  BY DEF IInv
<1>2. /\ order \in Orders /\ Tail(run.todo) \in Seq(Orders)
  BY <1>1 DEF RunTyped
<1>3. item \in Items
  BY DEF ItemOK
<1>4. /\ run'.todo = Tail(run.todo) /\ run'.pc = run.pc
      /\ run'.visible = run.visible
      /\ run'.held = [n \in DOMAIN run.held \cup {o} |->
                        IF n = o THEN item ELSE run.held[n]]
      /\ run' = [run EXCEPT !.todo = run'.todo, !.held = run'.held]
  BY <1>1 DEF Hold, RunTyped
<1>5. WriteKeeps(o, item)
  BY <1>4 DEF WriteKeeps
<1>6. /\ inbox' \in [Orders -> [state : {"absent", "open", "taken", "torn"},
                                item : Items]]
      /\ FilesOK' /\ HeldOK' /\ OneGroup' /\ Readable'
      /\ Evidence \subseteq Evidence' /\ Occurrences(o, item.keys) \subseteq Evidence'
  BY <1>5, WriteStep
<1>7. PICK S \in SUBSET Orders : run.held \in [S -> Items]
  BY <1>1 DEF RunTyped, Memories
<1>8. run'.held \in [S \cup {o} -> Items]
  BY <1>3, <1>4, <1>7
<1>9. run'.held \in Memories
  BY <1>7, <1>8 DEF Memories
<1>10. RunTyped'
  BY <1>1, <1>2, <1>4, <1>9 DEF RunTyped
<1>11. Occurrences(order, ToSet(order)) \subseteq Occurrences(o, item.keys)
  BY OccurrencesGrow
<1>12. Occurrences(order, ToSet(order)) \subseteq Groups \X Failures
  BY <1>2, OrderFacts, OccurrencesTyped
<1>13. FilesTyped'
  BY <1>1, <1>6, <1>12 DEF FilesTyped
<1>14. RunOK'
  BY <1>4, <1>6 DEF RunOK
<1> QED
  BY <1>1, <1>6, <1>10, <1>11, <1>13, <1>14 DEF IInv

LEMMA ExportOrderStep ==
  ASSUME IInv, NEW hot, ExportOrder(hot)
  PROVE  IInv'
<1> DEFINE order == Head(run.todo)
<1>1. /\ RunTyped /\ FilesTyped /\ FilesOK /\ HeldOK /\ OneGroup /\ RunOK
  BY DEF IInv
<1>2. /\ run.pc = "orders" /\ run.todo # <<>>
      /\ exported' = exported \cup Occurrences(order, ToSet(order))
      /\ UNCHANGED <<claims, crashes, digests, handed, damaged>>
  BY DEF ExportOrder
<1>3. order \in Orders /\ DOMAIN run.held \subseteq Orders
  BY <1>1, <1>2 DEF RunTyped, Memories
<1>4. ASSUME NEW o \in Matching(run.held, order), MergeOrder(o, order, hot)
      PROVE  IInv'
  <2> DEFINE item == MergeIntoExistingItem(o, run.held[o], order, hot)
  <2>1. /\ o \in DOMAIN run.held /\ o \in Orders /\ Group(o) = Group(order)
        /\ ItemOK(o, run.held[o], digests)
        /\ inbox[o].item.keys \subseteq run.held[o].keys
        /\ Occurrences(o, run.held[o].keys) \subseteq Evidence
    BY <1>1, <1>3, <1>4 DEF Matching, HeldOK
  <2>2. CASE NewOccurrences(run.held[o], order) = {}
    <3>1. ToSet(order) \subseteq run.held[o].keys
      BY <2>2 DEF NewOccurrences, ToSet
    <3>2. Occurrences(order, ToSet(order)) \subseteq Evidence
      BY <2>1, <3>1, OccurrencesGrow
    <3>3. Skip
      BY <1>4, <2>2 DEF MergeOrder
    <3> QED
      BY <1>2, <3>2, <3>3, SkipStep
  <2>3. CASE NewOccurrences(run.held[o], order) # {}
    <3>1. Write(o, item) /\ Hold(o, item)
      BY <1>4, <2>3 DEF MergeOrder
    <3>2. /\ ItemOK(o, item, digests)
          /\ item.keys = run.held[o].keys \cup ToSet(order)
      <4>1. \A a, b \in Orders : \A i, lines :
              ItemOK(a, i, lines) =>
                LET r == MergeIntoExistingItem(a, i, b, hot)
                IN  ItemOK(a, r, lines) /\ r.keys = i.keys \cup ToSet(b)
        BY MergeFacts
      <4> QED
        BY <1>3, <2>1, <4>1
    <3>3. \A a \in OpenFiles \cup DOMAIN run.held : Group(a) = Group(o) => a = o
      BY <1>1, <2>1 DEF OneGroup
    <3> HIDE DEF item
    <3>4. inbox[o].item.keys \subseteq item.keys /\ ToSet(order) \subseteq item.keys
      BY <2>1, <3>2
    <3> QED
      BY <1>2, <2>1, <3>1, <3>2, <3>3, <3>4, OrderWrittenStep
  <2> QED
    BY <2>2, <2>3
<1>5. ASSUME Matching(run.held, order) = {}, WriteNewOrder(order, hot)
      PROVE  IInv'
  <2> DEFINE item == BuildAggregate(order, hot)
  <2>1. \A a \in OpenFiles \cup DOMAIN run.held : Group(a) # Group(order)
    BY <1>1, <1>2, <1>5 DEF OneGroup, Matching
  <2>2. CASE inbox[order].state # "absent"
    <3>1. inbox[order].state = "taken"
      BY <1>1, <1>2, <1>3, <2>1, <2>2 DEF FilesTyped, RunOK, Readable, OpenFiles
    <3>2. Occurrences(order, ToSet(order)) \subseteq Evidence
      BY <1>1, <1>3, <3>1 DEF FilesOK, Evidence
    <3>3. Skip
      BY <1>5, <2>2 DEF WriteNewOrder
    <3> QED
      BY <1>2, <3>2, <3>3, SkipStep
  <2>3. CASE inbox[order].state = "absent"
    <3>1. Write(order, item) /\ Hold(order, item)
      BY <1>5, <2>3 DEF WriteNewOrder
    <3>2. ItemOK(order, item, digests) /\ item.keys = ToSet(order)
      BY <1>3, BuildFacts
    <3>3. inbox[order].item.keys = {}
      BY <1>1, <1>3, <2>3, NoItemFacts DEF FilesOK
    <3>4. \A a \in OpenFiles \cup DOMAIN run.held : Group(a) = Group(order) => a = order
      BY <2>1
    <3> HIDE DEF item
    <3>5. inbox[order].item.keys \subseteq item.keys /\ ToSet(order) \subseteq item.keys
      BY <3>2, <3>3
    <3> QED
      BY <1>2, <1>3, <3>1, <3>2, <3>4, <3>5, OrderWrittenStep
  <2> QED
    BY <2>2, <2>3
<1> QED
  BY <1>4, <1>5 DEF ExportOrder

LEMMA MarkReportedStep ==
  ASSUME IInv, NEW hot, MarkReported(hot)
  PROVE  IInv'
<1>1. /\ RunTyped /\ FilesTyped /\ HeldOK /\ OneGroup /\ RunOK
      /\ exported \subseteq Evidence
  BY DEF IInv
<1>2. PICK o \in run.visible :
        /\ Write(o, MarkItemReported(o, run.held[o], hot))
        /\ run' = [run EXCEPT !.visible = @ \ {o}]
  BY DEF MarkReported
<1> DEFINE item == MarkItemReported(o, run.held[o], hot)
<1>3. /\ run.pc = "mark" /\ UNCHANGED <<claims, crashes, ghosts>>
  BY DEF MarkReported
<1>4. /\ o \in DOMAIN run.held /\ o \in Orders /\ DOMAIN run.held \subseteq Orders
      /\ ItemOK(o, run.held[o], digests)
      /\ inbox[o].item.keys \subseteq run.held[o].keys
      /\ [name |-> o, count |-> run.held[o].count, keys |-> run.held[o].keys] \in digests
  BY <1>1, <1>3 DEF RunTyped, Memories, HeldOK, RunOK, DigestLine
<1>5. ItemOK(o, item, digests) /\ item.keys = run.held[o].keys
  BY <1>4, MarkFacts
<1>6. /\ run'.pc = run.pc /\ run'.held = run.held /\ run'.todo = run.todo
      /\ run'.visible = run.visible \ {o}
  BY <1>1, <1>2 DEF RunTyped
<1> HIDE DEF item
<1>7. Write(o, item)
  BY <1>2 DEF item
<1>8. \A a \in OpenFiles \cup DOMAIN run.held : Group(a) = Group(o) => a = o
  BY <1>1, <1>4 DEF OneGroup
<1>9. WriteKeeps(o, item)
  BY <1>3, <1>4, <1>5, <1>6, <1>7, <1>8 DEF WriteKeeps, ghosts
<1>10. /\ inbox' \in [Orders -> [state : {"absent", "open", "taken", "torn"},
                                 item : Items]]
       /\ FilesOK' /\ HeldOK' /\ OneGroup' /\ Readable'
       /\ Evidence \subseteq Evidence'
  BY <1>4, <1>9, WriteStep
<1>11. RunTyped'
  BY <1>1, <1>2, <1>6 DEF RunTyped
<1>12. FilesTyped'
  BY <1>1, <1>3, <1>10 DEF FilesTyped, ghosts
<1>13. RunOK'
  BY <1>1, <1>3, <1>6, <1>10 DEF RunOK, DigestLine, ghosts
<1> QED
  BY <1>1, <1>3, <1>10, <1>11, <1>12, <1>13 DEF IInv, ghosts

\* A file is claimed, cleared away or torn.
LEMMA LoseStep ==
  ASSUME IInv, NEW o \in Orders, NEW after \in {Absent, Taken, Torn},
         inbox' = [inbox EXCEPT ![o] = after], UNCHANGED <<digests, exported>>,
         handed \subseteq handed', damaged \subseteq damaged',
         inbox[o].state = "open" =>
           Occurrences(o, inbox[o].item.keys) \subseteq handed' \cup damaged',
         after = Taken => Occurrences(o, ToSet(o)) \subseteq handed',
         run' = run \/ run' = Idle
  PROVE  /\ inbox' \in [Orders -> [state : {"absent", "open", "taken", "torn"},
                                   item : Items]]
         /\ RunTyped' /\ FilesOK' /\ HeldOK' /\ OneGroup'
         /\ exported' \subseteq Evidence'
<1>1. /\ RunTyped /\ FilesTyped /\ FilesOK /\ HeldOK /\ OneGroup
      /\ exported \subseteq Evidence
  BY DEF IInv
<1>2. /\ after.state \in {"absent", "taken", "torn"} /\ after.item = NoItem
      /\ after.state = "taken" => after = Taken
      /\ after \in [state : {"absent", "open", "taken", "torn"}, item : Items]
  BY NoItemFacts DEF Absent, Taken, Torn
<1>3. /\ \A n \in Orders \ {o} : inbox'[n] = inbox[n]
      /\ inbox'[o] = after
      /\ inbox' \in [Orders -> [state : {"absent", "open", "taken", "torn"},
                                item : Items]]
  BY <1>1, <1>2 DEF FilesTyped
<1>4. Evidence \subseteq Evidence'
  BY <1>1, EvidenceLost
<1>5. OpenFiles' \subseteq OpenFiles
  BY <1>2, <1>3 DEF OpenFiles
<1>6. FilesOK'
  BY <1>1, <1>2, <1>3 DEF FilesOK
<1>7. inbox'[o].item.keys = {}
  BY <1>2, <1>3, NoItemFacts
<1>8. CASE run' = run
  <2>1. RunTyped' /\ OneGroup'
    BY <1>1, <1>5, <1>8 DEF RunTyped, OneGroup
  <2>2. DOMAIN run.held \subseteq Orders
    BY <1>1 DEF RunTyped, Memories
  <2>3. HeldOK'
    BY <1>1, <1>3, <1>4, <1>7, <1>8, <2>2 DEF HeldOK
  <2> QED
    BY <1>1, <1>3, <1>4, <1>6, <2>1, <2>3
<1>9. CASE run' = Idle
  <2>1. RunTyped' /\ HeldOK'
    BY <1>9, IdleTyped DEF RunTyped, HeldOK
  <2>2. OneGroup'
    BY <1>1, <1>5, <1>9, IdleTyped DEF OneGroup
  <2> QED
    BY <1>1, <1>3, <1>4, <1>6, <2>1, <2>2
<1> QED
  BY <1>8, <1>9

\* The keys of any file are failures.
LEMMA KeysTyped ==
  ASSUME FilesTyped, NEW o \in Orders
  PROVE  Occurrences(o, inbox[o].item.keys) \subseteq Groups \X Failures
<1>1. inbox[o].item.keys \in SUBSET Failures
  BY DEF FilesTyped, Items
<1> QED
  BY <1>1, OccurrencesTyped

LEMMA ClaimStep ==
  ASSUME IInv, NEW o \in Orders, Claim(o)
  PROVE  IInv'
<1>1. /\ FilesTyped /\ FilesOK /\ RunOK
  BY DEF IInv
<1>2. /\ inbox[o].state = "open" /\ claims < MaxClaims /\ claims' = claims + 1
      /\ handed' = handed \cup Occurrences(o, inbox[o].item.keys)
      /\ UNCHANGED <<run, crashes, digests, exported, damaged>>
  BY DEF Claim
<1>3. PICK after \in {Absent, Taken} : inbox' = [inbox EXCEPT ![o] = after]
  BY DEF Claim
<1>4. Occurrences(o, ToSet(o)) \subseteq handed'
  <2>1. ToSet(o) \subseteq inbox[o].item.keys
    BY <1>1, <1>2 DEF FilesOK, ItemOK
  <2>2. Occurrences(o, ToSet(o)) \subseteq Occurrences(o, inbox[o].item.keys)
    BY <2>1, OccurrencesGrow
  <2> QED
    BY <1>2, <2>2
<1>5. /\ inbox' \in [Orders -> [state : {"absent", "open", "taken", "torn"},
                                item : Items]]
      /\ RunTyped' /\ FilesOK' /\ HeldOK' /\ OneGroup' /\ exported' \subseteq Evidence'
  BY <1>2, <1>3, <1>4, LoseStep
<1>6. claims' \in 0..MaxClaims
  BY <1>1, <1>2, InboxAssumption DEF FilesTyped
<1>7. FilesTyped'
  BY <1>1, <1>2, <1>5, <1>6, KeysTyped DEF FilesTyped
<1>8. \A n \in Orders : inbox'[n].state = "torn" => inbox[n].state = "torn"
  BY <1>1, <1>3 DEF FilesTyped, Absent, Taken
<1>9. RunOK'
  BY <1>1, <1>2, <1>8 DEF RunOK, Readable, DigestLine
<1> QED
  BY <1>5, <1>7, <1>9 DEF IInv

LEMMA ClearStep ==
  ASSUME IInv, NEW o \in Orders, Clear(o)
  PROVE  IInv'
<1> USE DEF ghosts
<1>1. /\ FilesTyped /\ FilesOK /\ RunOK
  BY DEF IInv
<1>2. /\ inbox[o].state = "taken" /\ inbox' = [inbox EXCEPT ![o] = Absent]
      /\ UNCHANGED <<run, claims, crashes, ghosts>>
  BY DEF Clear
<1>3. Absent # Taken
  BY DEF Absent, Taken
<1>4. /\ inbox' \in [Orders -> [state : {"absent", "open", "taken", "torn"},
                                item : Items]]
      /\ RunTyped' /\ FilesOK' /\ HeldOK' /\ OneGroup' /\ exported' \subseteq Evidence'
  BY <1>2, <1>3, LoseStep
<1>5. FilesTyped'
  BY <1>1, <1>2, <1>4 DEF FilesTyped
<1>6. \A n \in Orders : inbox'[n].state = "torn" => inbox[n].state = "torn"
  BY <1>1, <1>2 DEF FilesTyped, Absent
<1>7. RunOK'
  BY <1>1, <1>2, <1>6 DEF RunOK, Readable, DigestLine
<1> QED
  BY <1>4, <1>5, <1>7 DEF IInv

LEMMA CrashWritingStep ==
  ASSUME IInv, CrashWriting
  PROVE  IInv'
<1>1. RunTyped /\ FilesTyped
  BY DEF IInv
<1>2. Target \subseteq Orders
  <2>1. DOMAIN run.held \subseteq Orders /\ run.visible \subseteq Orders
    BY <1>1 DEF RunTyped, Memories
  <2>2. run.todo # <<>> => Head(run.todo) \in Orders
    BY <1>1 DEF RunTyped
  <2> QED
    BY <2>1, <2>2 DEF Target, Matching
<1>3. PICK o \in Orders :
        /\ inbox' = [inbox EXCEPT ![o] = Torn]
        /\ damaged' = damaged \cup Occurrences(o, inbox[o].item.keys)
  BY <1>2 DEF CrashWriting
<1>4. /\ run' = Idle /\ crashes' = crashes + 1 /\ crashes < MaxCrashes
      /\ UNCHANGED <<claims, digests, exported, handed>>
  BY DEF CrashWriting, Died
<1>5. Torn # Taken
  BY DEF Torn, Taken
<1>6. /\ inbox' \in [Orders -> [state : {"absent", "open", "taken", "torn"},
                                item : Items]]
      /\ RunTyped' /\ FilesOK' /\ HeldOK' /\ OneGroup' /\ exported' \subseteq Evidence'
  BY <1>3, <1>4, <1>5, LoseStep
<1>7. crashes' \in 0..MaxCrashes
  BY <1>1, <1>4, InboxAssumption DEF FilesTyped
<1>8. FilesTyped'
  BY <1>1, <1>3, <1>4, <1>6, <1>7, KeysTyped DEF FilesTyped
<1>9. RunOK'
  BY <1>4, IdleTyped DEF RunOK
<1> QED
  BY <1>6, <1>8, <1>9 DEF IInv

LEMMA InitInvariant == Init => IInv
<1> SUFFICES ASSUME Init PROVE IInv
  OBVIOUS
<1>1. /\ inbox = [o \in Orders |-> Absent] /\ run = Idle
      /\ claims = 0 /\ crashes = 0
      /\ digests = {} /\ exported = {} /\ handed = {} /\ damaged = {}
  BY DEF Init
<1>2. RunTyped
  BY <1>1, IdleTyped DEF RunTyped
<1>3. FilesTyped
  BY <1>1, NoItemFacts, InboxAssumption DEF FilesTyped, Absent
<1>4. FilesOK /\ OpenFiles = {}
  BY <1>1 DEF FilesOK, Absent, OpenFiles
<1>5. HeldOK /\ OneGroup /\ RunOK
  BY <1>1, <1>4, IdleTyped DEF HeldOK, OneGroup, RunOK
<1> QED
  BY <1>1, <1>2, <1>3, <1>4, <1>5 DEF IInv

LEMMA StutterStep ==
  ASSUME IInv, UNCHANGED vars
  PROVE  IInv'
<1>1. /\ RunTyped' /\ FilesTyped' /\ FilesOK'
  BY DEF IInv, vars, ghosts, RunTyped, FilesTyped, FilesOK
<1>2. OpenFiles' = OpenFiles /\ Evidence' = Evidence
  BY DEF vars, ghosts, OpenFiles, Evidence, OnDisk
<1>3. HeldOK' /\ OneGroup' /\ RunOK' /\ exported' \subseteq Evidence'
  BY <1>2 DEF IInv, vars, ghosts, HeldOK, OneGroup, RunOK, Readable, DigestLine
<1> QED
  BY <1>1, <1>3 DEF IInv

LEMMA NextInvariant == IInv /\ [Next]_vars => IInv'
<1> SUFFICES ASSUME IInv, [Next]_vars PROVE IInv'
  OBVIOUS
<1>1. ASSUME NEW review \in Reviews, NEW hot, StartRun(review, hot) PROVE IInv'
  BY <1>1, StartRunStep
<1>2. ASSUME NEW hot, ExportOrder(hot) PROVE IInv'
  BY <1>2, ExportOrderStep
<1>3. ASSUME NEW hot, MarkReported(hot) PROVE IInv'
  BY <1>3, MarkReportedStep
<1>4. ASSUME NEW hot, StartDigest(hot) PROVE IInv'
  BY <1>4, StartDigestStep
<1>5. CASE Publish
  BY <1>5, PublishStep
<1>6. CASE EndRun
  <2>1. crashes' \in 0..MaxCrashes
    BY <1>6 DEF EndRun, IInv, FilesTyped
  <2> QED
    BY <1>6, <2>1, IdleStep DEF EndRun
<1>7. CASE Crash
  <2>1. crashes' \in 0..MaxCrashes
    BY <1>7, InboxAssumption DEF Crash, Died, IInv, FilesTyped
  <2> QED
    BY <1>7, <2>1, IdleStep DEF Crash, Died
<1>8. CASE CrashWriting
  BY <1>8, CrashWritingStep
<1>9. ASSUME NEW o \in Orders, Claim(o) \/ Clear(o) PROVE IInv'
  BY <1>9, ClaimStep, ClearStep
<1>10. CASE UNCHANGED vars
  BY <1>10, StutterStep
<1> QED
  BY <1>1, <1>2, <1>3, <1>4, <1>5, <1>6, <1>7, <1>8, <1>9, <1>10 DEF Next, Hook

-----------------------------------------------------------------------------
(* The theorems.                                                           *)

\* Whatever the hook, its crashes and the agents do, files and memory stay
\* well formed and evidence is kept.
THEOREM Invariance == Spec => []IInv
  BY InitInvariant, NextInvariant, PTL DEF Spec

\* Every file and everything in the hook's memory keeps its shape.
THEOREM TypeCorrect == Spec => []TypeOK
<1>1. IInv => TypeOK
  BY DEF IInv, RunTyped, FilesTyped, Memories, TypeOK
<1> QED
  BY <1>1, Invariance, PTL

\* Failures of one dedupe group never have two open work orders.
THEOREM OneOpenItem == Spec => []OneOpenItemPerGroup
<1>1. IInv => OneOpenItemPerGroup
  BY DEF IInv, OneGroup, OneOpenItemPerGroup
<1> QED
  BY <1>1, Invariance, PTL

\* What an export processed is in an open item, was handed to an agent, or was
\* in a file that a crash tore.
THEOREM NoEvidenceIsLost == Spec => []NoEvidenceLost
<1>1. IInv => NoEvidenceLost
  BY DEF IInv, Evidence, OnDisk, NoEvidenceLost
<1> QED
  BY <1>1, Invariance, PTL

\* An item marked as reported is shown, with that count and evidence, by a
\* digest on disk.
THEOREM ReportsAreBacked == Spec => []ReportedWasDigested
<1>1. IInv => ReportedWasDigested
  BY DEF IInv, FilesOK, ItemOK, OpenFiles, ReportedWasDigested
<1> QED
  BY <1>1, Invariance, PTL

\* A reported item is raised again only for Threshold failures or more that no
\* digest has shown.
THEOREM RaisedOnGrowth == Spec => []RaisedAgainOnGrowth
<1>1. IInv => RaisedAgainOnGrowth
  <2> SUFFICES ASSUME IInv, NEW o \in OpenFiles,
                      inbox[o].item.reported > 0, inbox[o].item.needed
               PROVE  Cardinality(inbox[o].item.keys \ inbox[o].item.told) >= Threshold
    BY DEF RaisedAgainOnGrowth
  <2> DEFINE item == inbox[o].item
  <2>1. ItemOK(o, item, digests)
    BY DEF IInv, FilesOK, OpenFiles
  <2> HIDE DEF item
  <2>2. /\ item.count \in Nat /\ item.reported \in Nat /\ Threshold \in Nat \ {0}
    BY <2>1, InboxAssumption DEF ItemOK, Items
  <2>3. /\ IsFiniteSet(item.keys) /\ item.told \subseteq item.keys
    BY <2>1 DEF ItemOK
  <2>4. IsFiniteSet(item.told)
    BY <2>3, FS_Subset
  <2>5. Cardinality(item.keys \ item.told)
          = Cardinality(item.keys) - Cardinality(item.told)
    <3>1. item.keys \cap item.told = item.told
      BY <2>3
    <3> QED
      BY <2>3, <3>1, FS_Difference
  <2>6. Cardinality(item.keys) \in Nat /\ Cardinality(item.told) \in Nat
    BY <2>3, <2>4, FS_CardinalityType
  <2>7. /\ Cardinality(item.told) <= item.reported
        /\ item.count <= item.reported \/ item.count = Cardinality(item.keys)
        /\ item.count >= item.reported + Threshold
    BY <2>1 DEF ItemOK, ReportOK, item
  <2>8. Cardinality(item.keys \ item.told) >= Threshold
    <3> DEFINE k == Cardinality(item.keys)
               t == Cardinality(item.told)
    <3>1. k \in Nat /\ t \in Nat /\ Cardinality(item.keys \ item.told) = k - t
      BY <2>5, <2>6
    <3>2. t <= item.reported /\ k >= item.reported + Threshold
      BY <2>2, <2>7
    <3> HIDE DEF k, t
    <3> QED
      BY <2>2, <3>1, <3>2
  <2> QED
    BY <2>8 DEF item
<1> QED
  BY <1>1, Invariance, PTL
=============================================================================
