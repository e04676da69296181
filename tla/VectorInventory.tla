--------------------------- MODULE VectorInventory ---------------------------
(***************************************************************************)
(* What the local vector store promises its users: an inventory of records,*)
(* each owned by the batch that last wrote it, changed by whole upserts    *)
(* and whole rollbacks.  A writer that dies may damage it: a tail of the   *)
(* records is gone, or nobody can read it any more.                        *)
(***************************************************************************)
EXTENDS Naturals

CONSTANTS Ids,        \* record ids, numbered in the order the store keeps
          Batches     \* batch ids

VARIABLES inventory,  \* the batch that owns each record, "null" for none
          readable

vars == <<inventory, readable>>

Init ==
  /\ inventory = [i \in Ids |-> "null"]
  /\ readable = TRUE

Upsert(b, S) ==
  /\ readable
  /\ inventory' = [i \in Ids |-> IF i \in S THEN b ELSE inventory[i]]
  /\ UNCHANGED readable

Rollback(b) ==
  /\ readable
  /\ inventory' = [i \in Ids |-> IF inventory[i] = b THEN "null" ELSE inventory[i]]
  /\ UNCHANGED readable

\* Nothing is ever added or changed by damage; only the last records go.
Damage ==
  /\ readable
  /\ \E k \in Ids \cup {0} :
       inventory' = [i \in Ids |-> IF i <= k THEN inventory[i] ELSE "null"]
  /\ readable' \in BOOLEAN

Next ==
  \/ \E b \in Batches, S \in SUBSET Ids : Upsert(b, S)
  \/ \E b \in Batches : Rollback(b)
  \/ Damage

Spec == Init /\ [][Next]_vars
=============================================================================
