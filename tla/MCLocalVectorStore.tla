------------------------- MODULE MCLocalVectorStore -------------------------
(* LocalVectorStore for TLC, with a memory of the last upsert, to ask whether *)
(* rolling it back gives the records before it.  Batch ids are interchange-   *)
(* able; record ids are not, their order is that of the lines of the file.    *)
EXTENDS LocalVectorStore, TLC

MCIds == 1..2
Symmetry == Permutations(Batches)

VARIABLE undo      \* the last upsert begun and the records it started from

NoUndo == [batch |-> None, base |-> Nothing]

\* Without the memory, for the run that does not ask.
MCInit == Init /\ undo = NoUndo
MCSpec == MCInit /\ [][Next /\ UNCHANGED undo]_<<vars, undo>>

UndoNext ==
  /\ Next
  /\ undo' = IF job.pc = "idle" /\ job'.op = "upsert"
             THEN [batch |-> job'.batch, base |-> records]
             ELSE IF job'.pc = "idle" /\ job.pc # "copied" THEN NoUndo ELSE undo

UndoSpec == MCInit /\ [][UndoNext]_<<vars, undo>>

\* ARCHITECTURE.md calls the state plane, vector stores included, versioned and
\* reversible: rolling the last upsert back gives the records before it (asked
\* only where batch ids are fresh and nothing ever died).
RollbackRestores ==
  /\ job.pc = "manifest" /\ job.op = "rollback" /\ job.batch = undo.batch
  /\ crashed = {} /\ \A b \in Batches : started[b] <= 1
  => records = undo.base
=============================================================================
