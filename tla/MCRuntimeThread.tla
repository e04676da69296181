--------------------------- MODULE MCRuntimeThread ---------------------------
(* RuntimeThread for TLC: two interchangeable escalations.                 *)
EXTENDS RuntimeThread, TLC

Symmetry == Permutations(Escalations)
=============================================================================
