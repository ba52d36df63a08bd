----------------------------- MODULE MCShmServer -----------------------------
(* ShmServer with processes that nothing tells apart.                       *)
EXTENDS ShmServer, TLC

Symmetry == Permutations(Procs)
=============================================================================
