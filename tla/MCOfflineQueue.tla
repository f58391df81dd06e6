--------------------------- MODULE MCOfflineQueue ---------------------------
(***************************************************************************)
(* Two callers of flushQueue and three requests.                           *)
(***************************************************************************)
EXTENDS OfflineQueue, TLC

Symmetry == Permutations(Flushes) \cup Permutations(Items)
=============================================================================
