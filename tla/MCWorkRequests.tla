--------------------------- MODULE MCWorkRequests ---------------------------
(***************************************************************************)
(* Three calls, each of which may ask for anything: two conversions can    *)
(* overlap, or follow each other after a crash, with a decision, a change  *)
(* of status or a deletion between their steps.                            *)
(***************************************************************************)
EXTENDS WorkRequests, TLC

Symmetry == Permutations(Calls)
=============================================================================
