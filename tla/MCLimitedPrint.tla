--------------------------- MODULE MCLimitedPrint ---------------------------
(***************************************************************************)
(* LimitedPrint for TLC.                                                   *)
(***************************************************************************)
EXTENDS LimitedPrint, TLC

Symmetry == Permutations(Calls) \cup Permutations(Ids)
=============================================================================
