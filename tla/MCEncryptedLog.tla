--------------------------- MODULE MCEncryptedLog ---------------------------
(***************************************************************************)
(* EncryptedLog for TLC.                                                   *)
(***************************************************************************)
EXTENDS EncryptedLog, TLC

CONSTANT f1

(* All loggers write to one file. *)
OneFile == [l \in Loggers |-> f1]

Symmetry == Permutations(Goroutines) \cup Permutations(Msgs) \cup Permutations(Keys)
              \cup Permutations(Loggers)
=============================================================================
