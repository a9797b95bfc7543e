--------------------------- MODULE MCLoggerCache ---------------------------
(***************************************************************************)
(* LoggerCache for TLC.                                                    *)
(***************************************************************************)
EXTENDS CacheRefinement, TLC

(* Not the loggers and messages: FreshLogger and FreshMsg choose among them. *)
Symmetry == Permutations(Goroutines) \cup Permutations(Names)
=============================================================================
