--------------------------- MODULE MCLogPipeline ---------------------------
(***************************************************************************)
(* LogPipeline for TLC.                                                    *)
(***************************************************************************)
EXTENDS LogRefinement, TLC

Symmetry == Permutations(Goroutines) \cup Permutations(Msgs) \cup Permutations(Loggers)

(***************************************************************************)
(* For the liveness runs the printing never ends: the element of Msgs that *)
(* stands for a message that is done with stands for a new one later.  It  *)
(* is taken out of the histories too.                                      *)
(***************************************************************************)
Recycle(m) ==
  LET Other(n) == n # m IN
  /\ st[m] = "settled"
  /\ \A t \in Threads : msg[t] # m
  /\ st' = [st EXCEPT ![m] = "new"]
  /\ fate' = [fate EXCEPT ![m] = "none"]
  /\ to' = [to EXCEPT ![m] = None]
  /\ seen' = [p \in Goroutines |-> seen[p] \ {m}]
  /\ sent' = SelectSeq(sent, Other)
  /\ file' = [l \in Loggers |-> SelectSeq(file[l], Other)]
  /\ UNCHANGED <<pc, op, arg, msg, tologCh, dropAlert, waitStarted, wgVars, log, zlog, fd>>

EndlessSpec == Init /\ [][Next \/ \E m \in Msgs : Recycle(m)]_vars /\ Fairness
=============================================================================
