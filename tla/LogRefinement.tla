--------------------------- MODULE LogRefinement ---------------------------
(***************************************************************************)
(* LogPipeline implements AsyncLog.                                        *)
(***************************************************************************)
EXTENDS LogPipeline

(* A message counts for the waiters from logTasks.Add on, and is finished   *)
(* when its fate is known: the consumer's Done comes after that.            *)
AbsState ==
  [m \in Msgs |-> IF fate[m] # "none" THEN "done"
                  ELSE IF st[m] \in {"new", "called"} THEN "new"
                  ELSE IF \E p \in Goroutines : msg[p] = m THEN "offered"
                  ELSE "queued"]

AbsOwner == [m \in Msgs |-> IF st[m] = "new" \/ st[m] = "called" \/ fate[m] = "muted"
                            THEN None ELSE to[m]]

(* The consumer's message is ahead of what is left in the channel. *)
AbsQueue == IF pc[Consumer] \in {"open", "write"}
            THEN <<msg[Consumer]>> \o tologCh ELSE tologCh

AbsWaiting == [p \in Goroutines |->
                 IF pc[p] \in {"wg", "parked", "woken", "end", "panickedInWait"}
                 THEN arg[p] ELSE None]

AbsOwed == [p \in Goroutines |-> {m \in seen[p] : fate[m] = "none"}]

Abstract ==
  INSTANCE AsyncLog WITH
    Callers <- Goroutines, Capacity <- ChanCap,
    state <- AbsState, owner <- AbsOwner, queue <- AbsQueue, file <- file,
    waiting <- AbsWaiting, owed <- AbsOwed, void <- misused

(* Every behaviour of print, the consumer and Wait is one of AsyncLog.      *)
ImplementsAsyncLog == Abstract!Spec
=============================================================================
