--------------------------- MODULE CacheRefinement ---------------------------
(***************************************************************************)
(* LoggerCache implements LoggerDirectory.                                 *)
(***************************************************************************)
EXTENDS LoggerCache

(* The live logger of a name is the one that a look into the cache finds. *)
AbsLive == [f \in Names |-> IF CachedAs(f) = {} THEN None
                            ELSE (CHOOSE e \in CachedAs(f) : TRUE).log]

(* A logger counts from the moment it is in the cache. *)
AbsNameOf == [l \in Loggers |-> IF l \in CachedLogs \cup evicted THEN filename[l] ELSE None]

(* What a call of p waits for, from the begin to the end of a l.Wait. *)
WaitsFor(p) == IF InWait(p) THEN target[p] ELSE None

(* The new logger of NewLogger while the callback runs. *)
Opens(p) == IF Flushing(p) THEN fresh[p] ELSE None

(* Wait has taken the keys. *)
Covering(p) == op[p] = "all" /\ (pc[p] \in {"next", "begin"} \/ InWait(p))

Owes(p) ==
  {m \in owed[p] : /\ st[m] \in Counted /\ to[m] \notin away[p] \cup misused
                   /\ Flushing(p) \/ (Covering(p) /\ to[m] \notin evicted)}

(* A message counts from logTasks.Add on, a mute until waitStarted is down. *)
AbsState ==
  [m \in Msgs |-> IF st[m] \in Counted THEN "pending"
                  ELSE IF st[m] = "called" THEN "admitted" ELSE st[m]]
AbsMuted == {l \in Loggers : waitStarted[l]}
AbsThrough == {p \in Goroutines : pc[p] = "end"}

AbsWaitsFor == [p \in Goroutines |-> WaitsFor(p)]
AbsOpening == [p \in Goroutines |-> Opens(p)]
AbsCovering == [p \in Goroutines |-> Covering(p)]
AbsOwed == [p \in Goroutines |-> Owes(p)]

Directory ==
  INSTANCE LoggerDirectory WITH
    Callers <- Goroutines, Capacity <- CacheCap,
    live <- AbsLive, nameOf <- AbsNameOf, given <- returned, state <- AbsState, owner <- to,
    muted <- AbsMuted, broken <- misused, through <- AbsThrough, waitsFor <- AbsWaitsFor, opening <- AbsOpening, covering <- AbsCovering, owed <- AbsOwed

(* NewLogger's two looks, its insertion, the eviction callback, Wait's loop *)
(* over the keys and l.Wait behave as the atomic steps of the directory.    *)
ImplementsDirectory == Directory!Spec

(***************************************************************************)
(* What the steps need beyond LoggersInv.                                  *)
(***************************************************************************)
(* One goroutine is past wMutex.Lock of Wait. *)
WaitMutexInv == \A p \in Goroutines : op[p] = "all" /\ pc[p] # "wlock" => wMutex = p

(* waitStarted is up while one goroutine is in the logger's Wait, and for   *)
(* ever when that one ended in a panic.                                     *)
StartedInv ==
  /\ \A l \in Loggers :
       waitStarted[l] => l \in misused \/ \E p \in Goroutines : InWait(p) /\ target[p] = l
  /\ \A p \in Goroutines : InWait(p) => waitStarted[target[p]]
  /\ \A p, q \in Goroutines : InWait(p) /\ InWait(q) /\ target[p] = target[q] => p = q

AwayInv ==
  \A p \in Goroutines : pc[p] \in {"idle", "lock", "again", "add", "wlock", "keys"} => away[p] = {}

(* A logger has the name it is cached under, is not the one being added,    *)
(* and is never cached again after its eviction.                            *)
NamesInv ==
  /\ \A e \in ToSet(cache) : filename[e.log] = e.name /\ e.log \notin evicted
  /\ \A l \in evicted : filename[l] # None
  /\ \A p \in Goroutines : pc[p] = "add" =>
       filename[fresh[p]] = key[p] /\ fresh[p] \notin CachedLogs \cup evicted

DirectoryInv ==
  /\ LoggersInv
  /\ WaitMutexInv
  /\ StartedInv
  /\ AwayInv
  /\ NamesInv
=============================================================================
