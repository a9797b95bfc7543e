---------------------------- MODULE LoggerCache ----------------------------
(***************************************************************************)
(* The cache of loggers of logger.go: NewLogger's double-checked lookup,   *)
(* the eviction callback that flushes and closes the oldest logger, and    *)
(* the package function Wait over all cached loggers.                      *)
(*                                                                         *)
(* The write path is that of LogPipeline seen from here, without writers   *)
(* and files: print in its steps, the consumer in its own, the WaitGroup   *)
(* logTasks as what it counts, with a history of the Adds that come while  *)
(* a Wait still has to return.  After such an Add the WaitGroup may let    *)
(* its waiter through or panic, in the print, the Wait or the consumer.    *)
(***************************************************************************)
EXTENDS Integers, Sequences, FiniteSets, SequencesExt

CONSTANTS
  Goroutines,   (* goroutines of the application                           *)
  Names,        (* filenames                                               *)
  Loggers,      (* *Logger values NewLogger can allocate (bounds the runs) *)
  Msgs,         (* one element for each message printed                    *)
  CacheCap,     (* capacity of initializedLoggers (1000 in the code)       *)
  ChanCap,      (* capacity of tologCh (10000 in the code)                 *)
  CacheLocked,  (* the cache calls the callback under its own lock         *)
  None

ASSUME CacheAssumption ==
  /\ IsFiniteSet(Goroutines) /\ IsFiniteSet(Loggers)
  /\ CacheCap \in Nat \ {0} /\ ChanCap \in Nat \ {0}
  /\ CacheLocked \in BOOLEAN
  /\ None \notin Goroutines \cup Names \cup Loggers \cup Msgs

VARIABLES
  pc,             (* next step of each goroutine                           *)
  op,             (* its call: "new" NewLogger, "all" Wait, "one" l.Wait    *)
  key,            (* the filename NewLogger was called with                *)
  fresh,          (* the logger NewLogger is making                        *)
  target,         (* the logger whose Wait is running in the call          *)
  todo,           (* keys that Wait has still to visit                     *)
  newLoggerMutex, (* holder, or None                                       *)
  wMutex,         (* holder, or None                                       *)
  evicting,       (* the goroutine that runs the callback, or None         *)
  cache,          (* initializedLoggers: [name, log], least recent first   *)
  filename,       (* the name a logger was allocated for; None if it is not *)
  returned,       (* history: loggers NewLogger has returned               *)
  evicted,        (* history: loggers the cache has evicted                *)
  waitStarted,    (* of each logger: print is mute                         *)
  tologCh,        (* the channel                                           *)
  hand,           (* the message the consumer is at, or None               *)
  consuming,      (* the consumer goroutine has not ended                  *)
  misused,        (* history: loggers with an Add before a Wait returned   *)
  st, to,         (* where print and the consumer are with a message, and its logger *)
  owed,           (* history: what was pending when an eviction or Wait began *)
  away            (* history: loggers whose Wait turned the call away      *)

callVars  == <<op, key, fresh, target, todo>>
lockVars  == <<newLoggerMutex, wMutex, evicting>>
cacheVars == <<cache, filename, returned, evicted>>
chanVars  == <<tologCh, hand, consuming>>
pipeVars  == <<waitStarted, chanVars, misused, st, to>>
waitVars  == <<owed, away>>
vars == <<pc, callVars, lockVars, cacheVars, pipeVars, waitVars>>

(***************************************************************************)
(* st[m]: "new" not printed yet, "called" print passed the waitStarted     *)
(* test, "added" logTasks.Add(1) was called, "sent" it is on the channel   *)
(* or with the consumer, "dropped" the channel was full, "panicked" its    *)
(* print ended in Add, "settled" it was turned away or Done was called.    *)
(***************************************************************************)
Counted == {"added", "sent", "dropped", "panicked"}

Pending(l) == {m \in Msgs : to[m] = l /\ st[m] \in Counted}

(* Whose logTasks.Wait() of l found something counted. *)
Parked(l) == {p \in Goroutines : pc[p] = "parked" /\ target[p] = l}

(* p has put up waitStarted. *)
InWait(p) == pc[p] \in {"wait", "parked", "end"}

Allocated == {l \in Loggers : filename[l] # None}

(* &Logger{...}: which of the unused values it is makes no difference. *)
FreshLogger == CHOOSE l \in Loggers : l \notin Allocated

(* Likewise for the messages. *)
FreshMsg == CHOOSE m \in Msgs : st[m] = "new"

CachedAs(f) == {e \in ToSet(cache) : e.name = f}
CachedLogs == {e.log : e \in ToSet(cache)}

(* The cache finds an entry by its key, and moves or replaces that one.     *)
Places(f) == {k \in DOMAIN cache : cache[k].name = f}
Without(f) == IF Places(f) = {} THEN cache ELSE RemoveAt(cache, CHOOSE k \in Places(f) : TRUE)

(* lru.Cache.Get: the entry found becomes the most recent one. *)
Hit(f, e) == e \in CachedAs(f) /\ cache' = Append(Without(f), e)
Miss(f)   == CachedAs(f) = {} /\ UNCHANGED cache

(* The goroutines that may yet make a logger. *)
Making == {p \in Goroutines : pc[p] \in {"lock", "again"}}

(* The cache can be used: not while a callback runs under its lock. *)
CacheFree == CacheLocked => evicting = None

-----------------------------------------------------------------------------
Init ==
  /\ pc = [p \in Goroutines |-> "idle"]
  /\ op = [p \in Goroutines |-> "none"]
  /\ key = [p \in Goroutines |-> None]
  /\ fresh = [p \in Goroutines |-> None]
  /\ target = [p \in Goroutines |-> None]
  /\ todo = [p \in Goroutines |-> <<>>]
  /\ newLoggerMutex = None
  /\ wMutex = None
  /\ evicting = None
  /\ cache = <<>>
  /\ filename = [l \in Loggers |-> None]
  /\ returned = {}
  /\ evicted = {}
  /\ waitStarted = [l \in Loggers |-> FALSE]
  /\ tologCh = <<>>
  /\ hand = None
  /\ consuming = TRUE
  /\ misused = {}
  /\ st = [m \in Msgs |-> "new"]
  /\ to = [m \in Msgs |-> None]
  /\ owed = [p \in Goroutines |-> {}]
  /\ away = [p \in Goroutines |-> {}]

Goto(p, next) == pc' = [pc EXCEPT ![p] = next]

(* The call of p is over. *)
Finish(p) ==
  /\ Goto(p, "idle")
  /\ op' = [op EXCEPT ![p] = "none"]
  /\ key' = [key EXCEPT ![p] = None]
  /\ fresh' = [fresh EXCEPT ![p] = None]
  /\ target' = [target EXCEPT ![p] = None]
  /\ owed' = [owed EXCEPT ![p] = {}]
  /\ away' = [away EXCEPT ![p] = {}]
  /\ UNCHANGED todo

-----------------------------------------------------------------------------
(* NewLogger and GetLoggerBySuffix.  First look without the mutex.  A call  *)
(* starts only while there is a logger left for it to allocate.             *)
NewCall(p, f) ==
  /\ pc[p] = "idle"
  /\ CacheFree
  /\ \/ \E e \in CachedAs(f) :
          /\ Hit(f, e)
          /\ returned' = returned \cup {e.log}
          /\ UNCHANGED <<pc, callVars>>
     \/ /\ Miss(f)
        /\ Cardinality(Allocated) + Cardinality(Making) < Cardinality(Loggers)
        /\ Goto(p, "lock")
        /\ op' = [op EXCEPT ![p] = "new"]
        /\ key' = [key EXCEPT ![p] = f]
        /\ UNCHANGED <<returned, fresh, target, todo>>
  /\ UNCHANGED <<lockVars, filename, evicted, pipeVars, waitVars>>

NewLock(p) ==
  /\ pc[p] = "lock"
  /\ newLoggerMutex = None
  /\ newLoggerMutex' = p
  /\ Goto(p, "again")
  /\ UNCHANGED <<callVars, wMutex, evicting, cacheVars, pipeVars, waitVars>>

(* Mutant of NewHit: the mutex is not unlocked on this way out. *)
NewHitKeepsMutex(p) ==
  /\ pc[p] = "again"
  /\ CacheFree
  /\ \E e \in CachedAs(key[p]) :
       /\ Hit(key[p], e)
       /\ returned' = returned \cup {e.log}
  /\ Finish(p)
  /\ UNCHANGED <<lockVars, filename, evicted, pipeVars>>

(* The second look, under the mutex: somebody else made it meanwhile ...    *)
NewHit(p) ==
  /\ pc[p] = "again"
  /\ CacheFree
  /\ \E e \in CachedAs(key[p]) :
       /\ Hit(key[p], e)
       /\ returned' = returned \cup {e.log}
  /\ newLoggerMutex' = None
  /\ Finish(p)
  /\ UNCHANGED <<wMutex, evicting, filename, evicted, pipeVars>>

(* Mutant of NewMake: there is no second look. *)
NewMakeUnchecked(p) ==
  LET l == FreshLogger IN
  /\ pc[p] = "again"
  /\ CacheFree
  /\ filename' = [filename EXCEPT ![l] = key[p]]
  /\ fresh' = [fresh EXCEPT ![p] = l]
  /\ Goto(p, "add")
  /\ UNCHANGED <<op, key, target, todo, lockVars, cache, returned, evicted, pipeVars, waitVars>>

(* ... or the logger is made.                                               *)
NewMake(p) ==
  LET l == FreshLogger IN
  /\ pc[p] = "again"
  /\ CacheFree
  /\ Miss(key[p])
  /\ filename' = [filename EXCEPT ![l] = key[p]]
  /\ fresh' = [fresh EXCEPT ![p] = l]
  /\ Goto(p, "add")
  /\ UNCHANGED <<op, key, target, todo, lockVars, returned, evicted, pipeVars, waitVars>>

(* initializedLoggers.Add: there is room, and NewLogger returns ...         *)
NewAdd(p) ==
  LET entries == Append(Without(key[p]), [name |-> key[p], log |-> fresh[p]]) IN
  /\ pc[p] = "add"
  /\ CacheFree
  /\ Len(entries) <= CacheCap
  /\ cache' = entries
  /\ returned' = returned \cup {fresh[p]}
  /\ newLoggerMutex' = None
  /\ Finish(p)
  /\ UNCHANGED <<wMutex, evicting, filename, evicted, pipeVars>>

(* ... or the oldest logger is evicted, and the callback flushes it first.  *)
NewEvict(p) ==
  LET entries == Append(Without(key[p]), [name |-> key[p], log |-> fresh[p]])
      oldest == Head(entries).log
  IN  /\ pc[p] = "add"
      /\ CacheFree
      /\ Len(entries) > CacheCap
      /\ cache' = Tail(entries)
      /\ evicted' = evicted \cup {oldest}
      /\ evicting' = p
      /\ target' = [target EXCEPT ![p] = oldest]
      /\ owed' = [owed EXCEPT ![p] = Pending(oldest)]
      /\ Goto(p, "begin")
      /\ UNCHANGED <<op, key, fresh, todo, newLoggerMutex, wMutex,
                     filename, returned, away, pipeVars>>

(* The rest of the callback closes the writer, if there is one, and the     *)
(* deferred Unlock of NewLogger runs.                                       *)
EvictClose(p) ==
  /\ pc[p] = "close"
  /\ evicting' = None
  /\ newLoggerMutex' = None
  /\ returned' = returned \cup {fresh[p]}
  /\ Finish(p)
  /\ UNCHANGED <<wMutex, cache, filename, evicted, pipeVars>>

-----------------------------------------------------------------------------
(* The package function Wait. *)
AllCall(p) ==
  /\ pc[p] = "idle"
  /\ op' = [op EXCEPT ![p] = "all"]
  /\ Goto(p, "wlock")
  /\ UNCHANGED <<key, fresh, target, todo, lockVars, cacheVars, pipeVars, waitVars>>

(* Mutant of AllLock: wMutex does not keep a second Wait out. *)
AllLockShared(p) ==
  /\ pc[p] = "wlock"
  /\ wMutex' = p
  /\ Goto(p, "keys")
  /\ UNCHANGED <<callVars, newLoggerMutex, evicting, cacheVars, pipeVars, waitVars>>

(* One Wait at a time. *)
AllLock(p) ==
  /\ pc[p] = "wlock"
  /\ wMutex = None
  /\ wMutex' = p
  /\ Goto(p, "keys")
  /\ UNCHANGED <<callVars, newLoggerMutex, evicting, cacheVars, pipeVars, waitVars>>

(* A snapshot of the keys. *)
AllKeys(p) ==
  /\ pc[p] = "keys"
  /\ CacheFree
  /\ todo' = [todo EXCEPT ![p] = [i \in 1..Len(cache) |-> cache[i].name]]
  /\ owed' = [owed EXCEPT ![p] = {m \in Msgs : st[m] \in Counted}]
  /\ Goto(p, "next")
  /\ UNCHANGED <<op, key, fresh, target, lockVars, cacheVars, pipeVars, away>>

(* The logger of the next key is waited for ...                             *)
AllVisit(p) ==
  /\ pc[p] = "next" /\ todo[p] # <<>>
  /\ CacheFree
  /\ \E e \in CachedAs(Head(todo[p])) :
       /\ Hit(Head(todo[p]), e)
       /\ target' = [target EXCEPT ![p] = e.log]
  /\ todo' = [todo EXCEPT ![p] = Tail(@)]
  /\ Goto(p, "begin")
  /\ UNCHANGED <<op, key, fresh, lockVars, filename, returned, evicted, pipeVars, waitVars>>

(* Mutant of AllSkip: a key that is gone ends the loop. *)
AllSkipEnds(p) ==
  /\ pc[p] = "next" /\ todo[p] # <<>>
  /\ CacheFree
  /\ Miss(Head(todo[p]))
  /\ todo' = [todo EXCEPT ![p] = <<>>]
  /\ UNCHANGED <<pc, op, key, fresh, target, lockVars, filename, returned, evicted,
                 pipeVars, waitVars>>

(* ... unless it is no longer in the cache.                                 *)
AllSkip(p) ==
  /\ pc[p] = "next" /\ todo[p] # <<>>
  /\ CacheFree
  /\ Miss(Head(todo[p]))
  /\ todo' = [todo EXCEPT ![p] = Tail(@)]
  /\ UNCHANGED <<pc, op, key, fresh, target, lockVars, filename, returned, evicted,
                 pipeVars, waitVars>>

AllReturn(p) ==
  /\ pc[p] = "next" /\ todo[p] = <<>>
  /\ wMutex' = None
  /\ Finish(p)
  /\ UNCHANGED <<newLoggerMutex, evicting, cacheVars, pipeVars>>

-----------------------------------------------------------------------------
(* l.Wait, called by the application ("one"), by Wait and by the callback. *)
OneCall(p, l) ==
  /\ pc[p] = "idle"
  /\ l \in returned
  /\ op' = [op EXCEPT ![p] = "one"]
  /\ target' = [target EXCEPT ![p] = l]
  /\ Goto(p, "begin")
  /\ UNCHANGED <<key, fresh, todo, lockVars, cacheVars, pipeVars, waitVars>>

(* l.Wait of p is over: it was turned away from the loggers "from", or let  *)
(* through.                                                                 *)
Continue(p, from) ==
  \/ /\ op[p] = "one"
     /\ Finish(p)
  \/ /\ op[p] # "one"
     /\ Goto(p, IF op[p] = "all" THEN "next" ELSE "close")
     /\ away' = [away EXCEPT ![p] = @ \cup from]
     /\ UNCHANGED <<callVars, owed>>

WaitTurnedAway(p) ==
  LET l == target[p] IN
  /\ pc[p] = "begin"
  /\ waitStarted[l]
  /\ Continue(p, {l})
  /\ UNCHANGED <<lockVars, cacheVars, pipeVars>>

WaitBegin(p) ==
  /\ pc[p] = "begin"
  /\ ~waitStarted[target[p]]
  /\ waitStarted' = [waitStarted EXCEPT ![target[p]] = TRUE]
  /\ Goto(p, "wait")
  /\ UNCHANGED <<callVars, lockVars, cacheVars, chanVars, misused, st, to, waitVars>>

(* logTasks.Wait() lets p through. *)
LetThrough(p) ==
  Goto(p, "end")

(* Mutant of WgWait: logTasks is not waited for. *)
WgWaitSkipped(p) ==
  /\ pc[p] = "wait"
  /\ LetThrough(p)
  /\ UNCHANGED <<callVars, lockVars, cacheVars, pipeVars, owed, away>>

(* logTasks.Wait() returns at once when its count is zero, else p parks.    *)
WgWait(p) ==
  LET l == target[p] IN
  /\ pc[p] = "wait"
  /\ \/ /\ Pending(l) = {} \/ l \in misused
        /\ LetThrough(p)
     \/ /\ Pending(l) # {} \/ l \in misused
        /\ Goto(p, "parked")
  /\ UNCHANGED <<callVars, lockVars, cacheVars, pipeVars, owed, away>>

(* The count came to zero; after a misuse it may have been reset. *)
WgReturn(p) ==
  LET l == target[p] IN
  /\ pc[p] = "parked"
  /\ Pending(l) = {} \/ l \in misused
  /\ LetThrough(p)
  /\ UNCHANGED <<callVars, lockVars, cacheVars, pipeVars, owed, away>>

(* The mute is lifted. *)
WaitEnd(p) ==
  /\ pc[p] = "end"
  /\ waitStarted' = [waitStarted EXCEPT ![target[p]] = FALSE]
  /\ Continue(p, {})
  /\ UNCHANGED <<lockVars, cacheVars, chanVars, misused, st, to>>

(* The waiter finds the WaitGroup in use again and panics: waitStarted      *)
(* stays set, and the deferred Unlocks of NewLogger and of Wait run.  The   *)
(* cache's own lock may stay locked.                                        *)
WaitPanics(p) ==
  /\ pc[p] = "parked"
  /\ target[p] \in misused
  /\ newLoggerMutex' = IF op[p] = "new" THEN None ELSE newLoggerMutex
  /\ wMutex' = IF op[p] = "all" THEN None ELSE wMutex
  /\ evicting' \in IF op[p] = "new" THEN {evicting, None} ELSE {evicting}
  /\ Finish(p)
  /\ UNCHANGED <<cacheVars, pipeVars>>

-----------------------------------------------------------------------------
(* A message printed to any logger that NewLogger ever returned: print      *)
(* returns at once when it finds waitStarted set ...                        *)
PrintCall(l, m) ==
  /\ l \in returned
  /\ st[m] = "new" /\ m = FreshMsg
  /\ to' = [to EXCEPT ![m] = l]
  /\ st' = [st EXCEPT ![m] = IF waitStarted[l] THEN "settled" ELSE "called"]
  /\ UNCHANGED <<pc, callVars, lockVars, cacheVars, waitStarted, chanVars, misused, waitVars>>

(* m is now at "next" in its print or in the consumer. *)
Becomes(m, next) == st' = [st EXCEPT ![m] = next]

(* ... calls logTasks.Add(1), by then perhaps after a Wait has begun ...    *)
PrintAdd(m) ==
  LET l == to[m] IN
  /\ st[m] = "called"
  /\ Becomes(m, "added")
  /\ misused' = IF Pending(l) = {} /\ Parked(l) # {} THEN misused \cup {l} ELSE misused
  /\ UNCHANGED <<pc, callVars, lockVars, cacheVars, waitStarted, chanVars, to, waitVars>>

(* ... which panics when it comes between the last Done and the release ... *)
PrintPanics(m) ==
  /\ st[m] = "added"
  /\ to[m] \in misused
  /\ Becomes(m, "panicked")
  /\ UNCHANGED <<pc, callVars, lockVars, cacheVars, waitStarted, chanVars, misused, to, waitVars>>

(* ... sends the message when the channel has room ...                      *)
PrintSend(m) ==
  /\ st[m] = "added"
  /\ Len(tologCh) < ChanCap
  /\ Becomes(m, "sent")
  /\ tologCh' = Append(tologCh, m)
  /\ UNCHANGED <<pc, callVars, lockVars, cacheVars, waitStarted, hand, consuming, misused,
                 to, waitVars>>

(* ... and otherwise drops it ...                                           *)
PrintDrop(m) ==
  /\ st[m] = "added"
  /\ Len(tologCh) >= ChanCap
  /\ Becomes(m, "dropped")
  /\ UNCHANGED <<pc, callVars, lockVars, cacheVars, waitStarted, chanVars, misused, to, waitVars>>

(* ... and calls logTasks.Done() itself.                                    *)
PrintDone(m) ==
  /\ st[m] = "dropped"
  /\ Becomes(m, "settled")
  /\ UNCHANGED <<pc, callVars, lockVars, cacheVars, waitStarted, chanVars, misused, to, waitVars>>

-----------------------------------------------------------------------------
(* The consumer: "for elem := range tologCh". *)
Receive ==
  /\ consuming /\ hand = None
  /\ tologCh # <<>>
  /\ hand' = Head(tologCh)
  /\ tologCh' = Tail(tologCh)
  /\ UNCHANGED <<pc, callVars, lockVars, cacheVars, waitStarted, consuming, misused, st, to,
                 waitVars>>

(* newLogger or the write may fail, which is discarded: the loop goes on to *)
(* Done in any case.                                                        *)
Settle ==
  /\ hand # None
  /\ Becomes(hand, "settled")
  /\ hand' = None
  /\ UNCHANGED <<pc, callVars, lockVars, cacheVars, waitStarted, tologCh, consuming, misused, to,
                 waitVars>>

(* A Done of a misused WaitGroup panicked: HandlePanic recovers, and the    *)
(* consumer goroutine is gone.                                              *)
ConsumerEnds ==
  /\ consuming /\ hand = None
  /\ misused # {}
  /\ consuming' = FALSE
  /\ UNCHANGED <<pc, callVars, lockVars, cacheVars, waitStarted, tologCh, hand, misused,
                 st, to, waitVars>>

-----------------------------------------------------------------------------
(* Steps that take a mutex or use the cache: a sync.Mutex is handed to a    *)
(* goroutine that keeps waiting for it.                                     *)
LockStep(p) ==
  \/ NewLock(p)
  \/ NewHit(p)
  \/ NewMake(p)
  \/ NewAdd(p)
  \/ NewEvict(p)
  \/ AllLock(p)
  \/ AllKeys(p)
  \/ AllVisit(p)
  \/ AllSkip(p)

CallStep(p) ==
  \/ EvictClose(p)
  \/ AllReturn(p)
  \/ WaitTurnedAway(p)
  \/ WaitBegin(p)
  \/ WgWait(p)
  \/ WgReturn(p)
  \/ WaitEnd(p)
  \/ WaitPanics(p)

Calls(p) ==
  \/ \E f \in Names : NewCall(p, f)
  \/ AllCall(p)
  \/ \E l \in Loggers : OneCall(p, l)

(* A print, once called, goes on by itself. *)
PrintStep(m) ==
  \/ PrintAdd(m)
  \/ PrintPanics(m)
  \/ PrintSend(m)
  \/ PrintDrop(m)
  \/ PrintDone(m)

Consumer ==
  \/ Receive
  \/ Settle
  \/ ConsumerEnds

Next ==
  \/ \E p \in Goroutines : LockStep(p) \/ CallStep(p) \/ Calls(p)
  \/ \E l \in Loggers, m \in Msgs : PrintCall(l, m)
  \/ \E m \in Msgs : PrintStep(m)
  \/ Consumer

Spec == Init /\ [][Next]_vars

Fairness ==
  /\ WF_vars(Consumer)
  /\ \A m \in Msgs : WF_vars(PrintStep(m))
  /\ \A p \in Goroutines : SF_vars(LockStep(p)) /\ WF_vars(CallStep(p))

FairSpec == Spec /\ Fairness

-----------------------------------------------------------------------------
(***************************************************************************)
(* Properties.                                                             *)
(***************************************************************************)
(* The type of every variable. *)
TypeOK ==
  /\ pc \in [Goroutines -> {"idle", "lock", "again", "add", "close", "wlock", "keys",
                            "next", "begin", "wait", "parked", "end"}]
  /\ op \in [Goroutines -> {"none", "new", "all", "one"}]
  /\ key \in [Goroutines -> Names \cup {None}]
  /\ fresh \in [Goroutines -> Loggers \cup {None}]
  /\ target \in [Goroutines -> Loggers \cup {None}]
  /\ todo \in [Goroutines -> Seq(Names)]
  /\ newLoggerMutex \in Goroutines \cup {None}
  /\ wMutex \in Goroutines \cup {None}
  /\ evicting \in Goroutines \cup {None}
  /\ cache \in Seq([name : Names, log : Loggers])
  /\ Len(cache) <= CacheCap
  /\ filename \in [Loggers -> Names \cup {None}]
  /\ returned \subseteq Loggers
  /\ evicted \subseteq Loggers
  /\ waitStarted \in [Loggers -> BOOLEAN]
  /\ tologCh \in Seq(Msgs)
  /\ hand \in Msgs \cup {None}
  /\ consuming \in BOOLEAN
  /\ misused \subseteq Loggers
  /\ st \in [Msgs -> Counted \cup {"new", "called", "settled"}]
  /\ to \in [Msgs -> Loggers \cup {None}]
  /\ owed \in [Goroutines -> SUBSET Msgs]
  /\ away \in [Goroutines -> SUBSET Loggers]

(* Every logger that NewLogger gave out is in the cache, where Wait finds   *)
(* it, or was flushed by the eviction callback: two concurrent NewLoggers   *)
(* for one file do not make two loggers of which one is forgotten.          *)
NoOrphans == returned \subseteq CachedLogs \cup evicted

(* The callback closes an evicted logger only after the messages that were  *)
(* pending at the eviction, unless another Wait of it was under way or the  *)
(* WaitGroup was misused.                                                   *)
EvictionFlushes ==
  \A p \in Goroutines :
    pc[p] = "close" => \A m \in owed[p] : st[m] = "settled" \/ to[m] \in away[p] \cup misused

(* Wait returns after every message that was pending when it took the keys, *)
(* except those of a logger that was evicted before its turn, of one whose  *)
(* Wait was under way in another goroutine, and of a misused WaitGroup.     *)
WaitCoversCache ==
  \A p \in Goroutines :
    pc[p] = "next" /\ todo[p] = <<>> =>
      \A m \in owed[p] : st[m] = "settled" \/ to[m] \in away[p] \cup evicted \cup misused

(***************************************************************************)
(* The inductive invariant behind these three.                             *)
(***************************************************************************)
(* NewLogger of p has made its logger, and flushes the one it evicted. *)
Flushing(p) == op[p] = "new" /\ (pc[p] \in {"begin", "close"} \/ InWait(p))

CallInv ==
  \A p \in Goroutines :
    /\ pc[p] \in {"lock", "again", "add", "close"} => op[p] = "new"
    /\ pc[p] \in {"wlock", "keys", "next"} => op[p] = "all"
    /\ pc[p] = "begin" \/ InWait(p) => op[p] # "none"
    /\ pc[p] \in {"lock", "again", "add"} => key[p] \in Names
    /\ pc[p] = "add" \/ Flushing(p) => fresh[p] \in Loggers
    /\ pc[p] \in {"begin", "close"} \/ InWait(p) => target[p] \in Loggers

(* newLoggerMutex is held from the second look to the end of NewLogger. *)
MutexInv ==
  \A p \in Goroutines : pc[p] \in {"again", "add"} \/ Flushing(p) => newLoggerMutex = p

(* There is a logger left for every call that may make one. *)
RoomInv == Cardinality(Allocated) + Cardinality(Making) <= Cardinality(Loggers)

(* A name has one entry, the name of a logger being added none, and the     *)
(* logger that was added stays in the cache until it is evicted.            *)
CacheInv ==
  /\ \A i, j \in DOMAIN cache : cache[i].name = cache[j].name => i = j
  /\ \A p \in Goroutines : pc[p] = "add" => CachedAs(key[p]) = {}
  /\ \A p \in Goroutines : Flushing(p) => fresh[p] \in CachedLogs \cup evicted

MessageInv ==
  /\ \A m \in ToSet(tologCh) \cup ({hand} \ {None}) : st[m] \in {"sent", "settled"}
  /\ \A m \in Msgs : st[m] # "new" => to[m] \in returned

(* What was pending belongs to the evicted logger; or, in Wait, to the one  *)
(* it waits for, to one whose key is still ahead, or to one it must miss.   *)
(* Whoever logTasks.Wait() let through has nothing more to wait for.        *)
OwedInv ==
  \A p \in Goroutines : \A m \in owed[p] :
    /\ st[m] \in Counted \cup {"settled"}
    /\ op[p] = "new" /\ (pc[p] = "begin" \/ InWait(p)) => st[m] = "settled" \/ to[m] = target[p]
    /\ pc[p] = "end" /\ to[m] = target[p] => st[m] = "settled" \/ to[m] \in misused
    /\ op[p] = "all" /\ (pc[p] \in {"next", "begin"} \/ InWait(p)) =>
         \/ st[m] = "settled"
         \/ to[m] \in away[p] \cup evicted \cup misused
         \/ pc[p] # "next" /\ to[m] = target[p]
         \/ \E e \in ToSet(cache) : e.log = to[m] /\ e.name \in ToSet(todo[p])

LoggersInv ==
  /\ TypeOK
  /\ CallInv
  /\ MutexInv
  /\ RoomInv
  /\ CacheInv
  /\ MessageInv
  /\ OwedInv
  /\ NoOrphans
  /\ EvictionFlushes
  /\ WaitCoversCache

(* No Add of a logger's WaitGroup comes from zero while a Wait that found   *)
(* it above zero has not returned, as sync.WaitGroup demands.               *)
NoMisuse == misused = {}

(* NewLogger, Wait and l.Wait return, an eviction's flush under the mutex   *)
(* (and perhaps under the cache's lock) notwithstanding, as long as print's *)
(* Add keeps to the rule of the WaitGroup: print tests waitStarted without  *)
(* l.m, and a late Add may end the consumer.                                *)
CallsReturn ==
  []NoMisuse => \A p \in Goroutines : pc[p] # "idle" ~> pc[p] = "idle"

-----------------------------------------------------------------------------
(***************************************************************************)
(* What tests and comments of the repository say and the code does not do. *)
(***************************************************************************)

(* Wait ensures that all messages are processed: not those of a logger that *)
(* was evicted and is still in use.                                         *)
WaitEnsuresAll ==
  [][\A p \in Goroutines :
       pc[p] = "next" /\ pc'[p] = "idle" => \A m \in owed[p] : st[m] = "settled"]_vars
=============================================================================
