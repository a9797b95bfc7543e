------------------------- MODULE LoggerCacheProofs --------------------------
(***************************************************************************)
(* Proofs about the cache of loggers: no logger that NewLogger gave out is *)
(* forgotten, the eviction callback flushes what it closes, Wait covers    *)
(* the loggers of the cache, and LoggerCache implements LoggerDirectory    *)
(* under the mapping of CacheRefinement.                                   *)
(***************************************************************************)
EXTENDS CacheRefinement, SequenceLemmas, FiniteSetTheorems, TLAPS

USE DEF InWait

CEntry == [name : Names, log : Loggers]
UniqueNames == \A i, j \in DOMAIN cache : cache[i].name = cache[j].name => i = j

LEMMA CachedAsPlaces ==
  ASSUME NEW f
  PROVE  /\ CachedAs(f) = {cache[k] : k \in Places(f)}
         /\ Places(f) \subseteq DOMAIN cache /\ \A k \in Places(f) : cache[k].name = f
BY DEF CachedAs, Places, ToSet

(* The entry of f is taken out, and the others stay. *)
LEMMA WithoutProperties ==
  ASSUME cache \in Seq(CEntry), UniqueNames, NEW f
  PROVE  /\ Without(f) \in Seq(CEntry)
         /\ Len(Without(f)) <= Len(cache)
         /\ CachedAs(f) # {} => Len(Without(f)) < Len(cache)
         /\ \A n \in 1..Len(Without(f)) : Without(f)[n].name # f
         /\ \A n, o \in 1..Len(Without(f)) : Without(f)[n].name = Without(f)[o].name => n = o
         /\ ToSet(Without(f)) = ToSet(cache) \ CachedAs(f)
<1>n. Len(cache) \in Nat /\ DOMAIN cache = 1..Len(cache)
  BY LenProperties
<1>1. CASE Places(f) = {}
  <2>1. Without(f) = cache /\ CachedAs(f) = {}
    BY <1>1, CachedAsPlaces DEF Without
  <2>2. \A k \in DOMAIN cache : cache[k].name # f
    BY <1>1 DEF Places
  <2> QED
    BY <1>n, <2>1, <2>2 DEF UniqueNames
<1>2. CASE Places(f) # {}
  <2>1. PICK k \in 1..Len(cache) : Without(f) = RemoveAt(cache, k) /\ cache[k].name = f
    BY <1>n, <1>2 DEF Without, Places
  <2>2. \A j \in 1..Len(cache) : cache[j].name = f => j = k
    BY <1>n, <2>1 DEF UniqueNames
  <2>3. PICK w : w = RemoveAt(cache, k)
    OBVIOUS
  <2>4. w \in Seq(CEntry) /\ Len(w) = Len(cache) - 1
    BY <2>3, RemoveAtProperties
  <2>5. /\ \A n \in 1..Len(w) : OldPlace(n, k) \in 1..Len(cache) /\ OldPlace(n, k) # k
                                /\ w[n] = cache[OldPlace(n, k)]
        /\ \A n, o \in 1..Len(w) : OldPlace(n, k) = OldPlace(o, k) => n = o
        /\ \A i \in 1..Len(cache) : i # k => \E n \in 1..Len(w) : w[n] = cache[i]
    <3>1. /\ \A n \in 1..Len(cache) - 1 : OldPlace(n, k) \in 1..Len(cache) /\ OldPlace(n, k) # k
                                         /\ RemoveAt(cache, k)[n] = cache[OldPlace(n, k)]
          /\ \A n, o \in 1..Len(cache) - 1 : OldPlace(n, k) = OldPlace(o, k) => n = o
          /\ \A i \in 1..Len(cache) : i # k => \E n \in 1..Len(cache) - 1 : RemoveAt(cache, k)[n] = cache[i]
      BY RemoveAtElements
    <3> QED
      BY ONLY <2>3, <2>4, <3>1
  <2>6. \A n \in 1..Len(w) : w[n].name # f
    BY <2>2, <2>5
  <2>7. \A n, o \in 1..Len(w) : w[n].name = w[o].name => n = o
    BY <1>n, <2>5 DEF UniqueNames
  <2>8. ToSet(w) = ToSet(cache) \ CachedAs(f)
    <3>1. ToSet(w) = {w[n] : n \in 1..Len(w)} /\ ToSet(cache) = {cache[i] : i \in 1..Len(cache)}
      BY <1>n, <2>4, LenProperties DEF ToSet
    <3>2. CachedAs(f) = {e \in ToSet(cache) : e.name = f}
      BY DEF CachedAs
    <3>3. \A e \in ToSet(w) : e \in ToSet(cache) \ CachedAs(f)
      BY <2>5, <2>6, <3>1, <3>2
    <3>4. ASSUME NEW e \in ToSet(cache) \ CachedAs(f)
          PROVE  e \in ToSet(w)
      <4>1. PICK i \in 1..Len(cache) : e = cache[i]
        BY <3>1
      <4>2. i # k
        BY <2>1, <3>2, <3>4, <4>1
      <4> QED
        BY <2>5, <3>1, <4>1, <4>2
    <3> QED
      BY <3>3, <3>4
  <2>9. Len(w) < Len(cache) /\ Len(w) <= Len(cache)
    BY <1>n, <2>4
  <2> QED
    BY <2>1, <2>3, <2>4, <2>6, <2>7, <2>8, <2>9
<1> QED
  BY <1>1, <1>2

(* An entry is put in, in the place of the old one of its name. *)
Entered(e) == Append(Without(e.name), e)

LEMMA EnteredProperties ==
  ASSUME cache \in Seq(CEntry), UniqueNames, NEW e \in CEntry
  PROVE  /\ Entered(e) \in Seq(CEntry) /\ Entered(e) # <<>>
         /\ Len(Entered(e)) = Len(Without(e.name)) + 1 /\ Len(Without(e.name)) \in Nat
         /\ DOMAIN Entered(e) = 1..Len(Without(e.name)) + 1
         /\ \A n, o \in DOMAIN Entered(e) : Entered(e)[n].name = Entered(e)[o].name => n = o
         /\ ToSet(Entered(e)) = (ToSet(cache) \ CachedAs(e.name)) \cup {e}
<1>1. PICK f, w : f = e.name /\ w = Without(f)
  OBVIOUS
<1>2. /\ w \in Seq(CEntry)
      /\ \A n \in 1..Len(w) : w[n].name # f
      /\ \A n, o \in 1..Len(w) : w[n].name = w[o].name => n = o
      /\ ToSet(w) = ToSet(cache) \ CachedAs(f)
  <2>1. /\ Without(f) \in Seq(CEntry)
        /\ \A n \in 1..Len(Without(f)) : Without(f)[n].name # f
        /\ \A n, o \in 1..Len(Without(f)) : Without(f)[n].name = Without(f)[o].name => n = o
        /\ ToSet(Without(f)) = ToSet(cache) \ CachedAs(f)
    BY WithoutProperties
  <2> QED
    BY ONLY <1>1, <2>1
<1>3. PICK r : r = Append(w, e)
  OBVIOUS
<1>4. /\ r \in Seq(CEntry) /\ r # <<>>
      /\ Len(r) = Len(w) + 1 /\ Len(w) \in Nat
      /\ DOMAIN r = 1..Len(w) + 1
      /\ \A n \in 1..Len(w) : r[n] = w[n]
      /\ r[Len(w) + 1] = e
      /\ ToSet(r) = ToSet(w) \cup {e}
  BY <1>2, <1>3, AppendElements
<1>5. \A n, o \in 1..Len(w) + 1 : r[n].name = r[o].name => n = o
  <2>1. \A n \in 1..Len(w) + 1 : n \in 1..Len(w) \/ n = Len(w) + 1
    BY <1>4
  <2>2. \A n \in 1..Len(w) : r[n].name # f
    BY <1>2, <1>4
  <2>3. r[Len(w) + 1].name = f
    BY <1>1, <1>4
  <2>4. \A n, o \in 1..Len(w) : r[n].name = r[o].name => n = o
    BY <1>2, <1>4
  <2> QED
    BY <2>1, <2>2, <2>3, <2>4
<1>6. r = Entered(e)
  BY <1>1, <1>3 DEF Entered
<1> QED
  BY <1>1, <1>2, <1>4, <1>5, <1>6

(* A hit changes the order of the entries and nothing else. *)
LEMMA HitEffect ==
  ASSUME cache \in Seq(CEntry), UniqueNames, NEW f, NEW e, Hit(f, e)
  PROVE  /\ cache' \in Seq(CEntry) /\ Len(cache') <= Len(cache)
         /\ UniqueNames'
         /\ ToSet(cache') = ToSet(cache)
         /\ CachedAs(f) = {e} /\ e \in CEntry /\ e.name = f
<1>n. Len(cache) \in Nat /\ DOMAIN cache = 1..Len(cache)
  BY LenProperties
<1>1. PICK k \in 1..Len(cache) : e = cache[k] /\ e.name = f
  BY <1>n, CachedAsPlaces DEF Hit
<1>2. e \in CEntry
  BY <1>1, ElementOfSeq
<1>3. CachedAs(f) = {e}
  <2>1. \A k2 \in Places(f) : k2 = k
    BY <1>n, <1>1, CachedAsPlaces DEF UniqueNames
  <2>2. e \in CachedAs(f)
    BY DEF Hit
  <2> QED
    BY <1>1, <2>1, <2>2, CachedAsPlaces
<1>4. cache' = Entered(e)
  BY <1>1 DEF Hit, Entered
<1>5. PICK r : r = Entered(e)
  OBVIOUS
<1>6. /\ r \in Seq(CEntry) /\ Len(r) = Len(Without(f)) + 1 /\ Len(Without(f)) \in Nat
      /\ \A n, o \in DOMAIN r : r[n].name = r[o].name => n = o
      /\ ToSet(r) = (ToSet(cache) \ {e}) \cup {e}
  <2>1. /\ Entered(e) \in Seq(CEntry) /\ Len(Entered(e)) = Len(Without(e.name)) + 1 /\ Len(Without(e.name)) \in Nat
        /\ \A n, o \in DOMAIN Entered(e) : Entered(e)[n].name = Entered(e)[o].name => n = o
        /\ ToSet(Entered(e)) = (ToSet(cache) \ CachedAs(e.name)) \cup {e}
    BY <1>2, EnteredProperties
  <2> QED
    BY ONLY <1>1, <1>3, <1>5, <2>1
<1>7. Len(Without(f)) < Len(cache)
  BY <1>3, WithoutProperties
<1>8. Len(r) <= Len(cache)
  BY <1>n, <1>6, <1>7
<1>9. e \in ToSet(cache)
  BY <1>3 DEF CachedAs
<1>10. ToSet(r) = ToSet(cache)
  BY <1>6, <1>9
<1>11. UniqueNames'
  BY <1>4, <1>5, <1>6 DEF UniqueNames
<1> QED
  BY <1>1, <1>2, <1>3, <1>4, <1>5, <1>6, <1>8, <1>10, <1>11

-----------------------------------------------------------------------------
(* The types of what a call and its l.Wait change, in one place.            *)
CallTypes ==
  /\ pc \in [Goroutines -> {"idle", "lock", "again", "add", "close", "wlock", "keys",
                            "next", "begin", "wait", "parked", "end"}]
  /\ op \in [Goroutines -> {"none", "new", "all", "one"}]
  /\ key \in [Goroutines -> Names \cup {None}]
  /\ fresh \in [Goroutines -> Loggers \cup {None}]
  /\ target \in [Goroutines -> Loggers \cup {None}]
  /\ todo \in [Goroutines -> Seq(Names)]
  /\ owed \in [Goroutines -> SUBSET Msgs]
  /\ away \in [Goroutines -> SUBSET Loggers]

LockTypes ==
  /\ newLoggerMutex \in Goroutines \cup {None}
  /\ wMutex \in Goroutines \cup {None}
  /\ evicting \in Goroutines \cup {None}

CacheTypes ==
  /\ cache \in Seq(CEntry)
  /\ Len(cache) <= CacheCap
  /\ filename \in [Loggers -> Names \cup {None}]
  /\ returned \subseteq Loggers
  /\ evicted \subseteq Loggers

PipeTypes ==
  /\ waitStarted \in [Loggers -> BOOLEAN]
  /\ tologCh \in Seq(Msgs)
  /\ hand \in Msgs \cup {None}
  /\ consuming \in BOOLEAN
  /\ misused \subseteq Loggers
  /\ st \in [Msgs -> Counted \cup {"new", "called", "settled"}]
  /\ to \in [Msgs -> Loggers \cup {None}]

LEMMA TypeParts ==
  /\ TypeOK => CallTypes /\ LockTypes /\ CacheTypes /\ PipeTypes
  /\ CallTypes' /\ LockTypes' /\ CacheTypes' /\ PipeTypes' => TypeOK'
BY DEF TypeOK, CallTypes, LockTypes, CacheTypes, PipeTypes, CEntry

(* A call that is over leaves nothing behind. *)
LEMMA FinishEffect ==
  ASSUME CallTypes, NEW p \in Goroutines, Finish(p)
  PROVE  /\ CallTypes'
         /\ pc'[p] = "idle" /\ op'[p] = "none" /\ owed'[p] = {}
         /\ \A q \in Goroutines : q # p =>
              UNCHANGED <<pc[q], op[q], key[q], fresh[q], target[q], todo[q], owed[q], away[q]>>
BY DEF CallTypes, Finish, Goto

(* Where a call goes after its l.Wait. *)
LEMMA ContinueEffect ==
  ASSUME CallTypes, NEW p \in Goroutines, NEW from \in SUBSET Loggers, Continue(p, from)
  PROVE  /\ CallTypes'
         /\ \/ pc'[p] = "idle" /\ op'[p] = "none" /\ owed'[p] = {}
            \/ /\ \/ op[p] = "all" /\ pc'[p] = "next"
                  \/ op[p] \notin {"one", "all"} /\ pc'[p] = "close"
               /\ away'[p] = away[p] \cup from
               /\ UNCHANGED <<op[p], key[p], fresh[p], target[p], todo[p], owed[p]>>
         /\ \A q \in Goroutines : q # p =>
              UNCHANGED <<pc[q], op[q], key[q], fresh[q], target[q], todo[q], owed[q], away[q]>>
<1>1. CASE Finish(p)
  BY <1>1, FinishEffect
<1>2. CASE /\ op[p] # "one"
           /\ Goto(p, IF op[p] = "all" THEN "next" ELSE "close")
           /\ away' = [away EXCEPT ![p] = @ \cup from]
           /\ UNCHANGED <<callVars, owed>>
  <2>2. /\ pc' = [pc EXCEPT ![p] = IF op[p] = "all" THEN "next" ELSE "close"]
        /\ UNCHANGED <<op, key, fresh, target, todo, owed>>
    BY <1>2 DEF Goto, callVars
  <2>3. away' \in [Goroutines -> SUBSET Loggers]
    BY <1>2 DEF CallTypes
  <2>4. CallTypes'
    BY <2>2, <2>3 DEF CallTypes
  <2>5. /\ away'[p] = away[p] \cup from
        /\ \A q \in Goroutines : q # p => away'[q] = away[q]
    BY <1>2 DEF CallTypes
  <2>6. /\ pc'[p] = IF op[p] = "all" THEN "next" ELSE "close"
        /\ \A q \in Goroutines : q # p => pc'[q] = pc[q]
    BY <2>2 DEF CallTypes
  <2> QED
    BY <1>2, <2>2, <2>4, <2>5, <2>6
<1> QED
  BY <1>1, <1>2 DEF Continue

(* initializedLoggers.Add puts in the entry of the new logger ...           *)
LEMMA AddEffect ==
  ASSUME TypeOK, CallInv, UniqueNames, NEW p \in Goroutines, NewAdd(p) \/ NewEvict(p)
  PROVE  \E e \in CEntry :
           /\ e.name = key[p] /\ e.log = fresh[p]
           /\ NewAdd(p) => cache' = Entered(e) /\ Len(Entered(e)) <= CacheCap
           /\ NewEvict(p) =>
                /\ cache' = Tail(Entered(e))
                /\ evicted' = evicted \cup {Head(Entered(e)).log}
                /\ target' = [target EXCEPT ![p] = Head(Entered(e)).log]
                /\ owed' = [owed EXCEPT ![p] = Pending(Head(Entered(e)).log)]
<1>1. key[p] \in Names /\ fresh[p] \in Loggers
  BY DEF CallInv, NewAdd, NewEvict
<1>2. PICK e \in CEntry : e = [name |-> key[p], log |-> fresh[p]] /\ e.name = key[p] /\ e.log = fresh[p]
  <2>1. [name |-> key[p], log |-> fresh[p]] \in CEntry
    BY <1>1 DEF CEntry
  <2> QED
    BY <2>1
<1>3. Append(Without(key[p]), [name |-> key[p], log |-> fresh[p]]) = Entered(e)
  BY <1>2 DEF Entered
<1> QED
  BY <1>2, <1>3 DEF NewAdd, NewEvict

(* ... and takes none away but the oldest one.                              *)
LEMMA AddElements ==
  ASSUME TypeOK, CallInv, CacheInv, NEW p \in Goroutines, NewAdd(p) \/ NewEvict(p)
  PROVE  /\ cache' \in Seq(CEntry) /\ Len(cache') <= CacheCap /\ UniqueNames'
         /\ evicted \subseteq evicted' /\ evicted' \subseteq Loggers
         /\ \A e \in ToSet(cache) : e \in ToSet(cache') \/ e.log \in evicted'
         /\ \A e \in ToSet(cache') : e \in ToSet(cache) \/ e.name = key[p]
         /\ fresh[p] \in CachedLogs' \cup evicted'
<1> USE CacheAssumption
<1>u. cache \in Seq(CEntry) /\ UniqueNames /\ Len(cache) <= CacheCap /\ Len(cache) \in Nat
  BY TypeParts, LenProperties DEF CacheTypes, CacheInv, UniqueNames
<1>c. CachedAs(key[p]) = {}
  BY DEF CacheInv, NewAdd, NewEvict
<1>1. PICK e \in CEntry :
           /\ e.name = key[p] /\ e.log = fresh[p]
           /\ NewAdd(p) => cache' = Entered(e) /\ Len(Entered(e)) <= CacheCap
           /\ NewEvict(p) =>
                /\ cache' = Tail(Entered(e))
                /\ evicted' = evicted \cup {Head(Entered(e)).log}
  BY <1>u, AddEffect
<1>2. PICK r : r = Entered(e)
  OBVIOUS
<1>3. /\ r \in Seq(CEntry) /\ r # <<>> /\ Len(r) <= CacheCap + 1 /\ Len(r) \in Nat
      /\ DOMAIN r = 1..Len(r)
      /\ \A n, o \in 1..Len(r) : r[n].name = r[o].name => n = o
      /\ ToSet(r) = ToSet(cache) \cup {e}
  <2>1. /\ Entered(e) \in Seq(CEntry) /\ Entered(e) # <<>>
        /\ Len(Entered(e)) = Len(Without(e.name)) + 1 /\ Len(Without(e.name)) \in Nat
        /\ DOMAIN Entered(e) = 1..Len(Without(e.name)) + 1
        /\ \A n, o \in DOMAIN Entered(e) : Entered(e)[n].name = Entered(e)[o].name => n = o
        /\ ToSet(Entered(e)) = (ToSet(cache) \ CachedAs(e.name)) \cup {e}
    BY <1>u, EnteredProperties
  <2>2. Len(Without(e.name)) <= Len(cache)
    BY <1>u, WithoutProperties
  <2>3. Len(Entered(e)) <= CacheCap + 1 /\ Len(Entered(e)) \in Nat
    BY <1>u, <2>1, <2>2
  <2>4. ToSet(Entered(e)) = ToSet(cache) \cup {e}
    BY <1>c, <1>1, <2>1
  <2> QED
    BY ONLY <1>2, <2>1, <2>3, <2>4
<1>4. e.log = fresh[p] /\ CachedLogs' = {x.log : x \in ToSet(cache')}
  BY <1>1 DEF CachedLogs, ToSet
<1>5. CASE NewAdd(p)
  <2>1. cache' = r /\ Len(r) <= CacheCap /\ evicted' = evicted
    BY <1>1, <1>2, <1>5 DEF NewAdd
  <2>2. UniqueNames'
    BY <1>3, <2>1 DEF UniqueNames
  <2>3. evicted \subseteq Loggers
    BY DEF TypeOK
  <2>4. ToSet(cache') = ToSet(cache) \cup {e}
    BY <1>3, <2>1
  <2> QED
    BY <1>1, <1>3, <1>4, <2>1, <2>2, <2>3, <2>4
<1>6. CASE NewEvict(p)
  <2>1. PICK t, old : t = Tail(r) /\ old = Head(r)
    OBVIOUS
  <2>2. cache' = t /\ evicted' = evicted \cup {old.log}
    BY <1>1, <1>2, <1>6, <2>1
  <2>3. /\ t \in Seq(CEntry) /\ Len(t) = Len(r) - 1 /\ DOMAIN t = 1..Len(r) - 1
        /\ \A n \in 1..Len(r) - 1 : n + 1 \in 1..Len(r) /\ t[n] = r[n + 1]
        /\ old \in CEntry /\ ToSet(r) = ToSet(t) \cup {old}
    BY <1>3, <2>1, TailElements
  <2>4. UniqueNames'
    <3>1. ASSUME NEW n \in 1..Len(r) - 1, NEW o \in 1..Len(r) - 1, t[n].name = t[o].name
          PROVE  n = o
      <4>1. n + 1 = o + 1
        BY <1>3, <2>3, <3>1
      <4> QED
        BY <1>3, <4>1
    <3> QED
      BY <2>2, <2>3, <3>1 DEF UniqueNames
  <2>5. old.log \in Loggers /\ evicted \subseteq Loggers
    BY <2>3 DEF TypeOK, CEntry
  <2>6. Len(t) <= CacheCap
    BY <1>3, <2>3
  <2>7. ToSet(cache) \cup {e} = ToSet(cache') \cup {old}
    BY <1>3, <2>2, <2>3
  <2> QED
    BY <1>1, <1>4, <2>2, <2>3, <2>4, <2>5, <2>6, <2>7
<1> QED
  BY <1>5, <1>6

-----------------------------------------------------------------------------
(* There is a logger left for the call that makes one. *)
LEMMA RoomForOne ==
  ASSUME RoomInv, NEW p \in Goroutines, pc[p] \in {"lock", "again"}
  PROVE  FreshLogger \in Loggers /\ FreshLogger \notin Allocated
<1> USE CacheAssumption
<1>1. IsFiniteSet(Making) /\ IsFiniteSet(Allocated) /\ Allocated \subseteq Loggers
  BY FS_Subset DEF Making, Allocated
<1>2. Cardinality(Making) \in Nat \ {0}
  <2>1. p \in Making
    BY DEF Making
  <2>2. Making # {}
    BY <2>1
  <2> QED
    BY <1>1, <2>2, FS_EmptySet, FS_CardinalityType
<1>3. Allocated # Loggers
  <2>1. Cardinality(Allocated) \in Nat /\ Cardinality(Loggers) \in Nat
    BY <1>1, FS_CardinalityType
  <2>2. Cardinality(Allocated) # Cardinality(Loggers)
    BY <1>2, <2>1 DEF RoomInv
  <2> QED
    BY <2>2
<1>4. \E l \in Loggers : l \notin Allocated
  BY <1>1, <1>3
<1> QED
  BY <1>4 DEF FreshLogger

LEMMA TypeStep ==
  ASSUME TypeOK, CallInv, RoomInv, CacheInv, MessageInv, [Next]_vars
  PROVE  TypeOK'
<1> USE CacheAssumption
<1>t. CallTypes /\ LockTypes /\ CacheTypes /\ PipeTypes
  BY TypeParts
<1>u. cache \in Seq(CEntry) /\ UniqueNames /\ Len(cache) <= CacheCap /\ Len(cache) \in Nat
      /\ DOMAIN cache = 1..Len(cache)
  BY <1>t, LenProperties DEF CacheTypes, CacheInv, UniqueNames
<1>h. ASSUME NEW f, NEW e, Hit(f, e)
      PROVE  cache' \in Seq(CEntry) /\ Len(cache') <= CacheCap /\ e.log \in Loggers
  <2>1. cache' \in Seq(CEntry) /\ Len(cache') <= Len(cache) /\ e \in CEntry
    BY <1>u, <1>h, HitEffect
  <2>2. Len(cache') \in Nat
    BY <2>1, LenProperties
  <2> QED
    BY <1>u, <2>1, <2>2 DEF CEntry
<1>q. ASSUME NEW p \in Goroutines, todo[p] # <<>>
      PROVE  Tail(todo[p]) \in Seq(Names)
  BY <1>t, <1>q, TailElements DEF CallTypes
<1>1. ASSUME NEW p \in Goroutines, NEW f \in Names, NewCall(p, f)
      PROVE  TypeOK'
  <2>1. CASE \E e \in CachedAs(f) : Hit(f, e) /\ returned' = returned \cup {e.log} /\ UNCHANGED <<pc, callVars>>
    <3>1. cache' \in Seq(CEntry) /\ Len(cache') <= CacheCap /\ returned' \subseteq Loggers
      BY <1>h, <1>t, <2>1 DEF CacheTypes
    <3>2. UNCHANGED <<pc, callVars, lockVars, filename, evicted, pipeVars, waitVars>>
      BY <1>1, <2>1 DEF NewCall
    <3> QED
      BY <3>1, <3>2 DEF TypeOK, callVars, lockVars, pipeVars, chanVars, waitVars, CEntry
  <2>2. CASE /\ Miss(f) /\ Goto(p, "lock")
             /\ op' = [op EXCEPT ![p] = "new"]
             /\ key' = [key EXCEPT ![p] = f]
             /\ UNCHANGED <<returned, fresh, target, todo>>
    <3>1. UNCHANGED <<cache, lockVars, filename, evicted, pipeVars, waitVars>>
      BY <1>1, <2>2 DEF NewCall, Miss
    <3> QED
      BY <2>2, <3>1 DEF TypeOK, Goto, lockVars, pipeVars, chanVars, waitVars
  <2> QED
    BY <1>1, <2>1, <2>2 DEF NewCall
<1>2. ASSUME NEW p \in Goroutines, NewLock(p)
      PROVE  TypeOK'
  BY <1>2 DEF NewLock, TypeOK, Goto, callVars, cacheVars, pipeVars, chanVars, waitVars
<1>3. ASSUME NEW p \in Goroutines, NewHit(p)
      PROVE  TypeOK'
  <2>1. cache' \in Seq(CEntry) /\ Len(cache') <= CacheCap /\ returned' \subseteq Loggers
    BY <1>3, <1>h, <1>t DEF NewHit, CacheTypes
  <2>2. CallTypes'
    BY <1>3, <1>t, FinishEffect DEF NewHit
  <2>3. newLoggerMutex' = None /\ UNCHANGED <<wMutex, evicting, filename, evicted, pipeVars>>
    BY <1>3 DEF NewHit
  <2>p. LockTypes' /\ CacheTypes' /\ PipeTypes'
    BY <1>t, <2>1, <2>3 DEF LockTypes, CacheTypes, PipeTypes, pipeVars, chanVars
  <2> QED
    BY <2>2, <2>p, TypeParts
<1>4. ASSUME NEW p \in Goroutines, NewMake(p)
      PROVE  TypeOK'
  <2>1. FreshLogger \in Loggers /\ key[p] \in Names
    BY <1>4, RoomForOne DEF NewMake, CallInv
  <2>2. filename' \in [Loggers -> Names \cup {None}] /\ fresh' \in [Goroutines -> Loggers \cup {None}]
    BY <1>4, <2>1 DEF NewMake, TypeOK
  <2>3. Goto(p, "add") /\ UNCHANGED <<op, key, target, todo, lockVars, cache, returned, evicted, pipeVars, waitVars>>
    BY <1>4 DEF NewMake, Miss
  <2> QED
    BY <2>2, <2>3 DEF TypeOK, Goto, lockVars, pipeVars, chanVars, waitVars
<1>5. ASSUME NEW p \in Goroutines, NewAdd(p)
      PROVE  TypeOK'
  <2>1. cache' \in Seq(CEntry) /\ Len(cache') <= CacheCap
    BY <1>5, AddElements
  <2>2. returned' \subseteq Loggers
    BY <1>5, <1>t DEF NewAdd, CallInv, CacheTypes
  <2>3. CallTypes'
    BY <1>5, <1>t, FinishEffect DEF NewAdd
  <2>4. newLoggerMutex' = None /\ UNCHANGED <<wMutex, evicting, filename, evicted, pipeVars>>
    BY <1>5 DEF NewAdd
  <2>p. LockTypes' /\ CacheTypes' /\ PipeTypes'
    BY <1>t, <2>1, <2>2, <2>4 DEF LockTypes, CacheTypes, PipeTypes, pipeVars, chanVars
  <2> QED
    BY <2>3, <2>p, TypeParts
<1>6. ASSUME NEW p \in Goroutines, NewEvict(p)
      PROVE  TypeOK'
  <2>1. cache' \in Seq(CEntry) /\ Len(cache') <= CacheCap /\ evicted' \subseteq Loggers
    BY <1>6, AddElements
  <2>2. PICK e \in CEntry :
          /\ target' = [target EXCEPT ![p] = Head(Entered(e)).log]
          /\ owed' = [owed EXCEPT ![p] = Pending(Head(Entered(e)).log)]
    BY <1>6, <1>u, AddEffect
  <2>3. Head(Entered(e)) \in CEntry
    <3>1. Entered(e) \in Seq(CEntry) /\ Entered(e) # <<>>
      BY <1>u, EnteredProperties
    <3> QED
      BY <3>1, TailElements
  <2>4. target' \in [Goroutines -> Loggers \cup {None}]
    BY <1>t, <2>2, <2>3 DEF CallTypes, CEntry
  <2>5. owed' \in [Goroutines -> SUBSET Msgs]
    BY <1>t, <2>2 DEF CallTypes, Pending
  <2>6. evicting' = p /\ Goto(p, "begin")
        /\ UNCHANGED <<op, key, fresh, todo, newLoggerMutex, wMutex,
                     filename, returned, away, pipeVars>>
    BY <1>6 DEF NewEvict
  <2> QED
    BY <2>1, <2>4, <2>5, <2>6 DEF TypeOK, Goto, pipeVars, chanVars, CEntry
<1>7. ASSUME NEW p \in Goroutines, EvictClose(p)
      PROVE  TypeOK'
  <2>1. CallTypes'
    BY <1>7, <1>t, FinishEffect DEF EvictClose
  <2>2. returned' \subseteq Loggers
    BY <1>7, <1>t DEF EvictClose, CallInv, CacheTypes, Flushing
  <2>3. /\ evicting' = None /\ newLoggerMutex' = None
        /\ UNCHANGED <<wMutex, cache, filename, evicted, pipeVars>>
    BY <1>7 DEF EvictClose
  <2>p. LockTypes' /\ CacheTypes' /\ PipeTypes'
    BY <1>t, <2>2, <2>3 DEF LockTypes, CacheTypes, PipeTypes, pipeVars, chanVars
  <2> QED
    BY <2>1, <2>p, TypeParts
<1>8. ASSUME NEW p \in Goroutines, AllCall(p) \/ AllLock(p) \/ WaitBegin(p) \/ WgWait(p) \/ WgReturn(p)
      PROVE  TypeOK'
  <2>1. CASE AllCall(p)
    BY <2>1 DEF AllCall, TypeOK, Goto, lockVars, cacheVars, pipeVars, chanVars, waitVars
  <2>2. CASE AllLock(p)
    BY <2>2 DEF AllLock, TypeOK, Goto, callVars, cacheVars, pipeVars, chanVars, waitVars
  <2>3. CASE WaitBegin(p)
    BY <2>3 DEF WaitBegin, TypeOK, Goto, callVars, lockVars, cacheVars, chanVars, waitVars
  <2>4. CASE WgWait(p) \/ WgReturn(p)
    <3>1. pc' = [pc EXCEPT ![p] = "end"] \/ pc' = [pc EXCEPT ![p] = "parked"]
      BY <2>4 DEF WgWait, WgReturn, LetThrough, Goto
    <3>2. UNCHANGED <<callVars, lockVars, cacheVars, pipeVars, waitVars>>
      BY <2>4 DEF WgWait, WgReturn, LetThrough, waitVars
    <3> QED
      BY <3>1, <3>2 DEF TypeOK, callVars, lockVars, cacheVars, pipeVars, chanVars, waitVars
  <2> QED
    BY <1>8, <2>1, <2>2, <2>3, <2>4
<1>9. ASSUME NEW p \in Goroutines, AllKeys(p)
      PROVE  TypeOK'
  <2>1. [i \in 1..Len(cache) |-> cache[i].name] \in Seq(Names)
    <3>e. \A i \in 1..Len(cache) : cache[i] \in CEntry
      BY <1>u, ElementOfSeq
    <3>1. \A i \in 1..Len(cache) : cache[i].name \in Names
      BY <3>e DEF CEntry
    <3> QED
      BY <1>u, <3>1, IsASeq
  <2> QED
    BY <1>9, <2>1 DEF AllKeys, TypeOK, Goto, lockVars, cacheVars, pipeVars, chanVars
<1>10. ASSUME NEW p \in Goroutines, AllVisit(p)
       PROVE  TypeOK'
  <2>1. /\ cache' \in Seq(CEntry) /\ Len(cache') <= CacheCap
        /\ target' \in [Goroutines -> Loggers \cup {None}]
    BY <1>10, <1>h DEF AllVisit, TypeOK
  <2>2. todo' \in [Goroutines -> Seq(Names)]
    BY <1>10, <1>q DEF AllVisit, TypeOK
  <2> QED
    BY <1>10, <2>1, <2>2 DEF AllVisit, TypeOK, Goto, lockVars, pipeVars, chanVars, waitVars, CEntry
<1>11. ASSUME NEW p \in Goroutines, AllSkip(p)
       PROVE  TypeOK'
  <2>1. todo' \in [Goroutines -> Seq(Names)]
    BY <1>11, <1>q DEF AllSkip, TypeOK
  <2> QED
    BY <1>11, <2>1 DEF AllSkip, Miss, TypeOK, lockVars, pipeVars, chanVars, waitVars
<1>12. ASSUME NEW p \in Goroutines, AllReturn(p)
       PROVE  TypeOK'
  <2>1. CallTypes'
    BY <1>12, <1>t, FinishEffect DEF AllReturn
  <2>p. LockTypes' /\ CacheTypes' /\ PipeTypes'
    BY <1>12, <1>t DEF AllReturn, LockTypes, CacheTypes, PipeTypes, cacheVars, pipeVars, chanVars
  <2> QED
    BY <2>1, <2>p, TypeParts
<1>13. ASSUME NEW p \in Goroutines, NEW l \in Loggers, OneCall(p, l)
       PROVE  TypeOK'
  BY <1>13 DEF OneCall, TypeOK, Goto, lockVars, cacheVars, pipeVars, chanVars, waitVars
<1>14. ASSUME NEW p \in Goroutines, WaitTurnedAway(p)
       PROVE  TypeOK'
  <2>1. target[p] \in Loggers
    BY <1>14 DEF WaitTurnedAway, CallInv
  <2>2. CallTypes'
    BY <1>14, <1>t, <2>1, ContinueEffect DEF WaitTurnedAway
  <2>p. LockTypes' /\ CacheTypes' /\ PipeTypes'
    BY <1>14, <1>t DEF WaitTurnedAway, LockTypes, CacheTypes, PipeTypes, lockVars, cacheVars, pipeVars, chanVars
  <2> QED
    BY <2>2, <2>p, TypeParts
<1>15. ASSUME NEW p \in Goroutines, WaitEnd(p)
       PROVE  TypeOK'
  <2>2. CallTypes'
    BY <1>15, <1>t, ContinueEffect DEF WaitEnd
  <2>3. waitStarted' \in [Loggers -> BOOLEAN]
    BY <1>15 DEF WaitEnd, TypeOK
  <2>p. LockTypes' /\ CacheTypes' /\ PipeTypes'
    BY <1>15, <1>t, <2>3 DEF WaitEnd, LockTypes, CacheTypes, PipeTypes, lockVars, cacheVars, chanVars
  <2> QED
    BY <2>2, <2>p, TypeParts
<1>16. ASSUME NEW p \in Goroutines, WaitPanics(p)
       PROVE  TypeOK'
  <2>1. CallTypes'
    BY <1>16, <1>t, FinishEffect DEF WaitPanics
  <2>2. LockTypes'
    BY <1>16, <1>t DEF WaitPanics, LockTypes
  <2>3. CacheTypes' /\ PipeTypes'
    BY <1>16, <1>t DEF WaitPanics, CacheTypes, PipeTypes, cacheVars, pipeVars, chanVars
  <2> QED
    BY <2>1, <2>2, <2>3, TypeParts
<1>17. ASSUME NEW l \in Loggers, NEW m \in Msgs, PrintCall(l, m)
       PROVE  TypeOK'
  <2>1. st' \in [Msgs -> Counted \cup {"new", "called", "settled"}]
    <3>1. st' = [st EXCEPT ![m] = "settled"] \/ st' = [st EXCEPT ![m] = "called"]
      BY <1>17 DEF PrintCall
    <3> QED
      BY <3>1 DEF TypeOK
  <2>2. to' \in [Msgs -> Loggers \cup {None}]
    BY <1>17 DEF PrintCall, TypeOK
  <2> QED
    BY <1>17, <2>1, <2>2 DEF PrintCall, TypeOK, callVars, lockVars, cacheVars, chanVars, waitVars
<1>b. ASSUME NEW m \in Msgs, NEW s \in Counted \cup {"settled"}, Becomes(m, s)
      PROVE  st' \in [Msgs -> Counted \cup {"new", "called", "settled"}]
  BY <1>b DEF Becomes, TypeOK
<1>18. ASSUME NEW m \in Msgs, PrintStep(m)
       PROVE  TypeOK'
  <2>1. st' \in [Msgs -> Counted \cup {"new", "called", "settled"}]
    BY <1>18, <1>b DEF PrintStep, PrintAdd, PrintPanics, PrintSend, PrintDrop, PrintDone, Counted
  <2>2. misused' \subseteq Loggers
    <3>1. CASE PrintAdd(m)
      <4>1. to[m] \in Loggers
        BY <3>1 DEF PrintAdd, MessageInv, TypeOK
      <4> QED
        BY <3>1, <4>1 DEF PrintAdd, TypeOK
    <3>2. CASE PrintPanics(m) \/ PrintSend(m) \/ PrintDrop(m) \/ PrintDone(m)
      BY <3>2 DEF PrintPanics, PrintSend, PrintDrop, PrintDone, TypeOK, chanVars
    <3> QED
      BY <1>18, <3>1, <3>2 DEF PrintStep
  <2>3. tologCh' \in Seq(Msgs)
    <3>1. Append(tologCh, m) \in Seq(Msgs) /\ tologCh \in Seq(Msgs)
      BY <1>t, AppendElements DEF PipeTypes
    <3> QED
      BY <1>18, <3>1 DEF PrintStep, PrintAdd, PrintPanics, PrintSend, PrintDrop, PrintDone, chanVars
  <2>4. UNCHANGED <<pc, callVars, lockVars, cacheVars, waitStarted, hand, consuming, to, waitVars>>
    BY <1>18 DEF PrintStep, PrintAdd, PrintPanics, PrintSend, PrintDrop, PrintDone, chanVars
  <2> QED
    BY <2>1, <2>2, <2>3, <2>4 DEF TypeOK, callVars, lockVars, cacheVars, waitVars
<1>c. CASE Consumer
  <2>1. CASE Receive
    <3>1. Head(tologCh) \in Msgs /\ Tail(tologCh) \in Seq(Msgs)
      BY <2>1, <1>t, TailElements DEF Receive, PipeTypes
    <3> QED
      BY <2>1, <3>1 DEF Receive, TypeOK, callVars, lockVars, cacheVars, waitVars
  <2>2. CASE Settle
    <3>1. st' \in [Msgs -> Counted \cup {"new", "called", "settled"}]
      BY <2>2, <1>b DEF Settle, TypeOK
    <3> QED
      BY <2>2, <3>1 DEF Settle, TypeOK, callVars, lockVars, cacheVars, waitVars
  <2>3. CASE ConsumerEnds
    BY <2>3 DEF ConsumerEnds, TypeOK, callVars, lockVars, cacheVars, waitVars
  <2> QED
    BY <1>c, <2>1, <2>2, <2>3 DEF Consumer
<1>19. CASE UNCHANGED vars
  BY <1>19 DEF vars, callVars, lockVars, cacheVars, pipeVars, chanVars, waitVars, TypeOK
<1>20. CASE \E p \in Goroutines : LockStep(p)
  BY <1>20, <1>2, <1>3, <1>4, <1>5, <1>6, <1>8, <1>9, <1>10, <1>11 DEF LockStep
<1>21. CASE \E p \in Goroutines : CallStep(p)
  BY <1>21, <1>7, <1>8, <1>12, <1>14, <1>15, <1>16 DEF CallStep
<1>22. CASE \E p \in Goroutines : Calls(p)
  BY <1>22, <1>1, <1>8, <1>13 DEF Calls
<1> QED
  BY <1>17, <1>18, <1>c, <1>19, <1>20, <1>21, <1>22 DEF Next

-----------------------------------------------------------------------------
(* What a call knows of itself. *)
Own(q) == <<pc[q], op[q], key[q], fresh[q], target[q], todo[q], owed[q], away[q]>>

StepOf(p) == LockStep(p) \/ CallStep(p) \/ Calls(p)

(* A step of one call leaves the others as they are. *)
LEMMA OthersStay ==
  ASSUME TypeOK, CallInv, NEW p \in Goroutines, StepOf(p), NEW q \in Goroutines, q # p
  PROVE  Own(q)' = Own(q)
<1> DEFINE Stays == UNCHANGED <<pc[q], op[q], key[q], fresh[q], target[q], todo[q], owed[q], away[q]>>
<1>t. CallTypes /\ PipeTypes
  BY TypeParts
<1>f. ASSUME Finish(p)
      PROVE  Stays
  BY <1>t, <1>f, FinishEffect
<1>1. ASSUME NewHit(p) \/ NewAdd(p) \/ EvictClose(p) \/ AllReturn(p) \/ WaitPanics(p)
      PROVE  Stays
  BY <1>1, <1>f DEF NewHit, NewAdd, EvictClose, AllReturn, WaitPanics
<1>2. ASSUME WaitTurnedAway(p) \/ WaitEnd(p)
      PROVE  Stays
  <2>1. target[p] \in Loggers
    BY <1>2 DEF WaitTurnedAway, WaitEnd, CallInv
  <2>2. \E from \in SUBSET Loggers : Continue(p, from)
    BY <1>2, <2>1 DEF WaitTurnedAway, WaitEnd
  <2> QED
    BY <1>t, <2>1, <2>2, ContinueEffect
<1>3. ASSUME NewLock(p) \/ NewMake(p) \/ AllLock(p) \/ AllKeys(p) \/ AllVisit(p) \/ AllSkip(p)
      PROVE  Stays
  <2>1. CASE NewLock(p) \/ NewMake(p)
    BY <2>1 DEF NewLock, NewMake, Goto, callVars, waitVars, TypeOK
  <2>2. CASE AllLock(p) \/ AllKeys(p)
    BY <2>2 DEF AllLock, AllKeys, Goto, callVars, waitVars, TypeOK
  <2>3. CASE AllVisit(p) \/ AllSkip(p)
    BY <2>3 DEF AllVisit, AllSkip, Goto, waitVars, TypeOK
  <2> QED
    BY <1>3, <2>1, <2>2, <2>3
<1>4. ASSUME NewEvict(p) \/ WaitBegin(p) \/ WgWait(p) \/ WgReturn(p) \/ AllCall(p)
      PROVE  Stays
  BY <1>4 DEF NewEvict, WaitBegin, WgWait, WgReturn, LetThrough, AllCall, Goto, callVars, waitVars, TypeOK
<1>5. ASSUME NEW f \in Names, NewCall(p, f)
      PROVE  Stays
  BY <1>5 DEF NewCall, Goto, callVars, waitVars, TypeOK
<1>6. ASSUME NEW l \in Loggers, OneCall(p, l)
      PROVE  Stays
  BY <1>6 DEF OneCall, Goto, waitVars, TypeOK
<1>7. Stays
  BY <1>1, <1>2, <1>3, <1>4, <1>5, <1>6 DEF StepOf, LockStep, CallStep, Calls
<1> QED
  BY <1>7 DEF Own

(* The other steps leave all calls, the mutex and the cache as they are.    *)
LEMMA PipelineSteps ==
  ASSUME [Next]_vars
  PROVE  \/ \E p \in Goroutines : StepOf(p)
         \/ UNCHANGED <<pc, callVars, lockVars, cacheVars, waitVars>>
BY DEF Next, StepOf, PrintCall, PrintStep, PrintAdd, PrintPanics, PrintSend, PrintDrop, PrintDone,
       Consumer, Receive, Settle, ConsumerEnds, vars

(* A message keeps its logger, is settled once for all, and what has been   *)
(* returned or evicted remains so.                                          *)
LEMMA History ==
  ASSUME TypeOK, MessageInv, [Next]_vars
  PROVE  /\ \A m \in Msgs : st[m] # "new" => to'[m] = to[m] /\ st'[m] # "new"
         /\ \A m \in Msgs : st[m] = "settled" => st'[m] = "settled"
         /\ \A m \in Msgs : st[m] \in Counted => st'[m] \in Counted \cup {"settled"}
         /\ \A m \in Msgs : st[m] \in {"sent", "settled"} => st'[m] \in {"sent", "settled"}
         /\ returned \subseteq returned' /\ evicted \subseteq evicted' /\ misused \subseteq misused'
<1> DEFINE MessagesKept == /\ \A m \in Msgs : st[m] # "new" => to'[m] = to[m] /\ st'[m] # "new"
                           /\ \A m \in Msgs : st[m] = "settled" => st'[m] = "settled"
                           /\ \A m \in Msgs : st[m] \in Counted => st'[m] \in Counted \cup {"settled"}
                           /\ \A m \in Msgs : st[m] \in {"sent", "settled"} => st'[m] \in {"sent", "settled"}
           Grown == returned \subseteq returned' /\ evicted \subseteq evicted' /\ misused \subseteq misused'
<1>k. ASSUME UNCHANGED <<st, to>>
      PROVE  MessagesKept
  BY <1>k
<1>1. ASSUME NEW l \in Loggers, NEW m \in Msgs, PrintCall(l, m)
      PROVE  MessagesKept /\ Grown
  <2>1. \A q \in Msgs : st[q] # "new" => to'[q] = to[q] /\ st'[q] = st[q]
    BY <1>1 DEF PrintCall, TypeOK
  <2>2. UNCHANGED <<returned, evicted, misused>>
    BY <1>1 DEF PrintCall, cacheVars
  <2> QED
    BY <2>1, <2>2 DEF Counted
<1>2. ASSUME NEW m \in Msgs, PrintStep(m)
      PROVE  MessagesKept /\ Grown
  <2>1. /\ \A q \in Msgs : q # m => st'[q] = st[q]
        /\ st[m] \in {"called", "added", "dropped"} /\ st'[m] \in Counted \cup {"settled"}
        /\ UNCHANGED <<to, returned, evicted>> /\ misused \subseteq misused'
    <3>1. CASE PrintAdd(m)
      BY <3>1 DEF PrintAdd, Becomes, Counted, TypeOK, cacheVars
    <3>2. CASE PrintPanics(m) \/ PrintSend(m) \/ PrintDrop(m) \/ PrintDone(m)
      BY <3>2 DEF PrintPanics, PrintSend, PrintDrop, PrintDone, Becomes, Counted, TypeOK, cacheVars, chanVars
    <3> QED
      BY <1>2, <3>1, <3>2 DEF PrintStep
  <2> QED
    BY <2>1 DEF Counted
<1>3. CASE Consumer
  <2>1. UNCHANGED <<to, returned, evicted, misused>>
    BY <1>3 DEF Consumer, Receive, Settle, ConsumerEnds, cacheVars
  <2>2. CASE Receive \/ ConsumerEnds
    BY <1>k, <2>1, <2>2 DEF Receive, ConsumerEnds
  <2>3. CASE Settle
    <3>1. hand # None /\ st' = [st EXCEPT ![hand] = "settled"]
      BY <2>3 DEF Settle, Becomes
    <3>2. hand \in Msgs /\ st[hand] \in {"sent", "settled"}
      BY <3>1 DEF MessageInv, TypeOK
    <3>3. \A q \in Msgs : st'[q] = IF q = hand THEN "settled" ELSE st[q]
      BY <3>1 DEF TypeOK
    <3> QED
      BY <2>1, <3>2, <3>3
  <2> QED
    BY <1>3, <2>2, <2>3 DEF Consumer
<1>4. CASE UNCHANGED vars
  BY <1>4, <1>k DEF vars, pipeVars, cacheVars
<1>5. ASSUME NEW p \in Goroutines, LockStep(p)
      PROVE  MessagesKept /\ Grown
  <2>1. UNCHANGED <<st, to, misused>> /\ returned \subseteq returned' /\ evicted \subseteq evicted'
    BY <1>5 DEF LockStep, NewLock, NewHit, NewMake, NewAdd, NewEvict, AllLock, AllKeys, AllVisit, AllSkip,
                pipeVars, cacheVars
  <2> QED
    BY <1>k, <2>1
<1>6. ASSUME NEW p \in Goroutines, CallStep(p)
      PROVE  MessagesKept /\ Grown
  <2>1. UNCHANGED <<st, to, misused>> /\ returned \subseteq returned' /\ evicted \subseteq evicted'
    BY <1>6 DEF CallStep, EvictClose, AllReturn, WaitTurnedAway, WaitBegin, WgWait, WgReturn, WaitEnd,
                WaitPanics, pipeVars, cacheVars
  <2> QED
    BY <1>k, <2>1
<1>7. ASSUME NEW p \in Goroutines, Calls(p)
      PROVE  MessagesKept /\ Grown
  <2>1. UNCHANGED <<st, to, misused>> /\ returned \subseteq returned' /\ evicted \subseteq evicted'
    BY <1>7 DEF Calls, NewCall, AllCall, OneCall, pipeVars, cacheVars
  <2> QED
    BY <1>k, <2>1
<1>8. CASE \E p \in Goroutines : LockStep(p) \/ CallStep(p) \/ Calls(p)
  BY <1>5, <1>6, <1>7, <1>8
<1>9. CASE \E l \in Loggers, m \in Msgs : PrintCall(l, m)
  BY <1>1, <1>9
<1>10. CASE \E m \in Msgs : PrintStep(m)
  BY <1>2, <1>10
<1> QED
  BY <1>3, <1>4, <1>8, <1>9, <1>10 DEF Next

-----------------------------------------------------------------------------
(* The part of CallInv about one call. *)
CallOK(p) ==
  /\ pc[p] \in {"lock", "again", "add", "close"} => op[p] = "new"
  /\ pc[p] \in {"wlock", "keys", "next"} => op[p] = "all"
  /\ pc[p] = "begin" \/ InWait(p) => op[p] # "none"
  /\ pc[p] \in {"lock", "again", "add"} => key[p] \in Names
  /\ pc[p] = "add" \/ Flushing(p) => fresh[p] \in Loggers
  /\ pc[p] \in {"begin", "close"} \/ InWait(p) => target[p] \in Loggers

LEMMA CallStepOK ==
  ASSUME TypeOK, CallInv, RoomInv, CacheInv, NEW p \in Goroutines, StepOf(p)
  PROVE  CallOK(p)'
<1> USE CacheAssumption
<1>t. CallTypes /\ PipeTypes
  BY TypeParts
<1>u. cache \in Seq(CEntry) /\ UniqueNames
  BY TypeParts DEF CacheTypes, CacheInv, UniqueNames
<1>o. CallOK(p)
  BY DEF CallInv, CallOK
<1>f. ASSUME Finish(p)
      PROVE  CallOK(p)'
  BY <1>t, <1>f, FinishEffect DEF CallOK, Flushing
<1>1. ASSUME NewHit(p) \/ NewAdd(p) \/ EvictClose(p) \/ AllReturn(p) \/ WaitPanics(p)
      PROVE  CallOK(p)'
  BY <1>1, <1>f DEF NewHit, NewAdd, EvictClose, AllReturn, WaitPanics
<1>2. ASSUME WaitTurnedAway(p) \/ WaitEnd(p)
      PROVE  CallOK(p)'
  <2>1. target[p] \in Loggers /\ pc[p] \in {"begin", "wait", "parked", "end"} /\ op[p] # "none"
    BY <1>2, <1>o DEF WaitTurnedAway, WaitEnd, CallOK
  <2>2. PICK from \in SUBSET Loggers : Continue(p, from)
    BY <1>2, <2>1 DEF WaitTurnedAway, WaitEnd
  <2>3. \/ pc'[p] = "idle" /\ op'[p] = "none"
        \/ /\ \/ op[p] = "all" /\ pc'[p] = "next"
              \/ op[p] \notin {"one", "all"} /\ pc'[p] = "close"
           /\ UNCHANGED <<op[p], key[p], fresh[p], target[p]>>
    BY <1>t, <2>1, <2>2, ContinueEffect
  <2>4. op[p] \in {"none", "new", "all", "one"}
    BY DEF TypeOK
  <2> QED
    BY <1>o, <2>1, <2>3, <2>4 DEF CallOK, Flushing
<1>3. ASSUME NewLock(p)
      PROVE  CallOK(p)'
  <2>1. pc'[p] = "again" /\ pc[p] = "lock" /\ UNCHANGED <<op[p], key[p], fresh[p], target[p]>>
    BY <1>3 DEF NewLock, Goto, callVars, TypeOK
  <2> QED
    BY <1>o, <2>1 DEF CallOK, Flushing
<1>4. ASSUME NewMake(p)
      PROVE  CallOK(p)'
  <2>1. FreshLogger \in Loggers
    BY <1>4, RoomForOne DEF NewMake
  <2>2. pc'[p] = "add" /\ pc[p] = "again" /\ fresh'[p] = FreshLogger /\ UNCHANGED <<op[p], key[p], target[p]>>
    BY <1>4 DEF NewMake, Goto, TypeOK
  <2> QED
    BY <1>o, <2>1, <2>2 DEF CallOK, Flushing
<1>5. ASSUME NewEvict(p)
      PROVE  CallOK(p)'
  <2>1. PICK e \in CEntry : target' = [target EXCEPT ![p] = Head(Entered(e)).log]
    BY <1>5, <1>u, AddEffect
  <2>2. Head(Entered(e)) \in CEntry
    <3>1. Entered(e) \in Seq(CEntry) /\ Entered(e) # <<>>
      BY <1>u, EnteredProperties
    <3> QED
      BY <3>1, TailElements
  <2>3. target'[p] \in Loggers
    BY <2>1, <2>2 DEF TypeOK, CEntry
  <2>4. pc'[p] = "begin" /\ pc[p] = "add" /\ UNCHANGED <<op[p], key[p], fresh[p]>>
    BY <1>5 DEF NewEvict, Goto, TypeOK
  <2> QED
    BY <1>o, <2>3, <2>4 DEF CallOK, Flushing
<1>6. ASSUME AllCall(p) \/ AllLock(p) \/ AllKeys(p) \/ AllSkip(p)
      PROVE  CallOK(p)'
  <2>1. pc'[p] \in {"wlock", "keys", "next"} /\ op'[p] = "all"
    <3>1. CASE AllCall(p)
      BY <3>1 DEF AllCall, Goto, TypeOK
    <3>2. CASE AllLock(p) \/ AllKeys(p) \/ AllSkip(p)
      BY <3>2, <1>o DEF AllLock, AllKeys, AllSkip, Goto, callVars, TypeOK, CallOK
    <3> QED
      BY <1>6, <3>1, <3>2
  <2> QED
    BY <2>1 DEF CallOK, Flushing
<1>7. ASSUME AllVisit(p)
      PROVE  CallOK(p)'
  <2>1. PICK e : Hit(Head(todo[p]), e) /\ target' = [target EXCEPT ![p] = e.log]
    BY <1>7 DEF AllVisit
  <2>2. target'[p] \in Loggers
    BY <1>u, <2>1, HitEffect DEF CEntry, TypeOK
  <2>3. pc'[p] = "begin" /\ pc[p] = "next" /\ op'[p] = op[p]
    BY <1>7 DEF AllVisit, Goto, TypeOK
  <2> QED
    BY <1>o, <2>2, <2>3 DEF CallOK, Flushing
<1>8. ASSUME WaitBegin(p) \/ WgWait(p) \/ WgReturn(p)
      PROVE  CallOK(p)'
  <2>1. /\ pc'[p] \in {"wait", "parked", "end"} /\ pc[p] \in {"begin", "wait", "parked"}
        /\ UNCHANGED <<op[p], key[p], fresh[p], target[p]>>
    BY <1>8 DEF WaitBegin, WgWait, WgReturn, LetThrough, Goto, callVars, TypeOK
  <2> QED
    BY <1>o, <2>1 DEF CallOK, Flushing
<1>9. ASSUME NEW f \in Names, NewCall(p, f)
      PROVE  CallOK(p)'
  <2>1. CASE UNCHANGED <<pc, callVars>>
    BY <1>o, <2>1 DEF CallOK, Flushing, callVars
  <2>2. CASE Goto(p, "lock") /\ op' = [op EXCEPT ![p] = "new"] /\ key' = [key EXCEPT ![p] = f]
    BY <2>2 DEF Goto, TypeOK, CallOK, Flushing
  <2> QED
    BY <1>9, <2>1, <2>2 DEF NewCall
<1>10. ASSUME NEW l \in Loggers, OneCall(p, l)
       PROVE  CallOK(p)'
  <2>1. pc'[p] = "begin" /\ op'[p] = "one" /\ target'[p] = l
    BY <1>10 DEF OneCall, Goto, TypeOK
  <2> QED
    BY <2>1 DEF CallOK, Flushing
<1> QED
  BY <1>1, <1>2, <1>3, <1>4, <1>5, <1>6, <1>7, <1>8, <1>9, <1>10 DEF StepOf, LockStep, CallStep, Calls

LEMMA CallInvStep ==
  ASSUME TypeOK, CallInv, RoomInv, CacheInv, [Next]_vars
  PROVE  CallInv'
<1> SUFFICES ASSUME NEW q \in Goroutines
             PROVE  CallOK(q)'
  BY DEF CallInv, CallOK
<1>o. CallOK(q)
  BY DEF CallInv, CallOK
<1>1. ASSUME Own(q)' = Own(q)
      PROVE  CallOK(q)'
  BY <1>o, <1>1 DEF Own, CallOK, Flushing
<1>2. CASE UNCHANGED <<pc, callVars, lockVars, cacheVars, waitVars>>
  BY <1>1, <1>2 DEF Own, callVars, waitVars
<1>3. ASSUME NEW p \in Goroutines, StepOf(p)
      PROVE  CallOK(q)'
  BY <1>1, <1>3, CallStepOK, OthersStay
<1> QED
  BY <1>2, <1>3, PipelineSteps

-----------------------------------------------------------------------------
(* p is between its second look and the end of NewLogger. *)
Critical(p) == pc[p] \in {"again", "add"} \/ Flushing(p)

LEMMA MutexSteps ==
  ASSUME TypeOK, CallInv, NEW p \in Goroutines, StepOf(p)
  PROVE  \/ newLoggerMutex' = newLoggerMutex /\ (Critical(p)' => Critical(p))
         \/ newLoggerMutex = None /\ newLoggerMutex' = p
         \/ Critical(p) /\ newLoggerMutex' = None /\ ~Critical(p)'
<1> DEFINE Goal == \/ newLoggerMutex' = newLoggerMutex /\ (Critical(p)' => Critical(p))
                   \/ newLoggerMutex = None /\ newLoggerMutex' = p
                   \/ Critical(p) /\ newLoggerMutex' = None /\ ~Critical(p)'
<1>t. CallTypes /\ PipeTypes
  BY TypeParts
<1>f. Finish(p) => ~Critical(p)'
  BY <1>t, FinishEffect DEF Critical, Flushing
<1>1. ASSUME NewHit(p) \/ NewAdd(p) \/ EvictClose(p)
      PROVE  Goal
  BY <1>1, <1>f DEF NewHit, NewAdd, EvictClose, Critical, Flushing, CallInv
<1>2. ASSUME AllReturn(p)
      PROVE  Goal
  BY <1>2, <1>f DEF AllReturn
<1>p. ASSUME WaitPanics(p)
      PROVE  Goal
  BY <1>p, <1>f DEF WaitPanics, Critical, Flushing
<1>3. ASSUME WaitTurnedAway(p) \/ WaitEnd(p)
      PROVE  Goal
  <2>1. target[p] \in Loggers /\ pc[p] \in {"begin", "wait", "parked", "end"} /\ op[p] # "none"
    BY <1>3 DEF WaitTurnedAway, WaitEnd, CallInv
  <2>2. PICK from \in SUBSET Loggers : Continue(p, from)
    BY <1>3, <2>1 DEF WaitTurnedAway, WaitEnd
  <2>3. \/ pc'[p] = "idle" /\ op'[p] = "none"
        \/ /\ \/ op[p] = "all" /\ pc'[p] = "next"
              \/ op[p] \notin {"one", "all"} /\ pc'[p] = "close"
           /\ UNCHANGED <<op[p], key[p], fresh[p], target[p]>>
    BY <1>t, <2>1, <2>2, ContinueEffect
  <2>4. op[p] \in {"none", "new", "all", "one"}
    BY DEF TypeOK
  <2>5. newLoggerMutex' = newLoggerMutex
    BY <1>3 DEF WaitTurnedAway, WaitEnd, lockVars
  <2> QED
    BY <2>1, <2>3, <2>4, <2>5 DEF Critical, Flushing
<1>4. ASSUME NewLock(p)
      PROVE  Goal
  BY <1>4 DEF NewLock
<1>5. ASSUME NewMake(p) \/ NewEvict(p)
      PROVE  Goal
  BY <1>5 DEF NewMake, NewEvict, lockVars, Critical
<1>6. ASSUME AllCall(p) \/ AllLock(p) \/ AllKeys(p) \/ AllVisit(p) \/ AllSkip(p)
      PROVE  Goal
  <2>1. newLoggerMutex' = newLoggerMutex
    BY <1>6 DEF AllCall, AllLock, AllKeys, AllVisit, AllSkip, lockVars
  <2>2. op'[p] = "all" /\ pc'[p] \in {"wlock", "keys", "next", "begin"}
    <3>1. CASE AllCall(p)
      BY <3>1 DEF AllCall, Goto, TypeOK
    <3>2. CASE AllLock(p) \/ AllKeys(p) \/ AllVisit(p) \/ AllSkip(p)
      BY <3>2 DEF AllLock, AllKeys, AllVisit, AllSkip, Goto, callVars, TypeOK, CallInv
    <3> QED
      BY <1>6, <3>1, <3>2
  <2> QED
    BY <2>1, <2>2 DEF Critical, Flushing
<1>7. ASSUME WaitBegin(p) \/ WgWait(p) \/ WgReturn(p)
      PROVE  Goal
  <2>1. /\ pc'[p] \in {"wait", "parked", "end"} /\ pc[p] \in {"begin", "wait", "parked"}
        /\ op'[p] = op[p] /\ newLoggerMutex' = newLoggerMutex
    BY <1>7 DEF WaitBegin, WgWait, WgReturn, LetThrough, Goto, callVars, lockVars, TypeOK
  <2> QED
    BY <2>1 DEF Critical, Flushing
<1>8. ASSUME NEW f \in Names, NewCall(p, f)
      PROVE  Goal
  <2>1. newLoggerMutex' = newLoggerMutex
    BY <1>8 DEF NewCall, lockVars
  <2>2. CASE UNCHANGED <<pc, callVars>>
    BY <2>1, <2>2 DEF Critical, Flushing, callVars
  <2>3. CASE Goto(p, "lock")
    <3>1. pc'[p] = "lock"
      BY <2>3 DEF Goto, TypeOK
    <3> QED
      BY <2>1, <3>1 DEF Critical, Flushing
  <2> QED
    BY <1>8, <2>2, <2>3 DEF NewCall
<1>9. ASSUME NEW l \in Loggers, OneCall(p, l)
      PROVE  Goal
  <2>1. pc'[p] = "begin" /\ op'[p] = "one" /\ newLoggerMutex' = newLoggerMutex
    BY <1>9 DEF OneCall, Goto, lockVars, TypeOK
  <2> QED
    BY <2>1 DEF Critical, Flushing
<1> QED
  BY <1>1, <1>2, <1>p, <1>3, <1>4, <1>5, <1>6, <1>7, <1>8, <1>9 DEF StepOf, LockStep, CallStep, Calls

LEMMA MutexStep ==
  ASSUME TypeOK, CallInv, MutexInv, [Next]_vars
  PROVE  MutexInv'
<1> USE CacheAssumption
<1> SUFFICES ASSUME NEW q \in Goroutines, Critical(q)'
             PROVE  newLoggerMutex' = q
  BY DEF MutexInv, Critical
<1>m. \A p \in Goroutines : Critical(p) => newLoggerMutex = p
  BY DEF MutexInv, Critical
<1>1. CASE UNCHANGED <<pc, callVars, lockVars, cacheVars, waitVars>>
  BY <1>1, <1>m DEF Critical, Flushing, callVars, lockVars
<1>2. ASSUME NEW p \in Goroutines, StepOf(p), p = q
      PROVE  newLoggerMutex' = q
  BY <1>2, <1>m, MutexSteps
<1>3. ASSUME NEW p \in Goroutines, StepOf(p), p # q
      PROVE  newLoggerMutex' = q
  <2>1. Critical(q)
    BY <1>3, OthersStay DEF Own, Critical, Flushing
  <2>2. newLoggerMutex = q /\ q # None
    BY <1>m, <2>1
  <2> QED
    BY <1>3, <1>m, <2>2, MutexSteps
<1> QED
  BY <1>1, <1>2, <1>3, PipelineSteps

-----------------------------------------------------------------------------
(* Which calls may still make a logger, and which loggers exist.            *)
LEMMA RoomSteps ==
  ASSUME TypeOK, CallInv, RoomInv, NEW p \in Goroutines, StepOf(p)
  PROVE  \/ Making' = Making /\ Allocated' = Allocated
         \/ Making' = Making \cup {p} /\ Allocated' = Allocated
              /\ Cardinality(Allocated) + Cardinality(Making) < Cardinality(Loggers)
         \/ Making' = Making \ {p} /\ Allocated' = Allocated
         \/ Making' = Making \ {p} /\ p \in Making
              /\ Allocated' = Allocated \cup {FreshLogger} /\ FreshLogger \notin Allocated
<1> USE CacheAssumption
<1>t. CallTypes /\ PipeTypes
  BY TypeParts
<1>o. \A q \in Goroutines : q # p => pc'[q] = pc[q]
  BY OthersStay DEF Own
<1>1. ASSUME pc'[p] \in {"lock", "again"} <=> pc[p] \in {"lock", "again"}
      PROVE  Making' = Making
  BY <1>o, <1>1 DEF Making
<1>2. ASSUME pc'[p] \in {"lock", "again"}
      PROVE  Making' = Making \cup {p}
  BY <1>o, <1>2 DEF Making
<1>3. ASSUME pc'[p] \notin {"lock", "again"}
      PROVE  Making' = Making \ {p}
  BY <1>o, <1>3 DEF Making
<1>a. ASSUME filename' = filename
      PROVE  Allocated' = Allocated
  BY <1>a DEF Allocated
<1>4. CASE NewMake(p)
  <2>1. FreshLogger \in Loggers /\ FreshLogger \notin Allocated /\ key[p] \in Names
    BY <1>4, RoomForOne DEF NewMake, CallInv
  <2>2. filename' = [filename EXCEPT ![FreshLogger] = key[p]]
    BY <1>4 DEF NewMake
  <2>3. Allocated' = Allocated \cup {FreshLogger}
    BY <2>1, <2>2 DEF Allocated, TypeOK
  <2>4. pc'[p] = "add" /\ pc[p] = "again"
    BY <1>4 DEF NewMake, Goto, TypeOK
  <2> QED
    BY <1>3, <2>1, <2>3, <2>4 DEF Making
<1>5. CASE \E f \in Names : NewCall(p, f)
  <2>1. filename' = filename
    BY <1>5 DEF NewCall
  <2>2. CASE pc' = pc
    BY <1>1, <1>a, <2>1, <2>2
  <2>3. CASE pc' # pc
    <3>1. pc' = [pc EXCEPT ![p] = "lock"]
          /\ Cardinality(Allocated) + Cardinality(Making) < Cardinality(Loggers)
      BY <1>5, <2>3 DEF NewCall, Goto
    <3>2. pc'[p] = "lock"
      BY <3>1 DEF TypeOK
    <3> QED
      BY <1>2, <1>a, <2>1, <3>1, <3>2
  <2> QED
    BY <2>2, <2>3
<1>6. CASE NewHit(p) \/ NewAdd(p) \/ EvictClose(p) \/ AllReturn(p) \/ WaitPanics(p)
  <2>1. filename' = filename /\ Finish(p)
    BY <1>6 DEF NewHit, NewAdd, EvictClose, AllReturn, WaitPanics, cacheVars
  <2>2. pc'[p] = "idle"
    BY <1>t, <2>1, FinishEffect
  <2> QED
    BY <1>3, <1>a, <2>1, <2>2
<1>7. CASE WaitTurnedAway(p) \/ WaitEnd(p)
  <2>1. target[p] \in Loggers
    BY <1>7 DEF WaitTurnedAway, WaitEnd, CallInv
  <2>2. PICK from \in SUBSET Loggers : Continue(p, from)
    BY <1>7, <2>1 DEF WaitTurnedAway, WaitEnd
  <2>3. pc'[p] \in {"idle", "next", "close"}
    BY <1>t, <2>1, <2>2, ContinueEffect
  <2>4. filename' = filename
    BY <1>7 DEF WaitTurnedAway, WaitEnd, cacheVars
  <2> QED
    BY <1>3, <1>a, <2>3, <2>4
<1>8. CASE NewLock(p)
  <2>1. pc'[p] = "again" /\ pc[p] = "lock" /\ filename' = filename
    BY <1>8 DEF NewLock, Goto, cacheVars, TypeOK
  <2> QED
    BY <1>1, <1>a, <2>1
<1>9. CASE NewEvict(p) \/ AllCall(p) \/ AllLock(p) \/ AllKeys(p) \/ AllVisit(p) \/ AllSkip(p) \/ WaitBegin(p)
          \/ WgWait(p) \/ WgReturn(p)
  <2>1. filename' = filename
    BY <1>9 DEF NewEvict, AllCall, AllLock, AllKeys, AllVisit, AllSkip, WaitBegin, WgWait, WgReturn, cacheVars
  <2>2. pc'[p] \in {"begin", "wlock", "keys", "next", "wait", "parked", "end"}
    BY <1>9 DEF NewEvict, AllCall, AllLock, AllKeys, AllVisit, AllSkip, WaitBegin, WgWait, WgReturn, LetThrough,
                Goto, TypeOK
  <2> QED
    BY <1>3, <1>a, <2>1, <2>2
<1>10. CASE \E l \in Loggers : OneCall(p, l)
  <2>1. filename' = filename /\ pc'[p] = "begin"
    BY <1>10 DEF OneCall, Goto, cacheVars, TypeOK
  <2> QED
    BY <1>3, <1>a, <2>1
<1> QED
  BY <1>4, <1>5, <1>6, <1>7, <1>8, <1>9, <1>10 DEF StepOf, LockStep, CallStep, Calls

LEMMA RoomStep ==
  ASSUME TypeOK, CallInv, RoomInv, [Next]_vars
  PROVE  RoomInv'
<1> USE CacheAssumption
<1>f. /\ IsFiniteSet(Making) /\ IsFiniteSet(Allocated)
      /\ Cardinality(Making) \in Nat /\ Cardinality(Allocated) \in Nat /\ Cardinality(Loggers) \in Nat
  <2>1. IsFiniteSet(Making) /\ IsFiniteSet(Allocated)
    BY FS_Subset DEF Making, Allocated
  <2> QED
    BY <2>1, FS_CardinalityType
<1>r. Cardinality(Allocated) + Cardinality(Making) <= Cardinality(Loggers)
  BY DEF RoomInv
<1>1. ASSUME Making' = Making, Allocated' = Allocated
      PROVE  RoomInv'
  BY <1>1 DEF RoomInv
<1>2. CASE UNCHANGED <<pc, callVars, lockVars, cacheVars, waitVars>>
  BY <1>1, <1>2 DEF Making, Allocated, cacheVars
<1>3. ASSUME NEW p \in Goroutines, StepOf(p)
      PROVE  RoomInv'
  <2>a. Cardinality(Making \cup {p}) <= Cardinality(Making) + 1 /\ Cardinality(Making \cup {p}) \in Nat
    <3>1. Cardinality(Making \cup {p}) = IF p \in Making THEN Cardinality(Making) ELSE Cardinality(Making) + 1
      BY <1>f, FS_AddElement
    <3> QED
      BY <1>f, <3>1
  <2>r. /\ Cardinality(Making \ {p}) \in Nat
        /\ Cardinality(Making \ {p}) = IF p \in Making THEN Cardinality(Making) - 1 ELSE Cardinality(Making)
    <3>1. Cardinality(Making \ {p}) = IF p \in Making THEN Cardinality(Making) - 1 ELSE Cardinality(Making)
      BY <1>f, FS_RemoveElement
    <3>2. IsFiniteSet(Making \ {p})
      BY <1>f, FS_RemoveElement
    <3> QED
      BY <3>1, <3>2, FS_CardinalityType
  <2>1. CASE /\ Making' = Making \cup {p} /\ Allocated' = Allocated
             /\ Cardinality(Allocated) + Cardinality(Making) < Cardinality(Loggers)
    BY <1>f, <2>a, <2>1 DEF RoomInv
  <2>2. CASE Making' = Making \ {p} /\ Allocated' = Allocated
    BY <1>f, <1>r, <2>r, <2>2 DEF RoomInv
  <2>3. CASE /\ Making' = Making \ {p} /\ p \in Making
             /\ Allocated' = Allocated \cup {FreshLogger} /\ FreshLogger \notin Allocated
    <3>1. Cardinality(Allocated \cup {FreshLogger}) = Cardinality(Allocated) + 1
      BY <1>f, <2>3, FS_AddElement
    <3> QED
      BY <1>f, <1>r, <2>r, <2>3, <3>1 DEF RoomInv
  <2> QED
    BY <1>1, <1>3, <2>1, <2>2, <2>3, RoomSteps
<1> QED
  BY <1>2, <1>3, PipelineSteps

-----------------------------------------------------------------------------
(* What a step does to the cache. *)
LEMMA CacheSteps ==
  ASSUME [Next]_vars
  PROVE  \/ \E p \in Goroutines : NewAdd(p) \/ NewEvict(p)
         \/ (\E f, e : Hit(f, e)) /\ evicted' = evicted
         \/ cache' = cache /\ evicted' = evicted
<1>1. ASSUME NEW p \in Goroutines, StepOf(p)
      PROVE  \/ NewAdd(p) \/ NewEvict(p)
             \/ (\E f, e : Hit(f, e)) /\ evicted' = evicted
             \/ cache' = cache /\ evicted' = evicted
  <2>1. CASE LockStep(p)
    BY <2>1 DEF LockStep, NewLock, NewHit, NewMake, AllLock, AllKeys, AllVisit, AllSkip, Miss, cacheVars
  <2>2. CASE CallStep(p)
    BY <2>2 DEF CallStep, EvictClose, AllReturn, WaitTurnedAway, WaitBegin, WgWait, WgReturn, WaitEnd,
                WaitPanics, cacheVars
  <2>3. CASE Calls(p)
    BY <2>3 DEF Calls, NewCall, AllCall, OneCall, Miss, cacheVars
  <2> QED
    BY <1>1, <2>1, <2>2, <2>3 DEF StepOf
<1> QED
  BY <1>1, PipelineSteps DEF cacheVars

(* An entry leaves the cache only when it is evicted, and comes in only by  *)
(* the Add of its name.                                                     *)
LEMMA CacheEffect ==
  ASSUME TypeOK, CallInv, CacheInv, [Next]_vars
  PROVE  /\ UniqueNames'
         /\ \A e \in ToSet(cache) : e \in ToSet(cache') \/ e.log \in evicted'
         /\ \A e \in ToSet(cache') :
              e \in ToSet(cache) \/ \E p \in Goroutines : (NewAdd(p) \/ NewEvict(p)) /\ e.name = key[p]
         /\ CachedLogs \cup evicted \subseteq CachedLogs' \cup evicted'
<1>u. cache \in Seq(CEntry) /\ UniqueNames
  BY TypeParts DEF CacheTypes, CacheInv, UniqueNames
<1>1. CASE \E p \in Goroutines : NewAdd(p) \/ NewEvict(p)
  <2>1. /\ UniqueNames' /\ evicted \subseteq evicted'
        /\ \A e \in ToSet(cache) : e \in ToSet(cache') \/ e.log \in evicted'
        /\ \A e \in ToSet(cache') :
              e \in ToSet(cache) \/ \E p \in Goroutines : (NewAdd(p) \/ NewEvict(p)) /\ e.name = key[p]
    BY <1>1, AddElements
  <2>2. CachedLogs \cup evicted \subseteq CachedLogs' \cup evicted'
    BY <2>1 DEF CachedLogs, ToSet
  <2> QED
    BY <2>1, <2>2
<1>2. CASE (\E f, e : Hit(f, e)) /\ evicted' = evicted
  <2>1. UniqueNames' /\ ToSet(cache') = ToSet(cache)
    BY <1>u, <1>2, HitEffect
  <2>2. CachedLogs' = CachedLogs
    BY <2>1 DEF CachedLogs, ToSet
  <2> QED
    BY <1>2, <2>1, <2>2
<1>3. CASE cache' = cache /\ evicted' = evicted
  BY <1>u, <1>3 DEF UniqueNames, CachedLogs
<1> QED
  BY <1>1, <1>2, <1>3, CacheSteps

(* How a call gets to its Add, and to the flush of what it evicted.         *)
LEMMA MakerSteps ==
  ASSUME TypeOK, CallInv, NEW p \in Goroutines, StepOf(p)
  PROVE  /\ pc'[p] = "add" => NewMake(p)
         /\ Flushing(p)' => (NewEvict(p) \/ Flushing(p)) /\ fresh'[p] = fresh[p]
<1> DEFINE Goal == /\ pc'[p] = "add" => NewMake(p)
                   /\ Flushing(p)' => (NewEvict(p) \/ Flushing(p)) /\ fresh'[p] = fresh[p]
<1>t. CallTypes /\ PipeTypes
  BY TypeParts
<1>1. ASSUME NewHit(p) \/ NewAdd(p) \/ EvictClose(p) \/ AllReturn(p) \/ WaitPanics(p)
      PROVE  Goal
  <2>1. Finish(p)
    BY <1>1 DEF NewHit, NewAdd, EvictClose, AllReturn, WaitPanics
  <2> QED
    BY <1>t, <2>1, FinishEffect DEF Flushing
<1>2. ASSUME WaitTurnedAway(p) \/ WaitEnd(p)
      PROVE  Goal
  <2>1. target[p] \in Loggers /\ pc[p] \in {"begin", "wait", "parked", "end"} /\ op[p] # "none"
    BY <1>2 DEF WaitTurnedAway, WaitEnd, CallInv
  <2>2. PICK from \in SUBSET Loggers : Continue(p, from)
    BY <1>2, <2>1 DEF WaitTurnedAway, WaitEnd
  <2>3. \/ pc'[p] = "idle" /\ op'[p] = "none"
        \/ /\ \/ op[p] = "all" /\ pc'[p] = "next"
              \/ op[p] \notin {"one", "all"} /\ pc'[p] = "close"
           /\ UNCHANGED <<op[p], key[p], fresh[p], target[p]>>
    BY <1>t, <2>1, <2>2, ContinueEffect
  <2> QED
    BY <2>1, <2>3 DEF Flushing
<1>3. ASSUME NewMake(p)
      PROVE  Goal
  <2>1. pc'[p] = "add"
    BY <1>3 DEF NewMake, Goto, TypeOK
  <2> QED
    BY <1>3, <2>1 DEF Flushing
<1>4. ASSUME NewEvict(p) \/ WaitBegin(p) \/ WgWait(p) \/ WgReturn(p)
      PROVE  Goal
  <2>1. /\ pc'[p] \in {"begin", "wait", "parked", "end"} /\ fresh'[p] = fresh[p] /\ op'[p] = op[p]
        /\ NewEvict(p) \/ pc[p] \in {"begin", "wait", "parked"}
    BY <1>4 DEF NewEvict, WaitBegin, WgWait, WgReturn, LetThrough, Goto, callVars, TypeOK
  <2> QED
    BY <1>4, <2>1 DEF Flushing
<1>5. ASSUME NewLock(p)
      PROVE  Goal
  <2>1. pc'[p] = "again"
    BY <1>5 DEF NewLock, Goto, TypeOK
  <2> QED
    BY <2>1 DEF Flushing
<1>6. ASSUME AllCall(p) \/ AllLock(p) \/ AllKeys(p) \/ AllVisit(p) \/ AllSkip(p)
      PROVE  Goal
  <2>1. op'[p] = "all" /\ pc'[p] \in {"wlock", "keys", "next", "begin"}
    <3>1. CASE AllCall(p)
      BY <3>1 DEF AllCall, Goto, TypeOK
    <3>2. CASE AllLock(p) \/ AllKeys(p) \/ AllVisit(p) \/ AllSkip(p)
      BY <3>2 DEF AllLock, AllKeys, AllVisit, AllSkip, Goto, callVars, TypeOK, CallInv
    <3> QED
      BY <1>6, <3>1, <3>2
  <2> QED
    BY <2>1 DEF Flushing
<1>7. ASSUME NEW f \in Names, NewCall(p, f)
      PROVE  Goal
  <2>1. pc[p] = "idle" /\ pc'[p] \in {"idle", "lock"}
    BY <1>7 DEF NewCall, Goto, TypeOK
  <2> QED
    BY <2>1 DEF Flushing
<1>8. ASSUME NEW l \in Loggers, OneCall(p, l)
      PROVE  Goal
  <2>1. pc'[p] = "begin" /\ op'[p] = "one"
    BY <1>8 DEF OneCall, Goto, TypeOK
  <2> QED
    BY <2>1 DEF Flushing
<1> QED
  BY <1>1, <1>2, <1>3, <1>4, <1>5, <1>6, <1>7, <1>8 DEF StepOf, LockStep, CallStep, Calls

LEMMA CacheStep ==
  ASSUME TypeOK, CallInv, MutexInv, CacheInv, [Next]_vars
  PROVE  CacheInv'
<1> USE CacheAssumption
<1>e. /\ UniqueNames'
      /\ \A e \in ToSet(cache') :
           e \in ToSet(cache) \/ \E p \in Goroutines : (NewAdd(p) \/ NewEvict(p)) /\ e.name = key[p]
      /\ CachedLogs \cup evicted \subseteq CachedLogs' \cup evicted'
  BY CacheEffect
<1>c. \A f : CachedAs(f) = {e \in ToSet(cache) : e.name = f} /\ CachedAs(f)' = {e \in ToSet(cache') : e.name = f}
  BY DEF CachedAs, ToSet
<1>1. ASSUME NEW q \in Goroutines, pc'[q] = "add"
      PROVE  {e \in ToSet(cache') : e.name = key'[q]} = {}
  <2>1. CASE NewMake(q)
    <3>1. CachedAs(key[q]) = {} /\ cache' = cache /\ key' = key
      BY <2>1 DEF NewMake, Miss
    <3> QED
      BY <1>c, <3>1
  <2>2. ASSUME pc[q] = "add", key'[q] = key[q], ~NewAdd(q), ~NewEvict(q)
        PROVE  {e \in ToSet(cache') : e.name = key'[q]} = {}
    <3>1. newLoggerMutex = q /\ CachedAs(key[q]) = {}
      BY <2>2 DEF MutexInv, CacheInv
    <3>2. \A p \in Goroutines : ~NewAdd(p) /\ ~NewEvict(p)
      BY <2>2, <3>1 DEF MutexInv, NewAdd, NewEvict
    <3> QED
      BY <1>e, <1>c, <2>2, <3>1, <3>2
  <2>3. CASE UNCHANGED <<pc, callVars, lockVars, cacheVars, waitVars>>
    <3>1. pc[q] = "add" /\ key' = key /\ cache' = cache
      BY <1>1, <2>3 DEF callVars, cacheVars
    <3> QED
      BY <1>c, <3>1 DEF CacheInv
  <2>4. ASSUME NEW p \in Goroutines, StepOf(p), p # q
        PROVE  {e \in ToSet(cache') : e.name = key'[q]} = {}
    <3>1. pc[q] = "add" /\ key'[q] = key[q]
      BY <1>1, <2>4, OthersStay DEF Own
    <3>2. ~NewAdd(q) /\ ~NewEvict(q)
      BY <1>1 DEF NewAdd, NewEvict, Finish, Goto, TypeOK
    <3> QED
      BY <2>2, <3>1, <3>2
  <2>5. ASSUME StepOf(q)
        PROVE  NewMake(q)
    BY <1>1, <2>5, MakerSteps
  <2> QED
    BY <2>1, <2>3, <2>4, <2>5, PipelineSteps
<1>2. ASSUME NEW q \in Goroutines, Flushing(q)'
      PROVE  fresh'[q] \in CachedLogs' \cup evicted'
  <2>1. CASE Flushing(q) /\ fresh'[q] = fresh[q]
    BY <1>e, <2>1 DEF CacheInv
  <2>2. CASE NewEvict(q) /\ fresh'[q] = fresh[q]
    BY <2>2, AddElements
  <2>3. CASE UNCHANGED <<pc, callVars, lockVars, cacheVars, waitVars>>
    <3>1. Flushing(q) /\ fresh'[q] = fresh[q]
      BY <1>2, <2>3 DEF Flushing, callVars
    <3> QED
      BY <2>1, <3>1
  <2>4. ASSUME NEW p \in Goroutines, StepOf(p), p # q
        PROVE  fresh'[q] \in CachedLogs' \cup evicted'
    <3>1. Flushing(q) /\ fresh'[q] = fresh[q]
      BY <1>2, <2>4, OthersStay DEF Own, Flushing
    <3> QED
      BY <2>1, <3>1
  <2>5. ASSUME StepOf(q)
        PROVE  fresh'[q] \in CachedLogs' \cup evicted'
    BY <1>2, <2>1, <2>2, <2>5, MakerSteps
  <2> QED
    BY <2>3, <2>4, <2>5, PipelineSteps
<1> QED
  BY <1>e, <1>c, <1>1, <1>2 DEF CacheInv, UniqueNames

(* NewLogger returns a logger that is in the cache or has been evicted.     *)
LEMMA OrphanStep ==
  ASSUME TypeOK, CallInv, CacheInv, NoOrphans, [Next]_vars
  PROVE  NoOrphans'
<1>u. cache \in Seq(CEntry) /\ UniqueNames
  BY TypeParts DEF CacheTypes, CacheInv, UniqueNames
<1>e. CachedLogs \cup evicted \subseteq CachedLogs' \cup evicted'
  BY CacheEffect
<1>1. ASSUME returned' = returned
      PROVE  NoOrphans'
  BY <1>e, <1>1 DEF NoOrphans
<1>2. ASSUME NEW l, returned' = returned \cup {l}, l \in CachedLogs' \cup evicted'
      PROVE  NoOrphans'
  BY <1>e, <1>2 DEF NoOrphans
<1>3. ASSUME NEW f, NEW e, Hit(f, e), returned' = returned \cup {e.log}
      PROVE  NoOrphans'
  <2>1. e.log \in CachedLogs
    BY <1>3 DEF Hit, CachedAs, CachedLogs
  <2> QED
    BY <1>e, <1>2, <1>3, <2>1
<1>4. ASSUME NEW p \in Goroutines, StepOf(p)
      PROVE  NoOrphans'
  <2>1. CASE NewHit(p)
    BY <1>3, <2>1 DEF NewHit
  <2>2. CASE \E f \in Names : NewCall(p, f)
    BY <1>1, <1>3, <2>2 DEF NewCall
  <2>3. CASE NewAdd(p)
    <3>1. fresh[p] \in CachedLogs' \cup evicted'
      BY <2>3, AddElements
    <3> QED
      BY <1>2, <2>3, <3>1 DEF NewAdd
  <2>4. CASE EvictClose(p)
    <3>1. fresh[p] \in CachedLogs \cup evicted
      BY <2>4 DEF EvictClose, CallInv, CacheInv, Flushing
    <3> QED
      BY <1>e, <1>2, <2>4, <3>1 DEF EvictClose
  <2>5. CASE returned' = returned
    BY <1>1, <2>5
  <2>6. NewHit(p) \/ (\E f \in Names : NewCall(p, f)) \/ NewAdd(p) \/ EvictClose(p) \/ returned' = returned
    BY <1>4 DEF StepOf, LockStep, CallStep, Calls, NewLock, NewMake, NewEvict, AllLock, AllKeys, AllVisit,
                AllSkip, AllReturn, WaitTurnedAway, WaitBegin, WgWait, WgReturn, WaitEnd, WaitPanics,
                AllCall, OneCall, cacheVars
  <2> QED
    BY <2>1, <2>2, <2>3, <2>4, <2>5, <2>6
<1> QED
  BY <1>1, <1>4, PipelineSteps DEF cacheVars

(* What is on its way changes only by the prints and the consumer. *)
LEMMA PipeStays ==
  ASSUME NEW p \in Goroutines, StepOf(p)
  PROVE  UNCHANGED <<chanVars, misused, st, to>>
<1>1. CASE LockStep(p)
  BY <1>1 DEF LockStep, NewLock, NewHit, NewMake, NewAdd, NewEvict, AllLock, AllKeys, AllVisit, AllSkip, pipeVars
<1>2. CASE CallStep(p)
  BY <1>2 DEF CallStep, EvictClose, AllReturn, WaitTurnedAway, WaitBegin, WgWait, WgReturn, WaitEnd,
              WaitPanics, pipeVars
<1>3. CASE Calls(p)
  BY <1>3 DEF Calls, NewCall, AllCall, OneCall, pipeVars
<1> QED
  BY <1>1, <1>2, <1>3 DEF StepOf

LEMMA PipeEffect ==
  ASSUME [Next]_vars
  PROVE  \/ \E l \in Loggers, m \in Msgs : PrintCall(l, m)
         \/ \E m \in Msgs : PrintStep(m)
         \/ Consumer
         \/ UNCHANGED <<chanVars, misused, st, to>>
BY PipeStays DEF Next, StepOf, vars, pipeVars

(* The messages on the channel and with the consumer. *)
OnItsWay == ToSet(tologCh) \cup ({hand} \ {None})

LEMMA MessageStep ==
  ASSUME TypeOK, MessageInv, [Next]_vars
  PROVE  MessageInv'
<1> USE CacheAssumption
<1>t. tologCh \in Seq(Msgs) /\ ToSet(tologCh) \subseteq Msgs
  BY ElementOfSeq, LenProperties DEF TypeOK, ToSet
<1>0. OnItsWay \subseteq Msgs /\ \A m \in OnItsWay : st[m] \in {"sent", "settled"}
  BY <1>t DEF OnItsWay, MessageInv, TypeOK
<1>h. ASSUME OnItsWay' \subseteq OnItsWay
      PROVE  \A m \in OnItsWay' : st'[m] \in {"sent", "settled"}
  BY <1>0, <1>h, History
<1>1. \A m \in OnItsWay' : st'[m] \in {"sent", "settled"}
  <2>1. CASE \E l \in Loggers, m \in Msgs : PrintCall(l, m)
    <3>1. OnItsWay' = OnItsWay
      BY <2>1 DEF PrintCall, chanVars, OnItsWay
    <3> QED
      BY <1>h, <3>1
  <2>2. ASSUME NEW m \in Msgs, PrintStep(m), ~PrintSend(m)
        PROVE  OnItsWay' = OnItsWay
    BY <2>2 DEF PrintStep, PrintAdd, PrintPanics, PrintDrop, PrintDone, chanVars, OnItsWay
  <2>3. ASSUME NEW m \in Msgs, PrintSend(m)
        PROVE  \A q \in OnItsWay' : st'[q] \in {"sent", "settled"}
    <3>1. tologCh' = Append(tologCh, m) /\ hand' = hand /\ st' = [st EXCEPT ![m] = "sent"]
      BY <2>3 DEF PrintSend, Becomes
    <3>2. ToSet(Append(tologCh, m)) = ToSet(tologCh) \cup {m}
      BY <1>t, AppendElements
    <3>3. OnItsWay' = OnItsWay \cup {m}
      BY <3>1, <3>2 DEF OnItsWay, ToSet
    <3>4. st'[m] = "sent"
      BY <3>1 DEF TypeOK
    <3> QED
      BY <1>0, <3>3, <3>4, History
  <2>4. CASE Consumer
    <3>1. CASE Receive
      <4>1. ToSet(tologCh) = ToSet(Tail(tologCh)) \cup {Head(tologCh)}
        BY <1>t, <3>1, TailElements DEF Receive
      <4>2. OnItsWay' \subseteq OnItsWay
        BY <3>1, <4>1 DEF Receive, OnItsWay, ToSet
      <4> QED
        BY <1>h, <4>2
    <3>2. CASE Settle \/ ConsumerEnds
      <4>1. OnItsWay' \subseteq OnItsWay
        BY <3>2 DEF Settle, ConsumerEnds, OnItsWay
      <4> QED
        BY <1>h, <4>1
    <3> QED
      BY <2>4, <3>1, <3>2 DEF Consumer
  <2>5. CASE UNCHANGED <<chanVars, misused, st, to>>
    <3>1. OnItsWay' = OnItsWay
      BY <2>5 DEF chanVars, OnItsWay
    <3> QED
      BY <1>h, <3>1
  <2>6. CASE \E m \in Msgs : PrintStep(m)
    BY <1>h, <2>2, <2>3, <2>6
  <2> QED
    BY <2>1, <2>4, <2>5, <2>6, PipeEffect
<1>2. ASSUME NEW m \in Msgs, st'[m] # "new"
      PROVE  to'[m] \in returned'
  <2>1. CASE st[m] # "new"
    BY <2>1, History DEF MessageInv
  <2>2. CASE \E l \in Loggers, q \in Msgs : PrintCall(l, q)
    <3>1. PICK l \in Loggers, q \in Msgs : PrintCall(l, q)
      BY <2>2
    <3>2. to' = [to EXCEPT ![q] = l] /\ l \in returned /\ returned' = returned
      BY <3>1 DEF PrintCall, cacheVars
    <3>3. q # m => st'[m] = st[m]
      BY <3>1 DEF PrintCall, TypeOK
    <3>4. q = m => to'[m] = l
      BY <3>2 DEF TypeOK
    <3> QED
      BY <1>2, <2>1, <3>2, <3>3, <3>4
  <2>3. ASSUME NEW q \in Msgs, PrintStep(q), q # m
        PROVE  st'[m] = st[m]
    BY <2>3 DEF PrintStep, PrintAdd, PrintPanics, PrintSend, PrintDrop, PrintDone, Becomes, TypeOK
  <2>4. ASSUME PrintStep(m)
        PROVE  st[m] # "new"
    BY <2>4 DEF PrintStep, PrintAdd, PrintPanics, PrintSend, PrintDrop, PrintDone
  <2>5. ASSUME Consumer, st[m] = "new"
        PROVE  st'[m] = "new"
    <3>1. CASE Settle
      <4>1. hand \in OnItsWay /\ st' = [st EXCEPT ![hand] = "settled"]
        BY <3>1 DEF Settle, Becomes, OnItsWay
      <4>2. m # hand
        BY <1>0, <2>5, <4>1
      <4> QED
        BY <2>5, <4>1, <4>2 DEF TypeOK
    <3>2. CASE Receive \/ ConsumerEnds
      BY <2>5, <3>2 DEF Receive, ConsumerEnds
    <3> QED
      BY <2>5, <3>1, <3>2 DEF Consumer
  <2> QED
    BY <1>2, <2>1, <2>2, <2>3, <2>4, <2>5, PipeEffect
<1>3. OnItsWay' = ToSet(tologCh') \cup ({hand'} \ {None})
  BY DEF OnItsWay, ToSet
<1> QED
  BY <1>1, <1>2, <1>3 DEF MessageInv, OnItsWay

-----------------------------------------------------------------------------
(* The parts of OwedInv and EvictionFlushes about one call. *)
OwedOK(p) ==
  \A m \in owed[p] :
    /\ st[m] \in Counted \cup {"settled"}
    /\ op[p] = "new" /\ (pc[p] = "begin" \/ InWait(p)) => st[m] = "settled" \/ to[m] = target[p]
    /\ pc[p] = "end" /\ to[m] = target[p] => st[m] = "settled" \/ to[m] \in misused
    /\ op[p] = "all" /\ (pc[p] \in {"next", "begin"} \/ InWait(p)) =>
         \/ st[m] = "settled"
         \/ to[m] \in away[p] \cup evicted \cup misused
         \/ pc[p] # "next" /\ to[m] = target[p]
         \/ \E e \in ToSet(cache) : e.log = to[m] /\ e.name \in ToSet(todo[p])
FlushedOK(p) == pc[p] = "close" => \A m \in owed[p] : st[m] = "settled" \/ to[m] \in away[p] \cup misused

(* What Wait has still to visit stays in the cache, or has been evicted. *)
LEMMA AheadOrEvicted ==
  ASSUME TypeOK, CallInv, CacheInv, MessageInv, [Next]_vars,
         NEW m \in Msgs, st[m] # "new", NEW T, \E e \in ToSet(cache) : e.log = to[m] /\ e.name \in T
  PROVE  to'[m] \in evicted' \/ \E e \in ToSet(cache') : e.log = to'[m] /\ e.name \in T
<1>1. PICK e \in ToSet(cache) : e.log = to[m] /\ e.name \in T
  OBVIOUS
<1>2. to'[m] = to[m]
  BY History
<1>3. e \in ToSet(cache') \/ e.log \in evicted'
  BY CacheEffect
<1> QED
  BY <1>1, <1>2, <1>3

(* The steps of others cannot undo what a call relies on. *)
LEMMA OwedOthers ==
  ASSUME TypeOK, CallInv, CacheInv, MessageInv, OwedInv, EvictionFlushes, [Next]_vars,
         NEW q \in Goroutines, Own(q)' = Own(q)
  PROVE  OwedOK(q)' /\ FlushedOK(q)'
<1>o. UNCHANGED <<pc[q], op[q], key[q], fresh[q], target[q], todo[q], owed[q], away[q]>>
  BY DEF Own
<1>c. \A m \in Msgs : st[m] \in Counted \cup {"settled"} => st[m] # "new"
  BY DEF Counted
<1>m. \A m \in owed[q] : m \in Msgs /\ st[m] \in Counted \cup {"settled"}
  BY DEF OwedInv, TypeOK
<1>h. /\ \A m \in owed[q] : /\ to'[m] = to[m] /\ st'[m] \in Counted \cup {"settled"}
                            /\ st[m] = "settled" => st'[m] = "settled"
      /\ evicted \subseteq evicted' /\ misused \subseteq misused'
  BY <1>c, <1>m, History
<1>1. ASSUME NEW m \in owed[q], op[q] = "all", pc[q] \in {"next", "begin"} \/ InWait(q)
      PROVE  \/ st'[m] = "settled"
             \/ to'[m] \in away[q] \cup evicted' \cup misused'
             \/ pc[q] # "next" /\ to'[m] = target[q]
             \/ \E e \in ToSet(cache') : e.log = to'[m] /\ e.name \in ToSet(todo[q])
  <2>1. \/ st[m] = "settled"
        \/ to[m] \in away[q] \cup evicted \cup misused
        \/ pc[q] # "next" /\ to[m] = target[q]
        \/ \E e \in ToSet(cache) : e.log = to[m] /\ e.name \in ToSet(todo[q])
    BY <1>1 DEF OwedInv
  <2>2. ASSUME \E e \in ToSet(cache) : e.log = to[m] /\ e.name \in ToSet(todo[q])
        PROVE  to'[m] \in evicted' \/ \E e \in ToSet(cache') : e.log = to'[m] /\ e.name \in ToSet(todo[q])
    BY <1>c, <1>m, <1>1, <2>2, AheadOrEvicted
  <2> QED
    BY <1>h, <1>1, <2>1, <2>2
<1>2. \A m \in owed[q] : op[q] = "new" /\ (pc[q] = "begin" \/ InWait(q)) => st'[m] = "settled" \/ to'[m] = target[q]
  BY <1>h DEF OwedInv
<1>3. pc[q] = "close" => \A m \in owed[q] : st'[m] = "settled" \/ to'[m] \in away[q] \cup misused'
  BY <1>h DEF EvictionFlushes
<1>4. \A m \in owed[q] : pc[q] = "end" /\ to'[m] = target[q] => st'[m] = "settled" \/ to'[m] \in misused'
  BY <1>h DEF OwedInv
<1>5. OwedOK(q)'
  BY <1>o, <1>h, <1>1, <1>2, <1>4 DEF OwedOK, ToSet
<1>6. FlushedOK(q)'
  BY <1>o, <1>3 DEF FlushedOK
<1> QED
  BY <1>5, <1>6

(* The steps of the call itself. *)
LEMMA OwedOwn ==
  ASSUME TypeOK, CallInv, CacheInv, MessageInv, OwedInv, NoOrphans, [Next]_vars,
         NEW p \in Goroutines, StepOf(p)
  PROVE  OwedOK(p)' /\ FlushedOK(p)'
<1> DEFINE Goal == OwedOK(p)' /\ FlushedOK(p)'
<1>t. CallTypes /\ PipeTypes
  BY TypeParts
<1>u. cache \in Seq(CEntry) /\ UniqueNames /\ Len(cache) \in Nat /\ DOMAIN cache = 1..Len(cache)
  BY TypeParts, LenProperties DEF CacheTypes, CacheInv, UniqueNames
<1>c. \A m \in Msgs : st[m] \in Counted \cup {"settled"} => st[m] # "new"
  BY DEF Counted
<1>m. \A m \in owed[p] : m \in Msgs /\ st[m] \in Counted \cup {"settled"}
  BY DEF OwedInv, TypeOK
<1>h. /\ \A m \in owed[p] : /\ to'[m] = to[m] /\ st'[m] \in Counted \cup {"settled"}
                            /\ st[m] = "settled" => st'[m] = "settled"
      /\ evicted \subseteq evicted'
  BY <1>c, <1>m, History
<1>q. ASSUME owed'[p] = owed[p],
             \/ pc'[p] \notin {"begin", "wait", "parked", "end", "next", "close"}
             \/ op'[p] = "one" /\ pc'[p] = "begin"
      PROVE  Goal
  BY <1>h, <1>q DEF OwedOK, FlushedOK
<1>e. ASSUME owed'[p] = {}
      PROVE  Goal
  BY <1>e DEF OwedOK, FlushedOK
<1>1. ASSUME NewHit(p) \/ NewAdd(p) \/ EvictClose(p) \/ AllReturn(p) \/ WaitPanics(p)
      PROVE  Goal
  <2>1. Finish(p)
    BY <1>1 DEF NewHit, NewAdd, EvictClose, AllReturn, WaitPanics
  <2> QED
    BY <1>t, <1>e, <2>1, FinishEffect
<1>2. ASSUME NewLock(p) \/ NewMake(p) \/ AllCall(p) \/ AllLock(p)
      PROVE  Goal
  BY <1>2, <1>q DEF NewLock, NewMake, AllCall, AllLock, Goto, waitVars, TypeOK
<1>3. ASSUME NEW f \in Names, NewCall(p, f)
      PROVE  Goal
  <2>1. owed'[p] = owed[p] /\ pc[p] = "idle" /\ pc'[p] \in {"idle", "lock"}
    BY <1>3 DEF NewCall, Goto, waitVars, TypeOK
  <2> QED
    BY <1>q, <2>1
<1>4. ASSUME NEW l \in Loggers, OneCall(p, l)
      PROVE  Goal
  BY <1>4, <1>q DEF OneCall, Goto, waitVars, TypeOK
<1>5. ASSUME NewEvict(p)
      PROVE  Goal
  <2>1. PICK e \in CEntry :
          /\ target' = [target EXCEPT ![p] = Head(Entered(e)).log]
          /\ owed' = [owed EXCEPT ![p] = Pending(Head(Entered(e)).log)]
    BY <1>5, <1>u, AddEffect
  <2>2. PICK old : old = Head(Entered(e)).log
    OBVIOUS
  <2>3. target'[p] = old /\ owed'[p] = Pending(old)
    BY <2>1, <2>2 DEF TypeOK
  <2>4. pc'[p] = "begin" /\ op'[p] = "new" /\ UNCHANGED <<st, to>>
    BY <1>5 DEF NewEvict, Goto, TypeOK, CallInv, pipeVars
  <2>5. \A m \in owed'[p] : to'[m] = target'[p] /\ st'[m] \in Counted
    BY <2>3, <2>4 DEF Pending
  <2> QED
    BY <2>4, <2>5 DEF OwedOK, FlushedOK
<1>6. ASSUME AllKeys(p)
      PROVE  Goal
  <2>1. PICK T : T = [i \in 1..Len(cache) |-> cache[i].name]
    OBVIOUS
  <2>2. /\ owed'[p] = {m \in Msgs : st[m] \in Counted}
        /\ todo'[p] = T /\ pc'[p] = "next" /\ UNCHANGED <<st, to, cache, evicted>>
    BY <1>6, <2>1 DEF AllKeys, Goto, cacheVars, pipeVars, TypeOK
  <2>3. \A x \in ToSet(cache) : x.name \in ToSet(T)
    BY <1>u, <2>1 DEF ToSet
  <2>4. ASSUME NEW m \in Msgs, st[m] \in Counted
        PROVE  to[m] \in evicted \/ \E x \in ToSet(cache) : x.log = to[m] /\ x.name \in ToSet(T)
    <3>1. to[m] \in CachedLogs \cup evicted
      BY <2>4 DEF MessageInv, NoOrphans, Counted
    <3> QED
      BY <2>3, <3>1 DEF CachedLogs
  <2>5. op'[p] = "all"
    BY <1>6 DEF AllKeys, CallInv
  <2>6. \A m \in owed'[p] : st'[m] \in Counted /\ (to'[m] \in evicted' \/ \E x \in ToSet(cache') : x.log = to'[m] /\ x.name \in ToSet(todo'[p]))
    BY <2>2, <2>4
  <2> QED
    BY <2>2, <2>5, <2>6 DEF OwedOK, FlushedOK, ToSet
<1>7. ASSUME AllVisit(p) \/ AllSkip(p)
      PROVE  Goal
  <2>1. PICK f, T : f = Head(todo[p]) /\ T = Tail(todo[p])
    OBVIOUS
  <2>2. ToSet(todo[p]) = ToSet(T) \cup {f}
    BY <1>t, <1>7, <2>1, TailElements DEF AllVisit, AllSkip, CallTypes
  <2>3. /\ todo'[p] = T /\ pc[p] = "next" /\ op[p] = "all" /\ pc'[p] \in {"next", "begin"}
        /\ UNCHANGED <<op, owed, away, st, to, evicted, misused>>
    BY <1>7, <2>1 DEF AllVisit, AllSkip, Goto, waitVars, pipeVars, TypeOK, CallInv
  <2>4. /\ ToSet(cache') = ToSet(cache)
        /\ \A x \in ToSet(cache) : x.name = f => pc'[p] # "next" /\ x.log = target'[p]
    <3>c. CachedAs(f) = {x \in ToSet(cache) : x.name = f}
      BY DEF CachedAs
    <3>1. CASE AllVisit(p)
      <4>1. PICK x : Hit(f, x) /\ target' = [target EXCEPT ![p] = x.log]
        BY <2>1, <3>1 DEF AllVisit
      <4>2. ToSet(cache') = ToSet(cache) /\ CachedAs(f) = {x}
        BY <1>u, <4>1, HitEffect
      <4>3. target'[p] = x.log /\ pc'[p] = "begin"
        BY <3>1, <4>1 DEF AllVisit, Goto, TypeOK
      <4> QED
        BY <3>c, <4>2, <4>3
    <3>2. CASE AllSkip(p)
      BY <2>1, <3>c, <3>2 DEF AllSkip, Miss
    <3> QED
      BY <1>7, <3>1, <3>2
  <2>5. ASSUME NEW m \in owed[p]
        PROVE  \/ st'[m] = "settled"
               \/ to'[m] \in away'[p] \cup evicted' \cup misused'
               \/ pc'[p] # "next" /\ to'[m] = target'[p]
               \/ \E x \in ToSet(cache') : x.log = to'[m] /\ x.name \in ToSet(todo'[p])
    <3>1. \/ st[m] = "settled"
          \/ to[m] \in away[p] \cup evicted \cup misused
          \/ \E x \in ToSet(cache) : x.log = to[m] /\ x.name \in ToSet(todo[p])
      BY <2>3, <2>5 DEF OwedInv
    <3>2. ASSUME NEW x \in ToSet(cache), x.log = to[m], x.name \in ToSet(todo[p])
          PROVE  \/ pc'[p] # "next" /\ to[m] = target'[p]
                 \/ x.name \in ToSet(T)
      BY <2>2, <2>4, <3>2
    <3> QED
      BY <2>3, <2>4, <3>1, <3>2
  <2>6. \A m \in owed'[p] : st'[m] \in Counted \cup {"settled"}
    BY <1>h, <2>3
  <2> QED
    BY <2>3, <2>5, <2>6 DEF OwedOK, FlushedOK, ToSet
<1>8. ASSUME WaitBegin(p) \/ WgWait(p) \/ WgReturn(p)
      PROVE  Goal
  <2>1. /\ pc[p] \in {"begin", "wait", "parked"} /\ pc'[p] \in {"wait", "parked", "end"}
        /\ UNCHANGED <<op, target, todo, owed, away, cache, evicted, st, to, misused>>
    BY <1>8 DEF WaitBegin, WgWait, WgReturn, LetThrough, Goto, callVars, cacheVars, pipeVars, waitVars, TypeOK
  <2>2. pc'[p] = "end" => Pending(target[p]) = {} \/ target[p] \in misused
    BY <1>8 DEF WaitBegin, WgWait, WgReturn, Goto, TypeOK
  <2>3. \A m \in owed[p] : pc'[p] = "end" /\ to[m] = target[p] => st[m] = "settled" \/ to[m] \in misused
    BY <1>m, <2>2 DEF Pending
  <2>4. \A m \in owed[p] : op[p] = "new" => st[m] = "settled" \/ to[m] = target[p]
    BY <2>1 DEF OwedInv
  <2>5. \A m \in owed[p] : op[p] = "all" => \/ st[m] = "settled"
                                            \/ to[m] \in away[p] \cup evicted \cup misused
                                            \/ to[m] = target[p]
                                            \/ \E e \in ToSet(cache) : e.log = to[m] /\ e.name \in ToSet(todo[p])
    BY <2>1 DEF OwedInv
  <2> QED
    BY <1>m, <2>1, <2>3, <2>4, <2>5 DEF OwedOK, FlushedOK, ToSet
<1>9. ASSUME WaitTurnedAway(p) \/ WaitEnd(p)
      PROVE  Goal
  <2>1. target[p] \in Loggers /\ pc[p] \in {"begin", "end"} /\ op[p] \in {"new", "all", "one"}
    BY <1>9 DEF WaitTurnedAway, WaitEnd, CallInv, TypeOK
  <2>2. UNCHANGED <<cache, evicted, st, to, misused>>
    BY <1>9 DEF WaitTurnedAway, WaitEnd, cacheVars, pipeVars
  <2>3. PICK from \in SUBSET Loggers :
          Continue(p, from) /\ (from = {target[p]} \/ pc[p] = "end")
    <3>1. {target[p]} \in SUBSET Loggers /\ {} \in SUBSET Loggers
      BY <2>1
    <3>2. CASE WaitTurnedAway(p)
      <4>1. Continue(p, {target[p]})
        BY <3>2 DEF WaitTurnedAway
      <4> QED
        BY <3>1, <4>1
    <3>3. CASE WaitEnd(p)
      <4>1. Continue(p, {}) /\ pc[p] = "end"
        BY <3>3 DEF WaitEnd
      <4> QED
        BY <3>1, <4>1
    <3> QED
      BY <1>9, <3>2, <3>3
  <2>4. \A m \in owed[p] : to[m] = target[p] => st[m] = "settled" \/ to[m] \in from \cup misused
    <3>1. CASE pc[p] = "end"
      BY <3>1 DEF OwedInv
    <3> QED
      BY <2>3, <3>1
  <2>5. CASE owed'[p] = {}
    BY <1>e, <2>5
  <2>6. CASE /\ \/ op[p] = "all" /\ pc'[p] = "next"
                \/ op[p] \notin {"one", "all"} /\ pc'[p] = "close"
             /\ away'[p] = away[p] \cup from
             /\ UNCHANGED <<op[p], key[p], fresh[p], target[p], todo[p], owed[p]>>
    <3>1. CASE op[p] = "all" /\ pc'[p] = "next"
      <4>1. ASSUME NEW m \in owed[p]
            PROVE  \/ st[m] = "settled"
                   \/ to[m] \in away'[p] \cup evicted \cup misused
                   \/ \E x \in ToSet(cache) : x.log = to[m] /\ x.name \in ToSet(todo[p])
        <5>1. \/ st[m] = "settled"
              \/ to[m] \in away[p] \cup evicted \cup misused
              \/ to[m] = target[p]
              \/ \E x \in ToSet(cache) : x.log = to[m] /\ x.name \in ToSet(todo[p])
          BY <2>1, <3>1, <4>1 DEF OwedInv
        <5> QED
          BY <2>4, <2>6, <4>1, <5>1
      <4> QED
        BY <1>m, <2>2, <2>6, <3>1, <4>1 DEF OwedOK, FlushedOK, ToSet
    <3>2. CASE op[p] = "new" /\ pc'[p] = "close"
      <4>1. \A m \in owed[p] : st[m] = "settled" \/ to[m] = target[p]
        BY <2>1, <3>2 DEF OwedInv
      <4>2. \A m \in owed[p] : st[m] = "settled" \/ to[m] \in away'[p] \cup misused
        BY <2>4, <2>6, <4>1
      <4> QED
        BY <1>m, <2>2, <2>6, <3>2, <4>2 DEF OwedOK, FlushedOK
    <3> QED
      BY <2>1, <2>6, <3>1, <3>2
  <2> QED
    BY <1>t, <2>3, <2>5, <2>6, ContinueEffect
<1> QED
  BY <1>1, <1>2, <1>3, <1>4, <1>5, <1>6, <1>7, <1>8, <1>9 DEF StepOf, LockStep, CallStep, Calls

LEMMA OwedStep ==
  ASSUME TypeOK, CallInv, CacheInv, MessageInv, OwedInv, NoOrphans, EvictionFlushes, [Next]_vars
  PROVE  OwedInv' /\ EvictionFlushes'
<1>1. ASSUME NEW q \in Goroutines
      PROVE  OwedOK(q)' /\ FlushedOK(q)'
  <2>1. CASE UNCHANGED <<pc, callVars, lockVars, cacheVars, waitVars>>
    <3>1. Own(q)' = Own(q)
      BY <2>1 DEF Own, callVars, waitVars
    <3> QED
      BY <3>1, OwedOthers
  <2>2. ASSUME NEW p \in Goroutines, StepOf(p)
        PROVE  OwedOK(q)' /\ FlushedOK(q)'
    BY <2>2, OwedOwn, OwedOthers, OthersStay
  <2> QED
    BY <2>1, <2>2, PipelineSteps
<1>2. OwedInv'
  BY <1>1 DEF OwedInv, OwedOK
<1>3. EvictionFlushes'
  BY <1>1 DEF EvictionFlushes, FlushedOK
<1> QED
  BY <1>2, <1>3

(* When no key is left, what was owed has been settled, turned away or      *)
(* evicted.                                                                 *)
LEMMA NoKeyLeft ==
  /\ CallInv /\ OwedInv => WaitCoversCache
  /\ CallInv' /\ OwedInv' => WaitCoversCache'
BY DEF CallInv, OwedInv, WaitCoversCache, ToSet

-----------------------------------------------------------------------------
LEMMA LoggersInit == Init => LoggersInv
<1> USE CacheAssumption
<1> SUFFICES ASSUME Init
             PROVE  LoggersInv
  OBVIOUS
<1>e. ToSet(cache) = {} /\ ToSet(tologCh) = {} /\ Len(cache) = 0
  BY DEF Init, ToSet
<1>1. TypeOK
  <2>1. \A S : <<>> \in Seq(S)
    BY EmptySeq
  <2>2. cache \in Seq([name : Names, log : Loggers]) /\ tologCh \in Seq(Msgs) /\ todo \in [Goroutines -> Seq(Names)]
    BY <2>1 DEF Init
  <2>3. Len(cache) <= CacheCap
    BY <1>e
  <2> QED
    BY <2>2, <2>3 DEF Init, TypeOK
<1>2. CallInv /\ MutexInv
  BY DEF Init, CallInv, MutexInv, Flushing
<1>3. RoomInv
  <2>1. Allocated = {} /\ Making = {}
    BY DEF Init, Allocated, Making
  <2>2. Cardinality({}) = 0 /\ Cardinality(Loggers) \in Nat
    BY FS_EmptySet, FS_CardinalityType
  <2> QED
    BY <2>1, <2>2 DEF RoomInv
<1>4. CacheInv
  BY DEF Init, CacheInv, Flushing
<1>5. MessageInv
  BY <1>e DEF Init, MessageInv
<1>6. OwedInv
  BY DEF Init, OwedInv
<1>7. NoOrphans /\ EvictionFlushes
  BY DEF Init, NoOrphans, EvictionFlushes
<1> QED
  BY <1>1, <1>2, <1>3, <1>4, <1>5, <1>6, <1>7, NoKeyLeft DEF LoggersInv

LEMMA LoggersStep == LoggersInv /\ [Next]_vars => LoggersInv'
<1> SUFFICES ASSUME LoggersInv, [Next]_vars
             PROVE  LoggersInv'
  OBVIOUS
<1>a. /\ TypeOK /\ CallInv /\ MutexInv /\ RoomInv /\ CacheInv /\ MessageInv /\ OwedInv
      /\ NoOrphans /\ EvictionFlushes
  BY DEF LoggersInv
<1>1. TypeOK'
  BY <1>a, TypeStep
<1>2. CallInv' /\ MutexInv' /\ RoomInv'
  BY <1>a, CallInvStep, MutexStep, RoomStep
<1>3. CacheInv' /\ NoOrphans'
  BY <1>a, CacheStep, OrphanStep
<1>4. MessageInv'
  BY <1>a, MessageStep
<1>5. OwedInv' /\ EvictionFlushes'
  BY <1>a, OwedStep
<1>6. WaitCoversCache'
  BY <1>2, <1>5, NoKeyLeft
<1> QED
  BY <1>1, <1>2, <1>3, <1>4, <1>5, <1>6 DEF LoggersInv

(* Two calls of NewLogger, Wait and the eviction callback interleave in any *)
(* way, for any number of goroutines, names, loggers and messages and any   *)
(* capacity of initializedLoggers: the variables keep their types, the      *)
(* mutex its holder, the cache one entry for a name, and what Wait or the   *)
(* callback owes is accounted for.                                          *)
THEOREM InvariantHolds == Spec => []LoggersInv
<1>1. Init => LoggersInv
  BY LoggersInit
<1>2. LoggersInv /\ [Next]_vars => LoggersInv'
  BY LoggersStep
<1> QED
  BY <1>1, <1>2, PTL DEF Spec

(* Every logger that NewLogger returned is in the cache or was flushed by   *)
(* the eviction callback: the second look under newLoggerMutex works.       *)
THEOREM NoLoggerIsForgotten == Spec => []NoOrphans
<1>1. LoggersInv => NoOrphans
  BY DEF LoggersInv
<1> QED
  BY <1>1, InvariantHolds, PTL

(* The callback closes the writer of an evicted logger after the messages   *)
(* that were pending when it was evicted, unless its Wait was turned away   *)
(* or its WaitGroup was misused.                                            *)
THEOREM EvictionsFlush == Spec => []EvictionFlushes
<1>1. LoggersInv => EvictionFlushes
  BY DEF LoggersInv
<1> QED
  BY <1>1, InvariantHolds, PTL

(* When the package function Wait has visited its keys, what was pending    *)
(* when it took them is written, except what it may miss: the messages of   *)
(* a logger evicted meanwhile, of one whose Wait turned it away and of one  *)
(* whose WaitGroup was misused.                                             *)
THEOREM WaitCoversTheCache == Spec => []WaitCoversCache
<1>1. LoggersInv => WaitCoversCache
  BY DEF LoggersInv
<1> QED
  BY <1>1, InvariantHolds, PTL

-----------------------------------------------------------------------------
(***************************************************************************)
(* LoggerCache implements LoggerDirectory.                                 *)
(***************************************************************************)
(* A set of entries with one entry for a name, and the logger that a look   *)
(* for f finds there.                                                       *)
OneForName(S) == \A x, y \in S : x.name = y.name => x = y
Named(S, f) == {x \in S : x.name = f}
LoggerIn(S, f) == IF Named(S, f) = {} THEN None ELSE (CHOOSE x \in Named(S, f) : TRUE).log

(* What Add does to the cache, exactly. *)
LEMMA AddExactly ==
  ASSUME TypeOK, CallInv, CacheInv, NamesInv, NEW p \in Goroutines, NewAdd(p) \/ NewEvict(p)
  PROVE  \E e \in CEntry :
           /\ e.name = key[p] /\ e.log = fresh[p]
           /\ NewAdd(p) => ToSet(cache') = ToSet(cache) \cup {e} /\ Len(cache) < CacheCap
           /\ NewEvict(p) =>
                \E old \in ToSet(cache) :
                  /\ ToSet(cache') = (ToSet(cache) \ {old}) \cup {e}
                  /\ Len(cache) = CacheCap
                  /\ evicted' = evicted \cup {old.log}
                  /\ target' = [target EXCEPT ![p] = old.log]
                  /\ owed' = [owed EXCEPT ![p] = Pending(old.log)]
<1> USE CacheAssumption
<1>u. cache \in Seq(CEntry) /\ UniqueNames /\ Len(cache) <= CacheCap /\ Len(cache) \in Nat
      /\ DOMAIN cache = 1..Len(cache) /\ ToSet(cache) = {cache[i] : i \in 1..Len(cache)}
  BY TypeParts, LenProperties DEF CacheTypes, CacheInv, UniqueNames, ToSet
<1>c. CachedAs(key[p]) = {}
  BY DEF CacheInv, NewAdd, NewEvict
<1>1. PICK e \in CEntry :
           /\ e.name = key[p] /\ e.log = fresh[p]
           /\ NewAdd(p) => cache' = Entered(e) /\ Len(Entered(e)) <= CacheCap
           /\ NewEvict(p) =>
                /\ cache' = Tail(Entered(e))
                /\ evicted' = evicted \cup {Head(Entered(e)).log}
                /\ target' = [target EXCEPT ![p] = Head(Entered(e)).log]
                /\ owed' = [owed EXCEPT ![p] = Pending(Head(Entered(e)).log)]
  BY <1>u, AddEffect
<1>2. Without(key[p]) = cache
  BY <1>c, CachedAsPlaces DEF Without
<1>3. PICK r : r = Append(cache, e)
  OBVIOUS
<1>4. r = Entered(e)
  BY <1>1, <1>2, <1>3 DEF Entered
<1>5. /\ r \in Seq(CEntry) /\ r # <<>> /\ Len(r) = Len(cache) + 1 /\ DOMAIN r = 1..Len(cache) + 1
      /\ \A n \in 1..Len(cache) : r[n] = cache[n]
      /\ r[Len(cache) + 1] = e
      /\ ToSet(r) = ToSet(cache) \cup {e}
  BY <1>u, <1>3, AppendElements
<1>6. ASSUME NewAdd(p)
      PROVE  ToSet(cache') = ToSet(cache) \cup {e} /\ Len(cache) < CacheCap
  <2>1. cache' = r /\ Len(r) <= CacheCap
    BY <1>1, <1>4, <1>6
  <2> QED
    BY <1>u, <1>5, <2>1
<1>7. ASSUME NewEvict(p)
      PROVE  \E old \in ToSet(cache) :
               /\ ToSet(cache') = (ToSet(cache) \ {old}) \cup {e}
               /\ Len(cache) = CacheCap
               /\ evicted' = evicted \cup {old.log}
               /\ target' = [target EXCEPT ![p] = old.log]
               /\ owed' = [owed EXCEPT ![p] = Pending(old.log)]
  <2>1. Len(Entered(e)) > CacheCap
    BY <1>2, <1>4, <1>1, <1>3, <1>7 DEF NewEvict, Entered
  <2>2. Len(cache) = CacheCap
    <3>1. Len(r) > CacheCap /\ CacheCap \in Nat
      BY <1>4, <2>1
    <3>2. Len(r) = Len(cache) + 1 /\ Len(cache) \in Nat /\ Len(cache) <= CacheCap
      BY <1>u, <1>5
    <3> QED
      BY ONLY <3>1, <3>2
  <2>3. PICK t, old : t = Tail(r) /\ old = Head(r)
    OBVIOUS
  <2>4. /\ cache' = t /\ evicted' = evicted \cup {old.log}
        /\ target' = [target EXCEPT ![p] = old.log] /\ owed' = [owed EXCEPT ![p] = Pending(old.log)]
    BY <1>1, <1>4, <1>7, <2>3
  <2>5. /\ DOMAIN t = 1..Len(r) - 1
        /\ \A n \in 1..Len(r) - 1 : n + 1 \in 1..Len(r) /\ t[n] = r[n + 1]
        /\ old \in CEntry /\ old = r[1] /\ ToSet(r) = ToSet(t) \cup {old}
    BY <1>5, <2>3, TailElements
  <2>6. old \in ToSet(cache) /\ old = cache[1] /\ 1 \in 1..Len(cache)
    BY <1>u, <1>5, <2>2, <2>5
  <2>7. old # e
    BY <1>c, <1>1, <2>6 DEF CachedAs
  <2>8. old \notin ToSet(t)
    <3>1. ASSUME NEW n \in 1..Len(r) - 1, t[n] = old
          PROVE  FALSE
      <4>1. r[n + 1] = old
        BY <2>5, <3>1
      <4>2. n + 1 # 1 /\ n + 1 \in 1..Len(cache) + 1
        BY <1>u, <1>5, <3>1
      <4>3. n + 1 \in 1..Len(cache)
        BY <1>u, <1>5, <2>7, <4>1, <4>2
      <4>4. cache[n + 1] = cache[1]
        BY <1>5, <2>6, <4>1, <4>3
      <4> QED
        BY <1>u, <2>6, <4>2, <4>3, <4>4 DEF UniqueNames
    <3>2. ToSet(t) = {t[n] : n \in 1..Len(r) - 1}
      BY <2>5 DEF ToSet
    <3> QED
      BY <3>1, <3>2
  <2>9. ToSet(cache') = (ToSet(cache) \ {old}) \cup {e}
    BY <1>5, <2>4, <2>5, <2>6, <2>7, <2>8
  <2> QED
    BY <2>2, <2>4, <2>6, <2>9
<1> QED
  BY <1>1, <1>6, <1>7

-----------------------------------------------------------------------------
(* p is past wMutex.Lock of Wait. *)
InAll(p) == op[p] = "all" /\ pc[p] # "wlock"

LEMMA WaitMutexSteps ==
  ASSUME TypeOK, CallInv, NEW p \in Goroutines, StepOf(p)
  PROVE  \/ wMutex' = wMutex /\ (InAll(p)' => InAll(p))
         \/ wMutex = None /\ wMutex' = p
         \/ InAll(p) /\ wMutex' = None /\ ~InAll(p)'
<1> DEFINE Goal == \/ wMutex' = wMutex /\ (InAll(p)' => InAll(p))
                   \/ wMutex = None /\ wMutex' = p
                   \/ InAll(p) /\ wMutex' = None /\ ~InAll(p)'
<1>t. CallTypes /\ PipeTypes
  BY TypeParts
<1>f. Finish(p) => ~InAll(p)'
  BY <1>t, FinishEffect DEF InAll
<1>1. ASSUME NewHit(p) \/ NewAdd(p) \/ EvictClose(p)
      PROVE  Goal
  BY <1>1, <1>f DEF NewHit, NewAdd, EvictClose
<1>2. ASSUME AllReturn(p) \/ WaitPanics(p)
      PROVE  Goal
  BY <1>2, <1>f DEF AllReturn, WaitPanics, InAll, CallInv
<1>3. ASSUME WaitTurnedAway(p) \/ WaitEnd(p)
      PROVE  Goal
  <2>1. target[p] \in Loggers /\ pc[p] \in {"begin", "wait", "parked", "end"}
    BY <1>3 DEF WaitTurnedAway, WaitEnd, CallInv
  <2>2. PICK from \in SUBSET Loggers : Continue(p, from)
    BY <1>3, <2>1 DEF WaitTurnedAway, WaitEnd
  <2>3. op'[p] = "none" \/ op'[p] = op[p]
    BY <1>t, <2>1, <2>2, ContinueEffect
  <2>4. wMutex' = wMutex
    BY <1>3 DEF WaitTurnedAway, WaitEnd, lockVars
  <2> QED
    BY <2>1, <2>3, <2>4 DEF InAll
<1>4. ASSUME AllLock(p)
      PROVE  Goal
  BY <1>4 DEF AllLock
<1>5. ASSUME \/ NewLock(p) \/ NewMake(p) \/ NewEvict(p) \/ AllKeys(p) \/ AllVisit(p) \/ AllSkip(p)
             \/ WaitBegin(p) \/ WgWait(p) \/ WgReturn(p)
      PROVE  Goal
  <2>1. wMutex' = wMutex
    BY <1>5 DEF NewLock, NewMake, NewEvict, AllKeys, AllVisit, AllSkip, WaitBegin, WgWait, WgReturn, lockVars
  <2>2. op' = op /\ pc[p] # "wlock"
    BY <1>5 DEF NewLock, NewMake, NewEvict, AllKeys, AllVisit, AllSkip, WaitBegin, WgWait, WgReturn, callVars
  <2> QED
    BY <2>1, <2>2 DEF InAll
<1>6. ASSUME NEW f \in Names, NewCall(p, f)
      PROVE  Goal
  <2>1. wMutex' = wMutex /\ pc[p] = "idle"
    BY <1>6 DEF NewCall, lockVars
  <2>2. op' = op \/ op'[p] = "new"
    BY <1>6 DEF NewCall, callVars, TypeOK
  <2> QED
    BY <2>1, <2>2 DEF InAll
<1>7. ASSUME AllCall(p) \/ \E l \in Loggers : OneCall(p, l)
      PROVE  Goal
  <2>1. wMutex' = wMutex
    BY <1>7 DEF AllCall, OneCall, lockVars
  <2>2. pc'[p] = "wlock" \/ op'[p] = "one"
    BY <1>7 DEF AllCall, OneCall, Goto, TypeOK
  <2> QED
    BY <2>1, <2>2 DEF InAll
<1> QED
  BY <1>1, <1>2, <1>3, <1>4, <1>5, <1>6, <1>7 DEF StepOf, LockStep, CallStep, Calls

LEMMA WaitMutexStep ==
  ASSUME TypeOK, CallInv, WaitMutexInv, [Next]_vars
  PROVE  WaitMutexInv'
<1> USE CacheAssumption
<1> SUFFICES ASSUME NEW q \in Goroutines, InAll(q)'
             PROVE  wMutex' = q
  BY DEF WaitMutexInv, InAll
<1>m. \A p \in Goroutines : InAll(p) => wMutex = p
  BY DEF WaitMutexInv, InAll
<1>1. CASE UNCHANGED <<pc, callVars, lockVars, cacheVars, waitVars>>
  BY <1>1, <1>m DEF InAll, callVars, lockVars
<1>2. ASSUME NEW p \in Goroutines, StepOf(p), p = q
      PROVE  wMutex' = q
  BY <1>2, <1>m, WaitMutexSteps
<1>3. ASSUME NEW p \in Goroutines, StepOf(p), p # q
      PROVE  wMutex' = q
  <2>1. InAll(q)
    BY <1>3, OthersStay DEF Own, InAll
  <2>2. wMutex = q /\ q # None
    BY <1>m, <2>1
  <2> QED
    BY <1>3, <1>m, <2>2, WaitMutexSteps
<1> QED
  BY <1>1, <1>2, <1>3, PipelineSteps

-----------------------------------------------------------------------------
(* How a call enters and leaves the l.Wait of a logger. *)
LEMMA StartedSteps ==
  ASSUME TypeOK, CallInv, NEW p \in Goroutines, StepOf(p)
  PROVE  \/ waitStarted' = waitStarted /\ ~InWait(p) /\ ~InWait(p)'
         \/ waitStarted' = waitStarted /\ InWait(p) /\ InWait(p)' /\ target'[p] = target[p]
         \/ /\ ~waitStarted[target[p]] /\ target[p] \in Loggers
            /\ waitStarted' = [waitStarted EXCEPT ![target[p]] = TRUE]
            /\ ~InWait(p) /\ InWait(p)' /\ target'[p] = target[p]
         \/ /\ InWait(p) /\ ~InWait(p)' /\ target[p] \in Loggers
            /\ waitStarted' = [waitStarted EXCEPT ![target[p]] = FALSE]
         \/ waitStarted' = waitStarted /\ InWait(p) /\ ~InWait(p)' /\ target[p] \in misused
<1> DEFINE Goal ==
         \/ waitStarted' = waitStarted /\ ~InWait(p) /\ ~InWait(p)'
         \/ waitStarted' = waitStarted /\ InWait(p) /\ InWait(p)' /\ target'[p] = target[p]
         \/ /\ ~waitStarted[target[p]] /\ target[p] \in Loggers
            /\ waitStarted' = [waitStarted EXCEPT ![target[p]] = TRUE]
            /\ ~InWait(p) /\ InWait(p)' /\ target'[p] = target[p]
         \/ /\ InWait(p) /\ ~InWait(p)' /\ target[p] \in Loggers
            /\ waitStarted' = [waitStarted EXCEPT ![target[p]] = FALSE]
         \/ waitStarted' = waitStarted /\ InWait(p) /\ ~InWait(p)' /\ target[p] \in misused
<1>t. CallTypes
  BY TypeParts
<1>f. Finish(p) => pc'[p] = "idle"
  BY <1>t, FinishEffect
<1>c. ASSUME NEW from \in SUBSET Loggers, Continue(p, from)
      PROVE  pc'[p] \in {"idle", "next", "close"}
  BY <1>t, <1>c, ContinueEffect
<1>1. ASSUME NewHit(p) \/ NewAdd(p) \/ EvictClose(p) \/ AllReturn(p)
      PROVE  Goal
  BY <1>1, <1>f DEF NewHit, NewAdd, EvictClose, AllReturn, pipeVars
<1>2. ASSUME WaitTurnedAway(p)
      PROVE  Goal
  <2>1. target[p] \in Loggers
    BY <1>2 DEF WaitTurnedAway, CallInv
  <2>2. pc[p] = "begin" /\ waitStarted' = waitStarted /\ Continue(p, {target[p]})
    BY <1>2 DEF WaitTurnedAway, pipeVars
  <2>3. pc'[p] \in {"idle", "next", "close"}
    BY <1>c, <2>1, <2>2
  <2> QED
    BY <2>2, <2>3
<1>3. ASSUME WaitEnd(p)
      PROVE  Goal
  <2>1. target[p] \in Loggers
    BY <1>3 DEF WaitEnd, CallInv
  <2>2. /\ pc[p] = "end" /\ waitStarted' = [waitStarted EXCEPT ![target[p]] = FALSE]
        /\ Continue(p, {})
    BY <1>3 DEF WaitEnd
  <2>3. pc'[p] \in {"idle", "next", "close"}
    BY <1>c, <2>2
  <2> QED
    BY <2>1, <2>2, <2>3
<1>4. ASSUME WaitBegin(p)
      PROVE  Goal
  BY <1>4 DEF WaitBegin, Goto, callVars, TypeOK, CallInv
<1>5. ASSUME WgWait(p) \/ WgReturn(p)
      PROVE  Goal
  <2>1. /\ pc[p] \in {"wait", "parked"} /\ pc'[p] \in {"parked", "end"}
        /\ waitStarted' = waitStarted /\ target'[p] = target[p]
    BY <1>5 DEF WgWait, WgReturn, LetThrough, Goto, callVars, pipeVars, TypeOK
  <2> QED
    BY <2>1
<1>6. ASSUME WaitPanics(p)
      PROVE  Goal
  BY <1>6, <1>f DEF WaitPanics, pipeVars
<1>7. ASSUME NewLock(p) \/ NewMake(p) \/ NewEvict(p)
      PROVE  Goal
  BY <1>7 DEF NewLock, NewMake, NewEvict, Goto, pipeVars, TypeOK
<1>8. ASSUME AllLock(p) \/ AllKeys(p) \/ AllVisit(p) \/ AllSkip(p) \/ AllCall(p)
      PROVE  Goal
  BY <1>8 DEF AllLock, AllKeys, AllVisit, AllSkip, AllCall, Goto, pipeVars, TypeOK
<1>9. ASSUME (\E f \in Names : NewCall(p, f)) \/ \E l \in Loggers : OneCall(p, l)
      PROVE  Goal
  BY <1>9 DEF NewCall, OneCall, Goto, pipeVars, TypeOK
<1> QED
  BY <1>1, <1>2, <1>3, <1>4, <1>5, <1>6, <1>7, <1>8, <1>9 DEF StepOf, LockStep, CallStep, Calls

(* A step that is not of a call leaves waitStarted as it is. *)
LEMMA StartedElsewhere ==
  ASSUME [Next]_vars
  PROVE  \/ \E p \in Goroutines : StepOf(p)
         \/ UNCHANGED <<pc, callVars, lockVars, cacheVars, waitVars, waitStarted>>
BY DEF Next, StepOf, PrintCall, PrintStep, PrintAdd, PrintPanics, PrintSend, PrintDrop, PrintDone,
       Consumer, Receive, Settle, ConsumerEnds, vars, pipeVars

LEMMA StartedStep ==
  ASSUME TypeOK, CallInv, MessageInv, StartedInv, [Next]_vars
  PROVE  StartedInv'
<1>t. waitStarted \in [Loggers -> BOOLEAN]
  BY DEF TypeOK
<1>g. misused \subseteq misused'
  BY History
<1>v. /\ \A l \in Loggers : waitStarted[l] => l \in misused \/ \E p \in Goroutines : InWait(p) /\ target[p] = l
      /\ \A p \in Goroutines : InWait(p) => waitStarted[target[p]] /\ target[p] \in Loggers
      /\ \A p, q \in Goroutines : InWait(p) /\ InWait(q) /\ target[p] = target[q] => p = q
  BY DEF StartedInv, CallInv
<1>1. CASE UNCHANGED <<pc, callVars, lockVars, cacheVars, waitVars, waitStarted>>
  BY <1>1, <1>g DEF StartedInv, callVars
<1>2. ASSUME NEW p \in Goroutines, StepOf(p)
      PROVE  StartedInv'
  <2>o. \A q \in Goroutines : q # p => pc'[q] = pc[q] /\ target'[q] = target[q]
    BY <1>2, OthersStay DEF Own
  <2>1. CASE waitStarted' = waitStarted /\ ~InWait(p) /\ ~InWait(p)'
    BY <1>g, <1>v, <2>o, <2>1 DEF StartedInv
  <2>2. CASE waitStarted' = waitStarted /\ InWait(p) /\ InWait(p)' /\ target'[p] = target[p]
    <3>1. \A q \in Goroutines : (InWait(q)' <=> InWait(q)) /\ (InWait(q) => target'[q] = target[q])
      BY <2>o, <2>2
    <3> QED
      BY <1>g, <1>v, <2>2, <3>1 DEF StartedInv
  <2>3. CASE /\ ~waitStarted[target[p]] /\ target[p] \in Loggers
             /\ waitStarted' = [waitStarted EXCEPT ![target[p]] = TRUE]
             /\ ~InWait(p) /\ InWait(p)' /\ target'[p] = target[p]
    <3>1. \A l \in Loggers : waitStarted'[l] <=> (l = target[p] \/ waitStarted[l])
      BY <1>t, <2>3
    <3>2. \A q \in Goroutines : q # p /\ InWait(q) => target[q] # target[p]
      BY <1>v, <2>3
    <3>3. \A l \in Loggers : waitStarted'[l] => l \in misused' \/ \E q \in Goroutines : InWait(q)' /\ target'[q] = l
      BY <1>g, <1>v, <2>o, <2>3, <3>1
    <3>4. \A q \in Goroutines : InWait(q)' => waitStarted'[target'[q]]
      <4>1. ASSUME NEW q \in Goroutines, q # p, InWait(q)'
            PROVE  waitStarted'[target'[q]]
        BY <1>v, <2>o, <3>1, <4>1
      <4>2. waitStarted'[target'[p]]
        BY <2>3, <3>1
      <4> QED
        BY <4>1, <4>2
    <3>5. \A q, r \in Goroutines : InWait(q)' /\ InWait(r)' /\ target'[q] = target'[r] => q = r
      BY <1>v, <2>o, <2>3, <3>2
    <3> QED
      BY <3>3, <3>4, <3>5 DEF StartedInv
  <2>4. CASE /\ InWait(p) /\ ~InWait(p)' /\ target[p] \in Loggers
             /\ waitStarted' = [waitStarted EXCEPT ![target[p]] = FALSE]
    <3>1. \A l \in Loggers : waitStarted'[l] <=> (l # target[p] /\ waitStarted[l])
      BY <1>t, <2>4
    <3>2. \A q \in Goroutines : q # p /\ InWait(q) => target[q] # target[p]
      BY <1>v, <2>4
    <3>3. \A l \in Loggers : waitStarted'[l] => l \in misused' \/ \E q \in Goroutines : InWait(q)' /\ target'[q] = l
      <4>1. ASSUME NEW l \in Loggers, waitStarted'[l], l \notin misused'
            PROVE  \E q \in Goroutines : InWait(q)' /\ target'[q] = l
        <5>1. PICK q \in Goroutines : InWait(q) /\ target[q] = l
          BY <1>g, <1>v, <3>1, <4>1
        <5>2. q # p
          BY <3>1, <4>1, <5>1
        <5> QED
          BY <2>o, <5>1, <5>2
      <4> QED
        BY <4>1
    <3>4. ASSUME NEW q \in Goroutines, InWait(q)'
          PROVE  waitStarted'[target'[q]]
      <4>1. q # p /\ InWait(q) /\ target'[q] = target[q]
        BY <2>o, <2>4, <3>4
      <4> QED
        BY <1>v, <3>1, <3>2, <4>1
    <3>5. \A q, r \in Goroutines : InWait(q)' /\ InWait(r)' /\ target'[q] = target'[r] => q = r
      BY <1>v, <2>o, <2>4
    <3> QED
      BY <3>3, <3>4, <3>5 DEF StartedInv
  <2>5. CASE waitStarted' = waitStarted /\ InWait(p) /\ ~InWait(p)' /\ target[p] \in misused
    <3>1. \A q \in Goroutines : InWait(q)' => InWait(q) /\ target'[q] = target[q]
      BY <2>o, <2>5
    <3>2. ASSUME NEW l \in Loggers, waitStarted'[l], l \notin misused'
          PROVE  \E q \in Goroutines : InWait(q)' /\ target'[q] = l
      <4>1. PICK q \in Goroutines : InWait(q) /\ target[q] = l
        BY <1>g, <1>v, <2>5, <3>2
      <4>2. q # p
        BY <1>g, <2>5, <3>2, <4>1
      <4> QED
        BY <2>o, <4>1, <4>2
    <3> QED
      BY <1>v, <2>5, <3>1, <3>2 DEF StartedInv
  <2> QED
    BY <1>2, <2>1, <2>2, <2>3, <2>4, <2>5, StartedSteps
<1> QED
  BY <1>1, <1>2, StartedElsewhere

-----------------------------------------------------------------------------
(* Nobody has turned away a call that has not come to its first l.Wait. *)
Early == {"idle", "lock", "again", "add", "wlock", "keys"}

LEMMA AwaySteps ==
  ASSUME TypeOK, CallInv, NEW p \in Goroutines, StepOf(p), pc'[p] \in Early
  PROVE  away'[p] = {} \/ (away'[p] = away[p] /\ pc[p] \in Early)
<1> DEFINE Goal == away'[p] = {} \/ (away'[p] = away[p] /\ pc[p] \in Early)
<1>f. Finish(p) => away'[p] = {}
  BY DEF Finish, TypeOK
<1>1. ASSUME NewHit(p) \/ NewAdd(p) \/ EvictClose(p) \/ AllReturn(p) \/ WaitPanics(p)
      PROVE  Goal
  BY <1>1, <1>f DEF NewHit, NewAdd, EvictClose, AllReturn, WaitPanics
<1>2. ASSUME WaitTurnedAway(p) \/ WaitEnd(p)
      PROVE  Goal
  <2>1. Finish(p) \/ Goto(p, IF op[p] = "all" THEN "next" ELSE "close")
    BY <1>2 DEF WaitTurnedAway, WaitEnd, Continue
  <2>2. Goto(p, IF op[p] = "all" THEN "next" ELSE "close") => pc'[p] \in {"next", "close"}
    BY DEF Goto, TypeOK
  <2>3. pc'[p] \notin {"next", "close"}
    BY DEF Early
  <2> QED
    BY <1>f, <2>1, <2>2, <2>3
<1>3. ASSUME NewLock(p) \/ NewMake(p) \/ AllLock(p) \/ AllKeys(p) \/ AllCall(p)
      PROVE  Goal
  BY <1>3 DEF NewLock, NewMake, AllLock, AllKeys, AllCall, waitVars, Early
<1>4. ASSUME \/ NewEvict(p) \/ AllVisit(p) \/ WaitBegin(p) \/ WgWait(p) \/ WgReturn(p)
             \/ \E l \in Loggers : OneCall(p, l)
      PROVE  pc'[p] \in {"begin", "wait", "parked", "end"}
  BY <1>4 DEF NewEvict, AllVisit, WaitBegin, WgWait, WgReturn, LetThrough, OneCall, Goto, TypeOK
<1>5. ~AllSkip(p)
  BY DEF AllSkip, Early
<1>6. ASSUME NEW f \in Names, NewCall(p, f)
      PROVE  Goal
  BY <1>6 DEF NewCall, waitVars, Early
<1>7. pc'[p] \notin {"begin", "wait", "parked", "end"}
  BY DEF Early
<1> QED
  BY <1>1, <1>2, <1>3, <1>4, <1>5, <1>6, <1>7 DEF StepOf, LockStep, CallStep, Calls

LEMMA AwayStep ==
  ASSUME TypeOK, CallInv, AwayInv, [Next]_vars
  PROVE  AwayInv'
<1> SUFFICES ASSUME NEW q \in Goroutines, pc'[q] \in Early
             PROVE  away'[q] = {}
  BY DEF AwayInv, Early
<1>a. \A p \in Goroutines : pc[p] \in Early => away[p] = {}
  BY DEF AwayInv, Early
<1>1. CASE UNCHANGED <<pc, callVars, lockVars, cacheVars, waitVars>>
  BY <1>1, <1>a DEF waitVars
<1>2. CASE StepOf(q)
  BY <1>2, <1>a, AwaySteps
<1>3. ASSUME NEW p \in Goroutines, StepOf(p), p # q
      PROVE  away'[q] = {}
  BY <1>3, <1>a, OthersStay DEF Own
<1> QED
  BY <1>1, <1>2, <1>3, PipelineSteps

-----------------------------------------------------------------------------
(* A logger that NewLogger allocates is not in use. *)
LEMMA FreshIsUnused ==
  ASSUME TypeOK, RoomInv, NamesInv, NEW p \in Goroutines, NewMake(p)
  PROVE  /\ FreshLogger \in Loggers /\ filename[FreshLogger] = None
         /\ FreshLogger \notin CachedLogs \cup evicted
         /\ filename' = [filename EXCEPT ![FreshLogger] = key[p]]
         /\ fresh' = [fresh EXCEPT ![p] = FreshLogger] /\ pc'[p] = "add" /\ key' = key
<1> USE CacheAssumption
<1>1. FreshLogger \in Loggers /\ FreshLogger \notin Allocated
  BY RoomForOne DEF NewMake
<1>2. filename[FreshLogger] = None
  BY <1>1 DEF Allocated
<1>3. /\ filename' = [filename EXCEPT ![FreshLogger] = key[p]]
      /\ fresh' = [fresh EXCEPT ![p] = FreshLogger] /\ pc'[p] = "add" /\ key' = key
  BY DEF NewMake, Goto, TypeOK
<1>4. \A e \in ToSet(cache) : e.name \in Names
  <2>1. \A i \in DOMAIN cache : cache[i] \in CEntry
    <3>1. cache \in Seq(CEntry)
      BY TypeParts DEF CacheTypes
    <3> QED
      BY <3>1, ElementOfSeq, LenProperties
  <2> QED
    BY <2>1 DEF ToSet, CEntry
<1>5. FreshLogger \notin CachedLogs
  BY <1>2, <1>4 DEF NamesInv, CachedLogs
<1>6. FreshLogger \notin evicted
  BY <1>2 DEF NamesInv
<1> QED
  BY <1>1, <1>2, <1>3, <1>5, <1>6

(* A name is set once. *)
LEMMA NameSteps ==
  ASSUME [Next]_vars
  PROVE  filename' = filename \/ \E p \in Goroutines : NewMake(p)
<1>1. ASSUME NEW p \in Goroutines, StepOf(p)
      PROVE  filename' = filename \/ NewMake(p)
  <2>1. CASE LockStep(p)
    BY <2>1 DEF LockStep, NewLock, NewHit, NewAdd, NewEvict, AllLock, AllKeys, AllVisit, AllSkip, cacheVars
  <2>2. CASE CallStep(p)
    BY <2>2 DEF CallStep, EvictClose, AllReturn, WaitTurnedAway, WaitBegin, WgWait, WgReturn, WaitEnd,
                WaitPanics, cacheVars
  <2>3. CASE Calls(p)
    BY <2>3 DEF Calls, NewCall, AllCall, OneCall, cacheVars
  <2> QED
    BY <1>1, <2>1, <2>2, <2>3 DEF StepOf
<1> QED
  BY <1>1, PipelineSteps DEF cacheVars

(* The goroutine that adds a logger is the only one that is making one. *)
LEMMA OneMaker ==
  ASSUME MutexInv, NEW p \in Goroutines, NEW q \in Goroutines,
         pc[p] \in {"again", "add"}, pc[q] \in {"again", "add"}
  PROVE  p = q
BY DEF MutexInv

LEMMA NamesStep ==
  ASSUME TypeOK, CallInv, MutexInv, RoomInv, CacheInv, NamesInv, [Next]_vars
  PROVE  NamesInv'
<1> USE CacheAssumption
<1>u. cache \in Seq(CEntry) /\ UniqueNames
  BY TypeParts DEF CacheTypes, CacheInv, UniqueNames
<1>c. CachedLogs = {e.log : e \in ToSet(cache)} /\ CachedLogs' = {e.log : e \in ToSet(cache')}
  BY DEF CachedLogs, ToSet
<1>n. \A e \in ToSet(cache) : filename[e.log] = e.name /\ e.log \notin evicted
  BY DEF NamesInv
<1>1. ASSUME NEW p \in Goroutines, NewMake(p)
      PROVE  NamesInv'
  <2>1. /\ FreshLogger \in Loggers /\ filename[FreshLogger] = None
        /\ FreshLogger \notin CachedLogs \cup evicted
        /\ filename' = [filename EXCEPT ![FreshLogger] = key[p]]
        /\ fresh' = [fresh EXCEPT ![p] = FreshLogger] /\ key' = key
    BY <1>1, FreshIsUnused
  <2>2. cache' = cache /\ evicted' = evicted /\ key[p] \in Names
    BY <1>1 DEF NewMake, Miss, CallInv
  <2>3. CachedLogs' = CachedLogs
    BY <2>2 DEF CachedLogs
  <2>4. \A l \in Loggers : l # FreshLogger => filename'[l] = filename[l]
    BY <2>1 DEF TypeOK
  <2>5. \A e \in ToSet(cache) : e.log \in CachedLogs /\ e.log \in Loggers
    <3>1. \A i \in DOMAIN cache : cache[i] \in CEntry
      BY <1>u, ElementOfSeq, LenProperties
    <3> QED
      BY <1>c, <3>1 DEF ToSet, CEntry
  <2>6. \A e \in ToSet(cache') : filename'[e.log] = e.name /\ e.log \notin evicted'
    BY <1>n, <2>1, <2>2, <2>4, <2>5
  <2>7. \A l \in evicted' : filename'[l] # None
    BY <2>1, <2>2, <2>4 DEF NamesInv, TypeOK
  <2>8. ASSUME NEW q \in Goroutines, pc'[q] = "add"
        PROVE  filename'[fresh'[q]] = key'[q] /\ fresh'[q] \notin CachedLogs' \cup evicted'
    <3>1. CASE q = p
      BY <2>1, <2>2, <2>3, <3>1 DEF TypeOK
    <3>2. CASE q # p
      <4>1. pc[q] = "add"
        BY <1>1, <2>8, <3>2 DEF NewMake, Goto, TypeOK
      <4> QED
        BY <1>1, <3>2, <4>1, OneMaker DEF NewMake
    <3> QED
      BY <3>1, <3>2
  <2> QED
    BY <2>6, <2>7, <2>8 DEF NamesInv
<1>2. ASSUME NEW p \in Goroutines, NewAdd(p) \/ NewEvict(p)
      PROVE  NamesInv'
  <2>1. PICK e \in CEntry :
           /\ e.name = key[p] /\ e.log = fresh[p]
           /\ NewAdd(p) => ToSet(cache') = ToSet(cache) \cup {e}
           /\ NewEvict(p) =>
                \E old \in ToSet(cache) :
                  ToSet(cache') = (ToSet(cache) \ {old}) \cup {e} /\ evicted' = evicted \cup {old.log}
    BY <1>2, AddExactly
  <2>2. filename[fresh[p]] = key[p] /\ fresh[p] \notin CachedLogs \cup evicted
    BY <1>2 DEF NamesInv, NewAdd, NewEvict
  <2>3. filename' = filename /\ (NewAdd(p) => evicted' = evicted)
    BY <1>2 DEF NewAdd, NewEvict
  <2>4. \A q \in Goroutines : pc'[q] # "add"
    <3>1. pc'[p] # "add"
      BY <1>2 DEF NewAdd, NewEvict, Finish, Goto, TypeOK
    <3>2. ASSUME NEW q \in Goroutines, q # p, pc'[q] = "add"
          PROVE  FALSE
      <4>1. pc[q] = "add"
        BY <1>2, <3>2 DEF NewAdd, NewEvict, Finish, Goto, TypeOK
      <4> QED
        BY <1>2, <3>2, <4>1, OneMaker DEF NewAdd, NewEvict
    <3> QED
      BY <3>1, <3>2
  <2>5. \A x \in ToSet(cache') : filename'[x.log] = x.name
    BY <1>n, <1>2, <2>1, <2>2, <2>3
  <2>6. CASE NewAdd(p)
    <3>1. \A x \in ToSet(cache') : x.log \notin evicted'
      BY <1>n, <2>1, <2>2, <2>3, <2>6
    <3> QED
      BY <2>3, <2>4, <2>5, <2>6, <3>1 DEF NamesInv
  <2>7. CASE NewEvict(p)
    <3>1. PICK old \in ToSet(cache) :
            ToSet(cache') = (ToSet(cache) \ {old}) \cup {e} /\ evicted' = evicted \cup {old.log}
      BY <2>1, <2>7
    <3>2. \A x \in ToSet(cache) : x # old => x.log # old.log
      <4>1. ASSUME NEW x \in ToSet(cache), x.log = old.log
            PROVE  x = old
        <5>1. x.name = old.name
          BY <1>n, <4>1
        <5> QED
          BY <5>1 DEF ToSet, CacheInv
      <4> QED
        BY <4>1
    <3>3. e.log # old.log
      BY <1>c, <2>1, <2>2
    <3>4. \A x \in ToSet(cache') : x.log \notin evicted'
      BY <1>n, <2>1, <2>2, <3>1, <3>2, <3>3
    <3>5. old.name \in Names /\ filename[old.log] = old.name
      <4>1. \A i \in DOMAIN cache : cache[i] \in CEntry
        BY <1>u, ElementOfSeq, LenProperties
      <4> QED
        BY <1>n, <4>1 DEF ToSet, CEntry
    <3>6. \A l \in evicted' : filename'[l] # None
      BY <2>3, <3>1, <3>5 DEF NamesInv
    <3> QED
      BY <2>4, <2>5, <3>4, <3>6 DEF NamesInv
  <2> QED
    BY <1>2, <2>6, <2>7
<1>3. ASSUME filename' = filename, ToSet(cache') = ToSet(cache), evicted' = evicted,
             \A q \in Goroutines : ~NewMake(q)
      PROVE  NamesInv'
  <2>1. CachedLogs' = CachedLogs
    BY <1>c, <1>3
  <2>2. ASSUME NEW q \in Goroutines, pc'[q] = "add"
        PROVE  pc[q] = "add" /\ fresh'[q] = fresh[q] /\ key'[q] = key[q]
    <3>1. CASE UNCHANGED <<pc, callVars, lockVars, cacheVars, waitVars>>
      BY <2>2, <3>1 DEF callVars
    <3>2. ~StepOf(q)
      BY <1>3, <2>2, MakerSteps
    <3>3. ASSUME NEW p \in Goroutines, StepOf(p), p # q
          PROVE  pc[q] = "add" /\ fresh'[q] = fresh[q] /\ key'[q] = key[q]
      BY <2>2, <3>3, OthersStay DEF Own
    <3> QED
      BY <3>1, <3>2, <3>3, PipelineSteps
  <2> QED
    BY <1>3, <2>1, <2>2 DEF NamesInv
<1>4. \/ \E p \in Goroutines : NewAdd(p) \/ NewEvict(p)
      \/ ToSet(cache') = ToSet(cache) /\ evicted' = evicted
  BY <1>u, CacheSteps, HitEffect
<1> QED
  BY <1>1, <1>2, <1>3, <1>4, NameSteps

-----------------------------------------------------------------------------
LEMMA DirectoryInit == Init => DirectoryInv
<1> SUFFICES ASSUME Init
             PROVE  DirectoryInv
  OBVIOUS
<1>1. LoggersInv
  BY LoggersInit
<1>2. WaitMutexInv /\ AwayInv
  BY DEF Init, WaitMutexInv, AwayInv
<1>3. StartedInv
  BY DEF Init, StartedInv
<1>4. NamesInv
  BY DEF Init, NamesInv, ToSet
<1> QED
  BY <1>1, <1>2, <1>3, <1>4 DEF DirectoryInv

LEMMA DirectoryStep == DirectoryInv /\ [Next]_vars => DirectoryInv'
<1> SUFFICES ASSUME DirectoryInv, [Next]_vars
             PROVE  DirectoryInv'
  OBVIOUS
<1>a. /\ LoggersInv /\ TypeOK /\ CallInv /\ MutexInv /\ RoomInv /\ CacheInv /\ MessageInv
      /\ WaitMutexInv /\ StartedInv /\ AwayInv /\ NamesInv
  BY DEF DirectoryInv, LoggersInv
<1>1. LoggersInv'
  BY <1>a, LoggersStep
<1>2. WaitMutexInv' /\ StartedInv' /\ AwayInv' /\ NamesInv'
  BY <1>a, WaitMutexStep, StartedStep, AwayStep, NamesStep
<1> QED
  BY <1>1, <1>2 DEF DirectoryInv

(* The logger of an entry has the entry's name, an evicted logger is never  *)
(* cached again, waitStarted is up exactly while one goroutine waits for    *)
(* the logger (or for ever, when that one panicked), and one goroutine at a *)
(* time is in the package's Wait.                                           *)
THEOREM DirectoryInvariantHolds == Spec => []DirectoryInv
BY DirectoryInit, DirectoryStep, PTL DEF Spec

-----------------------------------------------------------------------------
(* The directory as a function of the set of entries. *)
LEMMA LoggerInFacts ==
  ASSUME NEW S, OneForName(S), NEW f
  PROVE  /\ (\A x \in S : x.name # f) => LoggerIn(S, f) = None
         /\ \A x \in S : x.name = f => LoggerIn(S, f) = x.log
<1>1. ASSUME \A x \in S : x.name # f
      PROVE  LoggerIn(S, f) = None
  BY <1>1 DEF LoggerIn, Named
<1>2. ASSUME NEW x \in S, x.name = f
      PROVE  LoggerIn(S, f) = x.log
  <2>1. Named(S, f) = {x}
    BY <1>2 DEF Named, OneForName
  <2> QED
    BY <2>1 DEF LoggerIn
<1> QED
  BY <1>1, <1>2

LEMMA LiveIs ==
  /\ AbsLive = [f \in Names |-> LoggerIn(ToSet(cache), f)]
  /\ AbsLive' = [f \in Names |-> LoggerIn(ToSet(cache'), f)]
BY DEF AbsLive, LoggerIn, Named, CachedAs, ToSet

(* The entries, without their places. *)
LEMMA Entries ==
  ASSUME TypeOK, CacheInv
  PROVE  /\ cache \in Seq(CEntry) /\ UniqueNames /\ OneForName(ToSet(cache))
         /\ ToSet(cache) \subseteq CEntry
         /\ \A e \in ToSet(cache) : e.name \in Names /\ e.log \in Loggers /\ e.log \in CachedLogs
         /\ \A l \in CachedLogs : \E e \in ToSet(cache) : e.log = l
<1>1. cache \in Seq(CEntry) /\ UniqueNames
  BY TypeParts DEF CacheTypes, CacheInv, UniqueNames
<1>2. OneForName(ToSet(cache))
  BY <1>1 DEF UniqueNames, OneForName, ToSet
<1>3. ToSet(cache) \subseteq CEntry
  <2>1. \A i \in DOMAIN cache : cache[i] \in CEntry
    BY <1>1, ElementOfSeq, LenProperties
  <2> QED
    BY <2>1 DEF ToSet
<1>4. CachedLogs = {e.log : e \in ToSet(cache)}
  BY DEF CachedLogs, ToSet
<1> QED
  BY <1>1, <1>2, <1>3, <1>4 DEF CEntry

LEMMA LiveFacts ==
  ASSUME TypeOK, CacheInv
  PROVE  /\ \A f \in Names : CachedAs(f) = {} => AbsLive[f] = None
         /\ \A e \in ToSet(cache) : AbsLive[e.name] = e.log /\ e.log # None
         /\ \A f \in Names : AbsLive[f] # None => \E e \in ToSet(cache) : e.name = f /\ AbsLive[f] = e.log
<1> USE CacheAssumption
<1>1. /\ OneForName(ToSet(cache))
      /\ \A e \in ToSet(cache) : e.name \in Names /\ e.log \in Loggers
  BY Entries
<1>2. \A f \in Names : AbsLive[f] = LoggerIn(ToSet(cache), f)
  BY LiveIs
<1>3. \A f : CachedAs(f) = {e \in ToSet(cache) : e.name = f}
  BY DEF CachedAs, ToSet
<1>4. \A f \in Names : CachedAs(f) = {} => AbsLive[f] = None
  BY <1>1, <1>2, <1>3, LoggerInFacts
<1>5. \A e \in ToSet(cache) : AbsLive[e.name] = e.log /\ e.log # None
  BY <1>1, <1>2, LoggerInFacts
<1>6. \A f \in Names : AbsLive[f] # None => \E e \in ToSet(cache) : e.name = f
  BY <1>3, <1>4
<1> QED
  BY <1>4, <1>5, <1>6

(* The live loggers are those of the cache, and as many as its entries.     *)
LEMMA LiveLoggersAreCached ==
  ASSUME TypeOK, CacheInv
  PROVE  Directory!LiveLoggers = CachedLogs /\ Directory!Cardinality(Directory!LiveNames) = Len(cache)
<1>e. /\ cache \in Seq(CEntry) /\ UniqueNames
      /\ \A e \in ToSet(cache) : e.name \in Names /\ e.log \in Loggers /\ e.log \in CachedLogs
      /\ \A l \in CachedLogs : \E e \in ToSet(cache) : e.log = l
  BY Entries
<1>1. /\ \A e \in ToSet(cache) : AbsLive[e.name] = e.log /\ e.log # None
      /\ \A f \in Names : AbsLive[f] # None => \E e \in ToSet(cache) : e.name = f /\ AbsLive[f] = e.log
  BY LiveFacts
<1>2. Directory!LiveNames = {f \in Names : AbsLive[f] # None}
  BY DEF Directory!LiveNames
<1>3. Directory!LiveLoggers = {AbsLive[f] : f \in Directory!LiveNames}
  BY DEF Directory!LiveLoggers
<1>4. Directory!LiveLoggers = CachedLogs
  <2>1. \A l \in Directory!LiveLoggers : l \in CachedLogs
    BY <1>e, <1>1, <1>2, <1>3
  <2>2. ASSUME NEW l \in CachedLogs
        PROVE  l \in Directory!LiveLoggers
    <3>1. PICK e \in ToSet(cache) : e.log = l
      BY <1>e
    <3>2. e.name \in Directory!LiveNames /\ AbsLive[e.name] = l
      BY <1>e, <1>1, <1>2, <3>1
    <3> QED
      BY <1>3, <3>2
  <2> QED
    BY <2>1, <2>2
<1>5. Cardinality(Directory!LiveNames) = Len(cache)
  <2>n. Len(cache) \in Nat /\ DOMAIN cache = 1..Len(cache) /\ ToSet(cache) = {cache[i] : i \in 1..Len(cache)}
    BY <1>e, LenProperties DEF ToSet
  <2>1. PICK g : g = [i \in 1..Len(cache) |-> cache[i].name]
    OBVIOUS
  <2>2. \A i \in 1..Len(cache) : g[i] \in Directory!LiveNames
    BY <1>e, <1>1, <1>2, <2>n, <2>1
  <2>3. \A f \in Directory!LiveNames : \E i \in 1..Len(cache) : g[i] = f
    BY <1>1, <1>2, <2>n, <2>1
  <2>4. \A i, j \in 1..Len(cache) : g[i] = g[j] => i = j
    BY <1>e, <2>n, <2>1 DEF UniqueNames
  <2>5. g \in Bijection(1..Len(cache), Directory!LiveNames)
    <3>1. DOMAIN g = 1..Len(cache) /\ g \in [1..Len(cache) -> Directory!LiveNames]
      BY <2>1, <2>2
    <3> QED
      BY <2>3, <2>4, <3>1 DEF Bijection, Injection, Surjection, IsInjective
  <2>6. ExistsBijection(1..Len(cache), Directory!LiveNames)
    BY <2>5 DEF ExistsBijection
  <2>7. IsFiniteSet(1..Len(cache)) /\ Cardinality(1..Len(cache)) = Len(cache)
    <3>1. /\ IsFiniteSet(1..Len(cache))
          /\ Cardinality(1..Len(cache)) = IF 1 > Len(cache) THEN 0 ELSE Len(cache) - 1 + 1
      BY <2>n, FS_Interval
    <3> QED
      BY <2>n, <3>1
  <2> QED
    BY <2>6, <2>7, FS_Bijection
<1>6. \A S : Directory!Cardinality(S) = Cardinality(S)
  BY DEF Cardinality, IsFiniteSet, Directory!Cardinality, Directory!IsFiniteSet
<1> QED
  BY <1>4, <1>5, <1>6

(* What the entries and the evicted loggers determine. *)
LEMMA SameDirectory ==
  ASSUME ToSet(cache') = ToSet(cache), evicted' = evicted,
         \A l \in CachedLogs \cup evicted : filename'[l] = filename[l]
  PROVE  AbsLive' = AbsLive /\ AbsNameOf' = AbsNameOf
<1>1. AbsLive' = AbsLive
  BY LiveIs
<1>2. CachedLogs' = CachedLogs
  BY DEF CachedLogs, ToSet
<1> QED
  BY <1>1, <1>2 DEF AbsNameOf

-----------------------------------------------------------------------------
(* What the directory sees of a call outside of its promises. *)
Outside(p) == ~Flushing(p) /\ ~Covering(p) /\ ~InWait(p)

LEMMA OutsideView ==
  ASSUME NEW p
  PROVE  /\ Outside(p) => WaitsFor(p) = None /\ Opens(p) = None /\ ~Covering(p) /\ Owes(p) = {}
         /\ Outside(p)' => WaitsFor(p)' = None /\ Opens(p)' = None /\ ~Covering(p)' /\ Owes(p)' = {}
BY DEF Outside, WaitsFor, Opens, Owes

AbsCalls == <<AbsWaitsFor, AbsOpening, AbsCovering, AbsOwed>>
SeenOf(p) == <<WaitsFor(p), Opens(p), Covering(p), Owes(p)>>

(* What the directory sees of the messages and of the mutes. *)
LEMMA SameMessages ==
  /\ st' = st => AbsState' = AbsState
  /\ waitStarted' = waitStarted => AbsMuted' = AbsMuted
BY DEF AbsState, AbsMuted

(* A step of p changes what is seen of p. *)
LEMMA OnlyMine ==
  ASSUME TypeOK, CallInv, NEW p \in Goroutines, StepOf(p), evicted' = evicted
  PROVE  /\ AbsWaitsFor' = [AbsWaitsFor EXCEPT ![p] = WaitsFor(p)']
         /\ AbsOpening' = [AbsOpening EXCEPT ![p] = Opens(p)']
         /\ AbsCovering' = [AbsCovering EXCEPT ![p] = Covering(p)']
         /\ AbsOwed' = [AbsOwed EXCEPT ![p] = Owes(p)']
<1>0. st' = st /\ to' = to /\ misused' = misused
  BY PipeStays
<1>1. ASSUME NEW q \in Goroutines, q # p
      PROVE  /\ WaitsFor(q)' = WaitsFor(q) /\ Opens(q)' = Opens(q)
             /\ Covering(q)' = Covering(q) /\ Owes(q)' = Owes(q)
  <2>1. Own(q)' = Own(q)
    BY <1>1, OthersStay
  <2> QED
    BY <1>0, <2>1 DEF Own, WaitsFor, Opens, Covering, Owes, Flushing
<1>2. AbsWaitsFor' = [AbsWaitsFor EXCEPT ![p] = WaitsFor(p)']
  BY <1>1 DEF AbsWaitsFor
<1>3. AbsOpening' = [AbsOpening EXCEPT ![p] = Opens(p)']
  BY <1>1 DEF AbsOpening
<1>4. AbsCovering' = [AbsCovering EXCEPT ![p] = Covering(p)']
  BY <1>1 DEF AbsCovering
<1>5. AbsOwed' = [AbsOwed EXCEPT ![p] = Owes(p)']
  BY <1>1 DEF AbsOwed
<1> QED
  BY <1>2, <1>3, <1>4, <1>5

(* ... and whether it was let through. *)
LEMMA MyPassage ==
  ASSUME TypeOK, CallInv, NEW p \in Goroutines, StepOf(p)
  PROVE  /\ pc'[p] = "end" => AbsThrough' = AbsThrough \cup {p}
         /\ pc'[p] # "end" => AbsThrough' = AbsThrough \ {p}
         /\ (pc'[p] = "end" <=> pc[p] = "end") => AbsThrough' = AbsThrough
<1>1. \A q \in Goroutines : q # p => pc'[q] = pc[q]
  BY OthersStay DEF Own
<1> QED
  BY <1>1 DEF AbsThrough

LEMMA Unseen ==
  ASSUME NEW p \in Goroutines
  PROVE  /\ AbsWaitsFor = [AbsWaitsFor EXCEPT ![p] = WaitsFor(p)]
         /\ AbsOpening = [AbsOpening EXCEPT ![p] = Opens(p)]
         /\ AbsCovering = [AbsCovering EXCEPT ![p] = Covering(p)]
         /\ AbsOwed = [AbsOwed EXCEPT ![p] = Owes(p)]
BY DEF AbsWaitsFor, AbsOpening, AbsCovering, AbsOwed

LEMMA AllUnseen ==
  ASSUME TypeOK, CallInv, NEW p \in Goroutines, StepOf(p), evicted' = evicted,
         \/ Outside(p) /\ Outside(p)'
         \/ SeenOf(p)' = SeenOf(p) /\ (pc'[p] = "end" <=> pc[p] = "end")
  PROVE  UNCHANGED AbsCalls /\ AbsThrough' = AbsThrough
<1>1. WaitsFor(p)' = WaitsFor(p) /\ Opens(p)' = Opens(p) /\ Owes(p)' = Owes(p)
  BY OutsideView DEF SeenOf
<1>2. Covering(p)' = Covering(p)
  BY OutsideView DEF SeenOf, Covering
<1>3. AbsThrough' = AbsThrough
  BY MyPassage DEF Outside
<1> QED
  BY <1>1, <1>2, <1>3, OnlyMine, Unseen DEF AbsCalls

(* Nothing that the directory sees has changed. *)
LEMMA Stutters ==
  ASSUME UNCHANGED AbsCalls, AbsThrough' = AbsThrough, AbsLive' = AbsLive, AbsNameOf' = AbsNameOf,
         returned' = returned, st' = st, to' = to, misused' = misused, waitStarted' = waitStarted
  PROVE  UNCHANGED Directory!vars
BY SameMessages DEF AbsCalls, Directory!vars, Directory!callers

-----------------------------------------------------------------------------
(* The steps that the directory does not see. *)
LEMMA QuietMaps ==
  ASSUME DirectoryInv, NEW p \in Goroutines,
         \/ NewLock(p) \/ NewMake(p) \/ AllCall(p) \/ AllLock(p) \/ AllVisit(p) \/ AllSkip(p)
         \/ \E l \in Loggers : OneCall(p, l)
  PROVE  UNCHANGED Directory!vars
<1>a. /\ TypeOK /\ CallInv /\ MutexInv /\ RoomInv /\ CacheInv /\ NamesInv /\ StepOf(p)
  BY DEF DirectoryInv, LoggersInv, StepOf, LockStep, Calls
<1>u. cache \in Seq(CEntry) /\ UniqueNames
  BY <1>a, Entries
<1>1. UNCHANGED <<st, to, evicted, returned, misused, waitStarted>>
  BY DEF NewLock, NewMake, AllCall, AllLock, AllVisit, AllSkip, OneCall, pipeVars, cacheVars
<1>2. ToSet(cache') = ToSet(cache)
  <2>1. (\E f, e : Hit(f, e)) \/ cache' = cache
    BY DEF NewLock, NewMake, AllCall, AllLock, AllVisit, AllSkip, OneCall, Miss, cacheVars
  <2> QED
    BY <1>u, <2>1, HitEffect
<1>3. \A l \in CachedLogs \cup evicted : filename'[l] = filename[l]
  <2>1. CASE NewMake(p)
    <3>1. /\ FreshLogger \in Loggers /\ FreshLogger \notin CachedLogs \cup evicted
          /\ filename' = [filename EXCEPT ![FreshLogger] = key[p]]
      BY <1>a, <2>1, FreshIsUnused
    <3>2. CachedLogs \subseteq Loggers /\ evicted \subseteq Loggers
      <4>1. \A l \in CachedLogs : \E e \in ToSet(cache) : e.log = l /\ e.log \in Loggers
        BY <1>a, Entries
      <4> QED
        BY <1>a, <4>1 DEF TypeOK
    <3> QED
      BY <1>a, <3>1, <3>2 DEF TypeOK
  <2>2. CASE ~NewMake(p)
    <3>1. filename' = filename
      BY <2>2 DEF NewLock, AllCall, AllLock, AllVisit, AllSkip, OneCall, cacheVars
    <3> QED
      BY <3>1
  <2> QED
    BY <2>1, <2>2
<1>4. AbsLive' = AbsLive /\ AbsNameOf' = AbsNameOf
  BY <1>1, <1>2, <1>3, SameDirectory
<1>5. ASSUME NewLock(p) \/ NewMake(p) \/ AllCall(p) \/ AllLock(p) \/ \E l \in Loggers : OneCall(p, l)
      PROVE  Outside(p) /\ Outside(p)'
  <2>1. pc[p] \in {"lock", "again", "idle", "wlock"} /\ pc'[p] \in {"again", "add", "wlock", "keys", "begin"}
    BY <1>a, <1>5 DEF NewLock, NewMake, AllCall, AllLock, OneCall, Goto, TypeOK
  <2>2. pc'[p] = "begin" => op'[p] = "one"
    BY <1>a, <1>5 DEF NewLock, NewMake, AllCall, AllLock, OneCall, Goto, TypeOK
  <2> QED
    BY <2>1, <2>2 DEF Outside, Flushing, Covering
<1>6. ASSUME AllVisit(p) \/ AllSkip(p)
      PROVE  SeenOf(p)' = SeenOf(p) /\ (pc'[p] = "end" <=> pc[p] = "end")
  <2>1. pc[p] = "next" /\ op[p] = "all" /\ UNCHANGED <<op, owed, away, fresh>>
    BY <1>a, <1>6 DEF AllVisit, AllSkip, CallInv, waitVars
  <2>2. pc'[p] \in {"next", "begin"}
    BY <1>a, <1>6, <2>1 DEF AllVisit, AllSkip, Goto, TypeOK
  <2> QED
    BY <1>1, <2>1, <2>2 DEF SeenOf, WaitsFor, Opens, Covering, Owes, Flushing
<1>7. UNCHANGED AbsCalls /\ AbsThrough' = AbsThrough
  BY <1>a, <1>1, <1>5, <1>6, AllUnseen
<1> QED
  BY <1>1, <1>4, <1>7, Stutters

(* A call that finds its logger, at the first or at the second look. *)
LEMMA GiveMaps ==
  ASSUME DirectoryInv, NEW p \in Goroutines, NewHit(p) \/ \E f \in Names : NewCall(p, f)
  PROVE  (\E f \in Names : Directory!Give(f)) \/ UNCHANGED Directory!vars
<1>a. /\ TypeOK /\ CallInv /\ CacheInv /\ StepOf(p)
  BY DEF DirectoryInv, LoggersInv, StepOf, LockStep, Calls
<1>t. CallTypes
  BY <1>a, TypeParts
<1>u. cache \in Seq(CEntry) /\ UniqueNames
  BY <1>a, Entries
<1>1. UNCHANGED <<st, to, evicted, filename, misused, waitStarted>>
  BY DEF NewHit, NewCall, pipeVars
<1>2. \/ \E f \in Names : \E e : Hit(f, e) /\ returned' = returned \cup {e.log}
      \/ cache' = cache /\ returned' = returned
  BY <1>a DEF NewHit, NewCall, Miss, CallInv
<1>3. ToSet(cache') = ToSet(cache)
  BY <1>u, <1>2, HitEffect
<1>4. AbsLive' = AbsLive /\ AbsNameOf' = AbsNameOf
  BY <1>1, <1>3, SameDirectory
<1>5. UNCHANGED AbsCalls /\ AbsThrough' = AbsThrough
  <2>1. pc[p] \in {"idle", "again"} /\ pc'[p] \in {"idle", "lock"}
    <3>1. CASE NewHit(p)
      BY <1>t, <3>1, FinishEffect DEF NewHit
    <3>2. CASE \E f \in Names : NewCall(p, f)
      BY <1>a, <3>2 DEF NewCall, Goto, TypeOK
    <3> QED
      BY <3>1, <3>2
  <2>2. Outside(p) /\ Outside(p)'
    BY <2>1 DEF Outside, Flushing, Covering
  <2> QED
    BY <1>a, <1>1, <2>2, AllUnseen
<1>6. ASSUME NEW f \in Names, NEW e, Hit(f, e), returned' = returned \cup {e.log}
      PROVE  Directory!Give(f)
  <2>1. e \in ToSet(cache) /\ e.name = f
    BY <1>6 DEF Hit, CachedAs
  <2>2. AbsLive[f] = e.log /\ AbsLive[f] # None
    BY <1>a, <2>1, LiveFacts
  <2>3. AbsState' = AbsState /\ AbsMuted' = AbsMuted
    BY <1>1, SameMessages
  <2> QED
    BY <1>1, <1>4, <1>5, <1>6, <2>2, <2>3 DEF Directory!Give, Directory!callers, AbsCalls
<1>7. ASSUME returned' = returned
      PROVE  UNCHANGED Directory!vars
  BY <1>1, <1>4, <1>5, <1>7, Stutters
<1> QED
  BY <1>2, <1>6, <1>7

(* The goroutine that adds a logger may make it live: its name has none, it *)
(* was never live, and nobody else holds newLoggerMutex.                    *)
LEMMA AddCanMake ==
  ASSUME DirectoryInv, NEW p \in Goroutines, pc[p] = "add"
  PROVE  Directory!CanMake(key[p], fresh[p]) /\ key[p] \in Names /\ fresh[p] \in Loggers
<1>a. /\ TypeOK /\ CallInv /\ MutexInv /\ CacheInv /\ NamesInv
  BY DEF DirectoryInv, LoggersInv
<1>1. key[p] \in Names /\ fresh[p] \in Loggers
  BY <1>a DEF CallInv
<1>2. AbsLive[key[p]] = None
  <2>1. CachedAs(key[p]) = {}
    BY <1>a DEF CacheInv
  <2> QED
    BY <1>a, <1>1, <2>1, LiveFacts
<1>3. AbsNameOf[fresh[p]] = None
  BY <1>a, <1>1 DEF NamesInv, AbsNameOf
<1>4. \A c \in Goroutines : AbsOpening[c] = None
  <2>1. \A c \in Goroutines : ~Flushing(c)
    BY <1>a DEF MutexInv, Flushing
  <2> QED
    BY <2>1 DEF AbsOpening, Opens
<1> QED
  BY <1>1, <1>2, <1>3, <1>4 DEF Directory!CanMake

(* What is unfinished in the directory is what the WaitGroups count. *)
LEMMA UnfinishedIs ==
  ASSUME TypeOK
  PROVE  /\ \A logs : Directory!Unfinished(logs) = {m \in Msgs : st[m] \in Counted /\ to[m] \in logs}
         /\ \A l : Directory!Unfinished({l}) = Pending(l)
<1>1. \A m \in Msgs : AbsState[m] = "pending" <=> st[m] \in Counted
  BY DEF AbsState, Counted, TypeOK
<1> QED
  BY <1>1 DEF Directory!Unfinished, Pending

LEMMA MakeMaps ==
  ASSUME DirectoryInv, NEW p \in Goroutines, NewAdd(p)
  PROVE  \E f \in Names, l \in Loggers : Directory!Make(f, l)
<1>a. /\ TypeOK /\ CallInv /\ CacheInv /\ NamesInv /\ StepOf(p) /\ pc[p] = "add"
  BY DEF DirectoryInv, LoggersInv, StepOf, LockStep, NewAdd
<1>t. CallTypes
  BY <1>a, TypeParts
<1>1. Directory!CanMake(key[p], fresh[p]) /\ key[p] \in Names /\ fresh[p] \in Loggers
  BY <1>a, AddCanMake
<1>2. PICK e \in CEntry :
        /\ e.name = key[p] /\ e.log = fresh[p]
        /\ ToSet(cache') = ToSet(cache) \cup {e} /\ Len(cache) < CacheCap
  BY <1>a, AddExactly
<1>3. Directory!Cardinality(Directory!LiveNames) < CacheCap
  BY <1>a, <1>2, LiveLoggersAreCached
<1>4. /\ UNCHANGED <<st, to, evicted, filename, misused, waitStarted>>
      /\ returned' = returned \cup {fresh[p]} /\ Finish(p)
  BY DEF NewAdd, pipeVars
<1>o. OneForName(ToSet(cache)) /\ \A x \in ToSet(cache) : x.name # key[p]
  BY <1>a, Entries DEF CacheInv, CachedAs
<1>5. AbsLive' = [AbsLive EXCEPT ![key[p]] = fresh[p]]
  <2>1. OneForName(ToSet(cache'))
    BY <1>2, <1>o DEF OneForName
  <2>2. LoggerIn(ToSet(cache'), key[p]) = fresh[p]
    BY <1>2, <2>1, LoggerInFacts
  <2>3. ASSUME NEW f \in Names, f # key[p]
        PROVE  LoggerIn(ToSet(cache'), f) = LoggerIn(ToSet(cache), f)
    <3>1. Named(ToSet(cache'), f) = Named(ToSet(cache), f)
      BY <1>2, <2>3 DEF Named
    <3> QED
      BY <3>1 DEF LoggerIn
  <2> QED
    BY <2>2, <2>3, LiveIs
<1>6. AbsNameOf' = [AbsNameOf EXCEPT ![fresh[p]] = key[p]]
  <2>1. CachedLogs' = CachedLogs \cup {fresh[p]}
    <3>1. CachedLogs = {x.log : x \in ToSet(cache)} /\ CachedLogs' = {x.log : x \in ToSet(cache')}
      BY DEF CachedLogs, ToSet
    <3> QED
      BY <1>2, <3>1
  <2>2. filename[fresh[p]] = key[p]
    BY <1>a DEF NamesInv
  <2> QED
    BY <1>1, <1>4, <2>1, <2>2 DEF AbsNameOf
<1>7. UNCHANGED AbsCalls /\ AbsThrough' = AbsThrough
  <2>1. pc'[p] = "idle"
    BY <1>t, <1>4, FinishEffect
  <2>2. Outside(p) /\ Outside(p)'
    BY <1>a, <2>1 DEF Outside, Flushing, Covering
  <2> QED
    BY <1>a, <1>4, <2>2, AllUnseen
<1>8. Directory!Make(key[p], fresh[p])
  <2>1. UNCHANGED <<AbsState, to, AbsMuted, misused, AbsWaitsFor, AbsThrough, AbsOpening, AbsCovering, AbsOwed>>
    BY <1>4, <1>7, SameMessages DEF AbsCalls
  <2> QED
    BY <1>1, <1>3, <1>4, <1>5, <1>6, <2>1 DEF Directory!Make, Directory!callers
<1> QED
  BY <1>1, <1>8

(* The eviction: the oldest logger makes room, and the callback begins.     *)
LEMMA DisplaceMaps ==
  ASSUME DirectoryInv, NEW p \in Goroutines, NewEvict(p)
  PROVE  \E f, old \in Names, l \in Loggers : Directory!Displace(p, f, l, old)
<1> USE CacheAssumption
<1>a. /\ TypeOK /\ CallInv /\ MutexInv /\ CacheInv /\ NamesInv /\ AwayInv /\ StepOf(p) /\ pc[p] = "add"
  BY DEF DirectoryInv, LoggersInv, StepOf, LockStep, NewEvict
<1>1. Directory!CanMake(key[p], fresh[p]) /\ key[p] \in Names /\ fresh[p] \in Loggers
  BY <1>a, AddCanMake
<1>2. PICK e \in CEntry :
        /\ e.name = key[p] /\ e.log = fresh[p]
        /\ \E o \in ToSet(cache) :
             /\ ToSet(cache') = (ToSet(cache) \ {o}) \cup {e}
             /\ Len(cache) = CacheCap
             /\ evicted' = evicted \cup {o.log}
             /\ owed' = [owed EXCEPT ![p] = Pending(o.log)]
  BY <1>a, AddExactly
<1>3. PICK o \in ToSet(cache) :
             /\ ToSet(cache') = (ToSet(cache) \ {o}) \cup {e}
             /\ Len(cache) = CacheCap
             /\ evicted' = evicted \cup {o.log}
             /\ owed' = [owed EXCEPT ![p] = Pending(o.log)]
  BY <1>2
<1>4. Directory!Cardinality(Directory!LiveNames) = CacheCap
  BY <1>a, <1>3, LiveLoggersAreCached
<1>5. /\ UNCHANGED <<st, to, filename, returned, away, op, fresh, misused, waitStarted>>
      /\ pc' = [pc EXCEPT ![p] = "begin"]
  BY DEF NewEvict, pipeVars, Goto
<1>o. OneForName(ToSet(cache)) /\ \A x \in ToSet(cache) : x.name # key[p]
  BY <1>a, Entries DEF CacheInv, CachedAs
<1>n. o.name \in Names /\ AbsLive[o.name] = o.log /\ o.log # None /\ o.name # key[p]
  BY <1>a, <1>o, Entries, LiveFacts
<1>6. AbsLive' = [AbsLive EXCEPT ![o.name] = None, ![key[p]] = fresh[p]]
  <2>1. OneForName(ToSet(cache'))
    BY <1>2, <1>3, <1>o DEF OneForName
  <2>2. LoggerIn(ToSet(cache'), key[p]) = fresh[p]
    BY <1>2, <1>3, <2>1, LoggerInFacts
  <2>3. LoggerIn(ToSet(cache'), o.name) = None
    <3>1. \A x \in ToSet(cache') : x.name # o.name
      BY <1>2, <1>3, <1>o, <1>n DEF OneForName
    <3> QED
      BY <2>1, <3>1, LoggerInFacts
  <2>4. ASSUME NEW f \in Names, f # key[p], f # o.name
        PROVE  LoggerIn(ToSet(cache'), f) = LoggerIn(ToSet(cache), f)
    <3>1. Named(ToSet(cache'), f) = Named(ToSet(cache), f)
      BY <1>2, <1>3, <2>4 DEF Named
    <3> QED
      BY <3>1 DEF LoggerIn
  <2> QED
    BY <1>n, <2>2, <2>3, <2>4, LiveIs
<1>7. AbsNameOf' = [AbsNameOf EXCEPT ![fresh[p]] = key[p]]
  <2>1. CachedLogs' \cup evicted' = (CachedLogs \cup evicted) \cup {fresh[p]}
    <3>1. CachedLogs = {x.log : x \in ToSet(cache)} /\ CachedLogs' = {x.log : x \in ToSet(cache')}
      BY DEF CachedLogs, ToSet
    <3>2. \A l : l \in CachedLogs' \cup evicted' => l \in (CachedLogs \cup evicted) \cup {fresh[p]}
      BY <1>2, <1>3, <3>1
    <3>3. \A l : l \in (CachedLogs \cup evicted) \cup {fresh[p]} => l \in CachedLogs' \cup evicted'
      BY <1>2, <1>3, <3>1
    <3> QED
      BY <3>2, <3>3
  <2>2. filename[fresh[p]] = key[p]
    BY <1>a DEF NamesInv
  <2> QED
    BY <1>1, <1>5, <2>1, <2>2 DEF AbsNameOf
<1>8. \A q \in Goroutines : q # p =>
        UNCHANGED <<pc[q], op[q], key[q], fresh[q], target[q], todo[q], owed[q], away[q]>>
  BY <1>a, OthersStay DEF Own
<1>9. op[p] = "new" /\ away[p] = {}
  BY <1>a DEF CallInv, AwayInv
<1>10. AbsWaitsFor' = AbsWaitsFor /\ AbsCovering' = AbsCovering /\ AbsThrough' = AbsThrough
  <2>1. \A q \in Goroutines : WaitsFor(q)' = WaitsFor(q) /\ Covering(q)' = Covering(q)
    BY <1>a, <1>5, <1>8, <1>9 DEF WaitsFor, Covering, TypeOK
  <2>2. pc'[p] = "begin"
    BY <1>a, <1>5 DEF TypeOK
  <2> QED
    BY <1>a, <2>1, <2>2, MyPassage DEF AbsWaitsFor, AbsCovering
<1>11. AbsOpening' = [AbsOpening EXCEPT ![p] = fresh[p]]
  <2>1. Opens(p)' = fresh[p]
    BY <1>a, <1>5, <1>9 DEF Opens, Flushing, TypeOK
  <2>2. \A q \in Goroutines : q # p => Opens(q)' = Opens(q)
    BY <1>8 DEF Opens, Flushing
  <2> QED
    BY <2>1, <2>2 DEF AbsOpening
<1>12. /\ Directory!Unfinished({AbsLive[o.name]}) = {m \in Msgs : st[m] \in Counted /\ to[m] = o.log}
       /\ Directory!Unfinished({AbsLive[o.name]} \ misused)
            = {m \in Msgs : st[m] \in Counted /\ to[m] = o.log /\ to[m] \notin misused}
  BY <1>a, <1>n, UnfinishedIs
<1>13. AbsOwed' = [d \in Goroutines |->
                     IF d = p THEN Directory!Unfinished({AbsLive[o.name]} \ misused)
                     ELSE AbsOwed[d] \ Directory!Unfinished({AbsLive[o.name]})]
  <2>1. Owes(p)' = Directory!Unfinished({AbsLive[o.name]} \ misused)
    <3>1. owed'[p] = {m \in Msgs : to[m] = o.log /\ st[m] \in Counted}
      BY <1>a, <1>3 DEF Pending, TypeOK
    <3>2. Flushing(p)' /\ away'[p] = {}
      BY <1>a, <1>5, <1>9 DEF Flushing, TypeOK
    <3> QED
      BY <1>5, <1>12, <3>1, <3>2 DEF Owes
  <2>2. ASSUME NEW d \in Goroutines, d # p
        PROVE  Owes(d)' = Owes(d) \ Directory!Unfinished({AbsLive[o.name]})
    <3>1. ~Flushing(d) /\ ~Flushing(d)' /\ Covering(d)' = Covering(d)
      BY <1>a, <1>8, <2>2 DEF MutexInv, Flushing, Covering
    <3>2. owed'[d] = owed[d] /\ away'[d] = away[d] /\ owed[d] \subseteq Msgs
      BY <1>a, <1>8, <2>2 DEF TypeOK
    <3> QED
      BY <1>3, <1>5, <1>12, <3>1, <3>2 DEF Owes
  <2> QED
    BY <2>1, <2>2 DEF AbsOwed
<1>14. Directory!Displace(p, key[p], fresh[p], o.name)
  BY <1>1, <1>4, <1>5, <1>6, <1>7, <1>10, <1>11, <1>13, <1>n, SameMessages DEF Directory!Displace
<1> QED
  BY <1>1, <1>14, <1>n

(* The end of the callback: NewLogger returns its logger.                   *)
LEMMA OpenedMaps ==
  ASSUME DirectoryInv, NEW p \in Goroutines, EvictClose(p)
  PROVE  Directory!Opened(p)
<1> USE CacheAssumption
<1>a. /\ TypeOK /\ CallInv /\ EvictionFlushes /\ StepOf(p) /\ pc[p] = "close" /\ Finish(p)
  BY DEF DirectoryInv, LoggersInv, StepOf, CallStep, EvictClose
<1>1. /\ UNCHANGED <<st, to, evicted, cache, filename, misused, waitStarted>>
      /\ returned' = returned \cup {fresh[p]}
  BY DEF EvictClose, pipeVars
<1>2. Flushing(p) /\ fresh[p] \in Loggers
  BY <1>a DEF CallInv, Flushing
<1>3. AbsOpening[p] = fresh[p] /\ fresh[p] # None
  BY <1>2 DEF AbsOpening, Opens
<1>4. Owes(p) = {}
  BY <1>a DEF EvictionFlushes, Owes, Counted
<1>i. pc'[p] = "idle"
  BY <1>a, TypeParts, FinishEffect
<1>5. Outside(p)'
  BY <1>i DEF Outside, Flushing, Covering
<1>6. WaitsFor(p) = None /\ Covering(p) = FALSE
  BY <1>a DEF WaitsFor, Covering
<1>7. WaitsFor(p)' = None /\ Opens(p)' = None /\ Owes(p)' = {} /\ Covering(p)' = FALSE
  BY <1>5, OutsideView DEF Covering
<1>8. /\ AbsWaitsFor' = [AbsWaitsFor EXCEPT ![p] = None]
      /\ AbsOpening' = [AbsOpening EXCEPT ![p] = None]
      /\ AbsCovering' = [AbsCovering EXCEPT ![p] = FALSE]
      /\ AbsOwed' = [AbsOwed EXCEPT ![p] = {}]
  BY <1>a, <1>1, <1>7, OnlyMine
<1>9. /\ AbsWaitsFor = [AbsWaitsFor EXCEPT ![p] = None]
      /\ AbsCovering = [AbsCovering EXCEPT ![p] = FALSE]
      /\ AbsOwed = [AbsOwed EXCEPT ![p] = {}]
  BY <1>4, <1>6, Unseen
<1>10. AbsLive' = AbsLive /\ AbsNameOf' = AbsNameOf
  BY <1>1, SameDirectory
<1>11. AbsOwed[p] = {}
  BY <1>4 DEF AbsOwed
<1>12. AbsThrough' = AbsThrough
  BY <1>a, <1>i, MyPassage
<1> QED
  BY <1>1, <1>3, <1>8, <1>9, <1>10, <1>11, <1>12, SameMessages DEF Directory!Opened

-----------------------------------------------------------------------------
(* Wait takes the keys: it covers the live loggers ...                      *)
LEMMA CoverBeginMaps ==
  ASSUME DirectoryInv, NEW p \in Goroutines, AllKeys(p)
  PROVE  Directory!CoverBegin(p)
<1>a. /\ TypeOK /\ CallInv /\ CacheInv /\ MessageInv /\ NoOrphans /\ NamesInv /\ AwayInv /\ WaitMutexInv
      /\ StepOf(p) /\ pc[p] = "keys"
  BY DEF DirectoryInv, LoggersInv, StepOf, LockStep, AllKeys
<1>1. /\ UNCHANGED <<st, to, evicted, cache, filename, returned, op, fresh, away, misused, waitStarted>>
      /\ owed' = [owed EXCEPT ![p] = {m \in Msgs : st[m] \in Counted}]
      /\ pc' = [pc EXCEPT ![p] = "next"]
  BY DEF AllKeys, Goto, pipeVars, cacheVars
<1>2. op[p] = "all" /\ away[p] = {}
  BY <1>a DEF CallInv, AwayInv
<1>3. \A d \in Goroutines : ~AbsCovering[d]
  <2>1. ASSUME NEW d \in Goroutines, Covering(d)
        PROVE  FALSE
    <3>1. wMutex = d /\ wMutex = p
      BY <1>a, <1>2, <2>1 DEF WaitMutexInv, Covering
    <3> QED
      BY <1>a, <2>1, <3>1 DEF Covering
  <2> QED
    BY <2>1 DEF AbsCovering
<1>4. WaitsFor(p) = None /\ Opens(p) = None
  BY <1>a DEF WaitsFor, Opens, Flushing
<1>5. WaitsFor(p)' = None /\ Opens(p)' = None /\ Covering(p)'
  BY <1>a, <1>1, <1>2 DEF WaitsFor, Opens, Flushing, Covering, TypeOK
<1>6. Directory!Unfinished(Directory!LiveLoggers \ misused)
        = {m \in Msgs : st[m] \in Counted /\ to[m] \in CachedLogs \ misused}
  BY <1>a, LiveLoggersAreCached, UnfinishedIs
<1>7. Owes(p)' = Directory!Unfinished(Directory!LiveLoggers \ misused)
  <2>1. owed'[p] = {m \in Msgs : st[m] \in Counted} /\ away'[p] = {}
    BY <1>a, <1>1, <1>2 DEF TypeOK
  <2>2. \A m \in Msgs : st[m] \in Counted => to[m] \in CachedLogs \cup evicted
    BY <1>a DEF MessageInv, NoOrphans, Counted
  <2>3. \A l \in CachedLogs : l \notin evicted
    BY <1>a, Entries DEF NamesInv
  <2>4. ~Flushing(p)'
    BY <1>1, <1>2 DEF Flushing
  <2> QED
    BY <1>1, <1>5, <1>6, <2>1, <2>2, <2>3, <2>4 DEF Owes
<1>8. /\ AbsWaitsFor' = [AbsWaitsFor EXCEPT ![p] = None]
      /\ AbsOpening' = [AbsOpening EXCEPT ![p] = None]
      /\ AbsCovering' = [AbsCovering EXCEPT ![p] = TRUE]
      /\ AbsOwed' = [AbsOwed EXCEPT ![p] = Directory!Unfinished(Directory!LiveLoggers \ misused)]
  <2>1. Covering(p)' = TRUE
    BY <1>5 DEF Covering
  <2> QED
    BY <1>a, <1>1, <1>5, <1>7, <2>1, OnlyMine
<1>9. /\ AbsWaitsFor = [AbsWaitsFor EXCEPT ![p] = None]
      /\ AbsOpening = [AbsOpening EXCEPT ![p] = None]
  BY <1>4, Unseen
<1>10. AbsLive' = AbsLive /\ AbsNameOf' = AbsNameOf
  BY <1>1, SameDirectory
<1>11. AbsOpening[p] = None
  BY <1>4 DEF AbsOpening
<1>12. AbsThrough' = AbsThrough
  <2>1. pc'[p] = "next"
    BY <1>a, <1>1 DEF TypeOK
  <2> QED
    BY <1>a, <2>1, MyPassage
<1> QED
  BY <1>1, <1>3, <1>8, <1>9, <1>10, <1>11, <1>12, SameMessages DEF Directory!CoverBegin

(* ... and returns when nothing of them is owed.                            *)
LEMMA CoverEndMaps ==
  ASSUME DirectoryInv, NEW p \in Goroutines, AllReturn(p)
  PROVE  Directory!CoverEnd(p)
<1>a. /\ TypeOK /\ CallInv /\ WaitCoversCache /\ StepOf(p)
      /\ pc[p] = "next" /\ todo[p] = <<>> /\ Finish(p)
  BY DEF DirectoryInv, LoggersInv, StepOf, CallStep, AllReturn
<1>1. UNCHANGED <<st, to, evicted, cache, filename, returned, misused, waitStarted>>
  BY DEF AllReturn, pipeVars, cacheVars
<1>2. Covering(p) /\ WaitsFor(p) = None /\ Opens(p) = None
  BY <1>a DEF CallInv, Covering, WaitsFor, Opens, Flushing
<1>3. Owes(p) = {}
  <2>1. \A m \in owed[p] : st[m] = "settled" \/ to[m] \in away[p] \cup evicted \cup misused
    BY <1>a DEF WaitCoversCache
  <2>2. ~Flushing(p)
    BY <1>a DEF Flushing
  <2> QED
    BY <2>1, <2>2 DEF Owes, Counted
<1>i. pc'[p] = "idle"
  BY <1>a, TypeParts, FinishEffect
<1>4. Outside(p)'
  BY <1>i DEF Outside, Flushing, Covering
<1>5. WaitsFor(p)' = None /\ Opens(p)' = None /\ Owes(p)' = {} /\ Covering(p)' = FALSE
  BY <1>4, OutsideView DEF Covering
<1>6. /\ AbsWaitsFor' = [AbsWaitsFor EXCEPT ![p] = None]
      /\ AbsOpening' = [AbsOpening EXCEPT ![p] = None]
      /\ AbsCovering' = [AbsCovering EXCEPT ![p] = FALSE]
      /\ AbsOwed' = [AbsOwed EXCEPT ![p] = {}]
  BY <1>a, <1>1, <1>5, OnlyMine
<1>7. /\ AbsWaitsFor = [AbsWaitsFor EXCEPT ![p] = None]
      /\ AbsOpening = [AbsOpening EXCEPT ![p] = None]
      /\ AbsOwed = [AbsOwed EXCEPT ![p] = {}]
  BY <1>2, <1>3, Unseen
<1>8. AbsLive' = AbsLive /\ AbsNameOf' = AbsNameOf
  BY <1>1, SameDirectory
<1>9. AbsCovering[p] /\ AbsOwed[p] = {}
  BY <1>2, <1>3 DEF AbsCovering, AbsOwed
<1>10. AbsThrough' = AbsThrough
  BY <1>a, <1>i, MyPassage
<1> QED
  BY <1>1, <1>6, <1>7, <1>8, <1>9, <1>10, SameMessages DEF Directory!CoverEnd

-----------------------------------------------------------------------------
(* l.Wait puts up waitStarted. *)
LEMMA WaitBeginMaps ==
  ASSUME DirectoryInv, NEW p \in Goroutines, WaitBegin(p)
  PROVE  \E l \in Loggers : Directory!WaitBegin(p, l)
<1>a. /\ TypeOK /\ CallInv /\ StepOf(p) /\ pc[p] = "begin"
  BY DEF DirectoryInv, LoggersInv, StepOf, CallStep, WaitBegin
<1>1. /\ UNCHANGED <<st, to, evicted, cache, filename, returned, op, fresh, target, owed, away, misused>>
      /\ pc' = [pc EXCEPT ![p] = "wait"] /\ ~waitStarted[target[p]]
      /\ waitStarted' = [waitStarted EXCEPT ![target[p]] = TRUE]
  BY DEF WaitBegin, Goto, cacheVars, callVars, waitVars
<1>2. target[p] \in Loggers
  BY <1>a DEF CallInv
<1>3. target[p] \notin AbsMuted /\ AbsMuted' = AbsMuted \cup {target[p]}
  BY <1>a, <1>1, <1>2 DEF AbsMuted, TypeOK
<1>4. pc'[p] = "wait"
  BY <1>a, <1>1 DEF TypeOK
<1>5. /\ Flushing(p)' = Flushing(p) /\ Covering(p)' = Covering(p)
  BY <1>a, <1>1, <1>4 DEF Flushing, Covering
<1>6. Opens(p)' = Opens(p) /\ Owes(p)' = Owes(p) /\ WaitsFor(p)' = target[p] /\ WaitsFor(p) = None
  BY <1>a, <1>1, <1>4, <1>5 DEF Opens, Owes, WaitsFor
<1>7. AbsWaitsFor' = [AbsWaitsFor EXCEPT ![p] = target[p]] /\ UNCHANGED <<AbsOpening, AbsCovering, AbsOwed>>
  BY <1>a, <1>1, <1>5, <1>6, OnlyMine, Unseen
<1>8. AbsLive' = AbsLive /\ AbsNameOf' = AbsNameOf
  BY <1>1, SameDirectory
<1>9. AbsWaitsFor[p] = None
  BY <1>6 DEF AbsWaitsFor
<1>10. AbsThrough' = AbsThrough
  BY <1>a, <1>4, MyPassage
<1>11. Directory!WaitBegin(p, target[p])
  BY <1>1, <1>3, <1>7, <1>8, <1>9, <1>10, SameMessages DEF Directory!WaitBegin
<1> QED
  BY <1>2, <1>11

(* logTasks.Wait() lets its caller through, or parks it unseen. *)
LEMMA PassMaps ==
  ASSUME DirectoryInv, NEW p \in Goroutines, WgWait(p) \/ WgReturn(p)
  PROVE  Directory!Pass(p) \/ UNCHANGED Directory!vars
<1> USE CacheAssumption
<1>a. /\ TypeOK /\ CallInv /\ StepOf(p) /\ pc[p] \in {"wait", "parked"} /\ target[p] \in Loggers
  BY DEF DirectoryInv, LoggersInv, StepOf, CallStep, WgWait, WgReturn, CallInv
<1>1. /\ UNCHANGED <<st, to, evicted, cache, filename, returned, op, fresh, target, owed, away, misused,
                     waitStarted>>
      /\ \/ pc' = [pc EXCEPT ![p] = "end"] /\ (Pending(target[p]) = {} \/ target[p] \in misused)
         \/ pc' = [pc EXCEPT ![p] = "parked"]
  BY DEF WgWait, WgReturn, LetThrough, Goto, cacheVars, callVars, pipeVars
<1>2. /\ \/ pc'[p] = "end" /\ (Pending(target[p]) = {} \/ target[p] \in misused)
         \/ pc'[p] = "parked"
  BY <1>a, <1>1 DEF TypeOK
<1>3. Flushing(p)' = Flushing(p) /\ Covering(p)' = Covering(p)
  BY <1>a, <1>1, <1>2 DEF Flushing, Covering
<1>4. WaitsFor(p)' = WaitsFor(p) /\ Opens(p)' = Opens(p) /\ Owes(p)' = Owes(p) /\ WaitsFor(p) = target[p]
  BY <1>a, <1>1, <1>2, <1>3 DEF WaitsFor, Opens, Owes
<1>5. UNCHANGED AbsCalls
  BY <1>a, <1>1, <1>3, <1>4, OnlyMine, Unseen DEF AbsCalls
<1>6. AbsLive' = AbsLive /\ AbsNameOf' = AbsNameOf
  BY <1>1, SameDirectory
<1>7. CASE pc'[p] = "parked"
  BY <1>a, <1>1, <1>5, <1>6, <1>7, MyPassage, Stutters
<1>8. CASE pc'[p] = "end"
  <2>1. AbsThrough' = AbsThrough \cup {p}
    BY <1>a, <1>8, MyPassage
  <2>2. AbsWaitsFor[p] = target[p] /\ AbsWaitsFor[p] # None
    BY <1>a, <1>4 DEF AbsWaitsFor
  <2>3. Directory!Unfinished({AbsWaitsFor[p]} \ misused) = {}
    BY <1>a, <1>2, <1>8, <2>2, UnfinishedIs DEF Pending
  <2> QED
    BY <1>1, <1>5, <1>6, <2>1, <2>2, <2>3, SameMessages DEF Directory!Pass, AbsCalls
<1> QED
  BY <1>2, <1>7, <1>8

(* The end of l.Wait for one that was let through. *)
LEMMA WaitEndMaps ==
  ASSUME DirectoryInv, NEW p \in Goroutines, WaitEnd(p)
  PROVE  Directory!WaitEnd(p)
<1> USE CacheAssumption
<1>a. /\ TypeOK /\ CallInv /\ StepOf(p) /\ pc[p] = "end" /\ op[p] # "none" /\ target[p] \in Loggers
  BY DEF DirectoryInv, LoggersInv, StepOf, CallStep, WaitEnd, CallInv
<1>1. UNCHANGED <<st, to, evicted, cache, filename, returned, misused>> /\ Continue(p, {})
      /\ waitStarted' = [waitStarted EXCEPT ![target[p]] = FALSE]
  BY DEF WaitEnd, cacheVars
<1>2. WaitsFor(p) = target[p] /\ target[p] # None
  BY <1>a DEF WaitsFor
<1>3. AbsMuted' = AbsMuted \ {target[p]}
  BY <1>a, <1>1 DEF AbsMuted, TypeOK
<1>4. /\ WaitsFor(p)' = None /\ Opens(p)' = Opens(p) /\ Covering(p)' = Covering(p) /\ Owes(p)' = Owes(p)
      /\ pc'[p] # "end"
  <2>1. CASE op[p] = "one"
    <3>1. Finish(p)
      BY <1>1, <2>1 DEF Continue
    <3>2. pc'[p] = "idle"
      BY <1>a, <3>1, TypeParts, FinishEffect
    <3> QED
      BY <2>1, <3>2 DEF WaitsFor, Opens, Covering, Owes, Flushing
  <2>2. CASE op[p] # "one"
    <3>1. /\ pc' = [pc EXCEPT ![p] = IF op[p] = "all" THEN "next" ELSE "close"]
          /\ away' = [away EXCEPT ![p] = @ \cup {}]
          /\ UNCHANGED <<op, fresh, owed>>
      BY <1>1, <2>2 DEF Continue, Finish, Goto, callVars
    <3>2. op[p] \in {"new", "all"} /\ away'[p] = away[p]
      BY <1>a, <2>2, <3>1 DEF TypeOK
    <3>3. pc'[p] = IF op[p] = "all" THEN "next" ELSE "close"
      BY <1>a, <3>1 DEF TypeOK
    <3>4. Flushing(p)' = Flushing(p) /\ Covering(p)' = Covering(p)
      BY <1>a, <3>1, <3>2, <3>3 DEF Flushing, Covering
    <3> QED
      BY <1>1, <3>1, <3>2, <3>3, <3>4 DEF WaitsFor, Opens, Owes
  <2> QED
    BY <2>1, <2>2
<1>5. AbsWaitsFor' = [AbsWaitsFor EXCEPT ![p] = None] /\ UNCHANGED <<AbsOpening, AbsCovering, AbsOwed>>
  BY <1>a, <1>1, <1>4, OnlyMine, Unseen
<1>6. AbsLive' = AbsLive /\ AbsNameOf' = AbsNameOf
  BY <1>1, SameDirectory
<1>7. AbsWaitsFor[p] = target[p] /\ p \in AbsThrough
  BY <1>a, <1>2 DEF AbsWaitsFor, AbsThrough
<1>8. AbsThrough' = AbsThrough \ {p}
  BY <1>a, <1>4, MyPassage
<1> QED
  BY <1>1, <1>2, <1>3, <1>5, <1>6, <1>7, <1>8, SameMessages DEF Directory!WaitEnd

(* A panic of logTasks.Wait() ends the call around it. *)
LEMMA AbandonMaps ==
  ASSUME DirectoryInv, NEW p \in Goroutines, WaitPanics(p)
  PROVE  Directory!Abandon(p)
<1>a. /\ TypeOK /\ CallInv /\ StepOf(p) /\ pc[p] = "parked" /\ target[p] \in misused /\ Finish(p)
  BY DEF DirectoryInv, LoggersInv, StepOf, CallStep, WaitPanics
<1>1. UNCHANGED <<st, to, evicted, cache, filename, returned, misused, waitStarted>>
  BY DEF WaitPanics, cacheVars, pipeVars
<1>2. pc'[p] = "idle"
  BY <1>a, TypeParts, FinishEffect
<1>3. WaitsFor(p)' = None /\ Opens(p)' = None /\ Owes(p)' = {} /\ Covering(p)' = FALSE
  <2>1. Outside(p)'
    BY <1>2 DEF Outside, Flushing, Covering
  <2> QED
    BY <2>1, OutsideView DEF Covering
<1>4. /\ AbsWaitsFor' = [AbsWaitsFor EXCEPT ![p] = None]
      /\ AbsOpening' = [AbsOpening EXCEPT ![p] = None]
      /\ AbsCovering' = [AbsCovering EXCEPT ![p] = FALSE]
      /\ AbsOwed' = [AbsOwed EXCEPT ![p] = {}]
  BY <1>a, <1>1, <1>3, OnlyMine
<1>5. AbsLive' = AbsLive /\ AbsNameOf' = AbsNameOf
  BY <1>1, SameDirectory
<1>6. AbsWaitsFor[p] \in misused /\ p \notin AbsThrough
  BY <1>a DEF AbsWaitsFor, WaitsFor, AbsThrough
<1>7. AbsThrough' = AbsThrough
  BY <1>a, <1>2, MyPassage
<1> QED
  BY <1>1, <1>4, <1>5, <1>6, <1>7, SameMessages DEF Directory!Abandon

(* l.Wait turns a call away: another one waits for the logger.              *)
LEMMA LapseMaps ==
  ASSUME DirectoryInv, NEW p \in Goroutines, WaitTurnedAway(p)
  PROVE  (\E l \in Loggers : Directory!Lapse(p, l)) \/ UNCHANGED Directory!vars
<1> USE CacheAssumption
<1>a. /\ TypeOK /\ CallInv /\ StartedInv /\ StepOf(p) /\ pc[p] = "begin" /\ op[p] # "none"
      /\ target[p] \in Loggers /\ waitStarted[target[p]]
  BY DEF DirectoryInv, LoggersInv, StepOf, CallStep, WaitTurnedAway, CallInv
<1>1. UNCHANGED <<st, to, evicted, cache, filename, returned, misused, waitStarted>> /\ Continue(p, {target[p]})
  BY DEF WaitTurnedAway, cacheVars, pipeVars
<1>2. AbsLive' = AbsLive /\ AbsNameOf' = AbsNameOf
  BY <1>1, SameDirectory
<1>3. CASE op[p] = "one"
  <2>1. Finish(p)
    BY <1>1, <1>3 DEF Continue
  <2>2. pc'[p] = "idle"
    BY <1>a, <2>1, TypeParts, FinishEffect
  <2>3. Outside(p) /\ Outside(p)'
    BY <1>a, <1>3, <2>2 DEF Outside, Flushing, Covering
  <2>4. UNCHANGED AbsCalls /\ AbsThrough' = AbsThrough
    BY <1>a, <1>1, <2>3, AllUnseen
  <2> QED
    BY <1>1, <1>2, <2>4, Stutters
<1>4. CASE op[p] # "one"
  <2>1. /\ pc' = [pc EXCEPT ![p] = IF op[p] = "all" THEN "next" ELSE "close"]
        /\ away' = [away EXCEPT ![p] = @ \cup {target[p]}]
        /\ UNCHANGED <<op, fresh, owed>>
    BY <1>1, <1>4 DEF Continue, Finish, Goto, callVars
  <2>2. op[p] \in {"new", "all"} /\ away'[p] = away[p] \cup {target[p]} /\ owed[p] \subseteq Msgs
    BY <1>a, <1>4, <2>1 DEF TypeOK
  <2>3. pc'[p] = IF op[p] = "all" THEN "next" ELSE "close"
    BY <1>a, <2>1 DEF TypeOK
  <2>4. Flushing(p)' = Flushing(p) /\ Covering(p)' = Covering(p)
    BY <1>a, <2>1, <2>2, <2>3 DEF Flushing, Covering
  <2>5. WaitsFor(p)' = WaitsFor(p) /\ Opens(p)' = Opens(p)
    BY <1>a, <2>1, <2>3, <2>4 DEF WaitsFor, Opens
  <2>6. Owes(p)' = Owes(p) \ Directory!Unfinished({target[p]})
    BY <1>a, <1>1, <2>1, <2>2, <2>4, UnfinishedIs DEF Owes, Pending
  <2>7. /\ AbsOwed' = [AbsOwed EXCEPT ![p] = @ \ Directory!Unfinished({target[p]})]
        /\ UNCHANGED <<AbsWaitsFor, AbsOpening, AbsCovering>>
    <3>1. AbsOwed[p] = Owes(p)
      BY DEF AbsOwed
    <3>2. UNCHANGED <<AbsWaitsFor, AbsOpening, AbsCovering>>
      BY <1>a, <1>1, <2>4, <2>5, OnlyMine, Unseen
    <3>3. AbsOwed' = [AbsOwed EXCEPT ![p] = Owes(p)']
      BY <1>a, <1>1, OnlyMine
    <3>4. AbsOwed' = [AbsOwed EXCEPT ![p] = AbsOwed[p] \ Directory!Unfinished({target[p]})]
      BY ONLY <2>6, <3>1, <3>3
    <3> QED
      BY ONLY <3>2, <3>4
  <2>8. target[p] \in misused \/ \E d \in Goroutines \ {p} : AbsWaitsFor[d] = target[p]
    <3>1. CASE \E d \in Goroutines : InWait(d) /\ target[d] = target[p]
      BY <1>a, <3>1 DEF AbsWaitsFor, WaitsFor
    <3> QED
      BY <1>a, <3>1 DEF StartedInv
  <2>9. AbsThrough' = AbsThrough
    BY <1>a, <2>3, MyPassage
  <2>10. Directory!Lapse(p, target[p])
    BY <1>1, <1>2, <2>7, <2>8, <2>9, SameMessages DEF Directory!Lapse
  <2> QED
    BY <1>a, <2>10
<1> QED
  BY <1>3, <1>4

-----------------------------------------------------------------------------
(* The steps of print and of the consumer: the calls see nothing of them    *)
(* but that messages are finished.                                          *)
LEMMA SameCalls ==
  ASSUME UNCHANGED <<pc, callVars, cacheVars, waitVars>>
  PROVE  /\ UNCHANGED <<AbsLive, AbsNameOf, returned, AbsWaitsFor, AbsThrough, AbsOpening, AbsCovering>>
         /\ \A p \in Goroutines : Flushing(p)' = Flushing(p) /\ Covering(p)' = Covering(p)
<1>1. UNCHANGED <<pc, op, fresh, target, evicted, cache, filename, returned>>
  BY DEF callVars, cacheVars
<1>2. AbsLive' = AbsLive /\ AbsNameOf' = AbsNameOf
  BY <1>1, SameDirectory
<1>3. UNCHANGED <<AbsWaitsFor, AbsThrough, AbsOpening, AbsCovering>>
  BY <1>1 DEF AbsWaitsFor, AbsThrough, AbsOpening, AbsCovering, WaitsFor, Opens, Covering, Flushing
<1>4. \A p \in Goroutines : Flushing(p)' = Flushing(p) /\ Covering(p)' = Covering(p)
  BY <1>1 DEF Flushing, Covering
<1> QED
  BY <1>1, <1>2, <1>3, <1>4

(* What no call was waiting for, and stays so. *)
LEMMA SameOwed ==
  ASSUME UNCHANGED <<pc, callVars, cacheVars, waitVars>>,
         \A p \in Goroutines : \A x \in owed[p] :
           /\ st'[x] \in Counted <=> st[x] \in Counted
           /\ to'[x] = to[x]
           /\ st[x] \in Counted => (to[x] \in misused' <=> to[x] \in misused)
  PROVE  AbsOwed' = AbsOwed
<1>1. UNCHANGED <<evicted, owed, away>>
  BY DEF cacheVars, waitVars
<1>2. \A p \in Goroutines : Flushing(p)' = Flushing(p) /\ Covering(p)' = Covering(p)
  BY SameCalls
<1>3. ASSUME NEW p \in Goroutines
      PROVE  Owes(p)' = Owes(p)
  BY <1>1, <1>2 DEF Owes
<1> QED
  BY <1>3 DEF AbsOwed

LEMMA PrintMaps ==
  ASSUME DirectoryInv, NEW l \in Loggers, NEW m \in Msgs, PrintCall(l, m)
  PROVE  Directory!PrintTo(m, l)
<1>a. TypeOK /\ OwedInv
  BY DEF DirectoryInv, LoggersInv
<1>1. /\ UNCHANGED <<pc, callVars, cacheVars, waitVars, misused, waitStarted, owed>>
      /\ l \in returned /\ st[m] = "new"
      /\ to' = [to EXCEPT ![m] = l]
      /\ st' = [st EXCEPT ![m] = IF waitStarted[l] THEN "settled" ELSE "called"]
  BY DEF PrintCall, waitVars
<1>2. AbsOwed' = AbsOwed
  <2>1. ASSUME NEW p \in Goroutines, NEW x \in owed[p]
        PROVE  st'[x] = st[x] /\ to'[x] = to[x]
    <3>1. x \in Msgs /\ st[x] \in Counted \cup {"settled"}
      BY <1>a DEF OwedInv, TypeOK
    <3>2. x # m
      BY <1>1, <3>1 DEF Counted
    <3> QED
      BY <1>a, <1>1, <3>1, <3>2 DEF TypeOK
  <2> QED
    BY <1>1, <2>1, SameOwed
<1>3. AbsState[m] = "new"
  BY <1>1 DEF AbsState, Counted
<1>4. AbsState' = [AbsState EXCEPT ![m] = IF l \in AbsMuted THEN "settled" ELSE "admitted"]
  <2>1. \A x \in Msgs : st'[x] = IF x = m THEN IF waitStarted[l] THEN "settled" ELSE "called" ELSE st[x]
    BY <1>a, <1>1 DEF TypeOK
  <2>2. l \in AbsMuted <=> waitStarted[l]
    BY DEF AbsMuted
  <2> QED
    BY <2>1, <2>2 DEF AbsState, Counted
<1> QED
  BY <1>1, <1>2, <1>3, <1>4, SameCalls, SameMessages DEF Directory!PrintTo, Directory!callers

(* logTasks.Add(1): perhaps after a waiter found nothing unfinished. *)
LEMMA EnterMaps ==
  ASSUME DirectoryInv, NEW m \in Msgs, PrintAdd(m)
  PROVE  Directory!Enter(m)
<1>a. TypeOK /\ OwedInv
  BY DEF DirectoryInv, LoggersInv
<1>1. /\ UNCHANGED <<pc, callVars, cacheVars, waitVars, to, waitStarted, owed>>
      /\ st[m] = "called"
      /\ st' = [st EXCEPT ![m] = "added"]
      /\ \/ misused' = misused
         \/ /\ misused' = misused \cup {to[m]}
            /\ Pending(to[m]) = {} /\ Parked(to[m]) # {}
  BY DEF PrintAdd, Becomes, waitVars
<1>2. AbsOwed' = AbsOwed
  <2>1. ASSUME NEW p \in Goroutines, NEW x \in owed[p]
        PROVE  st'[x] = st[x] /\ (st[x] \in Counted => (to[x] \in misused' <=> to[x] \in misused))
    <3>1. x \in Msgs /\ st[x] \in Counted \cup {"settled"}
      BY <1>a DEF OwedInv, TypeOK
    <3>2. x # m
      BY <1>1, <3>1 DEF Counted
    <3>3. st'[x] = st[x]
      BY <1>a, <1>1, <3>1, <3>2 DEF TypeOK
    <3>4. st[x] \in Counted => x \in Pending(to[x])
      BY <3>1 DEF Pending
    <3> QED
      BY <1>1, <3>3, <3>4
  <2> QED
    BY <1>1, <2>1, SameOwed
<1>3. AbsState[m] = "admitted"
  BY <1>1 DEF AbsState, Counted
<1>4. AbsState' = [AbsState EXCEPT ![m] = "pending"]
  <2>1. \A x \in Msgs : st'[x] = IF x = m THEN "added" ELSE st[x]
    BY <1>a, <1>1 DEF TypeOK
  <2> QED
    BY <2>1 DEF AbsState, Counted
<1>5. \/ misused' = misused
      \/ /\ Directory!Unfinished({to[m]}) = {}
         /\ \E c \in Goroutines \ AbsThrough : AbsWaitsFor[c] = to[m]
         /\ misused' = misused \cup {to[m]}
  <2>1. ASSUME Parked(to[m]) # {}
        PROVE  \E c \in Goroutines \ AbsThrough : AbsWaitsFor[c] = to[m]
    BY <2>1 DEF Parked, AbsThrough, AbsWaitsFor, WaitsFor
  <2> QED
    BY <1>a, <1>1, <2>1, UnfinishedIs
<1> QED
  BY <1>1, <1>2, <1>3, <1>4, <1>5, SameCalls, SameMessages DEF Directory!Enter, Directory!callers

(* Done, of print or of the consumer. *)
LEMMA SettleMaps ==
  ASSUME DirectoryInv, NEW m \in Msgs, st[m] \in Counted, Becomes(m, "settled"),
         UNCHANGED <<pc, callVars, cacheVars, waitVars, to, waitStarted, misused>>
  PROVE  Directory!Settle(m)
<1>a. TypeOK
  BY DEF DirectoryInv, LoggersInv
<1>1. UNCHANGED <<evicted, owed, away>> /\ \A x \in Msgs : st'[x] = IF x = m THEN "settled" ELSE st[x]
  BY <1>a DEF Becomes, TypeOK, cacheVars, waitVars
<1>2. AbsOwed' = [c \in Goroutines |-> AbsOwed[c] \ {m}]
  <2>1. ASSUME NEW c \in Goroutines
        PROVE  Owes(c)' = Owes(c) \ {m}
    <3>1. \A x \in owed[c] : x \in Msgs
      BY <1>a DEF TypeOK
    <3>2. Flushing(c)' = Flushing(c) /\ Covering(c)' = Covering(c)
      BY SameCalls
    <3> QED
      BY <1>1, <3>1, <3>2 DEF Owes, Counted
  <2> QED
    BY <2>1 DEF AbsOwed
<1>3. AbsState[m] = "pending" /\ AbsState' = [AbsState EXCEPT ![m] = "settled"]
  BY <1>1 DEF AbsState, Counted
<1> QED
  BY <1>2, <1>3, SameCalls, SameMessages DEF Directory!Settle

(* A step by which no message begins or ceases to be unfinished. *)
LEMMA UnseenMessage ==
  ASSUME DirectoryInv, UNCHANGED <<pc, callVars, cacheVars, waitVars, to, waitStarted, misused>>,
         \A x \in Msgs : st'[x] = st[x] \/ (st[x] \in Counted /\ st'[x] \in Counted)
  PROVE  UNCHANGED Directory!vars
<1>a. TypeOK
  BY DEF DirectoryInv, LoggersInv
<1>1. AbsOwed' = AbsOwed
  <2>1. \A p \in Goroutines : \A x \in owed[p] : st'[x] \in Counted <=> st[x] \in Counted
    BY <1>a DEF TypeOK
  <2> QED
    BY <2>1, SameOwed
<1>2. AbsState' = AbsState
  BY DEF AbsState
<1> QED
  BY <1>1, <1>2, SameCalls, SameMessages DEF Directory!vars, Directory!callers

LEMMA PrintStepMaps ==
  ASSUME DirectoryInv, NEW m \in Msgs, PrintStep(m)
  PROVE  Directory!Enter(m) \/ Directory!Settle(m) \/ UNCHANGED Directory!vars
<1>a. TypeOK
  BY DEF DirectoryInv, LoggersInv
<1>1. CASE PrintAdd(m)
  BY <1>1, EnterMaps
<1>2. CASE PrintDone(m)
  <2>1. st[m] \in Counted /\ Becomes(m, "settled")
    BY <1>2 DEF PrintDone, Counted
  <2>2. UNCHANGED <<pc, callVars, cacheVars, waitVars, to, waitStarted, misused>>
    BY <1>2 DEF PrintDone
  <2> QED
    BY <2>1, <2>2, SettleMaps
<1>3. CASE PrintPanics(m) \/ PrintSend(m) \/ PrintDrop(m)
  <2>1. UNCHANGED <<pc, callVars, cacheVars, waitVars, to, waitStarted, misused>>
    BY <1>3 DEF PrintPanics, PrintSend, PrintDrop, chanVars
  <2>2. st[m] = "added" /\ \E s \in {"panicked", "sent", "dropped"} : st' = [st EXCEPT ![m] = s]
    BY <1>3 DEF PrintPanics, PrintSend, PrintDrop, Becomes
  <2>3. \A x \in Msgs : st'[x] = st[x] \/ (st[x] \in Counted /\ st'[x] \in Counted)
    BY <1>a, <2>2 DEF Counted, TypeOK
  <2> QED
    BY <2>1, <2>3, UnseenMessage
<1> QED
  BY <1>1, <1>2, <1>3 DEF PrintStep

LEMMA ConsumerMaps ==
  ASSUME DirectoryInv, Consumer
  PROVE  (\E m \in Msgs : Directory!Settle(m)) \/ UNCHANGED Directory!vars
<1>a. TypeOK /\ MessageInv
  BY DEF DirectoryInv, LoggersInv
<1>1. UNCHANGED <<pc, callVars, cacheVars, waitVars, to, waitStarted, misused>>
  BY DEF Consumer, Receive, Settle, ConsumerEnds
<1>2. CASE st' = st
  BY <1>1, <1>2, UnseenMessage
<1>3. CASE Settle
  <2>1. hand \in Msgs /\ st[hand] \in {"sent", "settled"} /\ Becomes(hand, "settled")
    BY <1>a, <1>3 DEF Settle, MessageInv, TypeOK
  <2>2. CASE st[hand] = "sent"
    BY <1>1, <2>1, <2>2, SettleMaps DEF Counted
  <2>3. CASE st[hand] = "settled"
    BY <1>a, <1>2, <2>1, <2>3 DEF Becomes, TypeOK
  <2> QED
    BY <2>1, <2>2, <2>3
<1> QED
  BY <1>2, <1>3 DEF Consumer, Receive, ConsumerEnds

-----------------------------------------------------------------------------
LEMMA DirectoryInitMaps == Init => Directory!Init
<1> SUFFICES ASSUME Init
             PROVE  Directory!Init
  OBVIOUS
<1>1. \A f : CachedAs(f) = {}
  BY DEF Init, CachedAs, ToSet
<1>2. CachedLogs \cup evicted = {}
  BY DEF Init, CachedLogs, ToSet
<1>3. AbsLive = [f \in Names |-> None] /\ AbsNameOf = [l \in Loggers |-> None]
  BY <1>1, <1>2 DEF AbsLive, AbsNameOf
<1>4. \A p \in Goroutines : Outside(p)
  BY DEF Init, Outside, Flushing, Covering
<1>5. \A p \in Goroutines : WaitsFor(p) = None /\ Opens(p) = None /\ Covering(p) = FALSE /\ Owes(p) = {}
  BY <1>4, OutsideView DEF Covering
<1>6. /\ AbsWaitsFor = [p \in Goroutines |-> None] /\ AbsOpening = [p \in Goroutines |-> None]
      /\ AbsCovering = [p \in Goroutines |-> FALSE] /\ AbsOwed = [p \in Goroutines |-> {}]
  BY <1>5 DEF AbsWaitsFor, AbsOpening, AbsCovering, AbsOwed
<1>7. AbsThrough = {} /\ AbsMuted = {}
  BY DEF Init, AbsThrough, AbsMuted
<1>8. AbsState = [m \in Msgs |-> "new"]
  BY DEF Init, AbsState, Counted
<1> QED
  BY <1>3, <1>6, <1>7, <1>8 DEF Init, Directory!Init

LEMMA DirectoryNextMaps == DirectoryInv /\ [Next]_vars => [Directory!Next]_(Directory!vars)
<1> SUFFICES ASSUME DirectoryInv, [Next]_vars
             PROVE  Directory!Next \/ UNCHANGED Directory!vars
  OBVIOUS
<1>1. ASSUME NEW p \in Goroutines, LockStep(p)
      PROVE  Directory!Next \/ UNCHANGED Directory!vars
  BY <1>1, QuietMaps, GiveMaps, MakeMaps, DisplaceMaps, CoverBeginMaps DEF LockStep, Directory!Next
<1>2. ASSUME NEW p \in Goroutines, CallStep(p)
      PROVE  Directory!Next \/ UNCHANGED Directory!vars
  BY <1>2, OpenedMaps, CoverEndMaps, LapseMaps, WaitBeginMaps, PassMaps, WaitEndMaps, AbandonMaps
     DEF CallStep, Directory!Next
<1>3. ASSUME NEW p \in Goroutines, Calls(p)
      PROVE  Directory!Next \/ UNCHANGED Directory!vars
  BY <1>3, QuietMaps, GiveMaps DEF Calls, Directory!Next
<1>4. ASSUME NEW l \in Loggers, NEW m \in Msgs, PrintCall(l, m)
      PROVE  Directory!Next
  BY <1>4, PrintMaps DEF Directory!Next
<1>5. ASSUME NEW m \in Msgs, PrintStep(m)
      PROVE  Directory!Next \/ UNCHANGED Directory!vars
  BY <1>5, PrintStepMaps DEF Directory!Next
<1>6. ASSUME Consumer
      PROVE  Directory!Next \/ UNCHANGED Directory!vars
  BY <1>6, ConsumerMaps DEF Directory!Next
<1>7. ASSUME UNCHANGED vars
      PROVE  UNCHANGED Directory!vars
  <2>1. UNCHANGED <<pc, callVars, cacheVars, waitVars, to, waitStarted, misused, st>>
    BY <1>7 DEF vars, pipeVars
  <2> QED
    BY <2>1, UnseenMessage
<1> QED
  BY <1>1, <1>2, <1>3, <1>4, <1>5, <1>6, <1>7 DEF Next

(* NewLogger with its two looks, its insertion and the eviction callback,   *)
(* the package function Wait over a snapshot of the keys, and l.Wait behave *)
(* as the atomic steps of the directory: one live logger for a name, given  *)
(* to everybody who asks, displaced for ever and only when the cache is     *)
(* full, and callers answered when what they are owed is finished.          *)
THEOREM CacheImplementsDirectory == Spec => ImplementsDirectory
BY DirectoryInitMaps, DirectoryNextMaps, DirectoryInvariantHolds, PTL
   DEF Spec, ImplementsDirectory, Directory!Spec
=============================================================================
