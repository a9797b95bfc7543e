---------------------------- MODULE LimitedPrint ----------------------------
(***************************************************************************)
(* LimitedPrintf of logger.go: a message with a printid is let through     *)
(* once per duration.  The time of the last one is kept in l.limitedPrint, *)
(* a least-recently-used cache whose entries expire.                       *)
(*                                                                         *)
(* Nothing is held between the Get, the comparison, time.Now and the Add,  *)
(* so calls interleave between them.  Every call is made by a goroutine of *)
(* its own, which is the worst case; call c uses the id and the duration   *)
(* that Get picks for it.                                                  *)
(***************************************************************************)
EXTENDS Integers, Sequences, FiniteSets, SequencesExt

CONSTANTS
  Calls,      (* one element for each call of LimitedPrintf                *)
  Ids,        (* values of printid                                         *)
  Durations,  (* durations the callers ask for                             *)
  Cap,        (* capacity of l.limitedPrint (1000 in the code)             *)
  Expire,     (* lifetime of an entry of it (24 hours in the code)         *)
  MaxTime,    (* bounds the clock                                          *)
  None

ASSUME LimitedPrintAssumption ==
  /\ Cap \in Nat \ {0} /\ Expire \in Nat \ {0} /\ MaxTime \in Nat
  /\ Durations \subseteq Nat
  /\ None \notin Calls \cup Ids \cup Nat

VARIABLES
  now,          (* the clock                                               *)
  limitedPrint, (* entries [id, time, by, until], least recent first       *)
  pc,           (* next step of a call                                     *)
  id, duration, (* its arguments                                           *)
  old,          (* the time Get found, None when it found nothing          *)
  stamp,        (* the time it stored or is about to store                 *)
  began, tested, (* history: when it looked, and when it compared          *)
  before,       (* history: the calls of its id stored before it looked    *)
  stored,       (* history: the calls in the order of their Add            *)
  forgotten     (* history: calls whose entry was evicted or has expired   *)

callVars == <<pc, id, duration, old, stamp>>
histVars == <<began, tested, before, stored, forgotten>>
vars == <<now, limitedPrint, callVars, histVars>>

Init ==
  /\ now = 0
  /\ limitedPrint = <<>>
  /\ pc = [c \in Calls |-> "new"]
  /\ id = [c \in Calls |-> None]
  /\ duration = [c \in Calls |-> 0]
  /\ old = [c \in Calls |-> None]
  /\ stamp = [c \in Calls |-> None]
  /\ began = [c \in Calls |-> None]
  /\ tested = [c \in Calls |-> None]
  /\ before = [c \in Calls |-> {}]
  /\ stored = <<>>
  /\ forgotten = {}

(* The cache finds an entry by its key, and moves or removes that one.      *)
Places(i) == {k \in DOMAIN limitedPrint : limitedPrint[k].id = i}
Without(i) == IF Places(i) = {} THEN limitedPrint
              ELSE RemoveAt(limitedPrint, CHOOSE k \in Places(i) : TRUE)
EntriesOf(i) == {e \in ToSet(limitedPrint) : e.id = i}
Alive(e) == now < e.until

-----------------------------------------------------------------------------
(* lru.Cache.Get: a live entry becomes the most recent one, a dead one is   *)
(* removed.                                                                 *)
Get(c, i, d) ==
  /\ pc[c] = "new"
  /\ id' = [id EXCEPT ![c] = i]
  /\ duration' = [duration EXCEPT ![c] = d]
  /\ began' = [began EXCEPT ![c] = now]
  /\ before' = [before EXCEPT ![c] = {b \in ToSet(stored) : id[b] = i}]
  /\ \/ \E e \in EntriesOf(i) :
          /\ Alive(e)
          /\ limitedPrint' = Append(Without(i), e)
          /\ old' = [old EXCEPT ![c] = e.time]
          /\ pc' = [pc EXCEPT ![c] = "compare"]
          /\ UNCHANGED forgotten
     \/ /\ \A e \in EntriesOf(i) : ~Alive(e)
        /\ limitedPrint' = Without(i)
        /\ forgotten' = forgotten \cup {e.by : e \in EntriesOf(i)}
        /\ pc' = [pc EXCEPT ![c] = "now"]
        /\ UNCHANGED old
  /\ UNCHANGED <<now, stamp, tested, stored>>

(* Mutant of Compare: the comparison is the wrong way round. *)
CompareSwapped(c) ==
  /\ pc[c] = "compare"
  /\ tested' = [tested EXCEPT ![c] = now]
  /\ pc' = [pc EXCEPT ![c] = IF now - old[c] > duration[c] THEN "skipped" ELSE "now"]
  /\ UNCHANGED <<now, limitedPrint, id, duration, old, stamp,
                 began, before, stored, forgotten>>

(* time.Since(oldV) < duration *)
Compare(c) ==
  /\ pc[c] = "compare"
  /\ tested' = [tested EXCEPT ![c] = now]
  /\ pc' = [pc EXCEPT ![c] = IF now - old[c] < duration[c] THEN "skipped" ELSE "now"]
  /\ UNCHANGED <<now, limitedPrint, id, duration, old, stamp,
                 began, before, stored, forgotten>>

(* The argument time.Now() of Add. *)
TakeTime(c) ==
  /\ pc[c] = "now"
  /\ stamp' = [stamp EXCEPT ![c] = now]
  /\ pc' = [pc EXCEPT ![c] = "add"]
  /\ UNCHANGED <<now, limitedPrint, id, duration, old, histVars>>

(* Mutant of Store: the time is only stored for an id that had none. *)
StoreFirstOnly(c) ==
  LET entry == [id |-> id[c], time |-> stamp[c], by |-> c, until |-> now + Expire]
      entries == Append(Without(id[c]), entry)
      full == old[c] = None /\ Len(entries) > Cap
  IN  /\ pc[c] = "add"
      /\ limitedPrint' = IF old[c] # None THEN limitedPrint
                         ELSE IF full THEN Tail(entries) ELSE entries
      /\ forgotten' = IF full THEN forgotten \cup {Head(entries).by} ELSE forgotten
      /\ stored' = Append(stored, c)
      /\ pc' = [pc EXCEPT ![c] = "print"]
      /\ UNCHANGED <<now, id, duration, old, stamp, began, tested,
                     before>>

(* lru.Cache.Add: the time is recorded before anything is printed; when the *)
(* cache is full the least recent entry goes.                               *)
Store(c) ==
  LET entry == [id |-> id[c], time |-> stamp[c], by |-> c, until |-> now + Expire]
      entries == Append(Without(id[c]), entry)
      full == Len(entries) > Cap
  IN  /\ pc[c] = "add"
      /\ limitedPrint' = IF full THEN Tail(entries) ELSE entries
      /\ forgotten' = IF full THEN forgotten \cup {Head(entries).by} ELSE forgotten
      /\ stored' = Append(stored, c)
      /\ pc' = [pc EXCEPT ![c] = "print"]
      /\ UNCHANGED <<now, id, duration, old, stamp, began, tested,
                     before>>

(* l.printf: turned away while somebody waits for the logger, dropped when  *)
(* the channel is full (see LogPipeline), and otherwise shown.              *)
Printf(c) ==
  /\ pc[c] = "print"
  /\ \E outcome \in {"shown", "lost"} : pc' = [pc EXCEPT ![c] = outcome]
  /\ UNCHANGED <<now, limitedPrint, id, duration, old, stamp, histVars>>

Tick ==
  /\ now < MaxTime
  /\ now' = now + 1
  /\ UNCHANGED <<limitedPrint, callVars, histVars>>

Next ==
  \/ \E c \in Calls :
       \/ \E i \in Ids, d \in Durations : Get(c, i, d)
       \/ Compare(c)
       \/ TakeTime(c)
       \/ Store(c)
       \/ Printf(c)
  \/ Tick

Spec == Init /\ [][Next]_vars

-----------------------------------------------------------------------------
(***************************************************************************)
(* Properties.                                                             *)
(***************************************************************************)
Time == 0..MaxTime

(* The type of every variable. *)
TypeOK ==
  /\ now \in Time
  /\ limitedPrint \in Seq([id : Ids, time : Time, by : Calls, until : Nat])
  /\ Len(limitedPrint) <= Cap
  /\ pc \in [Calls -> {"new", "compare", "now", "add", "print", "shown", "lost",
                       "skipped"}]
  /\ id \in [Calls -> Ids \cup {None}]
  /\ duration \in [Calls -> Durations \cup {0}]
  /\ \A f \in {old, stamp, began, tested} : f \in [Calls -> Time \cup {None}]
  /\ before \in [Calls -> SUBSET Calls]
  /\ stored \in Seq(Calls)
  /\ forgotten \subseteq Calls

(* A call is silenced only by another call of the same id that was recorded *)
(* before it compared, less than its duration earlier.  That one need not   *)
(* have been shown: it is recorded before print can turn it away.           *)
SilencedByRecent ==
  \A c \in Calls : pc[c] = "skipped" =>
    \E b \in before[c] : stamp[b] # None /\ tested[c] - stamp[b] < duration[c]

LetThrough(c) == pc[c] \in {"now", "add", "print", "shown", "lost"}

Position(c) == CHOOSE i \in DOMAIN stored : stored[i] = c

(* c is let through although b of the same id was recorded, before c looked, *)
(* less than c's duration ago.                                               *)
Early(c, b) ==
  /\ b \in before[c]
  /\ LetThrough(c)
  /\ (IF tested[c] # None THEN tested[c] ELSE began[c]) - stamp[b] < duration[c]

(* A call that overlapped b and recorded an older time over it.             *)
Overtaken(c, b) ==
  \E e \in before[c] : Position(e) > Position(b) /\ stamp[e] < stamp[b]

(* The limit holds for calls that do not overlap: a message comes too early *)
(* only after a call that recorded an older time over a newer one, or when  *)
(* an entry was evicted by other ids or had expired.                        *)
NoEarlyRepeat ==
  \A c, b \in Calls :
    Early(c, b) => Overtaken(c, b) \/ \E e \in before[c] : e \in forgotten

-----------------------------------------------------------------------------
(***************************************************************************)
(* The inductive invariant behind them.                                    *)
(***************************************************************************)
Stored == ToSet(stored)

(* A call is stored once, with its id, its duration and its time. *)
StoredInv ==
  /\ \A i, j \in DOMAIN stored : stored[i] = stored[j] => i = j
  /\ \A c \in Calls :
       /\ c \in Stored <=> pc[c] \in {"print", "shown", "lost"}
       /\ pc[c] # "new" => id[c] \in Ids
       /\ pc[c] \in {"add", "print", "shown", "lost"} => stamp[c] \in Time

(* The cache has one entry for a key. *)
OneEntryPerId ==
  \A i, j \in DOMAIN limitedPrint : limitedPrint[i].id = limitedPrint[j].id => i = j

(* An entry is what the call that stored it put in. *)
EntryInv ==
  \A k \in DOMAIN limitedPrint :
    LET e == limitedPrint[k]
    IN  e.by \in Stored /\ e.id = id[e.by] /\ e.time = stamp[e.by]

(* b is the newest of the stored calls bs. *)
Newest(b, bs) == b \in bs /\ \A d \in bs : Position(d) <= Position(b)

(* The newest stored call of an id has its entry in the cache, unless that  *)
(* was evicted or has expired.                                              *)
NewestInv ==
  \A i \in Ids :
    LET bs == {b \in Stored : id[b] = i}
    IN  bs # {} => \E b \in forgotten \cup {e.by : e \in ToSet(limitedPrint)} : Newest(b, bs)

(* What a call found when it looked: the time of a call stored before, and  *)
(* of the newest one unless that was forgotten.                             *)
LookInv ==
  \A c \in Calls :
    /\ before[c] \subseteq Stored
    /\ pc[c] # "new" => began[c] \in Time
    /\ pc[c] = "compare" => \E b \in before[c] :
         old[c] = stamp[b] /\ (Newest(b, before[c]) \/ before[c] \cap forgotten # {})

LimitInv ==
  /\ TypeOK
  /\ StoredInv
  /\ EntryInv
  /\ OneEntryPerId
  /\ NewestInv
  /\ LookInv
  /\ SilencedByRecent
  /\ NoEarlyRepeat
=============================================================================
