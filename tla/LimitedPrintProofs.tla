------------------------- MODULE LimitedPrintProofs -------------------------
(***************************************************************************)
(* Proofs about LimitedPrintf: a call is silenced only by a recent one,    *)
(* and one that is let through too early has one of the two excuses that   *)
(* NoEarlyRepeat names.                                                    *)
(***************************************************************************)
EXTENDS LimitedPrint, SequenceLemmas, TLAPS

Entry == [id : Ids, time : Time, by : Calls, until : Nat]

(* The entry of i is taken out: the others stay, in their order. *)
LEMMA WithoutProperties ==
  ASSUME limitedPrint \in Seq(Entry), OneEntryPerId, NEW i
  PROVE  /\ Without(i) \in Seq(Entry)
         /\ Len(Without(i)) <= Len(limitedPrint)
         /\ Places(i) # {} => Len(Without(i)) < Len(limitedPrint)
         /\ \A n \in 1..Len(Without(i)) : Without(i)[n].id # i
         /\ \A n \in 1..Len(Without(i)) : \E k \in DOMAIN limitedPrint : Without(i)[n] = limitedPrint[k]
         /\ \A n, o \in 1..Len(Without(i)) : Without(i)[n].id = Without(i)[o].id => n = o
         /\ \A k \in DOMAIN limitedPrint : limitedPrint[k].id # i =>
              \E n \in 1..Len(Without(i)) : Without(i)[n] = limitedPrint[k]
<1> DEFINE s == limitedPrint
           w == Without(i)
<1>n. Len(s) \in Nat /\ DOMAIN s = 1..Len(s)
  BY LenProperties
<1>1. CASE Places(i) = {}
  <2>1. w = s
    BY <1>1 DEF Without
  <2>2. \A k \in DOMAIN s : s[k].id # i
    BY <1>1 DEF Places
  <2> QED
    BY <1>n, <1>1, <2>1, <2>2 DEF OneEntryPerId
<1>2. CASE Places(i) # {}
  <2>1. PICK k \in 1..Len(s) : w = RemoveAt(s, k) /\ s[k].id = i
    BY <1>n, <1>2 DEF Without, Places
  <2>2. w \in Seq(Entry) /\ Len(w) = Len(s) - 1
    BY <2>1, RemoveAtProperties
  <2>3. /\ \A n \in 1..Len(s) - 1 : OldPlace(n, k) \in 1..Len(s) /\ OldPlace(n, k) # k
                                     /\ RemoveAt(s, k)[n] = s[OldPlace(n, k)]
        /\ \A n, o \in 1..Len(s) - 1 : OldPlace(n, k) = OldPlace(o, k) => n = o
        /\ \A j \in 1..Len(s) : j # k => \E n \in 1..Len(s) - 1 : RemoveAt(s, k)[n] = s[j]
    BY RemoveAtElements
  <2> HIDE DEF w
  <2>4. /\ \A n \in 1..Len(w) : OldPlace(n, k) \in 1..Len(s) /\ OldPlace(n, k) # k
                                /\ w[n] = s[OldPlace(n, k)]
        /\ \A n, o \in 1..Len(w) : OldPlace(n, k) = OldPlace(o, k) => n = o
        /\ \A j \in 1..Len(s) : j # k => \E n \in 1..Len(w) : w[n] = s[j]
    BY ONLY <2>1, <2>2, <2>3
  <2>5. \A j \in DOMAIN s : s[j].id = i => j = k
    BY <1>n, <2>1 DEF OneEntryPerId
  <2>6. \A n, o \in 1..Len(w) : w[n].id = w[o].id => n = o
    BY <1>n, <2>4 DEF OneEntryPerId
  <2>7. \A n \in 1..Len(w) : w[n].id # i
    BY <1>n, <2>4, <2>5
  <2>8. \A j \in DOMAIN s : s[j].id # i => \E n \in 1..Len(w) : w[n] = s[j]
    BY <1>n, <2>1, <2>4
  <2> QED
    BY <1>n, <2>2, <2>4, <2>6, <2>7, <2>8 DEF w
<1> QED
  BY <1>1, <1>2

(* A new entry for an id takes the place of the old one. *)
Replaced(e) == Append(Without(e.id), e)

LEMMA ReplaceProperties ==
  ASSUME limitedPrint \in Seq(Entry), OneEntryPerId, NEW e \in Entry
  PROVE  /\ Replaced(e) \in Seq(Entry) /\ Replaced(e) # <<>>
         /\ Len(Replaced(e)) = Len(Without(e.id)) + 1 /\ Len(Replaced(e)) \in Nat
         /\ Replaced(e)[Len(Replaced(e))] = e
         /\ \A n \in 1..Len(Replaced(e)) : Replaced(e)[n] = e \/ (Replaced(e)[n].id # e.id /\ \E k \in DOMAIN limitedPrint : Replaced(e)[n] = limitedPrint[k])
         /\ \A n, o \in 1..Len(Replaced(e)) : Replaced(e)[n].id = Replaced(e)[o].id => n = o
         /\ \A k \in DOMAIN limitedPrint : limitedPrint[k].id # e.id =>
              \E n \in 1..Len(Replaced(e)) : Replaced(e)[n] = limitedPrint[k]
<1> DEFINE i == e.id
           w == Without(i)
           es == Replaced(e)
<1>1. /\ w \in Seq(Entry)
      /\ \A n \in 1..Len(w) : w[n].id # i
      /\ \A n \in 1..Len(w) : \E k \in DOMAIN limitedPrint : w[n] = limitedPrint[k]
      /\ \A n, o \in 1..Len(w) : w[n].id = w[o].id => n = o
      /\ \A k \in DOMAIN limitedPrint : limitedPrint[k].id # i =>
           \E n \in 1..Len(w) : w[n] = limitedPrint[k]
  BY WithoutProperties
<1>i. e.id = i
  OBVIOUS
<1> HIDE DEF w, es, i
<1>2. /\ es \in Seq(Entry) /\ es # <<>> /\ Len(es) = Len(w) + 1
      /\ \A n \in 1..Len(w) : es[n] = w[n]
      /\ es[Len(w) + 1] = e
  BY <1>1, AppendProperties DEF w, es, i, Replaced
<1>3. /\ Len(w) \in Nat /\ Len(es) \in Nat
      /\ \A n \in 1..Len(es) : n \in 1..Len(w) \/ n = Len(w) + 1
      /\ \A n \in 1..Len(w) : n \in 1..Len(es)
      /\ es[Len(es)] = e
  BY <1>1, <1>2, LenProperties
<1>4. \A n, o \in 1..Len(es) : es[n].id = es[o].id => n = o
  <2>1. \A n \in 1..Len(w) : es[n].id # i
    BY <1>1, <1>2
  <2>2. \A n, o \in 1..Len(w) : es[n].id = es[o].id => n = o
    BY <1>1, <1>2
  <2>3. es[Len(w) + 1].id = i
    BY <1>i, <1>2
  <2> QED
    BY <1>3, <2>1, <2>2, <2>3
<1>5. \A n \in 1..Len(es) : es[n] = e \/ (es[n].id # i /\ \E k \in DOMAIN limitedPrint : es[n] = limitedPrint[k])
  BY <1>1, <1>2, <1>3
<1>6. \A k \in DOMAIN limitedPrint : limitedPrint[k].id # i => \E n \in 1..Len(es) : es[n] = limitedPrint[k]
  BY <1>1, <1>2, <1>3
<1> QED
  BY <1>2, <1>3, <1>4, <1>5, <1>6 DEF w, es, i

(* What the tail of the list keeps. *)
LEMMA TailProperties ==
  ASSUME NEW es \in Seq(Entry), es # <<>>,
         \A n, o \in 1..Len(es) : es[n].id = es[o].id => n = o
  PROVE  /\ Tail(es) \in Seq(Entry) /\ Len(Tail(es)) = Len(es) - 1
         /\ Head(es) = es[1] /\ Head(es) \in Entry
         /\ \A n \in 1..Len(Tail(es)) : \E k \in 1..Len(es) : Tail(es)[n] = es[k]
         /\ \A n, o \in 1..Len(Tail(es)) : Tail(es)[n].id = Tail(es)[o].id => n = o
         /\ \A k \in 1..Len(es) : es[k] = Head(es) \/ \E n \in 1..Len(Tail(es)) : Tail(es)[n] = es[k]
<1> DEFINE t == Tail(es)
<1>1. /\ t \in Seq(Entry) /\ Len(t) = Len(es) - 1
      /\ Head(es) \in Entry /\ Head(es) = es[1]
      /\ \A n \in 1..Len(t) : t[n] = es[n + 1]
  BY HeadTailProperties
<1>n. Len(es) \in Nat \ {0}
  BY EmptySeq
<1> HIDE DEF t
<1>2. \A n \in 1..Len(t) : n + 1 \in 1..Len(es)
  BY <1>1, <1>n
<1>3. \A k \in 1..Len(es) : k = 1 \/ (k - 1 \in 1..Len(t) /\ (k - 1) + 1 = k)
  BY <1>1, <1>n
<1>4. \A n, o \in 1..Len(t) : t[n].id = t[o].id => n = o
  <2>1. \A n, o \in 1..Len(t) : t[n].id = t[o].id => n + 1 = o + 1
    BY <1>1, <1>2
  <2> QED
    BY <1>1, <1>n, <2>1
<1>5. ASSUME NEW k \in 1..Len(es), k # 1
      PROVE  \E n \in 1..Len(t) : t[n] = es[k]
  <2>1. k - 1 \in 1..Len(t) /\ t[k - 1] = es[(k - 1) + 1] /\ (k - 1) + 1 = k
    BY <1>1, <1>3, <1>5
  <2> QED
    BY <2>1
<1> QED
  BY <1>1, <1>2, <1>4, <1>5 DEF t

-----------------------------------------------------------------------------
LEMMA LimitInit == Init => LimitInv
<1> SUFFICES ASSUME Init
             PROVE  LimitInv
  OBVIOUS
<1> USE LimitedPrintAssumption DEF Init
<1>1. limitedPrint = <<>> /\ stored = <<>> /\ DOMAIN limitedPrint = {} /\ DOMAIN stored = {}
  OBVIOUS
<1>2. Stored = {} /\ ToSet(limitedPrint) = {}
  BY <1>1 DEF Stored, ToSet
<1>3. TypeOK
  <2>1. Len(limitedPrint) = 0 /\ 0 \in Time
    BY DEF Time
  <2> QED
    BY <2>1 DEF TypeOK
<1>4. StoredInv
  BY <1>1, <1>2 DEF StoredInv
<1>5. EntryInv /\ OneEntryPerId
  BY <1>1 DEF EntryInv, OneEntryPerId
<1>6. NewestInv
  BY <1>2 DEF NewestInv
<1>7. LookInv
  BY <1>2 DEF LookInv
<1>8. SilencedByRecent
  BY DEF SilencedByRecent
<1>9. NoEarlyRepeat
  BY DEF NoEarlyRepeat, Early
<1> QED
  BY <1>3, <1>4, <1>5, <1>6, <1>7, <1>8, <1>9 DEF LimitInv

(* The types, in the form the steps need them. *)
LEMMA TypeFacts ==
  ASSUME TypeOK
  PROVE  /\ limitedPrint \in Seq(Entry)
         /\ Len(limitedPrint) \in Nat /\ DOMAIN limitedPrint = 1..Len(limitedPrint)
         /\ stored \in Seq(Calls)
         /\ Len(stored) \in Nat /\ DOMAIN stored = 1..Len(stored)
         /\ Stored \subseteq Calls
<1>1. limitedPrint \in Seq(Entry) /\ stored \in Seq(Calls)
  BY DEF TypeOK, Entry
<1>2. \A n \in 1..Len(stored) : stored[n] \in Calls
  BY <1>1, ElementOfSeq
<1> QED
  BY <1>1, <1>2, LenProperties DEF Stored, ToSet

LEMMA EntriesOfProperties ==
  ASSUME limitedPrint \in Seq(Entry), NEW i, NEW e \in EntriesOf(i)
  PROVE  /\ e \in Entry /\ e.id = i /\ Places(i) # {}
         /\ \E k \in DOMAIN limitedPrint : e = limitedPrint[k]
<1>1. PICK k \in DOMAIN limitedPrint : e = limitedPrint[k] /\ e.id = i
  BY DEF EntriesOf, ToSet
<1>2. k \in Places(i)
  BY <1>1 DEF Places
<1>3. e \in Entry
  BY <1>1, LenProperties, ElementOfSeq
<1> QED
  BY <1>1, <1>2, <1>3

LEMMA TypeStep ==
  ASSUME TypeOK, StoredInv, OneEntryPerId, [Next]_vars
  PROVE  TypeOK'
<1> USE LimitedPrintAssumption
<1>e. limitedPrint \in Seq(Entry)
  BY TypeFacts
<1>1. ASSUME NEW c \in Calls, NEW i \in Ids, NEW d \in Durations, Get(c, i, d)
      PROVE  TypeOK'
  <2>1. limitedPrint' \in Seq(Entry) /\ Len(limitedPrint') <= Cap
    <3>1. CASE \E e \in EntriesOf(i) : limitedPrint' = Append(Without(i), e)
      <4>1. PICK e \in EntriesOf(i) : limitedPrint' = Append(Without(i), e)
        BY <3>1
      <4>2. e \in Entry /\ e.id = i /\ Places(i) # {}
        BY <1>e, <4>1, EntriesOfProperties
      <4>3. limitedPrint' = Replaced(e)
        BY <4>1, <4>2 DEF Replaced
      <4>4. /\ Len(Without(i)) < Len(limitedPrint) /\ Len(limitedPrint') = Len(Without(i)) + 1
            /\ limitedPrint' \in Seq(Entry) /\ Len(limitedPrint') \in Nat
        BY <1>e, <4>2, <4>3, WithoutProperties, ReplaceProperties
      <4> QED
        BY <4>2, <4>4, TypeFacts, WithoutProperties, LenProperties DEF TypeOK
    <3>2. CASE limitedPrint' = Without(i)
      <4>1. Len(Without(i)) <= Len(limitedPrint) /\ Without(i) \in Seq(Entry)
        BY <1>e, WithoutProperties
      <4>2. Len(Without(i)) \in Nat
        BY <4>1, LenProperties
      <4> QED
        BY <3>2, <4>1, <4>2, TypeFacts DEF TypeOK
    <3> QED
      BY <1>1, <3>1, <3>2 DEF Get
  <2>2. old' \in [Calls -> Time \cup {None}]
    <3>1. CASE \E e \in EntriesOf(i) : old' = [old EXCEPT ![c] = e.time]
      <4>1. \A e \in EntriesOf(i) : e.time \in Time
        BY <1>e, EntriesOfProperties DEF Entry
      <4> QED
        BY <3>1, <4>1 DEF TypeOK
    <3>2. CASE old' = old
      BY <3>2 DEF TypeOK
    <3> QED
      BY <1>1, <3>1, <3>2 DEF Get
  <2>3. began' \in [Calls -> Time \cup {None}] /\ before' \in [Calls -> SUBSET Calls]
    BY <1>1, TypeFacts DEF Get, TypeOK, Stored
  <2>4. forgotten' \subseteq Calls
    <3>1. \A e \in EntriesOf(i) : e.by \in Calls
      BY <1>e, EntriesOfProperties DEF Entry
    <3> QED
      BY <1>1, <3>1 DEF Get, TypeOK
  <2>5. /\ pc' \in [Calls -> {"new", "compare", "now", "add", "print", "shown", "lost", "skipped"}]
        /\ id' \in [Calls -> Ids \cup {None}]
        /\ duration' \in [Calls -> Durations \cup {0}]
    BY <1>1 DEF Get, TypeOK
  <2>6. UNCHANGED <<now, stamp, tested, stored>>
    BY <1>1 DEF Get
  <2> QED
    BY <2>1, <2>2, <2>3, <2>4, <2>5, <2>6 DEF TypeOK, Entry
<1>2. ASSUME NEW c \in Calls, Compare(c)
      PROVE  TypeOK'
  BY <1>2 DEF Compare, TypeOK
<1>3. ASSUME NEW c \in Calls, TakeTime(c)
      PROVE  TypeOK'
  BY <1>3 DEF TakeTime, TypeOK, histVars
<1>4. ASSUME NEW c \in Calls, Store(c)
      PROVE  TypeOK'
  <2>1. PICK e \in Entry : /\ e = [id |-> id[c], time |-> stamp[c], by |-> c, until |-> now + Expire]
                           /\ e.id = id[c]
    <3>1. id[c] \in Ids /\ stamp[c] \in Time
      BY <1>4 DEF Store, StoredInv
    <3>2. now + Expire \in Nat
      BY DEF TypeOK, Time
    <3>3. [id |-> id[c], time |-> stamp[c], by |-> c, until |-> now + Expire] \in Entry
      BY <3>1, <3>2 DEF Entry
    <3> QED
      BY <3>3
  <2>e. PICK es : es = Append(Without(id[c]), e)
    OBVIOUS
  <2>2. limitedPrint' = IF Len(es) > Cap THEN Tail(es) ELSE es
    BY <1>4, <2>1, <2>e DEF Store
  <2>3. forgotten' \in {forgotten, forgotten \cup {Head(es).by}}
    BY <1>4, <2>1, <2>e DEF Store
  <2>4. /\ stored' = Append(stored, c) /\ pc' = [pc EXCEPT ![c] = "print"]
        /\ UNCHANGED <<now, id, duration, old, stamp, began, tested, before>>
    BY <1>4 DEF Store
  <2>5. /\ es \in Seq(Entry) /\ es # <<>> /\ Len(es) \in Nat
        /\ Len(es) = Len(Without(id[c])) + 1
        /\ \A n, o \in 1..Len(es) : es[n].id = es[o].id => n = o
    <3>1. es = Replaced(e) /\ e.id = id[c]
      BY <2>1, <2>e DEF Replaced
    <3> QED
      BY <1>e, <3>1, ReplaceProperties
  <2>6. Len(Without(id[c])) \in Nat /\ Len(Without(id[c])) <= Len(limitedPrint)
    BY <1>e, WithoutProperties, LenProperties
  <2>7. /\ Tail(es) \in Seq(Entry) /\ Len(Tail(es)) = Len(es) - 1
        /\ Head(es) \in Entry
    BY <2>5, TailProperties
  <2>8. limitedPrint' \in Seq(Entry) /\ Len(limitedPrint') <= Cap
    <3>1. Len(limitedPrint) <= Cap
      BY DEF TypeOK
    <3>2. Len(limitedPrint) \in Nat
      BY TypeFacts
    <3> QED
      BY <2>2, <2>5, <2>6, <2>7, <3>1, <3>2
  <2>9. stored' \in Seq(Calls)
    BY <2>4, TypeFacts, AppendProperties
  <2>10. forgotten' \subseteq Calls
    BY <2>3, <2>7 DEF TypeOK, Entry
  <2>11. pc' \in [Calls -> {"new", "compare", "now", "add", "print", "shown", "lost", "skipped"}]
    BY <2>4 DEF TypeOK
  <2> QED
    BY <2>4, <2>8, <2>9, <2>10, <2>11 DEF TypeOK, Entry
<1>5. ASSUME NEW c \in Calls, Printf(c)
      PROVE  TypeOK'
  BY <1>5 DEF Printf, TypeOK, histVars
<1>6. CASE Tick
  <2>1. now' \in Time /\ UNCHANGED <<limitedPrint, callVars, histVars>>
    BY <1>6 DEF Tick, TypeOK, Time
  <2> QED
    BY <2>1 DEF TypeOK, callVars, histVars
<1>7. CASE UNCHANGED vars
  BY <1>7 DEF vars, callVars, histVars, TypeOK
<1> QED
  BY <1>1, <1>2, <1>3, <1>4, <1>5, <1>6, <1>7 DEF Next

-----------------------------------------------------------------------------
(* What a step leaves alone: the arguments of a call from its Get on, what  *)
(* it found and when it compared, and the calls that have been forgotten.   *)
LEMMA Frame ==
  ASSUME TypeOK, [Next]_vars
  PROVE  /\ \A d \in Calls : pc[d] # "new" =>
              /\ pc'[d] # "new" /\ id'[d] = id[d] /\ duration'[d] = duration[d]
              /\ began'[d] = began[d] /\ before'[d] = before[d] /\ old'[d] = old[d]
         /\ \A d \in Calls : pc[d] # "compare" => tested'[d] = tested[d]
         /\ \A d \in Calls : pc[d] # "now" => stamp'[d] = stamp[d]
         /\ forgotten \subseteq forgotten'
<1>1. ASSUME NEW c \in Calls, NEW i \in Ids, NEW d \in Durations, Get(c, i, d)
      PROVE  /\ \A q \in Calls : q # c =>
                  /\ pc'[q] = pc[q] /\ id'[q] = id[q] /\ duration'[q] = duration[q]
                  /\ began'[q] = began[q] /\ before'[q] = before[q] /\ old'[q] = old[q]
             /\ pc[c] = "new" /\ tested' = tested /\ stamp' = stamp
             /\ forgotten \subseteq forgotten'
  BY <1>1 DEF Get, TypeOK
<1>2. ASSUME NEW c \in Calls, Compare(c) \/ TakeTime(c) \/ Store(c) \/ Printf(c)
      PROVE  /\ pc'[c] # "new" /\ \A q \in Calls : q # c => pc'[q] = pc[q]
             /\ UNCHANGED <<id, duration, began, before, old>>
             /\ \A d \in Calls : pc[d] # "compare" => tested'[d] = tested[d]
             /\ \A d \in Calls : pc[d] # "now" => stamp'[d] = stamp[d]
             /\ forgotten \subseteq forgotten'
  <2>1. CASE Compare(c)
    BY <2>1 DEF Compare, TypeOK
  <2>2. CASE TakeTime(c)
    BY <2>2 DEF TakeTime, TypeOK, histVars
  <2>3. CASE Store(c)
    BY <2>3 DEF Store, TypeOK
  <2>4. CASE Printf(c)
    BY <2>4 DEF Printf, TypeOK, histVars
  <2> QED
    BY <1>2, <2>1, <2>2, <2>3, <2>4
<1>3. CASE Tick \/ UNCHANGED vars
  BY <1>3 DEF Tick, vars, callVars, histVars
<1> QED
  <2>1. CASE \E c \in Calls, i \in Ids, d \in Durations : Get(c, i, d)
    BY <1>1, <2>1
  <2>2. CASE \E c \in Calls : Compare(c) \/ TakeTime(c) \/ Store(c) \/ Printf(c)
    BY <1>2, <2>2
  <2> QED
    BY <1>3, <2>1, <2>2 DEF Next

(* A call moves by a step of its own. *)
LEMMA CallSteps ==
  ASSUME TypeOK, [Next]_vars, NEW c \in Calls
  PROVE  \/ \E i \in Ids, d \in Durations : Get(c, i, d)
         \/ Compare(c) \/ TakeTime(c) \/ Store(c) \/ Printf(c)
         \/ pc'[c] = pc[c] /\ before'[c] = before[c]
<1>1. ASSUME NEW q \in Calls, q # c, \E i \in Ids, d \in Durations : Get(q, i, d)
      PROVE  pc'[c] = pc[c] /\ before'[c] = before[c]
  BY <1>1 DEF Get, TypeOK
<1>2. ASSUME NEW q \in Calls, q # c, Compare(q) \/ TakeTime(q) \/ Store(q) \/ Printf(q)
      PROVE  pc'[c] = pc[c] /\ before'[c] = before[c]
  BY <1>2 DEF Compare, TakeTime, Store, Printf, histVars, TypeOK
<1>3. CASE Tick \/ UNCHANGED vars
  BY <1>3 DEF Tick, vars, callVars, histVars
<1> QED
  BY <1>1, <1>2, <1>3 DEF Next

(* The place of a stored call. *)
LEMMA Positions ==
  ASSUME TypeOK, StoredInv
  PROVE  /\ \A k \in 1..Len(stored) : stored[k] \in Stored /\ Position(stored[k]) = k
         /\ \A c \in Stored : Position(c) \in 1..Len(stored) /\ stored[Position(c)] = c
<1>1. DOMAIN stored = 1..Len(stored)
  BY TypeFacts
<1>2. ASSUME NEW c \in Stored
      PROVE  Position(c) \in 1..Len(stored) /\ stored[Position(c)] = c
  <2>1. \E k \in DOMAIN stored : stored[k] = c
    BY DEF Stored, ToSet
  <2> QED
    BY <1>1, <2>1 DEF Position
<1>3. ASSUME NEW k \in 1..Len(stored)
      PROVE  stored[k] \in Stored /\ Position(stored[k]) = k
  <2>1. stored[k] \in Stored
    BY <1>1 DEF Stored, ToSet
  <2> QED
    BY <1>1, <1>2, <2>1 DEF StoredInv
<1> QED
  BY <1>2, <1>3

(* Add records a call behind the others, which keep their places. *)
LEMMA StoreEffect ==
  ASSUME TypeOK, StoredInv, NEW c \in Calls, Store(c)
  PROVE  /\ c \notin Stored /\ Stored' = Stored \cup {c}
         /\ \A i, j \in DOMAIN stored' : stored'[i] = stored'[j] => i = j
         /\ \A b \in Stored : Position(b)' = Position(b) /\ Position(b) \in 1..Len(stored)
         /\ Position(c)' = Len(stored) + 1 /\ Len(stored) \in Nat
<1>1. stored' = Append(stored, c) /\ pc[c] = "add"
  BY DEF Store
<1>2. c \notin Stored
  BY <1>1 DEF StoredInv
<1>3. stored \in Seq(Calls) /\ Len(stored) \in Nat /\ DOMAIN stored = 1..Len(stored)
  BY TypeFacts
<1> DEFINE s == stored'
<1>4. /\ s \in Seq(Calls) /\ Len(s) = Len(stored) + 1
      /\ \A k \in 1..Len(stored) : s[k] = stored[k]
      /\ s[Len(stored) + 1] = c
  BY <1>1, <1>3, AppendProperties
<1>5. DOMAIN s = 1..Len(stored) + 1
  BY <1>4, LenProperties
<1>6. Stored' = {s[k] : k \in DOMAIN s}
  BY DEF Stored, ToSet
<1>7. Stored = {stored[k] : k \in DOMAIN stored}
  BY DEF Stored, ToSet
<1> HIDE DEF s
<1>8. \A k \in 1..Len(stored) + 1 : k \in 1..Len(stored) \/ k = Len(stored) + 1
  BY <1>3
<1>9. \A k \in 1..Len(stored) : k \in 1..Len(stored) + 1
  BY <1>3
<1>10. Stored' = Stored \cup {c}
  <2>1. Len(stored) + 1 \in 1..Len(stored) + 1
    BY <1>3
  <2> QED
    BY <1>3, <1>4, <1>5, <1>6, <1>7, <1>8, <1>9, <2>1
<1>11. \A i, j \in DOMAIN s : s[i] = s[j] => i = j
  <2>1. \A k \in 1..Len(stored) : s[k] # c
    BY <1>2, <1>3, <1>4, <1>7
  <2>2. \A i, j \in 1..Len(stored) : s[i] = s[j] => i = j
    BY <1>3, <1>4 DEF StoredInv
  <2> QED
    BY <1>4, <1>5, <1>8, <2>1, <2>2
<1>12. \A b : Position(b)' = CHOOSE k \in DOMAIN s : s[k] = b
  BY DEF Position, s
<1>13. ASSUME NEW b \in Stored
       PROVE  Position(b)' = Position(b) /\ Position(b) \in 1..Len(stored)
  <2>1. Position(b) \in 1..Len(stored) /\ stored[Position(b)] = b
    BY Positions
  <2>2. Position(b) \in DOMAIN s /\ s[Position(b)] = b
    BY <1>4, <1>5, <1>9, <2>1
  <2> QED
    BY <1>11, <1>12, <2>1, <2>2
<1>14. Position(c)' = Len(stored) + 1
  <2>1. Len(stored) + 1 \in DOMAIN s
    BY <1>3, <1>5
  <2> QED
    BY <1>4, <1>11, <1>12, <2>1
<1> QED
  BY <1>2, <1>3, <1>10, <1>11, <1>13, <1>14 DEF s

(* What has been recorded stays as it is. *)
LEMMA StoredStep ==
  ASSUME TypeOK, StoredInv, [Next]_vars
  PROVE  /\ StoredInv'
         /\ Stored \subseteq Stored'
         /\ \A b \in Stored :
              /\ id'[b] = id[b] /\ stamp'[b] = stamp[b] /\ Position(b)' = Position(b)
              /\ stamp[b] \in Time /\ b \in Calls /\ pc[b] \in {"print", "shown", "lost"}
         /\ stored' = stored \/ \E c \in Calls : Store(c)
<1>t. Stored \subseteq Calls
  BY TypeFacts
<1>s. \A b \in Stored : b \in Calls /\ pc[b] \in {"print", "shown", "lost"} /\ stamp[b] \in Time
  BY <1>t DEF StoredInv
<1>f. \A b \in Stored : id'[b] = id[b] /\ stamp'[b] = stamp[b]
  <2>1. \A b \in Stored : b \in Calls /\ pc[b] # "new" /\ pc[b] # "now"
    BY <1>s
  <2> QED
    BY <2>1, Frame
<1>1. ASSUME stored' = stored, \A d \in Calls : pc'[d] \in {"print", "shown", "lost"} <=> pc[d] \in {"print", "shown", "lost"},
             \A d \in Calls : (pc'[d] # "new" => id'[d] \in Ids) /\ (pc'[d] \in {"add", "print", "shown", "lost"} => stamp'[d] \in Time)
      PROVE  StoredInv' /\ Stored' = Stored /\ \A b : Position(b)' = Position(b)
  BY <1>1 DEF StoredInv, Stored, Position
<1>2. ASSUME NEW c \in Calls, NEW i \in Ids, NEW d \in Durations, Get(c, i, d)
      PROVE  StoredInv' /\ Stored' = Stored /\ \A b : Position(b)' = Position(b)
  <2>1. stored' = stored /\ stamp' = stamp /\ pc[c] = "new" /\ pc'[c] \in {"compare", "now"} /\ id'[c] = i
        /\ \A q \in Calls : q # c => pc'[q] = pc[q] /\ id'[q] = id[q]
    BY <1>2 DEF Get, TypeOK
  <2> QED
    BY <1>1, <2>1 DEF StoredInv
<1>3. ASSUME NEW c \in Calls, Compare(c) \/ TakeTime(c) \/ Printf(c)
      PROVE  StoredInv' /\ Stored' = Stored /\ \A b : Position(b)' = Position(b)
  <2>1. CASE Compare(c)
    <3>1. /\ stored' = stored /\ stamp' = stamp /\ id' = id /\ pc[c] = "compare"
          /\ pc'[c] \in {"skipped", "now"} /\ \A q \in Calls : q # c => pc'[q] = pc[q]
      BY <2>1 DEF Compare, TypeOK
    <3> QED
      BY <1>1, <3>1 DEF StoredInv
  <2>2. CASE TakeTime(c)
    <3>1. /\ stored' = stored /\ id' = id /\ pc[c] = "now" /\ pc'[c] = "add"
          /\ stamp'[c] \in Time
          /\ \A q \in Calls : q # c => pc'[q] = pc[q] /\ stamp'[q] = stamp[q]
      BY <2>2 DEF TakeTime, TypeOK, histVars
    <3> QED
      BY <1>1, <3>1 DEF StoredInv
  <2>3. CASE Printf(c)
    <3>1. /\ stored' = stored /\ stamp' = stamp /\ id' = id /\ pc[c] = "print"
          /\ pc'[c] \in {"shown", "lost"} /\ \A q \in Calls : q # c => pc'[q] = pc[q]
      BY <2>3 DEF Printf, TypeOK, histVars
    <3> QED
      BY <1>1, <3>1 DEF StoredInv
  <2> QED
    BY <1>3, <2>1, <2>2, <2>3
<1>4. ASSUME NEW c \in Calls, Store(c)
      PROVE  StoredInv' /\ Stored \subseteq Stored' /\ \A b \in Stored : Position(b)' = Position(b)
  <2>1. /\ Stored' = Stored \cup {c}
        /\ \A i, j \in DOMAIN stored' : stored'[i] = stored'[j] => i = j
        /\ \A b \in Stored : Position(b)' = Position(b)
    BY <1>4, StoreEffect
  <2>2. /\ stamp' = stamp /\ id' = id /\ pc[c] = "add" /\ pc'[c] = "print"
        /\ \A q \in Calls : q # c => pc'[q] = pc[q]
    BY <1>4 DEF Store, TypeOK
  <2>3. \A d \in Calls :
          /\ d \in Stored' <=> pc'[d] \in {"print", "shown", "lost"}
          /\ pc'[d] # "new" => id'[d] \in Ids
          /\ pc'[d] \in {"add", "print", "shown", "lost"} => stamp'[d] \in Time
    BY <2>1, <2>2 DEF StoredInv
  <2> QED
    BY <2>1, <2>3 DEF StoredInv
<1>5. CASE Tick \/ UNCHANGED vars
  <2>1. UNCHANGED <<stored, pc, id, stamp>>
    BY <1>5 DEF Tick, vars, callVars, histVars
  <2> QED
    BY <2>1, <1>1, <1>s, <1>f DEF StoredInv
<1>6. StoredInv' /\ Stored \subseteq Stored' /\ \A b \in Stored : Position(b)' = Position(b)
  BY <1>2, <1>3, <1>4, <1>5 DEF Next
<1>7. stored' = stored \/ \E c \in Calls : Store(c)
  BY DEF Next, Get, Compare, TakeTime, Printf, Tick, vars, callVars, histVars
<1> QED
  BY <1>s, <1>f, <1>6, <1>7

-----------------------------------------------------------------------------
(* The calls whose time is in the cache, or that have been forgotten.       *)
Listed == {e.by : e \in ToSet(limitedPrint)}
Known == forgotten \cup Listed

LEMMA ListedIndex ==
  Listed = {limitedPrint[k].by : k \in DOMAIN limitedPrint}
BY DEF Listed, ToSet

(* The entry that a Get finds is the only one of its id. *)
LEMMA FoundEntry ==
  ASSUME TypeOK, OneEntryPerId, NEW i, NEW e \in EntriesOf(i), NEW k \in DOMAIN limitedPrint,
         limitedPrint[k].id = i
  PROVE  limitedPrint[k] = e
<1>1. PICK n \in DOMAIN limitedPrint : e = limitedPrint[n] /\ e.id = i
  BY TypeFacts, EntriesOfProperties
<1> QED
  BY <1>1 DEF OneEntryPerId

(* Get keeps one entry for an id, puts in no entry, and forgets what it     *)
(* removes.                                                                 *)
LEMMA GetEffect ==
  ASSUME TypeOK, OneEntryPerId, NEW c \in Calls, NEW i \in Ids, NEW d \in Durations, Get(c, i, d)
  PROVE  /\ OneEntryPerId'
         /\ \A n \in DOMAIN limitedPrint' : \E k \in DOMAIN limitedPrint : limitedPrint'[n] = limitedPrint[k]
         /\ Known \subseteq Known'
<1>e. limitedPrint \in Seq(Entry) /\ DOMAIN limitedPrint = 1..Len(limitedPrint)
  BY TypeFacts
<1>l. Listed' = {limitedPrint'[k].by : k \in DOMAIN limitedPrint'}
  BY DEF Listed, ToSet
<1>1. ASSUME NEW e \in EntriesOf(i), limitedPrint' = Append(Without(i), e), forgotten' = forgotten
      PROVE  /\ OneEntryPerId'
             /\ \A n \in DOMAIN limitedPrint' : \E k \in DOMAIN limitedPrint : limitedPrint'[n] = limitedPrint[k]
             /\ Known \subseteq Known'
  <2>1. e \in Entry /\ e.id = i /\ \E k \in DOMAIN limitedPrint : e = limitedPrint[k]
    BY <1>e, EntriesOfProperties
  <2>2. PICK es : es = Replaced(e) /\ es = limitedPrint'
    BY <1>1, <2>1 DEF Replaced
  <2>3. /\ es \in Seq(Entry) /\ es # <<>> /\ Len(es) \in Nat
        /\ es[Len(es)] = e
        /\ \A n \in 1..Len(es) : es[n] = e \/ \E k \in DOMAIN limitedPrint : es[n] = limitedPrint[k]
        /\ \A n, o \in 1..Len(es) : es[n].id = es[o].id => n = o
        /\ \A k \in DOMAIN limitedPrint : limitedPrint[k].id # i =>
             \E n \in 1..Len(es) : es[n] = limitedPrint[k]
    <3>1. /\ Replaced(e) \in Seq(Entry) /\ Replaced(e) # <<>> /\ Len(Replaced(e)) \in Nat
          /\ Replaced(e)[Len(Replaced(e))] = e
          /\ \A n \in 1..Len(Replaced(e)) : Replaced(e)[n] = e \/ (Replaced(e)[n].id # e.id /\ \E k \in DOMAIN limitedPrint : Replaced(e)[n] = limitedPrint[k])
          /\ \A n, o \in 1..Len(Replaced(e)) : Replaced(e)[n].id = Replaced(e)[o].id => n = o
          /\ \A k \in DOMAIN limitedPrint : limitedPrint[k].id # e.id =>
               \E n \in 1..Len(Replaced(e)) : Replaced(e)[n] = limitedPrint[k]
      BY <1>e, <2>1, ReplaceProperties
    <3> QED
      BY ONLY <2>1, <2>2, <3>1
  <2>4. DOMAIN es = 1..Len(es) /\ Len(es) \in 1..Len(es)
    BY <2>3, LenProperties, EmptySeq
  <2>5. OneEntryPerId'
    BY <2>2, <2>3, <2>4 DEF OneEntryPerId
  <2>6. \A k \in DOMAIN limitedPrint : \E n \in DOMAIN es : es[n] = limitedPrint[k]
    BY <2>3, <2>4, FoundEntry
  <2>7. Known \subseteq Known'
    BY <1>1, <1>l, <2>2, <2>6, ListedIndex DEF Known
  <2> QED
    BY <2>1, <2>2, <2>3, <2>4, <2>5, <2>7
<1>2. ASSUME limitedPrint' = Without(i), forgotten' = forgotten \cup {e.by : e \in EntriesOf(i)}
      PROVE  /\ OneEntryPerId'
             /\ \A n \in DOMAIN limitedPrint' : \E k \in DOMAIN limitedPrint : limitedPrint'[n] = limitedPrint[k]
             /\ Known \subseteq Known'
  <2>1. PICK w : w = Without(i) /\ w = limitedPrint'
    BY <1>2
  <2>2. /\ w \in Seq(Entry)
        /\ \A n \in 1..Len(w) : \E k \in DOMAIN limitedPrint : w[n] = limitedPrint[k]
        /\ \A n, o \in 1..Len(w) : w[n].id = w[o].id => n = o
        /\ \A k \in DOMAIN limitedPrint : limitedPrint[k].id # i =>
             \E n \in 1..Len(w) : w[n] = limitedPrint[k]
    <3>1. /\ Without(i) \in Seq(Entry)
          /\ \A n \in 1..Len(Without(i)) : \E k \in DOMAIN limitedPrint : Without(i)[n] = limitedPrint[k]
          /\ \A n, o \in 1..Len(Without(i)) : Without(i)[n].id = Without(i)[o].id => n = o
          /\ \A k \in DOMAIN limitedPrint : limitedPrint[k].id # i =>
               \E n \in 1..Len(Without(i)) : Without(i)[n] = limitedPrint[k]
      BY <1>e, WithoutProperties
    <3> QED
      BY ONLY <2>1, <3>1
  <2>3. DOMAIN w = 1..Len(w)
    BY <2>2, LenProperties
  <2>4. OneEntryPerId'
    BY <2>1, <2>2, <2>3 DEF OneEntryPerId
  <2>5. ASSUME NEW k \in DOMAIN limitedPrint
        PROVE  limitedPrint[k].by \in forgotten' \cup Listed'
    <3>1. CASE limitedPrint[k].id = i
      <4>1. limitedPrint[k] \in EntriesOf(i)
        BY <3>1 DEF EntriesOf, ToSet
      <4> QED
        BY <1>2, <4>1
    <3>2. CASE limitedPrint[k].id # i
      BY <1>l, <2>1, <2>2, <2>3, <3>2
    <3> QED
      BY <3>1, <3>2
  <2>6. Known \subseteq Known'
    BY <1>2, <2>5, ListedIndex DEF Known
  <2> QED
    BY <2>1, <2>2, <2>3, <2>4, <2>6
<1> QED
  BY <1>1, <1>2 DEF Get

(* Add puts in the entry of its call, keeps one entry for an id, and forgets *)
(* nothing but the entry that was there for the same id.                     *)
LEMMA AddEffect ==
  ASSUME TypeOK, StoredInv, OneEntryPerId, NEW c \in Calls, Store(c)
  PROVE  \E e \in Entry :
           /\ e.by = c /\ e.id = id[c] /\ e.time = stamp[c]
           /\ OneEntryPerId'
           /\ \A n \in DOMAIN limitedPrint' :
                limitedPrint'[n] = e \/ \E k \in DOMAIN limitedPrint : limitedPrint'[n] = limitedPrint[k]
           /\ c \in Known' /\ forgotten \subseteq forgotten'
           /\ \A k \in DOMAIN limitedPrint : limitedPrint[k].id # id[c] => limitedPrint[k].by \in Known'
<1> USE LimitedPrintAssumption
<1>l. Listed' = {limitedPrint'[k].by : k \in DOMAIN limitedPrint'}
  BY DEF Listed, ToSet
<1>k. Known' = forgotten' \cup Listed'
  BY DEF Known
<1>1. PICK e \in Entry : /\ e = [id |-> id[c], time |-> stamp[c], by |-> c, until |-> now + Expire]
                         /\ e.id = id[c] /\ e.by = c /\ e.time = stamp[c]
  <2>1. id[c] \in Ids /\ stamp[c] \in Time
    BY DEF Store, StoredInv
  <2>2. now + Expire \in Nat
    BY DEF TypeOK, Time
  <2>3. [id |-> id[c], time |-> stamp[c], by |-> c, until |-> now + Expire] \in Entry
    BY <2>1, <2>2 DEF Entry
  <2> QED
    BY <2>3
<1>e. PICK es : es = Append(Without(id[c]), e)
  OBVIOUS
<1>2. limitedPrint' = IF Len(es) > Cap THEN Tail(es) ELSE es
  BY <1>1, <1>e DEF Store
<1>3. forgotten' = IF Len(es) > Cap THEN forgotten \cup {Head(es).by} ELSE forgotten
  BY <1>1, <1>e DEF Store
<1>4. /\ es \in Seq(Entry) /\ es # <<>> /\ Len(es) \in Nat
      /\ es[Len(es)] = e
      /\ \A n \in 1..Len(es) : es[n] = e \/ \E k \in DOMAIN limitedPrint : es[n] = limitedPrint[k]
      /\ \A n, o \in 1..Len(es) : es[n].id = es[o].id => n = o
      /\ \A k \in DOMAIN limitedPrint : limitedPrint[k].id # id[c] =>
           \E n \in 1..Len(es) : es[n] = limitedPrint[k]
  <2>1. es = Replaced(e) /\ limitedPrint \in Seq(Entry)
    BY <1>1, <1>e, TypeFacts DEF Replaced
  <2>2. /\ Replaced(e) \in Seq(Entry) /\ Replaced(e) # <<>> /\ Len(Replaced(e)) \in Nat
        /\ Replaced(e)[Len(Replaced(e))] = e
        /\ \A n \in 1..Len(Replaced(e)) : Replaced(e)[n] = e \/ (Replaced(e)[n].id # e.id /\ \E k \in DOMAIN limitedPrint : Replaced(e)[n] = limitedPrint[k])
        /\ \A n, o \in 1..Len(Replaced(e)) : Replaced(e)[n].id = Replaced(e)[o].id => n = o
        /\ \A k \in DOMAIN limitedPrint : limitedPrint[k].id # e.id =>
             \E n \in 1..Len(Replaced(e)) : Replaced(e)[n] = limitedPrint[k]
    BY <2>1, ReplaceProperties
  <2> QED
    BY ONLY <1>1, <2>1, <2>2
<1>5. DOMAIN es = 1..Len(es) /\ Len(es) \in 1..Len(es)
  BY <1>4, LenProperties, EmptySeq
<1>6. ASSUME Len(es) > Cap
      PROVE  /\ \A n \in DOMAIN limitedPrint' : \E k \in 1..Len(es) : limitedPrint'[n] = es[k]
             /\ OneEntryPerId'
             /\ \A k \in 1..Len(es) : es[k].by \in Known'
  <2>1. PICK t : t = Tail(es) /\ t = limitedPrint'
    BY <1>2, <1>6
  <2>2. /\ t \in Seq(Entry)
        /\ \A n \in 1..Len(t) : \E k \in 1..Len(es) : t[n] = es[k]
        /\ \A n, o \in 1..Len(t) : t[n].id = t[o].id => n = o
        /\ \A k \in 1..Len(es) : es[k] = Head(es) \/ \E n \in 1..Len(t) : t[n] = es[k]
    <3>1. /\ Tail(es) \in Seq(Entry)
          /\ \A n \in 1..Len(Tail(es)) : \E k \in 1..Len(es) : Tail(es)[n] = es[k]
          /\ \A n, o \in 1..Len(Tail(es)) : Tail(es)[n].id = Tail(es)[o].id => n = o
          /\ \A k \in 1..Len(es) : es[k] = Head(es) \/ \E n \in 1..Len(Tail(es)) : Tail(es)[n] = es[k]
      BY <1>4, TailProperties
    <3> QED
      BY ONLY <2>1, <3>1
  <2>3. DOMAIN t = 1..Len(t)
    BY <2>2, LenProperties
  <2>4. OneEntryPerId'
    BY <2>1, <2>2, <2>3 DEF OneEntryPerId
  <2>5. ASSUME NEW k \in 1..Len(es)
        PROVE  es[k].by \in Known'
    <3>1. CASE es[k] = Head(es)
      BY <1>k, <1>3, <1>6, <3>1
    <3>2. CASE \E n \in 1..Len(t) : t[n] = es[k]
      <4>1. Listed' = {t[n].by : n \in 1..Len(t)}
        BY <1>l, <2>1, <2>3
      <4> QED
        BY <1>k, <3>2, <4>1
    <3> QED
      BY <2>2, <3>1, <3>2
  <2> QED
    BY <2>1, <2>2, <2>3, <2>4, <2>5
<1>7. ASSUME ~(Len(es) > Cap)
      PROVE  /\ \A n \in DOMAIN limitedPrint' : \E k \in 1..Len(es) : limitedPrint'[n] = es[k]
             /\ OneEntryPerId'
             /\ \A k \in 1..Len(es) : es[k].by \in Known'
  <2>1. es = limitedPrint'
    BY <1>2, <1>7
  <2>2. OneEntryPerId'
    BY <1>4, <1>5, <2>1 DEF OneEntryPerId
  <2> QED
    BY <1>k, <1>l, <1>5, <2>1, <2>2
<1>8. /\ \A n \in DOMAIN limitedPrint' : \E k \in 1..Len(es) : limitedPrint'[n] = es[k]
      /\ OneEntryPerId'
      /\ \A k \in 1..Len(es) : es[k].by \in Known'
  BY <1>6, <1>7
<1>9. c \in Known'
  BY <1>1, <1>4, <1>5, <1>8
<1>10. \A k \in DOMAIN limitedPrint : limitedPrint[k].id # id[c] => limitedPrint[k].by \in Known'
  BY <1>4, <1>8
<1> QED
  BY <1>1, <1>3, <1>4, <1>8, <1>9, <1>10

(* The steps of a call between its Get and its Add, and those after it,     *)
(* leave the cache alone.                                                   *)
LEMMA CacheSteps ==
  ASSUME [Next]_vars
  PROVE  \/ \E c \in Calls, i \in Ids, d \in Durations : Get(c, i, d)
         \/ \E c \in Calls : Store(c)
         \/ limitedPrint' = limitedPrint /\ forgotten' = forgotten /\ stored' = stored
BY DEF Next, Compare, TakeTime, Printf, Tick, vars, callVars, histVars

LEMMA EntryStep ==
  ASSUME TypeOK, StoredInv, EntryInv, OneEntryPerId, [Next]_vars
  PROVE  EntryInv' /\ OneEntryPerId'
<1>s. /\ Stored \subseteq Stored'
      /\ \A b \in Stored : id'[b] = id[b] /\ stamp'[b] = stamp[b]
  BY StoredStep
<1>1. ASSUME \A n \in DOMAIN limitedPrint' : \E k \in DOMAIN limitedPrint : limitedPrint'[n] = limitedPrint[k]
      PROVE  EntryInv'
  <2>1. \A k \in DOMAIN limitedPrint :
          limitedPrint[k].by \in Stored /\ limitedPrint[k].id = id[limitedPrint[k].by]
          /\ limitedPrint[k].time = stamp[limitedPrint[k].by]
    BY DEF EntryInv
  <2> QED
    BY <1>s, <1>1, <2>1 DEF EntryInv
<1>2. CASE \E c \in Calls, i \in Ids, d \in Durations : Get(c, i, d)
  BY <1>1, <1>2, GetEffect
<1>3. ASSUME NEW c \in Calls, Store(c)
      PROVE  EntryInv' /\ OneEntryPerId'
  <2>1. PICK e \in Entry :
           /\ e.by = c /\ e.id = id[c] /\ e.time = stamp[c]
           /\ OneEntryPerId'
           /\ \A n \in DOMAIN limitedPrint' :
                limitedPrint'[n] = e \/ \E k \in DOMAIN limitedPrint : limitedPrint'[n] = limitedPrint[k]
    BY <1>3, AddEffect
  <2>2. c \in Stored' /\ id' = id /\ stamp' = stamp
    BY <1>3, StoreEffect DEF Store
  <2>3. \A k \in DOMAIN limitedPrint :
          limitedPrint[k].by \in Stored /\ limitedPrint[k].id = id[limitedPrint[k].by]
          /\ limitedPrint[k].time = stamp[limitedPrint[k].by]
    BY DEF EntryInv
  <2>4. EntryInv'
    BY <1>s, <2>1, <2>2, <2>3 DEF EntryInv
  <2> QED
    BY <2>1, <2>4
<1>4. CASE limitedPrint' = limitedPrint
  BY <1>1, <1>4 DEF OneEntryPerId
<1> QED
  BY <1>2, <1>3, <1>4, CacheSteps

(* The newest of the calls recorded for an id is in the cache or forgotten. *)
LEMMA NewestKnown ==
  ASSUME NewestInv, NEW i \in Ids, NEW bs, bs = {b \in Stored : id[b] = i}, bs # {}
  PROVE  \E b \in Known : Newest(b, bs)
BY DEF NewestInv, Known, Listed

LEMMA NewestStep ==
  ASSUME TypeOK, StoredInv, EntryInv, OneEntryPerId, NewestInv, [Next]_vars
  PROVE  NewestInv'
<1>s. /\ Stored \subseteq Stored'
      /\ \A b \in Stored : id'[b] = id[b] /\ Position(b)' = Position(b)
  BY StoredStep
<1> SUFFICES ASSUME NEW i \in Ids, NEW bs, NEW new,
                    bs = {b \in Stored : id[b] = i}, new = {b \in Stored' : id'[b] = i},
                    new # {}
             PROVE  \E b \in Known' : b \in new /\ \A d \in new : Position(d)' <= Position(b)'
  BY DEF NewestInv, Known, Listed, Newest
<1>1. ASSUME new = bs, \A b \in Known : b \in bs => b \in Known'
      PROVE  \E b \in Known' : b \in new /\ \A d \in new : Position(d)' <= Position(b)'
  <2>1. PICK b \in Known : Newest(b, bs)
    BY <1>1, NewestKnown
  <2>2. b \in bs /\ \A d \in bs : Position(d) <= Position(b)
    BY <2>1 DEF Newest
  <2>3. \A d \in bs : Position(d)' = Position(d)
    BY <1>s
  <2> QED
    BY <1>1, <2>2, <2>3
<1>2. ASSUME stored' = stored, Known \subseteq Known'
      PROVE  \E b \in Known' : b \in new /\ \A d \in new : Position(d)' <= Position(b)'
  <2>1. Stored' = Stored
    BY <1>2 DEF Stored
  <2>2. new = bs
    BY <1>s, <2>1
  <2> QED
    BY <1>1, <1>2, <2>2
<1>3. CASE \E c \in Calls, j \in Ids, d \in Durations : Get(c, j, d)
  <2>1. stored' = stored
    BY <1>3 DEF Get
  <2> QED
    BY <1>2, <1>3, <2>1, GetEffect
<1>4. CASE limitedPrint' = limitedPrint /\ forgotten' = forgotten /\ stored' = stored
  <2>1. Known' = Known
    BY <1>4 DEF Known, Listed
  <2> QED
    BY <1>2, <1>4, <2>1
<1>5. ASSUME NEW c \in Calls, Store(c)
      PROVE  \E b \in Known' : b \in new /\ \A d \in new : Position(d)' <= Position(b)'
  <2>1. PICK e \in Entry :
           /\ c \in Known' /\ forgotten \subseteq forgotten'
           /\ \A k \in DOMAIN limitedPrint : limitedPrint[k].id # id[c] => limitedPrint[k].by \in Known'
    BY <1>5, AddEffect
  <2>2. /\ Stored' = Stored \cup {c} /\ id' = id
        /\ \A b \in Stored : Position(b)' = Position(b) /\ Position(b) \in 1..Len(stored)
        /\ Position(c)' = Len(stored) + 1 /\ Len(stored) \in Nat
    BY <1>5, StoreEffect DEF Store
  <2>3. CASE id[c] = i
    <3>1. c \in new
      BY <2>2, <2>3
    <3>2. ASSUME NEW d \in new
          PROVE  Position(d)' <= Position(c)'
      <4>1. CASE d = c
        BY <2>2, <4>1
      <4>2. CASE d \in Stored
        BY <2>2, <4>2
      <4> QED
        BY <2>2, <4>1, <4>2
    <3> QED
      BY <2>1, <3>1, <3>2
  <2>4. CASE id[c] # i
    <3>1. new = bs
      BY <2>2, <2>4
    <3>2. ASSUME NEW b \in Known, b \in bs
          PROVE  b \in Known'
      <4>1. CASE b \in forgotten
        BY <2>1, <4>1 DEF Known
      <4>2. CASE b \in Listed
        <5>1. PICK k \in DOMAIN limitedPrint : b = limitedPrint[k].by
          BY <4>2, ListedIndex
        <5>2. limitedPrint[k].id = i
          BY <3>2, <5>1 DEF EntryInv
        <5> QED
          BY <2>1, <2>4, <5>1, <5>2
      <4> QED
        BY <3>2, <4>1, <4>2 DEF Known
    <3> QED
      BY <1>1, <3>1, <3>2
  <2> QED
    BY <2>3, <2>4
<1> QED
  BY <1>3, <1>4, <1>5, CacheSteps

-----------------------------------------------------------------------------
(* A Get that finds an entry finds the time of the newest call recorded for *)
(* its id, or of an older one when the newest is forgotten; one that finds  *)
(* nothing comes after a call was forgotten, or after no call at all.       *)
LEMMA LookEffect ==
  ASSUME TypeOK, StoredInv, EntryInv, OneEntryPerId, NewestInv,
         NEW c \in Calls, NEW i \in Ids, NEW d \in Durations, Get(c, i, d)
  PROVE  /\ before'[c] \subseteq Stored
         /\ pc'[c] = "compare" => \E b \in before'[c] :
              old'[c] = stamp[b] /\ (Newest(b, before'[c]) \/ before'[c] \cap forgotten # {})
         /\ pc'[c] = "now" => before'[c] = {} \/ before'[c] \cap forgotten' # {}
<1>1. PICK bs : bs = {b \in Stored : id[b] = i} /\ bs = before'[c]
  BY DEF Get, TypeOK, Stored
<1>2. bs # {} => \E b \in Known : Newest(b, bs)
  BY <1>1, NewestKnown
<1>e. \A k \in DOMAIN limitedPrint :
        limitedPrint[k].by \in Stored /\ limitedPrint[k].id = id[limitedPrint[k].by]
        /\ limitedPrint[k].time = stamp[limitedPrint[k].by]
  BY DEF EntryInv
<1>3. CASE \E e \in EntriesOf(i) : old' = [old EXCEPT ![c] = e.time] /\ pc' = [pc EXCEPT ![c] = "compare"]
  <2>1. PICK e \in EntriesOf(i) : old' = [old EXCEPT ![c] = e.time] /\ pc' = [pc EXCEPT ![c] = "compare"]
    BY <1>3
  <2>2. PICK n \in DOMAIN limitedPrint : e = limitedPrint[n] /\ e.id = i
    BY TypeFacts, EntriesOfProperties
  <2>3. e.by \in bs /\ e.time = stamp[e.by]
    BY <1>1, <1>e, <2>2
  <2>4. PICK b \in Known : Newest(b, bs)
    BY <1>2, <2>3
  <2>5. b \in bs
    BY <2>4 DEF Newest
  <2>6. CASE b \in forgotten
    BY <1>1, <2>1, <2>3, <2>5, <2>6 DEF TypeOK
  <2>7. CASE b \in Listed
    <3>1. PICK k \in DOMAIN limitedPrint : b = limitedPrint[k].by
      BY <2>7, ListedIndex
    <3>2. limitedPrint[k].id = i
      BY <1>1, <1>e, <2>5, <3>1
    <3>3. b = e.by
      BY <3>1, <3>2, FoundEntry
    <3> QED
      BY <1>1, <2>1, <2>3, <2>4, <3>3 DEF TypeOK
  <2> QED
    BY <2>6, <2>7 DEF Known
<1>4. CASE /\ forgotten' = forgotten \cup {e.by : e \in EntriesOf(i)}
           /\ pc' = [pc EXCEPT ![c] = "now"]
  <2>1. pc'[c] = "now"
    BY <1>4 DEF TypeOK
  <2>2. ASSUME NEW b \in Known, b \in bs
        PROVE  b \in forgotten'
    <3>1. CASE b \in Listed
      <4>1. PICK k \in DOMAIN limitedPrint : b = limitedPrint[k].by
        BY <3>1, ListedIndex
      <4>2. limitedPrint[k] \in EntriesOf(i)
        BY <1>1, <1>e, <2>2, <4>1 DEF EntriesOf, ToSet
      <4> QED
        BY <1>4, <4>1, <4>2
    <3>2. CASE b \in forgotten
      BY <1>4, <3>2
    <3> QED
      BY <3>1, <3>2 DEF Known
  <2>3. bs = {} \/ bs \cap forgotten' # {}
    BY <1>2, <2>2 DEF Newest
  <2> QED
    BY <1>1, <2>1, <2>3
<1> QED
  BY <1>1, <1>3, <1>4 DEF Get

LEMMA LookStep ==
  ASSUME TypeOK, StoredInv, EntryInv, OneEntryPerId, NewestInv, LookInv, [Next]_vars
  PROVE  LookInv'
<1>s. /\ Stored \subseteq Stored'
      /\ \A b \in Stored : stamp'[b] = stamp[b] /\ Position(b)' = Position(b)
  BY StoredStep
<1>f. forgotten \subseteq forgotten'
  BY Frame
<1>n. ASSUME NEW b, NEW bs, bs \subseteq Stored, Newest(b, bs)
      PROVE  b \in bs /\ \A d \in bs : Position(d)' <= Position(b)'
  BY <1>s, <1>n DEF Newest
<1> SUFFICES ASSUME NEW c \in Calls
             PROVE  /\ before'[c] \subseteq Stored'
                    /\ pc'[c] # "new" => began'[c] \in Time
                    /\ pc'[c] = "compare" => \E b \in before'[c] :
                         /\ old'[c] = stamp'[b]
                         /\ (b \in before'[c] /\ \A d \in before'[c] : Position(d)' <= Position(b)')
                            \/ before'[c] \cap forgotten' # {}
  BY DEF LookInv, Newest
<1>1. ASSUME NEW i \in Ids, NEW d \in Durations, Get(c, i, d)
      PROVE  /\ before'[c] \subseteq Stored'
             /\ pc'[c] # "new" => began'[c] \in Time
             /\ pc'[c] = "compare" => \E b \in before'[c] :
                  /\ old'[c] = stamp'[b]
                  /\ (b \in before'[c] /\ \A q \in before'[c] : Position(q)' <= Position(b)')
                     \/ before'[c] \cap forgotten' # {}
  <2>1. began'[c] \in Time
    BY <1>1 DEF Get, TypeOK
  <2>2. /\ before'[c] \subseteq Stored
        /\ pc'[c] = "compare" => \E b \in before'[c] :
             old'[c] = stamp[b] /\ (Newest(b, before'[c]) \/ before'[c] \cap forgotten # {})
    BY <1>1, LookEffect
  <2> QED
    BY <1>s, <1>f, <1>n, <2>1, <2>2
<1>2. CASE pc[c] # "new"
  <2>1. began'[c] = began[c] /\ before'[c] = before[c] /\ old'[c] = old[c]
    BY <1>2, Frame
  <2>2. pc'[c] = "compare" => pc[c] = "compare"
    BY <1>2, CallSteps DEF Compare, TakeTime, Store, Printf, Get, TypeOK
  <2>3. /\ before[c] \subseteq Stored /\ began[c] \in Time
        /\ pc[c] = "compare" => \E b \in before[c] :
             old[c] = stamp[b] /\ (Newest(b, before[c]) \/ before[c] \cap forgotten # {})
    BY <1>2 DEF LookInv
  <2> QED
    BY <1>s, <1>f, <1>n, <2>1, <2>2, <2>3
<1>3. CASE pc[c] = "new" /\ ~\E i \in Ids, d \in Durations : Get(c, i, d)
  <2>1. pc'[c] = "new" /\ before'[c] = before[c]
    BY <1>3, CallSteps DEF Compare, TakeTime, Store, Printf
  <2> QED
    BY <1>s, <2>1 DEF LookInv
<1> QED
  BY <1>1, <1>2, <1>3

-----------------------------------------------------------------------------
LEMMA SilencedStep ==
  ASSUME TypeOK, StoredInv, LookInv, SilencedByRecent, [Next]_vars
  PROVE  SilencedByRecent'
<1> USE LimitedPrintAssumption
<1>s. \A b \in Stored : stamp'[b] = stamp[b] /\ stamp[b] \in Time /\ stamp[b] # None
  <2>1. None \notin Time
    BY DEF Time
  <2> QED
    BY <2>1, StoredStep
<1> SUFFICES ASSUME NEW c \in Calls, pc'[c] = "skipped"
             PROVE  \E b \in before'[c] : stamp'[b] # None /\ tested'[c] - stamp'[b] < duration'[c]
  BY DEF SilencedByRecent
<1>1. pc[c] = "skipped" \/ Compare(c)
  BY CallSteps DEF Compare, TakeTime, Store, Printf, Get, TypeOK
<1>2. /\ pc[c] # "new" /\ before[c] \subseteq Stored
      /\ before'[c] = before[c] /\ duration'[c] = duration[c]
  BY <1>1, Frame DEF Compare, LookInv
<1>3. CASE pc[c] = "skipped"
  <2>1. tested'[c] = tested[c]
    BY <1>3, Frame
  <2> QED
    BY <1>s, <1>2, <1>3, <2>1 DEF SilencedByRecent
<1>4. CASE Compare(c)
  <2>1. tested'[c] = now /\ now - old[c] < duration[c]
    BY <1>4 DEF Compare, TypeOK
  <2>2. \E b \in before[c] : old[c] = stamp[b]
    BY <1>4 DEF Compare, LookInv
  <2> QED
    BY <1>s, <1>2, <2>1, <2>2
<1> QED
  BY <1>1, <1>3, <1>4

(* Two calls recorded at different times were not recorded at one place.    *)
LEMMA LaterPosition ==
  ASSUME TypeOK, StoredInv, NEW b \in Stored, NEW d \in Stored,
         Position(b) <= Position(d), stamp[d] < stamp[b]
  PROVE  Position(d) > Position(b)
<1>1. /\ Position(b) \in 1..Len(stored) /\ stored[Position(b)] = b
      /\ Position(d) \in 1..Len(stored) /\ stored[Position(d)] = d
      /\ Len(stored) \in Nat
  BY Positions, TypeFacts
<1>2. stamp[b] \in Time
  BY StoredStep, TypeFacts DEF StoredInv
<1>3. b # d
  BY <1>2, LimitedPrintAssumption DEF Time
<1> QED
  BY <1>1, <1>3

LEMMA NoEarlyStep ==
  ASSUME TypeOK, StoredInv, EntryInv, OneEntryPerId, NewestInv, LookInv, NoEarlyRepeat, [Next]_vars
  PROVE  NoEarlyRepeat'
<1> USE LimitedPrintAssumption
<1>s. \A b \in Stored : stamp'[b] = stamp[b] /\ Position(b)' = Position(b) /\ stamp[b] \in Time
  BY StoredStep
<1>f. forgotten \subseteq forgotten'
  BY Frame
<1> DEFINE looked(c) == IF tested[c] # None THEN tested[c] ELSE began[c]
           Excuse(c, b) ==
             \/ \E e \in before[c] : Position(e) > Position(b) /\ stamp[e] < stamp[b]
             \/ \E e \in before[c] : e \in forgotten
           ExcuseNext(c, b) ==
             \/ \E e \in before'[c] : Position(e)' > Position(b)' /\ stamp'[e] < stamp'[b]
             \/ \E e \in before'[c] : e \in forgotten'
<1> SUFFICES ASSUME NEW c \in Calls, NEW b \in before'[c],
                    pc'[c] \in {"now", "add", "print", "shown", "lost"},
                    (IF tested'[c] # None THEN tested'[c] ELSE began'[c]) - stamp'[b] < duration'[c]
             PROVE  ExcuseNext(c, b)
  BY DEF NoEarlyRepeat, Early, Overtaken, LetThrough
<1>x. ASSUME before[c] \subseteq Stored, before'[c] = before[c], Excuse(c, b)
      PROVE  ExcuseNext(c, b)
  BY <1>s, <1>f, <1>x
<1>1. \/ pc[c] \in {"now", "add", "print", "shown", "lost"}
      \/ Compare(c)
      \/ \E i \in Ids, d \in Durations : Get(c, i, d)
  BY CallSteps DEF Compare, TakeTime, Store, Printf, Get, TypeOK
<1>2. CASE pc[c] \in {"now", "add", "print", "shown", "lost"}
  <2>1. /\ before[c] \subseteq Stored
        /\ before'[c] = before[c] /\ duration'[c] = duration[c] /\ began'[c] = began[c]
        /\ tested'[c] = tested[c]
    BY <1>2, Frame DEF LookInv
  <2>2. b \in before[c] /\ stamp'[b] = stamp[b] /\ b \in Calls
    BY <1>s, <2>1, TypeFacts
  <2>3. looked(c) - stamp[b] < duration[c]
    BY <2>1, <2>2
  <2>4. Early(c, b)
    BY <1>2, <2>2, <2>3 DEF Early, LetThrough
  <2>5. Excuse(c, b)
    BY <2>2, <2>4 DEF NoEarlyRepeat, Overtaken
  <2> QED
    BY <1>x, <2>1, <2>5
<1>3. CASE Compare(c)
  <2>1. /\ before[c] \subseteq Stored
        /\ before'[c] = before[c] /\ duration'[c] = duration[c]
    BY <1>3, Frame DEF Compare, LookInv
  <2>2. b \in before[c] /\ b \in Stored /\ stamp'[b] = stamp[b]
    BY <1>s, <2>1
  <2>3. tested'[c] = now /\ ~(now - old[c] < duration[c])
    BY <1>3 DEF Compare, TypeOK
  <2>4. now \in Time /\ tested'[c] # None /\ duration[c] \in Nat
    <3>1. now \in Time /\ duration[c] \in Durations \cup {0}
      BY DEF TypeOK
    <3>2. Durations \cup {0} \subseteq Nat /\ None \notin Nat
      OBVIOUS
    <3>3. Time \subseteq Nat
      BY DEF Time
    <3> QED
      BY <2>3, <3>1, <3>2, <3>3
  <2>5. PICK d \in before[c] :
          old[c] = stamp[d] /\ (Newest(d, before[c]) \/ before[c] \cap forgotten # {})
    BY <1>3 DEF Compare, LookInv
  <2>6. stamp[d] \in Time /\ stamp[b] \in Time /\ d \in Stored
    BY <1>s, <2>1, <2>2, <2>5
  <2>7. now - stamp[b] < duration[c]
    BY <2>1, <2>2, <2>3, <2>4
  <2>8. stamp[d] < stamp[b]
    <3>1. ~(now - stamp[d] < duration[c])
      BY <2>3, <2>5
    <3> QED
      BY ONLY <2>4, <2>6, <2>7, <3>1, LimitedPrintAssumption DEF Time
  <2>9. CASE Newest(d, before[c])
    <3>1. Position(b) <= Position(d)
      BY <2>2, <2>9 DEF Newest
    <3>2. Position(d) > Position(b)
      BY <2>2, <2>6, <2>8, <3>1, LaterPosition
    <3>3. Excuse(c, b)
      BY <2>5, <2>8, <3>2
    <3> QED
      BY <1>x, <2>1, <3>3
  <2>10. CASE before[c] \cap forgotten # {}
    <3>1. Excuse(c, b)
      BY <2>10
    <3> QED
      BY <1>x, <2>1, <3>1
  <2> QED
    BY <2>5, <2>9, <2>10
<1>4. ASSUME NEW i \in Ids, NEW d \in Durations, Get(c, i, d)
      PROVE  ExcuseNext(c, b)
  <2>1. pc'[c] \in {"compare", "now"}
    BY <1>4 DEF Get, TypeOK
  <2>2. before'[c] = {} \/ before'[c] \cap forgotten' # {}
    BY <1>4, <2>1, LookEffect
  <2> QED
    BY <2>2
<1> QED
  BY <1>1, <1>2, <1>3, <1>4

-----------------------------------------------------------------------------
(* Every part of the invariant holds in every state, for any number of      *)
(* calls and ids, any capacity and any lifetime of the entries.             *)
THEOREM InvariantHolds == Spec => []LimitInv
<1>1. Init => LimitInv
  BY LimitInit
<1>2. LimitInv /\ [Next]_vars => LimitInv'
  BY TypeStep, StoredStep, EntryStep, NewestStep, LookStep, SilencedStep, NoEarlyStep DEF LimitInv
<1> QED
  BY <1>1, <1>2, PTL DEF Spec

(* LimitedPrintf silences a call only because of one of the same id that    *)
(* was recorded less than its duration before it compared.                  *)
THEOREM OnlyRecentCallsSilence == Spec => []SilencedByRecent
<1>1. LimitInv => SilencedByRecent
  BY DEF LimitInv
<1> QED
  BY <1>1, InvariantHolds, PTL

(* LimitedPrintf lets a message through too early only after a call that    *)
(* recorded an older time over a newer one, or after an entry was lost.     *)
THEOREM EarlyRepeatsAreExcused == Spec => []NoEarlyRepeat
<1>1. LimitInv => NoEarlyRepeat
  BY DEF LimitInv
<1> QED
  BY <1>1, InvariantHolds, PTL
=============================================================================
