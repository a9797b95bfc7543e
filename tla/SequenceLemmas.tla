--------------------------- MODULE SequenceLemmas ---------------------------
(***************************************************************************)
(* Facts about sequences that the proofs of several modules need.          *)
(***************************************************************************)
EXTENDS Integers, Sequences, SequencesExt, SequenceTheorems

(* What is left of a sequence when the element at k is removed: the others, *)
(* each moved one place down when it was behind k.                          *)
LEMMA RemoveAtProperties ==
  ASSUME NEW S, NEW s \in Seq(S), NEW k \in 1..Len(s)
  PROVE  /\ RemoveAt(s, k) \in Seq(S)
         /\ Len(RemoveAt(s, k)) = Len(s) - 1
         /\ \A i \in 1..Len(s) - 1 : RemoveAt(s, k)[i] = s[IF i < k THEN i ELSE i + 1]
<1>n. Len(s) \in Nat
  BY LenProperties
<1> DEFINE a == SubSeq(s, 1, k - 1)
           b == SubSeq(s, k + 1, Len(s))
<1>1. /\ a \in Seq(S) /\ Len(a) = k - 1
      /\ \A i \in 1..k - 1 : a[i] = s[i]
  <2>1. \A i \in 1..k - 1 : i \in 1..Len(s) /\ s[i] \in S
    BY <1>n, ElementOfSeq
  <2>2. /\ a \in Seq(S)
        /\ Len(a) = IF 1 <= k - 1 THEN k - 1 - 1 + 1 ELSE 0
        /\ \A i \in 1..k - 1 - 1 + 1 : a[i] = s[1 + i - 1]
    BY <2>1, <1>n, SubSeqProperties
  <2> HIDE DEF a
  <2> QED
    BY <1>n, <2>2
<1>2. /\ b \in Seq(S) /\ Len(b) = Len(s) - k
      /\ \A i \in 1..Len(s) - k : b[i] = s[k + i]
  <2>1. \A i \in k + 1..Len(s) : i \in 1..Len(s) /\ s[i] \in S
    BY <1>n, ElementOfSeq
  <2>2. /\ b \in Seq(S)
        /\ Len(b) = IF k + 1 <= Len(s) THEN Len(s) - (k + 1) + 1 ELSE 0
        /\ \A i \in 1..Len(s) - (k + 1) + 1 : b[i] = s[k + 1 + i - 1]
    BY <2>1, <1>n, SubSeqProperties
  <2> HIDE DEF b
  <2>3. \A i \in 1..Len(s) - k : i \in 1..Len(s) - (k + 1) + 1 /\ k + 1 + i - 1 = k + i
    BY <1>n
  <2> QED
    BY <1>n, <2>2, <2>3
<1> DEFINE c == RemoveAt(s, k)
<1>3. c = a \o b
  BY DEF RemoveAt
<1> HIDE DEF a, b, c
<1>4. /\ c \in Seq(S) /\ Len(c) = Len(a) + Len(b)
      /\ \A i \in 1..Len(a) + Len(b) : c[i] = IF i <= Len(a) THEN a[i] ELSE b[i - Len(a)]
  BY <1>1, <1>2, <1>3, ConcatProperties
<1>5. Len(c) = Len(s) - 1
  BY <1>n, <1>1, <1>2, <1>4
<1>6. ASSUME NEW i \in 1..Len(s) - 1
      PROVE  c[i] = s[IF i < k THEN i ELSE i + 1]
  <2>1. i \in 1..Len(a) + Len(b)
    BY <1>n, <1>1, <1>2
  <2>2. CASE i < k
    <3>1. i \in 1..k - 1 /\ i <= Len(a)
      BY <1>n, <1>1, <2>2
    <3> QED
      BY <1>1, <1>4, <2>1, <2>2, <3>1
  <2>3. CASE ~(i < k)
    <3>1. i - Len(a) \in 1..Len(s) - k /\ k + (i - Len(a)) = i + 1 /\ ~(i <= Len(a))
      BY <1>n, <1>1, <2>3
    <3> QED
      BY <1>2, <1>4, <2>1, <2>3, <3>1
  <2> QED
    BY <2>2, <2>3
<1> QED
  BY <1>4, <1>5, <1>6 DEF c

(* The place that an element of it had before.                              *)
OldPlace(n, k) == IF n < k THEN n ELSE n + 1

LEMMA RemoveAtElements ==
  ASSUME NEW S, NEW s \in Seq(S), NEW k \in 1..Len(s)
  PROVE  /\ \A n \in 1..Len(s) - 1 :
              /\ OldPlace(n, k) \in 1..Len(s) /\ OldPlace(n, k) # k
              /\ RemoveAt(s, k)[n] = s[OldPlace(n, k)]
         /\ \A n, o \in 1..Len(s) - 1 : OldPlace(n, k) = OldPlace(o, k) => n = o
         /\ \A i \in 1..Len(s) : i # k => \E n \in 1..Len(s) - 1 : RemoveAt(s, k)[n] = s[i]
<1>n. Len(s) \in Nat
  BY LenProperties
<1>1. \A n \in 1..Len(s) - 1 : RemoveAt(s, k)[n] = s[OldPlace(n, k)]
  BY RemoveAtProperties DEF OldPlace
<1>2. \A n \in 1..Len(s) - 1 : OldPlace(n, k) \in 1..Len(s) /\ OldPlace(n, k) # k
  BY <1>n DEF OldPlace
<1>3. \A n, o \in 1..Len(s) - 1 : OldPlace(n, k) = OldPlace(o, k) => n = o
  BY <1>n DEF OldPlace
<1>4. \A i \in 1..Len(s) : i # k => \E n \in 1..Len(s) - 1 : OldPlace(n, k) = i
  <2> SUFFICES ASSUME NEW i \in 1..Len(s), i # k
               PROVE  \E n \in 1..Len(s) - 1 : OldPlace(n, k) = i
    OBVIOUS
  <2>1. CASE i < k
    BY <1>n, <2>1 DEF OldPlace
  <2>2. CASE i > k
    <3>1. i - 1 \in 1..Len(s) - 1 /\ OldPlace(i - 1, k) = i
      BY <1>n, <2>2 DEF OldPlace
    <3> QED
      BY <3>1
  <2> QED
    BY <1>n, <2>1, <2>2
<1> QED
  BY <1>1, <1>2, <1>3, <1>4

(* An element is added at the end. *)
LEMMA AppendElements ==
  ASSUME NEW S, NEW s \in Seq(S), NEW e \in S
  PROVE  /\ Append(s, e) \in Seq(S) /\ Append(s, e) # <<>>
         /\ Len(Append(s, e)) = Len(s) + 1 /\ Len(s) \in Nat
         /\ DOMAIN Append(s, e) = 1..Len(s) + 1 /\ DOMAIN s = 1..Len(s)
         /\ \A n \in 1..Len(s) : Append(s, e)[n] = s[n]
         /\ Append(s, e)[Len(s) + 1] = e
         /\ ToSet(Append(s, e)) = ToSet(s) \cup {e}
<1> DEFINE r == Append(s, e)
<1>1. /\ r \in Seq(S) /\ r # <<>> /\ Len(r) = Len(s) + 1
      /\ \A n \in 1..Len(s) : r[n] = s[n]
      /\ r[Len(s) + 1] = e
  BY AppendProperties
<1> HIDE DEF r
<1>2. Len(s) \in Nat /\ DOMAIN s = 1..Len(s) /\ DOMAIN r = 1..Len(s) + 1
  BY <1>1, LenProperties
<1>3. ToSet(r) = ToSet(s) \cup {e}
  <2>1. \A n \in 1..Len(s) + 1 : n \in 1..Len(s) \/ n = Len(s) + 1
    BY <1>2
  <2>2. (\A n \in 1..Len(s) : n \in 1..Len(s) + 1) /\ Len(s) + 1 \in 1..Len(s) + 1
    BY <1>2
  <2> QED
    BY <1>1, <1>2, <2>1, <2>2 DEF ToSet
<1> QED
  BY <1>1, <1>2, <1>3 DEF r

(* The first element is taken away. *)
LEMMA TailElements ==
  ASSUME NEW S, NEW s \in Seq(S), s # <<>>
  PROVE  /\ Tail(s) \in Seq(S) /\ Len(Tail(s)) = Len(s) - 1 /\ Len(s) \in Nat \ {0}
         /\ DOMAIN Tail(s) = 1..Len(s) - 1 /\ DOMAIN s = 1..Len(s)
         /\ \A n \in 1..Len(s) - 1 : n + 1 \in 1..Len(s) /\ Tail(s)[n] = s[n + 1]
         /\ Head(s) \in S /\ Head(s) = s[1]
         /\ ToSet(s) = ToSet(Tail(s)) \cup {Head(s)}
<1> DEFINE t == Tail(s)
<1>1. /\ t \in Seq(S) /\ Len(t) = Len(s) - 1
      /\ \A n \in 1..Len(t) : t[n] = s[n + 1]
      /\ Head(s) \in S /\ Head(s) = s[1]
  BY HeadTailProperties
<1> HIDE DEF t
<1>2. Len(s) \in Nat \ {0} /\ DOMAIN s = 1..Len(s)
  BY EmptySeq, LenProperties
<1>3. DOMAIN t = 1..Len(s) - 1
  BY <1>1, LenProperties
<1>4. \A n \in 1..Len(s) - 1 : n + 1 \in 1..Len(s)
  BY <1>2
<1>5. ToSet(s) = ToSet(t) \cup {Head(s)}
  <2>1. ASSUME NEW n \in 1..Len(s), n # 1
        PROVE  \E i \in 1..Len(s) - 1 : t[i] = s[n]
    <3>1. n - 1 \in 1..Len(s) - 1 /\ (n - 1) + 1 = n
      BY <1>2, <2>1
    <3>2. t[n - 1] = s[(n - 1) + 1]
      BY <1>1, <3>1
    <3> QED
      BY <3>1, <3>2
  <2>2. ToSet(s) = {s[n] : n \in 1..Len(s)} /\ ToSet(t) = {t[n] : n \in 1..Len(s) - 1}
    BY <1>2, <1>3 DEF ToSet
  <2>3. ASSUME NEW x \in ToSet(s)
        PROVE  x \in ToSet(t) \cup {Head(s)}
    <3>1. PICK n \in 1..Len(s) : x = s[n]
      BY <2>2
    <3>2. CASE n = 1
      BY <1>1, <3>1, <3>2
    <3>3. CASE n # 1
      BY <2>1, <2>2, <3>1, <3>3
    <3> QED
      BY <3>2, <3>3
  <2>4. 1 \in 1..Len(s)
    BY <1>2
  <2>5. ToSet(t) \cup {Head(s)} \subseteq ToSet(s)
    BY <1>1, <1>4, <2>2, <2>4
  <2> QED
    BY <2>3, <2>5
<1> QED
  BY <1>1, <1>2, <1>3, <1>4, <1>5 DEF t
=============================================================================
