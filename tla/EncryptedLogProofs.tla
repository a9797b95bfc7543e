------------------------- MODULE EncryptedLogProofs -------------------------
(***************************************************************************)
(* Proofs about the encryption of lines: a message printed after a key was *)
(* set, by the goroutine that set it or one that knows of it, is never     *)
(* written under an older key or as plain text, although the consumer      *)
(* reads l.encryptionKey without the mutex it is written under.            *)
(* And about the files: the decrypter gets back what was printed under its *)
(* key, in order, up to the first line that ends it.                       *)
(***************************************************************************)
EXTENDS EncryptedLog, SequenceLemmas, SequenceTheorems, TLAPS

LEMMA MaxOfTwo ==
  ASSUME NEW a \in Nat, NEW b \in Nat
  PROVE  Max({a, b}) \in {a, b} /\ a <= Max({a, b}) /\ b <= Max({a, b})
<1>1. \E x \in {a, b} : \A y \in {a, b} : x >= y
  OBVIOUS
<1>2. Max({a, b}) \in {a, b} /\ \A y \in {a, b} : Max({a, b}) >= y
  BY <1>1 DEF Max
<1> QED
  BY <1>2

(* The types, in the form the steps need them. *)
LEMMA TypeFacts ==
  ASSUME TypeOK, NEW l \in Loggers
  PROVE  /\ keyLog[l] \in Seq(Keys \cup {None}) /\ Len(keyLog[l]) \in Nat
         /\ DOMAIN keyLog[l] = 1..Len(keyLog[l])
         /\ aware[l] \in Nat
         /\ \A m \in Msgs : after[m][l] \in Nat
<1>1. keyLog[l] \in Seq(Keys \cup {None})
  BY DEF TypeOK
<1>2. aware[l] \in Nat /\ \A m \in Msgs : after[m][l] \in Nat
  BY DEF TypeOK
<1> QED
  BY <1>1, <1>2, LenProperties

(* A line is added to those of its file. *)
LEMMA LineAdded ==
  ASSUME TypeOK, NEW f \in Names, NEW line \in Line, file' = [file EXCEPT ![f] = Append(@, line)]
  PROVE  file' \in [Names -> Seq(Line)] /\ Lines' = Lines \cup {line}
<1>1. file[f] \in Seq(Line)
  BY DEF TypeOK
<1>2. PICK s : s = Append(file[f], line)
  OBVIOUS
<1>3. /\ s \in Seq(Line) /\ Len(s) = Len(file[f]) + 1 /\ Len(file[f]) \in Nat
      /\ \A i \in 1..Len(file[f]) : s[i] = file[f][i]
      /\ s[Len(file[f]) + 1] = line
      /\ DOMAIN s = 1..Len(file[f]) + 1 /\ DOMAIN file[f] = 1..Len(file[f])
  <2>1. Append(file[f], line) \in Seq(Line) /\ Len(file[f]) \in Nat
        /\ Len(Append(file[f], line)) = Len(file[f]) + 1
        /\ \A i \in 1..Len(file[f]) : Append(file[f], line)[i] = file[f][i]
        /\ Append(file[f], line)[Len(file[f]) + 1] = line
    BY <1>1, AppendProperties, LenProperties
  <2> QED
    BY <1>1, <1>2, <2>1, LenProperties
<1>4. ToSet(s) = ToSet(file[f]) \cup {line}
  <2>1. \A i \in 1..Len(file[f]) + 1 : i \in 1..Len(file[f]) \/ i = Len(file[f]) + 1
    BY <1>3
  <2>2. \A i \in 1..Len(file[f]) : i \in 1..Len(file[f]) + 1
    BY <1>3
  <2>3. Len(file[f]) + 1 \in 1..Len(file[f]) + 1
    BY <1>3
  <2> QED
    BY <1>3, <2>1, <2>2, <2>3 DEF ToSet
<1>5. /\ file' \in [Names -> Seq(Line)]
      /\ \A g \in Names : ToSet(file'[g]) = IF g = f THEN ToSet(file[f]) \cup {line} ELSE ToSet(file[g])
  <2>1. file' = [g \in Names |-> IF g = f THEN s ELSE file[g]]
    BY <1>2 DEF TypeOK
  <2> QED
    BY <1>3, <1>4, <2>1 DEF TypeOK
<1> QED
  BY <1>5 DEF Lines

(* The ways in which the consumer is done with a message. *)
Handling == ConsumerWrite \/ WritePlain \/ OpenFails \/ WriteFails

-----------------------------------------------------------------------------
(* Setting a key keeps the earlier ones in their places. *)
LEMMA KeysKept ==
  ASSUME TypeOK, [Next]_vars, NEW l \in Loggers
  PROVE  /\ Len(keyLog[l]) <= Len(keyLog'[l]) /\ Len(keyLog'[l]) \in Nat
         /\ DOMAIN keyLog'[l] = 1..Len(keyLog'[l])
         /\ \A i \in 1..Len(keyLog[l]) : i \in 1..Len(keyLog'[l]) /\ keyLog'[l][i] = keyLog[l][i]
         /\ keyLog'[l] = keyLog[l] \/ \E k \in Keys : keyLog'[l] = Append(keyLog[l], k)
<1>t. keyLog[l] \in Seq(Keys \cup {None}) /\ Len(keyLog[l]) \in Nat /\ DOMAIN keyLog[l] = 1..Len(keyLog[l])
  BY TypeFacts
<1>1. ASSUME NEW k \in Keys, keyLog'[l] = Append(keyLog[l], k)
      PROVE  /\ Len(keyLog[l]) <= Len(keyLog'[l]) /\ Len(keyLog'[l]) \in Nat
             /\ DOMAIN keyLog'[l] = 1..Len(keyLog'[l])
             /\ \A i \in 1..Len(keyLog[l]) : i \in 1..Len(keyLog'[l]) /\ keyLog'[l][i] = keyLog[l][i]
  <2>1. PICK s : s = Append(keyLog[l], k) /\ s = keyLog'[l]
    BY <1>1
  <2>2. /\ s \in Seq(Keys \cup {None}) /\ Len(s) = Len(keyLog[l]) + 1
        /\ \A i \in 1..Len(keyLog[l]) : s[i] = keyLog[l][i]
    <3>1. k \in Keys \cup {None}
      OBVIOUS
    <3>2. /\ Append(keyLog[l], k) \in Seq(Keys \cup {None})
          /\ Len(Append(keyLog[l], k)) = Len(keyLog[l]) + 1
          /\ \A i \in 1..Len(keyLog[l]) : Append(keyLog[l], k)[i] = keyLog[l][i]
      BY <1>t, <3>1, AppendProperties
    <3> QED
      BY ONLY <2>1, <3>2
  <2> QED
    BY <1>t, <2>1, <2>2, LenProperties
<1>2. keyLog'[l] = keyLog[l] \/ \E k \in Keys : keyLog'[l] = Append(keyLog[l], k)
  BY DEF Next, SetGlobalEncryption, SetEncryptionKey, LoggerPrint, Receive, OpenLog, OpenFails, PickKey,
         ConsumerWrite, WritePlain, WriteFails, vars, keyVars, chanVars, msgVars, TypeOK
<1> QED
  BY <1>t, <1>1, <1>2

(* A message keeps the logger it was printed to and what was known then; a  *)
(* global key stays set; an encryption that failed has failed.              *)
LEMMA Frame ==
  ASSUME TypeOK, [Next]_vars
  PROVE  /\ \A m \in Msgs : to[m] # None => to'[m] = to[m] /\ after'[m] = after[m] /\ global'[m] = global[m]
         /\ globalKey # None => globalKey' # None
         /\ failed \subseteq failed' /\ lost \subseteq lost'
<1> USE EncryptionAssumption
<1>1. ASSUME NEW p \in Goroutines, NEW l \in Loggers, NEW m \in Msgs, NEW c \in Kinds, LoggerPrint(p, l, m, c)
      PROVE  /\ \A q \in Msgs : to[q] # None => to'[q] = to[q] /\ after'[q] = after[q] /\ global'[q] = global[q]
             /\ globalKey' = globalKey /\ failed' = failed /\ lost' = lost
  BY <1>1 DEF LoggerPrint, TypeOK, keyVars, fileVars
<1>2. ASSUME NEW k \in Keys, SetGlobalEncryption(k)
      PROVE  UNCHANGED msgVars /\ globalKey' # None /\ failed' = failed /\ lost' = lost
  BY <1>2 DEF SetGlobalEncryption, fileVars
<1>3. CASE \/ \E p \in Goroutines, l \in Loggers, k \in Keys : SetEncryptionKey(p, l, k)
           \/ Receive \/ OpenLog \/ OpenFails \/ PickKey \/ ConsumerWrite \/ WritePlain \/ WriteFails
           \/ UNCHANGED vars
  <2>1. UNCHANGED msgVars /\ globalKey' = globalKey /\ failed \subseteq failed' /\ lost \subseteq lost'
    BY <1>3 DEF SetEncryptionKey, Receive, OpenLog, OpenFails, PickKey, ConsumerWrite, WritePlain, WriteFails,
                vars, keyVars, fileVars
  <2> QED
    BY <2>1 DEF msgVars
<1> QED
  BY <1>1, <1>2, <1>3 DEF Next, msgVars

(* A line that was written rightly stays so.                                *)
LEMMA OldLines ==
  ASSUME TypeOK, KnowledgeInv, HandInv, KeyRespected, GlobalRespected, [Next]_vars, NEW line \in Lines,
         line.msg \in Msgs
  PROVE  /\ to'[line.msg] \in Loggers
         /\ after'[line.msg][to'[line.msg]] > 1 /\ line.msg \notin failed' =>
              line.key \in {keyLog'[to'[line.msg]][i] : i \in after'[line.msg][to'[line.msg]]..Len(keyLog'[to'[line.msg]])}
         /\ global'[line.msg] # None /\ line.msg \notin failed' => line.key # None
<1>1. PICK l \in Loggers : l = to[line.msg]
  BY DEF HandInv
<1>2. l # None
  BY EncryptionAssumption
<1>3. /\ to'[line.msg] = l /\ after'[line.msg] = after[line.msg]
      /\ global'[line.msg] = global[line.msg] /\ failed \subseteq failed'
  BY <1>1, <1>2, Frame
<1>4. /\ Len(keyLog[l]) <= Len(keyLog'[l]) /\ Len(keyLog'[l]) \in Nat /\ Len(keyLog[l]) \in Nat
      /\ \A i \in 1..Len(keyLog[l]) : i \in 1..Len(keyLog'[l]) /\ keyLog'[l][i] = keyLog[l][i]
  BY KeysKept, TypeFacts
<1>5. after[line.msg][l] \in Nat
  BY TypeFacts
<1>6. ASSUME after[line.msg][l] > 1, line.msg \notin failed'
      PROVE  line.key \in {keyLog'[l][i] : i \in after[line.msg][l]..Len(keyLog'[l])}
  <2>1. PICK i \in after[line.msg][l]..Len(keyLog[l]) : line.key = keyLog[l][i]
    BY <1>1, <1>3, <1>6 DEF KeyRespected
  <2>2. i \in 1..Len(keyLog[l])
    BY <1>4, <1>5, <1>6
  <2>3. i \in after[line.msg][l]..Len(keyLog'[l]) /\ keyLog'[l][i] = keyLog[l][i]
    BY <1>4, <1>5, <2>2
  <2> QED
    BY <2>1, <2>3
<1>7. global'[line.msg] # None /\ line.msg \notin failed' => line.key # None
  BY <1>3 DEF GlobalRespected
<1> QED
  BY <1>1, <1>3, <1>6, <1>7

-----------------------------------------------------------------------------
LEMMA EncryptionInit == Init => EncryptionInv
<1> SUFFICES ASSUME Init
             PROVE  EncryptionInv
  OBVIOUS
<1> USE EncryptionAssumption
<1>1. Lines = {}
  <2>1. \A f \in Names : ToSet(file[f]) = {}
    BY DEF Init, ToSet
  <2> QED
    BY <2>1 DEF Lines
<1>2. <<None>> \in Seq(Keys \cup {None}) /\ Len(<<None>>) = 1 /\ DOMAIN <<None>> = {1}
  OBVIOUS
<1>3. TypeOK
  BY <1>2 DEF Init, TypeOK
<1>4. KnowledgeInv
  BY <1>2 DEF Init, KnowledgeInv
<1>5. GlobalInv
  BY DEF Init, GlobalInv
<1>6. HandInv
  <2>1. ToSet(tologCh) = {}
    BY DEF Init, ToSet
  <2> QED
    BY <1>1, <2>1 DEF Init, HandInv
<1>7. KeyRespected /\ GlobalRespected
  BY <1>1 DEF KeyRespected, GlobalRespected
<1>8. SentInv /\ FileInv /\ SourceInv
  <2>1. /\ sent = <<>> /\ tologCh = <<>> /\ Len(sent) = 0 /\ Len(tologCh) = 0 /\ Handled = 0
        /\ 1..Handled = {} /\ \A f \in Names : DOMAIN file[f] = {}
    BY DEF Init, Taken, Handled
  <2> QED
    BY <1>1, <1>2, <2>1 DEF Init, SentInv, FileInv, SourceInv
<1> QED
  BY <1>3, <1>4, <1>5, <1>6, <1>7, <1>8 DEF EncryptionInv

(* The channel gives back what was put in. *)
LEMMA ChannelSteps ==
  ASSUME TypeOK
  PROVE  /\ \A m \in Msgs : Append(tologCh, m) \in Seq(Msgs) /\ ToSet(Append(tologCh, m)) = ToSet(tologCh) \cup {m}
         /\ tologCh # <<>> =>
              /\ Head(tologCh) \in Msgs /\ Head(tologCh) \in ToSet(tologCh)
              /\ Tail(tologCh) \in Seq(Msgs) /\ ToSet(Tail(tologCh)) \subseteq ToSet(tologCh)
<1>1. tologCh \in Seq(Msgs) /\ Len(tologCh) \in Nat /\ DOMAIN tologCh = 1..Len(tologCh)
  BY LenProperties DEF TypeOK
<1>2. ASSUME NEW m \in Msgs
      PROVE  Append(tologCh, m) \in Seq(Msgs) /\ ToSet(Append(tologCh, m)) = ToSet(tologCh) \cup {m}
  <2>1. PICK s : s = Append(tologCh, m)
    OBVIOUS
  <2>2. /\ s \in Seq(Msgs) /\ Len(s) = Len(tologCh) + 1
        /\ \A i \in 1..Len(tologCh) : s[i] = tologCh[i]
        /\ s[Len(tologCh) + 1] = m
    <3>1. /\ Append(tologCh, m) \in Seq(Msgs) /\ Len(Append(tologCh, m)) = Len(tologCh) + 1
          /\ \A i \in 1..Len(tologCh) : Append(tologCh, m)[i] = tologCh[i]
          /\ Append(tologCh, m)[Len(tologCh) + 1] = m
      BY <1>1, AppendProperties
    <3> QED
      BY ONLY <2>1, <3>1
  <2>3. DOMAIN s = 1..Len(tologCh) + 1
    BY <2>2, LenProperties
  <2>4. \A i \in 1..Len(tologCh) + 1 : i \in 1..Len(tologCh) \/ i = Len(tologCh) + 1
    BY <1>1
  <2>5. (\A i \in 1..Len(tologCh) : i \in 1..Len(tologCh) + 1) /\ Len(tologCh) + 1 \in 1..Len(tologCh) + 1
    BY <1>1
  <2>6. ToSet(s) = ToSet(tologCh) \cup {m}
    BY <1>1, <2>2, <2>3, <2>4, <2>5 DEF ToSet
  <2> QED
    BY <2>1, <2>2, <2>6
<1>3. ASSUME tologCh # <<>>
      PROVE  /\ Head(tologCh) \in Msgs /\ Head(tologCh) \in ToSet(tologCh)
             /\ Tail(tologCh) \in Seq(Msgs) /\ ToSet(Tail(tologCh)) \subseteq ToSet(tologCh)
  <2>1. /\ Head(tologCh) \in Msgs /\ Head(tologCh) = tologCh[1]
        /\ Tail(tologCh) \in Seq(Msgs) /\ Len(Tail(tologCh)) = Len(tologCh) - 1
        /\ \A i \in 1..Len(Tail(tologCh)) : Tail(tologCh)[i] = tologCh[i + 1]
    BY <1>1, <1>3, HeadTailProperties
  <2>2. Len(tologCh) > 0
    BY <1>1, <1>3, EmptySeq
  <2>3. 1 \in DOMAIN tologCh
    BY <1>1, <2>2
  <2>4. DOMAIN Tail(tologCh) = 1..Len(tologCh) - 1
    BY <2>1, LenProperties
  <2>5. \A i \in 1..Len(tologCh) - 1 : i + 1 \in 1..Len(tologCh)
    BY <1>1
  <2>6. ToSet(Tail(tologCh)) \subseteq ToSet(tologCh)
    BY <1>1, <2>1, <2>4, <2>5 DEF ToSet
  <2> QED
    BY <2>1, <2>3, <2>6 DEF ToSet
<1> QED
  BY <1>2, <1>3

(* A step of the consumer that writes adds one line, that of its message.   *)
LEMMA WriteEffect ==
  ASSUME TypeOK, HandInv, pc = "write", NEW k \in Keys \cup {None}, WriteLine(k)
  PROVE  \E line \in Line : /\ line.msg = hand /\ line.key = k
                            /\ Lines' = Lines \cup {line} /\ file' \in [Names -> Seq(Line)]
<1>1. hand \in Msgs /\ to[hand] \in Loggers
  BY DEF HandInv
<1>2. NameOf[to[hand]] \in Names
  BY <1>1, EncryptionAssumption
<1>3. PICK line \in Line : line = [msg |-> hand, key |-> k] /\ line.msg = hand /\ line.key = k
  <2>1. [msg |-> hand, key |-> k] \in Line
    BY <1>1 DEF Line
  <2> QED
    BY <2>1
<1>4. file' = [file EXCEPT ![NameOf[to[hand]]] = Append(@, line)]
  BY <1>3 DEF WriteLine
<1> QED
  BY <1>2, <1>3, <1>4, LineAdded

LEMMA TypeStep ==
  ASSUME TypeOK, KnowledgeInv, HandInv, [Next]_vars
  PROVE  TypeOK'
<1> USE EncryptionAssumption
<1>k. \A l \in Loggers : /\ keyLog[l] \in Seq(Keys \cup {None}) /\ Len(keyLog[l]) \in Nat
                         /\ DOMAIN keyLog[l] = 1..Len(keyLog[l])
  BY TypeFacts
<1>n. \A p \in Goroutines, l \in Loggers : knows'[p][l] <= Len(keyLog'[l]) /\ knows'[p][l] \in Nat \ {0}
  <2> SUFFICES ASSUME NEW q \in Goroutines, NEW m \in Loggers
               PROVE  knows'[q][m] <= Len(keyLog'[m]) /\ knows'[q][m] \in Nat \ {0}
    OBVIOUS
  <2>1. knows[q][m] <= Len(keyLog[m]) /\ knows[q][m] \in Nat \ {0}
    BY DEF TypeOK
  <2>2. ASSUME NEW p \in Goroutines, NEW l \in Loggers, NEW k \in Keys, SetEncryptionKey(p, l, k)
        PROVE  knows'[q][m] <= Len(keyLog'[m]) /\ knows'[q][m] \in Nat \ {0}
    <3>1. Len(keyLog[m]) <= Len(keyLog'[m]) /\ Len(keyLog'[m]) \in Nat /\ Len(keyLog[m]) \in Nat
      BY <1>k, KeysKept
    <3>2. CASE q = p /\ m = l
      <4>1. knows'[q][m] = Len(keyLog[m]) + 1 /\ keyLog'[m] = Append(keyLog[m], k)
        BY <2>2, <3>2 DEF SetEncryptionKey, TypeOK
      <4>2. Len(Append(keyLog[m], k)) = Len(keyLog[m]) + 1
        BY <1>k, AppendProperties
      <4> QED
        BY <3>1, <4>1, <4>2
    <3>3. CASE ~(q = p /\ m = l)
      <4>1. knows'[q][m] = knows[q][m]
        BY <2>2, <3>3 DEF SetEncryptionKey, TypeOK
      <4> QED
        BY <2>1, <3>1, <4>1
    <3> QED
      BY <3>2, <3>3
  <2>3. CASE UNCHANGED <<keyLog, knows>>
    BY <2>1, <2>3
  <2> QED
    BY <2>2, <2>3 DEF Next, SetGlobalEncryption, LoggerPrint, Receive, OpenLog, OpenFails, PickKey,
                      ConsumerWrite, WritePlain, WriteFails, vars, keyVars
<1>1. ASSUME NEW k \in Keys, SetGlobalEncryption(k)
      PROVE  TypeOK'
  BY <1>1, <1>n DEF SetGlobalEncryption, TypeOK, chanVars, msgVars, fileVars
<1>2. ASSUME NEW p \in Goroutines, NEW l \in Loggers, NEW k \in Keys, SetEncryptionKey(p, l, k)
      PROVE  TypeOK'
  <2>1. Append(keyLog[l], k) \in Seq(Keys \cup {None}) /\ Len(keyLog[l]) + 1 \in Nat \ {0}
    <3>1. k \in Keys \cup {None}
      OBVIOUS
    <3> QED
      BY <1>k, <3>1, AppendProperties
  <2>2. keyLog' \in [Loggers -> Seq(Keys \cup {None})]
    BY <1>2, <2>1 DEF SetEncryptionKey, TypeOK
  <2>3. knows' \in [Goroutines -> [Loggers -> Nat \ {0}]]
    BY <1>2, <2>1 DEF SetEncryptionKey, TypeOK
  <2>4. UNCHANGED <<globalKey, tologCh, sent, pc, aware, hand, log, enckey, to, kind, after, global,
                    failed, lost, file>>
    BY <1>2 DEF SetEncryptionKey, chanVars, msgVars, fileVars
  <2> QED
    BY <1>n, <2>2, <2>3, <2>4 DEF TypeOK
<1>3. ASSUME NEW p \in Goroutines, NEW l \in Loggers, NEW m \in Msgs, NEW c \in Kinds, LoggerPrint(p, l, m, c)
      PROVE  TypeOK'
  <2>1. tologCh' \in Seq(Msgs) /\ sent' \in Seq(Msgs)
    BY <1>3, ChannelSteps, AppendProperties DEF LoggerPrint, TypeOK
  <2>2. after' \in [Msgs -> [Loggers -> Nat \ {0}]]
    BY <1>3 DEF LoggerPrint, TypeOK
  <2>3. /\ to' \in [Msgs -> Loggers \cup {None}]
        /\ kind' \in [Msgs -> Kinds \cup {"none"}]
        /\ global' \in [Msgs -> Keys \cup {None}]
    BY <1>3 DEF LoggerPrint, TypeOK
  <2>4. UNCHANGED <<keyLog, knows, globalKey, pc, aware, hand, log, enckey, failed, lost, file>>
    BY <1>3 DEF LoggerPrint, keyVars, fileVars
  <2> QED
    BY <2>1, <2>2, <2>3, <2>4 DEF TypeOK
<1>4. CASE Receive
  <2>1. Head(tologCh) \in Msgs /\ Tail(tologCh) \in Seq(Msgs)
    BY <1>4, ChannelSteps DEF Receive
  <2>2. aware' \in [Loggers -> Nat \ {0}]
    <3>1. \A l \in Loggers : aware[l] \in Nat \ {0} /\ after[Head(tologCh)][l] \in Nat \ {0}
      BY <2>1 DEF TypeOK
    <3>2. \A l \in Loggers : Max({aware[l], after[Head(tologCh)][l]}) \in Nat \ {0}
      BY <3>1, MaxOfTwo
    <3> QED
      BY <1>4, <3>2 DEF Receive, Learn
  <2>3. /\ hand' = Head(tologCh) /\ tologCh' = Tail(tologCh) /\ pc' = "open"
        /\ UNCHANGED <<keyLog, knows, globalKey, sent, log, enckey, to, kind, after, global, failed, lost, file>>
    BY <1>4 DEF Receive, keyVars, msgVars, fileVars
  <2> QED
    BY <2>1, <2>2, <2>3 DEF TypeOK
<1>5. CASE PickKey
  <2>1. \A k \in Visible(to[hand]) : k \in Keys \cup {None}
    <3>1. to[hand] \in Loggers
      BY <1>5 DEF PickKey, HandInv
    <3>2. aware[to[hand]] \in 1..Len(keyLog[to[hand]])
      BY <1>k, <3>1 DEF KnowledgeInv
    <3>3. \A i \in 1..Len(keyLog[to[hand]]) : keyLog[to[hand]][i] \in Keys \cup {None}
      BY <1>k, <3>1, ElementOfSeq
    <3>4. \A i \in aware[to[hand]]..Len(keyLog[to[hand]]) : i \in 1..Len(keyLog[to[hand]])
      BY <1>k, <3>1, <3>2
    <3> QED
      BY <3>3, <3>4 DEF Visible
  <2>2. enckey' \in Keys \cup {None}
    BY <1>5, <2>1 DEF PickKey, TypeOK
  <2>3. /\ pc' = "write"
        /\ UNCHANGED <<keyLog, knows, globalKey, tologCh, sent, aware, hand, log, to, kind, after, global,
                       failed, lost, file>>
    BY <1>5 DEF PickKey, keyVars, chanVars, msgVars, fileVars
  <2> QED
    BY <2>2, <2>3 DEF TypeOK
<1>6. CASE ConsumerWrite
  <2>1. file' \in [Names -> Seq(Line)]
    BY <1>6, WriteEffect DEF ConsumerWrite, TypeOK
  <2> QED
    BY <1>6, <2>1 DEF ConsumerWrite, Handed, TypeOK, keyVars, chanVars, msgVars
<1>7. CASE WritePlain
  <2>1. file' \in [Names -> Seq(Line)]
    BY <1>7, WriteEffect DEF WritePlain
  <2>2. hand \in Msgs
    BY <1>7 DEF WritePlain, HandInv
  <2> QED
    BY <1>7, <2>1, <2>2 DEF WritePlain, Handed, TypeOK, keyVars, chanVars, msgVars
<1>8. CASE OpenFails \/ WriteFails
  <2>1. hand \in Msgs
    BY <1>8 DEF OpenFails, WriteFails, HandInv
  <2> QED
    BY <1>8, <2>1 DEF OpenFails, WriteFails, Handed, TypeOK, keyVars, chanVars, msgVars
<1>9. CASE OpenLog
  <2>1. to[hand] \in Loggers
    BY <1>9 DEF OpenLog, HandInv
  <2> QED
    BY <1>9, <2>1 DEF OpenLog, TypeOK, keyVars, chanVars, msgVars, fileVars
<1>10. CASE UNCHANGED vars
  BY <1>10 DEF vars, keyVars, chanVars, msgVars, fileVars, TypeOK
<1> QED
  BY <1>1, <1>2, <1>3, <1>4, <1>5, <1>6, <1>7, <1>8, <1>9, <1>10 DEF Next

LEMMA KnowledgeStep ==
  ASSUME TypeOK, TypeOK', KnowledgeInv, HandInv, [Next]_vars
  PROVE  KnowledgeInv'
<1> SUFFICES ASSUME NEW l \in Loggers
             PROVE  /\ aware'[l] \in DOMAIN keyLog'[l]
                    /\ \A p \in Goroutines : knows'[p][l] \in DOMAIN keyLog'[l]
                    /\ \A m \in Msgs : after'[m][l] \in DOMAIN keyLog'[l]
                    /\ \A i \in DOMAIN keyLog'[l] : i > 1 => keyLog'[l][i] \in Keys
  BY DEF KnowledgeInv
<1>k. /\ DOMAIN keyLog[l] = 1..Len(keyLog[l]) /\ DOMAIN keyLog'[l] = 1..Len(keyLog'[l])
      /\ Len(keyLog[l]) \in Nat /\ Len(keyLog'[l]) \in Nat
      /\ \A i \in 1..Len(keyLog[l]) : i \in 1..Len(keyLog'[l]) /\ keyLog'[l][i] = keyLog[l][i]
      /\ keyLog[l] \in Seq(Keys \cup {None})
  BY TypeFacts, KeysKept
<1>o. /\ aware[l] \in DOMAIN keyLog'[l]
      /\ \A p \in Goroutines : knows[p][l] \in DOMAIN keyLog'[l]
      /\ \A m \in Msgs : after[m][l] \in DOMAIN keyLog'[l]
  BY <1>k DEF KnowledgeInv
<1>1. aware'[l] \in DOMAIN keyLog'[l]
  <2>1. CASE Receive
    <3>1. Head(tologCh) \in Msgs
      BY <2>1, ChannelSteps DEF Receive
    <3>2. aware'[l] \in {aware[l], after[Head(tologCh)][l]}
      <4>1. aware[l] \in Nat /\ after[Head(tologCh)][l] \in Nat
        BY <3>1, TypeFacts
      <4> QED
        BY <2>1, <4>1, MaxOfTwo DEF Receive, Learn
    <3> QED
      BY <1>o, <3>1, <3>2
  <2>2. CASE aware' = aware
    BY <1>o, <2>2
  <2> QED
    BY <2>1, <2>2 DEF Next, SetGlobalEncryption, SetEncryptionKey, LoggerPrint, OpenLog, OpenFails, PickKey,
                      ConsumerWrite, WritePlain, WriteFails, vars
<1>2. \A p \in Goroutines : knows'[p][l] \in DOMAIN keyLog'[l]
  <2>1. \A p \in Goroutines : knows'[p][l] \in Nat \ {0} /\ knows'[p][l] <= Len(keyLog'[l])
    BY DEF TypeOK
  <2> QED
    BY <1>k, <2>1
<1>3. \A m \in Msgs : after'[m][l] \in DOMAIN keyLog'[l]
  <2>1. ASSUME NEW p \in Goroutines, NEW g \in Loggers, NEW m \in Msgs, NEW c \in Kinds, LoggerPrint(p, g, m, c)
        PROVE  \A q \in Msgs : after'[q][l] \in DOMAIN keyLog'[l]
    <3>1. \A q \in Msgs : after'[q] = after[q] \/ after'[q] = knows[p]
      BY <2>1 DEF LoggerPrint, TypeOK
    <3> QED
      BY <1>o, <3>1
  <2>2. CASE after' = after
    BY <1>o, <2>2
  <2> QED
    BY <2>1, <2>2 DEF Next, SetGlobalEncryption, SetEncryptionKey, Receive, OpenLog, OpenFails, PickKey,
                      ConsumerWrite, WritePlain, WriteFails, vars, msgVars
<1>4. \A i \in DOMAIN keyLog'[l] : i > 1 => keyLog'[l][i] \in Keys
  <2>o. \A i \in 1..Len(keyLog[l]) : i > 1 => keyLog'[l][i] \in Keys
    BY <1>k DEF KnowledgeInv
  <2>1. ASSUME NEW k \in Keys, keyLog'[l] = Append(keyLog[l], k)
        PROVE  \A i \in DOMAIN keyLog'[l] : i > 1 => keyLog'[l][i] \in Keys
    <3>1. PICK s : s = keyLog'[l]
      OBVIOUS
    <3>2. Len(s) = Len(keyLog[l]) + 1 /\ s[Len(keyLog[l]) + 1] = k
      <4>1. k \in Keys \cup {None}
        OBVIOUS
      <4>2. /\ Len(Append(keyLog[l], k)) = Len(keyLog[l]) + 1
            /\ Append(keyLog[l], k)[Len(keyLog[l]) + 1] = k
        BY <1>k, <4>1, AppendProperties
      <4> QED
        BY ONLY <2>1, <3>1, <4>2
    <3>3. \A i \in 1..Len(s) : i \in 1..Len(keyLog[l]) \/ i = Len(keyLog[l]) + 1
      BY <1>k, <3>2
    <3> QED
      BY <1>k, <2>o, <3>1, <3>2, <3>3
  <2>2. CASE keyLog'[l] = keyLog[l]
    BY <1>k, <2>o, <2>2
  <2> QED
    BY <2>1, <2>2, KeysKept
<1> QED
  BY <1>1, <1>2, <1>3, <1>4

LEMMA GlobalStep ==
  ASSUME TypeOK, GlobalInv, [Next]_vars
  PROVE  GlobalInv'
<1>1. globalKey # None => globalKey' # None
  BY Frame
<1>2. ASSUME NEW p \in Goroutines, NEW g \in Loggers, NEW m \in Msgs, NEW c \in Kinds, LoggerPrint(p, g, m, c)
      PROVE  \A q \in Msgs : global'[q] = global[q] \/ global'[q] = globalKey
  BY <1>2 DEF LoggerPrint, TypeOK
<1>3. \A q \in Msgs : global'[q] = global[q] \/ global'[q] = globalKey
  BY <1>2 DEF Next, SetGlobalEncryption, SetEncryptionKey, Receive, OpenLog, OpenFails, PickKey,
              ConsumerWrite, WritePlain, WriteFails, vars, msgVars
<1> QED
  BY <1>1, <1>3 DEF GlobalInv

-----------------------------------------------------------------------------
(* What the consumer picks is respectful of what the message's goroutine    *)
(* knew: a value it may read is not older than the last one it knows of,    *)
(* and only a value older than the goroutine's key can be nil.              *)
LEMMA PickRespects ==
  ASSUME TypeOK, KnowledgeInv, GlobalInv, HandInv, PickKey
  PROVE  /\ after[hand][to[hand]] > 1 =>
              enckey' \in {keyLog[to[hand]][i] : i \in after[hand][to[hand]]..Len(keyLog[to[hand]])}
         /\ global[hand] # None => enckey' # None
<1> USE EncryptionAssumption
<1>1. PICK l \in Loggers : l = to[hand]
  BY DEF PickKey, HandInv
<1>2. hand \in Msgs /\ after[hand][l] <= aware[l]
  BY DEF PickKey, HandInv
<1>3. /\ after[hand][l] \in Nat /\ aware[l] \in Nat /\ Len(keyLog[l]) \in Nat
      /\ DOMAIN keyLog[l] = 1..Len(keyLog[l])
  BY <1>2, TypeFacts
<1>4. PICK i \in aware[l]..Len(keyLog[l]) : enckey' = IF keyLog[l][i] # None THEN keyLog[l][i] ELSE globalKey
  BY <1>1 DEF PickKey, Visible
<1>5. ASSUME after[hand][l] > 1
      PROVE  enckey' \in {keyLog[l][j] : j \in after[hand][l]..Len(keyLog[l])}
  <2>1. i \in DOMAIN keyLog[l] /\ i > 1 /\ i \in after[hand][l]..Len(keyLog[l])
    BY <1>2, <1>3, <1>5
  <2>2. keyLog[l][i] \in Keys
    BY <2>1 DEF KnowledgeInv
  <2>3. enckey' = keyLog[l][i]
    BY <1>4, <2>2
  <2> QED
    BY <2>1, <2>3
<1>6. global[hand] # None => enckey' # None
  BY <1>2, <1>4 DEF GlobalInv
<1> QED
  BY <1>1, <1>5, <1>6

(* The message in hand keeps what PickRespects says until it is written.    *)
LEMMA HandStep ==
  ASSUME TypeOK, TypeOK', KnowledgeInv, GlobalInv, HandInv, KeyRespected, GlobalRespected, [Next]_vars
  PROVE  HandInv'
<1> USE EncryptionAssumption
<1>1. \A m \in ToSet(tologCh)' \cup {line.msg : line \in Lines'} : to'[m] \in Loggers
  <2>m. \A m \in ToSet(tologCh) \cup {line.msg : line \in Lines} : to[m] \in Loggers /\ m \in Msgs
    <3>1. \A m \in ToSet(tologCh) : m \in Msgs
      BY ElementOfSeq, LenProperties DEF TypeOK, ToSet
    <3>2. \A line \in Lines : line \in Line
      BY ElementOfSeq, LenProperties DEF TypeOK, Lines, ToSet
    <3> QED
      BY <3>1, <3>2 DEF HandInv, Line
  <2>o. \A m \in ToSet(tologCh) \cup {line.msg : line \in Lines} : to'[m] \in Loggers
    BY <2>m, Frame
  <2>1. ASSUME NEW p \in Goroutines, NEW l \in Loggers, NEW m \in Msgs, NEW c \in Kinds, LoggerPrint(p, l, m, c)
        PROVE  \A q \in ToSet(tologCh)' \cup {line.msg : line \in Lines'} : to'[q] \in Loggers
    <3>1. ToSet(tologCh)' = ToSet(tologCh) \cup {m}
      <4>1. tologCh' = Append(tologCh, m) /\ ToSet(Append(tologCh, m)) = ToSet(tologCh) \cup {m}
        BY <2>1, ChannelSteps DEF LoggerPrint
      <4>2. ToSet(tologCh)' = ToSet(Append(tologCh, m))
        BY <4>1 DEF ToSet
      <4> QED
        BY <4>1, <4>2
    <3>2. to'[m] = l /\ Lines' = Lines
      BY <2>1 DEF LoggerPrint, Lines, TypeOK, fileVars
    <3> QED
      BY <2>o, <3>1, <3>2
  <2>2. CASE Receive
    <3>1. ToSet(tologCh)' \subseteq ToSet(tologCh)
      BY <2>2, ChannelSteps DEF Receive, ToSet
    <3>2. Lines' = Lines
      BY <2>2 DEF Receive, Lines, fileVars
    <3> QED
      BY <2>o, <3>1, <3>2
  <2>3. CASE ConsumerWrite \/ WritePlain
    <3>1. PICK line \in Line : line.msg = hand /\ Lines' = Lines \cup {line}
      BY <2>3, WriteEffect DEF ConsumerWrite, WritePlain, TypeOK
    <3>2. ToSet(tologCh)' = ToSet(tologCh) /\ to' = to /\ to[hand] \in Loggers
      BY <2>3 DEF ConsumerWrite, WritePlain, chanVars, msgVars, HandInv
    <3> QED
      BY <2>o, <3>1, <3>2
  <2>4. CASE UNCHANGED <<tologCh, file>>
    <3>1. ToSet(tologCh)' = ToSet(tologCh) /\ Lines' = Lines
      BY <2>4 DEF Lines
    <3> QED
      BY <2>o, <3>1
  <2> QED
    BY <2>1, <2>2, <2>3, <2>4 DEF Next, SetGlobalEncryption, SetEncryptionKey, OpenLog, OpenFails, PickKey,
                                  WriteFails, vars, chanVars, fileVars
<1> DEFINE InHand ==
             /\ pc # "recv" =>
                  /\ hand \in Msgs /\ to[hand] \in Loggers
                  /\ \A l \in Loggers : after[hand][l] <= aware[l]
             /\ pc = "write" =>
                  /\ after[hand][to[hand]] > 1 =>
                       enckey \in {keyLog[to[hand]][i] : i \in after[hand][to[hand]]..Len(keyLog[to[hand]])}
                  /\ global[hand] # None => enckey # None
<1>i. InHand
  BY DEF HandInv
<1>2. ASSUME Receive
      PROVE  InHand'
  <2>1. PICK m \in Msgs : m = Head(tologCh) /\ m \in ToSet(tologCh)
    BY <1>2, ChannelSteps DEF Receive
  <2>2. /\ pc' = "open" /\ hand' = m /\ to' = to /\ after' = after
        /\ \A l \in Loggers : aware'[l] = Max({aware[l], after[m][l]})
    BY <1>2, <2>1 DEF Receive, Learn, msgVars
  <2>3. \A l \in Loggers : after[m][l] <= Max({aware[l], after[m][l]})
    BY TypeFacts, MaxOfTwo
  <2>4. to[m] \in Loggers
    BY <2>1 DEF HandInv
  <2> QED
    BY <2>2, <2>3, <2>4
<1>3. ASSUME PickKey
      PROVE  InHand'
  <2>1. pc' = "write" /\ pc # "recv"
    BY <1>3 DEF PickKey
  <2>2. UNCHANGED <<keyLog, aware, hand, to, after, global>>
    BY <1>3 DEF PickKey, keyVars, msgVars
  <2>3. /\ after[hand][to[hand]] > 1 =>
             enckey' \in {keyLog[to[hand]][i] : i \in after[hand][to[hand]]..Len(keyLog[to[hand]])}
        /\ global[hand] # None => enckey' # None
    BY <1>3, PickRespects
  <2> QED
    BY <1>i, <2>1, <2>2, <2>3
<1>4. ASSUME Handling
      PROVE  InHand'
  <2>1. pc' = "recv"
    BY <1>4 DEF Handling, ConsumerWrite, WritePlain, OpenFails, WriteFails, Handed
  <2> QED
    BY <2>1
<1>o. ASSUME OpenLog
      PROVE  InHand'
  <2>1. pc' = "pick" /\ pc # "recv" /\ UNCHANGED <<aware, hand, to, after>>
    BY <1>o DEF OpenLog, msgVars
  <2> QED
    BY <1>i, <2>1
<1>5. ASSUME UNCHANGED <<pc, aware, hand, enckey>>
      PROVE  InHand'
  <2>1. ASSUME pc = "recv"
        PROVE  InHand'
    BY <1>5, <2>1
  <2>2. ASSUME pc # "recv"
        PROVE  InHand'
    <3>1. PICK l \in Loggers : l = to[hand] /\ hand \in Msgs
      BY <1>i, <2>2
    <3>2. to'[hand] = l /\ after'[hand] = after[hand] /\ global'[hand] = global[hand]
      BY <3>1, Frame
    <3>3. /\ Len(keyLog[l]) \in Nat /\ Len(keyLog'[l]) \in Nat /\ Len(keyLog[l]) <= Len(keyLog'[l])
          /\ \A i \in 1..Len(keyLog[l]) : keyLog'[l][i] = keyLog[l][i]
          /\ after[hand][l] \in Nat
      BY <3>1, TypeFacts, KeysKept
    <3>4. ASSUME pc = "write", after[hand][l] > 1
          PROVE  enckey \in {keyLog'[l][i] : i \in after[hand][l]..Len(keyLog'[l])}
      <4>1. PICK i \in after[hand][l]..Len(keyLog[l]) : enckey = keyLog[l][i]
        BY <1>i, <3>1, <3>4
      <4>2. i \in 1..Len(keyLog[l]) /\ i \in after[hand][l]..Len(keyLog'[l])
        BY <3>3, <3>4
      <4> QED
        BY <3>3, <4>1, <4>2
    <3> QED
      BY <1>5, <1>i, <2>2, <3>1, <3>2, <3>4
  <2> QED
    BY <2>1, <2>2
<1>6. InHand'
  BY <1>2, <1>3, <1>4, <1>o, <1>5
     DEF Next, Handling, SetGlobalEncryption, SetEncryptionKey, LoggerPrint, vars
<1> QED
  BY <1>1, <1>6 DEF HandInv

(* Every line of a message whose encryption did not fail is respectful.     *)
LEMMA LinesStep ==
  ASSUME TypeOK, KnowledgeInv, GlobalInv, HandInv, KeyRespected, GlobalRespected, [Next]_vars
  PROVE  KeyRespected' /\ GlobalRespected'
<1>m. \A line \in Lines : line.msg \in Msgs
  <2>1. \A line \in Lines : line \in Line
    BY ElementOfSeq, LenProperties DEF TypeOK, Lines, ToSet
  <2> QED
    BY <2>1 DEF Line
<1>1. CASE ConsumerWrite
  <2>1. PICK new \in Line : new.msg = hand /\ new.key = enckey /\ Lines' = Lines \cup {new}
    BY <1>1, WriteEffect DEF ConsumerWrite, TypeOK
  <2>2. UNCHANGED <<keyLog, to, after, global>> /\ pc = "write"
    BY <1>1 DEF ConsumerWrite, keyVars, msgVars
  <2>3. /\ after[hand][to[hand]] > 1 =>
             enckey \in {keyLog[to[hand]][i] : i \in after[hand][to[hand]]..Len(keyLog[to[hand]])}
        /\ global[hand] # None => enckey # None
    BY <2>2 DEF HandInv
  <2>4. KeyRespected'
    BY <1>m, <2>1, <2>2, <2>3, OldLines DEF KeyRespected
  <2>5. GlobalRespected'
    BY <1>m, <2>1, <2>2, <2>3, OldLines DEF GlobalRespected
  <2> QED
    BY <2>4, <2>5
<1>2. CASE WritePlain
  <2>1. PICK new \in Line : new.msg = hand /\ Lines' = Lines \cup {new}
    BY <1>2, WriteEffect DEF WritePlain
  <2>2. hand \in failed'
    BY <1>2 DEF WritePlain
  <2>3. KeyRespected'
    BY <1>m, <2>1, <2>2, OldLines DEF KeyRespected
  <2>4. GlobalRespected'
    BY <1>m, <2>1, <2>2, OldLines DEF GlobalRespected
  <2> QED
    BY <2>3, <2>4
<1>3. CASE file' = file
  <2>1. Lines' = Lines
    BY <1>3 DEF Lines
  <2>2. KeyRespected'
    BY <1>m, <2>1, OldLines DEF KeyRespected
  <2>3. GlobalRespected'
    BY <1>m, <2>1, OldLines DEF GlobalRespected
  <2> QED
    BY <2>2, <2>3
<1> QED
  BY <1>1, <1>2, <1>3
     DEF Next, SetGlobalEncryption, SetEncryptionKey, LoggerPrint, Receive, OpenLog, OpenFails, PickKey,
         WriteFails, vars, fileVars

-----------------------------------------------------------------------------
(* What was sent stays in its place. *)
LEMMA SentGrows ==
  ASSUME TypeOK, [Next]_vars
  PROVE  /\ Len(sent) \in Nat /\ Len(sent') \in Nat /\ Len(sent) <= Len(sent')
         /\ \A i \in 1..Len(sent) : i \in 1..Len(sent') /\ sent'[i] = sent[i]
<1>1. sent \in Seq(Msgs) /\ Len(sent) \in Nat
  BY LenProperties DEF TypeOK
<1>2. ASSUME NEW m \in Msgs, sent' = Append(sent, m)
      PROVE  Len(sent') = Len(sent) + 1 /\ \A i \in 1..Len(sent) : sent'[i] = sent[i]
  <2>1. Len(Append(sent, m)) = Len(sent) + 1 /\ \A i \in 1..Len(sent) : Append(sent, m)[i] = sent[i]
    BY <1>1, AppendElements
  <2> QED
    BY <1>2, <2>1
<1>3. sent' = sent \/ \E m \in Msgs : sent' = Append(sent, m)
  BY DEF Next, SetGlobalEncryption, SetEncryptionKey, LoggerPrint, Receive, OpenLog, OpenFails, PickKey,
         ConsumerWrite, WritePlain, WriteFails, vars, chanVars
<1> QED
  BY <1>1, <1>2, <1>3

(* The bounds of the two counts. *)
LEMMA CountFacts ==
  ASSUME TypeOK, SentInv
  PROVE  /\ Len(sent) \in Nat /\ Len(tologCh) \in Nat /\ Taken \in Nat /\ Handled \in Nat
         /\ Taken <= Len(sent) /\ Handled <= Taken
         /\ pc # "recv" => Taken = Handled + 1 /\ Taken \in 1..Len(sent) /\ sent[Taken] = hand
<1>1. Len(sent) \in Nat /\ Len(tologCh) \in Nat
  BY LenProperties DEF TypeOK
<1>2. Handled \in Nat /\ (pc # "recv" => sent[Taken] = hand)
  BY DEF SentInv
<1> QED
  BY <1>1, <1>2 DEF Taken, Handled

LEMMA HandlingFacts ==
  ASSUME Handling
  PROVE  pc # "recv" /\ pc' = "recv" /\ UNCHANGED <<tologCh, sent, to, keyLog, globalKey>>
BY DEF Handling, ConsumerWrite, WritePlain, OpenFails, WriteFails, Handed, chanVars, msgVars, keyVars

(* A message is put on the channel once, and taken in its turn.             *)
LEMMA SentStep ==
  ASSUME TypeOK, SentInv, [Next]_vars
  PROVE  /\ SentInv'
         /\ Handled' = IF Handling THEN Handled + 1 ELSE Handled
<1> DEFINE Goal == /\ SentInv'
                   /\ Handled' = IF Handling THEN Handled + 1 ELSE Handled
<1>c. /\ Len(sent) \in Nat /\ Len(tologCh) \in Nat /\ Taken \in Nat /\ Handled \in Nat
      /\ Taken <= Len(sent) /\ Handled <= Taken /\ Taken = Len(sent) - Len(tologCh)
      /\ pc # "recv" => Taken = Handled + 1 /\ Taken \in 1..Len(sent) /\ sent[Taken] = hand
  BY CountFacts DEF Taken
<1>s. /\ \A i \in 1..Len(tologCh) : tologCh[i] = sent[Taken + i]
      /\ \A i, j \in 1..Len(sent) : sent[i] = sent[j] => i = j
      /\ \A i \in 1..Len(sent) : to[sent[i]] \in Loggers
  BY DEF SentInv
<1>t. sent \in Seq(Msgs) /\ tologCh \in Seq(Msgs) /\ \A i \in 1..Len(sent) : sent[i] \in Msgs
  BY ElementOfSeq DEF TypeOK
<1>1. ASSUME NEW p \in Goroutines, NEW l \in Loggers, NEW m \in Msgs, NEW c \in Kinds, LoggerPrint(p, l, m, c)
      PROVE  Goal
  <2>1. to[m] = None /\ sent' = Append(sent, m) /\ tologCh' = Append(tologCh, m)
        /\ pc' = pc /\ hand' = hand
    BY <1>1 DEF LoggerPrint
  <2>2. /\ Len(Append(sent, m)) = Len(sent) + 1
        /\ \A i \in 1..Len(sent) : Append(sent, m)[i] = sent[i]
        /\ Append(sent, m)[Len(sent) + 1] = m
    BY <1>t, AppendElements
  <2>3. /\ Len(Append(tologCh, m)) = Len(tologCh) + 1
        /\ \A i \in 1..Len(tologCh) : Append(tologCh, m)[i] = tologCh[i]
        /\ Append(tologCh, m)[Len(tologCh) + 1] = m
    BY <1>t, AppendElements
  <2>4. PICK s, q : s = sent' /\ q = tologCh'
    OBVIOUS
  <2>5. /\ Len(s) = Len(sent) + 1 /\ s[Len(sent) + 1] = m /\ \A i \in 1..Len(sent) : s[i] = sent[i]
        /\ Len(q) = Len(tologCh) + 1 /\ q[Len(tologCh) + 1] = m
        /\ \A i \in 1..Len(tologCh) : q[i] = tologCh[i]
    BY ONLY <2>1, <2>2, <2>3, <2>4
  <2>6. Taken' = Taken /\ Handled' = Handled
    BY <1>c, <2>1, <2>4, <2>5 DEF Taken, Handled
  <2>7. ASSUME NEW i \in 1..Len(q)
        PROVE  q[i] = s[Taken + i]
    <3>1. CASE i \in 1..Len(tologCh)
      <4>1. Taken + i \in 1..Len(sent)
        BY <1>c, <3>1
      <4> QED
        BY <1>s, <2>5, <3>1, <4>1
    <3>2. CASE i = Len(tologCh) + 1
      <4>1. Taken + i = Len(sent) + 1
        BY <1>c, <3>2
      <4> QED
        BY <2>5, <3>2, <4>1
    <3> QED
      BY <1>c, <2>5, <3>1, <3>2
  <2>8. \A i \in 1..Len(sent) : sent[i] # m /\ to'[sent[i]] = to[sent[i]]
    BY <1>s, <1>t, <2>1, Frame, EncryptionAssumption
  <2>9. to'[m] = l
    BY <1>1 DEF LoggerPrint, TypeOK
  <2>10. \A i \in 1..Len(s) : i \in 1..Len(sent) \/ i = Len(sent) + 1
    BY <1>c, <2>5
  <2>11. \A i, j \in 1..Len(s) : s[i] = s[j] => i = j
    BY <1>s, <2>5, <2>8, <2>10
  <2>12. \A i \in 1..Len(s) : to'[s[i]] \in Loggers
    BY <1>s, <2>5, <2>8, <2>9, <2>10
  <2>13. pc' # "recv" => s[Taken] = hand'
    BY <1>c, <2>1, <2>5
  <2>14. SentInv'
    BY <1>c, <2>4, <2>6, <2>7, <2>11, <2>12, <2>13 DEF SentInv
  <2>15. ~Handling
    <3>1. Len(sent') # Len(sent)
      BY <1>c, <2>4, <2>5
    <3> QED
      BY <3>1, HandlingFacts
  <2> QED
    BY <2>6, <2>14, <2>15
<1>2. ASSUME Receive
      PROVE  Goal
  <2>1. /\ tologCh # <<>> /\ tologCh' = Tail(tologCh) /\ hand' = Head(tologCh) /\ sent' = sent /\ to' = to
        /\ pc = "recv" /\ pc' = "open"
    BY <1>2 DEF Receive, msgVars
  <2>2. /\ Len(Tail(tologCh)) = Len(tologCh) - 1 /\ Len(tologCh) > 0
        /\ \A i \in 1..Len(tologCh) - 1 : i + 1 \in 1..Len(tologCh) /\ Tail(tologCh)[i] = tologCh[i + 1]
        /\ Head(tologCh) = tologCh[1]
    BY <1>t, <2>1, TailElements
  <2>3. PICK q : q = tologCh'
    OBVIOUS
  <2>4. /\ Len(q) = Len(tologCh) - 1
        /\ \A i \in 1..Len(tologCh) - 1 : i + 1 \in 1..Len(tologCh) /\ q[i] = tologCh[i + 1]
    BY ONLY <2>1, <2>2, <2>3
  <2>5. Taken' = Taken + 1 /\ Handled' = Taken /\ Handled = Taken
    BY <1>c, <2>1, <2>3, <2>4 DEF Taken, Handled
  <2>6. \A i \in 1..Len(q) : q[i] = sent[Taken + 1 + i]
    <3>1. \A i \in 1..Len(q) : i + 1 \in 1..Len(tologCh) /\ Taken + (i + 1) = Taken + 1 + i
      BY <1>c, <2>4
    <3> QED
      BY <1>s, <2>4, <3>1
  <2>7. hand' = sent[Taken + 1]
    BY <1>c, <1>s, <2>1, <2>2
  <2>8. SentInv'
    BY <1>c, <1>s, <2>1, <2>3, <2>5, <2>6, <2>7 DEF SentInv
  <2>9. ~Handling
    BY <2>1, HandlingFacts
  <2> QED
    BY <2>5, <2>8, <2>9
<1>3. ASSUME Handling
      PROVE  Goal
  <2>1. /\ tologCh' = tologCh /\ sent' = sent /\ to' = to /\ pc # "recv" /\ pc' = "recv"
    BY <1>3, HandlingFacts
  <2>2. Taken' = Taken /\ Handled' = Taken
    BY <1>c, <2>1 DEF Taken, Handled
  <2>3. SentInv'
    BY <1>c, <1>s, <2>1, <2>2 DEF SentInv
  <2> QED
    BY <1>3, <1>c, <2>1, <2>2, <2>3
<1>4. ASSUME /\ UNCHANGED <<tologCh, sent, to, hand>>
             /\ pc' = pc \/ (pc # "recv" /\ pc' # "recv")
             /\ ~Handling
      PROVE  Goal
  <2>1. Taken' = Taken /\ Handled' = Handled
    BY <1>4 DEF Taken, Handled
  <2>2. SentInv'
    BY <1>c, <1>s, <1>4, <2>1 DEF SentInv
  <2> QED
    BY <1>4, <2>1, <2>2
<1>5. \/ \E p \in Goroutines, l \in Loggers, m \in Msgs, c \in Kinds : LoggerPrint(p, l, m, c)
      \/ Receive \/ Handling
      \/ /\ UNCHANGED <<tologCh, sent, to, hand>>
         /\ pc' = pc \/ (pc # "recv" /\ pc' # "recv")
  BY DEF Next, Handling, SetGlobalEncryption, SetEncryptionKey, OpenLog, PickKey, vars, chanVars, msgVars
<1> HIDE DEF Goal
<1>6. Goal
  BY <1>1, <1>2, <1>3, <1>4, <1>5
<1> QED
  BY <1>6 DEF Goal

(* ... at the end of the file of its logger.                                *)
LEMMA WritePlace ==
  ASSUME TypeOK, HandInv, pc = "write", NEW k \in Keys \cup {None}, WriteLine(k)
  PROVE  LET h == NameOf[to[hand]] IN
         /\ h \in Names
         /\ \A g \in Names :
              /\ Len(file[g]) \in Nat /\ DOMAIN file[g] = 1..Len(file[g])
              /\ DOMAIN file'[g] = IF g = h THEN 1..Len(file[g]) + 1 ELSE 1..Len(file[g])
              /\ \A i \in 1..Len(file[g]) : file'[g][i] = file[g][i]
         /\ file'[h][Len(file[h]) + 1].msg = hand
         /\ file'[h][Len(file[h]) + 1].key = k
<1> DEFINE h == NameOf[to[hand]]
<1>1. hand \in Msgs /\ to[hand] \in Loggers
  BY DEF HandInv
<1>2. h \in Names
  BY <1>1, EncryptionAssumption
<1>3. PICK line \in Line : line = [msg |-> hand, key |-> k] /\ line.msg = hand /\ line.key = k
  <2>1. [msg |-> hand, key |-> k] \in Line
    BY <1>1 DEF Line
  <2> QED
    BY <2>1
<1>4. file' = [file EXCEPT ![h] = Append(@, line)]
  BY <1>3 DEF WriteLine
<1> HIDE DEF h
<1>5. \A g \in Names : file[g] \in Seq(Line) /\ Len(file[g]) \in Nat /\ DOMAIN file[g] = 1..Len(file[g])
  BY LenProperties DEF TypeOK
<1>6. PICK s : s = Append(file[h], line)
  OBVIOUS
<1>7. /\ DOMAIN s = 1..Len(file[h]) + 1
      /\ \A i \in 1..Len(file[h]) : s[i] = file[h][i]
      /\ s[Len(file[h]) + 1] = line
  <2>1. /\ DOMAIN Append(file[h], line) = 1..Len(file[h]) + 1
        /\ \A i \in 1..Len(file[h]) : Append(file[h], line)[i] = file[h][i]
        /\ Append(file[h], line)[Len(file[h]) + 1] = line
    BY <1>2, <1>5, AppendElements
  <2> QED
    BY ONLY <1>6, <2>1
<1>8. file' = [g \in Names |-> IF g = h THEN s ELSE file[g]]
  BY <1>4, <1>6 DEF TypeOK
<1> QED
  BY <1>2, <1>3, <1>5, <1>7, <1>8 DEF h

(* The files have what was handled, in order, after a step as before.       *)
LEMMA FileStep ==
  ASSUME TypeOK, HandInv, SentInv, FileInv, [Next]_vars
  PROVE  FileInv'
<1>c. /\ Len(sent) \in Nat /\ Taken \in Nat /\ Handled \in Nat /\ Taken <= Len(sent) /\ Handled <= Taken
      /\ pc # "recv" => Taken = Handled + 1 /\ Taken \in 1..Len(sent) /\ sent[Taken] = hand
  BY CountFacts
<1>g. /\ Len(sent') \in Nat /\ Len(sent) <= Len(sent')
      /\ \A i \in 1..Len(sent) : i \in 1..Len(sent') /\ sent'[i] = sent[i]
  BY SentGrows
<1>t. \A n \in 1..Len(sent) : sent[n] \in Msgs /\ to'[sent[n]] = to[sent[n]] /\ to[sent[n]] \in Loggers
  <2>1. \A n \in 1..Len(sent) : sent[n] \in Msgs /\ to[sent[n]] \in Loggers
    BY ElementOfSeq DEF TypeOK, SentInv
  <2> QED
    BY <2>1, Frame, EncryptionAssumption
<1>b. ASSUME NEW m, NEW n, SentBefore(m, n)
      PROVE  SentBefore(m, n)'
  <2>1. PICK i, j \in 1..Len(sent) : i < j /\ sent[i] = m /\ sent[j] = n
    BY <1>b DEF SentBefore
  <2>2. i \in 1..Len(sent') /\ j \in 1..Len(sent') /\ sent'[i] = m /\ sent'[j] = n
    BY <1>g, <2>1
  <2> QED
    BY <2>1, <2>2 DEF SentBefore
<1>n. /\ \A n \in 1..Handled : n \in 1..Len(sent)
      /\ \A n \in 1..Handled : sent'[n] = sent[n] /\ to'[sent[n]] = to[sent[n]] /\ to[sent[n]] \in Loggers
  BY <1>c, <1>g, <1>t
<1>f. /\ \A f \in Names : \A i \in DOMAIN file[f] :
           \E n \in 1..Handled : sent[n] = file[f][i].msg /\ NameOf[to[sent[n]]] = f
      /\ \A n \in 1..Handled :
           \/ sent[n] \in lost
           \/ \E i \in DOMAIN file[NameOf[to[sent[n]]]] : file[NameOf[to[sent[n]]]][i].msg = sent[n]
      /\ \A f \in Names : \A i, j \in DOMAIN file[f] : i < j => SentBefore(file[f][i].msg, file[f][j].msg)
  BY DEF FileInv
<1>l. lost \subseteq lost'
  BY Frame
<1>1. ASSUME ~(ConsumerWrite \/ WritePlain)
      PROVE  FileInv'
  <2>1. file' = file
    BY <1>1 DEF Next, SetGlobalEncryption, SetEncryptionKey, LoggerPrint, Receive, OpenLog, OpenFails, PickKey,
                WriteFails, vars, fileVars
  <2>2. \/ Handled' = Handled
        \/ Handled' = Handled + 1 /\ sent'[Handled + 1] \in lost'
    <3>1. CASE OpenFails \/ WriteFails
      <4>1. Handled' = Handled + 1 /\ sent[Handled + 1] = hand /\ sent' = sent
        BY <1>c, <3>1, SentStep, HandlingFacts DEF Handling
      <4>2. hand \in lost'
        BY <3>1 DEF OpenFails, WriteFails
      <4> QED
        BY <4>1, <4>2
    <3>2. CASE ~(OpenFails \/ WriteFails)
      BY <1>1, <3>2, SentStep DEF Handling
    <3> QED
      BY <3>1, <3>2
  <2>h. /\ \A n \in 1..Handled' : n \in 1..Handled \/ sent'[n] \in lost'
        /\ \A n \in 1..Handled : n \in 1..Handled'
    <3>1. \A n \in 1..Handled + 1 : n \in 1..Handled \/ n = Handled + 1
      BY <1>c
    <3>2. \A n \in 1..Handled : n \in 1..Handled + 1
      BY <1>c
    <3> QED
      BY <2>2, <3>1, <3>2
  <2>3. \A f \in Names : \A i \in DOMAIN file[f] :
          \E n \in 1..Handled' : sent'[n] = file[f][i].msg /\ NameOf[to'[sent'[n]]] = f
    BY <1>f, <1>n, <2>h
  <2>4. \A n \in 1..Handled' :
          \/ sent'[n] \in lost'
          \/ \E i \in DOMAIN file[NameOf[to'[sent'[n]]]] : file[NameOf[to'[sent'[n]]]][i].msg = sent'[n]
    BY <1>f, <1>n, <1>l, <2>h
  <2>5. \A f \in Names : \A i, j \in DOMAIN file[f] : i < j => SentBefore(file[f][i].msg, file[f][j].msg)'
    <3> SUFFICES ASSUME NEW f \in Names, NEW i \in DOMAIN file[f], NEW j \in DOMAIN file[f], i < j
                 PROVE  SentBefore(file[f][i].msg, file[f][j].msg)'
      OBVIOUS
    <3>1. PICK m, n : m = file[f][i].msg /\ n = file[f][j].msg
      OBVIOUS
    <3>2. SentBefore(m, n)
      BY <1>f, <3>1
    <3>3. SentBefore(m, n)'
      BY <1>b, <3>2
    <3> QED
      BY <2>1, <3>1, <3>3 DEF SentBefore
  <2> QED
    BY <2>1, <2>3, <2>4, <2>5 DEF FileInv, SentBefore
<1>2. ASSUME ConsumerWrite \/ WritePlain
      PROVE  FileInv'
  <2>1. pc = "write" /\ sent' = sent /\ to' = to /\ Handling
    BY <1>2 DEF Handling, ConsumerWrite, WritePlain, chanVars, msgVars
  <2>2. PICK k \in Keys \cup {None} : WriteLine(k)
    BY <1>2 DEF ConsumerWrite, WritePlain, TypeOK
  <2>3. PICK h \in Names : h = NameOf[to[hand]]
    BY <2>1, <2>2, WritePlace
  <2>4. /\ \A g \in Names :
             /\ Len(file[g]) \in Nat /\ DOMAIN file[g] = 1..Len(file[g])
             /\ DOMAIN file'[g] = IF g = h THEN 1..Len(file[g]) + 1 ELSE 1..Len(file[g])
             /\ \A i \in 1..Len(file[g]) : file'[g][i] = file[g][i]
        /\ file'[h][Len(file[h]) + 1].msg = hand
    BY <2>1, <2>2, <2>3, WritePlace
  <2>5. Handled' = Handled + 1 /\ Handled + 1 \in 1..Len(sent) /\ sent[Handled + 1] = hand
    BY <1>c, <2>1, SentStep
  <2>6. \A g \in Names : \A i \in DOMAIN file'[g] : i \in DOMAIN file[g] \/ (g = h /\ i = Len(file[h]) + 1)
    BY <2>4
  <2>7. \A g \in Names : \A i \in DOMAIN file[g] : i \in DOMAIN file'[g] /\ file'[g][i] = file[g][i] /\ i <= Len(file[g])
    BY <2>4
  <2>8. \A n \in 1..Handled : n \in 1..Handled + 1
    BY <1>c
  <2>9. \A f \in Names : \A i \in DOMAIN file'[f] :
          \E n \in 1..Handled + 1 : sent[n] = file'[f][i].msg /\ NameOf[to[sent[n]]] = f
    <3> SUFFICES ASSUME NEW f \in Names, NEW i \in DOMAIN file'[f]
                 PROVE  \E n \in 1..Handled + 1 : sent[n] = file'[f][i].msg /\ NameOf[to[sent[n]]] = f
      OBVIOUS
    <3>1. CASE i \in DOMAIN file[f]
      BY <1>f, <2>7, <2>8, <3>1
    <3>2. CASE f = h /\ i = Len(file[h]) + 1
      <4>1. Handled + 1 \in 1..Handled + 1
        BY <1>c
      <4> QED
        BY <2>3, <2>4, <2>5, <3>2, <4>1
    <3> QED
      BY <2>6, <3>1, <3>2
  <2>10. \A n \in 1..Handled + 1 :
           \/ sent[n] \in lost'
           \/ \E i \in DOMAIN file'[NameOf[to[sent[n]]]] : file'[NameOf[to[sent[n]]]][i].msg = sent[n]
    <3> SUFFICES ASSUME NEW n \in 1..Handled + 1, sent[n] \notin lost'
                 PROVE  \E i \in DOMAIN file'[NameOf[to[sent[n]]]] : file'[NameOf[to[sent[n]]]][i].msg = sent[n]
      OBVIOUS
    <3>1. CASE n \in 1..Handled
      <4>1. NameOf[to[sent[n]]] \in Names
        BY <1>n, <3>1, EncryptionAssumption
      <4> QED
        BY <1>f, <1>l, <2>7, <3>1, <4>1
    <3>2. CASE n = Handled + 1
      <4>1. Len(file[h]) + 1 \in DOMAIN file'[h]
        BY <2>4
      <4> QED
        BY <2>3, <2>4, <2>5, <3>2, <4>1
    <3> QED
      BY <1>c, <3>1, <3>2
  <2>11. \A f \in Names : \A i, j \in DOMAIN file'[f] : i < j => SentBefore(file'[f][i].msg, file'[f][j].msg)
    <3> SUFFICES ASSUME NEW f \in Names, NEW i \in DOMAIN file'[f], NEW j \in DOMAIN file'[f], i < j
                 PROVE  SentBefore(file'[f][i].msg, file'[f][j].msg)
      OBVIOUS
    <3>1. i \in DOMAIN file[f]
      BY <2>4, <2>6
    <3>2. CASE j \in DOMAIN file[f]
      BY <1>f, <2>7, <3>1, <3>2
    <3>3. CASE f = h /\ j = Len(file[h]) + 1
      <4>1. PICK n \in 1..Handled : sent[n] = file[f][i].msg
        BY <1>f, <3>1
      <4>2. n < Handled + 1 /\ n \in 1..Len(sent)
        BY <1>c, <4>1
      <4> QED
        BY <2>4, <2>5, <2>7, <3>1, <3>3, <4>1, <4>2 DEF SentBefore
    <3> QED
      BY <2>6, <3>2, <3>3
  <2> QED
    BY <2>1, <2>5, <2>9, <2>10, <2>11 DEF FileInv, SentBefore
<1> QED
  BY <1>1, <1>2

(* A key that there is for a message stays. *)
LEMMA HasKeyKept ==
  ASSUME TypeOK, [Next]_vars, NEW m \in Msgs, to[m] \in Loggers, HasKey(m)
  PROVE  HasKey(m)'
<1>1. to'[m] = to[m]
  BY Frame, EncryptionAssumption
<1>2. Len(keyLog[to[m]]) \in Nat /\ Len(keyLog'[to[m]]) \in Nat /\ Len(keyLog[to[m]]) <= Len(keyLog'[to[m]])
  BY TypeFacts, KeysKept
<1>3. globalKey # None => globalKey' # None
  BY Frame
<1> QED
  BY <1>1, <1>2, <1>3 DEF HasKey

(* The lines and the failures, when a message is written.                   *)
LEMMA SourceWrite ==
  ASSUME TypeOK, HandInv, SentInv, FileInv, SourceInv, [Next]_vars, ConsumerWrite \/ WritePlain
  PROVE  /\ \A m \in failed' : \E n \in 1..Handled' : sent'[n] = m
         /\ \A line \in Lines' : /\ line.key # None => HasKey(line.msg)
                                 /\ line.msg \in failed' => line.key = None
<1>1. /\ pc = "write" /\ UNCHANGED <<keyLog, globalKey, sent, to>> /\ Handling
      /\ enckey \in Keys \cup {None} /\ None \in Keys \cup {None}
  BY DEF Handling, ConsumerWrite, WritePlain, keyVars, chanVars, msgVars, TypeOK
<1>2. /\ Handled \in Nat /\ Handled' = Handled + 1 /\ sent[Handled + 1] = hand
      /\ Handled + 1 \in 1..Len(sent) /\ Len(sent) \in Nat
      /\ \A n \in 1..Handled : n \in 1..Len(sent) /\ n # Handled + 1
  BY <1>1, CountFacts, SentStep
<1>3. \A n \in 1..Handled : sent[n] # hand
  BY <1>2 DEF SentInv
<1>4. \A line \in Lines : \E n \in 1..Handled : sent[n] = line.msg
  <2> SUFFICES ASSUME NEW f \in Names, NEW line \in ToSet(file[f])
               PROVE  \E n \in 1..Handled : sent[n] = line.msg
    BY DEF Lines
  <2>1. PICK i \in DOMAIN file[f] : line = file[f][i]
    BY DEF ToSet
  <2> QED
    BY <2>1 DEF FileInv
<1>5. hand \notin failed
  BY <1>3 DEF SourceInv
<1>6. \A line \in Lines : line.key # None => HasKey(line.msg)
  BY DEF SourceInv
<1>7. \A m \in failed : \E n \in 1..Handled + 1 : sent[n] = m
  <2>1. \A n \in 1..Handled : n \in 1..Handled + 1
    BY <1>2
  <2> QED
    BY <2>1 DEF SourceInv
<1>8. CASE ConsumerWrite
  <2>1. PICK new \in Line : new.msg = hand /\ new.key = enckey /\ Lines' = Lines \cup {new}
    BY <1>1, <1>8, WriteEffect DEF ConsumerWrite
  <2>2. failed' = failed
    BY <1>8 DEF ConsumerWrite
  <2>3. enckey # None => HasKey(hand)
    BY <1>1 DEF SourceInv
  <2>4. \A line \in Lines : line.msg \in failed => line.key = None
    BY DEF SourceInv
  <2> QED
    BY <1>1, <1>2, <1>5, <1>6, <1>7, <2>1, <2>2, <2>3, <2>4
<1>9. CASE WritePlain
  <2>1. PICK new \in Line : new.msg = hand /\ new.key = None /\ Lines' = Lines \cup {new}
    BY <1>1, <1>9, WriteEffect DEF WritePlain
  <2>2. failed' = failed \cup {hand}
    BY <1>9 DEF WritePlain
  <2>3. \A line \in Lines : line.msg \in failed' => line.key = None
    <3>1. \A line \in Lines : line.msg # hand
      BY <1>3, <1>4
    <3> QED
      BY <2>2, <3>1 DEF SourceInv
  <2>4. Handled + 1 \in 1..Handled + 1
    BY <1>2
  <2> QED
    BY <1>1, <1>2, <1>6, <1>7, <2>1, <2>2, <2>3, <2>4
<1> QED
  BY <1>8, <1>9

LEMMA SourceStep ==
  ASSUME TypeOK, KnowledgeInv, HandInv, SentInv, FileInv, SourceInv, [Next]_vars
  PROVE  SourceInv'
<1>m. \A line \in Lines : line.msg \in Msgs /\ to[line.msg] \in Loggers
  <2>1. \A line \in Lines : line \in Line
    BY ElementOfSeq, LenProperties DEF TypeOK, Lines, ToSet
  <2> QED
    BY <2>1 DEF Line, HandInv
<1>k. \A l \in Loggers : keyLog[l][1] = None /\ Len(keyLog[l]) \in Nat /\ aware[l] \in 1..Len(keyLog[l])
  BY TypeFacts DEF SourceInv, KnowledgeInv
<1>1. \A l \in Loggers : keyLog'[l][1] = None
  <2>1. \A l \in Loggers : 1 \in 1..Len(keyLog[l])
    BY <1>k
  <2> QED
    BY <1>k, <2>1, KeysKept
<1>2. ASSUME ConsumerWrite \/ WritePlain
      PROVE  SourceInv'
  <2>1. UNCHANGED <<keyLog, globalKey, to>> /\ pc' = "recv"
    BY <1>2 DEF ConsumerWrite, WritePlain, Handed, keyVars, msgVars
  <2>2. /\ \A m \in failed' : \E n \in 1..Handled' : sent'[n] = m
        /\ \A line \in Lines' : /\ line.key # None => HasKey(line.msg)
                                /\ line.msg \in failed' => line.key = None
    BY <1>2, SourceWrite
  <2> QED
    BY <1>1, <2>1, <2>2 DEF SourceInv, HasKey
<1>3. ASSUME ~(ConsumerWrite \/ WritePlain)
      PROVE  SourceInv'
  <2>1. file' = file /\ failed' = failed
    BY <1>3 DEF Next, SetGlobalEncryption, SetEncryptionKey, LoggerPrint, Receive, OpenLog, OpenFails, PickKey,
                WriteFails, vars, fileVars
  <2>2. Lines' = Lines
    BY <2>1 DEF Lines
  <2>3. \A n \in 1..Handled : n \in 1..Handled' /\ sent'[n] = sent[n]
    <3>1. Handled \in Nat /\ \A n \in 1..Handled : n \in 1..Len(sent)
      BY CountFacts
    <3>2. Handled' = Handled \/ Handled' = Handled + 1
      BY SentStep
    <3> QED
      BY <3>1, <3>2, SentGrows
  <2>4. \A m \in failed' : \E n \in 1..Handled' : sent'[n] = m
    BY <2>1, <2>3 DEF SourceInv
  <2>5. \A line \in Lines : /\ line.key # None => HasKey(line.msg)'
                            /\ line.msg \in failed => line.key = None
    BY <1>m, HasKeyKept DEF SourceInv
  <2>6. ASSUME pc' = "write", enckey' # None
        PROVE  HasKey(hand)'
    <3>1. CASE PickKey
      <4>1. PICK l \in Loggers : l = to[hand]
        BY <3>1 DEF PickKey, HandInv
      <4>2. PICK i \in aware[l]..Len(keyLog[l]) :
              enckey' = IF keyLog[l][i] # None THEN keyLog[l][i] ELSE globalKey
        BY <3>1, <4>1 DEF PickKey, Visible
      <4>3. hand' = hand /\ to' = to /\ keyLog' = keyLog /\ globalKey' = globalKey
        BY <3>1 DEF PickKey, keyVars, msgVars
      <4>4. CASE keyLog[l][i] # None
        <5>1. i # 1
          BY <1>k, <4>4
        <5>2. Len(keyLog[l]) > 1
          BY <1>k, <4>2, <5>1
        <5> QED
          BY <4>1, <4>3, <5>2 DEF HasKey
      <4>5. CASE keyLog[l][i] = None
        BY <2>6, <4>2, <4>3, <4>5 DEF HasKey
      <4> QED
        BY <4>4, <4>5
    <3>2. CASE UNCHANGED <<pc, enckey, hand>>
      <4>1. HasKey(hand) /\ hand \in Msgs /\ to[hand] \in Loggers
        BY <2>6, <3>2 DEF SourceInv, HandInv
      <4>2. PICK m \in Msgs : m = hand
        BY <4>1
      <4>3. HasKey(m)'
        BY <4>1, <4>2, HasKeyKept
      <4> QED
        BY <3>2, <4>2, <4>3 DEF HasKey
    <3>3. CASE Receive \/ OpenLog \/ OpenFails \/ WriteFails
      BY <2>6, <3>3 DEF Receive, OpenLog, OpenFails, WriteFails, Handed
    <3> QED
      BY <1>3, <3>1, <3>2, <3>3 DEF Next, SetGlobalEncryption, SetEncryptionKey, LoggerPrint, vars
  <2>7. \A line \in Lines' : /\ (line.key # None => HasKey(line.msg))'
                             /\ line.msg \in failed' => line.key = None
    BY <2>1, <2>2, <2>5 DEF HasKey
  <2> QED
    BY <1>1, <2>4, <2>6, <2>7 DEF SourceInv, HasKey
<1> QED
  BY <1>2, <1>3

-----------------------------------------------------------------------------
(* The file follows the order of the sends, without those that were lost.   *)
LEMMA FilesInOrder ==
  ASSUME TypeOK, SentInv, FileInv, NEW f \in Names
  PROVE  FileInOrder(f)
<1>c. Len(sent) \in Nat /\ Handled \in Nat /\ \A n \in 1..Handled : n \in 1..Len(sent)
  BY CountFacts
<1>s. ToSet(sent) = {sent[n] : n \in 1..Len(sent)}
  BY LenProperties DEF TypeOK, ToSet
<1>1. \A i \in DOMAIN file[f] :
        \E n \in 1..Handled : sent[n] = file[f][i].msg /\ NameOf[to[sent[n]]] = f
  BY DEF FileInv
<1>2. \A i \in DOMAIN file[f] : file[f][i].msg \in ToSet(sent) /\ NameOf[to[file[f][i].msg]] = f
  BY <1>1, <1>c, <1>s
<1>3. ASSUME NEW i \in DOMAIN file[f], NEW m \in ToSet(sent), NameOf[to[m]] = f, SentBefore(m, file[f][i].msg)
      PROVE  m \in lost \/ \E j \in DOMAIN file[f] : file[f][j].msg = m
  <2>1. PICK a, b \in 1..Len(sent) : a < b /\ sent[a] = m /\ sent[b] = file[f][i].msg
    BY <1>3 DEF SentBefore
  <2>2. PICK n \in 1..Handled : sent[n] = file[f][i].msg
    BY <1>1
  <2>3. n = b
    BY <1>c, <2>1, <2>2 DEF SentInv
  <2>4. a \in 1..Handled
    BY <1>c, <2>1, <2>3
  <2> QED
    BY <1>3, <2>1, <2>4 DEF FileInv
<1> QED
  BY <1>2, <1>3 DEF FileInOrder, FileInv

(* The key of a line tells whether its message comes out of the decrypter.  *)
LEMMA KeyOfLine ==
  ASSUME TypeOK, HandInv, KeyRespected, SourceInv, NEW f \in Names, NEW k \in Keys, NEW i \in DOMAIN file[f],
         file[f][i].msg \in ToSet(sent), KeyedFrom(to[file[f][i].msg], k) \/ Keyless(to[file[f][i].msg])
  PROVE  /\ file[f][i].key \in {None, k}
         /\ file[f][i].key = k <=> Encrypted(file[f][i].msg, k)
<1>1. PICK line : line = file[f][i]
  OBVIOUS
<1>2. line \in Lines
  BY <1>1 DEF Lines, ToSet
<1>3. line \in Line
  BY <1>1, ElementOfSeq, LenProperties DEF TypeOK
<1>4. line.msg \in Msgs /\ to[line.msg] \in Loggers
  BY <1>2, <1>3 DEF Line, HandInv
<1>5. PICK l \in Loggers : l = to[line.msg]
  BY <1>4
<1>6. k # None
  BY EncryptionAssumption
<1>7. CASE KeyedFrom(l, k)
  <2>1. Len(keyLog[l]) = 2 /\ keyLog[l][2] = k /\ after[line.msg][l] = 2
    BY <1>1, <1>5, <1>7 DEF KeyedFrom
  <2>2. ASSUME line.msg \notin failed
        PROVE  line.key = k
    <3>1. PICK n \in 2..2 : line.key = keyLog[l][n]
      BY <1>2, <1>5, <2>1, <2>2 DEF KeyRespected
    <3>2. n = 2
      OBVIOUS
    <3> QED
      BY <2>1, <3>1, <3>2
  <2>3. ASSUME line.msg \in failed
        PROVE  line.key = None
    BY <1>2, <2>3 DEF SourceInv
  <2> QED
    BY <1>1, <1>5, <1>6, <1>7, <2>2, <2>3 DEF Encrypted
<1>8. CASE Keyless(l)
  <2>1. Len(keyLog[l]) = 1 /\ globalKey = None
    BY <1>8 DEF Keyless
  <2>2. line.key = None
    <3>1. ~HasKey(line.msg)
      BY <1>5, <2>1 DEF HasKey
    <3> QED
      BY <1>2, <3>1 DEF SourceInv
  <2>3. ~Encrypted(line.msg, k)
    BY <1>5, <2>1 DEF Encrypted, KeyedFrom
  <2> QED
    BY <1>1, <1>6, <2>2, <2>3
<1> QED
  BY <1>1, <1>5, <1>7, <1>8

(* What the decrypter makes of a file whose loggers have one key or none.   *)
LEMMA RoundTripFollows ==
  ASSUME TypeOK, HandInv, KeyRespected, SentInv, FileInv, SourceInv
  PROVE  RoundTrip
<1>1. ASSUME NEW f \in Names, NEW k \in Keys,
             \A l \in Loggers : NameOf[l] = f => KeyedFrom(l, k) \/ Keyless(l)
      PROVE  Decrypted(file[f], k) =
               {i \in DOMAIN file[f] : /\ Encrypted(file[f][i].msg, k)
                                       /\ \A j \in 1..i : ~Fatal(file[f][j].msg, k)}
  <2>1. \A i \in DOMAIN file[f] : file[f][i].msg \in ToSet(sent) /\ NameOf[to[file[f][i].msg]] = f
    BY FilesInOrder DEF FileInOrder
  <2>2. \A i \in DOMAIN file[f] : to[file[f][i].msg] \in Loggers
    BY DEF HandInv, Lines, ToSet
  <2>3. \A i \in DOMAIN file[f] : /\ file[f][i].key \in {None, k}
                                  /\ file[f][i].key = k <=> Encrypted(file[f][i].msg, k)
    BY <1>1, <2>1, <2>2, KeyOfLine
  <2>4. \A i \in DOMAIN file[f] : Ends(file[f][i], k) <=> Fatal(file[f][i].msg, k)
    BY <2>3, EncryptionAssumption DEF Ends, Fatal
  <2>5. \A i \in DOMAIN file[f] : \A j \in 1..i : j \in DOMAIN file[f]
    <3>1. Len(file[f]) \in Nat /\ DOMAIN file[f] = 1..Len(file[f])
      BY LenProperties DEF TypeOK
    <3> QED
      BY <3>1
  <2> QED
    BY <2>3, <2>4, <2>5 DEF Decrypted
<1> QED
  BY <1>1, FilesInOrder DEF RoundTrip

-----------------------------------------------------------------------------
(* The invariant of the keys and the files holds in every state, whatever   *)
(* the goroutines, loggers, files and keys, and however many keys are set.  *)
THEOREM InvariantHolds == Spec => []EncryptionInv
<1>1. Init => EncryptionInv
  BY EncryptionInit
<1>2. EncryptionInv /\ [Next]_vars => EncryptionInv'
  BY TypeStep, KnowledgeStep, GlobalStep, HandStep, LinesStep, SentStep, FileStep, SourceStep DEF EncryptionInv
<1> QED
  BY <1>1, <1>2, PTL DEF Spec

(* A message printed after its logger was given a key is written under that *)
(* key or a later one, the race for l.encryptionKey notwithstanding.        *)
THEOREM KeysAreRespected == Spec => []KeyRespected
<1>1. EncryptionInv => KeyRespected
  BY DEF EncryptionInv
<1> QED
  BY <1>1, InvariantHolds, PTL

(* A message printed after a global key was set is not written as plain     *)
(* text, unless its encryption fails.                                       *)
THEOREM GlobalKeyIsRespected == Spec => []GlobalRespected
<1>1. EncryptionInv => GlobalRespected
  BY DEF EncryptionInv
<1> QED
  BY <1>1, InvariantHolds, PTL

(* The file has the messages in the order of their sends, and misses only   *)
(* those that were skipped or whose write failed; the decrypter gets back,  *)
(* up to the first line that ends it, just those printed under its key,     *)
(* whatever the number of messages, loggers of the file and failures of the *)
(* encryption, of newLogger and of the writes.                              *)
THEOREM FilesDecrypt == Spec => []RoundTrip
<1>1. EncryptionInv => RoundTrip
  BY RoundTripFollows DEF EncryptionInv
<1> QED
  BY <1>1, InvariantHolds, PTL
=============================================================================
