---------------------------- MODULE EncryptedLog ----------------------------
(***************************************************************************)
(* Encryption in logger_enc.go and in the consumer of logger.go, and the   *)
(* decrypter that reads the file back.                                     *)
(*                                                                         *)
(* SetEncryptionKey writes l.encryptionKey under l.m and the consumer      *)
(* reads it under l.em: a data race.  keyLog[l] holds the values written,  *)
(* in the order of l.m.  A read returns any of them that is not older than *)
(* the last write that happened before it; the consumer learns of a write  *)
(* with a message, from the goroutine that printed it.                     *)
(***************************************************************************)
EXTENDS Integers, Sequences, SequencesExt, FiniteSetsExt

CONSTANTS
  Goroutines,   (* goroutines of the application                           *)
  Loggers,      (* *Logger values                                          *)
  Names,        (* filenames                                               *)
  NameOf,       (* the filename of a logger; a logger made after its namesake
                   was evicted from the cache has the same                 *)
  Keys,         (* valid encryption keys                                   *)
  Msgs,         (* one element for each message printed                    *)
  Kinds,        (* what messages look like: "text", "base64", "empty", "long" *)
  Faults,       (* what may fail: "mkdir", "encrypt", "write"              *)
  MaxSets,      (* bounds the calls of SetEncryptionKey                    *)
  None

ASSUME EncryptionAssumption ==
  /\ None \notin Keys \cup Msgs \cup Loggers
  /\ Kinds \subseteq {"text", "base64", "empty", "long"}
  /\ MaxSets \in Nat
  /\ NameOf \in [Loggers -> Names]

VARIABLES
  keyLog,     (* the values of l.encryptionKey so far, nil first           *)
  knows,      (* knows[p][l]: the last of them that p knows of             *)
  globalKey,  (* mainGlobalEncryptor.key                                   *)
  tologCh,    (* the channel                                               *)
  sent,       (* history: every message sent on it, in order               *)
  pc,         (* the consumer: "recv", "open", "pick" or "write"           *)
  aware,      (* aware[l]: the last of keyLog[l] the consumer knows of     *)
  hand,       (* its message                                               *)
  log,        (* the loggers whose newLogger has succeeded                 *)
  enckey,     (* the key it picked                                         *)
  to, kind,   (* the logger and the kind of a message                      *)
  after,      (* knows of the goroutine that printed the message           *)
  global,     (* history: globalKey when it was printed                    *)
  failed,     (* history: messages written plain as their encryption failed *)
  lost,       (* history: messages skipped, or whose write failed          *)
  file        (* file[f]: the lines [msg, key] written, key None for plain text *)

chanVars == <<tologCh, sent>>
keyVars == <<keyLog, knows, globalKey>>
msgVars == <<to, kind, after, global>>
fileVars == <<failed, lost, file>>
vars == <<keyVars, chanVars, pc, aware, hand, log, enckey, msgVars, fileVars>>

Init ==
  /\ keyLog = [l \in Loggers |-> <<None>>]
  /\ knows = [p \in Goroutines |-> [l \in Loggers |-> 1]]
  /\ globalKey = None
  /\ tologCh = <<>>
  /\ sent = <<>>
  /\ pc = "recv"
  /\ aware = [l \in Loggers |-> 1]
  /\ hand = None
  /\ log = {}
  /\ enckey = None
  /\ to = [m \in Msgs |-> None]
  /\ kind = [m \in Msgs |-> "none"]
  /\ after = [m \in Msgs |-> [l \in Loggers |-> 1]]
  /\ global = [m \in Msgs |-> None]
  /\ failed = {}
  /\ lost = {}
  /\ file = [f \in Names |-> <<>>]

-----------------------------------------------------------------------------
(* Both key setters return an error for an invalid key and change nothing. *)
SetGlobalEncryption(k) ==
  /\ globalKey' = k
  /\ UNCHANGED <<keyLog, knows, chanVars, pc, aware, hand, log, enckey, msgVars, fileVars>>

(* Under l.m, so the goroutine knows of all earlier calls too. *)
SetEncryptionKey(p, l, k) ==
  /\ MapThenSumSet(LAMBDA x : Len(keyLog[x]) - 1, Loggers) < MaxSets
  /\ keyLog' = [keyLog EXCEPT ![l] = Append(@, k)]
  /\ knows' = [knows EXCEPT ![p][l] = Len(keyLog[l]) + 1]
  /\ UNCHANGED <<globalKey, chanVars, pc, aware, hand, log, enckey, msgVars, fileVars>>

(* print: see LogPipeline for what may keep a message from the channel. *)
LoggerPrint(p, l, m, c) ==
  /\ to[m] = None
  /\ to' = [to EXCEPT ![m] = l]
  /\ kind' = [kind EXCEPT ![m] = c]
  /\ after' = [after EXCEPT ![m] = knows[p]]
  /\ global' = [global EXCEPT ![m] = globalKey]
  /\ tologCh' = Append(tologCh, m)
  /\ sent' = Append(sent, m)
  /\ UNCHANGED <<keyVars, pc, aware, hand, log, enckey, fileVars>>

Learn(m) == aware' = [l \in Loggers |-> Max({aware[l], after[m][l]})]

(* Mutant of Receive: the newest message is taken first. *)
ReceiveNewest ==
  /\ pc = "recv"
  /\ tologCh # <<>>
  /\ hand' = tologCh[Len(tologCh)]
  /\ Learn(tologCh[Len(tologCh)])
  /\ tologCh' = SubSeq(tologCh, 1, Len(tologCh) - 1)
  /\ pc' = "open"
  /\ UNCHANGED <<keyVars, sent, log, enckey, msgVars, fileVars>>

Receive ==
  /\ pc = "recv"
  /\ tologCh # <<>>
  /\ hand' = Head(tologCh)
  /\ Learn(Head(tologCh))
  /\ tologCh' = Tail(tologCh)
  /\ pc' = "open"
  /\ UNCHANGED <<keyVars, sent, log, enckey, msgVars, fileVars>>

(* The message in hand is done with. *)
Handed ==
  /\ pc' = "recv"
  /\ hand' = None
  /\ enckey' = None

(* newLogger, on the first message of a logger ...                          *)
OpenLog ==
  /\ pc = "open"
  /\ log' = log \cup {to[hand]}
  /\ pc' = "pick"
  /\ UNCHANGED <<keyVars, chanVars, aware, hand, enckey, msgVars, fileVars>>

(* ... and until it succeeds: a message for which it fails is skipped.      *)
OpenFails ==
  /\ pc = "open"
  /\ "mkdir" \in Faults
  /\ to[hand] \notin log
  /\ lost' = lost \cup {hand}
  /\ Handed
  /\ UNCHANGED <<keyVars, chanVars, aware, log, msgVars, failed, file>>

(* What the consumer may read from l.encryptionKey. *)
Visible(l) == {keyLog[l][i] : i \in aware[l]..Len(keyLog[l])}

(* Mutant of PickKey: the global key comes first. *)
PickKeyGlobalFirst ==
  /\ pc = "pick"
  /\ \E k \in Visible(to[hand]) : enckey' = IF globalKey # None THEN globalKey ELSE k
  /\ pc' = "write"
  /\ UNCHANGED <<keyVars, chanVars, aware, hand, log, msgVars, fileVars>>

(* Mutant of PickKey: the global key is forgotten. *)
PickKeyLocal ==
  /\ pc = "pick"
  /\ enckey' \in Visible(to[hand])
  /\ pc' = "write"
  /\ UNCHANGED <<keyVars, chanVars, aware, hand, log, msgVars, fileVars>>

(* The logger's own key, or else the global one, read under its mutex. *)
PickKey ==
  /\ pc = "pick"
  /\ \E k \in Visible(to[hand]) : enckey' = IF k # None THEN k ELSE globalKey
  /\ pc' = "write"
  /\ UNCHANGED <<keyVars, chanVars, aware, hand, log, msgVars, fileVars>>

(* The line of a message; the empty message encrypts to nothing at all. *)
WriteLine(k) ==
  file' = [file EXCEPT ![NameOf[to[hand]]] = Append(@, [msg |-> hand, key |-> k])]

ConsumerWrite ==
  /\ pc = "write"
  /\ WriteLine(enckey)
  /\ Handed
  /\ UNCHANGED <<keyVars, chanVars, aware, log, msgVars, failed, lost>>

(* EncryptString failed: the message is written as it is. *)
WritePlain ==
  /\ pc = "write"
  /\ enckey # None
  /\ "encrypt" \in Faults
  /\ failed' = failed \cup {hand}
  /\ WriteLine(None)
  /\ Handed
  /\ UNCHANGED <<keyVars, chanVars, aware, log, msgVars, lost>>

(* The line, encrypted or plain, is not written: Print discards the error.  *)
WriteFails ==
  /\ pc = "write"
  /\ "write" \in Faults
  /\ lost' = lost \cup {hand}
  /\ Handed
  /\ UNCHANGED <<keyVars, chanVars, aware, log, msgVars, failed, file>>

Next ==
  \/ \E k \in Keys : SetGlobalEncryption(k)
  \/ \E p \in Goroutines, l \in Loggers, k \in Keys : SetEncryptionKey(p, l, k)
  \/ \E p \in Goroutines, l \in Loggers, m \in Msgs, c \in Kinds : LoggerPrint(p, l, m, c)
  \/ Receive
  \/ OpenLog
  \/ OpenFails
  \/ PickKey
  \/ ConsumerWrite
  \/ WritePlain
  \/ WriteFails

Spec == Init /\ [][Next]_vars

-----------------------------------------------------------------------------
(***************************************************************************)
(* The decrypter, with key k.  A line that is not base64 is passed over; a *)
(* line that is but does not decrypt, the empty line included, ends the    *)
(* program; a line too long for the scanner ends its loop.                 *)
(***************************************************************************)
Ends(line, k) ==
  \/ kind[line.msg] = "long"
  \/ line.key = None /\ kind[line.msg] \in {"base64", "empty"}
  \/ line.key # None /\ (line.key # k \/ kind[line.msg] = "empty")

(* The lines that it writes out, in the order in which it reads them: those *)
(* that it decrypts before it comes to one that ends it.                    *)
Decrypted(lines, k) ==
  {i \in DOMAIN lines : lines[i].key = k /\ \A j \in 1..i : ~Ends(lines[j], k)}

-----------------------------------------------------------------------------
(***************************************************************************)
(* Properties.                                                             *)
(***************************************************************************)
Line == [msg : Msgs, key : Keys \cup {None}]

(* The type of every variable. *)
TypeOK ==
  /\ keyLog \in [Loggers -> Seq(Keys \cup {None})]
  /\ knows \in [Goroutines -> [Loggers -> Nat \ {0}]]
  /\ \A p \in Goroutines, l \in Loggers : knows[p][l] <= Len(keyLog[l])
  /\ globalKey \in Keys \cup {None}
  /\ tologCh \in Seq(Msgs)
  /\ sent \in Seq(Msgs)
  /\ pc \in {"recv", "open", "pick", "write"}
  /\ hand \in Msgs \cup {None}
  /\ log \subseteq Loggers
  /\ enckey \in Keys \cup {None}
  /\ to \in [Msgs -> Loggers \cup {None}]
  /\ kind \in [Msgs -> Kinds \cup {"none"}]
  /\ after \in [Msgs -> [Loggers -> Nat \ {0}]]
  /\ aware \in [Loggers -> Nat \ {0}]
  /\ global \in [Msgs -> Keys \cup {None}]
  /\ failed \subseteq Msgs
  /\ lost \subseteq Msgs
  /\ file \in [Names -> Seq(Line)]

Lines == UNION {ToSet(file[f]) : f \in Names}

(* A message printed by a goroutine that had given its logger a key is      *)
(* written under that key or one set later, never under an older key, the   *)
(* global key or none, whatever other goroutines set meanwhile and whoever  *)
(* else writes to the same file.                                            *)
KeyRespected ==
  \A line \in Lines :
    LET l == to[line.msg] IN
    after[line.msg][l] > 1 /\ line.msg \notin failed =>
      line.key \in {keyLog[l][i] : i \in after[line.msg][l]..Len(keyLog[l])}

(* Once a global key is set, no message printed later is written as plain   *)
(* text, to a logger with a key or without.                                 *)
GlobalRespected ==
  \A line \in Lines :
    global[line.msg] # None /\ line.msg \notin failed => line.key # None

(* l has the key k and no other, from its first message on ...              *)
KeyedFrom(l, k) ==
  /\ Len(keyLog[l]) = 2 /\ keyLog[l][2] = k
  /\ \A m \in ToSet(sent) : to[m] = l => after[m][l] = 2

(* ... or none at all.                                                      *)
Keyless(l) == Len(keyLog[l]) = 1 /\ globalKey = None

(* The message comes out of the decrypter, or makes it end. *)
Encrypted(m, k) == KeyedFrom(to[m], k) /\ m \notin failed
Fatal(m, k) == kind[m] \in {"empty", "long"} \/ (kind[m] = "base64" /\ ~Encrypted(m, k))

(* m was sent on the channel before n. *)
SentBefore(m, n) == \E i, j \in 1..Len(sent) : i < j /\ sent[i] = m /\ sent[j] = n

(* The file has the messages printed to its loggers, in the order of their  *)
(* sends; one that is missing before another was skipped, since newLogger   *)
(* failed, or its write failed.                                             *)
FileInOrder(f) ==
  /\ \A i \in DOMAIN file[f] : file[f][i].msg \in ToSet(sent) /\ NameOf[to[file[f][i].msg]] = f
  /\ \A i, j \in DOMAIN file[f] : i < j => SentBefore(file[f][i].msg, file[f][j].msg)
  /\ \A i \in DOMAIN file[f], m \in ToSet(sent) :
       NameOf[to[m]] = f /\ SentBefore(m, file[f][i].msg) =>
         m \in lost \/ \E j \in DOMAIN file[f] : file[f][j].msg = m

(* A file whose loggers have the key k from the start or none at all, as a  *)
(* logger made after an eviction has: the decrypter returns the messages of *)
(* the former, in the order they were printed, up to the first line that    *)
(* is empty, too long for the scanner, or plain and yet base64.             *)
RoundTrip ==
  \A f \in Names :
    /\ FileInOrder(f)
    /\ \A k \in Keys :
         (\A l \in Loggers : NameOf[l] = f => KeyedFrom(l, k) \/ Keyless(l)) =>
           Decrypted(file[f], k) =
             {i \in DOMAIN file[f] : /\ Encrypted(file[f][i].msg, k)
                                     /\ \A j \in 1..i : ~Fatal(file[f][j].msg, k)}

(***************************************************************************)
(* The inductive invariant behind these three.  Nobody knows of a key      *)
(* before it is set, and a key once set is never taken back.               *)
(***************************************************************************)
KnowledgeInv ==
  \A l \in Loggers :
    /\ aware[l] \in DOMAIN keyLog[l]
    /\ \A p \in Goroutines : knows[p][l] \in DOMAIN keyLog[l]
    /\ \A m \in Msgs : after[m][l] \in DOMAIN keyLog[l]
    /\ \A i \in DOMAIN keyLog[l] : i > 1 => keyLog[l][i] \in Keys

GlobalInv == \A m \in Msgs : global[m] # None => globalKey # None

(* A message on its way has a logger; the consumer knows what the goroutine *)
(* that printed it knew, and picks its key accordingly.                     *)
HandInv ==
  /\ \A m \in ToSet(tologCh) \cup {line.msg : line \in Lines} : to[m] \in Loggers
  /\ pc # "recv" =>
       /\ hand \in Msgs /\ to[hand] \in Loggers
       /\ \A l \in Loggers : after[hand][l] <= aware[l]
  /\ pc = "write" =>
       LET l == to[hand] IN
       /\ after[hand][l] > 1 => enckey \in {keyLog[l][i] : i \in after[hand][l]..Len(keyLog[l])}
       /\ global[hand] # None => enckey # None

(* How many messages the consumer has taken, and has written. *)
Taken == Len(sent) - Len(tologCh)
Handled == IF pc = "recv" THEN Taken ELSE Taken - 1

(* A message is sent once; the channel is what has not been taken.          *)
SentInv ==
  /\ Handled \in Nat
  /\ \A i \in 1..Len(tologCh) : tologCh[i] = sent[Taken + i]
  /\ \A i, j \in 1..Len(sent) : sent[i] = sent[j] => i = j
  /\ \A i \in 1..Len(sent) : to[sent[i]] \in Loggers
  /\ pc # "recv" => sent[Taken] = hand

(* The files have the messages handled so far that were not lost.           *)
FileInv ==
  /\ \A f \in Names : \A i \in DOMAIN file[f] :
       \E n \in 1..Handled : sent[n] = file[f][i].msg /\ NameOf[to[sent[n]]] = f
  /\ \A n \in 1..Handled :
       \/ sent[n] \in lost
       \/ \E i \in DOMAIN file[NameOf[to[sent[n]]]] : file[NameOf[to[sent[n]]]][i].msg = sent[n]
  /\ \A f \in Names : \A i, j \in DOMAIN file[f] : i < j => SentBefore(file[f][i].msg, file[f][j].msg)

(* Somebody has set a key that the line of m may be written under. *)
HasKey(m) == Len(keyLog[to[m]]) > 1 \/ globalKey # None

(* A line is encrypted only if there was a key, and plain if that failed.   *)
SourceInv ==
  /\ \A l \in Loggers : keyLog[l][1] = None
  /\ \A m \in failed : \E n \in 1..Handled : sent[n] = m
  /\ \A line \in Lines : /\ line.key # None => HasKey(line.msg)
                         /\ line.msg \in failed => line.key = None
  /\ pc = "write" /\ enckey # None => HasKey(hand)

EncryptionInv ==
  /\ TypeOK
  /\ KnowledgeInv
  /\ GlobalInv
  /\ HandInv
  /\ KeyRespected
  /\ GlobalRespected
  /\ SentInv
  /\ FileInv
  /\ SourceInv

(* The decrypter decrypts encrypted log files: not past the first line that *)
(* does not decrypt, and printing an empty message writes such a line.      *)
DecryptsFile ==
  \A f \in Names, k \in Keys :
    (\A line \in ToSet(file[f]) : line.key = k) => Decrypted(file[f], k) = DOMAIN file[f]
=============================================================================
