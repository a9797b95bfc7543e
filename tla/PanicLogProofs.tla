--------------------------- MODULE PanicLogProofs ---------------------------
(***************************************************************************)
(* Proofs about PanicLog, for any calls of the two handlers, any lengths   *)
(* of their reports and any number of candidate directories.               *)
(***************************************************************************)
EXTENDS PanicLog, FiniteSetTheorems, SequenceTheorems, TLAPS

(* Initially no report was begun and no file exists. *)
LEMMA InitInv == Init => PanicInv
<1> SUFFICES ASSUME Init
             PROVE  PanicInv
  OBVIOUS
<1> USE PanicLogAssumption DEF Init
<1>1. TypeOK
  <2>1. 1 \in 1..NumDirs /\ 0 \in 0..MaxHour
    OBVIOUS
  <2>2. <<>> \in Seq(Reports)
    OBVIOUS
  <2> QED
    BY <2>1, <2>2 DEF TypeOK
<1>2. HandleInv /\ MutexInv /\ UnmixedInv
  BY DEF HandleInv, MutexInv, UnmixedInv, Between, Reports
<1>3. LastReportWhole /\ SomeReportKept
  <2>1. \A f \in Files : None # f
    BY DEF Files
  <2> QED
    BY <2>1 DEF LastReportWhole, SomeReportKept
<1> QED
  BY <1>1, <1>2, <1>3 DEF PanicInv

(* The candidate directory of a call that goes on to the next one stays in  *)
(* range, and what failed and was returned keep their types.                *)
LEMMA ContinueStep ==
  ASSUME TypeOK, NEW r \in Reports, Continue(r)
  PROVE  /\ pc' \in [Reports -> {"new", "mkdir", "create", "write", "saved", "done"}]
         /\ pc' \in {[pc EXCEPT ![r] = "mkdir"], [pc EXCEPT ![r] = "saved"]}
         /\ dir' \in [Reports -> 1..NumDirs]
         /\ \A q \in Reports \ {r} : dir'[q] = dir[q]
         /\ result' \in [Reports -> {"none", "text", ""}]
         /\ failed' \in [Reports -> SUBSET (1..NumDirs)]
         /\ \A q \in Reports : failed[q] \subseteq failed'[q]
<1> USE PanicLogAssumption DEF TypeOK
<1>1. failed' = [failed EXCEPT ![r] = @ \cup {dir[r]}]
  BY DEF Continue
<1>2. /\ failed' \in [Reports -> SUBSET (1..NumDirs)]
      /\ \A q \in Reports : failed[q] \subseteq failed'[q]
  BY <1>1
<1>3. CASE dir[r] < NumDirs
  <2>1. dir' = [dir EXCEPT ![r] = @ + 1] /\ pc' = [pc EXCEPT ![r] = "mkdir"] /\ result' = result
    BY <1>3 DEF Continue, Goto
  <2>2. dir[r] + 1 \in 1..NumDirs
    <3>1. dir[r] \in 1..NumDirs /\ NumDirs \in Nat
      OBVIOUS
    <3> QED
      BY ONLY <1>3, <3>1
  <2> QED
    BY <1>2, <2>1, <2>2
<1>4. CASE ~(dir[r] < NumDirs)
  <2>1. dir' = dir /\ pc' = [pc EXCEPT ![r] = "saved"] /\ result' = [result EXCEPT ![r] = ""]
    BY <1>4 DEF Continue, Goto
  <2> QED
    BY <1>2, <2>1
<1> QED
  BY <1>3, <1>4

(* Writing n cells of a report at the start of a file leaves a file that    *)
(* begins with these and is otherwise what it was.                          *)
LEMMA OverwrittenProperties ==
  ASSUME NEW old \in Seq(Reports), NEW r \in Reports, NEW n \in Nat
  PROVE  /\ Overwritten(old, r, n) \in Seq(Reports)
         /\ Len(Overwritten(old, r, n)) >= n
         /\ \A i \in 1..n : Overwritten(old, r, n)[i] = r
         /\ n > 0 => Overwritten(old, r, n) # <<>>
         /\ old = <<>> => \A i \in DOMAIN Overwritten(old, r, n) : Overwritten(old, r, n)[i] = r
<1> DEFINE k == IF Len(old) > n THEN Len(old) ELSE n
           new == [i \in 1..k |-> IF i <= n THEN r ELSE old[i]]
<1>1. Len(old) \in Nat
  BY LenProperties
<1>2. k \in Nat /\ k >= n
  BY <1>1
<1>3. \A i \in 1..k : (IF i <= n THEN r ELSE old[i]) \in Reports
  <2> SUFFICES ASSUME NEW i \in 1..k, ~(i <= n)
               PROVE  old[i] \in Reports
    OBVIOUS
  <2>1. i \in 1..Len(old)
    BY <1>1
  <2> QED
    BY <2>1, ElementOfSeq
<1>4. new \in Seq(Reports) /\ Len(new) = k /\ DOMAIN new = 1..k
  BY <1>2, <1>3
<1>5. new = Overwritten(old, r, n)
  BY DEF Overwritten
<1>6. \A i \in 1..n : new[i] = r
  BY <1>1, <1>2
<1>7. ASSUME n > 0
      PROVE  new # <<>>
  <2>1. 1 \in DOMAIN new
    BY <1>2, <1>4, <1>7
  <2> QED
    BY <2>1
<1>8. ASSUME old = <<>>, NEW i \in DOMAIN new
      PROVE  new[i] = r
  <2>1. Len(old) = 0
    BY <1>8
  <2>2. k = n
    BY <1>1, <2>1
  <2> QED
    BY <1>4, <1>6, <1>8, <2>2
<1> HIDE DEF new, k
<1> QED
  BY <1>2, <1>4, <1>5, <1>6, <1>7, <1>8

LEMMA OverwrittenNothing ==
  ASSUME NEW old \in Seq(Reports), NEW r
  PROVE  Overwritten(old, r, 0) = old
<1>1. Len(old) \in Nat /\ old = [i \in 1..Len(old) |-> old[i]]
  BY LenProperties
<1>2. (IF Len(old) > 0 THEN Len(old) ELSE 0) = Len(old)
  BY <1>1
<1>3. \A i \in 1..Len(old) : (IF i <= 0 THEN r ELSE old[i]) = old[i]
  BY <1>1
<1> QED
  BY <1>1, <1>2, <1>3 DEF Overwritten

(* What a write, whole or not, does: n cells of the report are in the file. *)
LEMMA WriteEffect ==
  ASSUME TypeOK, HandleInv, NEW r \in Reports, Write(r) \/ WriteFails(r)
  PROVE  \E n \in Nat :
           /\ pc[r] = "write" /\ handle[r] \in Files
           /\ file' = [file EXCEPT ![handle[r]] = Overwritten(@, r, n)]
           /\ writes' \in [Files -> Seq(Reports)]
           /\ pc' = [pc EXCEPT ![r] = "saved"]
           /\ result' = [result EXCEPT ![r] = "text"]
           /\ UNCHANGED <<dir, handle, panicMutex, hour>>
<1> USE PanicLogAssumption
<1>1. handle[r] \in Files /\ writes \in [Files -> Seq(Reports)] /\ Size[r] \in Nat
  BY DEF Write, WriteFails, HandleInv, TypeOK
<1>2. CASE Write(r)
  <2>1. Append(writes[handle[r]], r) \in Seq(Reports)
    BY <1>1, AppendProperties
  <2>2. writes' \in [Files -> Seq(Reports)]
    BY <1>1, <1>2, <2>1 DEF Write
  <2> QED
    BY <1>1, <1>2, <2>2 DEF Write, Goto
<1>3. CASE WriteFails(r)
  <2>1. PICK n \in 0..(Size[r] - 1) :
          /\ file' = [file EXCEPT ![handle[r]] = Overwritten(@, r, n)]
          /\ writes' = [writes EXCEPT ![handle[r]] = IF n = 0 THEN @ ELSE <<>>]
    BY <1>3 DEF WriteFails
  <2>2. writes' \in [Files -> Seq(Reports)]
    BY <1>1, <2>1, EmptySeq
  <2>3. n \in Nat
    OBVIOUS
  <2> QED
    BY <1>1, <1>3, <2>1, <2>2, <2>3 DEF WriteFails, Goto
<1> QED
  BY <1>2, <1>3

(* Every step of a report, and the clock, keeps the types. *)
LEMMA TypeStep ==
  ASSUME TypeOK, HandleInv, [Next]_vars
  PROVE  TypeOK'
<1> USE PanicLogAssumption DEF TypeOK
<1>1. ASSUME NEW r \in Reports, HandlePanic(r)
      PROVE  TypeOK'
  BY <1>1 DEF HandlePanic, Goto
<1>2. ASSUME NEW r \in Reports, HandlePanicLog(r)
      PROVE  TypeOK'
  BY <1>2 DEF HandlePanicLog, Goto
<1>3. ASSUME NEW r \in Reports, Mkdir(r)
      PROVE  TypeOK'
  <2>1. CASE Continue(r)
    BY <1>3, <2>1, ContinueStep DEF Mkdir
  <2>2. CASE Goto(r, "create") /\ UNCHANGED <<dir, result, failed>>
    BY <1>3, <2>2 DEF Mkdir, Goto
  <2> QED
    BY <1>3, <2>1, <2>2 DEF Mkdir
<1>4. ASSUME NEW r \in Reports, Create(r)
      PROVE  TypeOK'
  <2>1. <<dir[r], hour>> \in Files
    BY DEF Files
  <2>2. /\ handle' = [handle EXCEPT ![r] = <<dir[r], hour>>]
        /\ file' = [file EXCEPT ![<<dir[r], hour>>] = <<>>]
        /\ writes' = [writes EXCEPT ![<<dir[r], hour>>] = <<>>]
        /\ pc' = [pc EXCEPT ![r] = "write"]
        /\ UNCHANGED <<dir, result, panicMutex, hour, failed>>
    BY <1>4 DEF Create, Goto
  <2>3. <<>> \in Seq(Reports)
    BY EmptySeq
  <2> QED
    BY <2>1, <2>2, <2>3
<1>5. ASSUME NEW r \in Reports, CreateFails(r)
      PROVE  TypeOK'
  BY <1>5, ContinueStep DEF CreateFails
<1>6. ASSUME NEW r \in Reports, Write(r) \/ WriteFails(r)
      PROVE  TypeOK'
  <2>1. PICK n \in Nat :
          /\ handle[r] \in Files
          /\ file' = [file EXCEPT ![handle[r]] = Overwritten(@, r, n)]
          /\ writes' \in [Files -> Seq(Reports)]
          /\ pc' = [pc EXCEPT ![r] = "saved"]
          /\ result' = [result EXCEPT ![r] = "text"]
          /\ UNCHANGED <<dir, handle, panicMutex, hour>>
    BY <1>6, WriteEffect
  <2>2. Overwritten(file[handle[r]], r, n) \in Seq(Reports)
    BY <2>1, OverwrittenProperties
  <2>3. file' \in [Files -> Seq(Reports)]
    BY <2>1, <2>2
  <2>4. failed' \in [Reports -> SUBSET (1..NumDirs)]
    <3>1. failed' = failed \/ failed' = [failed EXCEPT ![r] = @ \cup {dir[r]}]
      BY <1>6 DEF Write, WriteFails
    <3>2. CASE failed' = failed
      BY <3>2
    <3>3. CASE failed' = [failed EXCEPT ![r] = @ \cup {dir[r]}]
      BY <3>3
    <3> QED
      BY <3>1, <3>2, <3>3
  <2> QED
    BY <2>1, <2>3, <2>4
<1>7. ASSUME NEW r \in Reports, Return(r)
      PROVE  TypeOK'
  BY <1>7 DEF Return, Goto
<1>8. CASE Tick
  <2>1. hour + 1 \in 0..MaxHour
    <3>1. hour \in 0..MaxHour /\ MaxHour \in Nat /\ hour < MaxHour
      BY <1>8 DEF Tick
    <3> QED
      BY ONLY <3>1
  <2> QED
    BY <1>8, <2>1 DEF Tick
<1>9. CASE UNCHANGED vars
  BY <1>9 DEF vars
<1> HIDE DEF TypeOK
<1> QED
  BY <1>1, <1>2, <1>3, <1>4, <1>5, <1>6, <1>7, <1>8, <1>9 DEF Next, Step

(* A handle is set once, by os.Create, and names the directory of the call. *)
LEMMA HandleStep ==
  ASSUME TypeOK, HandleInv, [Next]_vars
  PROVE  HandleInv'
<1> USE DEF HandleInv
<1>t. pc \in [Reports -> {"new", "mkdir", "create", "write", "saved", "done"}]
        /\ handle \in [Reports -> Files \cup {None}] /\ dir \in [Reports -> 1..NumDirs]
        /\ hour \in 0..MaxHour
  BY DEF TypeOK
<1>1. ASSUME NEW r \in Reports, HandlePanic(r) \/ HandlePanicLog(r)
      PROVE  HandleInv'
  <2>1. pc[r] = "new" /\ pc' = [pc EXCEPT ![r] = "mkdir"] /\ handle' = handle /\ dir' = dir
    BY <1>1 DEF HandlePanic, HandlePanicLog, Goto
  <2> QED
    BY <1>t, <2>1
<1>2. ASSUME NEW r \in Reports, Mkdir(r) \/ CreateFails(r)
      PROVE  HandleInv'
  <2>1. pc[r] \in {"mkdir", "create"} /\ handle' = handle
    BY <1>2 DEF Mkdir, CreateFails
  <2>2. /\ \E x \in {"mkdir", "create", "saved"} : pc' = [pc EXCEPT ![r] = x]
        /\ \A q \in Reports \ {r} : dir'[q] = dir[q]
    <3>1. CASE Continue(r)
      BY <3>1, ContinueStep
    <3>2. CASE pc' = [pc EXCEPT ![r] = "create"] /\ dir' = dir
      BY <3>2
    <3> QED
      BY <1>2, <3>1, <3>2 DEF Mkdir, CreateFails, Goto
  <2> QED
    BY <1>t, <2>1, <2>2
<1>3. ASSUME NEW r \in Reports, Create(r)
      PROVE  HandleInv'
  <2>1. /\ handle' = [handle EXCEPT ![r] = <<dir[r], hour>>]
        /\ pc' = [pc EXCEPT ![r] = "write"]
        /\ dir' = dir
    BY <1>3 DEF Create, Goto
  <2>2. <<dir[r], hour>> \in Files /\ <<dir[r], hour>>[1] = dir[r]
    BY <1>t DEF Files
  <2> QED
    BY <1>t, <2>1, <2>2
<1>4. ASSUME NEW r \in Reports, Write(r) \/ WriteFails(r) \/ Return(r)
      PROVE  HandleInv'
  <2>1. /\ \E x \in {"saved", "done"} : pc' = [pc EXCEPT ![r] = x]
        /\ handle' = handle /\ dir' = dir
    BY <1>4 DEF Write, WriteFails, Return, Goto
  <2> QED
    BY <1>t, <2>1
<1>5. CASE Tick \/ UNCHANGED vars
  BY <1>5 DEF Tick, vars
<1> HIDE DEF HandleInv
<1> QED
  BY <1>1, <1>2, <1>3, <1>4, <1>5 DEF Next, Step

(* panicMutex is taken on entry, by nobody else in between, and given back  *)
(* only by its holder.                                                      *)
LEMMA MutexStep ==
  ASSUME TypeOK, MutexInv, [Next]_vars
  PROVE  MutexInv'
<1> USE PanicLogAssumption DEF MutexInv, Reports
<1>t. pc \in [Reports -> {"new", "mkdir", "create", "write", "saved", "done"}]
  BY DEF TypeOK
<1>1. ASSUME NEW r \in Reports, HandlePanic(r)
      PROVE  MutexInv'
  BY <1>t, <1>1 DEF HandlePanic, Goto
<1>2. ASSUME NEW r \in Reports, HandlePanicLog(r)
      PROVE  MutexInv'
  BY <1>t, <1>2 DEF HandlePanicLog, Goto
<1>3. ASSUME NEW r \in Reports, Mkdir(r) \/ CreateFails(r)
      PROVE  MutexInv'
  <2>1. panicMutex' = panicMutex /\ pc[r] \in {"mkdir", "create"}
    BY <1>3 DEF Mkdir, CreateFails
  <2>2. \E x \in {"mkdir", "create", "saved"} : pc' = [pc EXCEPT ![r] = x]
    BY <1>3, ContinueStep DEF Mkdir, CreateFails, Goto
  <2> QED
    BY <1>t, <2>1, <2>2
<1>4. ASSUME NEW r \in Reports, Create(r) \/ Write(r) \/ WriteFails(r)
      PROVE  MutexInv'
  BY <1>t, <1>4 DEF Create, Write, WriteFails, Goto
<1>5. ASSUME NEW r \in Reports, Return(r)
      PROVE  MutexInv'
  BY <1>t, <1>5 DEF Return, Goto
<1>6. CASE Tick \/ UNCHANGED vars
  BY <1>6 DEF Tick, vars
<1> HIDE DEF MutexInv, Reports
<1> QED
  BY <1>1, <1>2, <1>3, <1>4, <1>5, <1>6 DEF Next, Step

(* While HandlePanicLogs alone use a file, each finds it as os.Create left  *)
(* it when it writes: the next one is kept out until this one has returned. *)
LEMMA UnmixedStep ==
  ASSUME TypeOK, HandleInv, MutexInv, UnmixedInv, [Next]_vars
  PROVE  UnmixedInv'
<1> USE PanicLogAssumption DEF UnmixedInv, Between, Reports
<1>t. /\ pc \in [Reports -> {"new", "mkdir", "create", "write", "saved", "done"}]
      /\ handle \in [Reports -> Files \cup {None}]
      /\ file \in [Files -> Seq(Reports)]
  BY DEF TypeOK
<1>1. ASSUME NEW r \in Reports, HandlePanic(r) \/ HandlePanicLog(r)
      PROVE  UnmixedInv'
  <2>1. pc' = [pc EXCEPT ![r] = "mkdir"] /\ handle' = handle /\ file' = file
    BY <1>1 DEF HandlePanic, HandlePanicLog, Goto
  <2> QED
    BY <1>t, <2>1
<1>2. ASSUME NEW r \in Reports, Mkdir(r) \/ CreateFails(r)
      PROVE  UnmixedInv'
  <2>1. handle' = handle /\ file' = file
    BY <1>2 DEF Mkdir, CreateFails
  <2>2. \E x \in {"mkdir", "create", "saved"} : pc' = [pc EXCEPT ![r] = x]
    BY <1>2, ContinueStep DEF Mkdir, CreateFails, Goto
  <2> QED
    BY <1>t, <2>1, <2>2
<1>3. ASSUME NEW r \in Reports, Create(r)
      PROVE  UnmixedInv'
  <2> DEFINE g == <<dir[r], hour>>
  <2>1. /\ handle[r] = None
        /\ handle' = [handle EXCEPT ![r] = g]
        /\ file' = [file EXCEPT ![g] = <<>>]
        /\ pc' = [pc EXCEPT ![r] = "write"]
    BY <1>3 DEF Create, HandleInv, Goto
  <2> HIDE DEF g
  <2>2. SUFFICES ASSUME NEW f \in Files, \A q \in Handlers : handle'[q] # f
                 PROVE  /\ \A q \in LogHandlers : Between(q, f)' => file'[f] = <<>>
                        /\ \A i, j \in DOMAIN file'[f] : file'[f][i] = file'[f][j]
    OBVIOUS
  <2>3. \A q \in Handlers : handle[q] # f
    BY <1>t, <2>1, <2>2
  <2>4. CASE f = g
    BY <1>t, <2>1, <2>4
  <2>5. CASE f # g
    BY <1>t, <2>1, <2>3, <2>5
  <2> QED
    BY <2>4, <2>5
<1>4. ASSUME NEW r \in Reports, Write(r) \/ WriteFails(r)
      PROVE  UnmixedInv'
  <2> DEFINE g == handle[r]
  <2>1. PICK n \in Nat :
          /\ pc[r] = "write" /\ g \in Files
          /\ file' = [file EXCEPT ![g] = Overwritten(@, r, n)]
          /\ pc' = [pc EXCEPT ![r] = "saved"]
          /\ handle' = handle
    BY <1>4, WriteEffect
  <2>2. SUFFICES ASSUME NEW f \in Files, \A q \in Handlers : handle[q] # f
                 PROVE  /\ \A q \in LogHandlers : Between(q, f)' => file'[f] = <<>>
                        /\ \A i, j \in DOMAIN file'[f] : file'[f][i] = file'[f][j]
    BY <2>1
  <2>3. CASE f = g
    <3>1. r \in LogHandlers /\ file[f] = <<>>
      BY <1>t, <2>1, <2>2, <2>3
    <3>2. \A q \in LogHandlers : pc[q] = "write" => q = r
      BY <2>1, <3>1 DEF MutexInv
    <3>3. \A i \in DOMAIN Overwritten(file[f], r, n) : Overwritten(file[f], r, n)[i] = r
      <4>1. r \in Reports /\ file[f] \in Seq(Reports) /\ n \in Nat /\ file[f] = <<>>
        BY <1>t, <3>1
      <4> QED
        BY ONLY <4>1, OverwrittenProperties
    <3>4. file'[f] = Overwritten(file[f], r, n)
      BY <1>t, <2>1, <2>3
    <3>5. \A q \in LogHandlers : ~Between(q, f)'
      BY <1>t, <2>1, <3>2
    <3>6. \A i \in DOMAIN file'[f] : file'[f][i] = r
      BY ONLY <3>3, <3>4
    <3> QED
      BY <3>5, <3>6
  <2>4. CASE f # g
    <3>1. file'[f] = file[f]
      BY <1>t, <2>1, <2>4
    <3>2. \A q \in LogHandlers : Between(q, f)' => Between(q, f)
      BY <1>t, <2>1
    <3> QED
      BY <2>2, <3>1, <3>2
  <2> QED
    BY <2>3, <2>4
<1>5. ASSUME NEW r \in Reports, Return(r)
      PROVE  UnmixedInv'
  <2>1. pc' = [pc EXCEPT ![r] = "done"] /\ handle' = handle /\ file' = file
    BY <1>5 DEF Return, Goto
  <2> QED
    BY <1>t, <2>1
<1>6. CASE Tick \/ UNCHANGED vars
  BY <1>6 DEF Tick, vars
<1> HIDE DEF UnmixedInv, Between, Reports
<1> QED
  BY <1>1, <1>2, <1>3, <1>4, <1>5, <1>6 DEF Next, Step

(* A write leaves its report whole at the start of the file, and os.Create  *)
(* leaves nothing; no other step touches the file.                          *)
LEMMA WholeStep ==
  ASSUME TypeOK, HandleInv, LastReportWhole, [Next]_vars
  PROVE  LastReportWhole'
<1> USE DEF LastReportWhole
<1>t. file \in [Files -> Seq(Reports)] /\ writes \in [Files -> Seq(Reports)]
  BY DEF TypeOK
<1>1. ASSUME NEW r \in Reports, Create(r)
      PROVE  LastReportWhole'
  <2> DEFINE g == <<dir[r], hour>>
  <2>1. file' = [file EXCEPT ![g] = <<>>] /\ writes' = [writes EXCEPT ![g] = <<>>]
    BY <1>1 DEF Create
  <2> HIDE DEF g
  <2> QED
    BY <1>t, <2>1
<1>2. ASSUME NEW r \in Reports, Write(r)
      PROVE  LastReportWhole'
  <2> DEFINE g == handle[r]
  <2>1. /\ g \in Files
        /\ file' = [file EXCEPT ![g] = Overwritten(@, r, Size[r])]
        /\ writes' = [writes EXCEPT ![g] = Append(@, r)]
    BY <1>2 DEF Write, HandleInv
  <2> HIDE DEF g
  <2>2. /\ file'[g] = Overwritten(file[g], r, Size[r]) /\ writes'[g] = Append(writes[g], r)
        /\ \A f \in Files \ {g} : file'[f] = file[f] /\ writes'[f] = writes[f]
    BY <1>t, <2>1
  <2>3. Append(writes[g], r)[Len(Append(writes[g], r))] = r
    BY <1>t, <2>1, AppendProperties
  <2>4. /\ Len(Overwritten(file[g], r, Size[r])) >= Size[r]
        /\ \A i \in 1..Size[r] : Overwritten(file[g], r, Size[r])[i] = r
    BY <1>t, <2>1, OverwrittenProperties, PanicLogAssumption
  <2> QED
    BY <2>2, <2>3, <2>4
<1>3. ASSUME NEW r \in Reports, WriteFails(r)
      PROVE  LastReportWhole'
  <2> DEFINE g == handle[r]
  <2>1. PICK n \in 0..(Size[r] - 1) :
          /\ g \in Files
          /\ file' = [file EXCEPT ![g] = Overwritten(@, r, n)]
          /\ writes' = [writes EXCEPT ![g] = IF n = 0 THEN @ ELSE <<>>]
    BY <1>3 DEF WriteFails, HandleInv
  <2> HIDE DEF g
  <2>2. \A f \in Files \ {g} : file'[f] = file[f] /\ writes'[f] = writes[f]
    BY <1>t, <2>1
  <2>3. file[g] \in Seq(Reports) /\ file'[g] = Overwritten(file[g], r, n)
    BY <1>t, <2>1
  <2>4. writes'[g] # <<>> => n = 0 /\ writes'[g] = writes[g]
    BY <1>t, <2>1
  <2>5. n = 0 => file'[g] = file[g]
    BY <2>3, OverwrittenNothing
  <2> QED
    BY <1>t, <2>1, <2>2, <2>4, <2>5
<1>4. ASSUME UNCHANGED <<file, writes>>
      PROVE  LastReportWhole'
  BY <1>4
<1>5. ASSUME NEW r \in Reports,
             HandlePanic(r) \/ HandlePanicLog(r) \/ Mkdir(r) \/ CreateFails(r) \/ Return(r)
      PROVE  UNCHANGED <<file, writes>>
  BY <1>5 DEF HandlePanic, HandlePanicLog, Mkdir, CreateFails, Return
<1>6. CASE Tick \/ UNCHANGED vars
  BY <1>6 DEF Tick, vars
<1> HIDE DEF LastReportWhole
<1> QED
  BY <1>1, <1>2, <1>3, <1>4, <1>5, <1>6 DEF Next, Step

(* A file that some call has opened is about to be written, was written, or *)
(* a write to it failed.                                                    *)
LEMMA KeptStep ==
  ASSUME TypeOK, HandleInv, SomeReportKept, [Next]_vars
  PROVE  SomeReportKept'
<1> USE PanicLogAssumption DEF SomeReportKept, Between
<1>t. /\ pc \in [Reports -> {"new", "mkdir", "create", "write", "saved", "done"}]
      /\ handle \in [Reports -> Files \cup {None}]
      /\ file \in [Files -> Seq(Reports)]
      /\ failed \in [Reports -> SUBSET (1..NumDirs)]
  BY DEF TypeOK
<1>1. ASSUME NEW r \in Reports, HandlePanic(r) \/ HandlePanicLog(r)
      PROVE  SomeReportKept'
  <2>1. /\ pc[r] = "new" /\ pc' = [pc EXCEPT ![r] = "mkdir"]
        /\ handle' = handle /\ file' = file /\ failed' = failed
    BY <1>1 DEF HandlePanic, HandlePanicLog, Goto
  <2> QED
    BY <1>t, <2>1
<1>2. ASSUME NEW r \in Reports, Mkdir(r) \/ CreateFails(r)
      PROVE  SomeReportKept'
  <2>1. handle' = handle /\ file' = file /\ pc[r] \in {"mkdir", "create"}
    BY <1>2 DEF Mkdir, CreateFails
  <2>2. /\ \E x \in {"mkdir", "create", "saved"} : pc' = [pc EXCEPT ![r] = x]
        /\ \A q \in Reports : failed[q] \subseteq failed'[q]
    BY <1>2, ContinueStep DEF Mkdir, CreateFails, Goto
  <2> QED
    BY <1>t, <2>1, <2>2
<1>3. ASSUME NEW r \in Reports, Create(r)
      PROVE  SomeReportKept'
  <2> DEFINE g == <<dir[r], hour>>
  <2>1. /\ handle[r] = None
        /\ handle' = [handle EXCEPT ![r] = g]
        /\ file' = [file EXCEPT ![g] = <<>>]
        /\ pc' = [pc EXCEPT ![r] = "write"]
        /\ failed' = failed
    BY <1>3 DEF Create, HandleInv, Goto
  <2>2. pc[r] = "create"
    BY <1>3 DEF Create
  <2> HIDE DEF g
  <2>3. SUFFICES ASSUME NEW f \in Files,
                        \E q \in Reports : handle'[q] = f,
                        \A q \in Reports : ~(pc'[q] = "write" /\ handle'[q] = f),
                        \A q \in Reports : handle'[q] = f => f[1] \notin failed'[q]
                 PROVE  file'[f] # <<>>
    OBVIOUS
  <2>4. f # g
    BY <1>t, <2>1, <2>3
  <2>5. \A q \in Reports : handle[q] = f <=> handle'[q] = f
    BY <1>t, <2>1, <2>4
  <2>6. file[f] # <<>>
    BY <1>t, <2>1, <2>2, <2>3, <2>5
  <2> QED
    BY <1>t, <2>1, <2>4, <2>6
<1>4. ASSUME NEW r \in Reports, Write(r)
      PROVE  SomeReportKept'
  <2> DEFINE g == handle[r]
  <2>1. /\ g \in Files
        /\ file' = [file EXCEPT ![g] = Overwritten(@, r, Size[r])]
        /\ pc' = [pc EXCEPT ![r] = "saved"]
        /\ handle' = handle /\ failed' = failed
    BY <1>4 DEF Write, HandleInv, Goto
  <2>2. \A q \in Reports \ {r} : pc'[q] = pc[q]
    BY <1>t, <2>1
  <2>3. file'[g] # <<>>
    BY <1>t, <2>1, OverwrittenProperties
  <2>4. \A f \in Files \ {g} : file'[f] = file[f]
    BY <1>t, <2>1
  <2> QED
    BY <2>1, <2>2, <2>3, <2>4
<1>5. ASSUME NEW r \in Reports, WriteFails(r)
      PROVE  SomeReportKept'
  <2> DEFINE g == handle[r]
  <2>1. /\ g \in Files /\ g[1] = dir[r]
        /\ failed' = [failed EXCEPT ![r] = @ \cup {dir[r]}]
        /\ pc' = [pc EXCEPT ![r] = "saved"]
        /\ handle' = handle
        /\ \A f \in Files \ {g} : file'[f] = file[f]
    BY <1>t, <1>5 DEF WriteFails, HandleInv, Goto
  <2>2. \A q \in Reports \ {r} : pc'[q] = pc[q] /\ failed'[q] = failed[q]
    BY <1>t, <2>1
  <2>3. g[1] \in failed'[r] /\ failed[r] \subseteq failed'[r]
    BY <1>t, <2>1
  <2> QED
    BY <2>1, <2>2, <2>3
<1>6. ASSUME NEW r \in Reports, Return(r)
      PROVE  SomeReportKept'
  <2>1. /\ pc[r] = "saved" /\ pc' = [pc EXCEPT ![r] = "done"]
        /\ handle' = handle /\ file' = file /\ failed' = failed
    BY <1>6 DEF Return, Goto
  <2> QED
    BY <1>t, <2>1
<1>7. CASE Tick \/ UNCHANGED vars
  BY <1>7 DEF Tick, vars
<1> HIDE DEF SomeReportKept, Between
<1> QED
  BY <1>1, <1>2, <1>3, <1>4, <1>5, <1>6, <1>7 DEF Next, Step

(* PanicInv holds in every state that panics and the clock reach. *)
THEOREM InvariantHolds == Spec => []PanicInv
<1>1. PanicInv /\ [Next]_vars => PanicInv'
  BY TypeStep, HandleStep, MutexStep, UnmixedStep, WholeStep, KeptStep DEF PanicInv
<1> QED
  BY <1>1, InitInv, PTL DEF Spec

(* Reports that go through HandlePanicLog alone never share a file: a file  *)
(* with cells of two reports was opened by a HandlePanic, which takes no    *)
(* lock.                                                                    *)
THEOREM MutexKeepsReportsApart == Spec => []MixNeedsHandlePanic
<1>1. ASSUME PanicInv, NEW f \in Files, Cardinality(Cells(f)) > 1
      PROVE  \E r \in Handlers : handle[r] = f
  <2> SUFFICES ASSUME \A r \in Handlers : handle[r] # f
               PROVE  FALSE
    OBVIOUS
  <2>1. \A i, j \in DOMAIN file[f] : file[f][i] = file[f][j]
    BY <1>1 DEF PanicInv, UnmixedInv
  <2>2. CASE DOMAIN file[f] = {}
    <3>1. Cells(f) = {}
      BY <2>2 DEF Cells
    <3> QED
      BY <1>1, <3>1, FS_EmptySet
  <2>3. CASE DOMAIN file[f] # {}
    <3>1. PICK i \in DOMAIN file[f] : TRUE
      BY <2>3
    <3>2. Cells(f) = {file[f][i]}
      BY <2>1, <3>1 DEF Cells
    <3>3. Cardinality(Cells(f)) = 1
      BY <3>2, FS_Singleton
    <3> QED
      BY <1>1, <3>3
  <2> QED
    BY <2>2, <2>3
<1>2. PanicInv => MixNeedsHandlePanic
  BY <1>1 DEF MixNeedsHandlePanic
<1> QED
  BY <1>2, InvariantHolds, PTL

(* Whatever overlaps, a file begins with the whole report that was written  *)
(* to it last.                                                              *)
THEOREM LastReportIsWhole == Spec => []LastReportWhole
<1>1. PanicInv => LastReportWhole
  BY DEF PanicInv
<1> QED
  BY <1>1, InvariantHolds, PTL

(* Once nobody is between os.Create and the write of a file, it is empty    *)
(* only when a write to it failed.                                          *)
THEOREM AReportIsKept == Spec => []SomeReportKept
<1>1. PanicInv => SomeReportKept
  BY DEF PanicInv
<1> QED
  BY <1>1, InvariantHolds, PTL
=============================================================================
