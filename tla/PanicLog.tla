------------------------------ MODULE PanicLog ------------------------------
(***************************************************************************)
(* Panic reports of logger.go: HandlePanic (deferred by the application    *)
(* and by the consumer goroutine, takes no lock) and HandlePanicLog (takes *)
(* panicMutex) save a report with savePanicToFile, which tries the         *)
(* candidate directories in turn and creates panic_<program>_<hour>.log    *)
(* with os.Create: all the reports of an hour share a file, and each       *)
(* begins by truncating it.                                                *)
(*                                                                         *)
(* A file is a sequence of cells, a report fills Size[r] of them; a call   *)
(* writes at the start of the file through a handle of its own.            *)
(***************************************************************************)
EXTENDS Integers, Sequences, FiniteSets

CONSTANTS
  Handlers,   (* calls of HandlePanic                                      *)
  LogHandlers, (* calls of HandlePanicLog                                  *)
  Size,       (* length of the report of each call                         *)
  NumDirs,    (* candidate directories (2 in the code)                     *)
  MaxHour,    (* bounds the clock                                          *)
  Faults,     (* what may fail: "mkdir", "create", "write"                 *)
  None

Reports == Handlers \cup LogHandlers

Files == (1..NumDirs) \X (0..MaxHour)   (* by directory and hour *)

ASSUME PanicLogAssumption ==
  /\ Handlers \cap LogHandlers = {}
  /\ None \notin Reports \cup Files
  /\ Size \in [Reports -> Nat \ {0}]
  /\ NumDirs \in Nat \ {0} /\ MaxHour \in Nat

VARIABLES
  pc,         (* next step of each call                                    *)
  dir,        (* the candidate directory it tries                          *)
  handle,     (* the file it has open, None before os.Create               *)
  result,     (* "none", or what savePanicToFile returned: "text" or ""    *)
  panicMutex, (* holder, or None                                           *)
  hour,       (* part of the file's name                                   *)
  file,       (* cells of each file; <<>> also when it does not exist      *)
  writes,     (* history: the whole reports written to each file, since it *)
              (* was emptied or a failed write left a part of another      *)
  failed      (* history: candidates (or writes) of a call that failed     *)

vars == <<pc, dir, handle, result, panicMutex, hour, file, writes, failed>>

Init ==
  /\ pc = [r \in Reports |-> "new"]
  /\ dir = [r \in Reports |-> 1]
  /\ handle = [r \in Reports |-> None]
  /\ result = [r \in Reports |-> "none"]
  /\ panicMutex = None
  /\ hour = 0
  /\ file = [f \in Files |-> <<>>]
  /\ writes = [f \in Files |-> <<>>]
  /\ failed = [r \in Reports |-> {}]

Goto(r, next) == pc' = [pc EXCEPT ![r] = next]

-----------------------------------------------------------------------------
(* HandlePanic goes straight to savePanicToFile.                            *)
HandlePanic(r) ==
  /\ r \in Handlers
  /\ pc[r] = "new"
  /\ Goto(r, "mkdir")
  /\ UNCHANGED <<dir, handle, result, panicMutex, hour, file, writes, failed>>

(* Mutant of HandlePanicLog: panicMutex is not taken. *)
HandlePanicLogUnlocked(r) ==
  /\ r \in LogHandlers
  /\ pc[r] = "new"
  /\ Goto(r, "mkdir")
  /\ UNCHANGED <<dir, handle, result, panicMutex, hour, file, writes, failed>>

HandlePanicLog(r) ==
  /\ r \in LogHandlers
  /\ pc[r] = "new"
  /\ panicMutex = None
  /\ panicMutex' = r
  /\ Goto(r, "mkdir")
  /\ UNCHANGED <<dir, handle, result, hour, file, writes, failed>>

(* The next candidate, or the empty string when there is none left.         *)
Continue(r) ==
  /\ failed' = [failed EXCEPT ![r] = @ \cup {dir[r]}]
  /\ IF dir[r] < NumDirs
     THEN /\ dir' = [dir EXCEPT ![r] = @ + 1]
          /\ Goto(r, "mkdir")
          /\ UNCHANGED result
     ELSE /\ result' = [result EXCEPT ![r] = ""]
          /\ Goto(r, "saved")
          /\ UNCHANGED dir

(* os.MkdirAll *)
Mkdir(r) ==
  /\ pc[r] = "mkdir"
  /\ \/ /\ Goto(r, "create")
        /\ UNCHANGED <<dir, result, failed>>
     \/ /\ "mkdir" \in Faults
        /\ Continue(r)
  /\ UNCHANGED <<handle, panicMutex, hour, file, writes>>

(* os.Create: an existing file is emptied.                                  *)
Create(r) ==
  LET f == <<dir[r], hour>> IN
  /\ pc[r] = "create"
  /\ handle' = [handle EXCEPT ![r] = f]
  /\ file' = [file EXCEPT ![f] = <<>>]
  /\ writes' = [writes EXCEPT ![f] = <<>>]
  /\ Goto(r, "write")
  /\ UNCHANGED <<dir, result, panicMutex, hour, failed>>

(* Mutant of CreateFails: the file is emptied before the failure. *)
CreateFailsLate(r) ==
  /\ pc[r] = "create"
  /\ "create" \in Faults
  /\ Continue(r)
  /\ file' = [file EXCEPT ![<<dir[r], hour>>] = <<>>]
  /\ writes' = [writes EXCEPT ![<<dir[r], hour>>] = <<>>]
  /\ UNCHANGED <<handle, panicMutex, hour>>

CreateFails(r) ==
  /\ pc[r] = "create"
  /\ "create" \in Faults
  /\ Continue(r)
  /\ UNCHANGED <<handle, panicMutex, hour, file, writes>>

(* What is in a file of contents "old" after n cells of r's report are      *)
(* written at its start.                                                    *)
Overwritten(old, r, n) ==
  [i \in 1..(IF Len(old) > n THEN Len(old) ELSE n) |-> IF i <= n THEN r ELSE old[i]]

(* Mutant of Write: the report goes to the end of the file. *)
WriteAppends(r) ==
  LET f == handle[r] IN
  /\ pc[r] = "write"
  /\ file' = [file EXCEPT ![f] = @ \o [i \in 1..Size[r] |-> r]]
  /\ writes' = [writes EXCEPT ![f] = Append(@, r)]
  /\ result' = [result EXCEPT ![r] = "text"]
  /\ Goto(r, "saved")
  /\ UNCHANGED <<dir, handle, panicMutex, hour, failed>>

(* f.WriteString; f is closed on return.                                    *)
Write(r) ==
  LET f == handle[r] IN
  /\ pc[r] = "write"
  /\ file' = [file EXCEPT ![f] = Overwritten(@, r, Size[r])]
  /\ writes' = [writes EXCEPT ![f] = Append(@, r)]
  /\ result' = [result EXCEPT ![r] = "text"]
  /\ Goto(r, "saved")
  /\ UNCHANGED <<dir, handle, panicMutex, hour, failed>>

(* It fails with none or some of the report written; the error is not       *)
(* looked at, and the report is returned all the same.                      *)
WriteFails(r) ==
  LET f == handle[r] IN
  /\ pc[r] = "write"
  /\ "write" \in Faults
  /\ \E n \in 0..(Size[r] - 1) :
       /\ file' = [file EXCEPT ![f] = Overwritten(@, r, n)]
       /\ writes' = [writes EXCEPT ![f] = IF n = 0 THEN @ ELSE <<>>]
  /\ failed' = [failed EXCEPT ![r] = @ \cup {dir[r]}]
  /\ result' = [result EXCEPT ![r] = "text"]
  /\ Goto(r, "saved")
  /\ UNCHANGED <<dir, handle, panicMutex, hour>>

(* Mutant of Return: no defer. *)
ReturnLocked(r) ==
  /\ pc[r] = "saved"
  /\ Goto(r, "done")
  /\ UNCHANGED <<dir, handle, result, panicMutex, hour, file, writes, failed>>

(* The rest of HandlePanicLog: errLog.Printf does not block; if it panics   *)
(* the deferred Unlock runs all the same.  HandlePanic calls ErrorCatcher.  *)
Return(r) ==
  /\ pc[r] = "saved"
  /\ panicMutex' = IF r \in LogHandlers THEN None ELSE panicMutex
  /\ Goto(r, "done")
  /\ UNCHANGED <<dir, handle, result, hour, file, writes, failed>>

Tick ==
  /\ hour < MaxHour
  /\ hour' = hour + 1
  /\ UNCHANGED <<pc, dir, handle, result, panicMutex, file, writes, failed>>

Step(r) ==
  \/ Mkdir(r)
  \/ Create(r)
  \/ CreateFails(r)
  \/ Write(r)
  \/ WriteFails(r)
  \/ Return(r)

Next ==
  \/ \E r \in Reports : HandlePanic(r) \/ HandlePanicLog(r) \/ Step(r)
  \/ Tick

Spec == Init /\ [][Next]_vars

(* A panicking goroutine keeps running, and a mutex is handed over.         *)
FairSpec == Spec /\ \A r \in Reports :
                      WF_vars(Step(r)) /\ SF_vars(HandlePanicLog(r)) /\ WF_vars(HandlePanic(r))

-----------------------------------------------------------------------------
(***************************************************************************)
(* Properties.                                                             *)
(***************************************************************************)
(* The type of every variable. *)
TypeOK ==
  /\ pc \in [Reports -> {"new", "mkdir", "create", "write", "saved", "done"}]
  /\ dir \in [Reports -> 1..NumDirs]
  /\ handle \in [Reports -> Files \cup {None}]
  /\ result \in [Reports -> {"none", "text", ""}]
  /\ panicMutex \in LogHandlers \cup {None}
  /\ hour \in 0..MaxHour
  /\ file \in [Files -> Seq(Reports)]
  /\ writes \in [Files -> Seq(Reports)]
  /\ failed \in [Reports -> SUBSET (1..NumDirs)]

Cells(f) == {file[f][i] : i \in DOMAIN file[f]}

Between(r, f) == pc[r] = "write" /\ handle[r] = f

(* Reports that go through HandlePanicLog alone do not mix: a file with     *)
(* cells of two reports needs a HandlePanic that overlapped the other one.  *)
MixNeedsHandlePanic ==
  \A f \in Files : Cardinality(Cells(f)) > 1 =>
    \E r \in Handlers : handle[r] = f

(* A file that was written since it was last emptied begins with a whole    *)
(* report: the last one written, whatever overlapped it, unless a write     *)
(* that failed later left a part of its own report there.                   *)
LastReportWhole ==
  \A f \in Files : writes[f] # <<>> =>
    LET r == writes[f][Len(writes[f])] IN
    /\ Len(file[f]) >= Size[r]
    /\ \A i \in 1..Size[r] : file[f][i] = r

(* When every call is over, an hour's file is empty only because writes to  *)
(* it failed: the last os.Create is followed by its own write.              *)
SomeReportKept ==
  \A f \in Files :
    /\ \E r \in Reports : handle[r] = f
    /\ \A r \in Reports : ~Between(r, f)
    /\ \A r \in Reports : handle[r] = f => f[1] \notin failed[r]
    => file[f] # <<>>

-----------------------------------------------------------------------------
(***************************************************************************)
(* The inductive invariant behind the safety properties.                   *)
(***************************************************************************)

(* A call has its file from os.Create on, in the directory it then tried. *)
HandleInv ==
  \A r \in Reports :
    /\ pc[r] \in {"new", "mkdir", "create"} => handle[r] = None
    /\ pc[r] = "write" => handle[r] \in Files /\ handle[r][1] = dir[r]

(* HandlePanicLog holds panicMutex from its entry to its return. *)
MutexInv ==
  \A r \in LogHandlers :
    pc[r] \in {"mkdir", "create", "write", "saved"} => panicMutex = r

(* A file that no HandlePanic has opened is empty while one is about to     *)
(* write it, and all its cells are of one report.                           *)
UnmixedInv ==
  \A f \in Files : (\A r \in Handlers : handle[r] # f) =>
    /\ \A r \in LogHandlers : Between(r, f) => file[f] = <<>>
    /\ \A i, j \in DOMAIN file[f] : file[f][i] = file[f][j]

PanicInv ==
  /\ TypeOK
  /\ HandleInv
  /\ MutexInv
  /\ UnmixedInv
  /\ LastReportWhole
  /\ SomeReportKept

-----------------------------------------------------------------------------
(* Every panic handler returns: panicMutex is released on every way out.    *)
HandlersReturn == \A r \in Reports : <>(pc[r] = "done")

-----------------------------------------------------------------------------
(***************************************************************************)
(* What a comment says and the code does not do: a saved report stays in   *)
(* the file.                                                               *)
(***************************************************************************)
NeverLost ==
  \A r \in Reports :
    result[r] = "text" /\ dir[r] \notin failed[r] => r \in Cells(handle[r])
=============================================================================
