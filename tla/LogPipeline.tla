---------------------------- MODULE LogPipeline ----------------------------
(***************************************************************************)
(* The asynchronous write path of logger.go: goroutines that print put     *)
(* messages on the package channel tologCh, the goroutine started by       *)
(* init() takes them off and writes them, and Wait / Flush / Close /       *)
(* Fatalf wait for a logger's WaitGroup logTasks.                          *)
(*                                                                         *)
(* A thread is a goroutine of the application or the consumer.  pc[t] is   *)
(* the next step of the call t is in; the sections under l.m and l.em do   *)
(* not block inside, so each is one step.                                  *)
(***************************************************************************)
EXTENDS Integers, Sequences, FiniteSets

CONSTANTS
  Goroutines,   (* goroutines of the application that use loggers          *)
  Consumer,     (* the goroutine that init() starts                        *)
  Loggers,      (* *Logger values made by NewLogger (filename # "")        *)
  Msgs,         (* one element for each call of print                      *)
  ChanCap,      (* capacity of tologCh (10000 in the code)                 *)
  Faults,       (* file system calls that may fail: "mkdir", "write"       *)
  None

ASSUME PipelineAssumption ==
  /\ Consumer \notin Goroutines
  /\ ChanCap \in Nat \ {0}
  /\ None \notin Loggers
  /\ None \notin Msgs

Threads == Goroutines \cup {Consumer}

VARIABLES
  pc,           (* next step of each thread                                *)
  op,           (* the call a goroutine is in, when it is one that waits   *)
  arg,          (* the logger that call is about                           *)
  msg,          (* the message a thread has in hand                        *)
  seen,         (* history: what was pending when a goroutine's Wait began *)
  st,           (* where the WaitGroup stands with each message            *)
  to,           (* the logger a message was printed to                     *)
  fate,         (* history: what became of a message                       *)
  tologCh,      (* the channel                                             *)
  sent,         (* history: every message sent on tologCh, in order        *)
  dropAlert,    (* the package flag of the one-time stderr warning         *)
  waitStarted,  (* l.waitStarted                                           *)
  tasks,        (* counter of the WaitGroup l.logTasks                     *)
  misused,      (* history: Add raced with the release of l.logTasks       *)
  log, zlog,    (* l.log and l.zlog are not nil                            *)
  fd,           (* the file under l.log is open                            *)
  file          (* the messages in the file, oldest first                  *)

callVars == <<op, arg, seen>>
chanVars == <<tologCh, sent, dropAlert>>
wgVars   == <<tasks, misused>>
fileVars == <<log, zlog, fd, file>>
vars == <<pc, msg, st, to, fate, waitStarted, callVars, chanVars, wgVars, fileVars>>

(***************************************************************************)
(* st[m]: "new" not printed yet, "called" print passed the waitStarted     *)
(* test, "pending" logTasks.Add(1) was called for it and Done was not,     *)
(* "settled" the pipeline is done with it.                                 *)
(***************************************************************************)
Pending(l) == {m \in Msgs : to[m] = l /\ st[m] = "pending"}

Parked(l) == {p \in Goroutines : pc[p] = "parked" /\ arg[p] = l}

(* Where a goroutine goes after the print part and after the Wait part of  *)
(* its call: Fatalf prints, flushes and panics; Close waits and closes.    *)
AfterPrint(o) == IF o = "fatal" THEN "wait" ELSE "idle"
AfterWait(o)  == CASE o = "wait"  -> "idle"
                   [] o = "close" -> "close"
                   [] o = "fatal" -> "panicked"

AfterDone(t) == IF t = Consumer THEN "recv" ELSE AfterPrint(op[t])

(* A goroutine returns to its caller. *)
ReturnFromWait(p) ==
  /\ pc' = [pc EXCEPT ![p] = AfterWait(op[p])]
  /\ seen' = [seen EXCEPT ![p] = {}]
  /\ IF op[p] = "wait"
     THEN /\ op'  = [op  EXCEPT ![p] = "none"]
          /\ arg' = [arg EXCEPT ![p] = None]
     ELSE UNCHANGED <<op, arg>>

(* pc after a release of l's WaitGroup by thread t, which goes on to "next". *)
Released(l, t, next) ==
  [q \in Threads |-> IF q \in Parked(l) THEN "woken"
                     ELSE IF q = t THEN next ELSE pc[q]]

-----------------------------------------------------------------------------
Init ==
  /\ pc = [t \in Threads |-> IF t = Consumer THEN "recv" ELSE "idle"]
  /\ op = [p \in Goroutines |-> "none"]
  /\ arg = [p \in Goroutines |-> None]
  /\ msg = [t \in Threads |-> None]
  /\ seen = [p \in Goroutines |-> {}]
  /\ st = [m \in Msgs |-> "new"]
  /\ to = [m \in Msgs |-> None]
  /\ fate = [m \in Msgs |-> "none"]
  /\ tologCh = <<>>
  /\ sent = <<>>
  /\ dropAlert = FALSE
  /\ waitStarted = [l \in Loggers |-> FALSE]
  /\ tasks = [l \in Loggers |-> 0]
  /\ misused = [l \in Loggers |-> FALSE]
  /\ log = [l \in Loggers |-> FALSE]
  /\ zlog = [l \in Loggers |-> FALSE]
  /\ fd = [l \in Loggers |-> FALSE]
  /\ file = [l \in Loggers |-> <<>>]

-----------------------------------------------------------------------------
(* Mutant of PrintCall: print does not look at waitStarted. *)
PrintCallUnmuted(p, l, m, o) ==
  /\ pc[p] = "idle"
  /\ st[m] = "new"
  /\ to' = [to EXCEPT ![m] = l]
  /\ IF o = "fatal"
     THEN /\ op'  = [op  EXCEPT ![p] = o]
          /\ arg' = [arg EXCEPT ![p] = l]
     ELSE UNCHANGED <<op, arg>>
  /\ st' = [st EXCEPT ![m] = "called"]
  /\ msg' = [msg EXCEPT ![p] = m]
  /\ pc' = [pc EXCEPT ![p] = "add"]
  /\ UNCHANGED <<fate, seen, waitStarted, chanVars, wgVars, fileVars>>

(* Print, Printf, Println (o = "none") and the printf of Fatalf             *)
(* (o = "fatal").  A print that finds waitStarted set returns at once.      *)
PrintCall(p, l, m, o) ==
  /\ pc[p] = "idle"
  /\ st[m] = "new"
  /\ to' = [to EXCEPT ![m] = l]
  /\ IF o = "fatal"
     THEN /\ op'  = [op  EXCEPT ![p] = o]
          /\ arg' = [arg EXCEPT ![p] = l]
     ELSE UNCHANGED <<op, arg>>
  /\ \/ /\ waitStarted[l]
        /\ st' = [st EXCEPT ![m] = "settled"]
        /\ fate' = [fate EXCEPT ![m] = "muted"]
        /\ pc' = [pc EXCEPT ![p] = AfterPrint(o)]
        /\ UNCHANGED msg
     \/ /\ ~waitStarted[l]
        /\ st' = [st EXCEPT ![m] = "called"]
        /\ msg' = [msg EXCEPT ![p] = m]
        /\ pc' = [pc EXCEPT ![p] = "add"]
        /\ UNCHANGED fate
  /\ UNCHANGED <<seen, waitStarted, chanVars, wgVars, fileVars>>

(* logTasks.Add(1).  The WaitGroup panics when the counter leaves zero      *)
(* while somebody is parked on it: the Done that brought it to zero has     *)
(* not released the waiters yet.  A counter below zero (only after a reset, *)
(* see ReleaseReset) panics too; back at zero it releases the waiters.      *)
PrintAdd(p) ==
  LET m == msg[p]
      l == to[m]
      v == tasks[l] + 1
      misuse == v = 1 /\ Parked(l) # {}
  IN  /\ pc[p] = "add"
      /\ tasks' = [tasks EXCEPT ![l] = v]
      /\ st' = [st EXCEPT ![m] = "pending"]
      /\ misused' = [misused EXCEPT ![l] = @ \/ misuse]
      /\ pc' = IF v = 0 THEN Released(l, p, "send")
               ELSE [pc EXCEPT ![p] = IF misuse \/ v < 0 THEN "panicked" ELSE "send"]
      /\ UNCHANGED <<msg, to, fate, waitStarted, callVars, chanVars, fileVars>>

(* Mutant of PrintSend: a send that does not respect the capacity. *)
PrintSendUnbounded(p) ==
  /\ pc[p] = "send"
  /\ tologCh' = Append(tologCh, msg[p])
  /\ sent' = Append(sent, msg[p])
  /\ pc' = [pc EXCEPT ![p] = AfterPrint(op[p])]
  /\ msg' = [msg EXCEPT ![p] = None]
  /\ UNCHANGED <<st, to, fate, dropAlert, waitStarted, callVars, wgVars, fileVars>>

(* The select of print: the message goes on the channel ...                 *)
PrintSend(p) ==
  /\ pc[p] = "send"
  /\ Len(tologCh) < ChanCap
  /\ tologCh' = Append(tologCh, msg[p])
  /\ sent' = Append(sent, msg[p])
  /\ pc' = [pc EXCEPT ![p] = AfterPrint(op[p])]
  /\ msg' = [msg EXCEPT ![p] = None]
  /\ UNCHANGED <<st, to, fate, dropAlert, waitStarted, callVars, wgVars, fileVars>>

(* Mutant of PrintDrop: the dropped message's Done is forgotten. *)
PrintDropNoDone(p) ==
  /\ pc[p] = "send"
  /\ Len(tologCh) >= ChanCap
  /\ dropAlert' = TRUE
  /\ fate' = [fate EXCEPT ![msg[p]] = "dropped"]
  /\ st' = [st EXCEPT ![msg[p]] = "settled"]
  /\ pc' = [pc EXCEPT ![p] = AfterPrint(op[p])]
  /\ msg' = [msg EXCEPT ![p] = None]
  /\ UNCHANGED <<to, tologCh, sent, waitStarted, callVars, wgVars, fileVars>>

(* Mutant of PrintDrop: a message is dropped although there is room. *)
PrintDropEarly(p) ==
  /\ pc[p] = "send"
  /\ Len(tologCh) >= ChanCap - 1
  /\ dropAlert' = TRUE
  /\ fate' = [fate EXCEPT ![msg[p]] = "dropped"]
  /\ pc' = [pc EXCEPT ![p] = "done"]
  /\ UNCHANGED <<msg, st, to, tologCh, sent, waitStarted, callVars, wgVars, fileVars>>

(* ... or, when it is full, is dropped: warn the first time, then Done.     *)
PrintDrop(p) ==
  /\ pc[p] = "send"
  /\ Len(tologCh) >= ChanCap
  /\ dropAlert' = TRUE
  /\ fate' = [fate EXCEPT ![msg[p]] = "dropped"]
  /\ pc' = [pc EXCEPT ![p] = "done"]
  /\ UNCHANGED <<msg, st, to, tologCh, sent, waitStarted, callVars, wgVars, fileVars>>

-----------------------------------------------------------------------------
(* Mutant of Done: whoever brings the counter to zero wakes nobody. *)
DoneNoRelease(t) ==
  LET m == msg[t]
      l == to[m]
  IN  /\ pc[t] = "done"
      /\ tasks' = [tasks EXCEPT ![l] = @ - 1]
      /\ st' = [st EXCEPT ![m] = "settled"]
      /\ pc' = [pc EXCEPT ![t] = IF tasks[l] < 1 THEN "panicked" ELSE AfterDone(t)]
      /\ msg' = [msg EXCEPT ![t] = None]
      /\ UNCHANGED <<to, fate, misused, waitStarted, callVars, chanVars, fileVars>>

(* logTasks.Done() by the consumer or by a print that dropped its message.  *)
(* It returns when the counter stays positive or nobody is parked; the      *)
(* Done that reaches zero with a waiter parked goes on to release it.       *)
Done(t) ==
  LET m == msg[t]
      l == to[m]
      v == tasks[l] - 1
  IN  /\ pc[t] = "done"
      /\ tasks' = [tasks EXCEPT ![l] = v]
      /\ st' = [st EXCEPT ![m] = "settled"]
      /\ IF v = 0 /\ Parked(l) # {}
         THEN /\ pc' = [pc EXCEPT ![t] = "release"]
              /\ UNCHANGED msg
         ELSE /\ pc' = [pc EXCEPT ![t] = IF v < 0 THEN "panicked" ELSE AfterDone(t)]
              /\ msg' = [msg EXCEPT ![t] = None]
      /\ UNCHANGED <<to, fate, misused, waitStarted, callVars, chanVars, fileVars>>

(* The counter is still zero: the waiters are released. *)
Release(t) ==
  LET l == to[msg[t]] IN
  /\ pc[t] = "release"
  /\ tasks[l] = 0
  /\ pc' = Released(l, t, AfterDone(t))
  /\ msg' = [msg EXCEPT ![t] = None]
  /\ UNCHANGED <<st, to, fate, waitStarted, callVars, chanVars, wgVars, fileVars>>

(* An Add got in between: the sanity check of the WaitGroup panics.  In the *)
(* consumer, HandlePanic recovers and the consumer goroutine ends.          *)
ReleasePanic(t) ==
  LET l == to[msg[t]] IN
  /\ pc[t] = "release"
  /\ tasks[l] # 0
  /\ pc' = [pc EXCEPT ![t] = "panicked"]
  /\ msg' = [msg EXCEPT ![t] = None]
  /\ UNCHANGED <<st, to, fate, waitStarted, callVars, chanVars, wgVars, fileVars>>

(* The Add got in after that check: the counter is reset and the Add lost.  *)
ReleaseReset(t) ==
  LET l == to[msg[t]] IN
  /\ pc[t] = "release"
  /\ tasks[l] # 0
  /\ tasks' = [tasks EXCEPT ![l] = 0]
  /\ pc' = Released(l, t, AfterDone(t))
  /\ msg' = [msg EXCEPT ![t] = None]
  /\ UNCHANGED <<st, to, fate, misused, waitStarted, callVars, chanVars, fileVars>>

-----------------------------------------------------------------------------
(* Mutant of Receive: the message stays in the channel. *)
ReceivePeek ==
  /\ pc[Consumer] = "recv"
  /\ tologCh # <<>>
  /\ msg' = [msg EXCEPT ![Consumer] = Head(tologCh)]
  /\ pc' = [pc EXCEPT ![Consumer] = "open"]
  /\ UNCHANGED <<st, to, fate, chanVars, waitStarted, callVars, wgVars, fileVars>>

(* Mutant of Receive: the newest message is taken first. *)
ReceiveNewest ==
  /\ pc[Consumer] = "recv"
  /\ tologCh # <<>>
  /\ msg' = [msg EXCEPT ![Consumer] = tologCh[Len(tologCh)]]
  /\ tologCh' = SubSeq(tologCh, 1, Len(tologCh) - 1)
  /\ pc' = [pc EXCEPT ![Consumer] = "open"]
  /\ UNCHANGED <<st, to, fate, sent, dropAlert, waitStarted, callVars, wgVars, fileVars>>

(* The consumer: "for elem := range tologCh". *)
Receive ==
  /\ pc[Consumer] = "recv"
  /\ tologCh # <<>>
  /\ msg' = [msg EXCEPT ![Consumer] = Head(tologCh)]
  /\ tologCh' = Tail(tologCh)
  /\ pc' = [pc EXCEPT ![Consumer] = "open"]
  /\ UNCHANGED <<st, to, fate, sent, dropAlert, waitStarted, callVars, wgVars, fileVars>>

(* Under em: newLogger on the first message of this logger.  The file       *)
(* itself is opened by the first write.                                     *)
OpenLog ==
  LET l == to[msg[Consumer]] IN
  /\ pc[Consumer] = "open"
  /\ log' = [log EXCEPT ![l] = TRUE]
  /\ zlog' = [zlog EXCEPT ![l] = IF log[l] THEN @ ELSE TRUE]
  /\ pc' = [pc EXCEPT ![Consumer] = "write"]
  /\ UNCHANGED <<msg, st, to, fate, fd, file, waitStarted, callVars, chanVars, wgVars>>

(* Mutant of OpenFails: the loop is left instead of continued. *)
OpenFailsEndsLoop ==
  LET m == msg[Consumer] IN
  /\ pc[Consumer] = "open"
  /\ "mkdir" \in Faults
  /\ ~log[to[m]]
  /\ fate' = [fate EXCEPT ![m] = "skipped"]
  /\ pc' = [pc EXCEPT ![Consumer] = "panicked"]
  /\ UNCHANGED <<msg, st, to, waitStarted, callVars, chanVars, wgVars, fileVars>>

(* newLogger could not make the directory: the message is skipped, and the  *)
(* next message of this logger tries again.                                 *)
OpenFails ==
  LET m == msg[Consumer] IN
  /\ pc[Consumer] = "open"
  /\ "mkdir" \in Faults
  /\ ~log[to[m]]
  /\ fate' = [fate EXCEPT ![m] = "skipped"]
  /\ pc' = [pc EXCEPT ![Consumer] = "done"]
  /\ UNCHANGED <<msg, st, to, waitStarted, callVars, chanVars, wgVars, fileVars>>

(* elem.log.log.Print: the writer opens its file when it is not open.       *)
WriteLog ==
  LET m == msg[Consumer]
      l == to[m]
  IN  /\ pc[Consumer] = "write"
      /\ fd' = [fd EXCEPT ![l] = TRUE]
      /\ file' = [file EXCEPT ![l] = Append(@, m)]
      /\ fate' = [fate EXCEPT ![m] = "written"]
      /\ pc' = [pc EXCEPT ![Consumer] = "done"]
      /\ UNCHANGED <<msg, st, to, log, zlog, waitStarted, callVars, chanVars, wgVars>>

(* log.Logger.Print discards the error of a failed write. *)
WriteFails ==
  /\ pc[Consumer] = "write"
  /\ "write" \in Faults
  /\ fd' \in {fd, [fd EXCEPT ![to[msg[Consumer]]] = TRUE]}
  /\ fate' = [fate EXCEPT ![msg[Consumer]] = "lost"]
  /\ pc' = [pc EXCEPT ![Consumer] = "done"]
  /\ UNCHANGED <<msg, st, to, log, zlog, file, waitStarted, callVars, chanVars, wgVars>>

-----------------------------------------------------------------------------
(* Wait, Flush (o = "wait") and Close (o = "close") are called. *)
WaitCall(p, l, o) ==
  /\ pc[p] = "idle"
  /\ op' = [op EXCEPT ![p] = o]
  /\ arg' = [arg EXCEPT ![p] = l]
  /\ pc' = [pc EXCEPT ![p] = "wait"]
  /\ UNCHANGED <<msg, seen, st, to, fate, waitStarted, chanVars, wgVars, fileVars>>

(* Mutant of WaitTurnedAway: waitStarted is reset on every way out of Wait. *)
WaitTurnedAwayResets(p) ==
  /\ pc[p] = "wait"
  /\ waitStarted[arg[p]]
  /\ waitStarted' = [waitStarted EXCEPT ![arg[p]] = FALSE]
  /\ ReturnFromWait(p)
  /\ UNCHANGED <<msg, st, to, fate, chanVars, wgVars, fileVars>>

(* Under l.m: somebody is waiting already, so this Wait returns at once ... *)
WaitTurnedAway(p) ==
  /\ pc[p] = "wait"
  /\ waitStarted[arg[p]]
  /\ ReturnFromWait(p)
  /\ UNCHANGED <<msg, st, to, fate, waitStarted, chanVars, wgVars, fileVars>>

(* ... or this goroutine becomes the one that waits. *)
WaitBegin(p) ==
  LET l == arg[p] IN
  /\ pc[p] = "wait"
  /\ ~waitStarted[l]
  /\ waitStarted' = [waitStarted EXCEPT ![l] = TRUE]
  /\ seen' = [seen EXCEPT ![p] = Pending(l)]
  /\ pc' = [pc EXCEPT ![p] = "wg"]
  /\ UNCHANGED <<msg, op, arg, st, to, fate, chanVars, wgVars, fileVars>>

(* Mutant of WgWait: logTasks.Wait() is not called. *)
WgWaitSkipped(p) ==
  /\ pc[p] = "wg"
  /\ pc' = [pc EXCEPT ![p] = "end"]
  /\ UNCHANGED <<msg, st, to, fate, waitStarted, callVars, chanVars, wgVars, fileVars>>

(* logTasks.Wait(): return at once when the counter is zero, else park.     *)
WgWait(p) ==
  /\ pc[p] = "wg"
  /\ pc' = [pc EXCEPT ![p] = IF tasks[arg[p]] = 0 THEN "end" ELSE "parked"]
  /\ UNCHANGED <<msg, st, to, fate, waitStarted, callVars, chanVars, wgVars, fileVars>>

(* A released waiter looks at the WaitGroup once more: it must be unused.   *)
WgReturn(p) ==
  LET l == arg[p] IN
  /\ pc[p] = "woken"
  /\ tasks[l] = 0 /\ Parked(l) = {}
  /\ pc' = [pc EXCEPT ![p] = "end"]
  /\ UNCHANGED <<msg, st, to, fate, waitStarted, callVars, chanVars, wgVars, fileVars>>

(* "WaitGroup is reused before previous Wait has returned": waitStarted     *)
(* stays set.                                                               *)
WgReusePanic(p) ==
  LET l == arg[p] IN
  /\ pc[p] = "woken"
  /\ ~(tasks[l] = 0 /\ Parked(l) = {})
  /\ pc' = [pc EXCEPT ![p] = "panickedInWait"]
  /\ UNCHANGED <<msg, st, to, fate, waitStarted, callVars, chanVars, wgVars, fileVars>>

(* Under l.m: prints are let through again. *)
WaitEnd(p) ==
  /\ pc[p] = "end"
  /\ waitStarted' = [waitStarted EXCEPT ![arg[p]] = FALSE]
  /\ ReturnFromWait(p)
  /\ UNCHANGED <<msg, st, to, fate, chanVars, wgVars, fileVars>>

(* The rest of Close, under em. *)
CloseLog(p) ==
  LET l == arg[p] IN
  /\ pc[p] = "close"
  /\ zlog' = [zlog EXCEPT ![l] = FALSE]
  /\ fd' = [fd EXCEPT ![l] = IF zlog[l] THEN FALSE ELSE @]
  /\ pc' = [pc EXCEPT ![p] = "idle"]
  /\ op' = [op EXCEPT ![p] = "none"]
  /\ arg' = [arg EXCEPT ![p] = None]
  /\ UNCHANGED <<msg, seen, st, to, fate, log, file, waitStarted, chanVars, wgVars>>

-----------------------------------------------------------------------------
ConsumerStep ==
  \/ Receive
  \/ OpenLog
  \/ OpenFails
  \/ WriteLog
  \/ WriteFails

WgDoneStep(t) ==
  \/ Done(t)
  \/ Release(t)
  \/ ReleasePanic(t)
  \/ ReleaseReset(t)

(* The steps of a call that is under way. *)
CallStep(p) ==
  \/ PrintAdd(p)
  \/ PrintSend(p)
  \/ PrintDrop(p)
  \/ WaitTurnedAway(p)
  \/ WaitBegin(p)
  \/ WgWait(p)
  \/ WgReturn(p)
  \/ WgReusePanic(p)
  \/ WaitEnd(p)
  \/ CloseLog(p)

Calls(p) ==
  \/ \E l \in Loggers, m \in Msgs, o \in {"none", "fatal"} : PrintCall(p, l, m, o)
  \/ \E l \in Loggers, o \in {"wait", "close"} : WaitCall(p, l, o)

Next ==
  \/ ConsumerStep
  \/ \E t \in Threads : WgDoneStep(t)
  \/ \E p \in Goroutines : CallStep(p) \/ Calls(p)

Spec == Init /\ [][Next]_vars

(* The Go scheduler runs every goroutine that can run.  Whether the         *)
(* application makes another call is up to it.                              *)
Fairness ==
  /\ WF_vars(ConsumerStep \/ WgDoneStep(Consumer))
  /\ \A p \in Goroutines : WF_vars(CallStep(p) \/ WgDoneStep(p))

FairSpec == Spec /\ Fairness

-----------------------------------------------------------------------------
(***************************************************************************)
(* Properties.                                                             *)
(***************************************************************************)
GoroutinePc == {"idle", "add", "send", "done", "release", "wait", "wg", "parked",
                "woken", "end", "close", "panicked", "panickedInWait"}
ConsumerPc == {"recv", "open", "write", "done", "release", "panicked"}

(* The type of every variable. *)
TypeOK ==
  /\ pc \in [Threads -> GoroutinePc \cup ConsumerPc]
  /\ pc[Consumer] \in ConsumerPc
  /\ \A p \in Goroutines : pc[p] \in GoroutinePc
  /\ op \in [Goroutines -> {"none", "wait", "close", "fatal"}]
  /\ arg \in [Goroutines -> Loggers \cup {None}]
  /\ msg \in [Threads -> Msgs \cup {None}]
  /\ seen \in [Goroutines -> SUBSET Msgs]
  /\ st \in [Msgs -> {"new", "called", "pending", "settled"}]
  /\ to \in [Msgs -> Loggers \cup {None}]
  /\ fate \in [Msgs -> {"none", "muted", "dropped", "skipped", "lost", "written"}]
  /\ tologCh \in Seq(Msgs)
  /\ sent \in Seq(Msgs)
  /\ Len(tologCh) <= ChanCap
  /\ dropAlert \in BOOLEAN
  /\ waitStarted \in [Loggers -> BOOLEAN]
  /\ tasks \in [Loggers -> Int]
  /\ misused \in [Loggers -> BOOLEAN]
  /\ log \in [Loggers -> BOOLEAN]
  /\ zlog \in [Loggers -> BOOLEAN]
  /\ fd \in [Loggers -> BOOLEAN]
  /\ file \in [Loggers -> Seq(Msgs)]

(* The WaitGroup counts exactly the messages that were added and are not    *)
(* done: no path through print or the consumer (sent, dropped, skipped,     *)
(* written, failed) forgets a Done or calls it twice, as long as no Add     *)
(* raced with the release of the waiters.                                   *)
TaskAccounting ==
  \A l \in Loggers : ~misused[l] => tasks[l] = Cardinality(Pending(l))

(* What Wait, Flush, Close and Fatalf are for: when logTasks.Wait has let   *)
(* a goroutine through, every message that was pending when its Wait began  *)
(* has been written, or given up by a path of the code that gives up.       *)
FlushGuarantee ==
  \A p \in Goroutines :
    pc[p] \in {"woken", "end"} /\ ~misused[arg[p]] =>
      \A m \in seen[p] : st[m] = "settled" /\ fate[m] # "none"

(* The goroutines between the two l.m sections of l.Wait. *)
Waiting(l) ==
  {p \in Goroutines : /\ arg[p] = l
                      /\ pc[p] \in {"wg", "parked", "woken", "end", "panickedInWait"}}

(* waitStarted is a lock: one goroutine at most is between the two l.m      *)
(* sections of Wait, and the flag, which makes every print of this logger   *)
(* return without printing, is set exactly while one is (for ever when      *)
(* that one panicked there).                                                *)
MuteHasOwner ==
  \A l \in Loggers :
    /\ waitStarted[l] <=> Waiting(l) # {}
    /\ \A p, q \in Waiting(l) : p = q

(* No lost wake-up: whoever is parked in logTasks.Wait can still be woken,  *)
(* by a message that is not done with or by a Done about to release it.     *)
NoLostWakeup ==
  \A p \in Goroutines :
    pc[p] = "parked" /\ ~misused[arg[p]] =>
      \/ Pending(arg[p]) # {}
      \/ \E t \in Threads : pc[t] = "release" /\ to[msg[t]] = arg[p]

(* A pending message is in one place: once in the channel, or in the hands  *)
(* of one thread, so it is handled once and by nobody else.                 *)
Custody ==
  \A m \in Msgs :
    st[m] = "pending" =>
      Cardinality({i \in 1..Len(tologCh) : tologCh[i] = m})
        + Cardinality({t \in Threads : msg[t] = m}) = 1

(* m was sent on the channel before n. *)
SentBefore(m, n) == \E i, j \in 1..Len(sent) : i < j /\ sent[i] = m /\ sent[j] = n

(* Each file holds the messages written to its logger, each once, in the    *)
(* order in which they were sent on the channel, where each was sent once.  *)
FifoFile ==
  /\ \A i, j \in 1..Len(sent) : sent[i] = sent[j] => i = j
  /\ \A l \in Loggers :
       /\ {file[l][i] : i \in 1..Len(file[l])}
             = {m \in {sent[i] : i \in 1..Len(sent)} : to[m] = l /\ fate[m] = "written"}
       /\ \A i, j \in 1..Len(file[l]) : i < j => SentBefore(file[l][i], file[l][j])

NoMisuse == \A l \in Loggers : ~misused[l]

InWait(p) == pc[p] \in {"wait", "wg", "parked", "woken", "end", "close"}

(* Wait, Flush and Close return: a stream of prints cannot keep a waiter    *)
(* waiting, because prints are turned away while it waits.                  *)
WaitReturns ==
  []NoMisuse => \A p \in Goroutines : InWait(p) ~> ~InWait(p)

(* A message that is on the channel gets out of it and to its file, unless  *)
(* the file system fails.                                                   *)
Delivered ==
  []NoMisuse =>
    \A m \in Msgs : (\E i \in 1..Len(tologCh) : tologCh[i] = m)
                       ~> fate[m] \in {"written", "skipped", "lost"}

-----------------------------------------------------------------------------
(***************************************************************************)
(* The inductive invariant behind the safety properties.                   *)
(***************************************************************************)

(* Calls know their logger. *)
CallInv ==
  /\ \A p \in Goroutines :
       pc[p] \in {"wait", "wg", "parked", "woken", "end", "close", "panickedInWait"} =>
         arg[p] \in Loggers /\ op[p] # "none"
  /\ \A p \in Goroutines : op[p] = "fatal" => arg[p] \in Loggers

(* What a thread has in hand, and how far the WaitGroup is with it. *)
HandInv ==
  /\ \A m \in Msgs : st[m] # "new" => to[m] \in Loggers
  /\ \A m \in Msgs : st[m] = "settled" => fate[m] # "none"
  /\ \A t \in Threads :
       /\ pc[t] \in {"add", "send", "done", "release", "open", "write"} => msg[t] # None
       /\ msg[t] # None => st[msg[t]] # "new"
       /\ pc[t] = "add" => st[msg[t]] = "called"
       /\ pc[t] \in {"send", "open", "write", "done"} => st[msg[t]] = "pending"
       /\ pc[t] = "done" => fate[msg[t]] # "none"
  /\ \A t, u \in Threads : msg[t] # None /\ msg[t] = msg[u] => t = u

(* What is in the channel is pending, is there once and in nobody's hands. *)
ChanInv ==
  /\ \A i \in 1..Len(tologCh) :
       /\ st[tologCh[i]] = "pending"
       /\ \A t \in Threads : msg[t] # tologCh[i]
  /\ \A i, j \in 1..Len(tologCh) : tologCh[i] = tologCh[j] => i = j

(* What a waiter saw stays with its logger and does not become unprinted. *)
SeenInv ==
  \A p \in Goroutines : pc[p] \in {"wg", "parked", "woken", "end"} =>
    \A m \in seen[p] : to[m] = arg[p] /\ st[m] \in {"pending", "settled"}

Releasing(l) == {t \in Threads : pc[t] = "release" /\ to[msg[t]] = l}

(* Between the Done that reaches zero and the release of the waiters: the   *)
(* counter is zero, somebody is parked and one thread is to release them.   *)
ReleaseInv ==
  \A l \in Loggers : ~misused[l] =>
    /\ Releasing(l) # {} => tasks[l] = 0 /\ Parked(l) # {}
    /\ Parked(l) # {} /\ tasks[l] = 0 => Releasing(l) # {}
    /\ \A t, u \in Releasing(l) : t = u

CountInv ==
  \A l \in Loggers :
    /\ IsFiniteSet(Pending(l))
    /\ ~misused[l] => tasks[l] = Cardinality(Pending(l))

IInv ==
  /\ TypeOK
  /\ CallInv
  /\ HandInv
  /\ ChanInv
  /\ SeenInv
  /\ MuteHasOwner
  /\ CountInv
  /\ ReleaseInv
  /\ FlushGuarantee

(* Who has a message in hand: a thread between the waitStarted test and the *)
(* send or the Done, or one that the WaitGroup's panic ended on the way.    *)
(* Nothing that is pending falls between the channel and the hands.         *)
HeldInv ==
  /\ \A t \in Threads :
       /\ msg[t] # None => pc[t] \in {"add", "send", "done", "release", "open", "write", "panicked"}
       /\ pc[t] = "release" => msg[t] # None /\ st[msg[t]] = "settled"
  /\ \A m \in Msgs : st[m] = "pending" =>
       \/ \E i \in 1..Len(tologCh) : tologCh[i] = m
       \/ \E t \in Threads : msg[t] = m

(* What the consumer took off the channel, and what it is done with. *)
Taken == Len(sent) - Len(tologCh)
Handled == IF pc[Consumer] \in {"open", "write"} THEN Taken - 1 ELSE Taken

(* The channel is what was sent and not taken, each message once; the       *)
(* consumer has the last one taken in hand.                                 *)
SentInv ==
  /\ Handled \in Nat
  /\ \A i \in 1..Len(tologCh) : tologCh[i] = sent[Taken + i]
  /\ \A i, j \in 1..Len(sent) : sent[i] = sent[j] => i = j
  /\ \A i \in 1..Len(sent) : st[sent[i]] \in {"pending", "settled"}
  /\ \A t \in Threads : pc[t] \in {"add", "send"} =>
       \A i \in 1..Len(sent) : sent[i] # msg[t]
  /\ pc[Consumer] \in {"open", "write"} => sent[Taken] = msg[Consumer]

(* The fate of a message is open until the code that settles it. *)
FateInv ==
  /\ \A m \in Msgs : st[m] \in {"new", "called"} => fate[m] = "none"
  /\ \A i \in 1..Len(tologCh) : fate[tologCh[i]] = "none"
  /\ \A t \in Threads : pc[t] \in {"send", "open", "write"} => fate[msg[t]] = "none"

(* What is in the files was taken off the channel. *)
FileInv ==
  \A l \in Loggers : \A i \in 1..Len(file[l]) : \E k \in 1..Handled : sent[k] = file[l][i]

(* Only a goroutine that is inside Wait, or panicked there, is owed         *)
(* anything, and only messages that were printed.                           *)
OwedInv ==
  \A p \in Goroutines :
    /\ pc[p] \notin {"wg", "parked", "woken", "end", "panickedInWait"} => seen[p] = {}
    /\ \A m \in seen[p] : st[m] \in {"pending", "settled"}

OrderInv ==
  /\ HeldInv
  /\ SentInv
  /\ FateInv
  /\ FileInv
  /\ FifoFile
  /\ OwedInv

PipelineInv == IInv /\ OrderInv

-----------------------------------------------------------------------------
(***************************************************************************)
(* What the tests and comments of the repository say and the code does not *)
(* do.                                                                     *)
(***************************************************************************)

(* A Wait or Flush that returns leaves nothing of its logger pending: not   *)
(* so for the one that is turned away because another Wait is under way.    *)
FlushWaitsForAll ==
  [][\A p \in Goroutines :
       pc[p] = "wait" /\ pc'[p] \in {"idle", "close", "panicked"} =>
         Pending(arg[p]) = {}]_vars

(* Logging from several goroutines does not panic: a print that passed the  *)
(* waitStarted test before a Wait can reuse the WaitGroup under it.         *)
NoPanicInWait == \A p \in Goroutines : pc[p] # "panickedInWait"

(* Close closes the file handle: not so once the logger was closed and      *)
(* printed to again, because zlog stays nil while log does not.             *)
CloseReleases ==
  [][\A p \in Goroutines :
       pc[p] = "close" /\ pc'[p] = "idle" => ~fd'[arg[p]]]_vars

(* Wait does not block for ever: it does when an Add races with the         *)
(* release of the waiters and the panic ends the consumer.                  *)
WaitNeverBlocks == \A p \in Goroutines : InWait(p) ~> ~InWait(p)
=============================================================================
