------------------------- MODULE LogPipelineProofs -------------------------
(***************************************************************************)
(* Proofs about LogPipeline, for every set of goroutines, loggers and      *)
(* messages and every capacity of the channel.                             *)
(***************************************************************************)
EXTENDS LogRefinement, FiniteSetTheorems, SequenceTheorems, TLAPS

(* Whoever returns from Wait, turned away or let through, leaves the call   *)
(* with its types and its logger in order.                                  *)
LEMMA ReturnStep ==
  ASSUME TypeOK, CallInv, NEW p \in Goroutines, pc[p] \in {"wait", "end"}, ReturnFromWait(p)
  PROVE  /\ pc' \in [Threads -> GoroutinePc \cup ConsumerPc]
         /\ pc'[Consumer] \in ConsumerPc
         /\ \A q \in Goroutines : pc'[q] \in GoroutinePc
         /\ op' \in [Goroutines -> {"none", "wait", "close", "fatal"}]
         /\ arg' \in [Goroutines -> Loggers \cup {None}]
         /\ seen' \in [Goroutines -> SUBSET Msgs]
         /\ CallInv'
<1> USE PipelineAssumption DEF Threads
<1>1. /\ pc \in [Threads -> GoroutinePc \cup ConsumerPc]
      /\ pc[Consumer] \in ConsumerPc
      /\ \A q \in Goroutines : pc[q] \in GoroutinePc
      /\ op \in [Goroutines -> {"none", "wait", "close", "fatal"}]
      /\ arg \in [Goroutines -> Loggers \cup {None}]
      /\ seen \in [Goroutines -> SUBSET Msgs]
  BY DEF TypeOK
<1>2. op[p] \in {"wait", "close", "fatal"} /\ arg[p] \in Loggers
  BY <1>1 DEF CallInv
<1>3. seen' \in [Goroutines -> SUBSET Msgs]
  BY <1>1 DEF ReturnFromWait
<1>4. CASE op[p] = "wait"
  <2>1. /\ pc' = [pc EXCEPT ![p] = "idle"]
        /\ op' = [op EXCEPT ![p] = "none"]
        /\ arg' = [arg EXCEPT ![p] = None]
    BY <1>4 DEF ReturnFromWait, AfterWait
  <2>2. /\ pc' \in [Threads -> GoroutinePc \cup ConsumerPc]
        /\ pc'[Consumer] \in ConsumerPc
        /\ \A q \in Goroutines : pc'[q] \in GoroutinePc
    BY <1>1, <2>1 DEF GoroutinePc
  <2>3. /\ op' \in [Goroutines -> {"none", "wait", "close", "fatal"}]
        /\ arg' \in [Goroutines -> Loggers \cup {None}]
    BY <1>1, <2>1
  <2>4. CallInv'
    BY <1>1, <2>1 DEF CallInv
  <2> QED
    BY <1>3, <2>2, <2>3, <2>4
<1>5. CASE op[p] \in {"close", "fatal"}
  <2>1. /\ \E x \in {"close", "panicked"} : pc' = [pc EXCEPT ![p] = x]
        /\ op' = op /\ arg' = arg
    BY <1>5 DEF ReturnFromWait, AfterWait
  <2>2. /\ pc' \in [Threads -> GoroutinePc \cup ConsumerPc]
        /\ pc'[Consumer] \in ConsumerPc
        /\ \A q \in Goroutines : pc'[q] \in GoroutinePc
    BY <1>1, <2>1 DEF GoroutinePc
  <2>3. CallInv'
    BY <1>1, <1>2, <2>1 DEF CallInv
  <2> QED
    BY <1>1, <1>3, <2>1, <2>2, <2>3
<1> QED
  BY <1>2, <1>4, <1>5

(* Every step keeps the types: the values a step reads from a thread's      *)
(* hand, call and channel are messages and loggers when it reads them.      *)
LEMMA TypeStep ==
  ASSUME TypeOK, CallInv, HandInv, [Next]_vars
  PROVE  TypeOK'
<1> USE PipelineAssumption DEF TypeOK, Threads, GoroutinePc, ConsumerPc
<1>1. ASSUME NEW p \in Goroutines, NEW l \in Loggers, NEW m \in Msgs,
             NEW o \in {"none", "fatal"}, PrintCall(p, l, m, o)
      PROVE  TypeOK'
  <2>1. \/ op' = [op EXCEPT ![p] = o] /\ arg' = [arg EXCEPT ![p] = l]
        \/ op' = op /\ arg' = arg
    BY <1>1 DEF PrintCall
  <2>2. op' \in [Goroutines -> {"none", "wait", "close", "fatal"}]
    BY <2>1
  <2>3. arg' \in [Goroutines -> Loggers \cup {None}]
    BY <2>1
  <2>4. to' \in [Msgs -> Loggers \cup {None}]
    BY <1>1 DEF PrintCall
  <2>5. /\ \E x \in {"idle", "wait", "add"} : pc' = [pc EXCEPT ![p] = x]
        /\ msg' \in {msg, [msg EXCEPT ![p] = m]}
        /\ \E x \in {"settled", "called"} : st' = [st EXCEPT ![m] = x]
        /\ fate' \in {fate, [fate EXCEPT ![m] = "muted"]}
    BY <1>1 DEF PrintCall, AfterPrint
  <2>6. /\ pc' \in [Threads -> GoroutinePc \cup ConsumerPc]
        /\ pc'[Consumer] \in ConsumerPc
        /\ \A q \in Goroutines : pc'[q] \in GoroutinePc
    BY <2>5
  <2>7. msg' \in [Threads -> Msgs \cup {None}]
    <3>1. CASE msg' = msg
      BY <3>1
    <3>2. CASE msg' = [msg EXCEPT ![p] = m]
      BY <3>2
    <3> QED
      BY <2>5, <3>1, <3>2
  <2>8. st' \in [Msgs -> {"new", "called", "pending", "settled"}]
    BY <2>5
  <2>9. fate' \in [Msgs -> {"none", "muted", "dropped", "skipped", "lost", "written"}]
    BY <2>5
  <2> QED
    BY <1>1, <2>2, <2>3, <2>4, <2>6, <2>7, <2>8, <2>9 DEF PrintCall, chanVars, wgVars, fileVars
<1>2. ASSUME NEW p \in Goroutines, PrintAdd(p)
      PROVE  TypeOK'
  BY <1>2 DEF PrintAdd, Released, Parked, callVars, chanVars, fileVars, HandInv
<1>3. ASSUME NEW p \in Goroutines, PrintSend(p)
      PROVE  TypeOK'
  BY <1>3 DEF PrintSend, AfterPrint, callVars, wgVars, fileVars, HandInv
<1>4. ASSUME NEW p \in Goroutines, PrintDrop(p)
      PROVE  TypeOK'
  BY <1>4 DEF PrintDrop, callVars, wgVars, fileVars, HandInv
<1>5. ASSUME NEW t \in Threads, Done(t)
      PROVE  TypeOK'
  <2>1. AfterDone(t) \in {"recv", "idle", "wait"} /\ (t = Consumer <=> AfterDone(t) = "recv")
    BY DEF AfterDone, AfterPrint
  <2>2. /\ msg[t] \in Msgs
        /\ to[msg[t]] \in Loggers
    BY <1>5 DEF Done, HandInv
  <2>3. \E x \in {"release", "panicked", AfterDone(t)} : pc' = [pc EXCEPT ![t] = x]
    BY <1>5 DEF Done
  <2>4. /\ pc' \in [Threads -> GoroutinePc \cup ConsumerPc]
        /\ pc'[Consumer] \in ConsumerPc
        /\ \A p \in Goroutines : pc'[p] \in GoroutinePc
    BY <2>1, <2>3
  <2>5. msg' \in {msg, [msg EXCEPT ![t] = None]}
    BY <1>5 DEF Done
  <2>6. msg' \in [Threads -> Msgs \cup {None}]
    BY <2>5
  <2>7. tasks' \in [Loggers -> Int]
    BY <1>5, <2>2 DEF Done
  <2>8. st' \in [Msgs -> {"new", "called", "pending", "settled"}]
    BY <1>5 DEF Done
  <2> QED
    BY <1>5, <2>4, <2>6, <2>7, <2>8 DEF Done, callVars, chanVars, fileVars
<1>6. ASSUME NEW t \in Threads, Release(t)
      PROVE  TypeOK'
  BY <1>6 DEF Release, Released, Parked, AfterDone, AfterPrint, callVars, chanVars, wgVars, fileVars
<1>7. ASSUME NEW t \in Threads, ReleasePanic(t)
      PROVE  TypeOK'
  BY <1>7 DEF ReleasePanic, callVars, chanVars, wgVars, fileVars
<1>8. ASSUME NEW t \in Threads, ReleaseReset(t)
      PROVE  TypeOK'
  <2>1. AfterDone(t) \in {"recv", "idle", "wait"} /\ (t = Consumer <=> AfterDone(t) = "recv")
    BY DEF AfterDone, AfterPrint
  <2>2. /\ pc' \in [Threads -> GoroutinePc \cup ConsumerPc]
        /\ pc'[Consumer] \in ConsumerPc
        /\ \A p \in Goroutines : pc'[p] \in GoroutinePc
    BY <1>8, <2>1 DEF ReleaseReset, Released, Parked
  <2>3. msg' \in [Threads -> Msgs \cup {None}]
    BY <1>8 DEF ReleaseReset
  <2>4. PICK l : tasks' = [tasks EXCEPT ![l] = 0]
    BY <1>8 DEF ReleaseReset
  <2>5. tasks' \in [Loggers -> Int]
    <3>1. tasks' = [k \in Loggers |-> IF k = l THEN 0 ELSE tasks[k]]
      BY <2>4
    <3>2. \A k \in Loggers : tasks[k] \in Int
      OBVIOUS
    <3>3. 0 \in Int
      OBVIOUS
    <3> QED
      BY <3>1, <3>2, <3>3
  <2> QED
    BY <1>8, <2>2, <2>3, <2>5 DEF ReleaseReset, callVars, chanVars, fileVars
<1>9. CASE Receive
  BY <1>9 DEF Receive, callVars, wgVars, fileVars
<1>10. CASE OpenLog
  BY <1>10 DEF OpenLog, callVars, chanVars, wgVars
<1>11. CASE OpenFails
  BY <1>11 DEF OpenFails, callVars, chanVars, wgVars, fileVars
<1>12. CASE WriteLog
  BY <1>12 DEF WriteLog, callVars, chanVars, wgVars, HandInv
<1>13. CASE WriteFails
  BY <1>13 DEF WriteFails, callVars, chanVars, wgVars
<1>14. ASSUME NEW p \in Goroutines, NEW l \in Loggers, NEW o \in {"wait", "close"}, WaitCall(p, l, o)
       PROVE  TypeOK'
  BY <1>14 DEF WaitCall, chanVars, wgVars, fileVars
<1>15. ASSUME NEW p \in Goroutines, WaitTurnedAway(p)
       PROVE  TypeOK'
  <2> HIDE DEF TypeOK, Threads, GoroutinePc, ConsumerPc
  <2>1. pc[p] = "wait" /\ ReturnFromWait(p)
    BY <1>15 DEF WaitTurnedAway
  <2>2. /\ UNCHANGED <<msg, st, to, fate, tologCh, sent, dropAlert, tasks, misused, log, zlog, fd, file>>
        /\ UNCHANGED waitStarted
    BY <1>15 DEF WaitTurnedAway, chanVars, wgVars, fileVars
  <2> QED
    BY <2>1, <2>2, ReturnStep DEF TypeOK
<1>16. ASSUME NEW p \in Goroutines, WaitBegin(p)
       PROVE  TypeOK'
  BY <1>16 DEF WaitBegin, Pending, chanVars, wgVars, fileVars
<1>17. ASSUME NEW p \in Goroutines, WgWait(p) \/ WgReturn(p) \/ WgReusePanic(p)
       PROVE  TypeOK'
  <2>1. CASE WgWait(p)
    BY <2>1 DEF WgWait, callVars, chanVars, wgVars, fileVars
  <2>2. CASE WgReturn(p)
    BY <2>2 DEF WgReturn, callVars, chanVars, wgVars, fileVars
  <2>3. CASE WgReusePanic(p)
    BY <2>3 DEF WgReusePanic, callVars, chanVars, wgVars, fileVars
  <2> QED
    BY <1>17, <2>1, <2>2, <2>3
<1>18. ASSUME NEW p \in Goroutines, WaitEnd(p)
       PROVE  TypeOK'
  <2> HIDE DEF TypeOK, Threads, GoroutinePc, ConsumerPc
  <2>1. pc[p] = "end" /\ ReturnFromWait(p)
    BY <1>18 DEF WaitEnd
  <2>2. /\ UNCHANGED <<msg, st, to, fate, tologCh, sent, dropAlert, tasks, misused, log, zlog, fd, file>>
        /\ waitStarted' = [waitStarted EXCEPT ![arg[p]] = FALSE]
    BY <1>18 DEF WaitEnd, chanVars, wgVars, fileVars
  <2> QED
    BY <2>1, <2>2, ReturnStep DEF TypeOK
<1>19. ASSUME NEW p \in Goroutines, CloseLog(p)
       PROVE  TypeOK'
  BY <1>19 DEF CloseLog, chanVars, wgVars
<1>20. CASE UNCHANGED vars
  BY <1>20 DEF vars, callVars, chanVars, wgVars, fileVars
<1> HIDE DEF TypeOK, Threads, GoroutinePc, ConsumerPc
<1> QED
  BY <1>1, <1>2, <1>3, <1>4, <1>5, <1>6, <1>7, <1>8, <1>9, <1>10, <1>11, <1>12, <1>13, <1>14,
     <1>15, <1>16, <1>17, <1>18, <1>19, <1>20
  DEF Next, ConsumerStep, WgDoneStep, CallStep, Calls

(* The goroutines inside Wait and Close, and those of a Fatalf, stay on the  *)
(* logger they were called on.                                              *)
LEMMA CallInvStep ==
  ASSUME TypeOK, CallInv, [Next]_vars
  PROVE  CallInv'
<1> USE PipelineAssumption DEF TypeOK, Threads, CallInv
<1>1. ASSUME NEW p \in Goroutines, NEW l \in Loggers, NEW m \in Msgs, NEW o \in {"none", "fatal"}, PrintCall(p, l, m, o)
      PROVE  CallInv'
  <2>1. CASE o = "fatal"
    <3>1. op' = [op EXCEPT ![p] = o] /\ arg' = [arg EXCEPT ![p] = l]
      BY <1>1, <2>1 DEF PrintCall
    <3>2. \E x : pc' = [pc EXCEPT ![p] = x]
      BY <1>1 DEF PrintCall
    <3> QED
      BY <2>1, <3>1, <3>2
  <2>2. CASE o = "none"
    <3>1. op' = op /\ arg' = arg
      BY <1>1, <2>2 DEF PrintCall
    <3>2. \E x \in {"idle", "add"} : pc' = [pc EXCEPT ![p] = x]
      BY <1>1, <2>2 DEF PrintCall, AfterPrint
    <3> QED
      BY <3>1, <3>2
  <2> QED
    BY <2>1, <2>2
<1>2. ASSUME NEW p \in Goroutines, PrintAdd(p)
      PROVE  CallInv'
  BY <1>2 DEF PrintAdd, Released, Parked, callVars, chanVars, wgVars, fileVars
<1>3. ASSUME NEW p \in Goroutines, PrintSend(p)
      PROVE  CallInv'
  BY <1>3 DEF PrintSend, AfterPrint, callVars, chanVars, wgVars, fileVars
<1>4. ASSUME NEW p \in Goroutines, PrintDrop(p)
      PROVE  CallInv'
  BY <1>4 DEF PrintDrop, callVars, chanVars, wgVars, fileVars
<1>5. ASSUME NEW t \in Threads, Done(t)
      PROVE  CallInv'
  BY <1>5 DEF Done, AfterDone, AfterPrint, callVars, chanVars, wgVars, fileVars
<1>6. ASSUME NEW t \in Threads, Release(t)
      PROVE  CallInv'
  BY <1>6 DEF Release, Released, Parked, AfterDone, AfterPrint, callVars, chanVars, wgVars, fileVars
<1>7. ASSUME NEW t \in Threads, ReleasePanic(t)
      PROVE  CallInv'
  BY <1>7 DEF ReleasePanic, callVars, chanVars, wgVars, fileVars
<1>8. ASSUME NEW t \in Threads, ReleaseReset(t)
      PROVE  CallInv'
  BY <1>8 DEF ReleaseReset, Released, Parked, AfterDone, AfterPrint, callVars, chanVars, wgVars, fileVars
<1>9. ASSUME Receive
      PROVE  CallInv'
  BY <1>9 DEF Receive, callVars, chanVars, wgVars, fileVars
<1>10. ASSUME OpenLog
      PROVE  CallInv'
  BY <1>10 DEF OpenLog, callVars, chanVars, wgVars, fileVars
<1>11. ASSUME OpenFails
      PROVE  CallInv'
  BY <1>11 DEF OpenFails, callVars, chanVars, wgVars, fileVars
<1>12. ASSUME WriteLog
      PROVE  CallInv'
  BY <1>12 DEF WriteLog, callVars, chanVars, wgVars, fileVars
<1>13. ASSUME WriteFails
      PROVE  CallInv'
  BY <1>13 DEF WriteFails, callVars, chanVars, wgVars, fileVars
<1>14. ASSUME NEW p \in Goroutines, NEW l \in Loggers, NEW o \in {"wait", "close"}, WaitCall(p, l, o)
      PROVE  CallInv'
  BY <1>14 DEF WaitCall, callVars, chanVars, wgVars, fileVars
<1>15. ASSUME NEW p \in Goroutines, WaitTurnedAway(p)
      PROVE  CallInv'
  <2> HIDE DEF TypeOK, Threads, CallInv
  <2>1. pc[p] \in {"wait", "end"} /\ ReturnFromWait(p)
    BY <1>15 DEF WaitTurnedAway
  <2> QED
    BY <2>1, ReturnStep
<1>16. ASSUME NEW p \in Goroutines, WaitBegin(p)
      PROVE  CallInv'
  BY <1>16 DEF WaitBegin, callVars, chanVars, wgVars, fileVars
<1>17. ASSUME NEW p \in Goroutines, WgWait(p)
      PROVE  CallInv'
  BY <1>17 DEF WgWait, callVars, chanVars, wgVars, fileVars
<1>18. ASSUME NEW p \in Goroutines, WgReturn(p)
      PROVE  CallInv'
  BY <1>18 DEF WgReturn, callVars, chanVars, wgVars, fileVars
<1>19. ASSUME NEW p \in Goroutines, WgReusePanic(p)
      PROVE  CallInv'
  BY <1>19 DEF WgReusePanic, callVars, chanVars, wgVars, fileVars
<1>20. ASSUME NEW p \in Goroutines, WaitEnd(p)
      PROVE  CallInv'
  <2> HIDE DEF TypeOK, Threads, CallInv
  <2>1. pc[p] \in {"wait", "end"} /\ ReturnFromWait(p)
    BY <1>20 DEF WaitEnd
  <2> QED
    BY <2>1, ReturnStep
<1>21. ASSUME NEW p \in Goroutines, CloseLog(p)
      PROVE  CallInv'
  BY <1>21 DEF CloseLog, callVars, chanVars, wgVars, fileVars
<1>22. CASE UNCHANGED vars
  BY <1>22 DEF vars, callVars, chanVars, wgVars, fileVars, Parked, Pending, Releasing, Waiting
<1> HIDE DEF TypeOK, Threads, CallInv
<1> QED
  BY <1>1, <1>2, <1>3, <1>4, <1>5, <1>6, <1>7, <1>8, <1>9, <1>10, <1>11, <1>12, <1>13, <1>14, <1>15, <1>16, <1>17, <1>18, <1>19, <1>20, <1>21, <1>22
  DEF Next, ConsumerStep, WgDoneStep, CallStep, Calls

(* A message has one owner at a time, and the WaitGroup is as far with it    *)
(* as the owner is in print or in the consumer's loop.                      *)
LEMMA HandInvStep ==
  ASSUME TypeOK, CallInv, HandInv, ChanInv, [Next]_vars
  PROVE  HandInv'
<1> USE PipelineAssumption DEF TypeOK, Threads, HandInv
<1>1. ASSUME NEW p \in Goroutines, NEW l \in Loggers, NEW m \in Msgs, NEW o \in {"none", "fatal"}, PrintCall(p, l, m, o)
      PROVE  HandInv'
  <2>1. \A t \in Threads : msg[t] # m
    BY <1>1 DEF PrintCall
  <2>2. to' = [to EXCEPT ![m] = l]
    BY <1>1 DEF PrintCall
  <2>3. CASE waitStarted[l]
    <3>1. /\ st' = [st EXCEPT ![m] = "settled"]
          /\ fate' = [fate EXCEPT ![m] = "muted"]
          /\ msg' = msg
          /\ \E x \in {"idle", "wait"} : pc' = [pc EXCEPT ![p] = x]
      BY <1>1, <2>3 DEF PrintCall, AfterPrint
    <3> QED
      BY <2>1, <2>2, <3>1
  <2>4. CASE ~waitStarted[l]
    <3>1. /\ st' = [st EXCEPT ![m] = "called"]
          /\ fate' = fate
          /\ msg' = [msg EXCEPT ![p] = m]
          /\ pc' = [pc EXCEPT ![p] = "add"]
      BY <1>1, <2>4 DEF PrintCall
    <3> QED
      BY <2>1, <2>2, <3>1
  <2> QED
    BY <2>3, <2>4
<1>2. ASSUME NEW p \in Goroutines, PrintAdd(p)
      PROVE  HandInv'
  BY <1>2 DEF PrintAdd, Released, Parked, callVars, chanVars, wgVars, fileVars
<1>3. ASSUME NEW p \in Goroutines, PrintSend(p)
      PROVE  HandInv'
  BY <1>3 DEF PrintSend, AfterPrint, callVars, chanVars, wgVars, fileVars
<1>4. ASSUME NEW p \in Goroutines, PrintDrop(p)
      PROVE  HandInv'
  BY <1>4 DEF PrintDrop, callVars, chanVars, wgVars, fileVars
<1>5. ASSUME NEW t \in Threads, Done(t)
      PROVE  HandInv'
  <2>1. /\ pc[t] = "done"
        /\ st' = [st EXCEPT ![msg[t]] = "settled"]
        /\ to' = to /\ fate' = fate
    BY <1>5 DEF Done
  <2>2. CASE pc' = [pc EXCEPT ![t] = "release"] /\ msg' = msg
    BY <2>1, <2>2
  <2>3. CASE \E x \in {"panicked", "recv", "idle", "wait"} :
               pc' = [pc EXCEPT ![t] = x] /\ msg' = [msg EXCEPT ![t] = None]
    BY <2>1, <2>3
  <2> QED
    BY <1>5, <2>2, <2>3 DEF Done, AfterDone, AfterPrint
<1>6. ASSUME NEW t \in Threads, Release(t)
      PROVE  HandInv'
  BY <1>6 DEF Release, Released, Parked, AfterDone, AfterPrint, callVars, chanVars, wgVars, fileVars
<1>7. ASSUME NEW t \in Threads, ReleasePanic(t)
      PROVE  HandInv'
  BY <1>7 DEF ReleasePanic, callVars, chanVars, wgVars, fileVars
<1>8. ASSUME NEW t \in Threads, ReleaseReset(t)
      PROVE  HandInv'
  BY <1>8 DEF ReleaseReset, Released, Parked, AfterDone, AfterPrint, callVars, chanVars, wgVars, fileVars
<1>9. ASSUME Receive
      PROVE  HandInv'
  <2>1. /\ tologCh # <<>>
        /\ msg' = [msg EXCEPT ![Consumer] = Head(tologCh)]
        /\ pc' = [pc EXCEPT ![Consumer] = "open"]
        /\ st' = st /\ to' = to /\ fate' = fate
    BY <1>9 DEF Receive
  <2>2. Head(tologCh) \in Msgs /\ Head(tologCh) = tologCh[1] /\ 1 \in 1..Len(tologCh)
    BY <2>1
  <2>3. st[Head(tologCh)] = "pending" /\ \A t \in Threads : msg[t] # Head(tologCh)
    BY <2>2 DEF ChanInv
  <2> QED
    BY <2>1, <2>2, <2>3
<1>10. ASSUME OpenLog
      PROVE  HandInv'
  BY <1>10 DEF OpenLog, callVars, chanVars, wgVars, fileVars
<1>11. ASSUME OpenFails
      PROVE  HandInv'
  BY <1>11 DEF OpenFails, callVars, chanVars, wgVars, fileVars
<1>12. ASSUME WriteLog
      PROVE  HandInv'
  BY <1>12 DEF WriteLog, callVars, chanVars, wgVars, fileVars
<1>13. ASSUME WriteFails
      PROVE  HandInv'
  BY <1>13 DEF WriteFails, callVars, chanVars, wgVars, fileVars
<1>14. ASSUME NEW p \in Goroutines, NEW l \in Loggers, NEW o \in {"wait", "close"}, WaitCall(p, l, o)
      PROVE  HandInv'
  BY <1>14 DEF WaitCall, callVars, chanVars, wgVars, fileVars
<1>15. ASSUME NEW p \in Goroutines, WaitTurnedAway(p)
      PROVE  HandInv'
  <2>1. \E x \in {"idle", "close", "panicked"} : pc' = [pc EXCEPT ![p] = x]
    <3>1. op[p] \in {"wait", "close", "fatal"}
      BY <1>15 DEF WaitTurnedAway, CallInv
    <3>2. pc' = [pc EXCEPT ![p] = AfterWait(op[p])]
      BY <1>15 DEF WaitTurnedAway, ReturnFromWait
    <3> QED
      BY <3>1, <3>2 DEF AfterWait
  <2> QED
    BY <1>15, <2>1 DEF WaitTurnedAway
<1>16. ASSUME NEW p \in Goroutines, WaitBegin(p)
      PROVE  HandInv'
  BY <1>16 DEF WaitBegin, callVars, chanVars, wgVars, fileVars
<1>17. ASSUME NEW p \in Goroutines, WgWait(p)
      PROVE  HandInv'
  BY <1>17 DEF WgWait, callVars, chanVars, wgVars, fileVars
<1>18. ASSUME NEW p \in Goroutines, WgReturn(p)
      PROVE  HandInv'
  BY <1>18 DEF WgReturn, callVars, chanVars, wgVars, fileVars
<1>19. ASSUME NEW p \in Goroutines, WgReusePanic(p)
      PROVE  HandInv'
  BY <1>19 DEF WgReusePanic, callVars, chanVars, wgVars, fileVars
<1>20. ASSUME NEW p \in Goroutines, WaitEnd(p)
      PROVE  HandInv'
  <2>1. \E x \in {"idle", "close", "panicked"} : pc' = [pc EXCEPT ![p] = x]
    BY <1>20 DEF WaitEnd, ReturnFromWait, AfterWait, CallInv
  <2> QED
    BY <1>20, <2>1 DEF WaitEnd
<1>21. ASSUME NEW p \in Goroutines, CloseLog(p)
      PROVE  HandInv'
  BY <1>21 DEF CloseLog, callVars, chanVars, wgVars, fileVars
<1>22. CASE UNCHANGED vars
  BY <1>22 DEF vars, callVars, chanVars, wgVars, fileVars, Parked, Pending, Releasing, Waiting
<1> HIDE DEF TypeOK, Threads, HandInv
<1> QED
  BY <1>1, <1>2, <1>3, <1>4, <1>5, <1>6, <1>7, <1>8, <1>9, <1>10, <1>11, <1>12, <1>13, <1>14, <1>15, <1>16, <1>17, <1>18, <1>19, <1>20, <1>21, <1>22
  DEF Next, ConsumerStep, WgDoneStep, CallStep, Calls

(* A message in the channel is pending, there once, and in nobody's hands. *)
LEMMA ChanInvStep ==
  ASSUME TypeOK, HandInv, ChanInv, [Next]_vars
  PROVE  ChanInv'
<1> USE PipelineAssumption DEF TypeOK, Threads, ChanInv
<1>1. ASSUME NEW p \in Goroutines, NEW l \in Loggers, NEW m \in Msgs, NEW o \in {"none", "fatal"}, PrintCall(p, l, m, o)
      PROVE  ChanInv'
  <2>1. \A i \in 1..Len(tologCh) : tologCh[i] # m /\ tologCh[i] \in Msgs
    BY <1>1 DEF PrintCall
  <2>2. tologCh' = tologCh /\ (msg' = msg \/ msg' = [msg EXCEPT ![p] = m])
    BY <1>1 DEF PrintCall, chanVars
  <2>3. \E x : st' = [st EXCEPT ![m] = x]
    BY <1>1 DEF PrintCall
  <2>4. \A i \in 1..Len(tologCh) : st'[tologCh[i]] = "pending"
    BY <2>1, <2>3
  <2>5. \A i \in 1..Len(tologCh), t \in Threads : msg'[t] # tologCh[i]
    BY <2>1, <2>2
  <2> QED
    BY <2>2, <2>4, <2>5
<1>2. ASSUME NEW p \in Goroutines, PrintAdd(p)
      PROVE  ChanInv'
  BY <1>2 DEF PrintAdd, Released, Parked, callVars, chanVars, wgVars, fileVars
<1>3. ASSUME NEW p \in Goroutines, PrintSend(p)
      PROVE  ChanInv'
  <2>1. msg[p] \in Msgs /\ st[msg[p]] = "pending" /\ p \in Threads
    BY <1>3 DEF PrintSend, HandInv
  <2>2. \A t \in Threads : t # p => msg[t] # msg[p]
    BY <2>1 DEF HandInv
  <2>3. tologCh' = Append(tologCh, msg[p]) /\ msg' = [msg EXCEPT ![p] = None] /\ st' = st
    BY <1>3 DEF PrintSend
  <2>4. /\ Len(tologCh') = Len(tologCh) + 1
        /\ \A i \in 1..Len(tologCh) : tologCh'[i] = tologCh[i]
        /\ tologCh'[Len(tologCh) + 1] = msg[p]
    BY <2>1, <2>3
  <2>5. \A i \in 1..Len(tologCh) : tologCh[i] # msg[p] /\ tologCh[i] \in Msgs
    BY <2>1
  <2>6. \A i \in 1..Len(tologCh') : i \in 1..Len(tologCh) \/ i = Len(tologCh) + 1
    BY <2>4
  <2> QED
    BY <2>1, <2>2, <2>3, <2>4, <2>5, <2>6
<1>4. ASSUME NEW p \in Goroutines, PrintDrop(p)
      PROVE  ChanInv'
  BY <1>4 DEF PrintDrop, callVars, chanVars, wgVars, fileVars
<1>5. ASSUME NEW t \in Threads, Done(t)
      PROVE  ChanInv'
  <2>1. msg[t] \in Msgs /\ st' = [st EXCEPT ![msg[t]] = "settled"]
    BY <1>5 DEF Done, HandInv
  <2>2. msg' = msg \/ msg' = [msg EXCEPT ![t] = None]
    BY <1>5 DEF Done
  <2>3. tologCh' = tologCh /\ \A i \in 1..Len(tologCh) : tologCh[i] \in Msgs
    BY <1>5 DEF Done, chanVars
  <2> QED
    BY <2>1, <2>2, <2>3
<1>6. ASSUME NEW t \in Threads, Release(t)
      PROVE  ChanInv'
  BY <1>6 DEF Release, Released, Parked, AfterDone, AfterPrint, callVars, chanVars, wgVars, fileVars
<1>7. ASSUME NEW t \in Threads, ReleasePanic(t)
      PROVE  ChanInv'
  BY <1>7 DEF ReleasePanic, callVars, chanVars, wgVars, fileVars
<1>8. ASSUME NEW t \in Threads, ReleaseReset(t)
      PROVE  ChanInv'
  BY <1>8 DEF ReleaseReset, Released, Parked, AfterDone, AfterPrint, callVars, chanVars, wgVars, fileVars
<1>9. ASSUME Receive
      PROVE  ChanInv'
  <2>1. /\ tologCh # <<>> /\ tologCh' = Tail(tologCh) /\ st' = st
        /\ msg' = [msg EXCEPT ![Consumer] = tologCh[1]]
    BY <1>9 DEF Receive
  <2>2. /\ Len(tologCh') = Len(tologCh) - 1
        /\ \A i \in 1..Len(tologCh') : tologCh'[i] = tologCh[i + 1] /\ i + 1 \in 1..Len(tologCh)
        /\ 1 \in 1..Len(tologCh)
    BY <2>1
  <2>3. \A i \in 1..Len(tologCh') : tologCh'[i] # tologCh[1]
    <3> TAKE i \in 1..Len(tologCh')
    <3>1. i + 1 # 1 /\ i + 1 \in 1..Len(tologCh) /\ tologCh'[i] = tologCh[i + 1]
      BY <2>2
    <3> QED
      BY <2>2, <3>1
  <2>4. \A i \in 1..Len(tologCh') :
          st'[tologCh'[i]] = "pending" /\ \A t \in Threads : msg'[t] # tologCh'[i]
    BY <2>1, <2>2, <2>3
  <2>5. \A i, k \in 1..Len(tologCh') : tologCh'[i] = tologCh'[k] => i = k
    <3> TAKE i, k \in 1..Len(tologCh')
    <3>1. /\ i \in Int /\ k \in Int
          /\ i + 1 \in 1..Len(tologCh) /\ k + 1 \in 1..Len(tologCh)
          /\ tologCh'[i] = tologCh[i + 1] /\ tologCh'[k] = tologCh[k + 1]
      BY <2>2
    <3>2. tologCh[i + 1] = tologCh[k + 1] => i + 1 = k + 1
      BY <3>1
    <3> QED
      BY <3>1, <3>2
  <2> QED
    BY <2>4, <2>5
<1>10. ASSUME OpenLog
      PROVE  ChanInv'
  BY <1>10 DEF OpenLog, callVars, chanVars, wgVars, fileVars
<1>11. ASSUME OpenFails
      PROVE  ChanInv'
  BY <1>11 DEF OpenFails, callVars, chanVars, wgVars, fileVars
<1>12. ASSUME WriteLog
      PROVE  ChanInv'
  BY <1>12 DEF WriteLog, callVars, chanVars, wgVars, fileVars
<1>13. ASSUME WriteFails
      PROVE  ChanInv'
  BY <1>13 DEF WriteFails, callVars, chanVars, wgVars, fileVars
<1>14. ASSUME NEW p \in Goroutines, NEW l \in Loggers, NEW o \in {"wait", "close"}, WaitCall(p, l, o)
      PROVE  ChanInv'
  BY <1>14 DEF WaitCall, callVars, chanVars, wgVars, fileVars
<1>15. ASSUME NEW p \in Goroutines, WaitTurnedAway(p)
      PROVE  ChanInv'
  BY <1>15 DEF WaitTurnedAway, ReturnFromWait, AfterWait, callVars, chanVars, wgVars, fileVars
<1>16. ASSUME NEW p \in Goroutines, WaitBegin(p)
      PROVE  ChanInv'
  BY <1>16 DEF WaitBegin, callVars, chanVars, wgVars, fileVars
<1>17. ASSUME NEW p \in Goroutines, WgWait(p)
      PROVE  ChanInv'
  BY <1>17 DEF WgWait, callVars, chanVars, wgVars, fileVars
<1>18. ASSUME NEW p \in Goroutines, WgReturn(p)
      PROVE  ChanInv'
  BY <1>18 DEF WgReturn, callVars, chanVars, wgVars, fileVars
<1>19. ASSUME NEW p \in Goroutines, WgReusePanic(p)
      PROVE  ChanInv'
  BY <1>19 DEF WgReusePanic, callVars, chanVars, wgVars, fileVars
<1>20. ASSUME NEW p \in Goroutines, WaitEnd(p)
      PROVE  ChanInv'
  BY <1>20 DEF WaitEnd, ReturnFromWait, AfterWait, callVars, chanVars, wgVars, fileVars
<1>21. ASSUME NEW p \in Goroutines, CloseLog(p)
      PROVE  ChanInv'
  BY <1>21 DEF CloseLog, callVars, chanVars, wgVars, fileVars
<1>22. CASE UNCHANGED vars
  BY <1>22 DEF vars, callVars, chanVars, wgVars, fileVars
<1> HIDE DEF TypeOK, Threads, ChanInv
<1> QED
  BY <1>1, <1>2, <1>3, <1>4, <1>5, <1>6, <1>7, <1>8, <1>9, <1>10, <1>11, <1>12, <1>13, <1>14, <1>15, <1>16, <1>17, <1>18, <1>19, <1>20, <1>21, <1>22
  DEF Next, ConsumerStep, WgDoneStep, CallStep, Calls

(* What a waiter saw when its Wait began belongs to its logger; it is still  *)
(* pending or settled.                                                      *)
LEMMA SeenInvStep ==
  ASSUME TypeOK, CallInv, HandInv, SeenInv, [Next]_vars
  PROVE  SeenInv'
<1> USE PipelineAssumption DEF TypeOK, Threads, SeenInv
<1>1. ASSUME NEW p \in Goroutines, NEW l \in Loggers, NEW m \in Msgs, NEW o \in {"none", "fatal"}, PrintCall(p, l, m, o)
      PROVE  SeenInv'
  <2>1. st[m] = "new" /\ (\E x : st' = [st EXCEPT ![m] = x]) /\ to' = [to EXCEPT ![m] = l]
    BY <1>1 DEF PrintCall
  <2>2. \E x \in {"idle", "wait", "add"} : pc' = [pc EXCEPT ![p] = x]
    BY <1>1 DEF PrintCall, AfterPrint
  <2>3. seen' = seen /\ (arg' = arg \/ arg' = [arg EXCEPT ![p] = l])
    BY <1>1 DEF PrintCall
  <2>4. TAKE q \in Goroutines
  <2>5. HAVE pc'[q] \in {"wg", "parked", "woken", "end"}
  <2>6. TAKE n \in seen'[q]
  <2>7. q # p /\ n \in seen[q] /\ n \in Msgs /\ pc[q] \in {"wg", "parked", "woken", "end"}
    BY <2>2, <2>3, <2>5, <2>6
  <2>8. n # m /\ arg'[q] = arg[q]
    BY <2>1, <2>3, <2>7
  <2> QED
    BY <2>1, <2>7, <2>8
<1>2. ASSUME NEW p \in Goroutines, PrintAdd(p)
      PROVE  SeenInv'
  BY <1>2 DEF PrintAdd, Released, Parked, callVars, chanVars, wgVars, fileVars
<1>3. ASSUME NEW p \in Goroutines, PrintSend(p)
      PROVE  SeenInv'
  BY <1>3 DEF PrintSend, AfterPrint, callVars, chanVars, wgVars, fileVars
<1>4. ASSUME NEW p \in Goroutines, PrintDrop(p)
      PROVE  SeenInv'
  BY <1>4 DEF PrintDrop, callVars, chanVars, wgVars, fileVars
<1>5. ASSUME NEW t \in Threads, Done(t)
      PROVE  SeenInv'
  <2>1. /\ msg[t] \in Msgs /\ st' = [st EXCEPT ![msg[t]] = "settled"]
        /\ to' = to /\ seen' = seen /\ arg' = arg
    BY <1>5 DEF Done, HandInv, callVars
  <2>2. \E x \in {"release", "panicked", "recv", "idle", "wait"} : pc' = [pc EXCEPT ![t] = x]
    BY <1>5 DEF Done, AfterDone, AfterPrint
  <2> QED
    BY <2>1, <2>2
<1>6. ASSUME NEW t \in Threads, Release(t)
      PROVE  SeenInv'
  BY <1>6 DEF Release, Released, Parked, AfterDone, AfterPrint, callVars, chanVars, wgVars, fileVars
<1>7. ASSUME NEW t \in Threads, ReleasePanic(t)
      PROVE  SeenInv'
  BY <1>7 DEF ReleasePanic, callVars, chanVars, wgVars, fileVars
<1>8. ASSUME NEW t \in Threads, ReleaseReset(t)
      PROVE  SeenInv'
  BY <1>8 DEF ReleaseReset, Released, Parked, AfterDone, AfterPrint, callVars, chanVars, wgVars, fileVars
<1>9. ASSUME Receive
      PROVE  SeenInv'
  BY <1>9 DEF Receive, callVars, chanVars, wgVars, fileVars
<1>10. ASSUME OpenLog
      PROVE  SeenInv'
  BY <1>10 DEF OpenLog, callVars, chanVars, wgVars, fileVars
<1>11. ASSUME OpenFails
      PROVE  SeenInv'
  BY <1>11 DEF OpenFails, callVars, chanVars, wgVars, fileVars
<1>12. ASSUME WriteLog
      PROVE  SeenInv'
  BY <1>12 DEF WriteLog, callVars, chanVars, wgVars, fileVars
<1>13. ASSUME WriteFails
      PROVE  SeenInv'
  BY <1>13 DEF WriteFails, callVars, chanVars, wgVars, fileVars
<1>14. ASSUME NEW p \in Goroutines, NEW l \in Loggers, NEW o \in {"wait", "close"}, WaitCall(p, l, o)
      PROVE  SeenInv'
  BY <1>14 DEF WaitCall, callVars, chanVars, wgVars, fileVars
<1>15. ASSUME NEW p \in Goroutines, WaitTurnedAway(p)
      PROVE  SeenInv'
  BY <1>15 DEF WaitTurnedAway, ReturnFromWait, AfterWait, callVars, chanVars, wgVars, fileVars
<1>16. ASSUME NEW p \in Goroutines, WaitBegin(p)
      PROVE  SeenInv'
  BY <1>16 DEF WaitBegin, Pending, callVars, chanVars, wgVars, fileVars
<1>17. ASSUME NEW p \in Goroutines, WgWait(p)
      PROVE  SeenInv'
  BY <1>17 DEF WgWait, callVars, chanVars, wgVars, fileVars
<1>18. ASSUME NEW p \in Goroutines, WgReturn(p)
      PROVE  SeenInv'
  BY <1>18 DEF WgReturn, callVars, chanVars, wgVars, fileVars
<1>19. ASSUME NEW p \in Goroutines, WgReusePanic(p)
      PROVE  SeenInv'
  BY <1>19 DEF WgReusePanic, callVars, chanVars, wgVars, fileVars
<1>20. ASSUME NEW p \in Goroutines, WaitEnd(p)
      PROVE  SeenInv'
  BY <1>20 DEF WaitEnd, ReturnFromWait, AfterWait, callVars, chanVars, wgVars, fileVars
<1>21. ASSUME NEW p \in Goroutines, CloseLog(p)
      PROVE  SeenInv'
  BY <1>21 DEF CloseLog, callVars, chanVars, wgVars, fileVars
<1>22. CASE UNCHANGED vars
  BY <1>22 DEF vars, callVars, chanVars, wgVars, fileVars
<1> HIDE DEF TypeOK, Threads, SeenInv
<1> QED
  BY <1>1, <1>2, <1>3, <1>4, <1>5, <1>6, <1>7, <1>8, <1>9, <1>10, <1>11, <1>12, <1>13, <1>14, <1>15, <1>16, <1>17, <1>18, <1>19, <1>20, <1>21, <1>22
  DEF Next, ConsumerStep, WgDoneStep, CallStep, Calls


(* Where Wait returns to. *)
LEMMA AfterWaitPc ==
  ASSUME NEW o \in {"wait", "close", "fatal"}
  PROVE  AfterWait(o) \in {"idle", "close", "panicked"}
BY DEF AfterWait

(* waitStarted is handed from one Wait to the next like a lock. *)
LEMMA MuteStep ==
  ASSUME TypeOK, CallInv, MuteHasOwner, [Next]_vars
  PROVE  MuteHasOwner'
<1> DEFINE Waits(q, k) ==
      arg[q] = k /\ pc[q] \in {"wg", "parked", "woken", "end", "panickedInWait"}
<1>w. /\ MuteHasOwner <=> \A k \in Loggers :
           /\ waitStarted[k] <=> \E q \in Goroutines : Waits(q, k)
           /\ \A q, r \in Goroutines : Waits(q, k) /\ Waits(r, k) => q = r
      /\ MuteHasOwner' <=> \A k \in Loggers :
           /\ waitStarted'[k] <=> \E q \in Goroutines : Waits(q, k)'
           /\ \A q, r \in Goroutines : Waits(q, k)' /\ Waits(r, k)' => q = r
  BY DEF MuteHasOwner, Waiting
<1>q. ASSUME waitStarted' = waitStarted,
             \A q \in Goroutines, k \in Loggers : Waits(q, k)' <=> Waits(q, k)
      PROVE  MuteHasOwner'
  BY <1>q, <1>w
<1> USE PipelineAssumption DEF TypeOK, Threads
<1>1. ASSUME NEW p \in Goroutines, NEW l \in Loggers, NEW m \in Msgs, NEW o \in {"none", "fatal"}, PrintCall(p, l, m, o)
      PROVE  MuteHasOwner'
  <2>1. \E x \in {"idle", "wait", "add"} : pc' = [pc EXCEPT ![p] = x] /\ pc[p] = "idle"
    BY <1>1 DEF PrintCall, AfterPrint
  <2>2. arg' = arg \/ arg' = [arg EXCEPT ![p] = l]
    BY <1>1 DEF PrintCall
  <2>3. \A q \in Goroutines, k \in Loggers : Waits(q, k)' <=> Waits(q, k)
    BY <2>1, <2>2
  <2> QED
    BY <1>1, <2>3, <1>q DEF PrintCall
<1>2. ASSUME NEW p \in Goroutines, PrintAdd(p)
      PROVE  MuteHasOwner'
  <2>1. \A q \in Goroutines, k \in Loggers : Waits(q, k)' <=> Waits(q, k)
    BY <1>2 DEF PrintAdd, Released, Parked, callVars
  <2> QED
    BY <1>2, <2>1, <1>q DEF PrintAdd
<1>3. ASSUME NEW p \in Goroutines, PrintSend(p)
      PROVE  MuteHasOwner'
  <2>1. \A q \in Goroutines, k \in Loggers : Waits(q, k)' <=> Waits(q, k)
    BY <1>3 DEF PrintSend, AfterPrint, callVars
  <2> QED
    BY <1>3, <2>1, <1>q DEF PrintSend
<1>4. ASSUME NEW p \in Goroutines, PrintDrop(p)
      PROVE  MuteHasOwner'
  <2>1. \A q \in Goroutines, k \in Loggers : Waits(q, k)' <=> Waits(q, k)
    BY <1>4 DEF PrintDrop, callVars
  <2> QED
    BY <1>4, <2>1, <1>q DEF PrintDrop
<1>5. ASSUME NEW t \in Threads, Done(t)
      PROVE  MuteHasOwner'
  <2>1. \A q \in Goroutines, k \in Loggers : Waits(q, k)' <=> Waits(q, k)
    BY <1>5 DEF Done, AfterDone, AfterPrint, callVars
  <2> QED
    BY <1>5, <2>1, <1>q DEF Done
<1>6. ASSUME NEW t \in Threads, Release(t)
      PROVE  MuteHasOwner'
  <2>1. \A q \in Goroutines, k \in Loggers : Waits(q, k)' <=> Waits(q, k)
    BY <1>6 DEF Release, Released, Parked, AfterDone, AfterPrint, callVars
  <2> QED
    BY <1>6, <2>1, <1>q DEF Release
<1>7. ASSUME NEW t \in Threads, ReleasePanic(t)
      PROVE  MuteHasOwner'
  <2>1. \A q \in Goroutines, k \in Loggers : Waits(q, k)' <=> Waits(q, k)
    BY <1>7 DEF ReleasePanic, callVars
  <2> QED
    BY <1>7, <2>1, <1>q DEF ReleasePanic
<1>8. ASSUME NEW t \in Threads, ReleaseReset(t)
      PROVE  MuteHasOwner'
  <2>1. \A q \in Goroutines, k \in Loggers : Waits(q, k)' <=> Waits(q, k)
    BY <1>8 DEF ReleaseReset, Released, Parked, AfterDone, AfterPrint, callVars
  <2> QED
    BY <1>8, <2>1, <1>q DEF ReleaseReset
<1>9. ASSUME Receive
      PROVE  MuteHasOwner'
  <2>1. \A q \in Goroutines, k \in Loggers : Waits(q, k)' <=> Waits(q, k)
    BY <1>9 DEF Receive, callVars
  <2> QED
    BY <1>9, <2>1, <1>q DEF Receive
<1>10. ASSUME OpenLog
      PROVE  MuteHasOwner'
  <2>1. \A q \in Goroutines, k \in Loggers : Waits(q, k)' <=> Waits(q, k)
    BY <1>10 DEF OpenLog, callVars
  <2> QED
    BY <1>10, <2>1, <1>q DEF OpenLog
<1>11. ASSUME OpenFails
      PROVE  MuteHasOwner'
  <2>1. \A q \in Goroutines, k \in Loggers : Waits(q, k)' <=> Waits(q, k)
    BY <1>11 DEF OpenFails, callVars
  <2> QED
    BY <1>11, <2>1, <1>q DEF OpenFails
<1>12. ASSUME WriteLog
      PROVE  MuteHasOwner'
  <2>1. \A q \in Goroutines, k \in Loggers : Waits(q, k)' <=> Waits(q, k)
    BY <1>12 DEF WriteLog, callVars
  <2> QED
    BY <1>12, <2>1, <1>q DEF WriteLog
<1>13. ASSUME WriteFails
      PROVE  MuteHasOwner'
  <2>1. \A q \in Goroutines, k \in Loggers : Waits(q, k)' <=> Waits(q, k)
    BY <1>13 DEF WriteFails, callVars
  <2> QED
    BY <1>13, <2>1, <1>q DEF WriteFails
<1>14. ASSUME NEW p \in Goroutines, NEW l \in Loggers, NEW o \in {"wait", "close"}, WaitCall(p, l, o)
      PROVE  MuteHasOwner'
  <2>1. \A q \in Goroutines, k \in Loggers : Waits(q, k)' <=> Waits(q, k)
    BY <1>14 DEF WaitCall, callVars
  <2> QED
    BY <1>14, <2>1, <1>q DEF WaitCall
<1>15. ASSUME NEW p \in Goroutines, WaitTurnedAway(p)
      PROVE  MuteHasOwner'
  <2>1. pc[p] = "wait" /\ \E x \in {"idle", "close", "panicked"} : pc' = [pc EXCEPT ![p] = x]
    BY <1>15, AfterWaitPc DEF WaitTurnedAway, ReturnFromWait, CallInv
  <2>2. \A q \in Goroutines \ {p} : arg'[q] = arg[q]
    BY <1>15 DEF WaitTurnedAway, ReturnFromWait
  <2>3. \A q \in Goroutines, k \in Loggers : Waits(q, k)' <=> Waits(q, k)
    BY <2>1, <2>2
  <2> QED
    BY <1>15, <2>3, <1>q DEF WaitTurnedAway
<1>16. ASSUME NEW p \in Goroutines, WaitBegin(p)
      PROVE  MuteHasOwner'
  <2>1. /\ arg[p] \in Loggers /\ ~waitStarted[arg[p]]
        /\ waitStarted' = [waitStarted EXCEPT ![arg[p]] = TRUE]
        /\ arg' = arg /\ pc[p] = "wait" /\ pc' = [pc EXCEPT ![p] = "wg"]
    BY <1>16 DEF WaitBegin, CallInv
  <2>2. \A q \in Goroutines, k \in Loggers : Waits(q, k)' <=> Waits(q, k) \/ (q = p /\ k = arg[p])
    BY <2>1
  <2> QED
    BY <2>1, <2>2, <1>w
<1>17. ASSUME NEW p \in Goroutines, WgWait(p)
      PROVE  MuteHasOwner'
  <2>1. \A q \in Goroutines, k \in Loggers : Waits(q, k)' <=> Waits(q, k)
    BY <1>17 DEF WgWait, callVars
  <2> QED
    BY <1>17, <2>1, <1>q DEF WgWait
<1>18. ASSUME NEW p \in Goroutines, WgReturn(p)
      PROVE  MuteHasOwner'
  <2>1. \A q \in Goroutines, k \in Loggers : Waits(q, k)' <=> Waits(q, k)
    BY <1>18 DEF WgReturn, callVars
  <2> QED
    BY <1>18, <2>1, <1>q DEF WgReturn
<1>19. ASSUME NEW p \in Goroutines, WgReusePanic(p)
      PROVE  MuteHasOwner'
  <2>1. \A q \in Goroutines, k \in Loggers : Waits(q, k)' <=> Waits(q, k)
    BY <1>19 DEF WgReusePanic, callVars
  <2> QED
    BY <1>19, <2>1, <1>q DEF WgReusePanic
<1>20. ASSUME NEW p \in Goroutines, WaitEnd(p)
      PROVE  MuteHasOwner'
  <2>1. /\ arg[p] \in Loggers /\ pc[p] = "end"
        /\ waitStarted' = [waitStarted EXCEPT ![arg[p]] = FALSE]
    BY <1>20 DEF WaitEnd, CallInv
  <2>2. \E x \in {"idle", "close", "panicked"} : pc' = [pc EXCEPT ![p] = x]
    BY <1>20, AfterWaitPc DEF WaitEnd, ReturnFromWait, CallInv
  <2> SUFFICES \A k \in Loggers :
                  /\ waitStarted'[k] <=> \E q \in Goroutines : Waits(q, k)'
                  /\ \A q, r \in Goroutines : Waits(q, k)' /\ Waits(r, k)' => q = r
    BY <1>w
  <2>3. \A q \in Goroutines \ {p} : arg'[q] = arg[q]
    BY <1>20 DEF WaitEnd, ReturnFromWait
  <2>4. \A q \in Goroutines, k \in Loggers : Waits(q, k)' <=> Waits(q, k) /\ q # p
    BY <2>2, <2>3
  <2>5. \A k \in Loggers : Waits(p, k) <=> k = arg[p]
    BY <2>1
  <2>6. TAKE k \in Loggers
  <2>7. CASE k = arg[p]
    <3>1. ~waitStarted'[k]
      BY <2>1, <2>7
    <3>2. \A q \in Goroutines : ~Waits(q, k)'
      BY <2>4, <2>5, <2>7, <1>w
    <3> QED
      BY <3>1, <3>2
  <2>8. CASE k # arg[p]
    <3>1. waitStarted'[k] = waitStarted[k]
      BY <2>1, <2>8
    <3>2. \A q \in Goroutines : Waits(q, k)' <=> Waits(q, k)
      BY <2>4, <2>5, <2>8
    <3> QED
      BY <3>1, <3>2, <1>w
  <2> QED
    BY <2>7, <2>8
<1>21. ASSUME NEW p \in Goroutines, CloseLog(p)
      PROVE  MuteHasOwner'
  <2>1. \A q \in Goroutines, k \in Loggers : Waits(q, k)' <=> Waits(q, k)
    BY <1>21 DEF CloseLog, callVars
  <2> QED
    BY <1>21, <2>1, <1>q DEF CloseLog
<1>22. CASE UNCHANGED vars
  BY <1>22, <1>q DEF vars, callVars
<1> HIDE DEF TypeOK, Threads
<1> QED
  BY <1>1, <1>2, <1>3, <1>4, <1>5, <1>6, <1>7, <1>8, <1>9, <1>10, <1>11, <1>12, <1>13, <1>14, <1>15, <1>16, <1>17, <1>18, <1>19, <1>20, <1>21, <1>22
  DEF Next, ConsumerStep, WgDoneStep, CallStep, Calls

(* Add counts one pending message more, Done one less; the counter is only   *)
(* reset when an Add raced with the release of the waiters.                  *)
LEMMA CountStep ==
  ASSUME TypeOK, HandInv, CountInv, ReleaseInv, [Next]_vars
  PROVE  CountInv'
<1>c. CountInv' <=> \A k \in Loggers :
                      /\ IsFiniteSet(Pending(k)')
                      /\ ~misused'[k] => tasks'[k] = Cardinality(Pending(k)')
  BY DEF CountInv
<1>q. ASSUME st' = st, to' = to, tasks' = tasks, misused' = misused
      PROVE  CountInv'
  <2>1. \A k \in Loggers : Pending(k)' = Pending(k)
    BY <1>q DEF Pending
  <2> QED
    BY <1>q, <2>1 DEF CountInv
<1> USE PipelineAssumption DEF TypeOK, Threads
<1>1. ASSUME NEW p \in Goroutines, NEW l \in Loggers, NEW m \in Msgs, NEW o \in {"none", "fatal"}, PrintCall(p, l, m, o)
      PROVE  CountInv'
  <2>1. /\ st[m] = "new" /\ to' = [to EXCEPT ![m] = l]
        /\ \E x \in {"settled", "called"} : st' = [st EXCEPT ![m] = x]
    BY <1>1 DEF PrintCall
  <2>2. \A k \in Loggers : Pending(k)' = Pending(k)
    BY <2>1 DEF Pending
  <2> QED
    BY <1>1, <2>2 DEF PrintCall, wgVars, CountInv
<1>2. ASSUME NEW p \in Goroutines, PrintAdd(p)
      PROVE  CountInv'
  <2> DEFINE m == msg[p]
             l == to[m]
  <2>1. m \in Msgs /\ l \in Loggers /\ st[m] = "called"
    BY <1>2 DEF PrintAdd, HandInv
  <2>2. /\ st' = [st EXCEPT ![m] = "pending"] /\ to' = to
        /\ tasks' = [tasks EXCEPT ![l] = tasks[l] + 1]
        /\ \A k \in Loggers : misused[k] => misused'[k]
    BY <1>2, <2>1 DEF PrintAdd
  <2> HIDE DEF m, l
  <2> SUFFICES ASSUME NEW k \in Loggers
               PROVE  /\ IsFiniteSet(Pending(k)')
                      /\ ~misused'[k] => tasks'[k] = Cardinality(Pending(k)')
    BY <1>c
  <2>4. IsFiniteSet(Pending(k)) /\ (~misused[k] => tasks[k] = Cardinality(Pending(k)))
    BY DEF CountInv
  <2>5. CASE k = to[m]
    <3>1. Pending(k)' = Pending(k) \cup {m} /\ m \notin Pending(k)
      BY <2>1, <2>2, <2>5 DEF Pending
    <3>2. tasks'[k] = tasks[k] + 1
      BY <2>1, <2>2, <2>5 DEF l
    <3> QED
      BY <3>1, <3>2, <2>2, <2>4, FS_AddElement
  <2>6. CASE k # to[m]
    <3>1. Pending(k)' = Pending(k)
      BY <2>1, <2>2, <2>6 DEF Pending
    <3>2. tasks'[k] = tasks[k]
      BY <2>1, <2>2, <2>6 DEF l
    <3> QED
      BY <3>1, <3>2, <2>2, <2>4
  <2> QED
    BY <2>5, <2>6
<1>3. ASSUME NEW p \in Goroutines, PrintSend(p)
      PROVE  CountInv'
  BY <1>3, <1>q DEF PrintSend, wgVars
<1>4. ASSUME NEW p \in Goroutines, PrintDrop(p)
      PROVE  CountInv'
  BY <1>4, <1>q DEF PrintDrop, wgVars
<1>5. ASSUME NEW t \in Threads, Done(t)
      PROVE  CountInv'
  <2> DEFINE m == msg[t]
             l == to[m]
  <2>1. m \in Msgs /\ l \in Loggers /\ st[m] = "pending"
    BY <1>5 DEF Done, HandInv
  <2>2. /\ st' = [st EXCEPT ![m] = "settled"] /\ to' = to /\ misused' = misused
        /\ tasks' = [tasks EXCEPT ![l] = tasks[l] - 1]
    BY <1>5, <2>1 DEF Done
  <2> HIDE DEF m, l
  <2> SUFFICES ASSUME NEW k \in Loggers
               PROVE  /\ IsFiniteSet(Pending(k)')
                      /\ ~misused'[k] => tasks'[k] = Cardinality(Pending(k)')
    BY <1>c
  <2>4. IsFiniteSet(Pending(k)) /\ (~misused[k] => tasks[k] = Cardinality(Pending(k)))
    BY DEF CountInv
  <2>5. CASE k = to[m]
    <3>1. Pending(k)' = Pending(k) \ {m} /\ m \in Pending(k)
      BY <2>1, <2>2, <2>5 DEF Pending
    <3>2. tasks'[k] = tasks[k] - 1
      BY <2>1, <2>2, <2>5 DEF l
    <3> QED
      BY <3>1, <3>2, <2>2, <2>4, FS_RemoveElement
  <2>6. CASE k # to[m]
    <3>1. Pending(k)' = Pending(k)
      BY <2>1, <2>2, <2>6 DEF Pending
    <3>2. tasks'[k] = tasks[k]
      BY <2>1, <2>2, <2>6 DEF l
    <3> QED
      BY <3>1, <3>2, <2>2, <2>4
  <2> QED
    BY <2>5, <2>6
<1>6. ASSUME NEW t \in Threads, Release(t)
      PROVE  CountInv'
  BY <1>6, <1>q DEF Release, wgVars
<1>7. ASSUME NEW t \in Threads, ReleasePanic(t)
      PROVE  CountInv'
  BY <1>7, <1>q DEF ReleasePanic, wgVars
<1>8. ASSUME NEW t \in Threads, ReleaseReset(t)
      PROVE  CountInv'
  <2>1. msg[t] \in Msgs /\ to[msg[t]] \in Loggers
    BY <1>8 DEF ReleaseReset, HandInv
  <2>2. pc[t] = "release" /\ tasks[to[msg[t]]] # 0
    BY <1>8 DEF ReleaseReset
  <2>3. misused[to[msg[t]]]
    BY <2>1, <2>2 DEF ReleaseInv, Releasing
  <2>4. /\ \A k \in Loggers : k # to[msg[t]] => tasks'[k] = tasks[k]
        /\ misused' = misused /\ st' = st /\ to' = to
    BY <1>8, <2>1 DEF ReleaseReset
  <2>5. \A k \in Loggers : Pending(k)' = Pending(k)
    BY <2>4 DEF Pending
  <2> QED
    BY <2>3, <2>4, <2>5 DEF CountInv
<1>9. ASSUME Receive
      PROVE  CountInv'
  BY <1>9, <1>q DEF Receive, wgVars
<1>10. ASSUME OpenLog
      PROVE  CountInv'
  BY <1>10, <1>q DEF OpenLog, wgVars
<1>11. ASSUME OpenFails
      PROVE  CountInv'
  BY <1>11, <1>q DEF OpenFails, wgVars
<1>12. ASSUME WriteLog
      PROVE  CountInv'
  BY <1>12, <1>q DEF WriteLog, wgVars
<1>13. ASSUME WriteFails
      PROVE  CountInv'
  BY <1>13, <1>q DEF WriteFails, wgVars
<1>14. ASSUME NEW p \in Goroutines, NEW l \in Loggers, NEW o \in {"wait", "close"}, WaitCall(p, l, o)
      PROVE  CountInv'
  BY <1>14, <1>q DEF WaitCall, wgVars
<1>15. ASSUME NEW p \in Goroutines, WaitTurnedAway(p)
      PROVE  CountInv'
  BY <1>15, <1>q DEF WaitTurnedAway, wgVars
<1>16. ASSUME NEW p \in Goroutines, WaitBegin(p)
      PROVE  CountInv'
  BY <1>16, <1>q DEF WaitBegin, wgVars
<1>17. ASSUME NEW p \in Goroutines, WgWait(p)
      PROVE  CountInv'
  BY <1>17, <1>q DEF WgWait, wgVars
<1>18. ASSUME NEW p \in Goroutines, WgReturn(p)
      PROVE  CountInv'
  BY <1>18, <1>q DEF WgReturn, wgVars
<1>19. ASSUME NEW p \in Goroutines, WgReusePanic(p)
      PROVE  CountInv'
  BY <1>19, <1>q DEF WgReusePanic, wgVars
<1>20. ASSUME NEW p \in Goroutines, WaitEnd(p)
      PROVE  CountInv'
  BY <1>20, <1>q DEF WaitEnd, wgVars
<1>21. ASSUME NEW p \in Goroutines, CloseLog(p)
      PROVE  CountInv'
  BY <1>21, <1>q DEF CloseLog, wgVars
<1>22. CASE UNCHANGED vars
  BY <1>22, <1>q DEF vars, wgVars
<1> HIDE DEF TypeOK, Threads
<1> QED
  BY <1>1, <1>2, <1>3, <1>4, <1>5, <1>6, <1>7, <1>8, <1>9, <1>10, <1>11, <1>12, <1>13, <1>14, <1>15, <1>16, <1>17, <1>18, <1>19, <1>20, <1>21, <1>22
  DEF Next, ConsumerStep, WgDoneStep, CallStep, Calls

(* While a Done is about to release the waiters the counter is zero and      *)
(* somebody is parked, and whoever is parked at zero is about to be released *)
(* by exactly one Done.                                                      *)
LEMMA ReleaseStep ==
  ASSUME TypeOK, CallInv, HandInv, CountInv, ReleaseInv, [Next]_vars
  PROVE  ReleaseInv'
<1> DEFINE Parks(g, k) == pc[g] = "parked" /\ arg[g] = k
           Releases(u, k) == pc[u] = "release" /\ to[msg[u]] = k
           Inv(k) == /\ \A u \in Threads : Releases(u, k) =>
                           tasks[k] = 0 /\ \E g \in Goroutines : Parks(g, k)
                     /\ (\E g \in Goroutines : Parks(g, k)) /\ tasks[k] = 0 =>
                           \E u \in Threads : Releases(u, k)
                     /\ \A u, w \in Threads : Releases(u, k) /\ Releases(w, k) => u = w
<1>r. /\ ReleaseInv <=> \A k \in Loggers : ~misused[k] => Inv(k)
      /\ ReleaseInv' <=> \A k \in Loggers : ~misused'[k] => Inv(k)'
  BY DEF ReleaseInv, Releasing, Parked
<1>q. ASSUME tasks' = tasks, misused' = misused,
             \A g \in Goroutines, k \in Loggers : Parks(g, k)' <=> Parks(g, k),
             \A u \in Threads, k \in Loggers : Releases(u, k)' <=> Releases(u, k)
      PROVE  ReleaseInv'
  BY <1>q, <1>r
<1> USE PipelineAssumption DEF TypeOK, Threads
<1>1. ASSUME NEW p \in Goroutines, NEW l \in Loggers, NEW m \in Msgs, NEW o \in {"none", "fatal"}, PrintCall(p, l, m, o)
      PROVE  ReleaseInv'
  <2>1. /\ \E x \in {"idle", "wait", "add"} : pc' = [pc EXCEPT ![p] = x]
        /\ pc[p] = "idle" /\ st[m] = "new"
    BY <1>1 DEF PrintCall, AfterPrint
  <2>2. /\ \A g \in Goroutines \ {p} : arg'[g] = arg[g]
        /\ \A u \in Threads \ {p} : msg'[u] = msg[u]
        /\ \A n \in Msgs \ {m} : to'[n] = to[n]
    BY <1>1 DEF PrintCall
  <2>3. \A g \in Goroutines, k \in Loggers : Parks(g, k)' <=> Parks(g, k)
    BY <2>1, <2>2
  <2>4. \A u \in Threads : pc[u] = "release" => msg[u] \in Msgs \ {m}
    BY <2>1 DEF HandInv
  <2>5. \A u \in Threads, k \in Loggers : Releases(u, k)' <=> Releases(u, k)
    BY <2>1, <2>2, <2>4
  <2> QED
    BY <1>1, <2>3, <2>5, <1>q DEF PrintCall, wgVars
<1>2. ASSUME NEW p \in Goroutines, PrintAdd(p)
      PROVE  ReleaseInv'
  <2> DEFINE l == to[msg[p]]
             v == tasks[l] + 1
             misuse == v = 1 /\ Parked(l) # {}
  <2>1. msg[p] \in Msgs /\ l \in Loggers /\ pc[p] = "add" /\ tasks[l] \in Int
    BY <1>2 DEF PrintAdd, HandInv
  <2>2. /\ tasks' = [tasks EXCEPT ![l] = v]
        /\ misused' = [misused EXCEPT ![l] = misused[l] \/ misuse]
        /\ msg' = msg /\ to' = to /\ arg' = arg
        /\ pc' = IF v = 0 THEN Released(l, p, "send")
                 ELSE [pc EXCEPT ![p] = IF misuse \/ v < 0 THEN "panicked" ELSE "send"]
    BY <1>2, <2>1 DEF PrintAdd, callVars
  <2>3. \A u \in Threads, k \in Loggers : Releases(u, k)' <=> Releases(u, k)
    BY <2>1, <2>2 DEF Released, Parked
  <2> SUFFICES ASSUME NEW k \in Loggers, ~misused'[k]
               PROVE  Inv(k)'
    BY <1>r
  <2>4. CASE k # l
    <3>1. ~misused[k] /\ tasks'[k] = tasks[k]
      BY <2>1, <2>2, <2>4
    <3>2. \A g \in Goroutines : Parks(g, k)' <=> Parks(g, k)
      BY <2>1, <2>2, <2>4 DEF Released, Parked
    <3> QED
      BY <3>1, <3>2, <2>3, <1>r
  <2>5. CASE k = l
    <3>1. ~misused[k] /\ ~misuse
      BY <2>1, <2>2, <2>5
    <3>2. tasks[k] \in Nat
      BY <3>1, FS_CardinalityType DEF CountInv
    <3>3. tasks'[k] = tasks[k] + 1 /\ tasks'[k] # 0 /\ v # 0
      BY <2>1, <2>2, <2>5, <3>2
    <3>4. \A u \in Threads : ~Releases(u, k)
      <4>1. tasks[k] = 0 => \A g \in Goroutines : ~Parks(g, k)
        BY <2>5, <3>1 DEF Parked
      <4> QED
        BY <4>1, <3>1, <1>r
    <3> QED
      BY <3>3, <3>4, <2>3
  <2> QED
    BY <2>4, <2>5
<1>3. ASSUME NEW p \in Goroutines, PrintSend(p)
      PROVE  ReleaseInv'
  <2>1. \A g \in Goroutines, k \in Loggers : Parks(g, k)' <=> Parks(g, k)
    BY <1>3 DEF PrintSend, AfterPrint, callVars
  <2>2. \A u \in Threads, k \in Loggers : Releases(u, k)' <=> Releases(u, k)
    BY <1>3 DEF PrintSend, AfterPrint
  <2> QED
    BY <1>3, <2>1, <2>2, <1>q DEF PrintSend, wgVars
<1>4. ASSUME NEW p \in Goroutines, PrintDrop(p)
      PROVE  ReleaseInv'
  <2>1. \A g \in Goroutines, k \in Loggers : Parks(g, k)' <=> Parks(g, k)
    BY <1>4 DEF PrintDrop, callVars
  <2>2. \A u \in Threads, k \in Loggers : Releases(u, k)' <=> Releases(u, k)
    BY <1>4 DEF PrintDrop
  <2> QED
    BY <1>4, <2>1, <2>2, <1>q DEF PrintDrop, wgVars
<1>5. ASSUME NEW t \in Threads, Done(t)
      PROVE  ReleaseInv'
  <2> DEFINE l == to[msg[t]]
             v == tasks[l] - 1
  <2>1. /\ msg[t] \in Msgs /\ l \in Loggers /\ pc[t] = "done" /\ tasks[l] \in Int
        /\ st[msg[t]] = "pending"
    BY <1>5 DEF Done, HandInv
  <2>2. /\ tasks' = [tasks EXCEPT ![l] = v]
        /\ misused' = misused /\ to' = to /\ arg' = arg
        /\ \A u \in Threads \ {t} : msg'[u] = msg[u]
        /\ \/ /\ v = 0 /\ Parked(l) # {}
              /\ pc' = [pc EXCEPT ![t] = "release"] /\ msg' = msg
           \/ /\ ~(v = 0 /\ Parked(l) # {})
              /\ \E x \in {"panicked", "recv", "idle", "wait"} : pc' = [pc EXCEPT ![t] = x]
    BY <1>5, <2>1 DEF Done, callVars, AfterDone, AfterPrint
  <2>3. \A g \in Goroutines, k \in Loggers : Parks(g, k)' <=> Parks(g, k)
    BY <2>1, <2>2
  <2>4. \A u \in Threads \ {t}, k \in Loggers : Releases(u, k)' <=> Releases(u, k)
    BY <2>1, <2>2
  <2> SUFFICES ASSUME NEW k \in Loggers, ~misused'[k]
               PROVE  Inv(k)'
    BY <1>r
  <2>5. ~misused[k] /\ Inv(k)
    BY <2>2, <1>r
  <2>6. CASE k # l
    <3>1. tasks'[k] = tasks[k]
      BY <2>1, <2>2, <2>6
    <3>2. \A u \in Threads : Releases(u, k)' <=> Releases(u, k)
      BY <2>1, <2>2, <2>4, <2>6
    <3> QED
      BY <3>1, <3>2, <2>3, <2>5
  <2>7. CASE k = l
    <3>1. tasks[k] # 0
      <4>1. msg[t] \in Pending(k) /\ IsFiniteSet(Pending(k)) /\ tasks[k] = Cardinality(Pending(k))
        BY <2>1, <2>5, <2>7 DEF CountInv, Pending
      <4> QED
        BY <4>1, FS_EmptySet
    <3>2. \A u \in Threads : ~Releases(u, k)
      BY <3>1, <2>5
    <3>3. tasks'[k] = v
      BY <2>1, <2>2, <2>7
    <3>4. Parked(l) # {} <=> \E g \in Goroutines : Parks(g, k)
      BY <2>7 DEF Parked
    <3>5. Releases(t, k)' <=> v = 0 /\ Parked(l) # {}
      BY <2>1, <2>2, <2>7
    <3>6. \A u \in Threads : Releases(u, k)' => u = t
      BY <2>4, <3>2
    <3> QED
      BY <2>3, <3>3, <3>4, <3>5, <3>6
  <2> QED
    BY <2>6, <2>7
<1>6. ASSUME NEW t \in Threads, Release(t)
      PROVE  ReleaseInv'
  <2> DEFINE l == to[msg[t]]
  <2>1. msg[t] \in Msgs /\ l \in Loggers /\ pc[t] = "release"
    BY <1>6 DEF Release, HandInv
  <2>2. \E x \in {"recv", "idle", "wait"} : pc' = Released(l, t, x)
    BY <1>6 DEF Release, AfterDone, AfterPrint
  <2>3. /\ \A u \in Threads \ {t} : msg'[u] = msg[u]
        /\ to' = to /\ arg' = arg /\ misused' = misused
        /\ \A k \in Loggers : k # l => tasks'[k] = tasks[k]
    BY <1>6, <2>1 DEF Release, callVars, wgVars
  <2>4. \A g \in Goroutines, k \in Loggers : Parks(g, k)' <=> Parks(g, k) /\ k # l
    BY <2>1, <2>2, <2>3 DEF Released, Parked
  <2>5. \A u \in Threads, k \in Loggers : Releases(u, k)' <=> Releases(u, k) /\ u # t
    BY <2>1, <2>2, <2>3 DEF Released, Parked
  <2>6. Releases(t, l) /\ \A k \in Loggers : Releases(t, k) => k = l
    BY <2>1
  <2> SUFFICES ASSUME NEW k \in Loggers, ~misused'[k]
               PROVE  Inv(k)'
    BY <1>r
  <2>7. ~misused[k] /\ Inv(k)
    BY <2>3, <1>r
  <2>8. CASE k # l
    BY <2>3, <2>4, <2>5, <2>6, <2>7, <2>8
  <2>9. CASE k = l
    <3>1. \A u \in Threads : Releases(u, k) => u = t
      BY <2>6, <2>7, <2>9
    <3>2. \A u \in Threads : ~Releases(u, k)'
      BY <2>5, <3>1
    <3>3. \A g \in Goroutines : ~Parks(g, k)'
      BY <2>4, <2>9
    <3> QED
      BY <3>2, <3>3
  <2> QED
    BY <2>8, <2>9
<1>7. ASSUME NEW t \in Threads, ReleasePanic(t)
      PROVE  ReleaseInv'
  <2>1. /\ msg[t] \in Msgs /\ to[msg[t]] \in Loggers /\ pc[t] = "release"
        /\ tasks[to[msg[t]]] # 0
    BY <1>7 DEF ReleasePanic, HandInv
  <2>2. misused[to[msg[t]]]
    BY <2>1, <1>r
  <2>3. /\ \A u \in Threads \ {t} : msg'[u] = msg[u]
        /\ pc' = [pc EXCEPT ![t] = "panicked"]
        /\ to' = to /\ arg' = arg /\ misused' = misused /\ tasks' = tasks
    BY <1>7 DEF ReleasePanic, callVars, wgVars
  <2> SUFFICES ASSUME NEW k \in Loggers, ~misused'[k]
               PROVE  Inv(k)'
    BY <1>r
  <2>4. k # to[msg[t]] /\ Inv(k)
    BY <2>2, <2>3, <1>r
  <2>5. \A g \in Goroutines : Parks(g, k)' <=> Parks(g, k)
    BY <2>1, <2>3
  <2>6. \A u \in Threads : Releases(u, k)' <=> Releases(u, k)
    BY <2>1, <2>3, <2>4
  <2> QED
    BY <2>3, <2>4, <2>5, <2>6
<1>8. ASSUME NEW t \in Threads, ReleaseReset(t)
      PROVE  ReleaseInv'
  <2> DEFINE l == to[msg[t]]
  <2>1. msg[t] \in Msgs /\ l \in Loggers /\ pc[t] = "release"
    BY <1>8 DEF ReleaseReset, HandInv
  <2>2. \E x \in {"recv", "idle", "wait"} : pc' = Released(l, t, x)
    BY <1>8 DEF ReleaseReset, AfterDone, AfterPrint
  <2>3. /\ \A u \in Threads \ {t} : msg'[u] = msg[u]
        /\ to' = to /\ arg' = arg /\ misused' = misused
        /\ \A k \in Loggers : k # l => tasks'[k] = tasks[k]
    BY <1>8, <2>1 DEF ReleaseReset, callVars, wgVars
  <2>4. \A g \in Goroutines, k \in Loggers : Parks(g, k)' <=> Parks(g, k) /\ k # l
    BY <2>1, <2>2, <2>3 DEF Released, Parked
  <2>5. \A u \in Threads, k \in Loggers : Releases(u, k)' <=> Releases(u, k) /\ u # t
    BY <2>1, <2>2, <2>3 DEF Released, Parked
  <2>6. Releases(t, l) /\ \A k \in Loggers : Releases(t, k) => k = l
    BY <2>1
  <2> SUFFICES ASSUME NEW k \in Loggers, ~misused'[k]
               PROVE  Inv(k)'
    BY <1>r
  <2>7. ~misused[k] /\ Inv(k)
    BY <2>3, <1>r
  <2>8. CASE k # l
    BY <2>3, <2>4, <2>5, <2>6, <2>7, <2>8
  <2>9. CASE k = l
    <3>1. \A u \in Threads : Releases(u, k) => u = t
      BY <2>6, <2>7, <2>9
    <3>2. \A u \in Threads : ~Releases(u, k)'
      BY <2>5, <3>1
    <3>3. \A g \in Goroutines : ~Parks(g, k)'
      BY <2>4, <2>9
    <3> QED
      BY <3>2, <3>3
  <2> QED
    BY <2>8, <2>9
<1>9. ASSUME Receive
      PROVE  ReleaseInv'
  <2>1. \A g \in Goroutines, k \in Loggers : Parks(g, k)' <=> Parks(g, k)
    BY <1>9 DEF Receive, callVars
  <2>2. \A u \in Threads, k \in Loggers : Releases(u, k)' <=> Releases(u, k)
    BY <1>9 DEF Receive
  <2> QED
    BY <1>9, <2>1, <2>2, <1>q DEF Receive, wgVars
<1>10. ASSUME OpenLog
      PROVE  ReleaseInv'
  <2>1. \A g \in Goroutines, k \in Loggers : Parks(g, k)' <=> Parks(g, k)
    BY <1>10 DEF OpenLog, callVars
  <2>2. \A u \in Threads, k \in Loggers : Releases(u, k)' <=> Releases(u, k)
    BY <1>10 DEF OpenLog
  <2> QED
    BY <1>10, <2>1, <2>2, <1>q DEF OpenLog, wgVars
<1>11. ASSUME OpenFails
      PROVE  ReleaseInv'
  <2>1. \A g \in Goroutines, k \in Loggers : Parks(g, k)' <=> Parks(g, k)
    BY <1>11 DEF OpenFails, callVars
  <2>2. \A u \in Threads, k \in Loggers : Releases(u, k)' <=> Releases(u, k)
    BY <1>11 DEF OpenFails
  <2> QED
    BY <1>11, <2>1, <2>2, <1>q DEF OpenFails, wgVars
<1>12. ASSUME WriteLog
      PROVE  ReleaseInv'
  <2>1. \A g \in Goroutines, k \in Loggers : Parks(g, k)' <=> Parks(g, k)
    BY <1>12 DEF WriteLog, callVars
  <2>2. \A u \in Threads, k \in Loggers : Releases(u, k)' <=> Releases(u, k)
    BY <1>12 DEF WriteLog
  <2> QED
    BY <1>12, <2>1, <2>2, <1>q DEF WriteLog, wgVars
<1>13. ASSUME WriteFails
      PROVE  ReleaseInv'
  <2>1. \A g \in Goroutines, k \in Loggers : Parks(g, k)' <=> Parks(g, k)
    BY <1>13 DEF WriteFails, callVars
  <2>2. \A u \in Threads, k \in Loggers : Releases(u, k)' <=> Releases(u, k)
    BY <1>13 DEF WriteFails
  <2> QED
    BY <1>13, <2>1, <2>2, <1>q DEF WriteFails, wgVars
<1>14. ASSUME NEW p \in Goroutines, NEW l \in Loggers, NEW o \in {"wait", "close"}, WaitCall(p, l, o)
      PROVE  ReleaseInv'
  <2>1. \A g \in Goroutines, k \in Loggers : Parks(g, k)' <=> Parks(g, k)
    BY <1>14 DEF WaitCall, callVars
  <2>2. \A u \in Threads, k \in Loggers : Releases(u, k)' <=> Releases(u, k)
    BY <1>14 DEF WaitCall
  <2> QED
    BY <1>14, <2>1, <2>2, <1>q DEF WaitCall, wgVars
<1>15. ASSUME NEW p \in Goroutines, WaitTurnedAway(p)
      PROVE  ReleaseInv'
  <2>1. (\E x \in {"idle", "close", "panicked"} : pc' = [pc EXCEPT ![p] = x]) /\ pc[p] \notin {"parked", "release"}
    BY <1>15, AfterWaitPc DEF WaitTurnedAway, ReturnFromWait, CallInv
  <2>2. (\A g \in Goroutines \ {p} : arg'[g] = arg[g]) /\ msg' = msg /\ to' = to
    BY <1>15 DEF WaitTurnedAway, ReturnFromWait
  <2>3. \A g \in Goroutines, k \in Loggers : Parks(g, k)' <=> Parks(g, k)
    BY <2>1, <2>2
  <2>4. \A u \in Threads, k \in Loggers : Releases(u, k)' <=> Releases(u, k)
    BY <2>1, <2>2
  <2> QED
    BY <1>15, <2>3, <2>4, <1>q DEF WaitTurnedAway, wgVars
<1>16. ASSUME NEW p \in Goroutines, WaitBegin(p)
      PROVE  ReleaseInv'
  <2>1. \A g \in Goroutines, k \in Loggers : Parks(g, k)' <=> Parks(g, k)
    BY <1>16 DEF WaitBegin, callVars
  <2>2. \A u \in Threads, k \in Loggers : Releases(u, k)' <=> Releases(u, k)
    BY <1>16 DEF WaitBegin
  <2> QED
    BY <1>16, <2>1, <2>2, <1>q DEF WaitBegin, wgVars
<1>17. ASSUME NEW p \in Goroutines, WgWait(p)
      PROVE  ReleaseInv'
  <2>1. /\ pc[p] = "wg" /\ arg' = arg /\ msg' = msg /\ to' = to
        /\ tasks' = tasks /\ misused' = misused
        /\ pc' = [pc EXCEPT ![p] = IF tasks[arg[p]] = 0 THEN "end" ELSE "parked"]
    BY <1>17 DEF WgWait, callVars, wgVars
  <2>2. \A u \in Threads, k \in Loggers : Releases(u, k)' <=> Releases(u, k)
    BY <2>1
  <2>3. \A g \in Goroutines, k \in Loggers :
          Parks(g, k)' <=> Parks(g, k) \/ (g = p /\ k = arg[p] /\ tasks[k] # 0)
    BY <2>1
  <2> SUFFICES ASSUME NEW k \in Loggers, ~misused'[k]
               PROVE  Inv(k)'
    BY <1>r
  <2>4. Inv(k)
    BY <2>1, <1>r
  <2> QED
    BY <2>1, <2>2, <2>3, <2>4
<1>18. ASSUME NEW p \in Goroutines, WgReturn(p)
      PROVE  ReleaseInv'
  <2>1. \A g \in Goroutines, k \in Loggers : Parks(g, k)' <=> Parks(g, k)
    BY <1>18 DEF WgReturn, callVars
  <2>2. \A u \in Threads, k \in Loggers : Releases(u, k)' <=> Releases(u, k)
    BY <1>18 DEF WgReturn
  <2> QED
    BY <1>18, <2>1, <2>2, <1>q DEF WgReturn, wgVars
<1>19. ASSUME NEW p \in Goroutines, WgReusePanic(p)
      PROVE  ReleaseInv'
  <2>1. \A g \in Goroutines, k \in Loggers : Parks(g, k)' <=> Parks(g, k)
    BY <1>19 DEF WgReusePanic, callVars
  <2>2. \A u \in Threads, k \in Loggers : Releases(u, k)' <=> Releases(u, k)
    BY <1>19 DEF WgReusePanic
  <2> QED
    BY <1>19, <2>1, <2>2, <1>q DEF WgReusePanic, wgVars
<1>20. ASSUME NEW p \in Goroutines, WaitEnd(p)
      PROVE  ReleaseInv'
  <2>1. (\E x \in {"idle", "close", "panicked"} : pc' = [pc EXCEPT ![p] = x]) /\ pc[p] \notin {"parked", "release"}
    BY <1>20, AfterWaitPc DEF WaitEnd, ReturnFromWait, CallInv
  <2>2. (\A g \in Goroutines \ {p} : arg'[g] = arg[g]) /\ msg' = msg /\ to' = to
    BY <1>20 DEF WaitEnd, ReturnFromWait
  <2>3. \A g \in Goroutines, k \in Loggers : Parks(g, k)' <=> Parks(g, k)
    BY <2>1, <2>2
  <2>4. \A u \in Threads, k \in Loggers : Releases(u, k)' <=> Releases(u, k)
    BY <2>1, <2>2
  <2> QED
    BY <1>20, <2>3, <2>4, <1>q DEF WaitEnd, wgVars
<1>21. ASSUME NEW p \in Goroutines, CloseLog(p)
      PROVE  ReleaseInv'
  <2>1. \A g \in Goroutines, k \in Loggers : Parks(g, k)' <=> Parks(g, k)
    BY <1>21 DEF CloseLog, callVars
  <2>2. \A u \in Threads, k \in Loggers : Releases(u, k)' <=> Releases(u, k)
    BY <1>21 DEF CloseLog
  <2> QED
    BY <1>21, <2>1, <2>2, <1>q DEF CloseLog, wgVars
<1>22. CASE UNCHANGED vars
  BY <1>22, <1>q DEF vars, wgVars, callVars
<1> HIDE DEF TypeOK, Threads
<1> QED
  BY <1>1, <1>2, <1>3, <1>4, <1>5, <1>6, <1>7, <1>8, <1>9, <1>10, <1>11, <1>12, <1>13, <1>14, <1>15, <1>16, <1>17, <1>18, <1>19, <1>20, <1>21, <1>22
  DEF Next, ConsumerStep, WgDoneStep, CallStep, Calls

(* A waiter gets past logTasks.Wait only at a moment when nothing of its     *)
(* logger is pending, so all it saw at its start is settled; what is settled *)
(* stays so.                                                                 *)
LEMMA FlushStep ==
  ASSUME TypeOK, CallInv, HandInv, SeenInv, CountInv, ReleaseInv, FlushGuarantee,
         HandInv', [Next]_vars
  PROVE  FlushGuarantee'
<1> DEFINE Let(q) == pc[q] \in {"woken", "end"}
<1>f. FlushGuarantee' <=> \A q \in Goroutines : Let(q)' /\ ~misused'[arg'[q]] =>
                            \A m \in seen'[q] : st'[m] = "settled" /\ fate'[m] # "none"
  BY DEF FlushGuarantee
<1>q. ASSUME \A q \in Goroutines : Let(q)' /\ ~misused'[arg'[q]] =>
                /\ arg'[q] = arg[q] /\ seen'[q] = seen[q]
                /\ \/ Let(q)
                   \/ \A m \in seen[q] : st[m] = "settled",
             \A l \in Loggers : misused[l] => misused'[l],
             \A m \in Msgs : st[m] = "settled" => st'[m] = "settled"
      PROVE  FlushGuarantee'
  <2>1. SUFFICES ASSUME NEW q \in Goroutines, Let(q)', ~misused'[arg'[q]], NEW m \in seen'[q]
                 PROVE  st'[m] = "settled" /\ fate'[m] # "none"
    BY <1>f
  <2>2. arg'[q] = arg[q] /\ seen'[q] = seen[q] /\ m \in seen[q] /\ m \in Msgs
    <3>1. arg'[q] = arg[q] /\ seen'[q] = seen[q]
      BY <1>q, <2>1
    <3>2. seen[q] \subseteq Msgs
      BY DEF TypeOK
    <3> QED
      BY <2>1, <3>1, <3>2
  <2>3. CASE Let(q)
    <3>1. arg[q] \in Loggers
      BY <2>3 DEF CallInv
    <3>2. st[m] = "settled"
      BY <1>q, <2>1, <2>2, <2>3, <3>1 DEF FlushGuarantee
    <3> QED
      BY <1>q, <2>2, <3>2 DEF HandInv
  <2>4. CASE \A n \in seen[q] : st[n] = "settled"
    BY <1>q, <2>2, <2>4 DEF HandInv
  <2> QED
    BY <1>q, <2>1, <2>3, <2>4
<1>z. ASSUME NEW q \in Goroutines, pc[q] \in {"wg", "parked"},
             ~misused[arg[q]], tasks[arg[q]] = 0
      PROVE  \A m \in seen[q] : st[m] = "settled"
  <2>1. arg[q] \in Loggers
    BY <1>z DEF CallInv
  <2>2. Pending(arg[q]) = {}
    BY <1>z, <2>1, FS_EmptySet DEF CountInv
  <2>3. seen[q] \subseteq Msgs
    BY DEF TypeOK
  <2>4. \A m \in seen[q] : to[m] = arg[q] /\ st[m] \in {"pending", "settled"}
    BY <1>z DEF SeenInv
  <2> QED
    BY <2>2, <2>3, <2>4 DEF Pending
<1> USE PipelineAssumption DEF TypeOK, Threads
<1>1. ASSUME NEW p \in Goroutines, NEW l \in Loggers, NEW m \in Msgs, NEW o \in {"none", "fatal"}, PrintCall(p, l, m, o)
      PROVE  FlushGuarantee'
  <2>1. (\E x \in {"idle", "wait", "add"} : pc' = [pc EXCEPT ![p] = x]) /\ st[m] = "new"
    BY <1>1 DEF PrintCall, AfterPrint
  <2>2. /\ \A q \in Goroutines \ {p} : arg'[q] = arg[q]
        /\ seen' = seen
        /\ \A n \in Msgs \ {m} : st'[n] = st[n]
    BY <1>1 DEF PrintCall
  <2>3. \A q \in Goroutines : Let(q)' => Let(q) /\ arg'[q] = arg[q] /\ seen'[q] = seen[q]
    BY <2>1, <2>2
  <2> QED
    BY <1>1, <2>1, <2>2, <2>3, <1>q DEF PrintCall, wgVars
<1>2. ASSUME NEW p \in Goroutines, PrintAdd(p)
      PROVE  FlushGuarantee'
  <2> DEFINE l == to[msg[p]]
             v == tasks[l] + 1
             misuse == v = 1 /\ Parked(l) # {}
  <2>1. msg[p] \in Msgs /\ l \in Loggers /\ st[msg[p]] = "called" /\ tasks[l] \in Int
    BY <1>2 DEF PrintAdd, HandInv
  <2>2. /\ st' = [st EXCEPT ![msg[p]] = "pending"]
        /\ misused' = [misused EXCEPT ![l] = misused[l] \/ misuse]
        /\ seen' = seen /\ arg' = arg
        /\ pc' = IF v = 0 THEN Released(l, p, "send")
                 ELSE [pc EXCEPT ![p] = IF misuse \/ v < 0 THEN "panicked" ELSE "send"]
    BY <1>2, <2>1 DEF PrintAdd, callVars
  <2>3. \A q \in Goroutines : Let(q)' /\ ~misused'[arg[q]] => Let(q)
    <3>1. v = 0 => misused[l]
      BY <2>1, FS_CardinalityType DEF CountInv
    <3>2. v = 0 => misused'[l] /\ \A q \in Goroutines : Let(q)' => Let(q) \/ arg[q] = l
      BY <2>1, <2>2, <3>1 DEF Released, Parked
    <3>3. v # 0 => \A q \in Goroutines : Let(q)' => Let(q)
      BY <2>1, <2>2
    <3> QED
      BY <3>2, <3>3
  <2> QED
    BY <2>1, <2>2, <2>3, <1>q
<1>3. ASSUME NEW p \in Goroutines, PrintSend(p)
      PROVE  FlushGuarantee'
  <2>1. \A q \in Goroutines : Let(q)' => Let(q) /\ arg'[q] = arg[q] /\ seen'[q] = seen[q]
    BY <1>3 DEF PrintSend, AfterPrint, callVars
  <2> QED
    BY <1>3, <2>1, <1>q DEF PrintSend, wgVars
<1>4. ASSUME NEW p \in Goroutines, PrintDrop(p)
      PROVE  FlushGuarantee'
  <2>1. \A q \in Goroutines : Let(q)' => Let(q) /\ arg'[q] = arg[q] /\ seen'[q] = seen[q]
    BY <1>4 DEF PrintDrop, callVars
  <2> QED
    BY <1>4, <2>1, <1>q DEF PrintDrop, wgVars
<1>5. ASSUME NEW t \in Threads, Done(t)
      PROVE  FlushGuarantee'
  <2>1. \E x \in {"release", "panicked", "recv", "idle", "wait"} : pc' = [pc EXCEPT ![t] = x]
    BY <1>5 DEF Done, AfterDone, AfterPrint
  <2>2. /\ st' = [st EXCEPT ![msg[t]] = "settled"]
        /\ seen' = seen /\ arg' = arg /\ misused' = misused
    BY <1>5 DEF Done, callVars
  <2>3. \A q \in Goroutines : Let(q)' => Let(q)
    BY <2>1
  <2> QED
    BY <2>2, <2>3, <1>q
<1>6. ASSUME NEW t \in Threads, Release(t)
      PROVE  FlushGuarantee'
  <2> DEFINE l == to[msg[t]]
  <2>1. msg[t] \in Msgs /\ l \in Loggers /\ pc[t] = "release"
    BY <1>6 DEF Release, HandInv
  <2>2. \E x \in {"recv", "idle", "wait"} : pc' = Released(l, t, x)
    BY <1>6 DEF Release, AfterDone, AfterPrint
  <2>3. st' = st /\ seen' = seen /\ arg' = arg /\ misused' = misused
    BY <1>6 DEF Release, callVars, wgVars
  <2>4. misused[l] \/ tasks[l] = 0
    BY <1>6, <2>1 DEF Release, ReleaseInv, Releasing
  <2>5. \A q \in Goroutines : Let(q)' => Let(q) \/ (pc[q] = "parked" /\ arg[q] = l)
    BY <2>1, <2>2 DEF Released, Parked
  <2> QED
    BY <2>1, <2>3, <2>4, <2>5, <1>q, <1>z
<1>7. ASSUME NEW t \in Threads, ReleasePanic(t)
      PROVE  FlushGuarantee'
  <2>1. \A q \in Goroutines : Let(q)' => Let(q) /\ arg'[q] = arg[q] /\ seen'[q] = seen[q]
    BY <1>7 DEF ReleasePanic, callVars
  <2> QED
    BY <1>7, <2>1, <1>q DEF ReleasePanic, wgVars
<1>8. ASSUME NEW t \in Threads, ReleaseReset(t)
      PROVE  FlushGuarantee'
  <2> DEFINE l == to[msg[t]]
  <2>1. msg[t] \in Msgs /\ l \in Loggers /\ pc[t] = "release"
    BY <1>8 DEF ReleaseReset, HandInv
  <2>2. \E x \in {"recv", "idle", "wait"} : pc' = Released(l, t, x)
    BY <1>8 DEF ReleaseReset, AfterDone, AfterPrint
  <2>3. st' = st /\ seen' = seen /\ arg' = arg /\ misused' = misused
    BY <1>8 DEF ReleaseReset, callVars, wgVars
  <2>4. misused[l] \/ tasks[l] = 0
    BY <1>8, <2>1 DEF ReleaseReset, ReleaseInv, Releasing
  <2>5. \A q \in Goroutines : Let(q)' => Let(q) \/ (pc[q] = "parked" /\ arg[q] = l)
    BY <2>1, <2>2 DEF Released, Parked
  <2> QED
    BY <2>1, <2>3, <2>4, <2>5, <1>q, <1>z
<1>9. ASSUME Receive
      PROVE  FlushGuarantee'
  <2>1. \A q \in Goroutines : Let(q)' => Let(q) /\ arg'[q] = arg[q] /\ seen'[q] = seen[q]
    BY <1>9 DEF Receive, callVars
  <2> QED
    BY <1>9, <2>1, <1>q DEF Receive, wgVars
<1>10. ASSUME OpenLog
      PROVE  FlushGuarantee'
  <2>1. \A q \in Goroutines : Let(q)' => Let(q) /\ arg'[q] = arg[q] /\ seen'[q] = seen[q]
    BY <1>10 DEF OpenLog, callVars
  <2> QED
    BY <1>10, <2>1, <1>q DEF OpenLog, wgVars
<1>11. ASSUME OpenFails
      PROVE  FlushGuarantee'
  <2>1. \A q \in Goroutines : Let(q)' => Let(q) /\ arg'[q] = arg[q] /\ seen'[q] = seen[q]
    BY <1>11 DEF OpenFails, callVars
  <2> QED
    BY <1>11, <2>1, <1>q DEF OpenFails, wgVars
<1>12. ASSUME WriteLog
      PROVE  FlushGuarantee'
  <2>1. \A q \in Goroutines : Let(q)' => Let(q) /\ arg'[q] = arg[q] /\ seen'[q] = seen[q]
    BY <1>12 DEF WriteLog, callVars
  <2> QED
    BY <1>12, <2>1, <1>q DEF WriteLog, wgVars
<1>13. ASSUME WriteFails
      PROVE  FlushGuarantee'
  <2>1. \A q \in Goroutines : Let(q)' => Let(q) /\ arg'[q] = arg[q] /\ seen'[q] = seen[q]
    BY <1>13 DEF WriteFails, callVars
  <2> QED
    BY <1>13, <2>1, <1>q DEF WriteFails, wgVars
<1>14. ASSUME NEW p \in Goroutines, NEW l \in Loggers, NEW o \in {"wait", "close"}, WaitCall(p, l, o)
      PROVE  FlushGuarantee'
  <2>1. \A q \in Goroutines : Let(q)' => Let(q) /\ arg'[q] = arg[q] /\ seen'[q] = seen[q]
    BY <1>14 DEF WaitCall, callVars
  <2> QED
    BY <1>14, <2>1, <1>q DEF WaitCall, wgVars
<1>15. ASSUME NEW p \in Goroutines, WaitTurnedAway(p)
      PROVE  FlushGuarantee'
  <2>1. (\E x \in {"idle", "close", "panicked"} : pc' = [pc EXCEPT ![p] = x])
    BY <1>15, AfterWaitPc DEF WaitTurnedAway, ReturnFromWait, CallInv
  <2>2. \A q \in Goroutines \ {p} : arg'[q] = arg[q] /\ seen'[q] = seen[q]
    BY <1>15 DEF WaitTurnedAway, ReturnFromWait
  <2>3. \A q \in Goroutines : Let(q)' => Let(q) /\ arg'[q] = arg[q] /\ seen'[q] = seen[q]
    BY <2>1, <2>2
  <2> QED
    BY <1>15, <2>3, <1>q DEF WaitTurnedAway, wgVars
<1>16. ASSUME NEW p \in Goroutines, WaitBegin(p)
      PROVE  FlushGuarantee'
  <2>1. \A q \in Goroutines : Let(q)' => Let(q) /\ arg'[q] = arg[q] /\ seen'[q] = seen[q]
    BY <1>16 DEF WaitBegin, callVars
  <2> QED
    BY <1>16, <2>1, <1>q DEF WaitBegin, wgVars
<1>17. ASSUME NEW p \in Goroutines, WgWait(p)
      PROVE  FlushGuarantee'
  <2>1. /\ pc[p] = "wg" /\ arg' = arg /\ seen' = seen /\ st' = st /\ misused' = misused
        /\ pc' = [pc EXCEPT ![p] = IF tasks[arg[p]] = 0 THEN "end" ELSE "parked"]
    BY <1>17 DEF WgWait, callVars, wgVars
  <2>2. \A q \in Goroutines : Let(q)' => Let(q) \/ (q = p /\ tasks[arg[p]] = 0)
    BY <2>1
  <2> QED
    BY <2>1, <2>2, <1>q, <1>z
<1>18. ASSUME NEW p \in Goroutines, WgReturn(p)
      PROVE  FlushGuarantee'
  <2>1. \A q \in Goroutines : Let(q)' => Let(q) /\ arg'[q] = arg[q] /\ seen'[q] = seen[q]
    BY <1>18 DEF WgReturn, callVars
  <2> QED
    BY <1>18, <2>1, <1>q DEF WgReturn, wgVars
<1>19. ASSUME NEW p \in Goroutines, WgReusePanic(p)
      PROVE  FlushGuarantee'
  <2>1. \A q \in Goroutines : Let(q)' => Let(q) /\ arg'[q] = arg[q] /\ seen'[q] = seen[q]
    BY <1>19 DEF WgReusePanic, callVars
  <2> QED
    BY <1>19, <2>1, <1>q DEF WgReusePanic, wgVars
<1>20. ASSUME NEW p \in Goroutines, WaitEnd(p)
      PROVE  FlushGuarantee'
  <2>1. (\E x \in {"idle", "close", "panicked"} : pc' = [pc EXCEPT ![p] = x])
    BY <1>20, AfterWaitPc DEF WaitEnd, ReturnFromWait, CallInv
  <2>2. \A q \in Goroutines \ {p} : arg'[q] = arg[q] /\ seen'[q] = seen[q]
    BY <1>20 DEF WaitEnd, ReturnFromWait
  <2>3. \A q \in Goroutines : Let(q)' => Let(q) /\ arg'[q] = arg[q] /\ seen'[q] = seen[q]
    BY <2>1, <2>2
  <2> QED
    BY <1>20, <2>3, <1>q DEF WaitEnd, wgVars
<1>21. ASSUME NEW p \in Goroutines, CloseLog(p)
      PROVE  FlushGuarantee'
  <2>1. \A q \in Goroutines : Let(q)' => Let(q) /\ arg'[q] = arg[q] /\ seen'[q] = seen[q]
    BY <1>21 DEF CloseLog, callVars
  <2> QED
    BY <1>21, <2>1, <1>q DEF CloseLog, wgVars
<1>22. CASE UNCHANGED vars
  BY <1>22, <1>q DEF vars, wgVars, callVars
<1> HIDE DEF TypeOK, Threads
<1> QED
  BY <1>1, <1>2, <1>3, <1>4, <1>5, <1>6, <1>7, <1>8, <1>9, <1>10, <1>11, <1>12, <1>13, <1>14, <1>15, <1>16, <1>17, <1>18, <1>19, <1>20, <1>21, <1>22
  DEF Next, ConsumerStep, WgDoneStep, CallStep, Calls

(* Initially nothing was printed and nobody waits. *)
LEMMA InitInv == Init => IInv
<1> SUFFICES ASSUME Init
             PROVE  IInv
  OBVIOUS
<1> USE PipelineAssumption DEF Init, Threads
<1>1. TypeOK
  <2>1. pc \in [Threads -> GoroutinePc \cup ConsumerPc]
    BY DEF GoroutinePc, ConsumerPc
  <2>2. pc[Consumer] \in ConsumerPc /\ \A p \in Goroutines : pc[p] \in GoroutinePc
    BY DEF GoroutinePc, ConsumerPc
  <2>3. tologCh \in Seq(Msgs) /\ sent \in Seq(Msgs) /\ Len(tologCh) <= ChanCap
    OBVIOUS
  <2>4. file \in [Loggers -> Seq(Msgs)]
    OBVIOUS
  <2>5. tasks \in [Loggers -> Int]
    OBVIOUS
  <2> QED
    BY <2>1, <2>2, <2>3, <2>4, <2>5 DEF TypeOK
<1>2. CallInv /\ SeenInv /\ FlushGuarantee
  BY DEF CallInv, SeenInv, FlushGuarantee
<1>3. HandInv /\ ChanInv
  BY DEF HandInv, ChanInv
<1>4. MuteHasOwner /\ ReleaseInv
  BY DEF MuteHasOwner, Waiting, ReleaseInv, Releasing, Parked
<1>5. CountInv
  <2>1. \A l \in Loggers : Pending(l) = {}
    BY DEF Pending
  <2> QED
    BY <2>1, FS_EmptySet DEF CountInv
<1> QED
  BY <1>1, <1>2, <1>3, <1>4, <1>5 DEF IInv

(* The conjuncts of IInv are inductive together. *)
LEMMA NextInv == IInv /\ [Next]_vars => IInv'
<1> SUFFICES ASSUME IInv, [Next]_vars
             PROVE  IInv'
  OBVIOUS
<1>1. TypeOK /\ CallInv /\ HandInv /\ ChanInv /\ SeenInv /\ MuteHasOwner /\ CountInv
        /\ ReleaseInv /\ FlushGuarantee
  BY DEF IInv
<1>2. HandInv'
  BY <1>1, HandInvStep
<1>3. TypeOK' /\ CallInv' /\ ChanInv' /\ SeenInv'
  BY <1>1, TypeStep, CallInvStep, ChanInvStep, SeenInvStep
<1>4. MuteHasOwner' /\ CountInv' /\ ReleaseInv'
  BY <1>1, MuteStep, CountStep, ReleaseStep
<1>5. FlushGuarantee'
  BY <1>1, <1>2, FlushStep
<1> QED
  BY <1>2, <1>3, <1>4, <1>5 DEF IInv

(* IInv holds in every state print, the consumer, Wait and Close reach. *)
THEOREM InvariantHolds == Spec => []IInv
BY InitInv, NextInv, PTL DEF Spec

(* Every variable of the pipeline keeps its type; the channel never holds    *)
(* more than its capacity.                                                   *)
THEOREM TypeCorrect == Spec => []TypeOK
<1>1. IInv => TypeOK
  BY DEF IInv
<1> QED
  BY <1>1, InvariantHolds, PTL

(* logTasks counts exactly the messages that were added and are not done, on *)
(* every path of print and of the consumer, as long as no Add raced with the *)
(* release of the waiters.                                                   *)
THEOREM TasksAreCounted == Spec => []TaskAccounting
<1>1. IInv => TaskAccounting
  BY DEF IInv, CountInv, TaskAccounting
<1> QED
  BY <1>1, InvariantHolds, PTL

(* When logTasks.Wait lets a goroutine of Wait, Flush, Close or Fatalf       *)
(* through, every message that was pending when it began is written or given *)
(* up.                                                                       *)
THEOREM FlushIsComplete == Spec => []FlushGuarantee
<1>1. IInv => FlushGuarantee
  BY DEF IInv
<1> QED
  BY <1>1, InvariantHolds, PTL

(* waitStarted is set exactly while one goroutine is between the two l.m     *)
(* sections of Wait, and there is never a second one.                        *)
THEOREM MuteIsOwned == Spec => []MuteHasOwner
<1>1. IInv => MuteHasOwner
  BY DEF IInv
<1> QED
  BY <1>1, InvariantHolds, PTL

(* Nobody is parked in logTasks.Wait without a pending message or a Done     *)
(* about to release it.                                                      *)
THEOREM WakeupsAreNotLost == Spec => []NoLostWakeup
<1>1. ASSUME IInv, NEW p \in Goroutines, pc[p] = "parked", ~misused[arg[p]]
      PROVE  \/ Pending(arg[p]) # {}
             \/ \E t \in Threads : pc[t] = "release" /\ to[msg[t]] = arg[p]
  <2>1. arg[p] \in Loggers /\ p \in Parked(arg[p])
    BY <1>1 DEF IInv, CallInv, Parked
  <2>2. CASE tasks[arg[p]] = 0
    BY <1>1, <2>1, <2>2 DEF IInv, ReleaseInv, Releasing
  <2>3. CASE tasks[arg[p]] # 0
    BY <1>1, <2>1, <2>3, FS_EmptySet DEF IInv, CountInv
  <2> QED
    BY <2>2, <2>3
<1>2. IInv => NoLostWakeup
  BY <1>1 DEF NoLostWakeup
<1> QED
  BY <1>2, InvariantHolds, PTL

-----------------------------------------------------------------------------
(***************************************************************************)
(* The messages on their way from print to the file: each is in one place, *)
(* and the files keep the order of the channel.                            *)
(***************************************************************************)

(* The variables that say where messages are and what became of them. *)
messageVars == <<st, to, fate, tologCh, sent, file>>

(* Where the steps of Wait and Close move a goroutine: they take no message *)
(* in hand and leave every message where it is.                             *)
LEMMA WaitEffect ==
  ASSUME TypeOK, CallInv, NEW p \in Goroutines,
         \/ \E l \in Loggers, o \in {"wait", "close"} : WaitCall(p, l, o)
         \/ WaitTurnedAway(p) \/ WaitBegin(p) \/ WgWait(p) \/ WgReturn(p)
         \/ WgReusePanic(p) \/ WaitEnd(p) \/ CloseLog(p)
  PROVE  /\ pc[p] \in {"idle", "wait", "wg", "woken", "end", "close"}
         /\ \E x \in {"idle", "wait", "wg", "parked", "end", "close", "panicked", "panickedInWait"} :
              pc' = [pc EXCEPT ![p] = x]
         /\ msg' = msg
         /\ UNCHANGED messageVars
<1> USE DEF messageVars
<1>1. CASE WaitTurnedAway(p) \/ WaitEnd(p)
  <2>1. pc[p] \in {"wait", "end"} /\ ReturnFromWait(p)
    BY <1>1 DEF WaitTurnedAway, WaitEnd
  <2>2. \E x \in {"idle", "close", "panicked"} : pc' = [pc EXCEPT ![p] = x]
    BY <2>1, AfterWaitPc DEF ReturnFromWait, CallInv, TypeOK
  <2>3. msg' = msg /\ UNCHANGED <<st, to, fate, tologCh, sent, file>>
    BY <1>1 DEF WaitTurnedAway, WaitEnd, chanVars, fileVars
  <2> QED
    BY <2>1, <2>2, <2>3
<1>2. CASE \E l \in Loggers, o \in {"wait", "close"} : WaitCall(p, l, o)
  BY <1>2 DEF WaitCall, chanVars, fileVars
<1>3. CASE WaitBegin(p)
  BY <1>3 DEF WaitBegin, chanVars, fileVars
<1>4. CASE WgWait(p)
  BY <1>4 DEF WgWait, chanVars, fileVars
<1>5. CASE WgReturn(p) \/ WgReusePanic(p)
  BY <1>5 DEF WgReturn, WgReusePanic, chanVars, fileVars
<1>6. CASE CloseLog(p)
  BY <1>6 DEF CloseLog, chanVars, fileVars
<1> QED
  BY <1>1, <1>2, <1>3, <1>4, <1>5, <1>6

(* A thread that releases the waiters, or panics instead, lets go of its    *)
(* message and wakes goroutines that have none.                             *)
LEMMA ReleaseEffect ==
  ASSUME TypeOK, NEW t \in Threads, Release(t) \/ ReleasePanic(t) \/ ReleaseReset(t)
  PROVE  /\ pc[t] = "release"
         /\ pc'[t] \in {"recv", "idle", "wait", "panicked"}
         /\ \A q \in Threads \ {t} : pc'[q] = pc[q] \/ (pc[q] = "parked" /\ pc'[q] = "woken")
         /\ msg' = [msg EXCEPT ![t] = None]
         /\ UNCHANGED messageVars
<1> USE PipelineAssumption DEF messageVars, Threads
<1>1. msg' = [msg EXCEPT ![t] = None] /\ pc[t] = "release"
  BY DEF Release, ReleasePanic, ReleaseReset
<1>2. UNCHANGED <<st, to, fate, tologCh, sent, file>>
  BY DEF Release, ReleasePanic, ReleaseReset, chanVars, fileVars
<1>3. CASE Release(t) \/ ReleaseReset(t)
  <2>1. AfterDone(t) \in {"recv", "idle", "wait"}
    BY DEF AfterDone, AfterPrint
  <2>2. PICK l : pc' = Released(l, t, AfterDone(t))
    BY <1>3 DEF Release, ReleaseReset
  <2>3. \A q \in Threads : pc'[q] = IF q \in Parked(l) THEN "woken"
                                    ELSE IF q = t THEN AfterDone(t) ELSE pc[q]
    BY <2>2 DEF Released
  <2>4. \A q \in Parked(l) : pc[q] = "parked"
    BY DEF Parked
  <2> QED
    BY <1>1, <1>2, <2>1, <2>3, <2>4
<1>4. CASE ReleasePanic(t)
  <2>1. pc' = [pc EXCEPT ![t] = "panicked"]
    BY <1>4 DEF ReleasePanic
  <2> QED
    BY <1>1, <1>2, <2>1 DEF TypeOK
<1> QED
  BY <1>3, <1>4

(* print's Add counts the message in hand, and moves no message. *)
LEMMA AddEffect ==
  ASSUME TypeOK, HandInv, NEW p \in Goroutines, PrintAdd(p)
  PROVE  /\ pc[p] = "add" /\ msg[p] \in Msgs
         /\ pc'[p] \in {"send", "panicked"}
         /\ \A q \in Threads \ {p} : pc'[q] = pc[q] \/ (pc[q] = "parked" /\ pc'[q] = "woken")
         /\ st' = [st EXCEPT ![msg[p]] = "pending"]
         /\ msg' = msg
         /\ UNCHANGED <<to, fate, tologCh, sent, file>>
<1> USE PipelineAssumption DEF Threads
<1> DEFINE l == to[msg[p]]
<1>1. pc[p] = "add" /\ msg[p] \in Msgs
  BY DEF PrintAdd, HandInv, TypeOK
<1>2. /\ st' = [st EXCEPT ![msg[p]] = "pending"]
      /\ msg' = msg
      /\ UNCHANGED <<to, fate, tologCh, sent, file>>
  BY DEF PrintAdd, chanVars, fileVars
<1>3. CASE pc' = Released(l, p, "send")
  <2>1. \A q \in Threads : pc'[q] = IF q \in Parked(l) THEN "woken"
                                    ELSE IF q = p THEN "send" ELSE pc[q]
    BY <1>3 DEF Released
  <2>2. \A q \in Parked(l) : pc[q] = "parked"
    BY DEF Parked
  <2> QED
    BY <1>1, <1>2, <2>1, <2>2
<1>4. CASE \E x \in {"send", "panicked"} : pc' = [pc EXCEPT ![p] = x]
  BY <1>1, <1>2, <1>4 DEF TypeOK
<1> QED
  BY <1>3, <1>4 DEF PrintAdd

(* Every pending message is on the channel or in a hand: print and the      *)
(* consumer let go of a message only by sending it or calling Done for it.  *)
LEMMA HeldStep ==
  ASSUME TypeOK, CallInv, HandInv, HeldInv, [Next]_vars
  PROVE  HeldInv'
<1> USE PipelineAssumption DEF Threads, HeldInv
<1>t. /\ pc \in [Threads -> GoroutinePc \cup ConsumerPc]
      /\ msg \in [Threads -> Msgs \cup {None}]
      /\ st \in [Msgs -> {"new", "called", "pending", "settled"}]
      /\ tologCh \in Seq(Msgs)
  BY DEF TypeOK
<1>1. ASSUME NEW p \in Goroutines, NEW l \in Loggers, NEW m \in Msgs, NEW o \in {"none", "fatal"}, PrintCall(p, l, m, o)
      PROVE  HeldInv'
  <2>1. pc[p] = "idle" /\ st[m] = "new" /\ tologCh' = tologCh
    BY <1>1 DEF PrintCall, chanVars
  <2>2. msg[p] = None
    BY <2>1
  <2>3. \A t \in Threads : msg[t] # None => msg[t] # m
    BY <2>1 DEF HandInv
  <2>4. CASE waitStarted[l]
    <3>1. /\ \E x \in {"idle", "wait"} : pc' = [pc EXCEPT ![p] = x]
          /\ st' = [st EXCEPT ![m] = "settled"] /\ msg' = msg
      BY <1>1, <2>4 DEF PrintCall, AfterPrint
    <3> QED
      BY <1>t, <2>1, <2>2, <2>3, <3>1
  <2>5. CASE ~waitStarted[l]
    <3>1. /\ pc' = [pc EXCEPT ![p] = "add"]
          /\ st' = [st EXCEPT ![m] = "called"] /\ msg' = [msg EXCEPT ![p] = m]
      BY <1>1, <2>5 DEF PrintCall
    <3>2. \A t \in Threads : msg[t] # None => msg'[t] = msg[t]
      BY <1>t, <2>2, <3>1
    <3> QED
      BY <1>t, <2>1, <2>3, <3>1, <3>2
  <2> QED
    BY <2>4, <2>5
<1>2. ASSUME NEW p \in Goroutines, PrintAdd(p)
      PROVE  HeldInv'
  <2>1. /\ pc[p] = "add" /\ msg[p] \in Msgs
        /\ pc'[p] \in {"send", "panicked"}
        /\ \A q \in Threads \ {p} : pc'[q] = pc[q] \/ (pc[q] = "parked" /\ pc'[q] = "woken")
        /\ st' = [st EXCEPT ![msg[p]] = "pending"]
        /\ msg' = msg /\ tologCh' = tologCh
    BY <1>2, AddEffect
  <2>2. \A q \in Threads \ {p} : msg[q] # msg[p]
    BY <2>1 DEF HandInv
  <2>3. \A q \in Threads : pc'[q] = "release" => q # p /\ pc[q] = "release"
    BY <2>1
  <2>4. \A q \in Threads : pc'[q] = "release" => msg'[q] # None /\ st'[msg'[q]] = "settled"
    BY <1>t, <2>1, <2>2, <2>3
  <2>5. \A n \in Msgs : st'[n] = "pending" => n = msg[p] \/ st[n] = "pending"
    BY <1>t, <2>1
  <2> QED
    BY <2>1, <2>4, <2>5
<1>3. ASSUME NEW p \in Goroutines, PrintSend(p)
      PROVE  HeldInv'
  <2>1. /\ pc[p] = "send" /\ msg[p] \in Msgs
        /\ tologCh' = Append(tologCh, msg[p])
        /\ \E x \in {"idle", "wait"} : pc' = [pc EXCEPT ![p] = x]
        /\ msg' = [msg EXCEPT ![p] = None]
        /\ st' = st
    <3>1. pc[p] = "send" /\ msg[p] \in Msgs
      BY <1>3, <1>t DEF PrintSend, HandInv
    <3>2. AfterPrint(op[p]) \in {"idle", "wait"}
      BY DEF AfterPrint
    <3> QED
      BY <1>3, <3>1, <3>2 DEF PrintSend
  <2>2. /\ Len(tologCh') = Len(tologCh) + 1
        /\ \A i \in 1..Len(tologCh) : tologCh'[i] = tologCh[i] /\ i \in 1..Len(tologCh')
        /\ tologCh'[Len(tologCh')] = msg[p] /\ Len(tologCh') \in 1..Len(tologCh')
    BY <1>t, <2>1
  <2>3. \A t \in Threads : msg'[t] # None => t # p /\ msg'[t] = msg[t] /\ pc'[t] = pc[t]
    BY <1>t, <2>1
  <2>4. \A m \in Msgs, t \in Threads : msg[t] = m => m = msg[p] \/ msg'[t] = m
    BY <1>t, <2>1
  <2>5. \A t \in Threads : pc'[t] = "release" => t # p /\ pc[t] = "release"
    BY <1>t, <2>1
  <2>6. \A m \in Msgs : st'[m] = "pending" =>
          \/ \E i \in 1..Len(tologCh') : tologCh'[i] = m
          \/ \E t \in Threads : msg'[t] = m
    BY <2>1, <2>2, <2>4
  <2>7. \A t \in Threads : t # p => msg'[t] = msg[t]
    BY <1>t, <2>1
  <2> QED
    BY <2>1, <2>3, <2>5, <2>6, <2>7
<1>4. ASSUME NEW p \in Goroutines, PrintDrop(p)
      PROVE  HeldInv'
  BY <1>4, <1>t DEF PrintDrop
<1>5. ASSUME NEW t \in Threads, Done(t)
      PROVE  HeldInv'
  <2> DEFINE m == msg[t]
  <2>1. /\ pc[t] = "done" /\ m \in Msgs /\ tologCh' = tologCh
        /\ st' = [st EXCEPT ![m] = "settled"]
    BY <1>5, <1>t DEF Done, chanVars, HandInv
  <2>2. \/ pc' = [pc EXCEPT ![t] = "release"] /\ msg' = msg
        \/ /\ \E x \in {"panicked", "recv", "idle", "wait"} : pc' = [pc EXCEPT ![t] = x]
           /\ msg' = [msg EXCEPT ![t] = None]
    BY <1>5 DEF Done, AfterDone, AfterPrint
  <2>3. \A q \in Threads \ {t} : msg'[q] = msg[q] /\ pc'[q] = pc[q]
    BY <1>t, <2>2
  <2>4. \A n \in Msgs \ {m} : st'[n] = st[n]
    BY <1>t, <2>1
  <2>5. st'[m] = "settled"
    BY <1>t, <2>1
  <2>6. ASSUME NEW q \in Threads, pc'[q] = "release"
        PROVE  msg'[q] # None /\ st'[msg'[q]] = "settled"
    <3>1. CASE q = t
      BY <1>t, <2>1, <2>2, <2>5, <2>6, <3>1
    <3>2. CASE q # t
      <4>1. msg'[q] = msg[q] /\ msg[q] \in Msgs /\ st[msg[q]] = "settled"
        BY <1>t, <2>3, <2>6, <3>2
      <4> QED
        BY <1>t, <2>4, <2>5, <4>1
    <3> QED
      BY <3>1, <3>2
  <2>7. ASSUME NEW q \in Threads, msg'[q] # None
        PROVE  pc'[q] \in {"add", "send", "done", "release", "open", "write", "panicked"}
    BY <1>t, <2>2, <2>3, <2>7
  <2>8. ASSUME NEW n \in Msgs, st'[n] = "pending"
        PROVE  \/ \E i \in 1..Len(tologCh) : tologCh[i] = n
               \/ \E q \in Threads : msg'[q] = n
    <3>1. n # m /\ st[n] = "pending"
      BY <2>4, <2>5, <2>8
    <3> QED
      BY <2>3, <3>1
  <2> QED
    BY <2>1, <2>6, <2>7, <2>8
<1>6. ASSUME NEW t \in Threads, Release(t) \/ ReleasePanic(t) \/ ReleaseReset(t)
      PROVE  HeldInv'
  <2>1. \A q \in Threads : msg'[q] = IF q = t THEN None ELSE msg[q]
    BY <1>6, <1>t, ReleaseEffect
  <2>2. st' = st /\ tologCh' = tologCh
    BY <1>6, ReleaseEffect DEF messageVars
  <2>3. st[msg[t]] = "settled"
    BY <1>6, ReleaseEffect
  <2> QED
    BY <1>6, <1>t, <2>1, <2>2, <2>3, ReleaseEffect
<1>7. ASSUME Receive
      PROVE  HeldInv'
  <2>1. /\ pc[Consumer] = "recv" /\ tologCh # <<>> /\ tologCh' = Tail(tologCh)
        /\ msg' = [msg EXCEPT ![Consumer] = tologCh[1]]
        /\ pc' = [pc EXCEPT ![Consumer] = "open"]
        /\ st' = st
    BY <1>7 DEF Receive
  <2>2. \A i \in 1..Len(tologCh) : i = 1 \/ (i - 1 \in 1..Len(tologCh') /\ tologCh'[i - 1] = tologCh[i])
    BY <1>t, <2>1
  <2>3. msg[Consumer] = None
    BY <2>1
  <2>4. \A t \in Threads : msg[t] # None => msg'[t] = msg[t]
    BY <1>t, <2>1, <2>3
  <2>5. \A m \in Msgs : st'[m] = "pending" =>
          \/ \E i \in 1..Len(tologCh') : tologCh'[i] = m
          \/ \E t \in Threads : msg'[t] = m
    <3> SUFFICES ASSUME NEW m \in Msgs, st[m] = "pending"
                 PROVE  \/ \E i \in 1..Len(tologCh') : tologCh'[i] = m
                        \/ \E t \in Threads : msg'[t] = m
      BY <2>1
    <3>1. CASE \E t \in Threads : msg[t] = m
      BY <2>4, <3>1
    <3>2. CASE \E i \in 1..Len(tologCh) : tologCh[i] = m
      <4>1. PICK i \in 1..Len(tologCh) : tologCh[i] = m
        BY <3>2
      <4>2. CASE i = 1
        BY <1>t, <2>1, <4>1, <4>2
      <4>3. CASE i # 1
        BY <2>2, <4>1, <4>3
      <4> QED
        BY <4>2, <4>3
    <3> QED
      BY <3>1, <3>2
  <2> QED
    BY <1>t, <2>1, <2>5
<1>8. CASE OpenLog \/ OpenFails \/ WriteLog \/ WriteFails
  <2>1. /\ \E x \in {"write", "done"} : pc' = [pc EXCEPT ![Consumer] = x]
        /\ msg' = msg /\ st' = st /\ tologCh' = tologCh
    BY <1>8 DEF OpenLog, OpenFails, WriteLog, WriteFails, chanVars
  <2> QED
    BY <1>t, <2>1
<1>9. ASSUME NEW p \in Goroutines,
             \/ \E l \in Loggers, o \in {"wait", "close"} : WaitCall(p, l, o)
             \/ WaitTurnedAway(p) \/ WaitBegin(p) \/ WgWait(p) \/ WgReturn(p)
             \/ WgReusePanic(p) \/ WaitEnd(p) \/ CloseLog(p)
      PROVE  HeldInv'
  <2>1. /\ pc[p] \in {"idle", "wait", "wg", "woken", "end", "close"}
        /\ \E x \in {"idle", "wait", "wg", "parked", "end", "close", "panicked", "panickedInWait"} :
             pc' = [pc EXCEPT ![p] = x]
        /\ msg' = msg /\ st' = st /\ tologCh' = tologCh
    BY <1>9, WaitEffect DEF messageVars
  <2> QED
    BY <1>t, <2>1
<1>10. CASE UNCHANGED vars
  BY <1>10 DEF vars, chanVars
<1> HIDE DEF Threads, HeldInv
<1> QED
  BY <1>1, <1>2, <1>3, <1>4, <1>5, <1>6, <1>7, <1>8, <1>9, <1>10
  DEF Next, ConsumerStep, WgDoneStep, CallStep, Calls

(* A step that neither sends nor takes a message, and leaves the consumer's *)
(* hand alone, keeps what SentInv says.                                     *)
LEMMA SentCalm ==
  ASSUME TypeOK, SentInv, sent' = sent, tologCh' = tologCh,
         pc'[Consumer] \in {"open", "write"} <=> pc[Consumer] \in {"open", "write"},
         pc[Consumer] \in {"open", "write"} => msg'[Consumer] = msg[Consumer],
         \A i \in 1..Len(sent) : st'[sent[i]] \in {"pending", "settled"},
         \A t \in Threads : pc'[t] \in {"add", "send"} =>
           \A i \in 1..Len(sent) : sent[i] # msg'[t]
  PROVE  SentInv' /\ Handled' = Handled
<1>1. Taken' = Taken /\ Handled' = Handled
  BY DEF Taken, Handled
<1> QED
  BY <1>1 DEF SentInv

(* The channel is the part of sent that the consumer has not taken.         *)
LEMMA SentStep ==
  ASSUME TypeOK, CallInv, HandInv, ChanInv, HeldInv, SentInv, [Next]_vars
  PROVE  SentInv'
<1> USE PipelineAssumption DEF Threads
<1>t. /\ pc \in [Threads -> GoroutinePc \cup ConsumerPc]
      /\ msg \in [Threads -> Msgs \cup {None}]
      /\ st \in [Msgs -> {"new", "called", "pending", "settled"}]
      /\ tologCh \in Seq(Msgs) /\ sent \in Seq(Msgs)
  BY DEF TypeOK
<1>s. /\ \A i \in 1..Len(sent) : sent[i] \in Msgs /\ st[sent[i]] \in {"pending", "settled"}
      /\ \A t \in Threads : pc[t] \in {"add", "send"} =>
           \A i \in 1..Len(sent) : sent[i] # msg[t]
  BY <1>t DEF SentInv
<1>1. ASSUME NEW p \in Goroutines, NEW l \in Loggers, NEW m \in Msgs, NEW o \in {"none", "fatal"}, PrintCall(p, l, m, o)
      PROVE  SentInv'
  <2>1. st[m] = "new" /\ tologCh' = tologCh /\ sent' = sent
    BY <1>1 DEF PrintCall, chanVars
  <2>2. /\ \/ /\ \E x \in {"idle", "wait"} : pc' = [pc EXCEPT ![p] = x]
              /\ msg' = msg
           \/ pc' = [pc EXCEPT ![p] = "add"] /\ msg' = [msg EXCEPT ![p] = m]
        /\ \E x \in {"settled", "called"} : st' = [st EXCEPT ![m] = x]
    BY <1>1 DEF PrintCall, AfterPrint
  <2>3. \A i \in 1..Len(sent) : sent[i] # m
    BY <1>s, <2>1
  <2>4. \A i \in 1..Len(sent) : st'[sent[i]] \in {"pending", "settled"}
    BY <1>s, <1>t, <2>2, <2>3
  <2>5. \A t \in Threads : pc'[t] \in {"add", "send"} =>
          (t = p /\ msg'[t] = m) \/ (pc[t] \in {"add", "send"} /\ msg'[t] = msg[t])
    BY <1>t, <2>2
  <2>6. \A t \in Threads : pc'[t] \in {"add", "send"} => \A i \in 1..Len(sent) : sent[i] # msg'[t]
    BY <1>s, <2>3, <2>5
  <2>7. pc'[Consumer] = pc[Consumer] /\ msg'[Consumer] = msg[Consumer]
    BY <1>t, <2>2
  <2> QED
    BY <2>1, <2>4, <2>6, <2>7, SentCalm
<1>2. ASSUME NEW p \in Goroutines, PrintAdd(p)
      PROVE  SentInv'
  <2>1. /\ pc[p] = "add" /\ msg[p] \in Msgs
        /\ pc'[p] \in {"send", "panicked"}
        /\ \A q \in Threads \ {p} : pc'[q] = pc[q] \/ (pc[q] = "parked" /\ pc'[q] = "woken")
        /\ st' = [st EXCEPT ![msg[p]] = "pending"]
        /\ msg' = msg /\ tologCh' = tologCh /\ sent' = sent
    BY <1>2, AddEffect
  <2>2. \A i \in 1..Len(sent) : st'[sent[i]] \in {"pending", "settled"}
    BY <1>s, <1>t, <2>1
  <2>3. \A t \in Threads : pc'[t] \in {"add", "send"} => pc[t] \in {"add", "send"}
    BY <2>1
  <2>4. pc'[Consumer] \in {"open", "write"} <=> pc[Consumer] \in {"open", "write"}
    BY <2>1
  <2> QED
    BY <1>s, <2>1, <2>2, <2>3, <2>4, SentCalm
<1>3. ASSUME NEW p \in Goroutines, PrintSend(p)
      PROVE  SentInv'
  <2>1. /\ pc[p] = "send"
        /\ tologCh' = Append(tologCh, msg[p])
        /\ sent' = Append(sent, msg[p])
        /\ msg' = [msg EXCEPT ![p] = None]
        /\ st' = st
    BY <1>3 DEF PrintSend
  <2>2. \E x \in {"idle", "wait"} : pc' = [pc EXCEPT ![p] = x]
    BY <1>3 DEF PrintSend, AfterPrint
  <2>3. msg[p] \in Msgs /\ st[msg[p]] = "pending"
    BY <1>t, <2>1 DEF HandInv
  <2>4. /\ Len(sent') = Len(sent) + 1 /\ Len(tologCh') = Len(tologCh) + 1
        /\ \A i \in 1..Len(sent) : sent'[i] = sent[i]
        /\ sent'[Len(sent) + 1] = msg[p]
        /\ \A i \in 1..Len(tologCh) : tologCh'[i] = tologCh[i]
        /\ tologCh'[Len(tologCh) + 1] = msg[p]
    BY <1>t, <2>1, <2>3
  <2>5. pc'[Consumer] = pc[Consumer] /\ msg'[Consumer] = msg[Consumer]
    BY <1>t, <2>1, <2>2
  <2>6. Taken' = Taken /\ Handled' = Handled
    <3>1. Len(sent) \in Nat /\ Len(tologCh) \in Nat
      BY <1>t
    <3> QED
      BY <2>4, <2>5, <3>1 DEF Taken, Handled
  <2>7. \A i \in 1..Len(sent') : i \in 1..Len(sent) \/ i = Len(sent) + 1
    BY <1>t, <2>4
  <2>8. Handled' \in Nat
    BY <2>6 DEF SentInv
  <2>9. \A i \in 1..Len(tologCh') : tologCh'[i] = sent'[Taken' + i]
    <3> SUFFICES ASSUME NEW i \in 1..Len(tologCh')
                 PROVE  tologCh'[i] = sent'[Taken + i]
      BY <2>6
    <3>1. Len(sent) \in Nat /\ Len(tologCh) \in Nat /\ Taken = Len(sent) - Len(tologCh) /\ Taken \in Nat
      BY <1>t DEF Taken, SentInv, Handled
    <3>2. CASE i = Len(tologCh) + 1
      BY <2>4, <3>1, <3>2
    <3>3. CASE i # Len(tologCh) + 1
      <4>1. i \in 1..Len(tologCh) /\ Taken + i \in 1..Len(sent)
        BY <2>4, <3>1, <3>3
      <4> QED
        BY <2>4, <4>1 DEF SentInv
    <3> QED
      BY <3>2, <3>3
  <2>10. \A i, j \in 1..Len(sent') : sent'[i] = sent'[j] => i = j
    BY <1>s, <2>1, <2>4, <2>7 DEF SentInv
  <2>11. \A i \in 1..Len(sent') : st'[sent'[i]] \in {"pending", "settled"}
    BY <1>s, <2>1, <2>3, <2>4, <2>7
  <2>12. \A t \in Threads : pc'[t] \in {"add", "send"} =>
           \A i \in 1..Len(sent') : sent'[i] # msg'[t]
    <3>1. \A t \in Threads : pc'[t] \in {"add", "send"} =>
            t # p /\ pc[t] \in {"add", "send"} /\ msg'[t] = msg[t]
      BY <1>t, <2>1, <2>2
    <3>2. \A t \in Threads : t # p => msg[t] # msg[p]
      BY <2>3 DEF HandInv
    <3> QED
      BY <1>s, <2>4, <2>7, <3>1, <3>2
  <2>13. pc'[Consumer] \in {"open", "write"} => sent'[Taken'] = msg'[Consumer]
    <3> SUFFICES ASSUME pc[Consumer] \in {"open", "write"}
                 PROVE  sent'[Taken] = msg[Consumer]
      BY <2>5, <2>6
    <3>1. Taken \in 1..Len(sent) /\ sent[Taken] = msg[Consumer]
      BY <1>t DEF SentInv, Handled, Taken
    <3> QED
      BY <2>4, <3>1
  <2> QED
    BY <2>8, <2>9, <2>10, <2>11, <2>12, <2>13 DEF SentInv
<1>4. ASSUME NEW p \in Goroutines, PrintDrop(p)
      PROVE  SentInv'
  <2>1. /\ pc' = [pc EXCEPT ![p] = "done"] /\ msg' = msg /\ st' = st
        /\ tologCh' = tologCh /\ sent' = sent
    BY <1>4 DEF PrintDrop
  <2>2. pc'[Consumer] = pc[Consumer]
    BY <1>t, <2>1
  <2>3. \A t \in Threads : pc'[t] \in {"add", "send"} => pc[t] \in {"add", "send"}
    BY <1>t, <2>1
  <2> QED
    BY <1>s, <2>1, <2>2, <2>3, SentCalm
<1>5. ASSUME NEW t \in Threads, Done(t)
      PROVE  SentInv'
  <2>1. /\ pc[t] = "done" /\ tologCh' = tologCh /\ sent' = sent
        /\ st' = [st EXCEPT ![msg[t]] = "settled"]
    BY <1>5 DEF Done, chanVars
  <2>2. /\ \E x \in {"release", "panicked", "recv", "idle", "wait"} : pc' = [pc EXCEPT ![t] = x]
        /\ msg' \in {msg, [msg EXCEPT ![t] = None]}
    BY <1>5 DEF Done, AfterDone, AfterPrint
  <2>3. \A i \in 1..Len(sent) : st'[sent[i]] \in {"pending", "settled"}
    BY <1>s, <1>t, <2>1
  <2>4. \A q \in Threads : pc'[q] \in {"add", "send"} => pc[q] \in {"add", "send"} /\ msg'[q] = msg[q]
    BY <1>t, <2>2
  <2>5. /\ pc'[Consumer] \in {"open", "write"} <=> pc[Consumer] \in {"open", "write"}
        /\ pc[Consumer] \in {"open", "write"} => msg'[Consumer] = msg[Consumer]
    BY <1>t, <2>1, <2>2
  <2> QED
    BY <1>s, <2>1, <2>3, <2>4, <2>5, SentCalm
<1>6. ASSUME NEW t \in Threads, Release(t) \/ ReleasePanic(t) \/ ReleaseReset(t)
      PROVE  SentInv'
  <2>1. /\ pc[t] = "release"
        /\ pc'[t] \in {"recv", "idle", "wait", "panicked"}
        /\ \A q \in Threads \ {t} : pc'[q] = pc[q] \/ (pc[q] = "parked" /\ pc'[q] = "woken")
        /\ msg' = [msg EXCEPT ![t] = None]
        /\ st' = st /\ tologCh' = tologCh /\ sent' = sent
    BY <1>6, ReleaseEffect DEF messageVars
  <2>2. \A q \in Threads : pc'[q] \in {"add", "send"} => pc[q] \in {"add", "send"} /\ msg'[q] = msg[q]
    BY <1>t, <2>1
  <2>3. /\ pc'[Consumer] \in {"open", "write"} <=> pc[Consumer] \in {"open", "write"}
        /\ pc[Consumer] \in {"open", "write"} => msg'[Consumer] = msg[Consumer]
    BY <1>t, <2>1
  <2> QED
    BY <1>s, <2>1, <2>2, <2>3, SentCalm
<1>7. ASSUME Receive
      PROVE  SentInv'
  <2>1. /\ pc[Consumer] = "recv" /\ tologCh # <<>> /\ tologCh' = Tail(tologCh)
        /\ msg' = [msg EXCEPT ![Consumer] = tologCh[1]]
        /\ pc' = [pc EXCEPT ![Consumer] = "open"]
        /\ st' = st /\ sent' = sent
    BY <1>7 DEF Receive
  <2>2. /\ Len(tologCh) \in Nat \ {0} /\ Len(sent) \in Nat
        /\ Len(tologCh') = Len(tologCh) - 1
        /\ \A i \in 1..Len(tologCh') : tologCh'[i] = tologCh[i + 1]
    BY <1>t, <2>1
  <2>3. pc'[Consumer] = "open" /\ msg'[Consumer] = tologCh[1]
    BY <1>t, <2>1
  <2>4. Taken \in Nat /\ Taken' = Taken + 1 /\ Handled' = Taken
    BY <2>1, <2>2, <2>3 DEF Taken, Handled, SentInv
  <2>5. \A i \in 1..Len(tologCh') : tologCh'[i] = sent'[Taken' + i]
    <3> SUFFICES ASSUME NEW i \in 1..Len(tologCh')
                 PROVE  tologCh[i + 1] = sent[Taken + 1 + i]
      BY <2>1, <2>2, <2>4
    <3>1. i + 1 \in 1..Len(tologCh) /\ Taken + (i + 1) = Taken + 1 + i
      BY <2>2, <2>4
    <3>2. tologCh[i + 1] = sent[Taken + (i + 1)]
      BY <3>1 DEF SentInv
    <3> QED
      BY <3>1, <3>2
  <2>6. \A t \in Threads : pc'[t] \in {"add", "send"} =>
          \A i \in 1..Len(sent') : sent'[i] # msg'[t]
    BY <1>s, <1>t, <2>1
  <2>7. sent'[Taken'] = msg'[Consumer]
    <3>1. 1 \in 1..Len(tologCh)
      BY <2>2
    <3>2. tologCh[1] = sent[Taken + 1]
      BY <3>1 DEF SentInv
    <3> QED
      BY <2>1, <2>3, <2>4, <3>2
  <2>8. /\ Handled' \in Nat
        /\ \A i, j \in 1..Len(sent') : sent'[i] = sent'[j] => i = j
        /\ \A i \in 1..Len(sent') : st'[sent'[i]] \in {"pending", "settled"}
    BY <2>1, <2>4 DEF SentInv
  <2> QED
    BY <2>5, <2>6, <2>7, <2>8 DEF SentInv
<1>8. CASE OpenLog
  <2>1. /\ pc[Consumer] = "open" /\ pc' = [pc EXCEPT ![Consumer] = "write"]
        /\ msg' = msg /\ st' = st /\ tologCh' = tologCh /\ sent' = sent
    BY <1>8 DEF OpenLog, chanVars
  <2>2. pc'[Consumer] = "write" /\ \A t \in Threads : pc'[t] \in {"add", "send"} => pc[t] \in {"add", "send"}
    BY <1>t, <2>1
  <2> QED
    BY <1>s, <2>1, <2>2, SentCalm
<1>9. CASE OpenFails \/ WriteLog \/ WriteFails
  <2>1. /\ pc[Consumer] \in {"open", "write"} /\ pc' = [pc EXCEPT ![Consumer] = "done"]
        /\ msg' = msg /\ st' = st /\ tologCh' = tologCh /\ sent' = sent
    BY <1>9 DEF OpenFails, WriteLog, WriteFails, chanVars
  <2>2. pc'[Consumer] = "done" /\ \A t \in Threads : pc'[t] \in {"add", "send"} => pc[t] \in {"add", "send"}
    BY <1>t, <2>1
  <2>3. Len(sent) \in Nat /\ Len(tologCh) \in Nat
    BY <1>t
  <2>4. Taken' = Taken /\ Handled' \in Nat
    BY <2>1, <2>2, <2>3 DEF Taken, Handled, SentInv
  <2> QED
    BY <1>s, <2>1, <2>2, <2>4 DEF SentInv
<1>10. ASSUME NEW p \in Goroutines,
             \/ \E l \in Loggers, o \in {"wait", "close"} : WaitCall(p, l, o)
             \/ WaitTurnedAway(p) \/ WaitBegin(p) \/ WgWait(p) \/ WgReturn(p)
             \/ WgReusePanic(p) \/ WaitEnd(p) \/ CloseLog(p)
      PROVE  SentInv'
  <2>1. /\ \E x \in {"idle", "wait", "wg", "parked", "end", "close", "panicked", "panickedInWait"} :
             pc' = [pc EXCEPT ![p] = x]
        /\ msg' = msg /\ st' = st /\ tologCh' = tologCh /\ sent' = sent
    BY <1>10, WaitEffect DEF messageVars
  <2>2. /\ \A t \in Threads : pc'[t] \in {"add", "send"} => pc[t] \in {"add", "send"}
        /\ pc'[Consumer] = pc[Consumer]
    BY <1>t, <2>1
  <2> QED
    BY <1>s, <2>1, <2>2, SentCalm
<1>11. CASE UNCHANGED vars
  BY <1>s, <1>11, SentCalm DEF vars, chanVars
<1> HIDE DEF Threads
<1> QED
  BY <1>1, <1>2, <1>3, <1>4, <1>5, <1>6, <1>7, <1>8, <1>9, <1>10, <1>11
  DEF Next, ConsumerStep, WgDoneStep, CallStep, Calls

(* A message on the channel, or on its way there or to its file, has no     *)
(* fate yet.                                                                *)
LEMMA FateStep ==
  ASSUME TypeOK, CallInv, HandInv, ChanInv, FateInv, [Next]_vars
  PROVE  FateInv'
<1> USE PipelineAssumption DEF Threads
<1>t. /\ pc \in [Threads -> GoroutinePc \cup ConsumerPc]
      /\ msg \in [Threads -> Msgs \cup {None}]
      /\ st \in [Msgs -> {"new", "called", "pending", "settled"}]
      /\ fate \in [Msgs -> {"none", "muted", "dropped", "skipped", "lost", "written"}]
      /\ tologCh \in Seq(Msgs)
  BY DEF TypeOK
<1>f. /\ \A m \in Msgs : st[m] \in {"new", "called"} => fate[m] = "none"
      /\ \A i \in 1..Len(tologCh) : tologCh[i] \in Msgs /\ fate[tologCh[i]] = "none"
      /\ \A t \in Threads : pc[t] \in {"send", "open", "write"} => fate[msg[t]] = "none"
  BY <1>t DEF FateInv
<1>h. /\ \A i \in 1..Len(tologCh) : st[tologCh[i]] = "pending"
      /\ \A t \in Threads : pc[t] \in {"send", "open", "write", "done"} =>
           msg[t] \in Msgs /\ st[msg[t]] = "pending"
  BY <1>t DEF HandInv, ChanInv
<1>1. ASSUME NEW p \in Goroutines, NEW l \in Loggers, NEW m \in Msgs, NEW o \in {"none", "fatal"}, PrintCall(p, l, m, o)
      PROVE  FateInv'
  <2>1. pc[p] = "idle" /\ st[m] = "new" /\ tologCh' = tologCh
    BY <1>1 DEF PrintCall, chanVars
  <2>2. CASE waitStarted[l]
    <3>1. /\ \E x \in {"idle", "wait"} : pc' = [pc EXCEPT ![p] = x]
          /\ st' = [st EXCEPT ![m] = "settled"] /\ msg' = msg
          /\ fate' = [fate EXCEPT ![m] = "muted"]
      BY <1>1, <2>2 DEF PrintCall, AfterPrint
    <3>2. \A n \in Msgs : n # m => fate'[n] = fate[n] /\ st'[n] = st[n]
      BY <1>t, <3>1
    <3>3. st'[m] = "settled"
      BY <1>t, <3>1
    <3>4. \A t \in Threads : pc'[t] \in {"send", "open", "write"} => pc[t] = pc'[t]
      BY <1>t, <3>1
    <3> QED
      BY <1>f, <1>h, <2>1, <3>1, <3>2, <3>3, <3>4 DEF FateInv
  <2>3. CASE ~waitStarted[l]
    <3>1. /\ pc' = [pc EXCEPT ![p] = "add"] /\ fate' = fate
          /\ st' = [st EXCEPT ![m] = "called"] /\ msg' = [msg EXCEPT ![p] = m]
      BY <1>1, <2>3 DEF PrintCall
    <3>2. \A n \in Msgs : st'[n] \in {"new", "called"} => st[n] \in {"new", "called"}
      BY <1>t, <2>1, <3>1
    <3>3. \A t \in Threads : pc'[t] \in {"send", "open", "write"} => pc[t] = pc'[t] /\ msg'[t] = msg[t]
      BY <1>t, <3>1
    <3> QED
      BY <1>f, <2>1, <3>1, <3>2, <3>3 DEF FateInv
  <2> QED
    BY <2>2, <2>3
<1>2. ASSUME NEW p \in Goroutines, PrintAdd(p)
      PROVE  FateInv'
  <2>1. /\ pc[p] = "add" /\ msg[p] \in Msgs
        /\ pc'[p] \in {"send", "panicked"}
        /\ \A q \in Threads \ {p} : pc'[q] = pc[q] \/ (pc[q] = "parked" /\ pc'[q] = "woken")
        /\ st' = [st EXCEPT ![msg[p]] = "pending"]
        /\ msg' = msg /\ tologCh' = tologCh /\ fate' = fate
    BY <1>2, AddEffect
  <2>2. fate[msg[p]] = "none"
    BY <1>f, <2>1 DEF HandInv
  <2>3. \A n \in Msgs : st'[n] \in {"new", "called"} => st[n] \in {"new", "called"}
    BY <1>t, <2>1
  <2>4. \A t \in Threads : pc'[t] \in {"send", "open", "write"} => t = p \/ pc[t] = pc'[t]
    BY <2>1
  <2> QED
    BY <1>f, <2>1, <2>2, <2>3, <2>4 DEF FateInv
<1>3. ASSUME NEW p \in Goroutines, PrintSend(p)
      PROVE  FateInv'
  <2>1. /\ pc[p] = "send" /\ tologCh' = Append(tologCh, msg[p])
        /\ \E x \in {"idle", "wait"} : pc' = [pc EXCEPT ![p] = x]
        /\ msg' = [msg EXCEPT ![p] = None] /\ st' = st /\ fate' = fate
    BY <1>3 DEF PrintSend, AfterPrint
  <2>2. \A t \in Threads : pc'[t] \in {"send", "open", "write"} => pc[t] = pc'[t] /\ msg'[t] = msg[t]
    BY <1>t, <2>1
  <2>3. \A i \in 1..Len(tologCh') : tologCh'[i] = msg[p] \/ (i \in 1..Len(tologCh) /\ tologCh'[i] = tologCh[i])
    BY <1>t, <1>h, <2>1
  <2> QED
    BY <1>f, <2>1, <2>2, <2>3 DEF FateInv
<1>4. ASSUME NEW p \in Goroutines, PrintDrop(p)
      PROVE  FateInv'
  <2>1. /\ pc[p] = "send" /\ pc' = [pc EXCEPT ![p] = "done"]
        /\ msg' = msg /\ st' = st /\ tologCh' = tologCh
        /\ fate' = [fate EXCEPT ![msg[p]] = "dropped"]
    BY <1>4 DEF PrintDrop
  <2>2. \A n \in Msgs : n # msg[p] => fate'[n] = fate[n]
    BY <1>t, <1>h, <2>1
  <2>3. \A t \in Threads : pc'[t] \in {"send", "open", "write"} => pc[t] = pc'[t] /\ msg[t] # msg[p]
    BY <1>t, <1>h, <2>1 DEF HandInv
  <2> QED
    BY <1>f, <1>h, <2>1, <2>2, <2>3 DEF FateInv, ChanInv
<1>5. ASSUME NEW t \in Threads, Done(t)
      PROVE  FateInv'
  <2>1. /\ pc[t] = "done" /\ tologCh' = tologCh /\ fate' = fate
        /\ st' = [st EXCEPT ![msg[t]] = "settled"]
        /\ \E x \in {"release", "panicked", "recv", "idle", "wait"} : pc' = [pc EXCEPT ![t] = x]
        /\ msg' \in {msg, [msg EXCEPT ![t] = None]}
    BY <1>5 DEF Done, AfterDone, AfterPrint, chanVars
  <2>2. \A n \in Msgs : st'[n] \in {"new", "called"} => st[n] \in {"new", "called"}
    BY <1>t, <2>1
  <2>3. \A q \in Threads : pc'[q] \in {"send", "open", "write"} => pc[q] = pc'[q] /\ msg'[q] = msg[q]
    BY <1>t, <2>1
  <2> QED
    BY <1>f, <2>1, <2>2, <2>3 DEF FateInv
<1>6. ASSUME NEW t \in Threads, Release(t) \/ ReleasePanic(t) \/ ReleaseReset(t)
      PROVE  FateInv'
  <2>1. /\ pc'[t] \in {"recv", "idle", "wait", "panicked"}
        /\ \A q \in Threads \ {t} : pc'[q] = pc[q] \/ (pc[q] = "parked" /\ pc'[q] = "woken")
        /\ msg' = [msg EXCEPT ![t] = None]
        /\ st' = st /\ tologCh' = tologCh /\ fate' = fate
    BY <1>6, ReleaseEffect DEF messageVars
  <2>2. \A q \in Threads : pc'[q] \in {"send", "open", "write"} => pc[q] = pc'[q] /\ msg'[q] = msg[q]
    BY <1>t, <2>1
  <2> QED
    BY <1>f, <2>1, <2>2 DEF FateInv
<1>7. ASSUME Receive
      PROVE  FateInv'
  <2>1. /\ tologCh # <<>> /\ tologCh' = Tail(tologCh)
        /\ msg' = [msg EXCEPT ![Consumer] = tologCh[1]]
        /\ pc' = [pc EXCEPT ![Consumer] = "open"]
        /\ st' = st /\ fate' = fate
    BY <1>7 DEF Receive
  <2>2. /\ 1 \in 1..Len(tologCh)
        /\ \A i \in 1..Len(tologCh') : i + 1 \in 1..Len(tologCh) /\ tologCh'[i] = tologCh[i + 1]
    BY <1>t, <2>1
  <2>3. msg'[Consumer] = tologCh[1]
    BY <1>t, <2>1
  <2>4. \A q \in Threads : pc'[q] \in {"send", "open", "write"} =>
          q = Consumer \/ (pc[q] = pc'[q] /\ msg'[q] = msg[q])
    BY <1>t, <2>1
  <2> QED
    BY <1>f, <2>1, <2>2, <2>3, <2>4 DEF FateInv
<1>8. CASE OpenLog
  <2>1. /\ pc[Consumer] = "open" /\ pc' = [pc EXCEPT ![Consumer] = "write"]
        /\ msg' = msg /\ st' = st /\ tologCh' = tologCh /\ fate' = fate
    BY <1>8 DEF OpenLog, chanVars
  <2>2. \A q \in Threads : pc'[q] \in {"send", "open", "write"} => pc[q] \in {"send", "open", "write"}
    BY <1>t, <2>1
  <2> QED
    BY <1>f, <2>1, <2>2 DEF FateInv
<1>9. CASE OpenFails \/ WriteLog \/ WriteFails
  <2>1. /\ pc[Consumer] \in {"open", "write"} /\ pc' = [pc EXCEPT ![Consumer] = "done"]
        /\ msg' = msg /\ st' = st /\ tologCh' = tologCh
        /\ \E x \in {"skipped", "lost", "written"} : fate' = [fate EXCEPT ![msg[Consumer]] = x]
    BY <1>9 DEF OpenFails, WriteLog, WriteFails, chanVars
  <2>2. \A n \in Msgs : n # msg[Consumer] => fate'[n] = fate[n]
    BY <1>t, <1>h, <2>1
  <2>3. \A t \in Threads : pc'[t] \in {"send", "open", "write"} => pc[t] = pc'[t] /\ msg[t] # msg[Consumer]
    BY <1>t, <1>h, <2>1 DEF HandInv
  <2> QED
    BY <1>f, <1>h, <2>1, <2>2, <2>3 DEF FateInv, ChanInv
<1>10. ASSUME NEW p \in Goroutines,
             \/ \E l \in Loggers, o \in {"wait", "close"} : WaitCall(p, l, o)
             \/ WaitTurnedAway(p) \/ WaitBegin(p) \/ WgWait(p) \/ WgReturn(p)
             \/ WgReusePanic(p) \/ WaitEnd(p) \/ CloseLog(p)
      PROVE  FateInv'
  <2>1. /\ \E x \in {"idle", "wait", "wg", "parked", "end", "close", "panicked", "panickedInWait"} :
             pc' = [pc EXCEPT ![p] = x]
        /\ msg' = msg /\ st' = st /\ tologCh' = tologCh /\ fate' = fate
    BY <1>10, WaitEffect DEF messageVars
  <2>2. \A q \in Threads : pc'[q] \in {"send", "open", "write"} => pc[q] = pc'[q]
    BY <1>t, <2>1
  <2> QED
    BY <1>f, <2>1, <2>2 DEF FateInv
<1>11. CASE UNCHANGED vars
  BY <1>f, <1>11 DEF vars, chanVars, FateInv
<1> HIDE DEF Threads
<1> QED
  BY <1>1, <1>2, <1>3, <1>4, <1>5, <1>6, <1>7, <1>8, <1>9, <1>10, <1>11
  DEF Next, ConsumerStep, WgDoneStep, CallStep, Calls

(* What a step leaves alone that does not write to a file: what the files   *)
(* hold and which messages were written, with their loggers.  The consumer  *)
(* never goes back, and sent only grows, by messages without a fate.        *)
LEMMA OtherSteps ==
  ASSUME TypeOK, CallInv, HandInv, SentInv, FateInv, [Next]_vars, ~WriteLog
  PROVE  /\ file' = file
         /\ Handled \in Nat /\ Handled' \in Int /\ Handled <= Handled'
         /\ Len(sent) <= Len(sent')
         /\ \A i \in 1..Len(sent) : sent'[i] = sent[i] /\ to'[sent[i]] = to[sent[i]]
         /\ \A i \in 1..Len(sent') : i \notin 1..Len(sent) => fate'[sent'[i]] = "none"
         /\ \A m \in Msgs : fate'[m] = "written" <=> fate[m] = "written"
<1> DEFINE Calm == /\ file' = file /\ sent' = sent /\ tologCh' = tologCh /\ to' = to
                   /\ fate' = fate
                   /\ pc'[Consumer] \in {"open", "write"} <=> pc[Consumer] \in {"open", "write"}
           Goal == /\ file' = file
                   /\ Handled \in Nat /\ Handled' \in Int /\ Handled <= Handled'
                   /\ Len(sent) <= Len(sent')
                   /\ \A i \in 1..Len(sent) : sent'[i] = sent[i] /\ to'[sent[i]] = to[sent[i]]
                   /\ \A i \in 1..Len(sent') : i \notin 1..Len(sent) => fate'[sent'[i]] = "none"
                   /\ \A m \in Msgs : fate'[m] = "written" <=> fate[m] = "written"
<1> USE PipelineAssumption DEF Threads
<1>t. /\ pc \in [Threads -> GoroutinePc \cup ConsumerPc]
      /\ msg \in [Threads -> Msgs \cup {None}]
      /\ st \in [Msgs -> {"new", "called", "pending", "settled"}]
      /\ fate \in [Msgs -> {"none", "muted", "dropped", "skipped", "lost", "written"}]
      /\ to \in [Msgs -> Loggers \cup {None}]
      /\ tologCh \in Seq(Msgs) /\ sent \in Seq(Msgs)
  BY DEF TypeOK
<1>n. /\ Len(sent) \in Nat /\ Len(tologCh) \in Nat
      /\ Taken \in Int /\ Handled \in Nat
  BY <1>t DEF SentInv, Taken
<1>q. ASSUME Calm
      PROVE  Goal
  <2>1. Handled' = Handled
    BY <1>q DEF Handled, Taken
  <2>2. Len(sent) <= Len(sent')
    BY <1>q, <1>n
  <2> QED
    BY <1>q, <1>n, <2>1, <2>2
<1>f. \A t \in Threads : pc[t] \in {"send", "open", "write"} => msg[t] \in Msgs /\ fate[msg[t]] = "none"
  BY <1>t DEF FateInv, HandInv
<1>1. ASSUME NEW p \in Goroutines, NEW l \in Loggers, NEW m \in Msgs, NEW o \in {"none", "fatal"}, PrintCall(p, l, m, o)
      PROVE  Goal
  <2>1. /\ st[m] = "new" /\ tologCh' = tologCh /\ sent' = sent /\ file' = file
        /\ to' = [to EXCEPT ![m] = l]
        /\ fate' \in {fate, [fate EXCEPT ![m] = "muted"]}
        /\ \E x \in {"idle", "wait", "add"} : pc' = [pc EXCEPT ![p] = x]
    BY <1>1 DEF PrintCall, AfterPrint, chanVars, fileVars
  <2>2. \A i \in 1..Len(sent) : sent[i] \in Msgs /\ sent[i] # m
    BY <1>t, <2>1 DEF SentInv
  <2>3. fate[m] = "none"
    BY <2>1 DEF FateInv
  <2>4. Handled' = Handled
    BY <1>t, <2>1 DEF Handled, Taken
  <2>5. \A n \in Msgs : fate'[n] = "written" <=> fate[n] = "written"
    BY <1>t, <2>1, <2>3
  <2>6. \A i \in 1..Len(sent) : to'[sent[i]] = to[sent[i]]
    BY <1>t, <2>1, <2>2
  <2> QED
    BY <1>n, <2>1, <2>4, <2>5, <2>6
<1>2. ASSUME NEW p \in Goroutines, PrintAdd(p)
      PROVE  Goal
  <2>1. Calm
    BY <1>2, AddEffect
  <2> QED
    BY <1>q, <2>1
<1>3. ASSUME NEW p \in Goroutines, PrintSend(p)
      PROVE  Goal
  <2>1. /\ pc[p] = "send"
        /\ tologCh' = Append(tologCh, msg[p]) /\ sent' = Append(sent, msg[p])
        /\ \E x \in {"idle", "wait"} : pc' = [pc EXCEPT ![p] = x]
        /\ to' = to /\ fate' = fate /\ file' = file
    BY <1>3 DEF PrintSend, AfterPrint, fileVars
  <2>2. msg[p] \in Msgs /\ fate[msg[p]] = "none"
    BY <1>f, <2>1
  <2>3. /\ Len(sent') = Len(sent) + 1 /\ Len(tologCh') = Len(tologCh) + 1
        /\ \A i \in 1..Len(sent) : sent'[i] = sent[i]
        /\ sent'[Len(sent) + 1] = msg[p]
    BY <1>t, <2>1, <2>2
  <2>4. pc'[Consumer] = pc[Consumer]
    BY <1>t, <2>1
  <2>5. Handled' = Handled
    BY <1>n, <2>3, <2>4 DEF Handled, Taken
  <2>6. \A i \in 1..Len(sent') : i \notin 1..Len(sent) => sent'[i] = msg[p]
    BY <1>n, <2>3
  <2> QED
    BY <1>n, <2>1, <2>2, <2>3, <2>5, <2>6
<1>4. ASSUME NEW p \in Goroutines, PrintDrop(p)
      PROVE  Goal
  <2>1. /\ pc[p] = "send" /\ pc' = [pc EXCEPT ![p] = "done"]
        /\ tologCh' = tologCh /\ sent' = sent /\ to' = to /\ file' = file
        /\ fate' = [fate EXCEPT ![msg[p]] = "dropped"]
    BY <1>4 DEF PrintDrop, fileVars
  <2>2. \A n \in Msgs : fate'[n] = "written" <=> fate[n] = "written"
    BY <1>t, <1>f, <2>1
  <2>3. Handled' = Handled
    BY <1>t, <2>1 DEF Handled, Taken
  <2> QED
    BY <1>n, <2>1, <2>2, <2>3
<1>5. ASSUME NEW t \in Threads, Done(t)
      PROVE  Goal
  <2>1. /\ pc[t] = "done"
        /\ tologCh' = tologCh /\ sent' = sent /\ to' = to /\ file' = file /\ fate' = fate
        /\ \E x \in {"release", "panicked", "recv", "idle", "wait"} : pc' = [pc EXCEPT ![t] = x]
    BY <1>5 DEF Done, AfterDone, AfterPrint, chanVars, fileVars
  <2>2. Calm
    BY <1>t, <2>1
  <2> QED
    BY <1>q, <2>2
<1>6. ASSUME NEW t \in Threads, Release(t) \/ ReleasePanic(t) \/ ReleaseReset(t)
      PROVE  Goal
  <2>1. /\ pc[t] = "release" /\ pc'[t] \in {"recv", "idle", "wait", "panicked"}
        /\ \A q \in Threads \ {t} : pc'[q] = pc[q] \/ (pc[q] = "parked" /\ pc'[q] = "woken")
        /\ tologCh' = tologCh /\ sent' = sent /\ to' = to /\ file' = file /\ fate' = fate
    BY <1>6, ReleaseEffect DEF messageVars
  <2>2. Calm
    BY <1>t, <2>1
  <2> QED
    BY <1>q, <2>2
<1>7. ASSUME Receive
      PROVE  Goal
  <2>1. /\ pc[Consumer] = "recv" /\ tologCh # <<>> /\ tologCh' = Tail(tologCh)
        /\ pc' = [pc EXCEPT ![Consumer] = "open"]
        /\ sent' = sent /\ to' = to /\ file' = file /\ fate' = fate
    BY <1>7 DEF Receive, fileVars
  <2>2. Len(tologCh') = Len(tologCh) - 1 /\ pc'[Consumer] = "open"
    BY <1>t, <2>1
  <2>3. Handled' = Handled
    BY <1>n, <2>1, <2>2 DEF Handled, Taken
  <2> QED
    BY <1>n, <2>1, <2>3
<1>8. ASSUME OpenLog
      PROVE  Goal
  <2>1. /\ pc[Consumer] = "open" /\ pc' = [pc EXCEPT ![Consumer] = "write"]
        /\ sent' = sent /\ to' = to /\ file' = file /\ fate' = fate /\ tologCh' = tologCh
    BY <1>8 DEF OpenLog, chanVars
  <2>2. Calm
    BY <1>t, <2>1
  <2> QED
    BY <1>q, <2>2
<1>9. ASSUME OpenFails \/ WriteFails
      PROVE  Goal
  <2>1. /\ pc[Consumer] \in {"open", "write"} /\ pc' = [pc EXCEPT ![Consumer] = "done"]
        /\ sent' = sent /\ to' = to /\ file' = file /\ tologCh' = tologCh
        /\ \E x \in {"skipped", "lost"} : fate' = [fate EXCEPT ![msg[Consumer]] = x]
    BY <1>9 DEF OpenFails, WriteFails, chanVars, fileVars
  <2>2. \A n \in Msgs : fate'[n] = "written" <=> fate[n] = "written"
    BY <1>t, <1>f, <2>1
  <2>3. Handled' = Handled + 1
    BY <1>t, <1>n, <2>1 DEF Handled, Taken
  <2> QED
    BY <1>n, <2>1, <2>2, <2>3
<1>10. ASSUME NEW p \in Goroutines,
             \/ \E l \in Loggers, o \in {"wait", "close"} : WaitCall(p, l, o)
             \/ WaitTurnedAway(p) \/ WaitBegin(p) \/ WgWait(p) \/ WgReturn(p)
             \/ WgReusePanic(p) \/ WaitEnd(p) \/ CloseLog(p)
      PROVE  Goal
  <2>1. /\ \E x \in {"idle", "wait", "wg", "parked", "end", "close", "panicked", "panickedInWait"} :
             pc' = [pc EXCEPT ![p] = x]
        /\ UNCHANGED messageVars
    BY <1>10, WaitEffect
  <2>2. Calm
    BY <1>t, <2>1 DEF messageVars
  <2> QED
    BY <1>q, <2>2
<1>11. ASSUME UNCHANGED vars
       PROVE  Goal
  <2>1. Calm
    BY <1>11 DEF vars, chanVars, fileVars
  <2> QED
    BY <1>q, <2>1
<1> HIDE DEF Threads, Goal, Calm
<1>12. ASSUME ConsumerStep
       PROVE  Goal
  BY <1>7, <1>8, <1>9, <1>12 DEF ConsumerStep
<1>13. ASSUME NEW t \in Threads, WgDoneStep(t)
       PROVE  Goal
  BY <1>5, <1>6, <1>13 DEF WgDoneStep
<1>14. ASSUME NEW p \in Goroutines, CallStep(p) \/ Calls(p)
       PROVE  Goal
  BY <1>1, <1>2, <1>3, <1>4, <1>10, <1>14 DEF CallStep, Calls
<1>15. Goal
  BY <1>11, <1>12, <1>13, <1>14 DEF Next
<1> QED
  BY <1>15 DEF Goal

(* The consumer writes the message it has taken last, which was sent after  *)
(* every message it is done with.                                           *)
LEMMA WriteEffect ==
  ASSUME TypeOK, HandInv, SentInv, WriteLog
  PROVE  /\ msg[Consumer] \in Msgs /\ to[msg[Consumer]] \in Loggers
         /\ Handled \in Nat /\ Taken \in 1..Len(sent)
         /\ Handled = Taken - 1 /\ Handled' = Taken
         /\ sent[Taken] = msg[Consumer]
         /\ sent' = sent /\ to' = to
         /\ file' = [file EXCEPT ![to[msg[Consumer]]] = Append(@, msg[Consumer])]
         /\ fate' = [fate EXCEPT ![msg[Consumer]] = "written"]
<1> USE PipelineAssumption DEF Threads
<1>1. /\ pc[Consumer] = "write" /\ pc' = [pc EXCEPT ![Consumer] = "done"]
      /\ tologCh' = tologCh /\ sent' = sent /\ to' = to
      /\ file' = [file EXCEPT ![to[msg[Consumer]]] = Append(@, msg[Consumer])]
      /\ fate' = [fate EXCEPT ![msg[Consumer]] = "written"]
  BY DEF WriteLog, chanVars
<1>2. msg[Consumer] \in Msgs /\ to[msg[Consumer]] \in Loggers
  BY <1>1 DEF HandInv, TypeOK
<1>3. Len(sent) \in Nat /\ Len(tologCh) \in Nat /\ pc'[Consumer] = "done"
  BY <1>1 DEF TypeOK
<1>4. Handled \in Nat /\ Handled = Taken - 1 /\ Handled' = Taken /\ Taken = Len(sent) - Len(tologCh)
  BY <1>1, <1>3 DEF SentInv, Handled, Taken
<1>5. Taken \in 1..Len(sent)
  BY <1>3, <1>4
<1> QED
  BY <1>1, <1>2, <1>4, <1>5 DEF SentInv

(* What is in a file was taken off the channel before. *)
LEMMA FileStep ==
  ASSUME TypeOK, CallInv, HandInv, SentInv, FateInv, FileInv, [Next]_vars
  PROVE  FileInv'
<1>n. Len(sent) \in Nat /\ Len(tologCh) \in Nat /\ Taken = Len(sent) - Len(tologCh) /\ Handled <= Len(sent)
  BY DEF TypeOK, SentInv, Taken, Handled
<1>1. CASE ~WriteLog
  <2>1. /\ file' = file
        /\ Handled \in Nat /\ Handled' \in Int /\ Handled <= Handled'
        /\ \A i \in 1..Len(sent) : sent'[i] = sent[i]
    BY <1>1, OtherSteps
  <2>2. \A k \in 1..Handled : k \in 1..Handled' /\ sent'[k] = sent[k]
    BY <1>n, <2>1
  <2> QED
    BY <2>1, <2>2 DEF FileInv
<1>2. CASE WriteLog
  <2> DEFINE m == msg[Consumer]
             l == to[m]
  <2>1. /\ m \in Msgs /\ l \in Loggers
        /\ Handled \in Nat /\ Taken \in 1..Len(sent)
        /\ Handled = Taken - 1 /\ Handled' = Taken
        /\ sent[Taken] = m /\ sent' = sent
        /\ file' = [file EXCEPT ![l] = Append(@, m)]
    BY <1>2, WriteEffect
  <2> HIDE DEF m, l
  <2>2. /\ \A k \in 1..Handled : k \in 1..Handled' /\ sent'[k] = sent[k]
        /\ Handled' \in 1..Handled' /\ sent'[Handled'] = m
    BY <1>n, <2>1
  <2>3. \A k \in Loggers : \A i \in 1..Len(file'[k]) :
          file'[k][i] = m \/ (i \in 1..Len(file[k]) /\ file'[k][i] = file[k][i])
    BY <2>1 DEF TypeOK
  <2> QED
    BY <2>2, <2>3 DEF FileInv
<1> QED
  BY <1>1, <1>2

(* The files hold what was written, in the order of the channel. *)
LEMMA FifoStep ==
  ASSUME TypeOK, CallInv, HandInv, SentInv, FateInv, FileInv, FifoFile, SentInv', TypeOK', [Next]_vars
  PROVE  FifoFile'
<1> DEFINE Written(k) == {n \in {sent[i] : i \in 1..Len(sent)} : to[n] = k /\ fate[n] = "written"}
           Held(k) == {file[k][i] : i \in 1..Len(file[k])}
           Ordered(k) == \A i, j \in 1..Len(file[k]) : i < j => SentBefore(file[k][i], file[k][j])
<1>n. Len(sent) \in Nat /\ \A i \in 1..Len(sent) : sent[i] \in Msgs
  BY DEF TypeOK
<1>f. \A k \in Loggers : Held(k) = Written(k) /\ Ordered(k)
  BY DEF FifoFile
<1>g. ASSUME \A k \in Loggers : (Held(k) = Written(k))' /\ Ordered(k)'
      PROVE  FifoFile'
  BY <1>g DEF FifoFile, SentInv
<1>1. CASE ~WriteLog
  <2>1. /\ file' = file /\ Len(sent) <= Len(sent')
        /\ \A i \in 1..Len(sent) : sent'[i] = sent[i] /\ to'[sent[i]] = to[sent[i]]
        /\ \A i \in 1..Len(sent') : i \notin 1..Len(sent) => fate'[sent'[i]] = "none"
        /\ \A m \in Msgs : fate'[m] = "written" <=> fate[m] = "written"
    BY <1>1, OtherSteps
  <2>2. Len(sent') \in Nat
    BY DEF TypeOK
  <2>3. \A i \in 1..Len(sent) : i \in 1..Len(sent')
    BY <1>n, <2>1, <2>2
  <2>4. ASSUME NEW k \in Loggers
        PROVE  Written(k)' = Written(k)
    <3>1. ASSUME NEW n \in Written(k)
          PROVE  n \in Written(k)'
      <4>1. PICK i \in 1..Len(sent) : n = sent[i] /\ to[n] = k /\ fate[n] = "written"
        BY <3>1
      <4>2. i \in 1..Len(sent') /\ n = sent'[i] /\ to'[n] = k /\ fate'[n] = "written"
        BY <1>n, <2>1, <2>3, <4>1
      <4> QED
        BY <4>2
    <3>2. ASSUME NEW n \in Written(k)'
          PROVE  n \in Written(k)
      <4>1. PICK i \in 1..Len(sent') : n = sent'[i] /\ to'[n] = k /\ fate'[n] = "written"
        BY <3>2
      <4>2. i \in 1..Len(sent)
        BY <2>1, <4>1
      <4>3. n = sent[i] /\ to[n] = k /\ fate[n] = "written"
        BY <1>n, <2>1, <4>1, <4>2
      <4> QED
        BY <4>2, <4>3
    <3> QED
      BY <3>1, <3>2
  <2>5. ASSUME NEW x, NEW y, SentBefore(x, y)
        PROVE  SentBefore(x, y)'
    BY <2>1, <2>3, <2>5 DEF SentBefore
  <2>6. ASSUME NEW k \in Loggers
        PROVE  Ordered(k)'
    BY <1>f, <2>1, <2>5
  <2>7. \A k \in Loggers : Held(k)' = Held(k)
    BY <2>1
  <2> HIDE DEF Written, Held, Ordered
  <2> QED
    BY <1>f, <1>g, <2>4, <2>6, <2>7
<1>2. CASE WriteLog
  <2>m. PICK m \in Msgs : m = msg[Consumer]
    BY <1>2, WriteEffect
  <2>l. PICK l \in Loggers : l = to[m]
    BY <1>2, <2>m, WriteEffect
  <2>1. /\ Handled \in Nat /\ Taken \in 1..Len(sent) /\ Handled = Taken - 1
        /\ sent[Taken] = m /\ sent' = sent /\ to' = to
        /\ file' = [file EXCEPT ![l] = Append(@, m)]
        /\ fate' = [fate EXCEPT ![m] = "written"]
    BY <1>2, <2>m, <2>l, WriteEffect
  <2>3. \A n \in Msgs : fate'[n] = IF n = m THEN "written" ELSE fate[n]
    BY <2>1 DEF TypeOK
  <2>4. \A x, y : SentBefore(x, y)' <=> SentBefore(x, y)
    BY <2>1 DEF SentBefore
  <2>5. ASSUME NEW k \in Loggers, k # l
        PROVE  (Held(k) = Written(k))' /\ Ordered(k)'
    <3>1. file'[k] = file[k]
      BY <2>1, <2>5 DEF TypeOK
    <3>2. Written(k)' = Written(k)
      BY <1>n, <2>1, <2>l, <2>3, <2>5
    <3>3. Held(k)' = Held(k)
      BY <3>1
    <3>4. Ordered(k)'
      BY <1>f, <2>4, <3>1
    <3> QED
      BY <1>f, <3>2, <3>3, <3>4
  <2>6. /\ file[l] \in Seq(Msgs) /\ Len(file[l]) \in Nat
        /\ file'[l] = Append(file[l], m)
        /\ Len(file'[l]) = Len(file[l]) + 1
        /\ \A i \in 1..Len(file[l]) : file'[l][i] = file[l][i]
        /\ file'[l][Len(file[l]) + 1] = m
    BY <2>1 DEF TypeOK
  <2>7. Written(l)' = Written(l) \cup {m}
    <3>1. m \in {sent[i] : i \in 1..Len(sent)}
      BY <2>1
    <3> QED
      BY <1>n, <2>1, <2>l, <2>3, <3>1
  <2>8. Held(l)' = Held(l) \cup {m}
    <3>1. \A i : i \in 1..Len(file'[l]) <=> i \in 1..Len(file[l]) \/ i = Len(file[l]) + 1
      BY <2>6
    <3> QED
      BY <2>6, <3>1
  <2>9. Ordered(l)'
    <3> SUFFICES ASSUME NEW i \in 1..Len(file'[l]), NEW j \in 1..Len(file'[l]), i < j
                 PROVE  SentBefore(file'[l][i], file'[l][j])
      BY <2>4
    <3>1. i \in 1..Len(file[l]) /\ (j \in 1..Len(file[l]) \/ j = Len(file[l]) + 1)
      BY <2>6
    <3>2. CASE j \in 1..Len(file[l])
      BY <1>f, <2>1, <2>6, <3>1, <3>2
    <3>3. CASE j = Len(file[l]) + 1
      <4>1. PICK k \in 1..Handled : sent[k] = file[l][i]
        BY <2>1, <3>1 DEF FileInv
      <4>2. k \in 1..Len(sent) /\ k < Taken
        BY <1>n, <2>1, <4>1
      <4>3. file'[l][i] = sent[k] /\ file'[l][j] = sent[Taken]
        BY <2>1, <2>6, <3>1, <3>3, <4>1
      <4> QED
        BY <2>1, <4>2, <4>3 DEF SentBefore
    <3> QED
      BY <3>1, <3>2, <3>3
  <2> HIDE DEF Written, Held, Ordered
  <2>10. \A k \in Loggers : (Held(k) = Written(k))' /\ Ordered(k)'
    BY <1>f, <2>1, <2>5, <2>7, <2>8, <2>9
  <2> QED
    BY <1>g, <2>10
<1> QED
  BY <1>1, <1>2

(* Wait notes what is pending when it begins, and forgets it at its end. *)
LEMMA OwedStep ==
  ASSUME TypeOK, CallInv, HandInv, OwedInv, [Next]_vars
  PROVE  OwedInv'
<1> DEFINE In(q) == pc[q] \in {"wg", "parked", "woken", "end", "panickedInWait"}
           Counted(m) == st[m] \in {"pending", "settled"}
<1>o. \A q \in Goroutines : (~In(q) => seen[q] = {}) /\ \A m \in seen[q] : m \in Msgs /\ Counted(m)
  BY DEF OwedInv, TypeOK
<1>q. ASSUME seen' = seen, \A q \in Goroutines : In(q) => In(q)',
             \A m \in Msgs : Counted(m) => Counted(m)'
      PROVE  OwedInv'
  BY <1>o, <1>q DEF OwedInv
<1> USE PipelineAssumption DEF Threads
<1>t. /\ pc \in [Threads -> GoroutinePc \cup ConsumerPc]
      /\ msg \in [Threads -> Msgs \cup {None}]
      /\ st \in [Msgs -> {"new", "called", "pending", "settled"}]
      /\ seen \in [Goroutines -> SUBSET Msgs]
  BY DEF TypeOK
<1>1. ASSUME NEW p \in Goroutines, NEW l \in Loggers, NEW m \in Msgs, NEW o \in {"none", "fatal"}, PrintCall(p, l, m, o)
      PROVE  OwedInv'
  <2>1. /\ pc[p] = "idle" /\ st[m] = "new" /\ seen' = seen
        /\ \E x : pc' = [pc EXCEPT ![p] = x]
        /\ \E x : st' = [st EXCEPT ![m] = x]
    BY <1>1 DEF PrintCall
  <2> QED
    BY <1>q, <1>t, <2>1
<1>2. ASSUME NEW p \in Goroutines, PrintAdd(p)
      PROVE  OwedInv'
  <2>1. /\ pc[p] = "add" /\ msg[p] \in Msgs
        /\ \A q \in Threads \ {p} : pc'[q] = pc[q] \/ (pc[q] = "parked" /\ pc'[q] = "woken")
        /\ st' = [st EXCEPT ![msg[p]] = "pending"]
    BY <1>2, AddEffect
  <2>2. seen' = seen
    BY <1>2 DEF PrintAdd, callVars
  <2> QED
    BY <1>q, <1>t, <2>1, <2>2
<1>3. ASSUME NEW p \in Goroutines, PrintSend(p) \/ PrintDrop(p)
      PROVE  OwedInv'
  <2>1. /\ pc[p] = "send" /\ st' = st /\ seen' = seen
        /\ \E x : pc' = [pc EXCEPT ![p] = x]
    BY <1>3 DEF PrintSend, PrintDrop, callVars
  <2> QED
    BY <1>q, <1>t, <2>1
<1>4. ASSUME NEW t \in Threads, Done(t)
      PROVE  OwedInv'
  <2>1. /\ pc[t] = "done" /\ st' = [st EXCEPT ![msg[t]] = "settled"] /\ seen' = seen
        /\ \E x : pc' = [pc EXCEPT ![t] = x]
    BY <1>4 DEF Done, callVars
  <2> QED
    BY <1>q, <1>t, <2>1
<1>5. ASSUME NEW t \in Threads, Release(t) \/ ReleasePanic(t) \/ ReleaseReset(t)
      PROVE  OwedInv'
  <2>1. seen' = seen
    BY <1>5 DEF Release, ReleasePanic, ReleaseReset, callVars
  <2>2. /\ pc[t] = "release" /\ st' = st
        /\ \A q \in Threads \ {t} : pc'[q] = pc[q] \/ (pc[q] = "parked" /\ pc'[q] = "woken")
    BY <1>5, ReleaseEffect DEF messageVars
  <2> QED
    BY <1>q, <1>t, <2>1, <2>2
<1>6. ASSUME ConsumerStep
      PROVE  OwedInv'
  <2>1. /\ st' = st /\ seen' = seen
        /\ \E x : pc' = [pc EXCEPT ![Consumer] = x]
    BY <1>6 DEF ConsumerStep, Receive, OpenLog, OpenFails, WriteLog, WriteFails, callVars
  <2> QED
    BY <1>q, <1>t, <2>1
<1>7. ASSUME NEW p \in Goroutines, WaitTurnedAway(p) \/ WaitEnd(p)
      PROVE  OwedInv'
  <2>1. ReturnFromWait(p) /\ st' = st
    BY <1>7 DEF WaitTurnedAway, WaitEnd
  <2>2. (\E x : pc' = [pc EXCEPT ![p] = x]) /\ seen' = [seen EXCEPT ![p] = {}]
    BY <2>1 DEF ReturnFromWait
  <2> QED
    BY <1>o, <1>t, <2>1, <2>2 DEF OwedInv
<1>8. ASSUME NEW p \in Goroutines, WaitBegin(p)
      PROVE  OwedInv'
  <2>1. /\ pc' = [pc EXCEPT ![p] = "wg"] /\ st' = st
        /\ seen' = [seen EXCEPT ![p] = Pending(arg[p])]
    BY <1>8 DEF WaitBegin
  <2>2. \A m \in Pending(arg[p]) : m \in Msgs /\ Counted(m)
    BY DEF Pending
  <2> QED
    BY <1>o, <1>t, <2>1, <2>2 DEF OwedInv
<1>9. ASSUME NEW p \in Goroutines,
             \/ \E l \in Loggers, o \in {"wait", "close"} : WaitCall(p, l, o)
             \/ WgWait(p) \/ WgReturn(p) \/ WgReusePanic(p) \/ CloseLog(p)
      PROVE  OwedInv'
  <2>1. /\ st' = st /\ seen' = seen
        /\ \/ pc[p] \in {"idle", "close"} /\ \E x : pc' = [pc EXCEPT ![p] = x]
           \/ \E x \in {"parked", "end", "panickedInWait"} : pc' = [pc EXCEPT ![p] = x]
    BY <1>9 DEF WaitCall, WgWait, WgReturn, WgReusePanic, CloseLog, callVars
  <2> QED
    BY <1>q, <1>t, <2>1
<1>10. CASE UNCHANGED vars
  BY <1>q, <1>10 DEF vars, callVars
<1> HIDE DEF Threads
<1> QED
  BY <1>1, <1>2, <1>3, <1>4, <1>5, <1>6, <1>7, <1>8, <1>9, <1>10
  DEF Next, WgDoneStep, CallStep, Calls

-----------------------------------------------------------------------------
LEMMA InitOrder == Init => OrderInv
<1> SUFFICES ASSUME Init
             PROVE  OrderInv
  OBVIOUS
<1> USE PipelineAssumption DEF Init, Threads
<1>1. /\ \A t \in Threads : pc[t] \in {"recv", "idle"} /\ msg[t] = None
      /\ \A m \in Msgs : st[m] = "new" /\ fate[m] = "none"
      /\ sent = <<>> /\ tologCh = <<>>
      /\ \A l \in Loggers : file[l] = <<>>
      /\ \A p \in Goroutines : seen[p] = {}
  OBVIOUS
<1>2. Len(sent) = 0 /\ Len(tologCh) = 0 /\ Taken = 0 /\ Handled = 0
  BY <1>1 DEF Taken, Handled
<1>3. HeldInv
  BY <1>1 DEF HeldInv
<1>4. SentInv
  BY <1>1, <1>2 DEF SentInv
<1>5. FateInv
  BY <1>1, <1>2 DEF FateInv
<1>6. FileInv
  BY <1>1 DEF FileInv
<1>7. FifoFile
  BY <1>1, <1>2 DEF FifoFile
<1>8. OwedInv
  BY <1>1 DEF OwedInv
<1> QED
  BY <1>3, <1>4, <1>5, <1>6, <1>7, <1>8 DEF OrderInv

LEMMA NextOrder == PipelineInv /\ [Next]_vars => PipelineInv'
<1> SUFFICES ASSUME PipelineInv, [Next]_vars
             PROVE  PipelineInv'
  OBVIOUS
<1>1. IInv /\ IInv'
  BY NextInv DEF PipelineInv
<1>2. TypeOK /\ CallInv /\ HandInv /\ ChanInv /\ TypeOK'
  BY <1>1 DEF IInv
<1>3. HeldInv /\ SentInv /\ FateInv /\ FileInv /\ FifoFile /\ OwedInv
  BY DEF PipelineInv, OrderInv
<1>4. HeldInv' /\ SentInv'
  BY <1>2, <1>3, HeldStep, SentStep
<1>5. FateInv' /\ FileInv' /\ OwedInv'
  BY <1>2, <1>3, FateStep, FileStep, OwedStep
<1>6. FifoFile'
  BY <1>2, <1>3, <1>4, FifoStep
<1> QED
  BY <1>1, <1>4, <1>5, <1>6 DEF PipelineInv, OrderInv

(* The whole inductive invariant of the write path holds in every reachable *)
(* state.                                                                   *)
THEOREM PipelineInvariantHolds == Spec => []PipelineInv
<1>1. Init => PipelineInv
  BY InitInv, InitOrder DEF PipelineInv
<1> QED
  BY <1>1, NextOrder, PTL DEF Spec

(* A pending message is once on the channel, or in the hands of one thread: *)
(* neither print nor the consumer loses or doubles one.                     *)
THEOREM MessagesAreInOnePlace == Spec => []Custody
<1>1. ASSUME PipelineInv, NEW m \in Msgs, st[m] = "pending"
      PROVE  Cardinality({i \in 1..Len(tologCh) : tologCh[i] = m})
               + Cardinality({t \in Threads : msg[t] = m}) = 1
  <2> DEFINE Places == {i \in 1..Len(tologCh) : tologCh[i] = m}
             Hands == {t \in Threads : msg[t] = m}
  <2>1. /\ (\E i \in 1..Len(tologCh) : tologCh[i] = m) \/ (\E t \in Threads : msg[t] = m)
        /\ \A t, u \in Threads : msg[t] # None /\ msg[t] = msg[u] => t = u
        /\ \A i \in 1..Len(tologCh) : \A t \in Threads : msg[t] # tologCh[i]
        /\ \A i, j \in 1..Len(tologCh) : tologCh[i] = tologCh[j] => i = j
        /\ m # None
    BY <1>1, PipelineAssumption DEF PipelineInv, IInv, OrderInv, HeldInv, HandInv, ChanInv
  <2>2. CASE \E i \in 1..Len(tologCh) : tologCh[i] = m
    <3>1. PICK i \in 1..Len(tologCh) : tologCh[i] = m
      BY <2>2
    <3>2. Places = {i} /\ Hands = {}
      BY <2>1, <3>1
    <3>3. Cardinality(Places) = 1
      BY <3>2, FS_Singleton
    <3>4. Cardinality(Hands) = 0
      BY <3>2, FS_EmptySet
    <3> QED
      BY <3>3, <3>4
  <2>3. CASE \E t \in Threads : msg[t] = m
    <3>1. PICK t \in Threads : msg[t] = m
      BY <2>3
    <3>2. Hands = {t} /\ Places = {}
      BY <2>1, <3>1
    <3>3. Cardinality(Hands) = 1
      BY <3>2, FS_Singleton
    <3>4. Cardinality(Places) = 0
      BY <3>2, FS_EmptySet
    <3> QED
      BY <3>3, <3>4
  <2> QED
    BY <2>1, <2>2, <2>3
<1>2. PipelineInv => Custody
  BY <1>1 DEF Custody
<1> QED
  BY <1>2, PipelineInvariantHolds, PTL

(* Each file holds what was written to its logger, once, in the order of    *)
(* the sends on tologCh.                                                    *)
THEOREM FilesKeepChannelOrder == Spec => []FifoFile
<1>1. PipelineInv => FifoFile
  BY DEF PipelineInv, OrderInv
<1> QED
  BY <1>1, PipelineInvariantHolds, PTL

-----------------------------------------------------------------------------
(***************************************************************************)
(* LogPipeline implements AsyncLog under the mapping of LogRefinement: the *)
(* first state is AsyncLog's, and every step from a state of PipelineInv   *)
(* is a step of AsyncLog or changes nothing of it.                         *)
(***************************************************************************)

(* A message that was counted by logTasks.Add. *)
Counted(m) == st[m] \notin {"new", "called"}

(* A goroutine that AsyncLog sees waiting. *)
Inside(p) == pc[p] \in {"wg", "parked", "woken", "end", "panickedInWait"}

(* What AsyncLog sees of the messages is unchanged. *)
LEMMA SameMessages ==
  ASSUME fate' = fate,
         \A m \in Msgs : Counted(m)' <=> Counted(m),
         \A m \in Msgs : Counted(m) => to'[m] = to[m],
         \A m \in Msgs : Counted(m) /\ fate[m] = "none" =>
           ((\E p \in Goroutines : msg'[p] = m) <=> (\E p \in Goroutines : msg[p] = m))
  PROVE  AbsState' = AbsState /\ AbsOwner' = AbsOwner
BY DEF AbsState, AbsOwner, Counted

(* So are the messages that are queued, *)
LEMMA SameQueue ==
  ASSUME tologCh' = tologCh,
         pc'[Consumer] \in {"open", "write"} <=> pc[Consumer] \in {"open", "write"},
         pc[Consumer] \in {"open", "write"} => msg'[Consumer] = msg[Consumer]
  PROVE  AbsQueue' = AbsQueue
BY DEF AbsQueue

(* who waits, *)
LEMMA SameWaiting ==
  ASSUME \A p \in Goroutines : Inside(p)' <=> Inside(p),
         \A p \in Goroutines : Inside(p) => arg'[p] = arg[p]
  PROVE  AbsWaiting' = AbsWaiting
BY DEF AbsWaiting, Inside

(* and what they are owed. *)
LEMMA SameOwed ==
  ASSUME fate' = fate, seen' = seen
  PROVE  AbsOwed' = AbsOwed
BY DEF AbsOwed

(* A message gets its fate: for AsyncLog it is finished. *)
LEMMA FinishStep ==
  ASSUME TypeOK, NEW m \in Msgs, NEW x, x # "none",
         fate' = [fate EXCEPT ![m] = x], seen' = seen, msg' = msg,
         \A n \in Msgs \ {m} : st'[n] = st[n]
  PROVE  Abstract!Finish(m)
<1>1. \A n \in Msgs : fate'[n] = IF n = m THEN x ELSE fate[n]
  BY DEF TypeOK
<1>2. AbsState' = [AbsState EXCEPT ![m] = "done"]
  BY <1>1 DEF AbsState
<1>3. AbsOwed' = [c \in Goroutines |-> AbsOwed[c] \ {m}]
  BY <1>1 DEF AbsOwed, TypeOK
<1> QED
  BY <1>2, <1>3 DEF Abstract!Finish

LEMMA InitMaps == Init => Abstract!Init
<1> SUFFICES ASSUME Init
             PROVE  Abstract!Init
  OBVIOUS
<1> USE PipelineAssumption DEF Init, Threads
<1>1. AbsState = [m \in Msgs |-> "new"] /\ AbsOwner = [m \in Msgs |-> None]
  BY DEF AbsState, AbsOwner
<1>2. AbsQueue = <<>>
  BY DEF AbsQueue
<1>3. AbsWaiting = [c \in Goroutines |-> None] /\ AbsOwed = [c \in Goroutines |-> {}]
  BY DEF AbsWaiting, AbsOwed
<1> QED
  BY <1>1, <1>2, <1>3 DEF Abstract!Init

-----------------------------------------------------------------------------
(* A print that waitStarted turns away is AsyncLog's Mute; one that goes on *)
(* is not seen before its logTasks.Add.                                     *)
LEMMA PrintCallMaps ==
  ASSUME PipelineInv, NEW p \in Goroutines, NEW l \in Loggers, NEW m \in Msgs,
         NEW o \in {"none", "fatal"}, PrintCall(p, l, m, o)
  PROVE  Abstract!Mute(m, l) \/ UNCHANGED Abstract!vars
<1> USE PipelineAssumption DEF Threads
<1>t. /\ TypeOK /\ HeldInv /\ MuteHasOwner /\ FateInv
      /\ pc \in [Threads -> GoroutinePc \cup ConsumerPc]
      /\ msg \in [Threads -> Msgs \cup {None}]
      /\ st \in [Msgs -> {"new", "called", "pending", "settled"}]
      /\ fate \in [Msgs -> {"none", "muted", "dropped", "skipped", "lost", "written"}]
      /\ to \in [Msgs -> Loggers \cup {None}]
  BY DEF PipelineInv, IInv, OrderInv, TypeOK
<1>1. /\ pc[p] = "idle" /\ st[m] = "new" /\ fate[m] = "none" /\ msg[p] = None
      /\ to' = [to EXCEPT ![m] = l]
      /\ arg' = arg \/ arg' = [arg EXCEPT ![p] = l]
      /\ \E x \in {"idle", "wait", "add"} : pc' = [pc EXCEPT ![p] = x]
      /\ \E x \in {"called", "settled"} : st' = [st EXCEPT ![m] = x]
      /\ msg' \in {msg, [msg EXCEPT ![p] = m]}
      /\ UNCHANGED <<seen, tologCh, misused, file>>
  BY <1>t DEF PrintCall, AfterPrint, chanVars, wgVars, fileVars, FateInv, HeldInv
<1>2. AbsQueue' = AbsQueue
  BY <1>t, <1>1, SameQueue
<1>3. AbsWaiting' = AbsWaiting
  <2>1. \A q \in Goroutines : q = p \/ (pc'[q] = pc[q] /\ arg'[q] = arg[q])
    BY <1>t, <1>1 DEF TypeOK
  <2>2. ~Inside(p) /\ ~Inside(p)'
    BY <1>t, <1>1 DEF Inside
  <2> QED
    BY <2>1, <2>2, SameWaiting DEF Inside
<1>4. CASE waitStarted[l]
  <2>1. st' = [st EXCEPT ![m] = "settled"] /\ fate' = [fate EXCEPT ![m] = "muted"] /\ msg' = msg
    BY <1>4 DEF PrintCall
  <2>2. Abstract!Finish(m)
    BY <1>t, <1>1, <2>1, FinishStep
  <2>3. AbsState[m] = "new"
    BY <1>1 DEF AbsState
  <2>4. Abstract!Waiters(l) # {}
    <3>1. PICK q \in Goroutines : Inside(q) /\ arg[q] = l
      BY <1>t, <1>4 DEF MuteHasOwner, Waiting, Inside
    <3>2. AbsWaiting[q] = l
      BY <3>1 DEF AbsWaiting, Inside
    <3> QED
      BY <3>2 DEF Abstract!Waiters
  <2>5. AbsOwner' = AbsOwner
    BY <1>t, <1>1, <2>1 DEF AbsOwner
  <2> QED
    BY <1>1, <1>2, <1>3, <2>2, <2>3, <2>4, <2>5 DEF Abstract!Mute
<1>5. CASE ~waitStarted[l]
  <2>1. st' = [st EXCEPT ![m] = "called"] /\ fate' = fate /\ msg' = [msg EXCEPT ![p] = m]
    BY <1>5 DEF PrintCall
  <2>2. /\ \A n \in Msgs : Counted(n)' <=> Counted(n)
        /\ \A n \in Msgs : Counted(n) => n # m /\ to'[n] = to[n]
    BY <1>t, <1>1, <2>1 DEF Counted
  <2>3. \A q \in Goroutines, n \in Msgs : n # m => (msg'[q] = n <=> msg[q] = n)
    BY <1>t, <1>1, <2>1
  <2>4. AbsState' = AbsState /\ AbsOwner' = AbsOwner
    BY <2>1, <2>2, <2>3, SameMessages
  <2>5. AbsOwed' = AbsOwed
    BY <1>1, <2>1, SameOwed
  <2> QED
    BY <1>1, <1>2, <1>3, <2>4, <2>5 DEF Abstract!vars
<1> QED
  BY <1>4, <1>5

(* logTasks.Add offers the message.  It races with the release of waiters   *)
(* only when they are owed nothing any more.                                *)
LEMMA PrintAddMaps ==
  ASSUME PipelineInv, NEW p \in Goroutines, PrintAdd(p)
  PROVE  \E m \in Msgs, l \in Loggers : Abstract!Offer(m, l)
<1> USE PipelineAssumption DEF Threads
<1>t. /\ TypeOK /\ HandInv /\ FateInv /\ CountInv /\ SeenInv /\ CallInv
      /\ msg \in [Threads -> Msgs \cup {None}]
      /\ st \in [Msgs -> {"new", "called", "pending", "settled"}]
      /\ tasks \in [Loggers -> Int]
      /\ misused \in [Loggers -> BOOLEAN]
  BY DEF PipelineInv, IInv, OrderInv, TypeOK
<1>m. PICK m \in Msgs : m = msg[p]
  BY <1>t, AddEffect
<1>l. PICK l \in Loggers : l = to[m]
  BY <1>t, <1>m DEF HandInv, PrintAdd
<1>1. /\ pc[p] = "add" /\ pc'[p] \in {"send", "panicked"}
      /\ \A q \in Threads \ {p} : pc'[q] = pc[q] \/ (pc[q] = "parked" /\ pc'[q] = "woken")
      /\ st' = [st EXCEPT ![m] = "pending"]
      /\ msg' = msg
      /\ UNCHANGED <<to, fate, tologCh, sent, file>>
  BY <1>t, <1>m, AddEffect
<1>2. /\ misused' = [misused EXCEPT ![l] = @ \/ (tasks[l] + 1 = 1 /\ Parked(l) # {})]
      /\ arg' = arg /\ seen' = seen
  BY <1>m, <1>l DEF PrintAdd, callVars
<1>3. st[m] = "called" /\ fate[m] = "none"
  BY <1>t, <1>m, <1>1 DEF HandInv, FateInv
<1>4. AbsState[m] = "new" /\ AbsState' = [AbsState EXCEPT ![m] = "offered"]
  BY <1>t, <1>m, <1>1, <1>3 DEF AbsState
<1>5. AbsOwner' = [AbsOwner EXCEPT ![m] = l]
  BY <1>t, <1>l, <1>1, <1>3 DEF AbsOwner
<1>6. AbsQueue' = AbsQueue
  BY <1>1, SameQueue
<1>7. AbsWaiting' = AbsWaiting
  BY <1>1, <1>2, SameWaiting DEF Inside
<1>8. AbsOwed' = AbsOwed
  BY <1>1, <1>2, SameOwed
<1>9. CASE ~misused[l] /\ tasks[l] + 1 = 1 /\ Parked(l) # {}
  <2>1. misused' = [misused EXCEPT ![l] = TRUE]
    BY <1>2, <1>9
  <2>2. Cardinality(Pending(l)) = 0
    BY <1>t, <1>9 DEF CountInv
  <2>3. Pending(l) = {}
    BY <1>t, <2>2, FS_EmptySet DEF CountInv
  <2>4. PICK c \in Goroutines : pc[c] = "parked" /\ arg[c] = l
    BY <1>9 DEF Parked
  <2>5. \A n \in seen[c] : n \in Msgs /\ st[n] = "settled"
    BY <1>t, <2>3, <2>4 DEF SeenInv, Pending, TypeOK
  <2>6. AbsOwed[c] = {}
    BY <1>t, <2>5 DEF AbsOwed, HandInv
  <2>7. AbsWaiting[c] = l
    BY <2>4 DEF AbsWaiting
  <2> QED
    BY <1>1, <1>4, <1>5, <1>6, <1>7, <1>8, <2>1, <2>4, <2>6, <2>7
    DEF Abstract!Offer, Abstract!Waiters
<1>10. CASE ~(~misused[l] /\ tasks[l] + 1 = 1 /\ Parked(l) # {})
  <2>1. misused' = misused
    BY <1>t, <1>2, <1>10
  <2> QED
    BY <1>1, <1>4, <1>5, <1>6, <1>7, <1>8, <2>1 DEF Abstract!Offer
<1> QED
  BY <1>9, <1>10

-----------------------------------------------------------------------------
(* A sequence behind one more element. *)
LEMMA ConsProperties ==
  ASSUME NEW S, NEW c \in S, NEW s \in Seq(S)
  PROVE  /\ <<c>> \o s \in Seq(S) /\ <<c>> \o s # <<>>
         /\ Len(<<c>> \o s) = Len(s) + 1
         /\ Head(<<c>> \o s) = c
         /\ Tail(<<c>> \o s) = s
         /\ \A e \in S : Append(<<c>> \o s, e) = <<c>> \o Append(s, e)
<1> DEFINE cs == <<c>> \o s
<1>1. <<c>> \in Seq(S) /\ Len(<<c>>) = 1 /\ <<c>>[1] = c
  OBVIOUS
<1>n. Len(s) \in Nat
  BY LenProperties
<1>2. /\ cs \in Seq(S) /\ Len(cs) = Len(s) + 1
      /\ cs[1] = c /\ \A i \in 1..Len(s) : cs[i + 1] = s[i]
  <2>1. /\ cs \in Seq(S) /\ Len(cs) = 1 + Len(s)
        /\ \A i \in 1..1 + Len(s) : cs[i] = IF i <= 1 THEN <<c>>[i] ELSE s[i - 1]
    BY <1>1, ConcatProperties
  <2>2. \A i \in 1..Len(s) : i + 1 \in 1..1 + Len(s) /\ ~(i + 1 <= 1) /\ (i + 1) - 1 = i
    BY <1>n
  <2>3. 1 \in 1..1 + Len(s)
    BY <1>n
  <2> HIDE DEF cs
  <2>4. \A i \in 1..Len(s) : cs[i + 1] = s[i]
    BY <2>1, <2>2
  <2>5. cs[1] = c
    BY <1>1, <2>1, <2>3
  <2> QED
    BY <1>n, <2>1, <2>4, <2>5
<1> HIDE DEF cs
<1>3. cs # <<>>
  BY <1>n, <1>2, EmptySeq
<1>4. Head(cs) = c
  BY <1>2
<1>5. Tail(cs) = s
  <2>1. /\ Tail(cs) \in Seq(S) /\ Len(Tail(cs)) = Len(cs) - 1
        /\ \A i \in 1..Len(Tail(cs)) : Tail(cs)[i] = cs[i + 1]
    BY <1>2, <1>3, HeadTailProperties
  <2>2. Len(Tail(cs)) = Len(s)
    BY <1>n, <1>2, <2>1
  <2> QED
    BY <1>2, <2>1, <2>2, SeqEqual
<1>6. ASSUME NEW e \in S
      PROVE  Append(cs, e) = <<c>> \o Append(s, e)
  <2>1. Append(cs, e) = cs \o <<e>> /\ Append(s, e) = s \o <<e>>
    BY <1>2, AppendIsConcat
  <2>2. <<e>> \in Seq(S)
    OBVIOUS
  <2> QED
    BY <1>1, <2>1, <2>2, ConcatAssociative DEF cs
<1> QED
  BY <1>2, <1>3, <1>4, <1>5, <1>6 DEF cs

(* What the steps below need of the invariant. *)
LEMMA HandFacts ==
  ASSUME PipelineInv
  PROVE  /\ TypeOK /\ CallInv /\ HandInv /\ HeldInv /\ FateInv /\ MuteHasOwner
         /\ pc \in [Threads -> GoroutinePc \cup ConsumerPc]
         /\ msg \in [Threads -> Msgs \cup {None}]
         /\ st \in [Msgs -> {"new", "called", "pending", "settled"}]
         /\ fate \in [Msgs -> {"none", "muted", "dropped", "skipped", "lost", "written"}]
         /\ tologCh \in Seq(Msgs)
         /\ \A t \in Threads : pc[t] \in {"send", "open", "write", "done"} =>
              /\ msg[t] \in Msgs /\ st[msg[t]] = "pending" /\ to[msg[t]] \in Loggers
              /\ pc[t] = "done" <=> fate[msg[t]] # "none"
         /\ \A t, u \in Threads : msg[t] # None /\ msg[t] = msg[u] => t = u
         /\ AbsQueue \in Seq(Msgs)
<1>1. /\ TypeOK /\ CallInv /\ HandInv /\ HeldInv /\ FateInv /\ MuteHasOwner
      /\ pc \in [Threads -> GoroutinePc \cup ConsumerPc]
      /\ msg \in [Threads -> Msgs \cup {None}]
      /\ st \in [Msgs -> {"new", "called", "pending", "settled"}]
      /\ fate \in [Msgs -> {"none", "muted", "dropped", "skipped", "lost", "written"}]
      /\ tologCh \in Seq(Msgs)
  BY DEF PipelineInv, IInv, OrderInv, TypeOK
<1>2. \A t \in Threads : pc[t] \in {"send", "open", "write", "done"} =>
        /\ msg[t] \in Msgs /\ st[msg[t]] = "pending" /\ to[msg[t]] \in Loggers
        /\ pc[t] = "done" <=> fate[msg[t]] # "none"
  BY <1>1 DEF HandInv, FateInv
<1>3. Consumer \in Threads
  BY DEF Threads
<1>4. AbsQueue \in Seq(Msgs)
  BY <1>1, <1>2, <1>3, ConsProperties DEF AbsQueue
<1> QED
  BY <1>1, <1>2, <1>4 DEF HandInv

(* The send takes the message into the queue. *)
LEMMA PrintSendMaps ==
  ASSUME PipelineInv, NEW p \in Goroutines, PrintSend(p)
  PROVE  \E m \in Msgs : Abstract!Take(m)
<1> USE PipelineAssumption DEF Threads
<1>1. /\ pc[p] = "send"
      /\ tologCh' = Append(tologCh, msg[p])
      /\ \E x \in {"idle", "wait"} : pc' = [pc EXCEPT ![p] = x]
      /\ msg' = [msg EXCEPT ![p] = None]
      /\ UNCHANGED <<st, to, fate, arg, seen, misused, file>>
  BY DEF PrintSend, AfterPrint, callVars, wgVars, fileVars
<1>m. PICK m \in Msgs : m = msg[p]
  BY <1>1, HandFacts
<1>2. /\ st[m] = "pending" /\ fate[m] = "none"
      /\ \A q \in Threads : msg[q] = m <=> q = p
  BY <1>1, <1>m, HandFacts
<1>3. /\ \A q \in Threads : msg'[q] = IF q = p THEN None ELSE msg[q]
      /\ \A q \in Threads : q # p => pc'[q] = pc[q]
      /\ ~Inside(p) /\ ~Inside(p)'
  BY <1>1, HandFacts DEF Inside
<1>4. \A q \in Goroutines, n \in Msgs : n # m => (msg'[q] = n <=> msg[q] = n)
  BY <1>m, <1>3
<1>5. AbsState[m] = "offered" /\ AbsState' = [AbsState EXCEPT ![m] = "queued"]
  <2>1. ~\E q \in Goroutines : msg'[q] = m
    BY <1>2, <1>3
  <2>2. AbsState'[m] = "queued"
    BY <1>1, <1>2, <2>1 DEF AbsState
  <2>3. \A n \in Msgs : n # m => AbsState'[n] = AbsState[n]
    BY <1>1, <1>4 DEF AbsState
  <2>4. AbsState[m] = "offered"
    BY <1>2 DEF AbsState
  <2>5. AbsState = [n \in Msgs |-> AbsState[n]] /\ AbsState' = [n \in Msgs |-> AbsState'[n]]
    BY DEF AbsState
  <2> HIDE DEF AbsState
  <2> QED
    BY <2>2, <2>3, <2>4, <2>5
<1>6. AbsOwner' = AbsOwner
  BY <1>1 DEF AbsOwner
<1>7. AbsQueue' = Append(AbsQueue, m)
  <2>1. pc'[Consumer] = pc[Consumer] /\ msg'[Consumer] = msg[Consumer]
    BY <1>3
  <2>2. CASE pc[Consumer] \in {"open", "write"}
    <3>1. msg[Consumer] \in Msgs
      BY <2>2, HandFacts
    <3> QED
      BY <1>1, <1>m, <2>1, <2>2, <3>1, HandFacts, ConsProperties DEF AbsQueue
  <2>3. CASE pc[Consumer] \notin {"open", "write"}
    BY <1>1, <1>m, <2>1, <2>3 DEF AbsQueue
  <2> QED
    BY <2>2, <2>3
<1>8. AbsWaiting' = AbsWaiting
  BY <1>1, <1>3, SameWaiting DEF Inside
<1>9. AbsOwed' = AbsOwed
  BY <1>1, SameOwed
<1> QED
  BY <1>1, <1>5, <1>6, <1>7, <1>8, <1>9 DEF Abstract!Take

(* A message is dropped only when the queue has ChanCap messages or more. *)
LEMMA PrintDropMaps ==
  ASSUME PipelineInv, NEW p \in Goroutines, PrintDrop(p)
  PROVE  \E m \in Msgs : Abstract!Refuse(m)
<1> USE PipelineAssumption DEF Threads
<1>1. /\ pc[p] = "send" /\ Len(tologCh) >= ChanCap
      /\ fate' = [fate EXCEPT ![msg[p]] = "dropped"]
      /\ pc' = [pc EXCEPT ![p] = "done"]
      /\ UNCHANGED <<msg, st, to, arg, seen, tologCh, misused, file>>
  BY DEF PrintDrop, callVars, wgVars, fileVars
<1>m. PICK m \in Msgs : m = msg[p]
  BY <1>1, HandFacts
<1>2. st[m] = "pending" /\ fate[m] = "none"
  BY <1>1, <1>m, HandFacts
<1>3. Abstract!Finish(m)
  BY <1>1, <1>m, HandFacts, FinishStep
<1>4. AbsState[m] = "offered"
  BY <1>m, <1>2 DEF AbsState
<1>5. AbsOwner' = AbsOwner
  <2>1. \A n \in Msgs : fate'[n] = "muted" <=> fate[n] = "muted"
    BY <1>1, <1>m, <1>2, HandFacts
  <2> QED
    BY <1>1, <2>1 DEF AbsOwner
<1>6. \A q \in Threads : q # p => pc'[q] = pc[q]
  BY <1>1, HandFacts
<1>7. AbsQueue' = AbsQueue
  BY <1>1, <1>6, SameQueue
<1>8. AbsWaiting' = AbsWaiting
  <2>1. ~Inside(p) /\ ~Inside(p)'
    BY <1>1, HandFacts DEF Inside
  <2> QED
    BY <1>1, <1>6, <2>1, SameWaiting DEF Inside
<1>9. Len(AbsQueue) >= ChanCap
  <2>1. Len(tologCh) \in Nat
    BY HandFacts
  <2>2. pc[Consumer] \in {"open", "write"} => Len(AbsQueue) = Len(tologCh) + 1
    BY HandFacts, ConsProperties DEF AbsQueue
  <2> QED
    BY <1>1, <2>1, <2>2 DEF AbsQueue
<1> QED
  BY <1>1, <1>3, <1>4, <1>5, <1>7, <1>8, <1>9 DEF Abstract!Refuse

(* The consumer settles the message in its hand, the oldest of the queue:   *)
(* written, or given up when a call of the file system fails.               *)
LEMMA ServeMaps ==
  ASSUME PipelineInv, OpenFails \/ WriteLog \/ WriteFails
  PROVE  Abstract!Serve
<1> USE PipelineAssumption DEF Threads
<1> DEFINE Wrote(m) == file' = [file EXCEPT ![to[m]] = Append(@, m)]
<1>1. /\ pc[Consumer] \in {"open", "write"}
      /\ pc' = [pc EXCEPT ![Consumer] = "done"]
      /\ \E x \in {"skipped", "lost", "written"} : fate' = [fate EXCEPT ![msg[Consumer]] = x]
      /\ Wrote(msg[Consumer]) \/ file' = file
      /\ UNCHANGED <<msg, st, to, arg, seen, tologCh, misused>>
  BY DEF OpenFails, WriteLog, WriteFails, callVars, chanVars, wgVars, fileVars
<1>m. PICK m \in Msgs : m = msg[Consumer]
  BY <1>1, HandFacts
<1>2. st[m] = "pending" /\ fate[m] = "none" /\ to[m] \in Loggers
  BY <1>1, <1>m, HandFacts
<1>3. Abstract!Finish(m)
  BY <1>1, <1>m, HandFacts, FinishStep
<1>4. AbsOwner' = AbsOwner /\ AbsOwner[m] = to[m]
  <2>1. \A n \in Msgs : fate'[n] = "muted" <=> fate[n] = "muted"
    BY <1>1, <1>m, <1>2, HandFacts
  <2> QED
    BY <1>1, <1>2, <2>1 DEF AbsOwner
<1>5. pc'[Consumer] = "done" /\ \A q \in Threads : q # Consumer => pc'[q] = pc[q]
  BY <1>1, HandFacts
<1>6. AbsQueue # <<>> /\ Head(AbsQueue) = m /\ AbsQueue' = Tail(AbsQueue)
  <2>1. AbsQueue = <<m>> \o tologCh /\ AbsQueue' = tologCh
    BY <1>1, <1>m, <1>5 DEF AbsQueue
  <2> QED
    BY <2>1, HandFacts, ConsProperties
<1>7. AbsWaiting' = AbsWaiting
  BY <1>1, <1>5, SameWaiting DEF Inside
<1>8. Wrote(m) \/ file' = file
  BY <1>1, <1>m
<1> QED
  BY <1>1, <1>3, <1>4, <1>6, <1>7, <1>8 DEF Abstract!Serve

(* The Wait that finds waitStarted clear begins to wait, for what is        *)
(* pending: the messages AsyncLog calls unfinished.                         *)
LEMMA WaitBeginMaps ==
  ASSUME PipelineInv, NEW p \in Goroutines, WaitBegin(p)
  PROVE  \E l \in Loggers : Abstract!WaitBegin(p, l)
<1> USE PipelineAssumption DEF Threads
<1>l. PICK l \in Loggers : l = arg[p]
  BY HandFacts DEF WaitBegin, CallInv
<1>1. /\ pc[p] = "wait" /\ ~waitStarted[l]
      /\ pc' = [pc EXCEPT ![p] = "wg"]
      /\ seen' = [seen EXCEPT ![p] = Pending(l)]
      /\ UNCHANGED <<msg, arg, st, to, fate, tologCh, misused, file>>
  BY <1>l DEF WaitBegin, chanVars, wgVars, fileVars
<1>2. pc'[p] = "wg" /\ \A q \in Threads : q # p => pc'[q] = pc[q]
  BY <1>1, HandFacts
<1>3. AbsState' = AbsState /\ AbsOwner' = AbsOwner
  BY <1>1, SameMessages DEF Counted
<1>4. AbsQueue' = AbsQueue
  BY <1>1, <1>2, SameQueue
<1>5. AbsWaiting[p] = None /\ AbsWaiting' = [AbsWaiting EXCEPT ![p] = l]
  BY <1>l, <1>1, <1>2 DEF AbsWaiting
<1>6. Abstract!Waiters(l) = {}
  <2>1. \A q \in Goroutines : ~(Inside(q) /\ arg[q] = l)
    BY <1>1, HandFacts DEF MuteHasOwner, Waiting, Inside
  <2>2. \A q \in Goroutines : AbsWaiting[q] # l
    BY <2>1 DEF AbsWaiting, Inside
  <2> QED
    BY <2>2 DEF Abstract!Waiters
<1>7. Abstract!Unfinished(l) = {m \in Pending(l) : fate[m] = "none"}
  <2>1. \A m \in Msgs : fate[m] = "none" /\ Counted(m) <=> fate[m] = "none" /\ st[m] = "pending"
    BY HandFacts DEF Counted, HandInv
  <2>2. \A m \in Msgs : AbsState[m] \in {"offered", "queued"} <=> fate[m] = "none" /\ Counted(m)
    BY DEF AbsState, Counted
  <2>3. \A m \in Msgs : fate[m] = "none" /\ Counted(m) => AbsOwner[m] = to[m]
    BY DEF AbsOwner, Counted
  <2> QED
    BY <2>1, <2>2, <2>3 DEF Abstract!Unfinished, Pending
<1>8. AbsOwed' = [AbsOwed EXCEPT ![p] = Abstract!Unfinished(l)]
  <2>1. \A q \in Goroutines : seen'[q] = IF q = p THEN Pending(l) ELSE seen[q]
    BY <1>1, HandFacts DEF TypeOK
  <2>2. AbsOwed' = [q \in Goroutines |-> {m \in seen'[q] : fate[m] = "none"}]
    BY <1>1 DEF AbsOwed
  <2>3. AbsOwed' = [q \in Goroutines |-> IF q = p THEN Abstract!Unfinished(l) ELSE AbsOwed[q]]
    BY <1>7, <2>1, <2>2 DEF AbsOwed
  <2>4. DOMAIN AbsOwed = Goroutines
    BY DEF AbsOwed
  <2> HIDE DEF AbsOwed
  <2> QED
    BY <2>3, <2>4
<1> QED
  BY <1>1, <1>3, <1>4, <1>5, <1>6, <1>8 DEF Abstract!WaitBegin

(* Wait returns when everything it was owed is finished: FlushGuarantee.    *)
LEMMA WaitEndMaps ==
  ASSUME PipelineInv, NEW p \in Goroutines, WaitEnd(p)
  PROVE  Abstract!WaitReturn(p)
<1> USE PipelineAssumption DEF Threads
<1>1. /\ pc[p] = "end"
      /\ \E x \in {"idle", "close", "panicked"} : pc' = [pc EXCEPT ![p] = x]
      /\ seen' = [seen EXCEPT ![p] = {}]
      /\ arg' = arg \/ arg' = [arg EXCEPT ![p] = None]
      /\ UNCHANGED <<msg, st, to, fate, tologCh, misused, file>>
  <2>1. pc[p] = "end" /\ ReturnFromWait(p) /\ UNCHANGED <<msg, st, to, fate, tologCh, misused, file>>
    BY DEF WaitEnd, chanVars, wgVars, fileVars
  <2>2. op[p] \in {"wait", "close", "fatal"}
    BY <2>1, HandFacts DEF CallInv, TypeOK
  <2>3. \E x \in {"idle", "close", "panicked"} : pc' = [pc EXCEPT ![p] = x]
    BY <2>1, <2>2, AfterWaitPc DEF ReturnFromWait
  <2> QED
    BY <2>1, <2>3 DEF ReturnFromWait
<1>2. /\ ~Inside(p)'
      /\ \A q \in Threads : q # p => pc'[q] = pc[q]
      /\ \A q \in Goroutines : q # p => arg'[q] = arg[q] /\ seen'[q] = seen[q]
      /\ seen'[p] = {}
  BY <1>1, HandFacts DEF Inside, TypeOK
<1>3. arg[p] \in Loggers
  BY <1>1, HandFacts DEF CallInv
<1>4. AbsState' = AbsState /\ AbsOwner' = AbsOwner
  BY <1>1, SameMessages DEF Counted
<1>5. AbsQueue' = AbsQueue
  BY <1>1, <1>2, SameQueue
<1>6. AbsWaiting[p] = arg[p] /\ AbsWaiting' = [AbsWaiting EXCEPT ![p] = None]
  BY <1>1, <1>2 DEF AbsWaiting, Inside
<1>7. AbsOwed' = [AbsOwed EXCEPT ![p] = {}]
  BY <1>1, <1>2 DEF AbsOwed
<1>8. AbsOwed[p] = {} \/ misused[arg[p]]
  BY <1>1 DEF PipelineInv, IInv, FlushGuarantee, AbsOwed
<1> QED
  BY <1>1, <1>3, <1>4, <1>5, <1>6, <1>7, <1>8 DEF Abstract!WaitReturn

-----------------------------------------------------------------------------
(* The steps that AsyncLog does not see: Done and the release of the        *)
(* waiters, whose messages have their fate already, *)
LEMMA WgDoneMaps ==
  ASSUME PipelineInv, NEW t \in Threads, WgDoneStep(t)
  PROVE  UNCHANGED Abstract!vars
<1> USE PipelineAssumption DEF Threads
<1>1. /\ fate' = fate /\ to' = to /\ tologCh' = tologCh /\ file' = file
      /\ arg' = arg /\ seen' = seen /\ misused' = misused
  BY DEF WgDoneStep, Done, Release, ReleasePanic, ReleaseReset, callVars, chanVars, wgVars, fileVars
<1>2. /\ pc[t] \in {"done", "release"}
      /\ pc'[t] \in {"release", "recv", "idle", "wait", "panicked"}
      /\ \A q \in Threads \ {t} : pc'[q] = pc[q] \/ (pc[q] = "parked" /\ pc'[q] = "woken")
      /\ msg' \in {msg, [msg EXCEPT ![t] = None]}
      /\ st' \in {st, [st EXCEPT ![msg[t]] = "settled"]}
  <2>1. CASE Done(t)
    <3>1. pc[t] = "done" /\ \E x \in {"release", "recv", "idle", "wait", "panicked"} : pc' = [pc EXCEPT ![t] = x]
      BY <2>1 DEF Done, AfterDone, AfterPrint
    <3>2. msg' \in {msg, [msg EXCEPT ![t] = None]} /\ st' = [st EXCEPT ![msg[t]] = "settled"]
      BY <2>1 DEF Done
    <3> QED
      BY <3>1, <3>2, HandFacts
  <2>2. CASE Release(t) \/ ReleasePanic(t) \/ ReleaseReset(t)
    BY <2>2, HandFacts, ReleaseEffect DEF messageVars
  <2> QED
    BY <2>1, <2>2 DEF WgDoneStep
<1>3. msg[t] \in Msgs /\ fate[msg[t]] # "none" /\ Counted(msg[t])
  <2>1. pc[t] = "release" => msg[t] \in Msgs /\ st[msg[t]] = "settled"
    BY HandFacts DEF HeldInv
  <2>2. pc[t] = "release" => fate[msg[t]] # "none"
    BY <2>1, HandFacts DEF HandInv
  <2> QED
    BY <1>2, <2>1, <2>2, HandFacts DEF Counted
<1>4. \A m \in Msgs : Counted(m)' <=> Counted(m)
  BY <1>2, <1>3, HandFacts DEF Counted
<1>5. \A m \in Msgs, q \in Goroutines : fate[m] = "none" => (msg'[q] = m <=> msg[q] = m)
  BY <1>2, <1>3, HandFacts
<1>6. AbsState' = AbsState /\ AbsOwner' = AbsOwner
  BY <1>1, <1>4, <1>5, SameMessages
<1>7. AbsQueue' = AbsQueue
  <2>1. pc'[Consumer] \in {"open", "write"} <=> pc[Consumer] \in {"open", "write"}
    BY <1>2
  <2>2. pc[Consumer] \in {"open", "write"} => msg'[Consumer] = msg[Consumer]
    BY <1>2, HandFacts
  <2> QED
    BY <1>1, <2>1, <2>2, SameQueue
<1>8. AbsWaiting' = AbsWaiting
  BY <1>1, <1>2, SameWaiting DEF Inside
<1>9. AbsOwed' = AbsOwed
  BY <1>1, SameOwed
<1> QED
  BY <1>1, <1>6, <1>7, <1>8, <1>9 DEF Abstract!vars

(* the consumer's receive and its look at the log file, *)
LEMMA ConsumerMaps ==
  ASSUME PipelineInv, Receive \/ OpenLog
  PROVE  UNCHANGED Abstract!vars
<1> USE PipelineAssumption DEF Threads
<1>1. /\ fate' = fate /\ to' = to /\ st' = st /\ file' = file
      /\ arg' = arg /\ seen' = seen /\ misused' = misused
      /\ \E x \in {"open", "write"} : pc' = [pc EXCEPT ![Consumer] = x]
      /\ msg' = msg \/ \E m : msg' = [msg EXCEPT ![Consumer] = m]
  BY DEF Receive, OpenLog, callVars, wgVars, fileVars
<1>2. /\ \A q \in Goroutines : pc'[q] = pc[q] /\ msg'[q] = msg[q]
      /\ pc'[Consumer] \in {"open", "write"}
  BY <1>1, HandFacts
<1>3. AbsState' = AbsState /\ AbsOwner' = AbsOwner
  BY <1>1, <1>2, SameMessages DEF Counted
<1>4. AbsQueue' = AbsQueue
  <2>1. CASE Receive
    <3>1. /\ pc[Consumer] = "recv" /\ tologCh # <<>> /\ tologCh' = Tail(tologCh)
          /\ msg'[Consumer] = Head(tologCh)
      BY <2>1, HandFacts DEF Receive
    <3>2. /\ Head(tologCh) \in Msgs /\ Tail(tologCh) \in Seq(Msgs)
          /\ tologCh = <<Head(tologCh)>> \o Tail(tologCh)
      <4>1. /\ Len(tologCh) \in Nat \ {0} /\ Head(tologCh) = tologCh[1]
            /\ 1 \in 1..Len(tologCh) /\ Len(tologCh) \in 1..Len(tologCh)
        BY <3>1, HandFacts, EmptySeq
      <4>2. SubSeq(tologCh, 1, Len(tologCh)) = <<tologCh[1]>> \o SubSeq(tologCh, 1 + 1, Len(tologCh))
        BY <4>1, HandFacts, SubSeqRecursiveFirst
      <4>3. Tail(tologCh) = SubSeq(tologCh, 2, Len(tologCh))
        BY <3>1, HandFacts, TailIsSubSeq
      <4>4. SubSeq(tologCh, 1, Len(tologCh)) = tologCh
        BY HandFacts, SubSeqFull
      <4> QED
        BY <3>1, <4>1, <4>2, <4>3, <4>4, HandFacts, HeadTailProperties
    <3> QED
      BY <1>2, <3>1, <3>2 DEF AbsQueue
  <2>2. CASE OpenLog
    <3>1. pc[Consumer] = "open" /\ msg' = msg /\ tologCh' = tologCh
      BY <2>2 DEF OpenLog, chanVars
    <3> QED
      BY <1>2, <3>1, SameQueue
  <2> QED
    BY <2>1, <2>2
<1>5. AbsWaiting' = AbsWaiting
  BY <1>1, <1>2, SameWaiting DEF Inside
<1>6. AbsOwed' = AbsOwed
  BY <1>1, SameOwed
<1> QED
  BY <1>1, <1>3, <1>4, <1>5, <1>6 DEF Abstract!vars

(* and the steps of Wait and Close between its begin and its end.  The Wait *)
(* that is turned away returns at once and is never owed anything.          *)
LEMMA WaitMaps ==
  ASSUME PipelineInv, NEW p \in Goroutines,
         \/ \E l \in Loggers, o \in {"wait", "close"} : WaitCall(p, l, o)
         \/ WaitTurnedAway(p) \/ WgWait(p) \/ WgReturn(p) \/ WgReusePanic(p) \/ CloseLog(p)
  PROVE  UNCHANGED Abstract!vars
<1> USE PipelineAssumption DEF Threads
<1>1. /\ UNCHANGED messageVars
      /\ msg' = msg /\ misused' = misused
  <2>1. msg' = msg /\ UNCHANGED messageVars
    BY HandFacts, WaitEffect
  <2>2. misused' = misused
    BY DEF WaitCall, WaitTurnedAway, WgWait, WgReturn, WgReusePanic, CloseLog, wgVars
  <2> QED
    BY <2>1, <2>2
<1>2. /\ \A q \in Threads : q # p => pc'[q] = pc[q]
      /\ \A q \in Goroutines : q # p => arg'[q] = arg[q]
      /\ Inside(p)' <=> Inside(p)
      /\ Inside(p) => arg'[p] = arg[p]
      /\ seen' = seen
  <2>1. CASE WaitTurnedAway(p)
    <3>1. pc[p] = "wait" /\ ReturnFromWait(p)
      BY <2>1 DEF WaitTurnedAway
    <3>2. \E x \in {"idle", "close", "panicked"} : pc' = [pc EXCEPT ![p] = x]
      <4>1. op[p] \in {"wait", "close", "fatal"}
        BY <3>1, HandFacts DEF CallInv, TypeOK
      <4> QED
        BY <3>1, <4>1, AfterWaitPc DEF ReturnFromWait
    <3>3. seen[p] = {} /\ seen' = [seen EXCEPT ![p] = {}]
      BY <3>1 DEF PipelineInv, OrderInv, OwedInv, ReturnFromWait
    <3>4. arg' = arg \/ arg' = [arg EXCEPT ![p] = None]
      BY <3>1 DEF ReturnFromWait
    <3> QED
      BY <3>1, <3>2, <3>3, <3>4, HandFacts DEF Inside, TypeOK
  <2>2. CASE WgWait(p) \/ WgReturn(p) \/ WgReusePanic(p)
    <3>1. /\ pc[p] \in {"wg", "woken"} /\ arg' = arg /\ seen' = seen
          /\ \E x \in {"end", "parked", "panickedInWait"} : pc' = [pc EXCEPT ![p] = x]
      BY <2>2 DEF WgWait, WgReturn, WgReusePanic, callVars
    <3> QED
      BY <3>1, HandFacts DEF Inside
  <2>3. CASE CloseLog(p) \/ \E l \in Loggers, o \in {"wait", "close"} : WaitCall(p, l, o)
    <3>1. /\ pc[p] \in {"close", "idle"} /\ seen' = seen
          /\ \E x \in {"idle", "wait"} : pc' = [pc EXCEPT ![p] = x]
          /\ \E x : arg' = [arg EXCEPT ![p] = x]
      BY <2>3 DEF CloseLog, WaitCall
    <3> QED
      BY <3>1, HandFacts DEF Inside, TypeOK
  <2> QED
    BY <2>1, <2>2, <2>3
<1>3. AbsState' = AbsState /\ AbsOwner' = AbsOwner
  BY <1>1, SameMessages DEF Counted, messageVars
<1>4. AbsQueue' = AbsQueue
  BY <1>1, <1>2, SameQueue DEF messageVars
<1>5. AbsWaiting' = AbsWaiting
  BY <1>2, SameWaiting DEF Inside
<1>6. AbsOwed' = AbsOwed
  BY <1>1, <1>2, SameOwed DEF messageVars
<1> QED
  BY <1>1, <1>3, <1>4, <1>5, <1>6 DEF Abstract!vars, messageVars

-----------------------------------------------------------------------------
LEMMA NextMaps == PipelineInv /\ [Next]_vars => [Abstract!Next]_(Abstract!vars)
<1> SUFFICES ASSUME PipelineInv, [Next]_vars
             PROVE  Abstract!Next \/ UNCHANGED Abstract!vars
  OBVIOUS
<1>1. ASSUME ConsumerStep
      PROVE  Abstract!Next \/ UNCHANGED Abstract!vars
  BY <1>1, ConsumerMaps, ServeMaps DEF ConsumerStep, Abstract!Next
<1>2. ASSUME NEW t \in Threads, WgDoneStep(t)
      PROVE  UNCHANGED Abstract!vars
  BY <1>2, WgDoneMaps
<1>3. ASSUME NEW p \in Goroutines, CallStep(p)
      PROVE  Abstract!Next \/ UNCHANGED Abstract!vars
  BY <1>3, PrintAddMaps, PrintSendMaps, PrintDropMaps, WaitBeginMaps, WaitEndMaps, WaitMaps
  DEF CallStep, Abstract!Next
<1>4. ASSUME NEW p \in Goroutines, Calls(p)
      PROVE  Abstract!Next \/ UNCHANGED Abstract!vars
  BY <1>4, PrintCallMaps, WaitMaps DEF Calls, Abstract!Next
<1>5. ASSUME UNCHANGED vars
      PROVE  UNCHANGED Abstract!vars
  <2>1. UNCHANGED <<pc, msg, st, to, fate, seen, arg, tologCh, file, misused>>
    BY <1>5 DEF vars, callVars, chanVars, wgVars, fileVars
  <2>2. UNCHANGED <<AbsState, AbsOwner, AbsQueue, AbsWaiting, AbsOwed>>
    BY <2>1 DEF AbsState, AbsOwner, AbsQueue, AbsWaiting, AbsOwed
  <2> QED
    BY <2>1, <2>2 DEF Abstract!vars
<1> QED
  BY <1>1, <1>2, <1>3, <1>4, <1>5 DEF Next

(* Every behaviour of print, the consumer and Wait is one of AsyncLog: what *)
(* is taken is written once and in order or given up, messages are turned   *)
(* away only while somebody waits or the queue is full, and a waiter        *)
(* returns when all it found unfinished is finished.                        *)
THEOREM Implements == Spec => ImplementsAsyncLog
BY InitMaps, NextMaps, PipelineInvariantHolds, PTL DEF Spec, ImplementsAsyncLog, Abstract!Spec
=============================================================================
