------------------------------ MODULE AsyncLog ------------------------------
(***************************************************************************)
(* What the asynchronous write path promises, without the channel, the     *)
(* consumer goroutine, the WaitGroup and the mutexes it is made of:        *)
(*                                                                         *)
(*   - a message offered to a logger is written to that logger's file      *)
(*     once, in the order in which the messages were taken, or is given up *)
(*     by one of the ways the code has to give up;                         *)
(*   - prints are turned away only while somebody waits for the logger,    *)
(*     and messages refused only while the backlog is full;                *)
(*   - one caller at a time waits for a logger, and returns when all the   *)
(*     messages it found unfinished are finished.                          *)
(***************************************************************************)
EXTENDS Integers, Sequences

CONSTANTS Callers, Loggers, Msgs, Capacity, None   (* None is no logger *)

VARIABLES
  state,    (* "new", "offered", "queued", "done" of each message          *)
  owner,    (* the logger it was offered to                                *)
  queue,    (* the messages taken and not finished, oldest first           *)
  file,     (* what it wrote                                               *)
  waiting,  (* the logger a caller waits for                               *)
  owed,     (* the unfinished messages it found, less those finished since *)
  void      (* the promise to waiters is off: an offer raced with a return *)

vars == <<state, owner, queue, file, waiting, owed, void>>

Waiters(l) == {c \in Callers : waiting[c] = l}
Unfinished(l) == {m \in Msgs : owner[m] = l /\ state[m] \in {"offered", "queued"}}

Init ==
  /\ state = [m \in Msgs |-> "new"]
  /\ owner = [m \in Msgs |-> None]
  /\ queue = <<>>
  /\ file = [l \in Loggers |-> <<>>]
  /\ waiting = [c \in Callers |-> None]
  /\ owed = [c \in Callers |-> {}]
  /\ void = [l \in Loggers |-> FALSE]

(* m is done with: nobody is owed it any more. *)
Finish(m) ==
  /\ state' = [state EXCEPT ![m] = "done"]
  /\ owed' = [c \in Callers |-> owed[c] \ {m}]

Mute(m, l) ==
  /\ state[m] = "new"
  /\ Waiters(l) # {}
  /\ Finish(m)
  /\ UNCHANGED <<owner, queue, file, waiting, void>>

Offer(m, l) ==
  /\ state[m] = "new"
  /\ state' = [state EXCEPT ![m] = "offered"]
  /\ owner' = [owner EXCEPT ![m] = l]
  /\ \/ UNCHANGED void
     \/ /\ \E c \in Waiters(l) : owed[c] = {}
        /\ void' = [void EXCEPT ![l] = TRUE]
  /\ UNCHANGED <<queue, file, waiting, owed>>

Take(m) ==
  /\ state[m] = "offered"
  /\ state' = [state EXCEPT ![m] = "queued"]
  /\ queue' = Append(queue, m)
  /\ UNCHANGED <<owner, file, waiting, owed, void>>

Refuse(m) ==
  /\ state[m] = "offered"
  /\ Len(queue) >= Capacity
  /\ Finish(m)
  /\ UNCHANGED <<owner, queue, file, waiting, void>>

(* The oldest message is written, or lost to a failed call.                *)
Serve ==
  LET m == Head(queue) IN
  /\ queue # <<>>
  /\ Finish(m)
  /\ queue' = Tail(queue)
  /\ \/ file' = [file EXCEPT ![owner[m]] = Append(@, m)]
     \/ UNCHANGED file
  /\ UNCHANGED <<owner, waiting, void>>

WaitBegin(c, l) ==
  /\ waiting[c] = None
  /\ Waiters(l) = {}
  /\ waiting' = [waiting EXCEPT ![c] = l]
  /\ owed' = [owed EXCEPT ![c] = Unfinished(l)]
  /\ UNCHANGED <<state, owner, queue, file, void>>

WaitReturn(c) ==
  /\ waiting[c] # None
  /\ owed[c] = {} \/ void[waiting[c]]
  /\ waiting' = [waiting EXCEPT ![c] = None]
  /\ owed' = [owed EXCEPT ![c] = {}]
  /\ UNCHANGED <<state, owner, queue, file, void>>

Next ==
  \/ \E m \in Msgs : Take(m) \/ Refuse(m)
  \/ \E m \in Msgs, l \in Loggers : Mute(m, l) \/ Offer(m, l)
  \/ Serve
  \/ \E c \in Callers : WaitReturn(c) \/ \E l \in Loggers : WaitBegin(c, l)

Spec == Init /\ [][Next]_vars
=============================================================================
