--------------------------- MODULE LoggerDirectory ---------------------------
(***************************************************************************)
(* What the cache of loggers promises, without the mutexes, the two looks  *)
(* into the cache, the snapshot of its keys and the per-logger flags:      *)
(*                                                                         *)
(*   - a name has at most one live logger, every caller that asks for the  *)
(*     name is given that one, and a logger serves one name for ever;      *)
(*   - a logger is displaced only when the directory is full, one at a     *)
(*     time, never to be live again, and the caller that displaced it is   *)
(*     answered when the messages it left unfinished are finished;         *)
(*   - Wait covers at once everything unfinished in the live loggers;      *)
(*   - a promise about a logger lapses only while another caller waits for *)
(*     that logger and, for Wait, when the logger is displaced;            *)
(*   - a logger breaks only when something is printed to it after it was   *)
(*     found finished by a caller that still waits: from then on nothing   *)
(*     is promised about it.                                               *)
(***************************************************************************)
EXTENDS Integers, FiniteSets

CONSTANTS Callers, Names, Loggers, Msgs, Capacity, None  (* None is no logger *)

VARIABLES
  live,      (* the live logger of a name, or None                         *)
  nameOf,    (* the name that a logger serves, or None: it was never live  *)
  given,     (* the loggers that the application has                       *)
  state,     (* "new", "admitted", "pending" or "settled", of each message *)
  owner,     (* the logger it was printed to                               *)
  muted,     (* the loggers that take no messages                          *)
  broken,    (* the loggers about which nothing is promised any more       *)
  waitsFor,  (* the logger whose messages a caller waits for, or None      *)
  through,   (* the callers that found it finished                         *)
  opening,   (* the logger a caller is to be given, or None                *)
  covering,  (* the caller waits for all live loggers                      *)
  owed       (* the unfinished messages that a caller's answer waits for   *)

callers == <<waitsFor, through, opening, covering, owed>>
vars == <<live, nameOf, given, state, owner, muted, broken, callers>>

LiveNames == {f \in Names : live[f] # None}
LiveLoggers == {live[f] : f \in LiveNames}
Unfinished(logs) == {m \in Msgs : state[m] = "pending" /\ owner[m] \in logs}

Init ==
  /\ live = [f \in Names |-> None]
  /\ nameOf = [l \in Loggers |-> None]
  /\ given = {}
  /\ state = [m \in Msgs |-> "new"]
  /\ owner = [m \in Msgs |-> None]
  /\ muted = {}
  /\ broken = {}
  /\ waitsFor = [c \in Callers |-> None]
  /\ through = {}
  /\ opening = [c \in Callers |-> None]
  /\ covering = [c \in Callers |-> FALSE]
  /\ owed = [c \in Callers |-> {}]

Give(f) ==
  /\ live[f] # None
  /\ given' = given \cup {live[f]}
  /\ UNCHANGED <<live, nameOf, state, owner, muted, broken, callers>>

(* The name has no logger, this one was never live, and no call is making   *)
(* room for another.                                                        *)
CanMake(f, l) ==
  /\ live[f] = None
  /\ nameOf[l] = None
  /\ \A c \in Callers : opening[c] = None

Make(f, l) ==
  /\ CanMake(f, l)
  /\ Cardinality(LiveNames) < Capacity
  /\ live' = [live EXCEPT ![f] = l]
  /\ nameOf' = [nameOf EXCEPT ![l] = f]
  /\ given' = given \cup {l}
  /\ UNCHANGED <<state, owner, muted, broken, callers>>

Displace(c, f, l, old) ==
  /\ CanMake(f, l)
  /\ live[old] # None
  /\ Cardinality(LiveNames) = Capacity
  /\ live' = [live EXCEPT ![old] = None, ![f] = l]
  /\ nameOf' = [nameOf EXCEPT ![l] = f]
  /\ opening' = [opening EXCEPT ![c] = l]
  /\ owed' = [d \in Callers |-> IF d = c THEN Unfinished({live[old]} \ broken)
                                ELSE owed[d] \ Unfinished({live[old]})]
  /\ UNCHANGED <<given, state, owner, muted, broken, waitsFor, through, covering>>

Opened(c) ==
  /\ opening[c] # None
  /\ owed[c] = {}
  /\ opening' = [opening EXCEPT ![c] = None]
  /\ given' = given \cup {opening[c]}
  /\ UNCHANGED <<live, nameOf, state, owner, muted, broken, waitsFor, through, covering, owed>>

CoverBegin(c) ==
  /\ \A d \in Callers : ~covering[d]
  /\ opening[c] = None
  /\ covering' = [covering EXCEPT ![c] = TRUE]
  /\ owed' = [owed EXCEPT ![c] = Unfinished(LiveLoggers \ broken)]
  /\ UNCHANGED <<live, nameOf, given, state, owner, muted, broken, waitsFor, through, opening>>

CoverEnd(c) ==
  /\ covering[c]
  /\ owed[c] = {}
  /\ covering' = [covering EXCEPT ![c] = FALSE]
  /\ UNCHANGED <<live, nameOf, given, state, owner, muted, broken, waitsFor, through, opening, owed>>

WaitBegin(c, l) ==
  /\ waitsFor[c] = None
  /\ l \notin muted
  /\ muted' = muted \cup {l}
  /\ waitsFor' = [waitsFor EXCEPT ![c] = l]
  /\ UNCHANGED <<live, nameOf, given, state, owner, broken, through, opening, covering, owed>>

Pass(c) ==
  /\ waitsFor[c] # None
  /\ Unfinished({waitsFor[c]} \ broken) = {}
  /\ through' = through \cup {c}
  /\ UNCHANGED <<live, nameOf, given, state, owner, muted, broken, waitsFor, opening, covering, owed>>

WaitEnd(c) ==
  /\ waitsFor[c] # None
  /\ c \in through
  /\ muted' = muted \ {waitsFor[c]}
  /\ waitsFor' = [waitsFor EXCEPT ![c] = None]
  /\ through' = through \ {c}
  /\ UNCHANGED <<live, nameOf, given, state, owner, broken, opening, covering, owed>>

(* The wait for a broken logger, and the call around it, come to nothing:   *)
(* the logger stays mute.                                                   *)
Abandon(c) ==
  /\ waitsFor[c] \in broken
  /\ c \notin through
  /\ waitsFor' = [waitsFor EXCEPT ![c] = None]
  /\ opening' = [opening EXCEPT ![c] = None]
  /\ covering' = [covering EXCEPT ![c] = FALSE]
  /\ owed' = [owed EXCEPT ![c] = {}]
  /\ UNCHANGED <<live, nameOf, given, state, owner, muted, broken, through>>

(* Another caller waits for the logger: this one no longer does. *)
Lapse(c, l) ==
  /\ l \in broken \/ \E d \in Callers \ {c} : waitsFor[d] = l
  /\ owed' = [owed EXCEPT ![c] = @ \ Unfinished({l})]
  /\ UNCHANGED <<live, nameOf, given, state, owner, muted, broken, waitsFor, through, opening, covering>>

PrintTo(m, l) ==
  /\ state[m] = "new"
  /\ l \in given
  /\ state' = [state EXCEPT ![m] = IF l \in muted THEN "settled" ELSE "admitted"]
  /\ owner' = [owner EXCEPT ![m] = l]
  /\ UNCHANGED <<live, nameOf, given, muted, broken, callers>>

(* A message that was admitted becomes one to wait for, perhaps too late.   *)
Enter(m) ==
  /\ state[m] = "admitted"
  /\ state' = [state EXCEPT ![m] = "pending"]
  /\ \/ UNCHANGED broken
     \/ /\ Unfinished({owner[m]}) = {}
        /\ \E c \in Callers \ through : waitsFor[c] = owner[m]
        /\ broken' = broken \cup {owner[m]}
  /\ UNCHANGED <<live, nameOf, given, owner, muted, callers>>

Settle(m) ==
  /\ state[m] = "pending"
  /\ state' = [state EXCEPT ![m] = "settled"]
  /\ owed' = [c \in Callers |-> owed[c] \ {m}]
  /\ UNCHANGED <<live, nameOf, given, owner, muted, broken, waitsFor, through, opening, covering>>

Next ==
  \/ \E f \in Names : Give(f)
  \/ \E f \in Names, l \in Loggers : Make(f, l)
  \/ \E c \in Callers, f, old \in Names, l \in Loggers : Displace(c, f, l, old)
  \/ \E c \in Callers : Opened(c) \/ CoverBegin(c) \/ CoverEnd(c)
  \/ \E c \in Callers : Pass(c) \/ WaitEnd(c) \/ Abandon(c)
  \/ \E c \in Callers, l \in Loggers : WaitBegin(c, l) \/ Lapse(c, l)
  \/ \E m \in Msgs, l \in Loggers : PrintTo(m, l)
  \/ \E m \in Msgs : Enter(m) \/ Settle(m)

Spec == Init /\ [][Next]_vars
=============================================================================
