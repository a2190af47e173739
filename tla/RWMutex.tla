------------------------------ MODULE RWMutex ------------------------------
(***************************************************************************)
(* sync.RWMutex as gateway.core.go uses it (Gateway.mu): operators on one  *)
(* lock value.  The lock is external to the repository; what matters here  *)
(* is Go's rule that a writer which has announced itself blocks every      *)
(* later reader, while the readers it found inside are allowed to leave.   *)
(*                                                                         *)
(*   readers  processes inside an RLock section                            *)
(*   waiting  processes that called RLock behind an announced writer       *)
(*   queue    processes that called Lock behind another writer             *)
(*   writer   the announced writer, a set of at most one process           *)
(***************************************************************************)

Unlocked == [readers |-> {}, waiting |-> {}, queue |-> {}, writer |-> {}]

RLock(m, p) ==
  IF m.writer = {}
  THEN [m EXCEPT !.readers = @ \cup {p}]
  ELSE [m EXCEPT !.waiting = @ \cup {p}]

HoldsRead(m, p) == p \in m.readers

RUnlock(m, p) == [m EXCEPT !.readers = @ \ {p}]

\* Lock is two steps: joining the writers' queue, and announcing.
Lock(m, p) == [m EXCEPT !.queue = @ \cup {p}]

CanAnnounce(m, p) == m.writer = {} /\ p \in m.queue

Announce(m, p) == [m EXCEPT !.queue = @ \ {p}, !.writer = {p}]

HoldsWrite(m, p) == m.writer = {p} /\ m.readers = {}

\* Unlock hands the lock to every reader that waited behind this writer.
Unlock(m) == [m EXCEPT !.readers = @ \cup m.waiting,
                       !.waiting = {}, !.writer = {}]

LockType(P) ==
  [readers : SUBSET P, waiting : SUBSET P, queue : SUBSET P, writer : SUBSET P]
=============================================================================
