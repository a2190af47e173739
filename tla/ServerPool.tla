----------------------------- MODULE ServerPool -----------------------------
(***************************************************************************)
(* internal/balancer: ServerPool.GetNextPeer shares one atomic counter     *)
(* among all requests and holds no lock over its loop; HealthCheck walks   *)
(* the backends one after the other on a ticker.                           *)
(***************************************************************************)
EXTENDS Naturals, FiniteSets

CONSTANTS
  N,         \* len(s.backends)
  Size,      \* number of values of the counter (2^64 in the code)
  Callers    \* request goroutines

\* What the constants have to be.
ParametersOk == N \in Nat \ {0} /\ Size \in Nat \ {0, 1}

Index == 0..(N - 1)
Counter == 0..(Size - 1)

VARIABLES
  Alive,     \* Backend.Alive
  current,   \* the uint64 counter
  pc,        \* "idle", "add" (about to AddUint64), "read" (about to IsAlive)
  i,         \* loop counter of each caller
  nextIndex, \* local of each caller
  steady,    \* history: backends alive ever since the call began
  overtaken, \* history: others moved the counter during the call
  wrapped,   \* history: the counter wrapped during the call
  cursor     \* the backend HealthCheck asks next, N while it waits for a tick

hist == <<steady, overtaken, wrapped>>
vars == <<Alive, current, pc, i, nextIndex, hist, cursor>>

AliveSet == {b \in Index : Alive[b]}

Init ==
  /\ Alive \in [Index -> BOOLEAN]
  /\ current = 0
  /\ pc = [p \in Callers |-> "idle"]
  /\ i = [p \in Callers |-> 0]
  /\ nextIndex = [p \in Callers |-> 0]
  /\ steady = [p \in Callers |-> {}]
  /\ overtaken = [p \in Callers |-> FALSE] /\ wrapped = [p \in Callers |-> FALSE]
  /\ cursor = N

Call(p) ==
  /\ pc[p] = "idle"
  /\ pc' = [pc EXCEPT ![p] = "add"]
  /\ i' = [i EXCEPT ![p] = 0]
  /\ steady' = [steady EXCEPT ![p] = AliveSet]
  /\ overtaken' = [overtaken EXCEPT ![p] = FALSE]
  /\ wrapped' = [wrapped EXCEPT ![p] = FALSE]
  /\ UNCHANGED <<Alive, current, nextIndex, cursor>>

Moved(p) ==
  /\ overtaken' = [q \in Callers |-> overtaken[q] \/ (q # p /\ pc[q] # "idle")]
  /\ wrapped' = [q \in Callers |-> wrapped[q] \/ (pc[q] # "idle" /\ current' < current)]
  /\ UNCHANGED steady

\* Mutant: the counter moves once per call, not once per backend looked at.
AddOncePerCall(p) ==
  /\ pc[p] = "add" /\ i[p] < N
  /\ current' = IF i[p] = 0 THEN (current + 1) % Size ELSE current
  /\ nextIndex' = [nextIndex EXCEPT ![p] = current' % N]
  /\ pc' = [pc EXCEPT ![p] = "read"] /\ Moved(p)
  /\ UNCHANGED <<Alive, i, cursor>>

\* atomic.AddUint64(&s.current, 1) % uint64(len(s.backends))
Add(p) ==
  /\ pc[p] = "add" /\ i[p] < N
  /\ current' = (current + 1) % Size
  /\ nextIndex' = [nextIndex EXCEPT ![p] = current' % N]
  /\ pc' = [pc EXCEPT ![p] = "read"] /\ Moved(p)
  /\ UNCHANGED <<Alive, i, cursor>>

\* The call returns the peer of nextIndex, or nil, to ServeHTTP, which proxies to
\* it or answers 503: its locals and its history end with it.
Return(p) ==
  /\ pc' = [pc EXCEPT ![p] = "idle"]
  /\ i' = [i EXCEPT ![p] = 0] /\ nextIndex' = [nextIndex EXCEPT ![p] = 0]
  /\ steady' = [steady EXCEPT ![p] = {}]
  /\ overtaken' = [overtaken EXCEPT ![p] = FALSE]
  /\ wrapped' = [wrapped EXCEPT ![p] = FALSE]

\* peer.IsAlive()
ReadAlive(p) ==
  /\ pc[p] = "read"
  /\ IF Alive[nextIndex[p]]
     THEN Return(p)
     ELSE /\ i' = [i EXCEPT ![p] = @ + 1]
          /\ pc' = [pc EXCEPT ![p] = "add"]
          /\ UNCHANGED <<nextIndex, hist>>
  /\ UNCHANGED <<Alive, current, cursor>>

GiveUp(p) ==
  /\ pc[p] = "add" /\ i[p] = N
  /\ Return(p)
  /\ UNCHANGED <<Alive, current, cursor>>

Tick ==
  /\ cursor = N
  /\ cursor' = 0
  /\ UNCHANGED <<Alive, current, pc, i, nextIndex, hist>>

\* b.SetAlive(isBackendAlive(b.URL)): whatever the backend answered before.
SetAlive ==
  /\ cursor \in Index
  /\ \E isAlive \in BOOLEAN : Alive' = [Alive EXCEPT ![cursor] = isAlive]
  /\ steady' = [p \in Callers |-> steady[p] \cap AliveSet']
  /\ cursor' = cursor + 1
  /\ UNCHANGED <<current, pc, i, nextIndex, overtaken, wrapped>>

Next ==
  \/ \E p \in Callers : Call(p) \/ Add(p) \/ ReadAlive(p) \/ GiveUp(p)
  \/ Tick \/ SetAlive

Spec == Init /\ [][Next]_vars
-----------------------------------------------------------------------------
\* Every variable keeps its type.
TypeOK ==
  /\ Alive \in [Index -> BOOLEAN]
  /\ current \in Counter
  /\ pc \in [Callers -> {"idle", "add", "read"}]
  /\ i \in [Callers -> 0..N]
  /\ nextIndex \in [Callers -> Index]
  /\ steady \in [Callers -> SUBSET Index]
  /\ {overtaken, wrapped} \subseteq [Callers -> BOOLEAN]
  /\ cursor \in 0..N

\* loadbalancer.go 24 and 34, "Loop until a healthy backend is found or all
\* backends are checked", "no healthy backend was found", hold for a caller that
\* nobody overtakes: a backend that was alive during the whole call is missed
\* only when another request moved the shared counter meanwhile, or when the
\* counter wrapped and its range is not a multiple of the number of backends.
MissesOnlyIfOvertaken ==
  \A p \in Callers :
    pc[p] = "add" /\ i[p] = N /\ steady[p] # {} =>
      overtaken[p] \/ (wrapped[p] /\ Size % N # 0)
=============================================================================
