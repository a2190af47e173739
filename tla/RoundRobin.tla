----------------------------- MODULE RoundRobin -----------------------------
(***************************************************************************)
(* BackendConfig.GetNextHealthyEndpoint for one config: concurrent callers *)
(* scan the endpoints under BackendConfig.mu, while the health checker     *)
(* writes IsHealthy without that lock (checkBackend, SetHealthStatus), so  *)
(* a value can change between two iterations of one scan.                  *)
(***************************************************************************)
EXTENDS Naturals, FiniteSets

CONSTANTS
  N,        \* number of endpoints
  Parsed,   \* indices whose URLParsed is not nil
  Callers,  \* request goroutines
  Nobody    \* b.mu is free

ASSUME NAssumption == N \in Nat
Index == 0..(N - 1)
ASSUME ParsedAssumption == Parsed \subseteq Index
ASSUME NobodyAssumption == Nobody \notin Callers

\* The nil *BackendEndpoint, written as an index that no endpoint has.
Nil == N

VARIABLES
  IsHealthy,        \* IsHealthy of each endpoint
  currentLBIndex,
  mu,               \* the holder of b.mu
  i,                \* loop counter of each caller
  result,           \* index returned to each caller, or Nil
  steady,           \* history: endpoints selectable ever since the call began
  waited            \* history: picks of others since an endpoint became
                    \* selectable or was picked, counted up to N

vars == <<IsHealthy, currentLBIndex, mu, i, result, steady, waited>>

Selectable == {e \in Index : IsHealthy[e] /\ e \in Parsed}

Init ==
  /\ IsHealthy \in [Index -> BOOLEAN]
  /\ \A e \in Index \ Parsed : ~IsHealthy[e]
  /\ currentLBIndex = 0
  /\ mu = Nobody
  /\ i = [p \in Callers |-> 0]
  /\ result = [p \in Callers |-> Nil]
  /\ steady = [p \in Callers |-> {}]
  /\ waited = [e \in Index |-> 0]

\* b.mu.Lock: the call begins to look at the endpoints.
Enter(p) ==
  /\ mu = Nobody
  /\ mu' = p
  /\ i' = [i EXCEPT ![p] = 0]
  /\ result' = [result EXCEPT ![p] = Nil]
  /\ steady' = [steady EXCEPT ![p] = Selectable]
  /\ UNCHANGED <<IsHealthy, currentLBIndex, waited>>

\* Mutant: the scan starts one endpoint too late.
CandidateOffByOne(p) == (currentLBIndex + i[p] + 1) % N

Candidate(p) == (currentLBIndex + i[p]) % N

\* Mutant: "% numEndpoints" is forgotten.
AdvanceNoWrap(index) == index + 1

\* Mutant: the pointer stays on the endpoint picked.
AdvanceNot(index) == index

\* The pointer moves behind the endpoint picked.
Advance(index) == (index + 1) % N

OneMore(n) == IF n < N THEN n + 1 ELSE N

Pick(p) ==
  /\ mu = p /\ i[p] < N
  /\ Candidate(p) \in Selectable
  /\ currentLBIndex' = Advance(Candidate(p))
  /\ result' = [result EXCEPT ![p] = Candidate(p)]
  /\ mu' = Nobody
  /\ waited' = [e \in Index |->
                  IF e \in Selectable \ {Candidate(p)} THEN OneMore(waited[e]) ELSE 0]
  /\ UNCHANGED <<IsHealthy, i, steady>>

\* Mutant: the pointer moves with every endpoint looked at, and i as well.
SkipAdvancing(p) ==
  /\ mu = p /\ i[p] < N
  /\ Candidate(p) \notin Selectable
  /\ i' = [i EXCEPT ![p] = @ + 1]
  /\ currentLBIndex' = (currentLBIndex + 1) % N
  /\ UNCHANGED <<IsHealthy, mu, result, steady, waited>>

Skip(p) ==
  /\ mu = p /\ i[p] < N
  /\ Candidate(p) \notin Selectable
  /\ i' = [i EXCEPT ![p] = @ + 1]
  /\ UNCHANGED <<IsHealthy, currentLBIndex, mu, result, steady, waited>>

\* The loop is over, or there are no endpoints: nil.
GiveUp(p) ==
  /\ mu = p /\ i[p] = N
  /\ result' = [result EXCEPT ![p] = Nil]
  /\ mu' = Nobody
  /\ UNCHANGED <<IsHealthy, currentLBIndex, i, steady, waited>>

\* checkBackend or SetHealthStatus writes IsHealthy of a parsed endpoint.
SetHealth(e) ==
  /\ e \in Parsed
  /\ IsHealthy' = [IsHealthy EXCEPT ![e] = ~@]
  /\ steady' = [p \in Callers |-> steady[p] \cap Selectable']
  /\ waited' = [waited EXCEPT ![e] = 0]
  /\ UNCHANGED <<currentLBIndex, mu, i, result>>

Next ==
  \/ \E p \in Callers : Enter(p) \/ Pick(p) \/ Skip(p) \/ GiveUp(p)
  \/ \E e \in Index : SetHealth(e)

Spec == Init /\ [][Next]_vars

\* Goroutines run, and callers keep coming and get b.mu in turn: after 1 ms of
\* waiting a sync.Mutex is handed over in order.
Fairness ==
  \A p \in Callers : SF_vars(Enter(p)) /\ WF_vars(Pick(p) \/ Skip(p) \/ GiveUp(p))

FairSpec == Spec /\ Fairness
-----------------------------------------------------------------------------
\* Every variable keeps its type; the index stays inside the slice.
TypeOK ==
  /\ IsHealthy \in [Index -> BOOLEAN]
  /\ N > 0 => currentLBIndex \in Index
  /\ mu \in Callers \cup {Nobody}
  /\ i \in [Callers -> 0..N]
  /\ result \in [Callers -> Index \cup {Nil}]
  /\ steady \in [Callers -> SUBSET Index]
  /\ waited \in [Index -> 0..N]

\* A scan never misses an endpoint that was selectable during all of it, however
\* the health checker writes and other requests move the pointer: nil (a 503)
\* means that every endpoint was down at some moment of the scan.
NilMissesNobody ==
  \A p \in Callers : mu = p /\ i[p] = N => steady[p] = {}

\* Round robin: an endpoint that stays selectable is passed over by fewer than N
\* picks before its turn, whatever happens to the others.
NobodyStarves == \A e \in Selectable : waited[e] < N

\* An endpoint that stays selectable is picked again and again.
SteadyIsPicked ==
  \A e \in Index :
    <>[](e \in Selectable) => []<>(\E p \in Callers : mu # p /\ result[p] = e)
=============================================================================
