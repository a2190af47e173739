--------------------------- MODULE ProxyingProofs ---------------------------
(***************************************************************************)
(* Theorems about the loops that choose an endpoint or carry its traffic:  *)
(* the round robin of a backend, for any number of endpoints and callers,  *)
(* the pool of internal/balancer, for any number of backends and callers   *)
(* and any range of its counter, and what their composition takes over     *)
(* from the theorems about its parts.                                      *)
(***************************************************************************)
EXTENDS MCProxying, Integers, TLAPS

\* How far the scan must go from the pointer to reach endpoint e.
Dist(e) == IF e >= currentLBIndex THEN e - currentLBIndex
           ELSE e - currentLBIndex + N

\* Endpoints the scan in progress has already looked at.
Passed(e) == mu # Nobody /\ Dist(e) < i[mu]

LEMMA Wraps ==
  ASSUME NEW a \in Nat, N # 0, a < 2 * N
  PROVE  a % N = IF a < N THEN a ELSE a - N
BY NAssumption, SMT

LEMMA AdvanceWraps ==
  ASSUME NEW e \in Index
  PROVE  /\ Advance(e) = IF e + 1 < N THEN e + 1 ELSE 0
         /\ Advance(e) \in Index
<1>1. N \in Nat /\ N # 0 /\ e \in Nat /\ e < N /\ e + 1 \in Nat /\ e + 1 < 2 * N
  BY NAssumption DEF Index
<1>2. (e + 1) % N = IF e + 1 < N THEN e + 1 ELSE e + 1 - N
  BY <1>1, Wraps
<1> QED BY <1>1, <1>2 DEF Advance, Index

\* The candidate of a scan is the endpoint at the distance reached so far.
LEMMA CandidateAtDistance ==
  ASSUME TypeOK, NEW p \in Callers, i[p] < N
  PROVE  /\ N > 0 /\ Candidate(p) \in Index
         /\ \A e \in Index : Candidate(p) = e <=> Dist(e) = i[p]
<1>1. N \in Nat /\ i[p] \in Nat /\ N > 0 /\ currentLBIndex \in Index
  BY NAssumption DEF TypeOK
<1>2. Candidate(p) = IF currentLBIndex + i[p] < N THEN currentLBIndex + i[p]
                     ELSE currentLBIndex + i[p] - N
  BY <1>1, Wraps DEF Candidate, Index
<1> QED BY <1>1, <1>2 DEF Dist, Index

LEMMA Distance ==
  ASSUME NEW c \in Index, NEW e \in Index
  PROVE  LET d == IF e >= c THEN e - c ELSE e - c + N IN d \in Nat /\ d < N
BY NAssumption DEF Index

LEMMA DistInRange ==
  ASSUME TypeOK, NEW e \in Index
  PROVE  Dist(e) \in Index
BY NAssumption DEF TypeOK, Dist, Index

LEMMA InitType == Init => TypeOK
BY NAssumption DEF Init, TypeOK, Index, Nil

LEMMA NextType == TypeOK /\ [Next]_vars => TypeOK'
<1> SUFFICES ASSUME TypeOK, [Next]_vars PROVE TypeOK'
  OBVIOUS
<1> USE NAssumption DEF TypeOK
<1>1. ASSUME NEW p \in Callers, Enter(p) PROVE TypeOK'
  <2>1. steady' \in [Callers -> SUBSET Index]
    BY <1>1 DEF Enter, Selectable
  <2> QED BY <1>1, <2>1 DEF Enter, Nil
<1>2. ASSUME NEW p \in Callers, Pick(p) PROVE TypeOK'
  <2>1. N > 0 /\ Candidate(p) \in Index
    BY <1>2, CandidateAtDistance DEF Pick
  <2>2. currentLBIndex' \in Index
    BY <1>2, <2>1, AdvanceWraps DEF Pick
  <2>3. waited' \in [Index -> 0..N]
    BY <1>2 DEF Pick, Selectable, OneMore
  <2>4. result' \in [Callers -> Index \cup {Nil}]
    BY <1>2, <2>1 DEF Pick
  <2> QED BY <1>2, <2>2, <2>3, <2>4 DEF Pick
<1>3. ASSUME NEW p \in Callers, Skip(p) PROVE TypeOK'
  BY <1>3 DEF Skip
<1>4. ASSUME NEW p \in Callers, GiveUp(p) PROVE TypeOK'
  BY <1>4 DEF GiveUp
<1>5. ASSUME NEW e \in Index, SetHealth(e) PROVE TypeOK'
  <2>1. steady' \in [Callers -> SUBSET Index]
    BY <1>5 DEF SetHealth
  <2> QED BY <1>5, <2>1 DEF SetHealth
<1>6. CASE UNCHANGED vars
  BY <1>6 DEF vars
<1> QED BY <1>1, <1>2, <1>3, <1>4, <1>5, <1>6 DEF Next

\* Type correctness: the pointer never leaves the slice.
THEOREM TypeCorrect == Spec => []TypeOK
BY InitType, NextType, PTL DEF Spec
-----------------------------------------------------------------------------
\* While a scan runs, no endpoint it has passed was selectable all along.
ScanInv ==
  /\ TypeOK
  /\ mu # Nobody => /\ steady[mu] \subseteq Selectable
                     /\ \A e \in Index : Dist(e) < i[mu] => e \notin steady[mu]

LEMMA NextScanInv == ScanInv /\ [Next]_vars => ScanInv'
<1> SUFFICES ASSUME ScanInv, [Next]_vars PROVE ScanInv'
  OBVIOUS
<1>0. TypeOK /\ TypeOK'
  BY NextType DEF ScanInv
<1>1. ASSUME NEW p \in Callers, Enter(p) PROVE ScanInv'
  <2>1. /\ mu' = p /\ i'[p] = 0 /\ UNCHANGED <<currentLBIndex, IsHealthy>>
        /\ steady'[p] = Selectable
    BY <1>0, <1>1 DEF Enter, TypeOK
  <2>2. \A e \in Index : ~(Dist(e)' < i'[p])
    BY <1>0, <2>1, DistInRange, NAssumption DEF Index, Dist
  <2> QED BY <1>0, <2>1, <2>2 DEF ScanInv, Selectable
<1>2. ASSUME NEW p \in Callers, Pick(p) \/ GiveUp(p) PROVE ScanInv'
  BY <1>0, <1>2 DEF Pick, GiveUp, ScanInv
<1>3. ASSUME NEW p \in Callers, Skip(p) PROVE ScanInv'
  <2>1. /\ mu = p /\ mu' = p /\ i[p] < N /\ i'[p] = i[p] + 1
        /\ UNCHANGED <<currentLBIndex, steady, IsHealthy>>
        /\ Candidate(p) \notin Selectable
    BY <1>0, <1>3 DEF Skip, TypeOK
  <2>2. p # Nobody
    BY NobodyAssumption
  <2> SUFFICES ASSUME NEW e \in Index, Dist(e) < i[p] + 1, e \in steady[p] PROVE FALSE
    BY <1>0, <2>1, <2>2 DEF ScanInv, Dist, Selectable
  <2>3. i[p] \in Nat /\ Dist(e) \in Nat
    <3>1. i[p] \in Nat
      BY <1>0, NAssumption DEF TypeOK
    <3>2. Dist(e) \in Index
      BY <1>0, DistInRange
    <3> QED BY <3>1, <3>2, NAssumption DEF Index
  <2>4. CASE Dist(e) < i[p]
    BY <2>1, <2>2, <2>4 DEF ScanInv
  <2>5. CASE Dist(e) = i[p]
    <3>1. e \notin Selectable
      BY <1>0, <2>1, <2>5, CandidateAtDistance
    <3> QED BY <3>1, <1>0, <2>1, <2>2, <2>5 DEF ScanInv
  <2> QED BY <2>3, <2>4, <2>5
<1>4. ASSUME NEW e \in Index, SetHealth(e) PROVE ScanInv'
  <2>1. UNCHANGED <<currentLBIndex, mu, i>>
    BY <1>4 DEF SetHealth
  <2>2. \A p \in Callers : steady'[p] = steady[p] \cap Selectable'
    BY <1>4 DEF SetHealth
  <2>3. mu # Nobody => mu \in Callers
    BY <1>0 DEF TypeOK
  <2> QED BY <1>0, <2>1, <2>2, <2>3 DEF ScanInv, Dist
<1>5. CASE UNCHANGED vars
  BY <1>0, <1>5 DEF vars, ScanInv, Dist, Selectable
<1> QED BY <1>1, <1>2, <1>3, <1>4, <1>5 DEF Next

\* nil means that no endpoint was selectable during the whole scan.
THEOREM NilNeverMisses == Spec => []NilMissesNobody
<1>1. Init => ScanInv
  BY InitType DEF Init, ScanInv
<1>2. ScanInv => NilMissesNobody
  <2> SUFFICES ASSUME ScanInv, NEW p \in Callers, mu = p, i[p] = N, NEW e \in steady[p]
               PROVE  FALSE
    BY DEF NilMissesNobody
  <2>1. e \in Index /\ p # Nobody
    BY NobodyAssumption DEF ScanInv, TypeOK
  <2>2. Dist(e) < N
    BY <2>1, DistInRange, NAssumption DEF ScanInv, Index
  <2> QED BY <2>1, <2>2 DEF ScanInv
<1> QED BY <1>1, <1>2, NextScanInv, PTL DEF Spec
-----------------------------------------------------------------------------
\* What an endpoint has waited and the way the pointer has still to go to it
\* stay below N together; one that the scan in progress has passed became
\* selectable only since, and has not waited at all.
TurnInv ==
  /\ TypeOK
  /\ \A e \in Selectable :
       IF Passed(e) THEN waited[e] = 0 ELSE waited[e] + Dist(e) < N

LEMMA NextTurnInv == TurnInv /\ [Next]_vars => TurnInv'
<1> SUFFICES ASSUME TurnInv, [Next]_vars PROVE TurnInv'
  OBVIOUS
<1>0. TypeOK /\ TypeOK' /\ N \in Nat
  BY NextType, NAssumption DEF TurnInv
<1>d. \A e \in Index : Dist(e) \in Nat /\ Dist(e) < N /\ waited[e] \in Nat
  <2> TAKE e \in Index
  <2>1. Dist(e) \in Index
    BY <1>0, DistInRange
  <2>2. waited[e] \in Nat
    BY <1>0 DEF TypeOK
  <2> QED BY <1>0, <2>1, <2>2 DEF Index
<1>1. ASSUME NEW p \in Callers, Enter(p) PROVE TurnInv'
  <2>1. /\ mu = Nobody /\ mu' = p /\ i'[p] = 0
        /\ UNCHANGED <<currentLBIndex, IsHealthy, waited>>
    BY <1>0, <1>1 DEF Enter, TypeOK
  <2>2. Selectable' = Selectable /\ \A e \in Index : Dist(e)' = Dist(e)
    BY <2>1 DEF Selectable, Dist
  <2>3. \A e \in Index : ~Passed(e) /\ ~Passed(e)'
    BY <1>d, <2>1, <2>2 DEF Passed
  <2> QED BY <1>0, <2>1, <2>2, <2>3 DEF TurnInv, Selectable
<1>2. ASSUME NEW p \in Callers, Pick(p) PROVE TurnInv'
  <2> DEFINE j == Candidate(p)
  <2>1. /\ mu = p /\ mu' = Nobody /\ i[p] < N /\ j \in Selectable
        /\ IsHealthy' = IsHealthy /\ currentLBIndex' = Advance(j)
        /\ p # Nobody /\ j \in Index
    BY <1>2, NobodyAssumption DEF Pick, Selectable
  <2>2. /\ i[p] \in Nat /\ Dist(j) = i[p] /\ \A e \in Index : Dist(e) = i[p] => e = j
    BY <1>0, <2>1, CandidateAtDistance DEF TypeOK
  <2>3. Selectable' = Selectable
    BY <2>1 DEF Selectable
  <2> SUFFICES ASSUME NEW e \in Selectable PROVE waited'[e] + Dist(e)' < N
    BY <1>0, <2>1, <2>3 DEF TurnInv, Passed
  <2>4. e \in Index
    BY DEF Selectable
  <2>5. Dist(e)' \in Nat /\ Dist(e)' < N
    <3>1. currentLBIndex' \in Index
      BY <2>1, AdvanceWraps
    <3> QED BY <2>4, <3>1, Distance DEF Dist
  <2>6. CASE e = j
    BY <1>2, <2>4, <2>5, <2>6 DEF Pick
  <2>7. CASE e # j
    <3>1. waited'[e] = waited[e] + 1
      <4>1. waited[e] < N
        BY <1>0, <1>d, <2>4 DEF TurnInv
      <4> QED BY <1>2, <2>4, <2>7, <4>1 DEF Pick, OneMore
    <3>2. Dist(e) # i[p]
      BY <2>2, <2>4, <2>7
    <3>3. Dist(e)' = IF Dist(e) < i[p] THEN Dist(e) - (i[p] + 1) + N
                     ELSE Dist(e) - (i[p] + 1)
      <4>1. currentLBIndex' = IF j + 1 < N THEN j + 1 ELSE 0
        BY <2>1, AdvanceWraps
      <4>2. Dist(j) = i[p] /\ currentLBIndex \in Index
        BY <1>0, <2>1, <2>2, <2>4 DEF TypeOK, Index
      <4> HIDE DEF j
      <4> QED BY <1>0, <2>1, <2>4, <2>7, <3>2, <4>1, <4>2 DEF Dist, Index
    <3>4. CASE Dist(e) < i[p]
      <4>1. waited[e] = 0
        BY <2>1, <3>4 DEF TurnInv, Passed
      <4> QED BY <1>0, <1>d, <2>1, <2>2, <2>4, <3>1, <3>3, <3>4, <4>1
    <3>5. CASE ~(Dist(e) < i[p])
      <4>1. waited[e] + Dist(e) < N
        BY <2>1, <3>5 DEF TurnInv, Passed
      <4> QED BY <1>0, <1>d, <2>1, <2>2, <2>4, <3>1, <3>3, <3>5, <4>1
    <3> QED BY <3>4, <3>5
  <2> QED BY <2>6, <2>7
<1>3. ASSUME NEW p \in Callers, Skip(p) PROVE TurnInv'
  <2>1. /\ mu = p /\ mu' = p /\ p # Nobody /\ i[p] < N /\ i'[p] = i[p] + 1
        /\ UNCHANGED <<currentLBIndex, IsHealthy, waited>> /\ Candidate(p) \notin Selectable
    BY <1>0, <1>3, NobodyAssumption DEF Skip, TypeOK
  <2>2. Selectable' = Selectable /\ \A e \in Index : Dist(e)' = Dist(e)
    BY <2>1 DEF Selectable, Dist
  <2>3. \A e \in Selectable : Dist(e) # i[p]
    BY <1>0, <2>1, CandidateAtDistance DEF Selectable
  <2>4. \A e \in Selectable : Passed(e)' <=> Passed(e)
    BY <1>0, <1>d, <2>1, <2>2, <2>3 DEF Passed, Selectable, TypeOK
  <2> QED BY <1>0, <2>1, <2>2, <2>4 DEF TurnInv, Selectable
<1>4. ASSUME NEW p \in Callers, GiveUp(p) PROVE TurnInv'
  <2>1. /\ mu = p /\ mu' = Nobody /\ p # Nobody /\ i[p] = N
        /\ UNCHANGED <<currentLBIndex, IsHealthy, waited>>
    BY <1>4, NobodyAssumption DEF GiveUp
  <2>2. Selectable' = Selectable /\ \A e \in Index : Dist(e)' = Dist(e)
    BY <2>1 DEF Selectable, Dist
  <2>3. \A e \in Selectable : waited[e] = 0 /\ ~Passed(e)'
    BY <1>d, <2>1 DEF TurnInv, Passed, Selectable
  <2> QED BY <1>0, <1>d, <2>1, <2>2, <2>3 DEF TurnInv, Selectable
<1>5. ASSUME NEW f \in Index, SetHealth(f) PROVE TurnInv'
  <2>1. /\ UNCHANGED <<currentLBIndex, mu, i>>
        /\ waited' = [waited EXCEPT ![f] = 0]
        /\ IsHealthy' = [IsHealthy EXCEPT ![f] = ~@]
    BY <1>5 DEF SetHealth
  <2>2. \A e \in Index : Dist(e)' = Dist(e) /\ Passed(e)' = Passed(e)
    BY <2>1 DEF Dist, Passed
  <2> SUFFICES ASSUME NEW e \in Selectable'
               PROVE  IF Passed(e) THEN waited'[e] = 0 ELSE waited'[e] + Dist(e) < N
    BY <1>0, <2>2 DEF TurnInv, Selectable
  <2>3. e \in Index
    BY DEF Selectable
  <2>4. CASE e = f
    BY <1>0, <1>d, <2>1, <2>3, <2>4 DEF TypeOK
  <2>5. CASE e # f
    <3>1. e \in Selectable /\ waited'[e] = waited[e]
      BY <1>0, <2>1, <2>3, <2>5 DEF Selectable, TypeOK
    <3> QED BY <3>1 DEF TurnInv
  <2> QED BY <2>4, <2>5
<1>6. CASE UNCHANGED vars
  BY <1>0, <1>6 DEF vars, TurnInv, Selectable, Passed, Dist
<1> QED BY <1>1, <1>2, <1>3, <1>4, <1>5, <1>6 DEF Next

\* Round robin, for any number of endpoints and callers and any health changes:
\* an endpoint that stays selectable waits for fewer than N picks of others.
THEOREM RoundRobinFair == Spec => []NobodyStarves
<1>1. Init => TurnInv
  <2> SUFFICES ASSUME Init, NEW e \in Selectable PROVE waited[e] + Dist(e) < N /\ ~Passed(e)
    BY InitType DEF TurnInv
  <2> QED BY InitType, DistInRange, NAssumption DEF Init, Selectable, Passed, Index
<1>2. TurnInv => NobodyStarves
  <2> SUFFICES ASSUME TurnInv, NEW e \in Selectable PROVE waited[e] < N
    BY DEF NobodyStarves
  <2>1. Dist(e) \in Nat /\ Dist(e) < N /\ waited[e] \in Nat /\ N \in Nat
    BY DistInRange, NAssumption DEF TurnInv, TypeOK, Selectable, Index
  <2> QED BY <2>1 DEF TurnInv
<1> QED BY <1>1, <1>2, NextTurnInv, PTL DEF Spec
-----------------------------------------------------------------------------
(* ServerPool *)

\* Division with remainder has one result.
LEMMA QuotientUnique ==
  ASSUME NEW n \in Nat \ {0}, NEW q \in Int, NEW r \in 0..(n - 1),
         NEW q2 \in Int, NEW r2 \in 0..(n - 1), n * q + r = n * q2 + r2
  PROVE  q = q2 /\ r = r2
<1>1. ASSUME NEW a \in Int, NEW b \in Int, a < b PROVE n * a + n <= n * b
  <2>1. PICK d \in Nat : b = a + 1 + d
    <3>1. b - a - 1 \in Nat /\ b = a + 1 + (b - a - 1)
      BY <1>1
    <3> QED BY <3>1
  <2>2. n * b = n * a + n + n * d
    BY <2>1
  <2>3. n * d \in Nat
    OBVIOUS
  <2> QED BY <2>2, <2>3
<1>2. ~(q < q2) /\ ~(q2 < q)
  BY <1>1
<1> QED BY <1>2

\* The remainder of the next number.
LEMMA NextRemainder ==
  ASSUME NEW n \in Nat \ {0}, NEW a \in Nat
  PROVE  /\ a % n \in 0..(n - 1)
         /\ (a + 1) % n = IF (a % n) + 1 < n THEN (a % n) + 1 ELSE 0
<1> DEFINE q == a \div n  r == a % n
           q2 == (a + 1) \div n  r2 == (a + 1) % n
<1>1. q \in Int /\ r \in 0..(n - 1) /\ a = n * q + r
  OBVIOUS
<1>2. q2 \in Int /\ r2 \in 0..(n - 1) /\ a + 1 = n * q2 + r2
  OBVIOUS
<1> HIDE DEF q, r, q2, r2
<1>3. CASE r + 1 < n
  <2>1. r + 1 \in 0..(n - 1) /\ n * q + (r + 1) = n * q2 + r2
    BY <1>1, <1>2, <1>3
  <2>2. r2 = r + 1
    BY <1>1, <1>2, <2>1, QuotientUnique
  <2> QED BY <1>1, <1>3, <2>2 DEF r, r2
<1>4. CASE r + 1 = n
  <2>1. q + 1 \in Int /\ 0 \in 0..(n - 1)
    BY <1>1
  <2>2. n * (q + 1) + 0 = n * q2 + r2
    BY <1>1, <1>2, <1>4
  <2>3. r2 = 0
    BY <1>2, <2>1, <2>2, QuotientUnique
  <2> QED BY <1>1, <1>4, <2>3 DEF r, r2
<1> QED BY <1>1, <1>3, <1>4

\* How many steps ago the counter stood at backend b.
Ago(b) == LET c == current % PoolSize
          IN  IF c >= b THEN c - b ELSE c - b + PoolSize

\* Nobody else has moved the counter during the call, and its end has not upset
\* the order of the backends.
Undisturbed(p) == ~overtaken[p] /\ (wrapped[p] => CounterSize % PoolSize = 0)

\* A backend that was alive all along is not among those that the call has found
\* dead, which are the last ones that the counter stood at.
LookedAt(p) ==
  \A b \in aliveSince[p] :
    IF pc[p] = "read" THEN b = nextIndex[p] \/ Ago(b) > poolI[p] ELSE Ago(b) >= poolI[p]

PoolInv ==
  /\ Pool!TypeOK
  /\ \A p \in Callers : aliveSince[p] \subseteq Pool!AliveSet
  /\ \A p \in Callers : pc[p] = "read" => poolI[p] < PoolSize
  /\ \A p \in Callers : pc[p] # "idle" /\ Undisturbed(p) =>
       LookedAt(p) /\ (pc[p] = "read" => nextIndex[p] = current % PoolSize)

LEMMA PoolBounds ==
  /\ PoolSize \in Nat \ {0} /\ CounterSize \in Nat \ {0, 1}
  /\ Pool!Index = 0..(PoolSize - 1) /\ Pool!Counter = 0..(CounterSize - 1)
BY MCAssumption DEF Pool!ParametersOk, Pool!Index, Pool!Counter

LEMMA AgoInRange ==
  ASSUME Pool!TypeOK, NEW b \in Pool!Index
  PROVE  Ago(b) \in 0..(PoolSize - 1)
<1>1. current \in Nat /\ b \in 0..(PoolSize - 1)
  BY PoolBounds DEF Pool!TypeOK
<1>2. current % PoolSize \in 0..(PoolSize - 1)
  BY <1>1, PoolBounds, NextRemainder
<1> QED BY <1>1, <1>2, PoolBounds DEF Ago

\* The counter goes on to the next backend, also at its end if its range is a
\* multiple of the number of backends.
LEMMA CounterGoesOn ==
  ASSUME Pool!TypeOK, current' = (current + 1) % CounterSize
  PROVE  /\ current' \in Pool!Counter /\ current' % PoolSize \in Pool!Index
         /\ current' < current => current' = 0 /\ current + 1 = CounterSize
         /\ (current' < current => CounterSize % PoolSize = 0) =>
              current' % PoolSize = IF (current % PoolSize) + 1 < PoolSize
                                    THEN (current % PoolSize) + 1 ELSE 0
<1>1. current \in Nat /\ current < CounterSize
  BY PoolBounds DEF Pool!TypeOK
<1>2. current' = IF current + 1 < CounterSize THEN current + 1 ELSE 0
  <2>1. current % CounterSize = current
    <3>1. CounterSize * 0 + current = CounterSize * (current \div CounterSize) + (current % CounterSize)
      BY <1>1, PoolBounds
    <3>2. current % CounterSize \in 0..(CounterSize - 1) /\ current \in 0..(CounterSize - 1)
          /\ current \div CounterSize \in Int
      BY <1>1, PoolBounds
    <3> QED BY <3>1, <3>2, PoolBounds, QuotientUnique
  <2> QED BY <1>1, <2>1, PoolBounds, NextRemainder
<1>3. current' \in Nat /\ current' \in Pool!Counter
  BY <1>1, <1>2, PoolBounds
<1>4. current' % PoolSize \in Pool!Index
  <2>1. \A a \in Nat : a % PoolSize \in 0..(PoolSize - 1)
    BY PoolBounds, NextRemainder
  <2> QED BY <1>3, <2>1, PoolBounds
<1>5. CASE current + 1 < CounterSize
  <2>1. /\ current % PoolSize \in 0..(PoolSize - 1)
        /\ (current + 1) % PoolSize = IF (current % PoolSize) + 1 < PoolSize
                                      THEN (current % PoolSize) + 1 ELSE 0
    BY <1>1, PoolBounds, NextRemainder
  <2>2. current' = current + 1 /\ ~(current' < current)
    BY <1>1, <1>2, <1>5, PoolBounds
  <2> QED BY <1>3, <1>4, <2>1, <2>2
<1>6. CASE ~(current + 1 < CounterSize)
  <2>1. current' = 0 /\ current + 1 = CounterSize /\ current' < current
    BY <1>1, <1>2, <1>6, PoolBounds
  <2>2. 0 % PoolSize = 0
    <3>1. PoolSize * 0 + 0 = PoolSize * (0 \div PoolSize) + (0 % PoolSize)
      BY PoolBounds
    <3>2. 0 % PoolSize \in 0..(PoolSize - 1) /\ 0 \div PoolSize \in Int
      BY PoolBounds
    <3> QED BY <3>1, <3>2, PoolBounds, QuotientUnique
  <2>3. /\ current % PoolSize \in 0..(PoolSize - 1)
        /\ CounterSize % PoolSize = IF (current % PoolSize) + 1 < PoolSize
                                    THEN (current % PoolSize) + 1 ELSE 0
    BY <1>1, <2>1, PoolBounds, NextRemainder
  <2> QED BY <1>3, <1>4, <2>1, <2>2, <2>3, PoolBounds
<1> QED BY <1>5, <1>6

\* The end of a call forgets it; the other calls do not notice.
LEMMA PoolReturn ==
  ASSUME PoolInv, NEW p \in Callers, Pool!Return(p), UNCHANGED <<Alive, current, cursor>>
  PROVE  PoolInv'
<1> USE PoolBounds DEF PoolInv
<1>1. Pool!TypeOK'
  BY DEF Pool!Return, Pool!TypeOK
<1>2. /\ pc'[p] = "idle" /\ aliveSince'[p] = {}
      /\ \A q \in Callers : q # p =>
           /\ pc'[q] = pc[q] /\ aliveSince'[q] = aliveSince[q] /\ poolI'[q] = poolI[q]
           /\ nextIndex'[q] = nextIndex[q]
           /\ overtaken'[q] = overtaken[q] /\ wrapped'[q] = wrapped[q]
  BY DEF Pool!Return, Pool!TypeOK
<1>3. Pool!AliveSet' = Pool!AliveSet /\ \A b : Ago(b)' = Ago(b)
  BY DEF Pool!AliveSet, Ago
<1>4. \A q \in Callers : pc'[q] # "idle" /\ Undisturbed(q)' =>
        LookedAt(q)' /\ (pc'[q] = "read" => nextIndex'[q] = current' % PoolSize)
  BY <1>2, <1>3 DEF Undisturbed, LookedAt
<1> QED BY <1>1, <1>2, <1>3, <1>4

LEMMA PoolAdd ==
  ASSUME PoolInv, NEW p \in Callers, Pool!Add(p)
  PROVE  PoolInv'
<1> USE PoolBounds DEF PoolInv
<1>1. /\ pc[p] = "add" /\ poolI[p] < PoolSize /\ current' = (current + 1) % CounterSize
      /\ UNCHANGED <<Alive, poolI, cursor, aliveSince>>
      /\ nextIndex' = [nextIndex EXCEPT ![p] = current' % PoolSize]
      /\ pc' = [pc EXCEPT ![p] = "read"]
  BY DEF Pool!Add, Pool!Moved
<1>2. /\ overtaken' = [q \in Callers |-> overtaken[q] \/ (q # p /\ pc[q] # "idle")]
      /\ wrapped' = [q \in Callers |-> wrapped[q] \/ (pc[q] # "idle" /\ current' < current)]
  BY DEF Pool!Add, Pool!Moved
<1>3. current' \in Pool!Counter /\ current' % PoolSize \in Pool!Index
  BY <1>1, CounterGoesOn
<1>4. Pool!TypeOK'
  BY <1>1, <1>2, <1>3 DEF Pool!TypeOK
<1>5. Pool!AliveSet' = Pool!AliveSet
  BY <1>1 DEF Pool!AliveSet
<1>6. \A q \in Callers : pc'[q] = "read" => poolI'[q] < PoolSize
  BY <1>1 DEF Pool!TypeOK
<1>7. ASSUME NEW q \in Callers, pc'[q] # "idle", Undisturbed(q)'
      PROVE  LookedAt(q)' /\ (pc'[q] = "read" => nextIndex'[q] = current' % PoolSize)
  <2>1. q = p
    BY <1>1, <1>2, <1>7 DEF Undisturbed, Pool!TypeOK
  <2>2. Undisturbed(p) /\ (current' < current => CounterSize % PoolSize = 0)
    BY <1>1, <1>2, <1>7, <2>1 DEF Undisturbed, Pool!TypeOK
  <2>3. nextIndex'[p] = current' % PoolSize
    BY <1>1 DEF Pool!TypeOK
  <2>4. current' % PoolSize = IF (current % PoolSize) + 1 < PoolSize
                              THEN (current % PoolSize) + 1 ELSE 0
    BY <1>1, <2>2, CounterGoesOn
  <2>5. ASSUME NEW b \in aliveSince[p]
        PROVE  b = nextIndex'[p] \/ Ago(b)' > poolI[p]
    <3>1. b \in 0..(PoolSize - 1) /\ poolI[p] \in 0..PoolSize
      BY DEF Pool!TypeOK
    <3>2. Ago(b) >= poolI[p]
      BY <1>1, <2>2 DEF LookedAt
    <3>3. current % PoolSize \in 0..(PoolSize - 1)
      <4>1. current \in Nat
        BY DEF Pool!TypeOK
      <4> QED BY <4>1, NextRemainder
    <3>4. current' % PoolSize \in 0..(PoolSize - 1)
      BY <1>3
    <3>5. /\ Ago(b) = IF current % PoolSize >= b THEN (current % PoolSize) - b
                      ELSE (current % PoolSize) - b + PoolSize
          /\ Ago(b)' = IF current' % PoolSize >= b THEN (current' % PoolSize) - b
                       ELSE (current' % PoolSize) - b + PoolSize
      BY DEF Ago
    <3> QED BY <2>3, <2>4, <3>1, <3>2, <3>3, <3>4, <3>5, SMTT(30)
  <2>6. LookedAt(p)'
    BY <1>1, <2>5 DEF LookedAt, Pool!TypeOK
  <2> QED BY <2>1, <2>3, <2>6
<1> QED BY <1>1, <1>4, <1>5, <1>6, <1>7

LEMMA PoolStep ==
  ASSUME PoolInv, [Pool!Next]_poolVars
  PROVE  PoolInv'
<1> USE PoolBounds DEF PoolInv
<1>1. ASSUME NEW p \in Callers, Pool!Call(p) PROVE PoolInv'
  <2>1. /\ UNCHANGED <<Alive, current, nextIndex, cursor>>
        /\ pc'[p] = "add" /\ poolI'[p] = 0 /\ aliveSince'[p] = Pool!AliveSet
        /\ \A q \in Callers : q # p =>
             /\ pc'[q] = pc[q] /\ aliveSince'[q] = aliveSince[q] /\ poolI'[q] = poolI[q]
             /\ overtaken'[q] = overtaken[q] /\ wrapped'[q] = wrapped[q]
    BY <1>1 DEF Pool!Call, Pool!TypeOK
  <2>2. Pool!TypeOK'
    BY <1>1 DEF Pool!Call, Pool!TypeOK, Pool!AliveSet
  <2>3. Pool!AliveSet' = Pool!AliveSet /\ \A b : Ago(b)' = Ago(b)
    BY <2>1 DEF Pool!AliveSet, Ago
  <2>4. \A b \in Pool!AliveSet : Ago(b) >= 0
    BY AgoInRange DEF Pool!AliveSet
  <2>5. LookedAt(p)'
    BY <2>1, <2>3, <2>4 DEF LookedAt
  <2>6. \A q \in Callers : q # p => (LookedAt(q)' <=> LookedAt(q)) /\ (Undisturbed(q)' <=> Undisturbed(q))
    BY <2>1, <2>3 DEF LookedAt, Undisturbed
  <2> QED BY <2>1, <2>2, <2>3, <2>5, <2>6
<1>2. ASSUME NEW p \in Callers, Pool!Add(p) PROVE PoolInv'
  BY <1>2, PoolAdd
<1>3. ASSUME NEW p \in Callers, Pool!ReadAlive(p) PROVE PoolInv'
  <2>1. CASE Alive[nextIndex[p]]
    BY <1>3, <2>1, PoolReturn DEF Pool!ReadAlive
  <2>2. CASE ~Alive[nextIndex[p]]
    <3>1. /\ pc[p] = "read" /\ pc' = [pc EXCEPT ![p] = "add"]
          /\ poolI' = [poolI EXCEPT ![p] = @ + 1]
          /\ UNCHANGED <<Alive, current, cursor, nextIndex, aliveSince, overtaken, wrapped>>
      BY <1>3, <2>2 DEF Pool!ReadAlive, Pool!hist
    <3>2. poolI'[p] = poolI[p] + 1 /\ poolI[p] \in 0..(PoolSize - 1)
      BY <3>1 DEF Pool!TypeOK
    <3>3. Pool!TypeOK'
      BY <3>1, <3>2 DEF Pool!TypeOK
    <3>4. Pool!AliveSet' = Pool!AliveSet /\ \A b : Ago(b)' = Ago(b)
      BY <3>1 DEF Pool!AliveSet, Ago
    <3>5. nextIndex[p] \notin aliveSince[p]
      BY <2>2 DEF Pool!AliveSet
    <3>6. ASSUME Undisturbed(p) PROVE LookedAt(p)'
      <4>1. LookedAt(p)
        BY <3>1, <3>6
      <4>2. ASSUME NEW b \in aliveSince[p] PROVE Ago(b) >= poolI[p] + 1
        <5>1. Ago(b) > poolI[p]
          BY <3>1, <3>5, <4>1 DEF LookedAt
        <5>2. Ago(b) \in 0..(PoolSize - 1)
          BY AgoInRange DEF Pool!TypeOK
        <5> QED BY <3>2, <5>1, <5>2
      <4> QED BY <3>1, <3>2, <3>4, <4>2 DEF LookedAt, Pool!TypeOK
    <3>7. \A q \in Callers : q # p =>
            /\ pc'[q] = pc[q] /\ poolI'[q] = poolI[q]
            /\ LookedAt(q)' <=> LookedAt(q)
      BY <3>1, <3>4 DEF LookedAt, Pool!TypeOK
    <3>8. \A q \in Callers : Undisturbed(q)' <=> Undisturbed(q)
      BY <3>1 DEF Undisturbed
    <3>9. pc'[p] = "add"
      BY <3>1 DEF Pool!TypeOK
    <3> QED BY <3>1, <3>3, <3>4, <3>6, <3>7, <3>8, <3>9
  <2> QED BY <2>1, <2>2
<1>4. ASSUME NEW p \in Callers, Pool!GiveUp(p) PROVE PoolInv'
  BY <1>4, PoolReturn DEF Pool!GiveUp
<1>5. CASE Pool!Tick \/ UNCHANGED poolVars
  <2>1. /\ UNCHANGED <<Alive, current, pc, poolI, nextIndex, aliveSince, overtaken, wrapped>>
        /\ cursor' \in 0..PoolSize
    BY <1>5 DEF Pool!Tick, Pool!hist, poolVars, Pool!TypeOK
  <2>2. Pool!TypeOK' /\ Pool!AliveSet' = Pool!AliveSet /\ \A b : Ago(b)' = Ago(b)
    BY <2>1 DEF Pool!TypeOK, Pool!AliveSet, Ago
  <2> QED BY <2>1, <2>2 DEF LookedAt, Undisturbed
<1>6. CASE Pool!SetAlive
  <2>1. /\ cursor \in 0..(PoolSize - 1) /\ cursor' = cursor + 1
        /\ Alive' \in [Pool!Index -> BOOLEAN]
        /\ aliveSince' = [p \in Callers |-> aliveSince[p] \cap Pool!AliveSet']
        /\ UNCHANGED <<current, pc, poolI, nextIndex, overtaken, wrapped>>
    BY <1>6 DEF Pool!SetAlive, Pool!TypeOK
  <2>2. Pool!TypeOK' /\ \A b : Ago(b)' = Ago(b)
    BY <2>1 DEF Pool!TypeOK, Ago
  <2>3. \A p \in Callers : aliveSince'[p] \subseteq aliveSince[p] /\ aliveSince'[p] \subseteq Pool!AliveSet'
    BY <2>1
  <2>4. \A p \in Callers : (LookedAt(p) => LookedAt(p)') /\ (Undisturbed(p)' <=> Undisturbed(p))
    BY <2>1, <2>2, <2>3 DEF LookedAt, Undisturbed
  <2> QED BY <2>1, <2>2, <2>3, <2>4
<1> QED BY <1>1, <1>2, <1>3, <1>4, <1>5, <1>6 DEF Pool!Next

LEMMA PoolInit == Pool!Init => PoolInv
<1> SUFFICES ASSUME Pool!Init PROVE PoolInv
  OBVIOUS
<1>1. Pool!TypeOK /\ \A p \in Callers : pc[p] = "idle" /\ aliveSince[p] = {}
  BY PoolBounds DEF Pool!Init, Pool!TypeOK, Pool!Index, Pool!Counter
<1> QED BY <1>1 DEF PoolInv
-----------------------------------------------------------------------------
(* The composition                                                          *)

WsP == INSTANCE WsProxyProofs

\* The session of the composition is the one that WsProxyProofs is about.
LEMMA SameSession ==
  /\ Ws!ParametersOk => WsP!ParametersOk
  /\ Ws!Init => WsP!Init
  /\ [Ws!Next]_sessionVars => [WsP!Next]_WsP!vars
<1>1. WsP!vars = sessionVars /\ Ws!Side = WsP!Side /\ \A s : Ws!Other(s) = WsP!Other(s)
  BY DEF WsP!vars, sessionVars, Ws!Side, WsP!Side, Ws!Other, WsP!Other
<1>2. Ws!HandlerStep => WsP!HandlerStep
  BY <1>1 DEF Ws!HandlerStep, WsP!HandlerStep, Ws!Running, WsP!Running, Ws!traffic, WsP!traffic,
       Ws!NoTarget, WsP!NoTarget, Ws!Target, WsP!Target, Ws!BadHandshake,
       WsP!BadHandshake, Ws!NotHijackable, WsP!NotHijackable, Ws!Upgrade,
       WsP!Upgrade, Ws!DialFails, WsP!DialFails, Ws!Dial, WsP!Dial,
       Ws!WakeUp, WsP!WakeUp, Ws!Return, WsP!Return
<1>3. ASSUME NEW s \in Ws!Side, Ws!PumpStep(s) \/ Ws!Send(s) \/ Ws!Leave(s)
      PROVE  WsP!PumpStep(s) \/ WsP!Send(s) \/ WsP!Leave(s)
  BY <1>1, <1>3
    DEF Ws!PumpStep, WsP!PumpStep, Ws!Pumping, WsP!Pumping,
        Ws!Read, WsP!Read, Ws!ReadFails, WsP!ReadFails, Ws!Write, WsP!Write,
        Ws!WriteFails, WsP!WriteFails, Ws!CloseDone, WsP!CloseDone, Ws!Send,
        WsP!Send, Ws!Leave, WsP!Leave
<1>4. Ws!Next => WsP!Next
  BY <1>1, <1>2, <1>3 DEF Ws!Next, WsP!Next
<1>5. Ws!Init => WsP!Init
  BY <1>1 DEF Ws!Init, WsP!Init
<1> QED BY <1>4, <1>5 DEF Ws!ParametersOk, WsP!ParametersOk, WsP!vars, sessionVars

\* What WsProxyProofs proves of a session is what the composition says of it.
LEMMA SessionKept == WsP!SessionInv => RelayKept
<1> SUFFICES ASSUME WsP!SessionInv PROVE RelayKept
  OBVIOUS
<1>0. WsP!TypeOK /\ WsP!RelayInOrder /\ WsP!NothingLostInside
  BY WsP!SessionInvSuffices
<1>1. Ws!Side = WsP!Side /\ \A s : Ws!Other(s) = WsP!Other(s)
  BY DEF Ws!Side, WsP!Side, Ws!Other, WsP!Other
<1>2. Ws!TypeOK
  BY <1>0, <1>1 DEF WsP!TypeOK, Ws!TypeOK
<1>3. Ws!RelayInOrder
  BY <1>0, <1>1 DEF WsP!RelayInOrder, Ws!RelayInOrder, Ws!IsPrefix, WsP!IsPrefix
<1>4. Ws!NothingLostInside
  BY <1>0, <1>1 DEF WsP!NothingLostInside, Ws!NothingLostInside, WsP!InHand, Ws!InHand
<1> QED BY <1>2, <1>3, <1>4 DEF RelayKept

RouteP == INSTANCE RouteLookupProofs

\* The lookup of the composition is the one that RouteLookupProofs is about.
LEMMA SameLookup ==
  /\ Routes!ParametersOk => RouteP!ParametersOk
  /\ Routes!Init => RouteP!Init
  /\ [Routes!Next]_lookupVars => [RouteP!Next]_RouteP!vars
<1>1. ASSUME NEW c \in Configs, Routes!Visit(c) PROVE RouteP!Visit(c)
  BY <1>1 DEF Routes!Visit, RouteP!Visit, Routes!Improves, RouteP!Improves,
       Routes!HasPrefix, RouteP!HasPrefix, Routes!IsPrefix, RouteP!IsPrefix,
       Routes!targetVars, RouteP!targetVars
<1>2. ASSUME NEW base \in BasePaths, Routes!Direct(base) PROVE RouteP!Direct(base)
  BY <1>2 DEF Routes!Direct, RouteP!Direct, Routes!AtEnd, RouteP!AtEnd,
       Routes!Upgraded, RouteP!Upgraded, Routes!JoinPath, RouteP!JoinPath,
       Routes!RemainingPath, RouteP!RemainingPath, Routes!NeedsSlash, RouteP!NeedsSlash,
       Routes!HasSuffixSlash, RouteP!HasSuffixSlash, Routes!HasPrefixSlash,
       RouteP!HasPrefixSlash
<1>3. Routes!DirectWebSocket => RouteP!DirectWebSocket
  BY DEF Routes!DirectWebSocket, RouteP!DirectWebSocket, Routes!AtEnd, RouteP!AtEnd,
       Routes!Upgraded, RouteP!Upgraded
<1>4. Routes!Next => RouteP!Next
  BY <1>1, <1>2, <1>3 DEF Routes!Next, RouteP!Next
<1>5. Routes!Init => RouteP!Init
  BY DEF Routes!Init, RouteP!Init
<1>6. UNCHANGED lookupVars => UNCHANGED RouteP!vars
  BY DEF lookupVars, RouteP!vars, RouteP!targetVars
<1>7. Routes!ParametersOk => RouteP!ParametersOk
  BY DEF Routes!ParametersOk, RouteP!ParametersOk
<1> QED BY <1>4, <1>5, <1>6, <1>7

\* What Routing assumes holds of the constants of the composition.
LEMMA RoutingAssumed ==
  Prefix \in [Configs -> Seq(Char)] /\ NoMatch \notin Configs /\ Routes!ParametersOk
BY MCAssumption DEF Routes!ParametersOk

\* What RouteLookupProofs proves of a lookup is what the composition says of it.
LEMMA LookupKept ==
  RouteP!LoopInv /\ RouteP!CallInv => LookupCorrect /\ TargetKeepsPathsApart
<1> SUFFICES ASSUME RouteP!LoopInv, RouteP!CallInv PROVE LookupCorrect /\ TargetKeepsPathsApart
  OBVIOUS
<1>0. RouteP!LookupCorrect /\ RouteP!TypeOK /\ RouteP!TargetKeepsPathsApart
  BY RoutingAssumed, RouteP!LoopEnds DEF RouteP!CallInv
<1>1. Routes!LookupCorrect
  BY <1>0 DEF RouteP!LookupCorrect, Routes!LookupCorrect, RouteP!Lookup, Routes!Lookup,
       RouteP!Longest, Routes!Longest, RouteP!Candidates, Routes!Candidates,
       RouteP!HasPrefix, Routes!HasPrefix, RouteP!IsPrefix, Routes!IsPrefix
<1>2. Routes!TypeOK
  BY <1>0 DEF RouteP!TypeOK, Routes!TypeOK
<1>3. Routes!TargetKeepsPathsApart
  BY <1>0 DEF RouteP!TargetKeepsPathsApart, Routes!TargetKeepsPathsApart,
       RouteP!Upgraded, Routes!Upgraded, RouteP!Below, Routes!Below,
       RouteP!HasPrefix, Routes!HasPrefix, RouteP!IsPrefix, Routes!IsPrefix,
       RouteP!JoinPath, Routes!JoinPath, RouteP!RemainingPath, Routes!RemainingPath,
       RouteP!NeedsSlash, Routes!NeedsSlash, RouteP!WithSlash, Routes!WithSlash,
       RouteP!HasSuffixSlash, Routes!HasSuffixSlash, RouteP!HasPrefixSlash,
       Routes!HasPrefixSlash
<1> QED BY <1>1, <1>2, <1>3 DEF LookupCorrect, TargetKeepsPathsApart

\* In whatever scene, each part takes its own steps or none.
LEMMA EachPartRuns ==
  /\ MCInit => Init /\ Routes!Init /\ Ws!Init /\ Pool!Init
  /\ [MCNext]_<<scene, vars, partVars>> =>
       /\ [Next]_vars /\ [Routes!Next]_lookupVars
       /\ [Ws!Next]_sessionVars /\ [Pool!Next]_poolVars
BY DEF MCInit, MCNext, partVars

\* The selection is fair in the composition too (gateway.core.go 36-54).
THEOREM SelectionFair == MCSpec => []NobodyStarves
<1>1. MCSpec => Spec
  BY EachPartRuns, PTL DEF MCSpec, Spec
<1> QED BY <1>1, RoundRobinFair, PTL

\* loadbalancer.go 24-34, for any number of backends, callers and values of the
\* counter: a backend that was alive during the whole call is missed only when
\* another call moved the counter, or when the counter came to its end and its
\* range is not a multiple of the number of backends.
THEOREM PoolMissesAreExplained == MCSpec => []PoolMissesExplained
<1>1. PoolInv => PoolMissesExplained
  <2> SUFFICES ASSUME PoolInv, NEW p \in Callers, pc[p] = "add", poolI[p] = PoolSize,
                      aliveSince[p] # {}, Undisturbed(p)
               PROVE  FALSE
    BY PoolBounds DEF PoolMissesExplained, Pool!MissesOnlyIfOvertaken, PoolInv, Undisturbed,
                      Pool!TypeOK
  <2>1. PICK b \in aliveSince[p] : TRUE
    OBVIOUS
  <2>2. Ago(b) >= PoolSize
    BY DEF PoolInv, LookedAt
  <2>3. Pool!TypeOK /\ b \in Pool!Index
    BY DEF PoolInv, Pool!TypeOK
  <2>4. Ago(b) \in 0..(PoolSize - 1)
    BY <2>3, AgoInRange
  <2> QED BY <2>2, <2>4, PoolBounds
<1> QED BY <1>1, EachPartRuns, PoolInit, PoolStep, PTL DEF MCSpec

\* gateway.core.go 119-162, for any number of messages: the relay keeps the
\* order, loses nothing while the session lasts, and a session ends only behind a
\* peer that left.
THEOREM RelayIsKept == MCSpec => []RelayKept
<1>1. MCInit => WsP!SessionInv
  BY MCAssumption, EachPartRuns, SameSession, WsP!InitSessionInv
<1>2. WsP!SessionInv /\ [MCNext]_<<scene, vars, partVars>> => WsP!SessionInv'
  BY MCAssumption, EachPartRuns, SameSession, WsP!NextSessionInv
<1> QED BY <1>1, <1>2, SessionKept, PTL DEF MCSpec

\* A lookup in the composition, from the invariants of RouteLookupProofs.
LEMMA LookupAlwaysKept == MCSpec => [](LookupCorrect /\ TargetKeepsPathsApart)
<1>1. MCInit => RouteP!LoopInv /\ RouteP!CallInv
  BY RoutingAssumed, EachPartRuns, SameLookup, RouteP!InitLoopInv, RouteP!InitCallInv
<1>2. /\ RouteP!LoopInv /\ RouteP!CallInv
      /\ [MCNext]_<<scene, vars, partVars>>
      => RouteP!LoopInv' /\ RouteP!CallInv'
  BY RoutingAssumed, EachPartRuns, SameLookup, RouteP!NextLoopInv, RouteP!NextCallInv
<1> QED BY <1>1, <1>2, LookupKept, PTL DEF MCSpec

\* gateway.core.go 169-184, for every table, path and order of the map: the loop
\* returns a longest match or nil, and the match is always a config of the table.
THEOREM LookupIsCorrect == MCSpec => []LookupCorrect
BY LookupAlwaysKept, PTL

\* gateway.core.go 211-222, for every set of prefixes, paths and base paths: what
\* the Director asks of an endpoint lies below its base path, and two paths of one
\* route become one path of the endpoint only if they differ by a slash behind the
\* prefix.
THEOREM TargetsKeepPathsApart == MCSpec => []TargetKeepsPathsApart
BY LookupAlwaysKept, PTL
=============================================================================
