--------------------------- MODULE GatewayProofs ---------------------------
(***************************************************************************)
(* Theorems about Gateway, for every set of configs, prefixes, requests    *)
(* and paths, any number of crashes, with and without database failures.   *)
(***************************************************************************)
EXTENDS Gateway, SequenceTheorems, TLAPS

Process == Requests \cup Configs \cup {Checker}

\* Each operation on the lock gives a lock.
LEMMA LockOperations ==
  ASSUME NEW P, NEW m \in LockType(P), NEW p \in P
  PROVE  /\ Unlocked \in LockType(P)
         /\ RLock(m, p) \in LockType(P)
         /\ RUnlock(m, p) \in LockType(P)
         /\ Lock(m, p) \in LockType(P)
         /\ Announce(m, p) \in LockType(P)
         /\ Unlock(m) \in LockType(P)
BY DEF LockType, Unlocked, RLock, RUnlock, Lock, Announce, Unlock

\* A lookup returns a config of the table or NoMatch.
LEMMA LookupInTable ==
  ASSUME NEW S \in SUBSET Configs, NEW path
  PROVE  Lookup(S, path) \subseteq Configs \cup {NoMatch}
BY DEF Lookup, Longest, Candidates

LEMMA InitTypeOK == Init => TypeOK
<1> SUFFICES ASSUME Init PROVE TypeOK
  OBVIOUS
<1>1. mu \in LockType(Requests \cup Configs \cup {Checker})
  BY DEF Init, Unlocked, LockType
<1>2. crashes \in 0..MaxCrashes
  BY BoundAssumption DEF Init
<1>3. pc \in [Requests -> InHandler \cup AtRest]
  BY DEF Init, AtRest
<1>4. post \in [Configs -> {"none"} \cup InCreate \cup Answered]
  BY DEF Init, Answered
<1>5. /\ matched \in [Requests -> Configs \cup {NoMatch}]
      /\ backendID \in [Requests -> Configs \cup {NoMatch}]
      /\ status \in [Requests -> {"none", "404", "503", "upstream"}]
      /\ logged \in [Requests -> {"none", "saved", "failed"}]
      /\ reload \in [Configs -> SUBSET Configs]
  BY DEF Init
<1> QED BY <1>1, <1>2, <1>3, <1>4, <1>5, InitialAssumption DEF Init, TypeOK

LEMMA NextTypeOK == TypeOK /\ [Next]_vars => TypeOK'
<1> SUFFICES ASSUME TypeOK, [Next]_vars PROVE TypeOK'
  OBVIOUS
<1> USE DEF TypeOK, Process
<1>1. ASSUME NEW r \in Requests, Arrive(r) PROVE TypeOK'
  BY <1>1, LockOperations DEF Arrive, InHandler, tblVars, postVars, chkVars
<1>2. ASSUME NEW r \in Requests, RequestStep(r) PROVE TypeOK'
  <2> USE LockOperations, LookupInTable
      DEF InHandler, AtRest, tblVars, postVars, chkVars, AtLookup, Return
  <2>1. CASE RouteNotFound(r)
    BY <2>1 DEF RouteNotFound
  <2>2. CASE RouteUnavailable(r)
    BY <2>2, ZenonT(30) DEF RouteUnavailable
  <2>3. CASE Forward(r)
    BY <2>3 DEF Forward
  <2>4. CASE Respond(r)
    BY <2>4 DEF Respond
  <2>5. CASE Abort(r)
    BY <2>5 DEF Abort
  <2>6. CASE Relock(r)
    BY <2>6 DEF Relock
  <2>7. CASE Relookup(r)
    <3>1. backendID' \in [Requests -> Configs \cup {NoMatch}]
      BY <2>7 DEF Relookup
    <3>2. mu' \in LockType(Process)
      BY <2>7 DEF Relookup
    <3> QED BY <2>7, <3>1, <3>2 DEF Relookup
  <2>8. CASE Record(r)
    BY <2>8 DEF Record
  <2> QED BY <1>2, <2>1, <2>2, <2>3, <2>4, <2>5, <2>6, <2>7, <2>8 DEF RequestStep
<1>3. ASSUME NEW k \in Configs, Accept(k) \/ Refuse(k) \/ CreateStep(k)
      PROVE  TypeOK'
  <2> USE LockOperations
      DEF PostStep, InCreate, Answered, tblVars, reqVars, postVars, chkVars
  <2>1. CASE Accept(k)
    BY <2>1 DEF Accept
  <2>2. CASE Refuse(k)
    BY <2>2 DEF Refuse
  <2>3. CASE Persist(k)
    BY <2>3 DEF Persist
  <2>4. CASE PersistError(k)
    BY <2>4 DEF PersistError
  <2>5. CASE Publish(k)
    BY <2>5 DEF Publish
  <2>6. CASE CallReload(k)
    BY <2>6 DEF CallReload
  <2>7. CASE AnnounceWriter(k)
    BY <2>7 DEF AnnounceWriter
  <2>8. CASE Install(k)
    BY <2>8 DEF Install, BetweenLookups
  <2> QED BY <1>3, <2>1, <2>2, <2>3, <2>4, <2>5, <2>6, <2>7, <2>8 DEF CreateStep
<1>4. CASE CheckerStep
  <2> USE LockOperations DEF tblVars, reqVars, postVars, chkVars
  <2>1. CASE Tick
    BY <2>1 DEF Tick
  <2>2. CASE Snapshot
    BY <2>2 DEF Snapshot
  <2>3. CASE RoundEnds
    BY <2>3 DEF RoundEnds
  <2> QED BY <1>4, <2>1, <2>2, <2>3 DEF CheckerStep
<1>5. CASE Crash
  <2>1. mu' \in LockType(Requests \cup Configs \cup {Checker})
    BY <1>5 DEF Crash, Unlocked, LockType
  <2>2. crashes' \in 0..MaxCrashes
    BY <1>5, BoundAssumption DEF Crash
  <2>3. pc' \in [Requests -> InHandler \cup AtRest]
    BY <1>5 DEF Crash, AtRest
  <2>4. post' \in [Configs -> {"none"} \cup InCreate \cup Answered]
    BY <1>5 DEF Crash, Answered
  <2> QED BY <1>5, <2>1, <2>2, <2>3, <2>4 DEF Crash
<1>6. CASE Boot \/ BootEmpty
  BY <1>6 DEF Boot, BootEmpty, tblVars, reqVars, postVars, chkVars
<1>7. CASE UNCHANGED vars
  BY <1>7 DEF vars
<1> QED BY <1>1, <1>2, <1>3, <1>4, <1>5, <1>6, <1>7 DEF Next

\* Type correctness.
THEOREM TypeCorrect == Spec => []TypeOK
BY InitTypeOK, NextTypeOK, PTL DEF Spec
-----------------------------------------------------------------------------
(* The lock.                                                                *)

\* Nothing of a dead process is left.
DownMeansEmpty ==
  ~up => /\ mu = Unlocked
         /\ \A r \in Requests : pc[r] \in AtRest
         /\ \A k \in Configs : post[k] \notin InCreate
         /\ checker = "sleep"

LockInv == TypeOK /\ DownMeansEmpty /\ LockMatchesThreads

LEMMA InitLockInv == Init => LockInv
<1> SUFFICES ASSUME Init PROVE DownMeansEmpty /\ LockMatchesThreads
  BY InitTypeOK DEF LockInv
<1>1. DownMeansEmpty
  BY DEF Init, DownMeansEmpty, AtRest, InCreate
<1>2. LockMatchesThreads
  BY DEF Init, LockMatchesThreads, Unlocked, ReadSections, WriteSections
<1> QED BY <1>1, <1>2

LEMMA NextLockInv == LockInv /\ [Next]_vars => LockInv'
<1> SUFFICES ASSUME LockInv, [Next]_vars PROVE (DownMeansEmpty /\ LockMatchesThreads)'
  BY NextTypeOK DEF LockInv
<1> USE DEF LockInv, TypeOK, LockType
<1>1. ASSUME NEW r \in Requests, Arrive(r)
      PROVE  (DownMeansEmpty /\ LockMatchesThreads)'
  <2>1. DownMeansEmpty'
    BY <1>1 DEF Arrive, DownMeansEmpty
  <2>2. r \notin mu.readers \cup mu.waiting
    BY <1>1, ProcessAssumption DEF Arrive, LockMatchesThreads, ReadSections, AtRest
  <2>3. ReadSections' = ReadSections \cup {r}
    BY <1>1 DEF Arrive, ReadSections, chkVars
  <2>4. WriteSections' = WriteSections
    BY <1>1 DEF Arrive, WriteSections, postVars
  <2>5. LockMatchesThreads'
    BY <1>1, <2>2, <2>3, <2>4 DEF Arrive, LockMatchesThreads, RLock
  <2> QED BY <2>1, <2>5
<1>2. ASSUME NEW r \in Requests, RequestStep(r)
      PROVE  (DownMeansEmpty /\ LockMatchesThreads)'
  <2>1. DownMeansEmpty'
    BY <1>2 DEF RequestStep, DownMeansEmpty, RouteNotFound, RouteUnavailable, Forward,
                Respond, Abort, Relock, Relookup, Record, AtLookup, Return
  <2>2. WriteSections' = WriteSections
    BY <1>2 DEF RequestStep, WriteSections, postVars, RouteNotFound, RouteUnavailable,
                Forward, Respond, Abort, Relock, Relookup, Record, Return
  <2>3. checker' = checker
    BY <1>2 DEF RequestStep, chkVars, RouteNotFound, RouteUnavailable,
                Forward, Respond, Abort, Relock, Relookup, Record, Return
  <2>4. CASE RouteNotFound(r) \/ RouteUnavailable(r) \/ Respond(r) \/ Abort(r) \/ Relookup(r)
    <3>1. r \in mu.readers
      BY <2>4 DEF RouteNotFound, RouteUnavailable, Respond, Abort, Relookup, AtLookup,
                  HoldsRead, LockMatchesThreads
    <3>2. mu' = RUnlock(mu, r)
      BY <2>4 DEF RouteNotFound, RouteUnavailable, Respond, Abort, Relookup, Return
    <3>3. \E next \in {"relock", "aborted", "record"} : pc' = [pc EXCEPT ![r] = next]
      BY <2>4 DEF RouteNotFound, RouteUnavailable, Respond, Abort, Relookup, Return
    <3>4. ReadSections' = ReadSections \ {r}
      BY <2>3, <3>3, ProcessAssumption DEF ReadSections
    <3> QED BY <2>1, <2>2, <3>1, <3>2, <3>3, <3>4 DEF LockMatchesThreads, RUnlock
  <2>5. CASE Forward(r)
    <3>1. ReadSections' = ReadSections
      BY <2>3, <2>5 DEF Forward, AtLookup, ReadSections
    <3> QED BY <2>1, <2>2, <2>5, <3>1
            DEF Forward, AtLookup, HoldsRead, LockMatchesThreads
  <2>6. CASE Relock(r)
    <3>1. r \notin mu.readers \cup mu.waiting
      BY <2>6, ProcessAssumption DEF Relock, LockMatchesThreads, ReadSections
    <3>2. ReadSections' = ReadSections \cup {r}
      BY <2>3, <2>6 DEF Relock, ReadSections
    <3> QED BY <2>1, <2>2, <2>6, <3>1, <3>2 DEF Relock, LockMatchesThreads, RLock
  <2>7. CASE Record(r)
    <3>1. ReadSections' = ReadSections
      BY <2>3, <2>7 DEF Record, ReadSections
    <3> QED BY <2>1, <2>2, <2>7, <3>1 DEF Record, LockMatchesThreads
  <2> QED BY <1>2, <2>4, <2>5, <2>6, <2>7 DEF RequestStep
<1>3. ASSUME NEW k \in Configs, Accept(k) \/ Refuse(k) \/ CreateStep(k)
      PROVE  (DownMeansEmpty /\ LockMatchesThreads)'
  <2>1. DownMeansEmpty'
    BY <1>3 DEF CreateStep, DownMeansEmpty, Accept, Refuse, Persist, PersistError,
                Publish, CallReload, AnnounceWriter, Install, PostStep
  <2>2. pc' = pc /\ checker' = checker
    BY <1>3 DEF CreateStep, reqVars, chkVars, Accept, Refuse, Persist, PersistError,
                Publish, CallReload, AnnounceWriter, Install
  <2>3. ReadSections' = ReadSections
    BY <2>2 DEF ReadSections
  <2>4. CASE Accept(k) \/ Refuse(k) \/ Persist(k) \/ PersistError(k) \/ Publish(k)
    <3>1. mu' = mu
      BY <2>4 DEF Accept, Refuse, Persist, PersistError, Publish
    <3>2. WriteSections' = WriteSections
      BY <2>4 DEF WriteSections, Accept, Refuse, Persist, PersistError, Publish, PostStep
    <3> QED BY <2>1, <2>2, <2>3, <3>1, <3>2 DEF LockMatchesThreads
  <2>5. CASE CallReload(k)
    <3>1. k \notin mu.queue \cup mu.writer
      BY <2>5 DEF CallReload, PostStep, LockMatchesThreads, WriteSections
    <3>2. WriteSections' = WriteSections \cup {k}
      BY <2>5 DEF CallReload, PostStep, WriteSections
    <3> QED BY <2>1, <2>2, <2>3, <2>5, <3>1, <3>2
            DEF CallReload, LockMatchesThreads, Lock
  <2>6. CASE AnnounceWriter(k)
    <3>1. WriteSections' = WriteSections
      BY <2>6 DEF AnnounceWriter, postVars, WriteSections
    <3> QED BY <2>1, <2>2, <2>3, <2>6, <3>1
            DEF AnnounceWriter, LockMatchesThreads, CanAnnounce, Announce
  <2>7. CASE Install(k)
    <3>1. WriteSections' = WriteSections \ {k}
      BY <2>7 DEF Install, PostStep, WriteSections
    <3> QED BY <2>1, <2>2, <2>3, <2>7, <3>1
            DEF Install, LockMatchesThreads, HoldsWrite, Unlock
  <2> QED BY <1>3, <2>4, <2>5, <2>6, <2>7 DEF CreateStep
<1>4. ASSUME CheckerStep PROVE (DownMeansEmpty /\ LockMatchesThreads)'
  <2>1. DownMeansEmpty'
    BY <1>4 DEF CheckerStep, DownMeansEmpty, Tick, Snapshot, RoundEnds
  <2>2. pc' = pc /\ WriteSections' = WriteSections
    BY <1>4 DEF CheckerStep, Tick, Snapshot, RoundEnds, reqVars, postVars, WriteSections
  <2>3. CASE Tick
    <3>1. Checker \notin mu.readers \cup mu.waiting
      BY <2>3, ProcessAssumption DEF Tick, LockMatchesThreads, ReadSections
    <3>2. ReadSections' = ReadSections \cup {Checker}
      BY <2>2, <2>3 DEF Tick, ReadSections
    <3> QED BY <2>1, <2>2, <2>3, <3>1, <3>2 DEF Tick, LockMatchesThreads, RLock
  <2>4. CASE Snapshot
    <3>1. ReadSections' = ReadSections \ {Checker}
      BY <2>2, <2>4, ProcessAssumption DEF Snapshot, ReadSections
    <3> QED BY <2>1, <2>2, <2>4, <3>1, ProcessAssumption
            DEF Snapshot, LockMatchesThreads, RUnlock, HoldsRead
  <2>5. CASE RoundEnds
    BY <2>1, <2>2, <2>5 DEF RoundEnds, LockMatchesThreads, ReadSections
  <2> QED BY <1>4, <2>3, <2>4, <2>5 DEF CheckerStep
<1>5. ASSUME Crash PROVE (DownMeansEmpty /\ LockMatchesThreads)'
  <2>1. mu' = Unlocked
    BY <1>5 DEF Crash
  <2>2. \A r \in Requests : pc'[r] \in AtRest
    BY <1>5 DEF Crash, AtRest, InHandler
  <2>3. \A k \in Configs : post'[k] \notin InCreate
    BY <1>5 DEF Crash, InCreate, Answered
  <2>4. ReadSections' = {} /\ WriteSections' = {}
    BY <1>5, <2>2, <2>3 DEF Crash, ReadSections, WriteSections, AtRest, InCreate
  <2>5. \A r \in Requests : pc'[r] # "proxy"
    BY <2>2 DEF AtRest
  <2> QED BY <1>5, <2>1, <2>2, <2>3, <2>4, <2>5
          DEF Crash, DownMeansEmpty, LockMatchesThreads, Unlocked
<1>6. ASSUME Boot \/ BootEmpty \/ UNCHANGED vars
      PROVE  (DownMeansEmpty /\ LockMatchesThreads)'
  <2>1. UNCHANGED <<mu, pc, post, checker>>
    BY <1>6 DEF Boot, BootEmpty, reqVars, postVars, chkVars, vars
  <2>2. DownMeansEmpty'
    BY <1>6, <2>1 DEF DownMeansEmpty, Boot, BootEmpty, vars
  <2> QED BY <2>1, <2>2 DEF LockMatchesThreads, ReadSections, WriteSections
<1> QED BY <1>1, <1>2, <1>3, <1>4, <1>5, <1>6 DEF Next

\* Gateway.mu is always held or awaited by exactly the goroutines inside a
\* section that releases it: no way out of ServeHTTP leaks the lock.
THEOREM LockCorrect == Spec => []LockMatchesThreads
<1>1. LockInv => LockMatchesThreads
  BY DEF LockInv
<1> QED BY <1>1, InitLockInv, NextLockInv, PTL DEF Spec

\* The table does not change under a request that is being proxied.
THEOREM TableHeld == Spec => TableHeldWhileProxied
<1>1. ASSUME LockInv, [Next]_vars, NEW r \in Requests, pc[r] = "proxy", up'
      PROVE  backends' = backends
  <2>1. up /\ r \in mu.readers
    BY <1>1 DEF LockInv, DownMeansEmpty, LockMatchesThreads, AtRest
  <2>2. ASSUME NEW k \in Configs PROVE ~Install(k)
    BY <2>1 DEF Install, HoldsWrite
  <2>3. ~Crash /\ ~Boot
    BY <1>1, <2>1 DEF Crash, Boot
  <2> QED
    BY <1>1, <2>2, <2>3 DEF Next, vars, tblVars, Arrive, RequestStep, RouteNotFound,
       RouteUnavailable, Forward, Respond, Abort, Relock, Relookup, Record, Return,
       Accept, Refuse, CreateStep, Persist, PersistError, Publish, CallReload,
       AnnounceWriter, CheckerStep, Tick, Snapshot, RoundEnds, BootEmpty
<1>2. LockInv /\ [Next]_vars
        => [\A r \in Requests : pc[r] = "proxy" /\ up' => backends' = backends]_vars
  BY <1>1
<1> QED BY <1>2, InitLockInv, NextLockInv, PTL DEF Spec, TableHeldWhileProxied
-----------------------------------------------------------------------------
(* Durability.                                                              *)

\* A POST is past its insert.
PastInsert == {k \in Configs : post[k] \in {"publish", "call", "lock", "created"}}

StoreInv == TypeOK /\ StoredFirst /\ PastInsert \subseteq db

LEMMA InitStoreInv == Init => StoreInv
<1> SUFFICES ASSUME Init PROVE StoredFirst /\ PastInsert \subseteq db
  BY InitTypeOK DEF StoreInv
<1>1. StoredFirst
  BY DEF Init, StoredFirst
<1>2. PastInsert \subseteq db
  BY DEF Init, PastInsert
<1> QED BY <1>1, <1>2

\* Steps that touch neither the stores nor the POSTs keep the invariant when the
\* two lookups' results are configs of the table.
LEMMA StoreInvKept ==
  ASSUME StoreInv, UNCHANGED <<db, post, reload, runtimeCache>>,
         backends' \in {{}, backends, db}, checking' \subseteq checking \cup backends,
         \A r \in Requests :
           {matched'[r], backendID'[r]} \subseteq {matched[r], backendID[r], NoMatch} \cup backends
  PROVE  StoredFirst' /\ PastInsert' \subseteq db'
<1>1. PastInsert' \subseteq db'
  BY DEF StoreInv, PastInsert
<1>2. StoredFirst'
  BY DEF StoreInv, StoredFirst
<1> QED BY <1>1, <1>2

LEMMA NextStoreInv == StoreInv /\ [Next]_vars => StoreInv'
<1> SUFFICES ASSUME StoreInv, [Next]_vars PROVE StoredFirst' /\ PastInsert' \subseteq db'
  BY NextTypeOK DEF StoreInv
<1>1. ASSUME NEW r \in Requests, Arrive(r) \/ RequestStep(r)
      PROVE  StoredFirst' /\ PastInsert' \subseteq db'
  <2>1. UNCHANGED <<db, post, reload, runtimeCache, backends, checking>>
    BY <1>1 DEF Arrive, RequestStep, RouteNotFound, RouteUnavailable, Forward, Respond,
       Abort, Relock, Relookup, Record, Return, tblVars, postVars, chkVars
  <2>2. Lookup(backends, PathOf[r]) \subseteq backends \cup {NoMatch}
    BY DEF Lookup, Longest, Candidates
  <2>3. \E c \in {matched[r], NoMatch} \cup backends : matched' = [matched EXCEPT ![r] = c]
    BY <1>1, <2>2 DEF Arrive, RequestStep, RouteNotFound, RouteUnavailable, Forward,
       Respond, Abort, Relock, Relookup, Record, StoreInv, TypeOK
  <2>4. \E c \in {backendID[r], NoMatch} \cup backends : backendID' = [backendID EXCEPT ![r] = c]
    <3>1. CASE Arrive(r)
      BY <3>1 DEF Arrive
    <3>2. CASE Relookup(r)
      BY <2>2, <3>2 DEF Relookup
    <3>3. CASE UNCHANGED backendID
      BY <3>3 DEF StoreInv, TypeOK
    <3> QED BY <1>1, <3>1, <3>2, <3>3 DEF RequestStep, RouteNotFound, RouteUnavailable,
               Forward, Respond, Abort, Relock, Record, Return
  <2>5. \A q \in Requests :
           {matched'[q], backendID'[q]} \subseteq {matched[q], backendID[q], NoMatch} \cup backends
    BY <2>3, <2>4 DEF StoreInv, TypeOK
  <2> QED BY <2>1, <2>5, StoreInvKept
<1>2. ASSUME NEW k \in Configs, Accept(k) \/ Refuse(k) \/ CreateStep(k)
      PROVE  StoredFirst' /\ PastInsert' \subseteq db'
  <2> USE DEF StoreInv, TypeOK, StoredFirst, PastInsert, PostStep, reqVars, tblVars, chkVars
  <2>1. CASE Accept(k) \/ Refuse(k)
    BY <2>1 DEF Accept, Refuse
  <2>2. CASE Persist(k)
    BY <2>2 DEF Persist
  <2>3. CASE PersistError(k)
    BY <2>3 DEF PersistError
  <2>4. CASE Publish(k)
    <3>1. k \in db
      BY <2>4 DEF Publish
    <3>2. \A j \in Configs : reload'[j] \subseteq db
      BY <2>4, <3>1 DEF Publish
    <3>3. StoredFirst'
      <4>1. \A j \in Configs : post'[j] = "created" => post[j] = "created"
        BY <2>4 DEF Publish
      <4> QED BY <2>4, <3>1, <3>2, <4>1 DEF Publish
    <3>4. PastInsert' \subseteq db'
      BY <2>4, <3>1 DEF Publish
    <3> QED BY <3>3, <3>4
  <2>5. CASE CallReload(k)
    BY <2>5 DEF CallReload
  <2>6. CASE AnnounceWriter(k)
    BY <2>6 DEF AnnounceWriter, postVars
  <2>7. CASE Install(k)
    BY <2>7 DEF Install
  <2> QED BY <1>2, <2>1, <2>2, <2>3, <2>4, <2>5, <2>6, <2>7 DEF CreateStep
<1>3. CASE CheckerStep
  BY <1>3, StoreInvKept
     DEF CheckerStep, Tick, Snapshot, RoundEnds, reqVars, tblVars, postVars
<1>4. CASE Crash
  <2>1. \A k \in Configs : post'[k] = "created" => post[k] = "created"
    BY <1>4 DEF Crash, StoreInv, TypeOK
  <2>2. PastInsert' \subseteq PastInsert
    BY <1>4 DEF Crash, StoreInv, TypeOK, PastInsert, InCreate
  <2> QED BY <1>4, <2>1, <2>2 DEF Crash, StoreInv, StoredFirst
<1>5. CASE Boot \/ BootEmpty
  BY <1>5 DEF Boot, BootEmpty, reqVars, tblVars, postVars, chkVars,
              StoreInv, StoredFirst, PastInsert
<1>6. CASE UNCHANGED vars
  BY <1>6 DEF vars, StoreInv, StoredFirst, PastInsert
<1> QED BY <1>1, <1>2, <1>3, <1>4, <1>5, <1>6 DEF Next

\* Whatever is acknowledged, cached, routed, probed or logged is stored.
THEOREM StoredFirstAlways == Spec => []StoredFirst
<1>1. StoreInv => StoredFirst
  BY DEF StoreInv
<1> QED BY <1>1, InitStoreInv, NextStoreInv, PTL DEF Spec
-----------------------------------------------------------------------------
(* Reloads.                                                                 *)

Settled == {k \in Published : post[k] = "created"}

OvertakeInv ==
  /\ TypeOK
  /\ ~up => Published = {}
  /\ \A k \in Configs : reload[k] \subseteq runtimeCache
  /\ \A k \in Configs : k \notin reload[k] => reload[k] = {}
  /\ \A k \in Configs : post[k] \in {"call", "lock"} => k \in reload[k]
  /\ \A j, k \in Configs : reload[j] \subseteq reload[k] \/ reload[k] \subseteq reload[j]
  /\ Settled # {} => \E j \in Settled : backends = reload[j]

LEMMA InitOvertakeInv == Init => OvertakeInv
BY InitTypeOK DEF Init, OvertakeInv, Published, Settled

\* A step that leaves lists and table alone, and settles nobody, is harmless.
LEMMA OvertakeInvKept ==
  ASSUME OvertakeInv, TypeOK', UNCHANGED <<reload, backends>>,
         runtimeCache \subseteq runtimeCache',
         up' = up \/ Published = {},
         \A k \in Configs : post'[k] = "created" <=> post[k] = "created",
         \A k \in Configs : post'[k] \in {"call", "lock"} => post[k] \in {"call", "lock"}
  PROVE  OvertakeInv'
<1>1. Published' = Published
  BY DEF Published
<1>2. Settled' = Settled
  BY <1>1 DEF Settled, Published
<1> QED BY <1>1, <1>2 DEF OvertakeInv

LEMMA NextOvertakeInv == OvertakeInv /\ [Next]_vars => OvertakeInv'
<1> SUFFICES ASSUME OvertakeInv, [Next]_vars PROVE OvertakeInv'
  OBVIOUS
<1>0. TypeOK'
  BY NextTypeOK DEF OvertakeInv
<1>1. ASSUME NEW r \in Requests, Arrive(r) \/ RequestStep(r) PROVE OvertakeInv'
  <2>1. UNCHANGED <<up, reload, backends, runtimeCache, post>>
    BY <1>1 DEF Arrive, RequestStep, RouteNotFound, RouteUnavailable, Forward, Respond,
       Abort, Relock, Relookup, Record, Return, tblVars, postVars
  <2> QED BY <1>0, <2>1, OvertakeInvKept
<1>2. ASSUME NEW k \in Configs, Accept(k) \/ Refuse(k) \/ CreateStep(k) PROVE OvertakeInv'
  <2> USE DEF PostStep, tblVars, postVars
  <2>1. CASE Accept(k) \/ Refuse(k) \/ Persist(k) \/ PersistError(k) \/ CallReload(k)
    <3>1. UNCHANGED <<up, reload, backends, runtimeCache>>
      BY <2>1 DEF Accept, Refuse, Persist, PersistError, CallReload
    <3>2. \A j \in Configs : post'[j] = "created" <=> post[j] = "created"
      BY <2>1 DEF Accept, Refuse, Persist, PersistError, CallReload, OvertakeInv, TypeOK
    <3>3. \A j \in Configs : post'[j] \in {"call", "lock"} => post[j] \in {"call", "lock"}
      BY <2>1 DEF Accept, Refuse, Persist, PersistError, CallReload, OvertakeInv, TypeOK
    <3> QED BY <1>0, <3>1, <3>2, <3>3, OvertakeInvKept
  <2>2. CASE AnnounceWriter(k)
    BY <1>0, <2>2, OvertakeInvKept DEF AnnounceWriter
  <2>3. CASE Publish(k)
    <3> USE DEF OvertakeInv, TypeOK
    <3>1. /\ up' = up /\ up = TRUE /\ backends' = backends
          /\ runtimeCache' = runtimeCache \cup {k}
          /\ reload'[k] = runtimeCache \cup {k}
          /\ \A j \in Configs \ {k} : reload'[j] = reload[j]
          /\ post[k] = "publish" /\ post'[k] = "call"
          /\ \A j \in Configs \ {k} : post'[j] = post[j]
      BY <2>3 DEF Publish
    <3>2. \A j \in Configs : reload'[j] \subseteq runtimeCache'
      BY <3>1
    <3>3. \A j \in Configs : j \notin reload'[j] => reload'[j] = {}
      BY <3>1
    <3>4. \A i, j \in Configs :
             reload'[i] \subseteq reload'[j] \/ reload'[j] \subseteq reload'[i]
      <4> SUFFICES ASSUME NEW i \in Configs, NEW j \in Configs
                   PROVE  reload'[i] \subseteq reload'[j] \/ reload'[j] \subseteq reload'[i]
        OBVIOUS
      <4>1. CASE i = k
        BY <3>1, <3>2, <4>1
      <4>2. CASE j = k
        BY <3>1, <3>2, <4>2
      <4>3. CASE i # k /\ j # k
        BY <3>1, <4>3
      <4> QED BY <4>1, <4>2, <4>3
    <3>5. Settled' = Settled
      BY <3>1 DEF Settled, Published
    <3>6. \A j \in Settled : reload'[j] = reload[j]
      BY <3>1 DEF Settled, Published
    <3>7. \A j \in Configs : post'[j] \in {"call", "lock"} => j \in reload'[j]
      BY <3>1
    <3>8. Settled' # {} => \E j \in Settled' : backends' = reload'[j]
      BY <3>1, <3>5, <3>6
    <3>9. ~up' => Published' = {}
      BY <3>1
    <3> QED BY <1>0, <3>2, <3>3, <3>4, <3>7, <3>8, <3>9
  <2>4. CASE Install(k)
    <3> USE DEF OvertakeInv
    <3>1. /\ up' = up /\ up = TRUE /\ backends' = reload[k]
          /\ UNCHANGED <<reload, runtimeCache>>
          /\ post[k] = "lock" /\ post' = [post EXCEPT ![k] = "created"]
      BY <2>4 DEF Install
    <3>2. k \in Settled'
      BY <3>1 DEF Settled, Published, TypeOK
    <3>3. \A j \in Configs : post'[j] \in {"call", "lock"} => j \in reload'[j]
      BY <3>1 DEF TypeOK
    <3> QED BY <1>0, <3>1, <3>2, <3>3
  <2> QED BY <1>2, <2>1, <2>2, <2>3, <2>4 DEF CreateStep
<1>3. CASE CheckerStep
  BY <1>0, <1>3, OvertakeInvKept DEF CheckerStep, Tick, Snapshot, RoundEnds, tblVars, postVars
<1>4. CASE Crash
  <2>1. \A k \in Configs : reload'[k] = {} /\ post'[k] \notin {"call", "lock"}
    BY <1>4 DEF Crash, InCreate
  <2>2. Published' = {} /\ Settled' = {}
    BY <2>1 DEF Published, Settled
  <2> QED BY <1>0, <1>4, <2>1, <2>2 DEF OvertakeInv
<1>5. CASE Boot
  <2>1. UNCHANGED <<reload, post>> /\ Published = {}
    BY <1>5 DEF Boot, postVars, OvertakeInv
  <2>2. \A k \in Configs : reload[k] = {}
    BY <2>1 DEF Published, OvertakeInv
  <2>3. Published' = {} /\ Settled' = {}
    BY <2>1 DEF Published, Settled
  <2> QED BY <1>0, <2>1, <2>2, <2>3 DEF OvertakeInv
<1>6. CASE BootEmpty
  BY <1>0, <1>6, OvertakeInvKept DEF BootEmpty, tblVars, postVars, OvertakeInv
<1>7. CASE UNCHANGED vars
  BY <1>0, <1>7, OvertakeInvKept DEF vars
<1> QED BY <1>1, <1>2, <1>3, <1>4, <1>5, <1>6, <1>7 DEF Next

\* A config acknowledged before this life began and read by GetAll is cached, and
\* therefore in the table and in every list that this life builds.
LoadedStays ==
  up => \A k \in Configs \ (Published \cup unloaded) :
          post[k] = "created" =>
            /\ k \in runtimeCache \cap backends
            /\ \A j \in Published : k \in reload[j]

MissingInv == StoreInv /\ OvertakeInv /\ LoadedStays

LEMMA InitMissingInv == Init => MissingInv
BY InitStoreInv, InitOvertakeInv DEF Init, MissingInv, LoadedStays

\* A step that leaves table, lists and acknowledgements alone is harmless.
LEMMA LoadedStaysKept ==
  ASSUME LoadedStays, UNCHANGED <<up, unloaded, reload, backends>>,
         runtimeCache \subseteq runtimeCache',
         \A k \in Configs : post'[k] = "created" => post[k] = "created"
  PROVE  LoadedStays'
BY DEF LoadedStays, Published

LEMMA NextMissingInv == MissingInv /\ [Next]_vars => MissingInv'
<1> SUFFICES ASSUME MissingInv, [Next]_vars PROVE LoadedStays'
  BY NextStoreInv, NextOvertakeInv DEF MissingInv
<1>0. TypeOK /\ LoadedStays /\ PastInsert \subseteq db
  BY DEF MissingInv, StoreInv
<1>1. ASSUME NEW r \in Requests, Arrive(r) \/ RequestStep(r) PROVE LoadedStays'
  <2>1. UNCHANGED <<up, unloaded, reload, backends, runtimeCache, post>>
    BY <1>1 DEF Arrive, RequestStep, RouteNotFound, RouteUnavailable, Forward, Respond,
       Abort, Relock, Relookup, Record, Return, tblVars, postVars
  <2> QED BY <1>0, <2>1, LoadedStaysKept
<1>2. ASSUME NEW k \in Configs, Accept(k) \/ Refuse(k) \/ CreateStep(k) PROVE LoadedStays'
  <2> USE DEF PostStep, tblVars, postVars
  <2>1. CASE Accept(k) \/ Refuse(k) \/ Persist(k) \/ PersistError(k) \/ CallReload(k)
    <3>1. UNCHANGED <<up, unloaded, reload, backends, runtimeCache>>
      BY <2>1 DEF Accept, Refuse, Persist, PersistError, CallReload
    <3>2. \A j \in Configs : post'[j] = "created" => post[j] = "created"
      BY <1>0, <2>1 DEF Accept, Refuse, Persist, PersistError, CallReload, TypeOK
    <3> QED BY <1>0, <3>1, <3>2, LoadedStaysKept
  <2>2. CASE AnnounceWriter(k)
    BY <1>0, <2>2, LoadedStaysKept DEF AnnounceWriter
  <2>3. CASE Publish(k)
    <3>1. /\ up /\ UNCHANGED <<up, unloaded, backends>>
          /\ runtimeCache' = runtimeCache \cup {k}
          /\ reload'[k] = runtimeCache \cup {k}
          /\ \A j \in Configs \ {k} : reload'[j] = reload[j]
          /\ \A j \in Configs : post'[j] = "created" => post[j] = "created"
      BY <1>0, <2>3 DEF Publish, TypeOK
    <3>2. Published' = Published \cup {k}
      BY <3>1 DEF Published
    <3>3. ASSUME NEW j \in Configs, j \notin Published', j \notin unloaded', post'[j] = "created"
          PROVE  /\ j \in runtimeCache' /\ j \in backends'
                 /\ \A i \in Published' : j \in reload'[i]
      <4>1. /\ j \in runtimeCache /\ j \in backends
            /\ \A i \in Published : j \in reload[i]
        BY <1>0, <3>1, <3>2, <3>3 DEF LoadedStays
      <4>2. ASSUME NEW i \in Published' PROVE j \in reload'[i]
        <5>1. CASE i = k
          BY <3>1, <4>1, <5>1
        <5>2. CASE i # k
          BY <3>1, <3>2, <4>1, <5>2 DEF Published
        <5> QED BY <5>1, <5>2
      <4> QED BY <3>1, <4>1, <4>2
    <3> QED BY <3>3 DEF LoadedStays
  <2>4. CASE Install(k)
    <3>1. /\ up /\ UNCHANGED <<up, unloaded, runtimeCache, reload>> /\ backends' = reload[k]
          /\ post[k] = "lock" /\ \A j \in Configs \ {k} : post'[j] = post[j]
      BY <1>0, <2>4 DEF Install, TypeOK
    <3>2. k \in Published /\ Published' = Published
      BY <3>1 DEF MissingInv, OvertakeInv, Published
    <3> QED BY <1>0, <3>1, <3>2 DEF LoadedStays
  <2> QED BY <1>2, <2>1, <2>2, <2>3, <2>4 DEF CreateStep
<1>3. CASE CheckerStep
  BY <1>0, <1>3, LoadedStaysKept
     DEF CheckerStep, Tick, Snapshot, RoundEnds, tblVars, postVars
<1>4. CASE Crash
  BY <1>4 DEF Crash, LoadedStays
<1>5. CASE Boot \/ BootEmpty
  <2>1. Published' = {} /\ post' = post
    BY <1>5 DEF Boot, BootEmpty, postVars, MissingInv, OvertakeInv, Published
  <2>2. \A k \in Configs : post[k] = "created" => k \in db
    BY <1>0 DEF PastInsert
  <2> QED BY <1>5, <2>1, <2>2 DEF Boot, BootEmpty, LoadedStays
<1>6. CASE UNCHANGED vars
  BY <1>0, <1>6, LoadedStaysKept DEF vars
<1> QED BY <1>1, <1>2, <1>3, <1>4, <1>5, <1>6 DEF Next

\* An acknowledged config is missing from the table of a running process only
\* when the process could not read its row at its start, or when an older reload
\* list was installed after its own: there is no third way.
THEOREM MissingAlwaysExplained == Spec => []MissingExplained
<1>1. MissingInv => MissingExplained
  <2> SUFFICES ASSUME MissingInv, up, NEW k \in Configs \ unloaded,
                      post[k] = "created", k \notin backends
               PROVE  /\ k \in reload[k]
                      /\ \E j \in Published : /\ post[j] = "created"
                                              /\ backends = reload[j]
                                              /\ reload[j] \subseteq reload[k]
    BY DEF MissingInv, OvertakeInv, MissingExplained
  <2>1. k \in Published
    BY DEF MissingInv, LoadedStays
  <2>2. PICK j \in Settled : backends = reload[j]
    BY <2>1 DEF MissingInv, OvertakeInv, Settled
  <2> QED BY <2>1, <2>2 DEF MissingInv, OvertakeInv, Settled, Published
<1> QED BY <1>1, InitMissingInv, NextMissingInv, PTL DEF Spec
-----------------------------------------------------------------------------
(* The access log's label.                                                  *)

\* Two longest matches of a path are the same prefix.
LEMMA LongestAgree ==
  ASSUME NEW S \in SUBSET Configs, NEW path,
         NEW c \in Longest(S, path), NEW d \in Longest(S, path)
  PROVE  Prefix[c] = Prefix[d]
<1>1. /\ c \in Configs /\ d \in Configs
      /\ Len(Prefix[c]) <= Len(Prefix[d]) /\ Len(Prefix[d]) <= Len(Prefix[c])
      /\ IsPrefix(Prefix[c], path) /\ IsPrefix(Prefix[d], path)
  BY DEF Longest, Candidates, HasPrefix
<1>2. Prefix[c] \in Seq(Char) /\ Prefix[d] \in Seq(Char)
  BY <1>1, PrefixAssumption
<1>3. Len(Prefix[c]) = Len(Prefix[d])
  BY <1>1, <1>2
<1>4. /\ SubSeq(Prefix[c], 1, Len(Prefix[c])) = SubSeq(path, 1, Len(Prefix[c]))
      /\ SubSeq(Prefix[d], 1, Len(Prefix[d])) = SubSeq(path, 1, Len(Prefix[d]))
  BY <1>1 DEF IsPrefix
<1>5. /\ SubSeq(Prefix[c], 1, Len(Prefix[c])) = Prefix[c]
      /\ SubSeq(Prefix[d], 1, Len(Prefix[d])) = Prefix[d]
  BY <1>2, SubSeqFull
<1> QED BY <1>3, <1>4, <1>5

\* Two lookups of one path in one table give the same prefix, or both nothing.
LEMMA LookupsAgree ==
  ASSUME NEW S \in SUBSET Configs, NEW path,
         NEW c \in Lookup(S, path), NEW d \in Lookup(S, path), c # d
  PROVE  NoMatch \notin {c, d} /\ Prefix[c] = Prefix[d]
<1>1. Longest(S, path) # {} /\ {c, d} \subseteq Longest(S, path)
  BY DEF Lookup
<1>2. NoMatch \notin Longest(S, path)
  BY NoMatchAssumption DEF Longest, Candidates
<1> QED BY <1>1, <1>2, LongestAgree

\* Until the table is reloaded, what the handler matched stays a result of the
\* lookup that the access log repeats.
StillMatches(r) ==
  /\ pc[r] = "lookup" => matched[r] = NoMatch
  /\ pc[r] \in {"proxy", "relock", "relookup"} /\ r \notin reloaded
       => matched[r] \in Lookup(backends, PathOf[r])
  /\ pc[r] \in {"record", "done"} /\ backendID[r] # matched[r] /\ r \notin reloaded
       => /\ NoMatch \notin {backendID[r], matched[r]}
          /\ Prefix[backendID[r]] = Prefix[matched[r]]

LabelInv == LockInv /\ \A r \in Requests : StillMatches(r)

LEMMA InitLabelInv == Init => LabelInv
BY InitLockInv DEF Init, LabelInv, StillMatches

LEMMA NextLabelInv == LabelInv /\ [Next]_vars => LabelInv'
<1> SUFFICES ASSUME LabelInv, [Next]_vars, NEW q \in Requests PROVE StillMatches(q)'
  BY NextLockInv DEF LabelInv
<1> USE DEF LabelInv
<1>0. TypeOK
  BY DEF LockInv
<1>1. ASSUME NEW r \in Requests, Arrive(r) \/ RequestStep(r) PROVE StillMatches(q)'
  <2>1. /\ backends' = backends
        /\ reloaded' \in {reloaded, reloaded \ {r}}
        /\ Arrive(r) \/ reloaded' = reloaded
    BY <1>1 DEF Arrive, RequestStep, RouteNotFound, RouteUnavailable, Forward, Respond,
       Abort, Relock, Relookup, Record, Return, tblVars
  <2>2. CASE q # r
    <3>1. /\ pc'[q] = pc[q] /\ matched'[q] = matched[q] /\ backendID'[q] = backendID[q]
          /\ q \in reloaded' <=> q \in reloaded
      BY <1>0, <1>1, <2>1, <2>2 DEF TypeOK, Arrive, RequestStep, RouteNotFound,
         RouteUnavailable, Forward, Respond, Abort, Relock, Relookup, Record, Return
    <3> QED BY <2>1, <3>1 DEF StillMatches
  <2>3. CASE q = r
    <3> USE DEF TypeOK
    <3>1. CASE Arrive(r)
      BY <1>0, <2>3, <3>1 DEF Arrive, StillMatches
    <3>2. CASE RouteNotFound(r)
      <4>1. matched' = matched /\ matched[r] = NoMatch /\ pc'[r] = "relock"
        BY <1>0, <3>2 DEF RouteNotFound, AtLookup, Return, StillMatches
      <4>2. NoMatch \in Lookup(backends, PathOf[r])
        BY <3>2 DEF RouteNotFound
      <4> QED BY <2>1, <2>3, <4>1, <4>2 DEF StillMatches
    <3>3. CASE RouteUnavailable(r) \/ Forward(r)
      <4>1. matched'[r] \in Lookup(backends, PathOf[r]) /\ pc'[r] \in {"relock", "proxy"}
        BY <1>0, <3>3 DEF RouteUnavailable, Forward, Return
      <4> QED BY <2>1, <2>3, <4>1 DEF StillMatches
    <3>4. CASE Respond(r) \/ Relock(r)
      <4>1. /\ matched' = matched /\ reloaded' = reloaded
            /\ pc[r] \in {"proxy", "relock"} /\ pc'[r] \in {"relock", "relookup"}
        BY <1>0, <3>4 DEF Respond, Relock, Return
      <4> QED BY <2>1, <2>3, <4>1 DEF StillMatches
    <3>5. CASE Abort(r)
      BY <1>0, <2>3, <3>5 DEF Abort, StillMatches
    <3>6. CASE Relookup(r)
      <4>1. /\ matched' = matched /\ reloaded' = reloaded
            /\ pc[r] = "relookup" /\ pc'[r] = "record"
            /\ backendID'[r] \in Lookup(backends, PathOf[r])
        BY <1>0, <3>6 DEF Relookup
      <4>2. r \notin reloaded => matched[r] \in Lookup(backends, PathOf[r])
        BY <4>1 DEF StillMatches
      <4> QED BY <1>0, <2>3, <4>1, <4>2, LookupsAgree DEF StillMatches
    <3>7. CASE Record(r)
      <4>1. /\ matched' = matched /\ reloaded' = reloaded /\ backendID' = backendID
            /\ pc[r] = "record" /\ pc'[r] = "done"
        BY <1>0, <3>7 DEF Record
      <4> QED BY <2>3, <4>1 DEF StillMatches
    <3> QED BY <1>1, <3>1, <3>2, <3>3, <3>4, <3>5, <3>6, <3>7 DEF RequestStep
  <2> QED BY <2>2, <2>3
<1>2. ASSUME NEW k \in Configs, Accept(k) \/ Refuse(k) \/ CreateStep(k) PROVE StillMatches(q)'
  <2>1. UNCHANGED <<pc, matched, backendID>>
    BY <1>2 DEF CreateStep, reqVars, Accept, Refuse, Persist, PersistError, Publish,
                CallReload, AnnounceWriter, Install
  <2>2. \/ UNCHANGED <<backends, reloaded>>
        \/ reloaded' = reloaded \cup BetweenLookups
    BY <1>2 DEF CreateStep, tblVars, Accept, Refuse, Persist, PersistError, Publish,
                CallReload, AnnounceWriter, Install
  <2> QED BY <2>1, <2>2 DEF StillMatches, BetweenLookups
<1>3. CASE CheckerStep
  BY <1>3 DEF CheckerStep, Tick, Snapshot, RoundEnds, reqVars, tblVars, StillMatches
<1>4. CASE Crash
  <2>1. pc'[q] = IF pc[q] \in InHandler THEN "aborted" ELSE pc[q]
    BY <1>4 DEF Crash
  <2>2. UNCHANGED <<matched, backendID, reloaded>>
    BY <1>4 DEF Crash
  <2> QED BY <2>1, <2>2 DEF StillMatches, InHandler
<1>5. CASE Boot \/ BootEmpty
  <2>1. pc[q] \in AtRest
    BY <1>5 DEF Boot, BootEmpty, LockInv, DownMeansEmpty
  <2> QED BY <1>5, <2>1 DEF Boot, BootEmpty, reqVars, tblVars, StillMatches, AtRest
<1>6. CASE UNCHANGED vars
  BY <1>6 DEF vars, StillMatches
<1> QED BY <1>1, <1>2, <1>3, <1>4, <1>5, <1>6 DEF Next

\* The access log names another config than the one that served the request only
\* after a reload between the two lookups, or between configs with one prefix.
THEOREM DriftExplained == Spec => []LabelDriftExplained
<1>1. LabelInv => LabelDriftExplained
  BY DEF LabelInv, StillMatches, LabelDriftExplained
<1> QED BY <1>1, InitLabelInv, NextLabelInv, PTL DEF Spec
-----------------------------------------------------------------------------
(* Refinement of the route table.                                           *)

LEMMA InitRefines == Init => RT!RTInit
<1> SUFFICES ASSUME Init PROVE RT!RTInit
  OBVIOUS
<1>1. ServedBy = [r \in Requests |-> NoMatch]
  BY DEF Init, ServedBy
<1> QED BY <1>1 DEF Init, RT!RTInit

LEMMA NextRefines ==
  LockInv /\ LockInv' /\ StoreInv /\ [Next]_vars => [RT!RTNext]_RT!rtVars
<1> SUFFICES ASSUME LockInv, LockInv', StoreInv, [Next]_vars
             PROVE  RT!RTNext \/ UNCHANGED <<db, backends, ServedBy>>
  BY DEF RT!rtVars
<1> USE DEF LockInv, TypeOK
<1>1. ASSUME NEW r \in Requests, Arrive(r) \/ RequestStep(r)
      PROVE  RT!RTNext \/ UNCHANGED <<db, backends, ServedBy>>
  <2>1. UNCHANGED <<db, backends>>
    BY <1>1 DEF Arrive, RequestStep, RouteNotFound, RouteUnavailable, Forward, Respond,
       Abort, Relock, Relookup, Record, Return, tblVars
  <2>2. CASE Forward(r)
    <3>1. /\ pc[r] = "lookup" /\ pc' = [pc EXCEPT ![r] = "proxy"]
          /\ matched'[r] \in Lookup(backends, PathOf[r])
          /\ \A q \in Requests \ {r} : matched'[q] = matched[q]
      BY <2>2 DEF Forward, AtLookup
    <3>2. ServedBy[r] = NoMatch
      BY <3>1 DEF ServedBy
    <3>3. ServedBy' = [ServedBy EXCEPT ![r] = matched'[r]]
      BY <3>1 DEF ServedBy
    <3>4. RT!Lookup(backends, PathOf[r]) = Lookup(backends, PathOf[r])
      BY DEF RT!Lookup, RT!Longest, RT!Candidates, RT!HasPrefix, RT!IsPrefix,
             Lookup, Longest, Candidates, HasPrefix, IsPrefix
    <3>5. RT!Serve(r)
      BY <2>1, <3>1, <3>2, <3>3, <3>4 DEF RT!Serve
    <3> QED BY <3>5 DEF RT!RTNext
  <2>3. CASE Respond(r) \/ Abort(r)
    <3>1. /\ matched' = matched
          /\ \E next \in {"relock", "aborted"} : pc' = [pc EXCEPT ![r] = next]
      BY <2>3 DEF Respond, Abort, Return
    <3>2. ServedBy' = [ServedBy EXCEPT ![r] = NoMatch]
      BY <3>1 DEF ServedBy
    <3>3. RT!Finish(r)
      BY <2>1, <3>2 DEF RT!Finish
    <3> QED BY <3>3 DEF RT!RTNext
  <2>4. CASE ~Forward(r) /\ ~Respond(r) /\ ~Abort(r)
    <3>1. /\ pc[r] # "proxy"
          /\ \E next \in {"lookup", "relock", "relookup", "record", "done"} :
                pc' = [pc EXCEPT ![r] = next]
          /\ \A q \in Requests \ {r} : matched'[q] = matched[q]
      <4>1. CASE Arrive(r)
        BY <4>1 DEF Arrive, AtRest
      <4>2. CASE RouteNotFound(r) \/ RouteUnavailable(r)
        BY <4>2 DEF RouteNotFound, RouteUnavailable, Return, AtLookup
      <4>3. CASE Relock(r) \/ Relookup(r) \/ Record(r)
        BY <4>3 DEF Relock, Relookup, Record
      <4> QED BY <1>1, <2>4, <4>1, <4>2, <4>3 DEF RequestStep
    <3>2. ServedBy' = ServedBy
      BY <3>1 DEF ServedBy
    <3> QED BY <2>1, <3>2
  <2> QED BY <2>2, <2>3, <2>4
<1>2. ASSUME NEW k \in Configs, Accept(k) \/ Refuse(k) \/ CreateStep(k)
      PROVE  RT!RTNext \/ UNCHANGED <<db, backends, ServedBy>>
  <2>1. ServedBy' = ServedBy
    BY <1>2 DEF ServedBy, CreateStep, reqVars, Accept, Refuse, Persist, PersistError,
       Publish, CallReload, AnnounceWriter, Install
  <2>2. CASE Install(k)
    <3>1. \A r \in Requests : pc[r] # "proxy"
      BY <2>2 DEF Install, HoldsWrite, LockMatchesThreads
    <3>2. RT!NobodyServed
      BY <3>1 DEF RT!NobodyServed, ServedBy
    <3>3. backends' \in SUBSET db /\ db' = db
      BY <2>2 DEF Install, StoreInv, StoredFirst
    <3> QED BY <2>1, <3>2, <3>3 DEF RT!RTNext, RT!Replace
  <2>3. CASE ~Install(k)
    <3>1. backends' = backends /\ db' \in {db, db \cup {k}}
      BY <1>2, <2>3 DEF CreateStep, tblVars, Accept, Refuse, Persist, PersistError,
         Publish, CallReload, AnnounceWriter
    <3> QED BY <2>1, <3>1 DEF RT!RTNext, RT!Store
  <2> QED BY <2>2, <2>3
<1>3. CASE CheckerStep
  BY <1>3 DEF CheckerStep, Tick, Snapshot, RoundEnds, reqVars, tblVars, ServedBy
<1>4. CASE Crash
  <2>1. \A r \in Requests : pc'[r] # "proxy"
    BY <1>4 DEF Crash, InHandler
  <2>2. ServedBy' = [r \in Requests |-> NoMatch]
    BY <2>1 DEF ServedBy
  <2> QED BY <1>4, <2>2 DEF Crash, RT!RTNext, RT!Restart
<1>5. CASE Boot
  <2>1. \A r \in Requests : pc[r] # "proxy"
    BY <1>5 DEF Boot, DownMeansEmpty, AtRest
  <2>2. RT!NobodyServed
    BY <2>1 DEF RT!NobodyServed, ServedBy
  <2>3. ServedBy' = ServedBy
    BY <1>5 DEF Boot, reqVars, ServedBy
  <2> QED BY <1>5, <2>2, <2>3 DEF Boot, RT!RTNext, RT!Replace
<1>6. CASE BootEmpty
  BY <1>6 DEF BootEmpty, reqVars, tblVars, ServedBy
<1>7. CASE UNCHANGED vars
  BY <1>7 DEF vars, ServedBy
<1> QED BY <1>1, <1>2, <1>3, <1>4, <1>5, <1>6, <1>7 DEF Next

\* Gateway implements RouteTable: with all its threads, locks, failed calls and
\* crashes it never shows a client anything but a route table that is replaced
\* between requests.
THEOREM Refinement == Spec => ImplementsRouteTable
BY InitRefines, NextRefines, InitLockInv, NextLockInv, InitStoreInv, NextStoreInv, PTL
   DEF Spec, ImplementsRouteTable, RT!RTSpec
=============================================================================
