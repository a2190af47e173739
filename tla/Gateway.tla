------------------------------ MODULE Gateway ------------------------------
(***************************************************************************)
(* The running server around one Gateway: HTTP handler goroutines          *)
(* (AccessLoggingHandler calling ServeHTTP), POST /config/v1/backends      *)
(* goroutines (CreateConfig -> backendService.Create -> ReloadBackends),   *)
(* the health-check loop, the database, and crashes with restarts.         *)
(*                                                                         *)
(* One value of Configs is one BackendConfig row (one uuid), so each has   *)
(* at most one POST; a client that retries creates another row, possibly   *)
(* with the same prefix.  One value of Requests is a client that sends one *)
(* request after another.                                                  *)
(***************************************************************************)
EXTENDS Routing, RWMutex

CONSTANTS
  Requests,
  PathOf,          \* the path each request asks for
  Checker,         \* the health-check goroutine
  InitialConfigs,  \* rows found in the database at first start
  MaxCrashes,      \* bound on process crashes
  DbFails          \* whether a database call may fail

ASSUME PathOfAssumption == PathOf \in [Requests -> Seq(Char)]
ASSUME InitialAssumption == InitialConfigs \subseteq Configs
ASSUME BoundAssumption == MaxCrashes \in Nat /\ DbFails \in BOOLEAN
ASSUME ProcessAssumption ==
  /\ Requests \cap Configs = {}
  /\ Checker \notin Requests \cup Configs

VARIABLES
  up,            \* the process runs and serves
  crashes,       \* process crashes so far
  db,            \* backend_configs rows
  runtimeCache,  \* backendService.runtimeCache (its keys)
  backends,      \* Gateway.backends (its keys)
  mu,            \* Gateway.mu
  pc,            \* where the handler goroutine of each request is
  matched,       \* matchedConfig of the last ServeHTTP call
  status,        \* StatusRecorder.Status
  backendID,     \* the label found by the second lookup
  logged,        \* outcome of RecordAccessLog
  reloaded,      \* history: requests that saw a reload since their routing
  unloaded,      \* history: rows that GetAll did not read when this life began
  post,          \* where the POST goroutine of each config is
  reload,        \* configsForReload of each POST
  checker,       \* where the health-check goroutine is
  checking       \* backendsToCheck

reqVars  == <<pc, matched, status, backendID, logged>>
postVars == <<post, reload>>
chkVars  == <<checker, checking>>
tblVars  == <<db, runtimeCache, backends>>
vars == <<up, crashes, db, runtimeCache, backends, mu, pc, matched, status,
          backendID, logged, reloaded, unloaded, post, reload, checker, checking>>

\* What a client may be waiting for, and the answers it may have received.
InHandler == {"lookup", "proxy", "relock", "relookup", "record"}
AtRest    == {"idle", "done", "aborted"}
InCreate  == {"persist", "publish", "call", "lock"}
Answered  == {"refused", "failed", "created"}

Init ==
  /\ up = FALSE /\ crashes = 0
  /\ db = InitialConfigs /\ runtimeCache = {} /\ backends = {}
  /\ mu = Unlocked
  /\ pc = [r \in Requests |-> "idle"]
  /\ matched = [r \in Requests |-> NoMatch]
  /\ status = [r \in Requests |-> "none"]
  /\ backendID = [r \in Requests |-> NoMatch]
  /\ logged = [r \in Requests |-> "none"]
  /\ reloaded = {} /\ unloaded = {}
  /\ post = [k \in Configs |-> IF k \in InitialConfigs THEN "created" ELSE "none"]
  /\ reload = [k \in Configs |-> {}]
  /\ checker = "sleep" /\ checking = {}
-----------------------------------------------------------------------------
(* AccessLoggingHandler and ServeHTTP, one goroutine per request            *)

\* A request reaches NoRoute; ServeHTTP calls mu.RLock.
Arrive(r) ==
  /\ up /\ pc[r] \in AtRest
  /\ pc' = [pc EXCEPT ![r] = "lookup"]
  /\ mu' = RLock(mu, r)
  /\ matched' = [matched EXCEPT ![r] = NoMatch]
  /\ status' = [status EXCEPT ![r] = "none"]
  /\ backendID' = [backendID EXCEPT ![r] = NoMatch]
  /\ logged' = [logged EXCEPT ![r] = "none"]
  /\ reloaded' = reloaded \ {r}
  /\ UNCHANGED <<up, crashes, unloaded, tblVars, postVars, chkVars>>

AtLookup(r) == up /\ pc[r] = "lookup" /\ HoldsRead(mu, r)

\* ServeHTTP returns with an answer; the deferred RUnlock runs.
Return(r, code) ==
  /\ status' = [status EXCEPT ![r] = code]
  /\ pc' = [pc EXCEPT ![r] = "relock"]
  /\ mu' = RUnlock(mu, r)
  /\ UNCHANGED <<up, crashes, unloaded, tblVars, backendID, logged, reloaded, postVars, chkVars>>

\* Mutant: no status is written, so net/http sends an implicit 200.
RouteNotFoundSilent(r) ==
  /\ AtLookup(r)
  /\ NoMatch \in Lookup(backends, PathOf[r])
  /\ Return(r, "200")
  /\ UNCHANGED matched

RouteNotFound(r) ==
  /\ AtLookup(r)
  /\ NoMatch \in Lookup(backends, PathOf[r])
  /\ Return(r, "404")
  /\ UNCHANGED matched

\* A config matches but GetNextHealthyEndpoint returns nil.
RouteUnavailable(r) ==
  /\ AtLookup(r)
  /\ \E c \in Lookup(backends, PathOf[r]) \ {NoMatch} :
       matched' = [matched EXCEPT ![r] = c]
  /\ Return(r, "503")

\* Mutant: the read lock is given up before proxying.
ForwardUnlocked(r) ==
  /\ AtLookup(r)
  /\ \E c \in Lookup(backends, PathOf[r]) \ {NoMatch} :
       matched' = [matched EXCEPT ![r] = c]
  /\ pc' = [pc EXCEPT ![r] = "proxy"]
  /\ mu' = RUnlock(mu, r)
  /\ UNCHANGED <<up, crashes, unloaded, tblVars, status, backendID, logged, reloaded,
                 postVars, chkVars>>

\* A config and a healthy endpoint are found; proxy.ServeHTTP starts, with the
\* read lock still held.
Forward(r) ==
  /\ AtLookup(r)
  /\ \E c \in Lookup(backends, PathOf[r]) \ {NoMatch} :
       matched' = [matched EXCEPT ![r] = c]
  /\ pc' = [pc EXCEPT ![r] = "proxy"]
  /\ UNCHANGED <<up, crashes, unloaded, tblVars, mu, status, backendID, logged, reloaded,
                 postVars, chkVars>>

\* The upstream answers, or the ReverseProxy writes its own 502.
Respond(r) ==
  /\ up /\ pc[r] = "proxy"
  /\ Return(r, "upstream")
  /\ UNCHANGED matched

\* Mutant: RUnlock is a plain call after proxy.ServeHTTP, not a defer.
AbortLocked(r) ==
  /\ up /\ pc[r] = "proxy"
  /\ pc' = [pc EXCEPT ![r] = "aborted"]
  /\ UNCHANGED <<up, crashes, unloaded, tblVars, mu, matched, status, backendID, logged,
                 reloaded, postVars, chkVars>>

\* The upstream dies in the middle of a body: ReverseProxy panics with
\* ErrAbortHandler, the deferred RUnlock runs, gin's Recovery ends the request
\* and the rest of AccessLoggingHandler is skipped.
Abort(r) ==
  /\ up /\ pc[r] = "proxy"
  /\ pc' = [pc EXCEPT ![r] = "aborted"]
  /\ mu' = RUnlock(mu, r)
  /\ UNCHANGED <<up, crashes, unloaded, tblVars, matched, status, backendID, logged,
                 reloaded, postVars, chkVars>>

\* AccessLoggingHandler takes the read lock again for its own lookup.
Relock(r) ==
  /\ up /\ pc[r] = "relock"
  /\ pc' = [pc EXCEPT ![r] = "relookup"]
  /\ mu' = RLock(mu, r)
  /\ UNCHANGED <<up, crashes, unloaded, tblVars, matched, status, backendID, logged,
                 reloaded, postVars, chkVars>>

\* Mutant: the second lookup stops at the first match instead of the longest.
RelookupFirst(r) ==
  /\ up /\ pc[r] = "relookup" /\ HoldsRead(mu, r)
  /\ \E c \in IF Candidates(backends, PathOf[r]) = {} THEN {NoMatch}
              ELSE Candidates(backends, PathOf[r]) :
       backendID' = [backendID EXCEPT ![r] = c]
  /\ pc' = [pc EXCEPT ![r] = "record"]
  /\ mu' = RUnlock(mu, r)
  /\ UNCHANGED <<up, crashes, unloaded, tblVars, matched, status, logged, reloaded,
                 postVars, chkVars>>

Relookup(r) ==
  /\ up /\ pc[r] = "relookup" /\ HoldsRead(mu, r)
  /\ \E c \in Lookup(backends, PathOf[r]) :
       backendID' = [backendID EXCEPT ![r] = c]
  /\ pc' = [pc EXCEPT ![r] = "record"]
  /\ mu' = RUnlock(mu, r)
  /\ UNCHANGED <<up, crashes, unloaded, tblVars, matched, status, logged, reloaded,
                 postVars, chkVars>>

\* access_logs.backend_id is a uuid column: the label NO_MATCH is not one.
Insertable(id) == id # NoMatch

\* RecordAccessLog; its error is only printed.
Record(r) ==
  /\ up /\ pc[r] = "record"
  /\ \E ok \in {Insertable(backendID[r])} \cup (IF DbFails THEN {FALSE} ELSE {}) :
       logged' = [logged EXCEPT ![r] = IF ok THEN "saved" ELSE "failed"]
  /\ pc' = [pc EXCEPT ![r] = "done"]
  /\ UNCHANGED <<up, crashes, unloaded, tblVars, mu, matched, status, backendID, reloaded,
                 postVars, chkVars>>
-----------------------------------------------------------------------------
(* CreateConfig, backendService.Create and ReloadBackends                   *)

PostStep(k, at, next) ==
  /\ up /\ post[k] = at
  /\ post' = [post EXCEPT ![k] = next]

\* The body binds and every target URL parses.
Accept(k) ==
  /\ PostStep(k, "none", "persist")
  /\ UNCHANGED <<up, crashes, unloaded, tblVars, mu, reqVars, reloaded, reload, chkVars>>

\* 400: the body does not bind; 500: a target URL does not parse.
Refuse(k) ==
  /\ PostStep(k, "none", "refused")
  /\ UNCHANGED <<up, crashes, unloaded, tblVars, mu, reqVars, reloaded, reload, chkVars>>

\* repo.Create commits the row and its endpoints.
Persist(k) ==
  /\ PostStep(k, "persist", "publish")
  /\ db' = db \cup {k}
  /\ UNCHANGED <<up, crashes, unloaded, runtimeCache, backends, mu, reqVars, reloaded,
                 reload, chkVars>>

\* Mutant: the error of repo.Create is printed and Create goes on.
PersistErrorIgnored(k) ==
  /\ DbFails
  /\ PostStep(k, "persist", "publish")
  /\ UNCHANGED <<up, crashes, unloaded, tblVars, mu, reqVars, reloaded, reload, chkVars>>

\* repo.Create returns an error: 500.  The row may be there all the same, when
\* the connection broke after the commit.
PersistError(k) ==
  /\ DbFails
  /\ PostStep(k, "persist", "failed")
  /\ db' \in {db, db \cup {k}}
  /\ UNCHANGED <<up, crashes, unloaded, runtimeCache, backends, mu, reqVars, reloaded,
                 reload, chkVars>>

\* Mutant: the config is added to the list for the reload, but not to the cache.
PublishUncached(k) ==
  /\ PostStep(k, "publish", "call")
  /\ reload' = [reload EXCEPT ![k] = runtimeCache \cup {k}]
  /\ UNCHANGED <<up, crashes, unloaded, tblVars, mu, reqVars, reloaded, chkVars>>

\* The section under backendService.mu: cache the config, copy the cache.
Publish(k) ==
  /\ PostStep(k, "publish", "call")
  /\ runtimeCache' = runtimeCache \cup {k}
  /\ reload' = [reload EXCEPT ![k] = runtimeCache \cup {k}]
  /\ UNCHANGED <<up, crashes, unloaded, db, backends, mu, reqVars, reloaded, chkVars>>

\* ReloadBackends calls mu.Lock, outside backendService.mu.
CallReload(k) ==
  /\ PostStep(k, "call", "lock")
  /\ mu' = Lock(mu, k)
  /\ UNCHANGED <<up, crashes, unloaded, tblVars, reqVars, reloaded, reload, chkVars>>

AnnounceWriter(k) ==
  /\ up /\ post[k] = "lock" /\ CanAnnounce(mu, k)
  /\ mu' = Announce(mu, k)
  /\ UNCHANGED <<up, crashes, unloaded, tblVars, reqVars, reloaded, postVars, chkVars>>

\* Requests whose routing is behind them and whose label is not looked up yet.
BetweenLookups == {r \in Requests : pc[r] \in {"proxy", "relock", "relookup"}}

\* Mutant: the writer does not wait for the readers inside.
InstallEarly(k) ==
  /\ PostStep(k, "lock", "created")
  /\ mu.writer = {k}
  /\ backends' = reload[k]
  /\ mu' = Unlock(mu)
  /\ reloaded' = reloaded \cup BetweenLookups
  /\ UNCHANGED <<up, crashes, unloaded, db, runtimeCache, reqVars, reload, chkVars>>

\* The last reader has left: replace the map, unlock, answer 201.
Install(k) ==
  /\ PostStep(k, "lock", "created")
  /\ HoldsWrite(mu, k)
  /\ backends' = reload[k]
  /\ mu' = Unlock(mu)
  /\ reloaded' = reloaded \cup BetweenLookups
  /\ UNCHANGED <<up, crashes, unloaded, db, runtimeCache, reqVars, reload, chkVars>>
-----------------------------------------------------------------------------
(* StartHealthChecks                                                        *)

\* A tick: mu.RLock.
Tick ==
  /\ up /\ checker = "sleep"
  /\ checker' = "copy"
  /\ mu' = RLock(mu, Checker)
  /\ UNCHANGED <<up, crashes, unloaded, tblVars, reqVars, reloaded, postVars, checking>>

\* Mutant: the copy is made but the read lock is kept while probing.
SnapshotLocked ==
  /\ up /\ checker = "copy" /\ HoldsRead(mu, Checker)
  /\ checker' = "probe"
  /\ checking' = backends
  /\ UNCHANGED <<up, crashes, unloaded, tblVars, mu, reqVars, reloaded, postVars>>

Snapshot ==
  /\ up /\ checker = "copy" /\ HoldsRead(mu, Checker)
  /\ checker' = "probe"
  /\ checking' = backends
  /\ mu' = RUnlock(mu, Checker)
  /\ UNCHANGED <<up, crashes, unloaded, tblVars, reqVars, reloaded, postVars>>

\* wg.Wait returns: every goroutine of the round has ended.
RoundEnds ==
  /\ up /\ checker = "probe"
  /\ checker' = "sleep"
  /\ UNCHANGED <<up, crashes, unloaded, tblVars, mu, reqVars, reloaded, postVars, checking>>
-----------------------------------------------------------------------------
(* The process                                                              *)

\* The process dies: memory is gone, clients in flight lose their answer.
Crash ==
  /\ up /\ crashes < MaxCrashes
  /\ up' = FALSE /\ crashes' = crashes + 1
  /\ runtimeCache' = {} /\ backends' = {} /\ mu' = Unlocked
  /\ pc' = [r \in Requests |-> IF pc[r] \in InHandler THEN "aborted" ELSE pc[r]]
  /\ post' = [k \in Configs |-> IF post[k] \in InCreate THEN "failed" ELSE post[k]]
  /\ reload' = [k \in Configs |-> {}]
  /\ checker' = "sleep" /\ checking' = {}
  /\ unloaded' = {}
  /\ UNCHANGED <<db, matched, status, backendID, logged, reloaded>>

\* InitServices: load the cache from the database and install it, before the
\* router accepts connections.
Boot ==
  /\ ~up
  /\ up' = TRUE
  /\ runtimeCache' = db /\ backends' = db
  /\ UNCHANGED <<crashes, unloaded, db, mu, reqVars, reloaded, postVars, chkVars>>

\* repo.GetAll fails: "Starting with empty cache". Nothing reads the rows again in
\* this life of the process.
BootEmpty ==
  /\ DbFails
  /\ ~up
  /\ up' = TRUE
  /\ unloaded' = db
  /\ UNCHANGED <<crashes, tblVars, mu, reqVars, reloaded, postVars, chkVars>>

RequestStep(r) ==
  \/ RouteNotFound(r) \/ RouteUnavailable(r) \/ Forward(r)
  \/ Respond(r) \/ Abort(r) \/ Relock(r) \/ Relookup(r) \/ Record(r)

CreateStep(k) ==
  \/ Persist(k) \/ PersistError(k) \/ Publish(k)
  \/ CallReload(k) \/ AnnounceWriter(k) \/ Install(k)

CheckerStep == Tick \/ Snapshot \/ RoundEnds

Next ==
  \/ \E r \in Requests : Arrive(r) \/ RequestStep(r)
  \/ \E k \in Configs : Accept(k) \/ Refuse(k) \/ CreateStep(k)
  \/ CheckerStep
  \/ Crash \/ Boot \/ BootEmpty

Spec == Init /\ [][Next]_vars

\* Goroutines are scheduled, upstreams answer or fail, the ticker ticks and the
\* container is restarted ("restart: always"); nothing makes clients send.
Fairness ==
  /\ \A r \in Requests : WF_vars(RequestStep(r))
  /\ \A k \in Configs : WF_vars(CreateStep(k))
  /\ WF_vars(CheckerStep)
  /\ WF_vars(Boot \/ BootEmpty)

FairSpec == Spec /\ Fairness
-----------------------------------------------------------------------------
(* Properties                                                               *)

\* Every variable keeps its type.
TypeOK ==
  /\ up \in BOOLEAN
  /\ crashes \in 0..MaxCrashes
  /\ db \subseteq Configs /\ runtimeCache \subseteq Configs
  /\ backends \subseteq Configs /\ checking \subseteq Configs
  /\ mu \in LockType(Requests \cup Configs \cup {Checker})
  /\ pc \in [Requests -> InHandler \cup AtRest]
  /\ matched \in [Requests -> Configs \cup {NoMatch}]
  /\ status \in [Requests -> {"none", "404", "503", "upstream"}]
  /\ backendID \in [Requests -> Configs \cup {NoMatch}]
  /\ logged \in [Requests -> {"none", "saved", "failed"}]
  /\ reloaded \subseteq Requests /\ unloaded \subseteq Configs
  /\ post \in [Configs -> {"none"} \cup InCreate \cup Answered]
  /\ reload \in [Configs -> SUBSET Configs]
  /\ checker \in {"sleep", "copy", "probe"}

\* Processes between an RLock call and the matching RUnlock.
ReadSections ==
  {r \in Requests : pc[r] \in {"lookup", "proxy", "relookup"}}
    \cup (IF checker = "copy" THEN {Checker} ELSE {})

WriteSections == {k \in Configs : post[k] = "lock"}

\* The lock and the goroutines agree: whoever holds or awaits Gateway.mu is
\* inside a section that will release it, and no path out of ServeHTTP (answer,
\* 404, 503, abort) leaks it; at most one writer is announced, and a reader only
\* waits behind one.
LockMatchesThreads ==
  /\ mu.readers \cup mu.waiting = ReadSections
  /\ mu.readers \cap mu.waiting = {}
  /\ \A r \in Requests : pc[r] = "proxy" => r \in mu.readers
  /\ mu.queue \cup mu.writer = WriteSections
  /\ mu.queue \cap mu.writer = {}
  /\ \A j, k \in mu.writer : j = k
  /\ mu.waiting # {} => mu.writer # {}

\* Create persists first: whatever is cached, routed, probed, queued for a
\* reload, written in the access log or acknowledged to a client with 201 is a
\* row of the database, whatever calls fail and whenever the process dies
\* (gateway.service.go 154-174).
StoredFirst ==
  /\ runtimeCache \cup backends \cup checking \cup UNION {reload[k] : k \in Configs}
       \subseteq db
  /\ \A k \in Configs : post[k] = "created" => k \in db
  /\ \A r \in Requests : {matched[r], backendID[r]} \subseteq db \cup {NoMatch}

\* Posts whose reload list was built in this life of the process.
Published == {k \in Configs : k \in reload[k]}

\* Reload lists are nested, because the cache only grows; and an acknowledged
\* config is missing from the table of a running process for one of two reasons:
\* the process could not read its row when it started, which lasts for its whole
\* life, or an older list was installed after the config's own
\* (gateway.service.go 84-89 and 159-172).
MissingExplained ==
  /\ \A j, k \in Configs : reload[j] \subseteq reload[k] \/ reload[k] \subseteq reload[j]
  /\ \A k \in Configs :
       up /\ post[k] = "created" /\ k \notin backends =>
         \/ k \in unloaded
         \/ /\ k \in reload[k]
            /\ \E j \in Published :
                 /\ post[j] = "created"
                 /\ backends = reload[j]
                 /\ reload[j] \subseteq reload[k]

\* The routing table does not change under a request that is being proxied: the
\* read lock is held until the upstream has answered (gateway.core.go 166-225).
TableHeldWhileProxied ==
  [][\A r \in Requests : pc[r] = "proxy" /\ up' => backends' = backends]_vars

\* The label of the access log can differ from the config that served the
\* request only if the table was reloaded between the two lookups, or if two
\* configs share the prefix (gateway.core.go 169-179 against 329-341).
LabelDriftExplained ==
  \A r \in Requests :
    pc[r] \in {"record", "done"} /\ backendID[r] # matched[r] =>
      \/ r \in reloaded
      \/ /\ NoMatch \notin {backendID[r], matched[r]}
         /\ Prefix[backendID[r]] = Prefix[matched[r]]

\* Every request that reached the handler is answered, or aborted with its
\* connection, however the reloads interleave: a waiting writer blocks new
\* readers but not for ever.
RequestsAnswered ==
  \A r \in Requests : pc[r] \in InHandler ~> pc[r] \in {"done", "aborted"}

\* Every accepted POST is answered although ReloadBackends waits for the
\* requests being proxied, and new requests keep arriving.
PostsAnswered ==
  \A k \in Configs : post[k] \in InCreate ~> post[k] \in Answered

\* Health-check rounds never stop for good.
ChecksRecur == []<>(checker = "probe")

\* handler.go 64-68 answers 201 "Backend configuration saved and gateway
\* reloaded.", and gateway.service.go 159 calls the update atomic: an
\* acknowledged config is in the routing table.
AckedIsRouted ==
  \A k \in Configs : up /\ post[k] = "created" => k \in backends

\* gateway.core.go 343-347, 'backendID = "NO_MATCH"' and "Record the log in the
\* service layer": requests without a backend are logged under that label.
NoMatchIsLogged ==
  \A r \in Requests : pc[r] = "done" /\ status[r] = "404" => logged[r] = "saved"
-----------------------------------------------------------------------------
(* The gateway implements the route table.                                  *)

ServedBy == [r \in Requests |-> IF pc[r] = "proxy" THEN matched[r] ELSE NoMatch]

RT == INSTANCE RouteTable
        WITH stored <- db, table <- backends, serving <- ServedBy

\* Seen from outside, threads, locks, reloads and crashes are steps of the
\* abstract route table: it is replaced between requests only, with stored
\* configs only, and each request stays with a longest match.
ImplementsRouteTable == RT!RTSpec
=============================================================================
