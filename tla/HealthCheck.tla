---------------------------- MODULE HealthCheck ----------------------------
(***************************************************************************)
(* The health of endpoints: the ticker loop StartHealthChecks, one         *)
(* checkBackend goroutine per routed config, SetHealthStatus, the rows of  *)
(* the database, and what Create, a crash and a restart do to them.        *)
(*                                                                         *)
(* Create's own interleavings are the subject of Gateway: here a config is *)
(* added in one step, because no probe looks at it before it is installed. *)
(***************************************************************************)
EXTENDS Naturals, Sequences, FiniteSets

CONSTANTS
  Configs,
  Urls,
  EndpointUrl,     \* the URL of every endpoint, a sequence per config
  Parseable,       \* URLs that url.Parse accepts
  InitialConfigs,  \* configs in the database at first start
  MaxCrashes,      \* bound on process crashes
  DbFails          \* whether a database call may fail

ASSUME EndpointAssumption == EndpointUrl \in [Configs -> Seq(Urls)]
ASSUME SubsetAssumption == Parseable \subseteq Urls /\ InitialConfigs \subseteq Configs
ASSUME BoundAssumption == MaxCrashes \in Nat /\ DbFails \in BOOLEAN

Slots(c) == 1..Len(EndpointUrl[c])
Parsed(c, i) == EndpointUrl[c][i] \in Parseable
SameUrl(c, i) == {j \in Slots(c) : EndpointUrl[c][j] = EndpointUrl[c][i]}

\* Configs that Create accepts: every URL parses.
Creatable == {c \in Configs \ InitialConfigs : \A i \in Slots(c) : Parsed(c, i)}

VARIABLES
  up,
  crashes,
  responsive,  \* would the server behind a URL answer 200 or 401 within 500 ms
  rows,        \* is_healthy column of every endpoint of every stored config
  stored,      \* configs in the database
  table,       \* configs routed (and cached)
  IsHealthy,   \* BackendEndpoint.IsHealthy in memory
  tick,        \* the ticker's channel, capacity one
  round,       \* backendsToCheck of the round in progress, {} between rounds
  slot,        \* loop position of each checkBackend goroutine
  phase,       \* what it does next for that endpoint
  verdict,     \* isHealthy as measured
  history      \* calls of SaveHealthHistory since the round began

procVars == <<tick, round, slot, phase, verdict, history>>
vars == <<up, crashes, responsive, rows, stored, table, IsHealthy, procVars>>

Constantly(v) == [c \in Configs |-> [i \in Slots(c) |-> v]]

\* Endpoint rows that exist at first start hold what GORM wrote when they were
\* created (the column's default, TRUE) or any later update.
Init ==
  /\ up = FALSE /\ crashes = 0
  /\ responsive \in [Parseable -> BOOLEAN]
  /\ rows \in [Configs -> UNION {[Slots(c) -> BOOLEAN] : c \in Configs}]
  /\ \A c \in Configs : /\ rows[c] \in [Slots(c) -> BOOLEAN]
                        /\ c \notin InitialConfigs => \A i \in Slots(c) : rows[c][i]
  /\ stored = InitialConfigs /\ table = {}
  /\ IsHealthy = Constantly(FALSE)
  /\ tick = FALSE /\ round = {}
  /\ slot = [c \in Configs |-> 0]
  /\ phase = [c \in Configs |-> "done"]
  /\ verdict = [c \in Configs |-> FALSE]
  /\ history = [c \in Configs |-> 0]
-----------------------------------------------------------------------------
(* The world outside                                                        *)

\* A server goes away, slows down, or comes back.
Flip(u) ==
  /\ responsive' = [responsive EXCEPT ![u] = ~@]
  /\ UNCHANGED <<up, crashes, rows, stored, table, IsHealthy, procVars>>

\* GORM replaces the zero value of a field with a default by that default, in
\* the row and in the struct: "default:true" undoes IsHealthy: false.
Default(isHealthy) == TRUE

\* Mutant: the error of repo.Create is ignored.
CreateUnsaved(c) ==
  /\ up /\ c \in Creatable \ stored
  /\ stored' \in {stored, stored \cup {c}}
  /\ table' = table \cup {c}
  /\ IsHealthy' = [IsHealthy EXCEPT ![c] = [i \in Slots(c) |-> Default(FALSE)]]
  /\ rows' = [rows EXCEPT ![c] = [i \in Slots(c) |-> Default(FALSE)]]
  /\ UNCHANGED <<up, crashes, responsive, procVars>>

\* Create of a config whose URLs parse: row, cache, reload.
Create(c) ==
  /\ up /\ c \in Creatable \ stored
  /\ stored' = stored \cup {c}
  /\ table' = table \cup {c}
  /\ IsHealthy' = [IsHealthy EXCEPT ![c] = [i \in Slots(c) |-> Default(FALSE)]]
  /\ rows' = [rows EXCEPT ![c] = [i \in Slots(c) |-> Default(FALSE)]]
  /\ UNCHANGED <<up, crashes, responsive, procVars>>
-----------------------------------------------------------------------------
(* StartHealthChecks                                                        *)

\* time.Ticker: a tick that finds the channel full is dropped.
TickerFires ==
  /\ up /\ ~tick
  /\ tick' = TRUE
  /\ UNCHANGED <<up, crashes, responsive, rows, stored, table, IsHealthy,
                 round, slot, phase, verdict, history>>

\* The loop takes a tick, copies the table and starts one goroutine per config.
StartRound ==
  /\ up /\ tick /\ round = {}
  /\ tick' = FALSE
  /\ round' = table
  /\ slot' = [c \in Configs |-> IF c \in table THEN 1 ELSE 0]
  /\ phase' = [c \in Configs |-> IF c \in table THEN "get" ELSE "done"]
  /\ history' = [c \in Configs |-> 0]
  /\ UNCHANGED <<up, crashes, responsive, rows, stored, table, IsHealthy, verdict>>

\* wg.Wait returns.
EndRound ==
  /\ up /\ round # {} /\ \A c \in round : phase[c] = "done"
  /\ round' = {}
  /\ UNCHANGED <<up, crashes, responsive, rows, stored, table, IsHealthy,
                 tick, slot, phase, verdict, history>>
-----------------------------------------------------------------------------
(* checkBackend and SetHealthStatus, for the endpoint at slot[c]            *)

At(c, p) == up /\ phase[c] = p /\ slot[c] \in Slots(c)

\* The for loop ends.
Finish(c) ==
  /\ up /\ phase[c] = "get" /\ slot[c] \notin Slots(c)
  /\ phase' = [phase EXCEPT ![c] = "done"]
  /\ UNCHANGED <<up, crashes, responsive, rows, stored, table, IsHealthy,
                 tick, round, slot, verdict, history>>

NextSlot(c) ==
  /\ slot' = [slot EXCEPT ![c] = @ + 1]
  /\ phase' = [phase EXCEPT ![c] = "get"]

\* URLParsed == nil: continue.
SkipUnparsed(c) ==
  /\ At(c, "get") /\ ~Parsed(c, slot[c])
  /\ NextSlot(c)
  /\ UNCHANGED <<up, crashes, responsive, rows, stored, table, IsHealthy,
                 tick, round, verdict, history>>

\* Mutant: an endpoint that is down is not asked again.
ProbeOnlyHealthy(c) ==
  /\ At(c, "get") /\ Parsed(c, slot[c])
  /\ verdict' = [verdict EXCEPT ![c] =
       IsHealthy[c][slot[c]] /\ responsive[EndpointUrl[c][slot[c]]]]
  /\ phase' = [phase EXCEPT ![c] = "write"]
  /\ UNCHANGED <<up, crashes, responsive, rows, stored, table, IsHealthy,
                 tick, round, slot, history>>

\* client.Get returns, or times out after two seconds.
Probe(c) ==
  /\ At(c, "get") /\ Parsed(c, slot[c])
  /\ verdict' = [verdict EXCEPT ![c] = responsive[EndpointUrl[c][slot[c]]]]
  /\ phase' = [phase EXCEPT ![c] = "write"]
  /\ UNCHANGED <<up, crashes, responsive, rows, stored, table, IsHealthy,
                 tick, round, slot, history>>

\* endpoint.IsHealthy = isHealthy
WriteHealth(c) ==
  /\ At(c, "write")
  /\ IsHealthy' = [IsHealthy EXCEPT ![c][slot[c]] = verdict[c]]
  /\ phase' = [phase EXCEPT ![c] = "save"]
  /\ UNCHANGED <<up, crashes, responsive, rows, stored, table,
                 tick, round, slot, verdict, history>>

\* Mutant: the history is written only when the health changed.
SaveHistoryOnChange(c) ==
  /\ At(c, "save")
  /\ history' = IF rows[c][slot[c]] # verdict[c] THEN [history EXCEPT ![c] = @ + 1]
                ELSE history
  /\ phase' = [phase EXCEPT ![c] = "persist"]
  /\ UNCHANGED <<up, crashes, responsive, rows, stored, table, IsHealthy,
                 tick, round, slot, verdict>>

\* SaveHealthHistory; a failure is printed and ignored.
SaveHistory(c) ==
  /\ At(c, "save")
  /\ history' = [history EXCEPT ![c] = @ + 1]
  /\ phase' = [phase EXCEPT ![c] = "persist"]
  /\ UNCHANGED <<up, crashes, responsive, rows, stored, table, IsHealthy,
                 tick, round, slot, verdict>>

\* SetHealthStatus finds endpoints by URL: the first one with the same URL.
Target(c) == CHOOSE j \in SameUrl(c, slot[c]) : \A k \in SameUrl(c, slot[c]) : j <= k

\* Mutant: the row is compared in place of the struct.
PersistWhenRowDiffers(c) ==
  /\ At(c, "persist")
  /\ rows' = [rows EXCEPT ![c] = [i \in Slots(c) |->
                 IF i \in SameUrl(c, slot[c]) THEN verdict[c] ELSE rows[c][i]]]
  /\ NextSlot(c)
  /\ UNCHANGED <<up, crashes, responsive, stored, table, IsHealthy, tick, round,
                 verdict, history>>

\* The status of the target is compared, and only a difference is persisted;
\* UpdateEndpointHealth updates every row with that URL.
PersistHealth(c) ==
  /\ At(c, "persist")
  /\ LET t == Target(c) IN
       IF IsHealthy[c][t] = verdict[c]
       THEN UNCHANGED <<IsHealthy, rows>>
       ELSE /\ IsHealthy' = [IsHealthy EXCEPT ![c][t] = verdict[c]]
            /\ rows' \in
                 {[rows EXCEPT ![c] = [i \in Slots(c) |->
                     IF i \in SameUrl(c, t) THEN verdict[c] ELSE rows[c][i]]]}
                 \cup (IF DbFails THEN {rows} ELSE {})
  /\ NextSlot(c)
  /\ UNCHANGED <<up, crashes, responsive, stored, table, tick, round, verdict, history>>
-----------------------------------------------------------------------------
(* The process                                                              *)

Crash ==
  /\ up /\ crashes < MaxCrashes
  /\ up' = FALSE /\ crashes' = crashes + 1
  /\ table' = {} /\ IsHealthy' = Constantly(FALSE)
  /\ tick' = FALSE /\ round' = {}
  /\ slot' = [c \in Configs |-> 0]
  /\ phase' = [c \in Configs |-> "done"]
  /\ verdict' = [c \in Configs |-> FALSE]
  /\ history' = [c \in Configs |-> 0]
  /\ UNCHANGED <<responsive, rows, stored>>

\* Mutant: the health of the row is taken over as it is.
LoadedAsStored(c) == rows[c]

\* EnsureURLsParsed: an endpoint whose URL does not parse is unhealthy.
Loaded(c) == [i \in Slots(c) |-> rows[c][i] /\ Parsed(c, i)]

\* loadCacheFromRepo: health comes from the rows.
Boot ==
  /\ ~up /\ up' = TRUE
  /\ table' = stored
  /\ IsHealthy' = [c \in Configs |-> IF c \in stored THEN Loaded(c) ELSE IsHealthy[c]]
  /\ UNCHANGED <<crashes, responsive, rows, stored, procVars>>

\* repo.GetAll fails: nothing is loaded.
BootEmpty ==
  /\ DbFails
  /\ ~up /\ up' = TRUE
  /\ UNCHANGED <<crashes, responsive, rows, stored, table, IsHealthy, procVars>>

CheckStep(c) ==
  \/ Finish(c) \/ SkipUnparsed(c) \/ Probe(c)
  \/ WriteHealth(c) \/ SaveHistory(c) \/ PersistHealth(c)

Next ==
  \/ \E u \in Parseable : Flip(u)
  \/ \E c \in Configs : Create(c) \/ CheckStep(c)
  \/ TickerFires \/ StartRound \/ EndRound
  \/ Crash \/ Boot \/ BootEmpty

Spec == Init /\ [][Next]_vars

\* The ticker fires, goroutines run, every GET ends by its two-second timeout,
\* and the container is restarted.
Fairness ==
  /\ WF_vars(TickerFires) /\ WF_vars(StartRound) /\ WF_vars(EndRound)
  /\ \A c \in Configs : WF_vars(CheckStep(c))
  /\ WF_vars(Boot \/ BootEmpty)

FairSpec == Spec /\ Fairness
-----------------------------------------------------------------------------
\* Every variable keeps its type.
TypeOK ==
  /\ up \in BOOLEAN /\ tick \in BOOLEAN /\ crashes \in 0..MaxCrashes
  /\ responsive \in [Parseable -> BOOLEAN]
  /\ DOMAIN rows = Configs /\ DOMAIN IsHealthy = Configs
  /\ DOMAIN slot = Configs /\ DOMAIN history = Configs
  /\ \A c \in Configs : {rows[c], IsHealthy[c]} \subseteq [Slots(c) -> BOOLEAN]
  /\ round \subseteq table /\ table \subseteq stored /\ stored \subseteq Configs
  /\ \A c \in Configs : slot[c] \in 0..(Len(EndpointUrl[c]) + 1)
  /\ phase \in [Configs -> {"get", "write", "save", "persist", "done"}]
  /\ verdict \in [Configs -> BOOLEAN]
  /\ \A c \in Configs : history[c] \in 0..Len(EndpointUrl[c])

\* gateway.model.go 54: an endpoint whose URL does not parse is permanently
\* unhealthy, so that GetNextHealthyEndpoint and the Director never meet a nil
\* URL, whatever its row says and after any restart.
UnparsedNeverHealthy ==
  \A c \in table : \A i \in Slots(c) : IsHealthy[c][i] => Parsed(c, i)

\* A finished round has offered one row per parsed endpoint of each config it
\* checked to the history, whether its health changed or not.
HistoryComplete ==
  \A c \in round :
    phase[c] = "done" => history[c] = Cardinality({i \in Slots(c) : Parsed(c, i)})

\* Memory follows the world: an endpoint of a routed config whose server answers
\* from some time on becomes and stays healthy, one that does not becomes and
\* stays unhealthy, even across the restart that reloads old rows.
MemoryConverges ==
  \A c \in Configs : \A i \in Slots(c) :
    Parsed(c, i) =>
      /\ <>[](c \in table /\ responsive[EndpointUrl[c][i]]) => <>[](IsHealthy[c][i])
      /\ <>[](c \in table /\ ~responsive[EndpointUrl[c][i]]) => <>[](~IsHealthy[c][i])

\* The only endpoints whose row is ever updated are those that share their URL
\* with another endpoint of their config: checkBackend has written the value
\* before SetHealthStatus compares it (gateway.core.go 298, gateway.service.go
\* 281), so for all others the comparison never sees a change.
RowsMoveOnlyForTwins ==
  [][\A c \in stored : \A i \in Slots(c) :
       rows'[c][i] # rows[c][i] => Cardinality(SameUrl(c, i)) > 1]_vars

\* gateway.core.go 300, "Call the service to persist the status": after a round
\* the rows hold what memory holds.
RowsFollowMemory ==
  (up /\ round # {} /\ \A c \in round : phase[c] = "done") =>
    \A c \in round : \A i \in Slots(c) : Parsed(c, i) => rows[c][i] = IsHealthy[c][i]
=============================================================================
