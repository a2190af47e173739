--------------------------- MODULE EndpointHistory ---------------------------
(***************************************************************************)
(* The history page of a backend: it asks for the probes of the backend    *)
(* named in the address, once per address, turns the answer into the       *)
(* points of a chart and says UP or DOWN of each. An answer is not checked *)
(* against the address of the moment.                                      *)
(***************************************************************************)
EXTENDS Integers, Sequences

CONSTANTS
  Ids,         \* backends
  Latencies,   \* nanoseconds, as the health checker measures them
  MaxRows,     \* bound on the probes of each
  MaxEffects,  \* bound on runs of the effect
  None         \* no id: another page is shown

\* What the constants have to be.
ParametersOk ==
  /\ None \notin Ids /\ Latencies \subseteq Nat
  /\ MaxRows \in Nat /\ MaxEffects \in Nat

Effects == 1..MaxEffects

VARIABLES
  rows,         \* health_histories of each backend, as they were inserted
  id,
  effect,       \* the last run of the effect
  mountedAt,    \* the first run since the page was opened
  idOf,         \* the id each run captured
  request,      \* where its request is
  answer,
  historyData, loading, error

pageVars == <<id, effect, mountedAt, idOf>>
shownVars == <<historyData, loading, error>>
requestVars == <<request, answer>>
vars == <<rows, pageVars, shownVars, requestVars>>

Init ==
  /\ rows = [i \in Ids |-> << >>]
  /\ id = None /\ effect = 0 /\ mountedAt = 0
  /\ idOf = [e \in Effects |-> None]
  /\ request = [e \in Effects |-> "idle"] /\ answer = [e \in Effects |-> << >>]
  /\ historyData = << >> /\ loading = TRUE /\ error = FALSE

\* Setters do nothing once the page that the run belongs to is closed.
Live(e) == id # None /\ e >= mountedAt

\* The milliseconds in which the next probe may be: the clock has gone on or not.
Moments(data) ==
  IF data = << >> THEN {1} ELSE {data[Len(data)].checkedAt, data[Len(data)].checkedAt + 1}

\* SetHealthStatus saves a row for every probe.
SaveHistory(i) ==
  /\ Len(rows[i]) < MaxRows
  /\ \E ms \in Moments(rows[i]), up \in BOOLEAN, l \in Latencies :
       rows' = [rows EXCEPT ![i] = Append(@, [checkedAt |-> ms, isHealthy |-> up, Latency |-> l])]
  /\ UNCHANGED <<pageVars, shownVars, requestVars>>
-----------------------------------------------------------------------------
(* The page *)

\* useEffect: a run per address. Nothing shown is reset.
Navigate(i) ==
  /\ i # id /\ effect < MaxEffects
  /\ id' = i /\ effect' = effect + 1
  /\ mountedAt' = IF id = None THEN effect + 1 ELSE mountedAt
  /\ idOf' = [idOf EXCEPT ![effect + 1] = i]
  /\ request' = [request EXCEPT ![effect + 1] = "sent"]
  /\ UNCHANGED <<rows, shownVars, answer>>

\* The page is unmounted, by its button "Back to Endpoints List" for one, which
\* leads to "/backends", for which there is no route.
Close ==
  /\ id # None /\ id' = None /\ mountedAt' = 0
  /\ historyData' = << >> /\ loading' = TRUE /\ error' = FALSE
  /\ UNCHANGED <<rows, effect, idOf, requestVars>>

\* ORDER BY checked_at DESC, in the microseconds of the database, which differ.
NewestFirst(data) == [k \in 1..Len(data) |-> data[Len(data) + 1 - k]]

\* GetHealthHistory: no limit.
Answered(e) ==
  /\ request[e] = "sent"
  /\ request' = [request EXCEPT ![e] = "answered"]
  /\ answer' = [answer EXCEPT ![e] = NewestFirst(rows[idOf[e]])]
  /\ UNCHANGED <<rows, pageVars, shownVars>>

\* Mutant: the answer is taken in the order of the server.
OldestFirstNot(data) == {data}

\* Every way to arrange n places.
Orders(n) == {p \in [1..n -> 1..n] : \A k \in 1..n : \E j \in 1..n : p[j] = k}

\* data.sort, by the milliseconds of the dates; rows of one millisecond keep the
\* order in which they came. There is one such arrangement.
OldestFirst(data) ==
  {[k \in 1..Len(data) |-> data[p[k]]] :
     p \in {q \in Orders(Len(data)) :
             \A j, k \in 1..Len(data) : j < k =>
               \/ data[q[j]].checkedAt < data[q[k]].checkedAt
               \/ data[q[j]].checkedAt = data[q[k]].checkedAt /\ q[j] < q[k]}}

Over(e) ==
  /\ request' = [request EXCEPT ![e] = "over"]
  /\ answer' = [answer EXCEPT ![e] = << >>]
  /\ UNCHANGED <<rows, pageVars>>

HistoryArrives(e) ==
  /\ request[e] = "answered"
  /\ Over(e)
  /\ IF Live(e) THEN historyData' \in OldestFirst(answer[e]) /\ loading' = FALSE
     ELSE UNCHANGED <<historyData, loading>>
  /\ UNCHANGED error

\* A timeout or a 500. The error stays, also when another address is shown.
HistoryFails(e) ==
  /\ request[e] \in {"sent", "answered"}
  /\ Over(e)
  /\ error' = (error \/ Live(e)) /\ loading' = (loading /\ ~Live(e))
  /\ UNCHANGED historyData

Next ==
  \/ \E i \in Ids : SaveHistory(i) \/ Navigate(i)
  \/ Close
  \/ \E e \in Effects : Answered(e) \/ HistoryArrives(e) \/ HistoryFails(e)

Spec == Init /\ [][Next]_vars
-----------------------------------------------------------------------------
(* What is drawn *)

\* convertLatencyToMs: a number counts nanoseconds. The server sends no strings.
\* In hundredths of a millisecond, for the chart shows fractions.
LatencyMs(l) == l \div 10000

StatusValue(up) == IF up THEN 1 ELSE -1
ChartData ==
  [k \in DOMAIN historyData |->
     [status |-> StatusValue(historyData[k].isHealthy), latency |-> LatencyMs(historyData[k].Latency)]]

\* The dataKeys of the areas over the points, which a tooltip has to choose from.
Areas == {"status"}

\* What the axis and the tooltip make of a point. The tooltip looks for an area of
\* the latency too, of which there is none: it never tells one.
StatusText(point) == IF point.status = 1 THEN "UP" ELSE IF point.status = -1 THEN "DOWN" ELSE "UNKNOWN"
TooltipOf(point) ==
  [status |-> StatusText(point), latency |-> {point[area] : area \in Areas \cap {"latency"}}]

\* "Loading history data...", the error, "No health history records found", or
\* two areas over the same points.
Shown ==
  [what |-> CASE loading -> "loading"
              [] ~loading /\ error -> "error"
              [] ~loading /\ ~error /\ ChartData = << >> -> "none"
              [] OTHER -> "chart",
   points |-> IF loading \/ error THEN << >> ELSE [k \in DOMAIN ChartData |-> TooltipOf(ChartData[k])]]
-----------------------------------------------------------------------------
Row == [checkedAt : 1..MaxRows, isHealthy : BOOLEAN, Latency : Latencies]
RowSeqs(S) == UNION {[1..n -> S] : n \in 0..MaxRows}

\* Every variable keeps its type.
TypeOK ==
  /\ \A i \in Ids : rows[i] \in RowSeqs(Row)
  /\ id \in Ids \cup {None} /\ effect \in 0..MaxEffects /\ mountedAt \in 0..effect
  /\ idOf \in [Effects -> Ids \cup {None}]
  /\ request \in [Effects -> {"idle", "sent", "answered", "over"}]
  /\ \A e \in Effects : answer[e] \in RowSeqs(Row)
  /\ historyData \in RowSeqs(Row) /\ {loading, error} \subseteq BOOLEAN

\* The oldest probe first; of those within one millisecond the newest.
ToldOrders(i, n) ==
  {p \in Orders(n) : \A j, k \in 1..n : j < k =>
     \/ rows[i][p[j]].checkedAt < rows[i][p[k]].checkedAt
     \/ rows[i][p[j]].checkedAt = rows[i][p[k]].checkedAt /\ p[k] < p[j]}

\* What the server knows of the probes, in that order.
Truth(i, p) == [k \in DOMAIN p |-> IF rows[i][p[k]].isHealthy THEN "UP" ELSE "DOWN"]

\* The chart says UP or DOWN of each probe of one backend from the first one on, in
\* the order in which they were made, although the answer comes newest first and
\* while new ones are saved; only those within one millisecond stay turned round.
\* It is the backend of the address when the page was opened for it; one that was
\* led on from another backend may show that one's.
HistoryIsTrue ==
  id # None /\ Shown.what \in {"none", "chart"} =>
    \E i \in {idOf[e] : e \in mountedAt..effect} : \E n \in 0..Len(rows[i]) :
      /\ \E p \in ToldOrders(i, n) : [k \in DOMAIN Shown.points |-> Shown.points[k].status] = Truth(i, p)
      /\ Shown.what = "none" <=> n = 0
      /\ mountedAt = effect => i = id
=============================================================================
