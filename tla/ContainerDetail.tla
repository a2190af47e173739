-------------------------- MODULE ContainerDetail --------------------------
(***************************************************************************)
(* The detail page of a container and the requests behind it: the effect   *)
(* that runs again when the id in the address changes, the details it asks *)
(* for once, the statistics it polls every five seconds, and the tab with  *)
(* the gauges. The log stream of the same effect shares no state with them *)
(* and is a module of its own, LogStream.                                  *)
(***************************************************************************)
EXTENDS Naturals

CONSTANTS
  Ids,         \* container ids
  MaxEffects,  \* bound on runs of the effect
  MaxFlips,    \* bound on containers that start or stop
  Polls,       \* bound on requests for statistics under way
  None         \* no id: another page is shown

ASSUME NoneAssumption == None \notin Ids
ASSUME BoundAssumption == MaxEffects \in Nat /\ MaxFlips \in Nat

Effects == 1..MaxEffects

VARIABLES
  running,    \* is each container running
  flips,
  id,
  effect,     \* the last run of the effect
  mountedAt,  \* the first run since the page was opened
  idOf,       \* the id each run captured
  container,  \* the id in the details shown
  stats,      \* the id whose statistics were answered last
  activeTab,
  series,     \* the id whose numbers the gauges draw, while they are mounted
  interval,   \* runs whose interval fires
  inspect,    \* runs whose request for details is under way
  asker,      \* the run that sent each poll, or 0
  reply       \* what it is answered, or "pending"

pageVars == <<id, effect, mountedAt, idOf, interval>>
shownVars == <<container, stats, activeTab, series>>
pollVars == <<asker, reply>>
vars == <<running, flips, pageVars, shownVars, inspect, pollVars>>

Init ==
  /\ running \in [Ids -> BOOLEAN] /\ flips = 0
  /\ id = None /\ effect = 0 /\ mountedAt = 0
  /\ idOf = [e \in Effects |-> None]
  /\ container = None /\ stats = None
  /\ activeTab = "detail" /\ series = None
  /\ interval = {} /\ inspect = {}
  /\ asker = [s \in Polls |-> 0] /\ reply = [s \in Polls |-> None]

\* Setters do nothing once the page that the run belongs to is closed.
Live(e) == id # None /\ e >= mountedAt

\* fetchStats. Polls is a bound: an older request times out after five seconds.
Ask(e) ==
  LET s == CHOOSE t \in Polls : asker[t] = 0
  IN /\ \E t \in Polls : asker[t] = 0
     /\ asker' = [asker EXCEPT ![s] = e]
     /\ reply' = [reply EXCEPT ![s] = "pending"]
-----------------------------------------------------------------------------
\* The name in the heading, or the id while there is none.
Title == IF container # None THEN container ELSE id

\* The container described below it: nothing but "Loading" until there are details.
Details == IF activeTab = "detail" THEN container ELSE None

\* The four gauges.
GaugesMounted == Details # None /\ stats # None

\* Mutant: gauges that are mounted are not told of new numbers.
DrawNot == FALSE /\ UNCHANGED vars

\* A gauge copies its number into a state of its own, when it is mounted and, in
\* an effect, when the number has changed.
Draw ==
  /\ GaugesMounted /\ series # stats
  /\ series' = stats
  /\ UNCHANGED <<running, flips, pageVars, container, stats, activeTab, inspect, pollVars>>

Redraw ==
  series' = IF ~GaugesMounted' THEN None ELSE IF GaugesMounted THEN series ELSE stats'

SelectTab(tab) ==
  /\ id # None
  /\ activeTab' = tab
  /\ UNCHANGED <<running, flips, pageVars, container, stats, inspect, pollVars>>
  /\ Redraw
-----------------------------------------------------------------------------
\* Mutant: the cleanup forgets clearInterval.
CleanedNot == interval

\* Cleanup of the last run.
Cleaned == interval \ {effect}

\* The effect for id i, with the number e. Nothing shown is reset: the page may
\* have been open with another id.
Effect(e, i) ==
  /\ e \in Effects /\ effect' = e
  /\ idOf' = [idOf EXCEPT ![e] = i]
  /\ inspect' = inspect \cup {e}
  /\ Ask(e)
  /\ interval' = Cleaned \cup {e}

\* The address names another container.
Navigate(i) ==
  /\ i # id /\ id' = i
  /\ mountedAt' = IF id = None THEN effect + 1 ELSE mountedAt
  /\ Effect(effect + 1, i)
  /\ UNCHANGED <<running, flips, shownVars>>

\* Mutant: the page is hidden and keeps its state.
CloseHiding ==
  /\ id # None /\ id' = None /\ mountedAt' = 0
  /\ interval' = Cleaned
  /\ UNCHANGED <<running, flips, effect, idOf, shownVars, inspect, pollVars>>

\* The page is unmounted; a later one starts empty.
Close ==
  /\ id # None /\ id' = None /\ mountedAt' = 0
  /\ interval' = Cleaned
  /\ container' = None /\ stats' = None
  /\ activeTab' = "detail" /\ series' = None
  /\ UNCHANGED <<running, flips, effect, idOf, inspect, pollVars>>

Tick(e) ==
  /\ e \in interval
  /\ Ask(e)
  /\ UNCHANGED <<running, flips, pageVars, shownVars, inspect>>
-----------------------------------------------------------------------------
InspectOk(e) ==
  /\ e \in inspect /\ inspect' = inspect \ {e}
  /\ container' = IF Live(e) THEN idOf[e] ELSE container
  /\ UNCHANGED <<running, flips, pageVars, stats, activeTab, pollVars>>
  /\ Redraw

InspectFails(e) ==
  /\ e \in inspect /\ inspect' = inspect \ {e}
  /\ UNCHANGED <<running, flips, pageVars, shownVars, pollVars>>

\* Statistics of a container that does not run: the memory limit is zero, the
\* percentage is not a number, JSON cannot encode it, and gin answers 200 with an
\* empty body.
Measured(i) == IF running[i] THEN i ELSE None

Measure(s) ==
  /\ asker[s] # 0 /\ reply[s] = "pending"
  /\ reply' = [reply EXCEPT ![s] = Measured(idOf[asker[s]])]
  /\ UNCHANGED <<running, flips, pageVars, shownVars, inspect, asker>>

PollEnds(s) ==
  /\ asker' = [asker EXCEPT ![s] = 0]
  /\ reply' = [reply EXCEPT ![s] = None]
  /\ UNCHANGED <<running, flips, pageVars, container, activeTab, inspect>>

\* The gauges are drawn from the answer, and not at all from an empty one.
StatsOk(s) ==
  /\ asker[s] # 0 /\ reply[s] # "pending"
  /\ stats' = IF Live(asker[s]) THEN reply[s] ELSE stats
  /\ PollEnds(s)
  /\ Redraw

\* An error or the timeout of axios: the gauges stay as they are.
StatsFails(s) ==
  /\ asker[s] # 0
  /\ PollEnds(s)
  /\ UNCHANGED <<stats, series>>

Flip(i) ==
  /\ flips < MaxFlips
  /\ flips' = flips + 1
  /\ running' = [running EXCEPT ![i] = ~@]
  /\ UNCHANGED <<pageVars, shownVars, inspect, pollVars>>

Next ==
  \/ \E i \in Ids : Navigate(i) \/ Flip(i)
  \/ Close \/ Draw
  \/ \E tab \in {"detail", "logs"} : SelectTab(tab)
  \/ \E e \in Effects : Tick(e) \/ InspectOk(e) \/ InspectFails(e)
  \/ \E s \in Polls : Measure(s) \/ StatsOk(s) \/ StatsFails(s)

Spec == Init /\ [][Next]_vars

\* Intervals fire and React runs the effects of gauges. Of the polls, some are measured and some answers come back;
\* any number may fail.
Fairness ==
  /\ WF_vars(Draw)
  /\ \A e \in Effects : WF_vars(Tick(e))
  /\ \A s \in Polls : SF_vars(Measure(s)) /\ SF_vars(StatsOk(s))

FairSpec == Spec /\ Fairness
-----------------------------------------------------------------------------
\* Every variable keeps its type, and only a page that is shown has an interval.
TypeOK ==
  /\ running \in [Ids -> BOOLEAN] /\ flips \in 0..MaxFlips
  /\ id \in Ids \cup {None}
  /\ effect \in 0..MaxEffects /\ mountedAt \in 0..effect
  /\ idOf \in [Effects -> Ids \cup {None}]
  /\ container \in Ids \cup {None} /\ stats \in Ids \cup {None}
  /\ activeTab \in {"detail", "logs"} /\ series \in Ids \cup {None}
  /\ interval = IF id = None THEN {} ELSE {effect}
  /\ inspect \subseteq 1..effect
  /\ asker \in [Polls -> 0..effect]
  /\ reply \in [Polls -> Ids \cup {None, "pending"}]

\* A page that has been opened for a container, and not been led to another one,
\* shows nothing of others, whatever requests of earlier pages still answer.
FreshPageIsOwn ==
  id # None /\ mountedAt = effect => {Title, Details, stats, series} \subseteq {None, id}

\* Also on a page that was led from one container to another, with answers in any
\* order: the gauges end up with the container named in the address, and
\* disappear when that has stopped.
StatsConverge ==
  \A i \in Ids : \A r \in BOOLEAN :
    <>[](id = i /\ running[i] = r) =>
      <>[](LET due == IF r THEN i ELSE None
           IN stats = due /\ (Details # None => series = due))
=============================================================================
