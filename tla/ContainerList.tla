--------------------------- MODULE ContainerList ---------------------------
(***************************************************************************)
(* The container page of the console and the Docker API behind it: the     *)
(* list, its selection, bulk actions that run side by side, requests that  *)
(* axios gives up while the server carries them out, the user who leaves   *)
(* the page and comes back, and a daemon that others use as well.          *)
(***************************************************************************)
EXTENDS Naturals, FiniteSets

CONSTANTS
  Containers,  \* container ids
  Bulks,       \* clicks on a toolbar button, one each
  MaxViews,    \* bound on how often the page is opened
  MaxOutside,  \* bound on changes that others make at the daemon
  None         \* no container

ASSUME NoneAssumption == None \notin Containers
ASSUME BoundAssumption == MaxViews \in Nat /\ MaxOutside \in Nat

Views == 1..MaxViews
ASSUME BulksAssumption == Bulks \cap Views = {} /\ 0 \notin Bulks

\* A listing is asked for by the effect of a view or at the end of a bulk.
Fetchers == Bulks \cup Views

\* "none" stands for resume, push and kill, for which handleBulk calls nothing.
Actions == {"start", "stop", "remove", "none"}

VARIABLES
  docker,      \* what the daemon knows of each container
  outside,
  mounted, view,
  containers,  \* the list: the state shown for each id in it
  loading,
  selected,
  fetch,       \* where each listing is
  answer,      \* what the server answers to it
  pc,          \* where each bulk is
  calls,       \* what a bulk calls: the Docker API or, by a wrong path, the gateway
  todo,        \* the selected ids it has not called yet
  owner,       \* the view in which a bulk was started, 0 when there is none
  job,         \* the stop that the server carries out for a bulk
  older,       \* history: listings on their way when a listing was taken
  outdated,    \* history: listings on their way that are older than the list
  excused,     \* history: the list need not agree with the daemon any more
  touched      \* history: containers that others changed

pageVars == <<mounted, view, containers, loading, selected>>
bulkVars == <<pc, calls, todo, job, owner>>
fetchVars == <<fetch, answer, older, outdated>>
worldVars == <<docker, outside, touched>>
vars == <<pageVars, bulkVars, fetchVars, worldVars, excused>>

Empty == [c \in {} |-> "exited"]

Init ==
  /\ docker \in [Containers -> {"running", "exited"}]
  /\ outside = 0 /\ touched = {}
  /\ mounted = FALSE /\ view = 0
  /\ containers = Empty /\ loading = FALSE /\ selected = {}
  /\ excused = FALSE
  /\ fetch = [f \in Fetchers |-> "idle"]
  /\ answer = [f \in Fetchers |-> Empty]
  /\ older = [f \in Fetchers |-> {}] /\ outdated = {}
  /\ pc = [b \in Bulks |-> "idle"]
  /\ calls = [b \in Bulks |-> "gateway"]
  /\ todo = [b \in Bulks |-> {}]
  /\ job = [b \in Bulks |-> None]
  /\ owner = [b \in Bulks |-> 0]

\* Setters of an unmounted component do nothing.
Live(f) == mounted /\ view = IF f \in Bulks THEN owner[f] ELSE f

InFlight(f) == fetch[f] \in {"sent", "listed"}
Running(b) == pc[b] \in {"call", "list"}
-----------------------------------------------------------------------------
(* The page *)

\* The page is rendered anew and its effect fetches the list. What bulks of an
\* earlier view still change may be missing in it.
Open ==
  /\ ~mounted /\ view < MaxViews
  /\ mounted' = TRUE /\ view' = view + 1
  /\ containers' = Empty /\ selected' = {} /\ loading' = TRUE
  /\ excused' = \E b \in Bulks : Running(b) \/ job[b] # None
  /\ fetch' = [fetch EXCEPT ![view + 1] = "sent"]
  /\ UNCHANGED <<answer, older, outdated, bulkVars, worldVars>>

\* The user goes to another page; loops and requests go on.
Leave ==
  /\ mounted
  /\ mounted' = FALSE
  /\ containers' = Empty /\ selected' = {} /\ loading' = FALSE
  /\ UNCHANGED <<view, bulkVars, fetchVars, worldVars, excused>>

\* The table, with a checkbox for all rows, gives way to "Loading containers...".
TableShown == mounted /\ ~loading

\* The ids with a row: its checkbox, the link to the details, the state.
Rows == IF TableShown THEN DOMAIN containers ELSE {}

ToggleSelect(c) ==
  /\ c \in Rows
  /\ selected' = IF c \in selected THEN selected \ {c} ELSE selected \cup {c}
  /\ UNCHANGED <<mounted, view, containers, loading>>
  /\ UNCHANGED <<bulkVars, fetchVars, worldVars, excused>>

ToggleSelectAll ==
  /\ TableShown
  /\ selected' = IF Cardinality(selected) = Cardinality(DOMAIN containers)
                 THEN {} ELSE DOMAIN containers
  /\ UNCHANGED <<mounted, view, containers, loading>>
  /\ UNCHANGED <<bulkVars, fetchVars, worldVars, excused>>

\* allRunning, allStopped and hasSelection.
ButtonEnabled(a) ==
  LET selectedContainers == selected \cap DOMAIN containers
  IN /\ selected # {}
     /\ a = "start" => \E c \in selectedContainers : containers[c] # "running"
     /\ a = "stop" => \E c \in selectedContainers : containers[c] = "running"

-----------------------------------------------------------------------------
(* handleBulk: between two awaits it runs without interruption *)

\* Mutant: the last call is not awaited.
ContinueUnawaited(b, v, ids, api) ==
  /\ calls' = [calls EXCEPT ![b] = api]
  /\ \/ /\ Cardinality(ids) > 1
        /\ pc' = [pc EXCEPT ![b] = "call"]
        /\ \E c \in ids : /\ todo' = [todo EXCEPT ![b] = ids \ {c}]
                         /\ job' = [job EXCEPT ![b] = IF api = "docker" THEN c ELSE None]
        /\ UNCHANGED <<fetch, loading>>
     \/ /\ Cardinality(ids) <= 1
        /\ pc' = [pc EXCEPT ![b] = "list"]
        /\ todo' = [todo EXCEPT ![b] = {}]
        /\ job' = [job EXCEPT ![b] = IF ids # {} /\ api = "docker"
                                    THEN CHOOSE c \in ids : TRUE ELSE None]
        /\ fetch' = [fetch EXCEPT ![b] = "sent"]
        /\ loading' = (loading \/ (mounted /\ view = v))

\* The next call of the loop, or the listing behind it, for a bulk of view v: the
\* next of the remaining ids goes to the Docker API or to the gateway. They come
\* in the order in which they were selected, which may be any.
Continue(b, v, ids, api) ==
  /\ calls' = [calls EXCEPT ![b] = api]
  /\ \/ /\ ids # {}
        /\ pc' = [pc EXCEPT ![b] = "call"]
        /\ \E c \in ids : /\ todo' = [todo EXCEPT ![b] = ids \ {c}]
                         /\ job' = [job EXCEPT ![b] = IF api = "docker" THEN c ELSE None]
        /\ UNCHANGED <<fetch, loading>>
     \/ /\ ids = {}
        /\ pc' = [pc EXCEPT ![b] = "list"]
        /\ todo' = [todo EXCEPT ![b] = {}]
        /\ job' = [job EXCEPT ![b] = None]
        /\ fetch' = [fetch EXCEPT ![b] = "sent"]
        /\ loading' = (loading \/ (mounted /\ view = v))

\* A click on the selection of this moment. The buttons stay enabled during other
\* bulks and listings. Only stop reaches the Docker API: the path of start lacks
\* "/api", there is no route for DELETE, and the loop does nothing for the other
\* three.
Click(a) ==
  LET b == CHOOSE x \in Bulks : pc[x] = "idle"
  IN /\ \E x \in Bulks : pc[x] = "idle"
     /\ mounted /\ ButtonEnabled(a)
     /\ owner' = [owner EXCEPT ![b] = view]
     /\ UNCHANGED <<mounted, view, containers, selected>>
     /\ Continue(b, view, IF a = "none" THEN {} ELSE selected,
                 IF a = "stop" THEN "docker" ELSE "gateway")
     /\ UNCHANGED <<answer, older, outdated, worldVars, excused>>

\* NoRoute gives start and remove to the gateway, and some backend accepts them.
AnsweredElsewhere(b) ==
  /\ pc[b] = "call" /\ calls[b] = "gateway"
  /\ UNCHANGED <<mounted, view, containers, selected, owner>>
  /\ Continue(b, owner[b], todo[b], "gateway")
  /\ UNCHANGED <<answer, older, outdated, worldVars, excused>>

\* catch: the error is logged, and the list is not fetched again.
BulkFails(b) ==
  /\ pc' = [pc EXCEPT ![b] = "done"]
  /\ calls' = [calls EXCEPT ![b] = "gateway"]
  /\ owner' = [owner EXCEPT ![b] = 0]
  /\ todo' = [todo EXCEPT ![b] = {}]
  /\ excused' = TRUE

\* The call is rejected, by a timeout of axios if nothing else. A stop under way
\* goes on at the server.
CallRejected(b) ==
  /\ pc[b] = "call"
  /\ BulkFails(b)
  /\ UNCHANGED <<job, pageVars, fetchVars, worldVars>>
-----------------------------------------------------------------------------
(* The Docker API *)

\* StopContainer returns when the container has exited, after ten seconds at
\* the latest; its context does not end with the request.
StopEnds(b) ==
  /\ job[b] # None /\ docker[job[b]] # "gone"
  /\ docker' = [docker EXCEPT ![job[b]] = "exited"]
  /\ UNCHANGED <<mounted, view, containers, selected, owner>>
  /\ IF pc[b] = "call"
     THEN Continue(b, owner[b], todo[b], "docker")
     ELSE /\ job' = [job EXCEPT ![b] = None]
          /\ UNCHANGED <<pc, calls, todo, fetch, loading>>
  /\ UNCHANGED <<answer, older, outdated, outside, touched, excused>>

\* The daemon refuses: 500.
StopFails(b) ==
  /\ job[b] # None
  /\ job' = [job EXCEPT ![b] = None]
  /\ IF pc[b] = "call" THEN BulkFails(b) ELSE UNCHANGED <<pc, calls, owner, todo, excused>>
  /\ UNCHANGED <<pageVars, fetchVars, worldVars>>

\* Mutant: removed containers stay in the listing.
ListingWithGone == docker

\* ListContainers with All: running or not.
Listing == [c \in {d \in Containers : docker[d] # "gone"} |-> docker[c]]

\* The states are those of one moment; inspecting each container follows.
TakeListing(f) ==
  /\ fetch[f] = "sent"
  /\ fetch' = [fetch EXCEPT ![f] = "listed"]
  /\ answer' = [answer EXCEPT ![f] = Listing]
  /\ older' = [older EXCEPT ![f] = {g \in Fetchers : fetch[g] = "listed"}]
  /\ UNCHANGED <<outdated, pageVars, bulkVars, worldVars, excused>>
-----------------------------------------------------------------------------
(* fetchContainers *)

\* Mutant: the selection outlives the bulk.
FinishedSelected(f) ==
  /\ fetch' = [fetch EXCEPT ![f] = "over"]
  /\ answer' = [answer EXCEPT ![f] = Empty]
  /\ older' = [g \in Fetchers |-> IF g = f THEN {} ELSE older[g] \ {f}]
  /\ pc' = IF f \in Bulks THEN [pc EXCEPT ![f] = "done"] ELSE pc
  /\ calls' = IF f \in Bulks THEN [calls EXCEPT ![f] = "gateway"] ELSE calls
  /\ owner' = IF f \in Bulks THEN [owner EXCEPT ![f] = 0] ELSE owner
  /\ UNCHANGED <<mounted, view, selected, todo, job, worldVars>>

\* The request is over; at the end of a bulk the selection is cleared.
Finished(f) ==
  /\ fetch' = [fetch EXCEPT ![f] = "over"]
  /\ answer' = [answer EXCEPT ![f] = Empty]
  /\ older' = [g \in Fetchers |-> IF g = f THEN {} ELSE older[g] \ {f}]
  /\ pc' = IF f \in Bulks THEN [pc EXCEPT ![f] = "done"] ELSE pc
  /\ calls' = IF f \in Bulks THEN [calls EXCEPT ![f] = "gateway"] ELSE calls
  /\ owner' = IF f \in Bulks THEN [owner EXCEPT ![f] = 0] ELSE owner
  /\ selected' = IF f \in Bulks /\ Live(f) THEN {} ELSE selected
  /\ UNCHANGED <<mounted, view, todo, job, worldVars>>

FetchOk(f) ==
  /\ fetch[f] = "listed"
  /\ Finished(f)
  /\ IF Live(f)
     THEN /\ containers' = answer[f]
          /\ loading' = FALSE
          /\ outdated' = (outdated \cup older[f]) \ {f}
          /\ excused' = (excused \/ f \in outdated)
     ELSE /\ outdated' = outdated \ {f}
          /\ UNCHANGED <<containers, loading, excused>>

\* Mutant: setLoading(false) is not in a finally block.
FetchFailsLoading(f) ==
  /\ InFlight(f)
  /\ Finished(f)
  /\ excused' = TRUE
  /\ outdated' = outdated \ {f}
  /\ UNCHANGED <<containers, loading>>

\* A timeout, an error of the daemon, or a container that went away before it
\* was inspected: the error is logged and the list stays as it is.
FetchFails(f) ==
  /\ InFlight(f)
  /\ Finished(f)
  /\ loading' = (loading /\ ~Live(f))
  /\ excused' = TRUE
  /\ outdated' = outdated \ {f}
  /\ UNCHANGED containers

\* Others start, stop and remove containers, or a container exits by itself.
Change(c, s) ==
  /\ outside < MaxOutside /\ docker[c] \notin {"gone", s}
  /\ outside' = outside + 1
  /\ docker' = [docker EXCEPT ![c] = s]
  /\ touched' = touched \cup {c}
  /\ UNCHANGED <<pageVars, bulkVars, fetchVars, owner, excused>>

BulkStep(b) ==
  \/ AnsweredElsewhere(b) \/ CallRejected(b)
  \/ StopEnds(b) \/ StopFails(b)

FetchStep(f) == TakeListing(f) \/ FetchOk(f) \/ FetchFails(f)

Next ==
  \/ Open \/ Leave \/ ToggleSelectAll
  \/ \E c \in Containers : ToggleSelect(c)
  \/ \E a \in Actions : Click(a)
  \/ \E b \in Bulks : BulkStep(b)
  \/ \E f \in Fetchers : FetchStep(f)
  \/ \E c \in Containers, s \in {"running", "exited", "gone"} : Change(c, s)

Spec == Init /\ [][Next]_vars
-----------------------------------------------------------------------------
Lists == UNION {[S -> {"running", "exited"}] : S \in SUBSET Containers}

\* Every variable keeps its type; the list shows no removed container's state.
TypeOK ==
  /\ docker \in [Containers -> {"running", "exited", "gone"}]
  /\ outside \in 0..MaxOutside /\ touched \subseteq Containers
  /\ mounted \in BOOLEAN /\ view \in 0..MaxViews
  /\ containers \in Lists /\ loading \in BOOLEAN /\ selected \subseteq Containers
  /\ fetch \in [Fetchers -> {"idle", "sent", "listed", "over"}]
  /\ answer \in [Fetchers -> Lists]
  /\ older \in [Fetchers -> SUBSET Fetchers]
  /\ outdated \subseteq Fetchers /\ excused \in BOOLEAN
  /\ pc \in [Bulks -> {"idle", "call", "list", "done"}]
  /\ calls \in [Bulks -> {"docker", "gateway"}]
  /\ todo \in [Bulks -> SUBSET Containers]
  /\ job \in [Bulks -> Containers \cup {None}]
  /\ owner \in [Bulks -> 0..MaxViews]

AtRest ==
  /\ \A b \in Bulks : ~Running(b)
  /\ \A f \in Fetchers : ~InFlight(f)

\* Bulks may overlap in any way: when all is over, the list agrees with the
\* daemon. Excused are a call or listing that failed (a bulk that fails does not
\* fetch the list), a bulk that went on when the page was opened again, an older
\* listing that arrived after a newer one, and what others changed.
ListCurrentAtRest ==
  mounted /\ AtRest /\ ~excused =>
    \A c \in Containers \ touched : c \in DOMAIN containers /\ containers[c] = docker[c]

\* "Loading containers..." hides the table only while a listing of this view is
\* under way, also when several overlap and some fail.
SpinnerHonest == loading => \E f \in Fetchers : InFlight(f) /\ Live(f)

\* A bulk starts with what the user sees: whatever listings replace the list, in
\* whatever order, no id stays selected that is not in it. What a bulk under way has
\* still to call may leave the list.
SelectionListed == selected \subseteq DOMAIN containers
=============================================================================
