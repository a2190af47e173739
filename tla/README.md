# manager.io: models, checks and proofs

manager.io is an API gateway with a small administration console: a Go server
(`src/server`) that proxies requests to registered backends, checks their
health, keeps its configuration in Postgres and forwards a few calls to the
Docker daemon, and a React front end (`src/app`). This directory holds TLA+
modules for the parts of it whose behaviour depends on order, concurrency,
failure or restart, the TLC runs that check them, and proofs.

Line numbers refer to files of `src/server/internal/gateway.io` unless a path is
given. `PROJECT.json` maps every definition to its source lines.

## 1. Inventory

| Component | Source | State | Operations | What is hard | What makes it correct |
|---|---|---|---|---|---|
| Gateway | `gateway.core.go` 19-61, 165-226, 307-364; `gateway.handler.go` 14-38 | `backends`, `mu`; per request: the matched config, the recorded status, the label | ServeHTTP, AccessLoggingHandler, ReloadBackends | the read lock is held for a whole proxied request; a waiting writer blocks new readers; the lookup is done twice; panics of ReverseProxy | the lock is never leaked; the table never changes under a request; the label explains the request; everybody is answered |
| Configuration service | `gateway.service.go`, `gateway.repo.go`, `gateway.handler.go` 46-90 | `runtimeCache`, its own mutex; the rows | Create, loadCacheFromRepo, RecordAccessLog, SetHealthStatus, reads | concurrent POSTs, failing database, death between commit and publication | what is routed is stored; what is acknowledged is routed |
| Route lookup and Director | `gateway.core.go` 169-223 | the loop's best match so far | lookup, path rewriting | map order, equal, nested and empty prefixes, slashes | a longest match, and the right path |
| Round robin | `gateway.core.go` 369-399 | `currentLBIndex`, `IsHealthy`, the config's mutex | GetNextHealthyEndpoint | health is written without the mutex while a scan runs | no healthy endpoint is missed or starved |
| Health checking | `gateway.core.go` 229-306, `gateway.service.go` 243-297, `gateway.model.go` 44-59 | the ticker, one goroutine per config, `IsHealthy`, `is_healthy` rows, the history | rounds, probes, SetHealthStatus, restart | memory against rows, duplicated and malformed URLs, stale rows after a restart | memory follows the servers; the history is complete |
| WebSocket proxy | `gateway.core.go` 63-162 | two connections, two pump goroutines, the channel `done` | handshake, dial, relay, shutdown | both pumps end the session, in any order, in the middle of a relay | order and completeness of the relay while the handler waits; the end of a session is the end of nothing else |
| Balancer | `../balancer/*.go` | the atomic counter, `Alive` | GetNextPeer, HealthCheck | one counter shared by all scans | a scan sees every backend |
| Process | `src/server/cmd`, `src/docker-compose.yml` | up or down | start, crash, restart by Docker, SIGTERM without draining | anything in memory is lost | nothing acknowledged is lost from the database |
| Docker API | `../api`, `../services`, `../docker` | none of its own; the daemon's | list, start, stop, inspect, stats, logs as SSE, images | streams that outlive their client; a client timeout (5 s) shorter than a stop (10 s); a listing is several calls to the daemon | a call that the client gave up still ends; a listing shows all containers of one moment |
| Container list | `src/app/src/components/container/ContainerList.tsx` | `containers`, `loading`, `selected`, one loop per click | listing, selection, bulk actions | buttons stay enabled during a bulk; loops go on after the page is left; listings overlap; a bulk fails half-way | the list agrees with the daemon when all is over; the spinner is honest; what is selected is visible |
| Container details | `src/app/src/components/container/ContainerDetail.tsx` | `container`, `stats`, `logs`, the interval, the EventSource | effect and cleanup, polling, log stream | answers to an earlier id; polls out of order; nothing is reset when the id changes | the page shows the container of its address |
| Log of a container | `container.handler.go` 70-104, `src/app/src/components/container/ContainerDetail.tsx` 45-96, 250-281 | lines, tab, EventSource; a goroutine per stream | open, copy, close; tabs | chunks of up to 1024 bytes, with several lines or a part of one, streams that outlive their reader, a page led to another container | the log shows what the right container wrote, in order; the goroutine ends |
| Image list | `src/app/src/components/container/ContainerImage.tsx`, the image handlers of `../api` | images, search, page, selection, one loop per deletion | listing, search, paging, selection, deletion | the selection spans pages; deletions overlap, fail half-way and outlive their request; a listing moves the last page | the list agrees with the daemon when all is over; a page shows rows if there are any |
| Containers table | `src/app/src/components/container/TableContainer.tsx` | search, page, size, selection | the same, over a fixed list | pages against a changing filter | a page shows rows if there are any |
| Endpoint pages | `src/app/src/pages/endpoint-list.tsx`, `EndpointHistory.tsx`, `components/endpoint` | list, message, timers, modal and form; the points of a chart | listing, create, edit, delete; the probes of a backend | late answers of closed forms, several lists on their way, a form that is closed while it saves; probes come newest first, and several in a millisecond | a success is followed by a current list; the form says "Saving..." only while it saves; the chart tells the probes of one backend in order |
| Login, routes, header | `src/app/src/App.tsx`, `pages/LoginPage.tsx`, `components/ProtectedRoute.tsx`, `header.tsx`, `sidebar.tsx` | two items of localStorage; path and shown user of each tab | login, logout, navigation | the session is two items, other tabs run between two calls; only what renders reads the storage | the guard lets no torn session through; the header shows who is logged in |
| Preferences | theme, font sizes and sidebar contexts of `src/app/src` | one item each, the state of each tab, the class of the document | read at first render, write by an effect | a tab that starts writes back what it read | the choice of the user survives; the document is dark when the switch says so |
| Toasts | `src/app/src/hooks/use-toast.ts`, `components/ui/toaster.tsx` | store, timers, listeners | add, update, dismiss, remove | limit of one, removals pending, a component that subscribes after it rendered | the Toaster shows the store; what is closed goes |
| Vendored widgets, unused contexts | `src/app/src/components/ui`, `contexts/AuthContext.tsx`, ... | - | rendering | - | - |
| Server utilities | `src/server/utils`, `src/server/config` | - | formatting, reading files | - | - |

Interactions: a request enters `NoRoute` -> AccessLoggingHandler -> ServeHTTP
(under `Gateway.mu` for reading) -> GetNextHealthyEndpoint (under the config's
mutex) -> ReverseProxy or proxyWebSocket; then a second lookup and an insert
into `access_logs`. `POST /config/v1/backends` -> Create -> database ->
`runtimeCache` (under the service's mutex) -> ReloadBackends (under
`Gateway.mu` for writing). The checker copies the table under `Gateway.mu`,
probes without it, writes `IsHealthy` directly and calls SetHealthStatus, which
writes history and rows. All three share `BackendEndpoint` structs. The console
calls `/api/...` (the Docker API, same process) with axios and a timeout of five
seconds; a path without a route there is a request to the gateway.

## 2. Modules

| Module | Models | Uses |
|---|---|---|
| `RWMutex` | `sync.RWMutex` (external), as operators on a lock record | |
| `Routing` | what a lookup returns: the reference definition | |
| `RouteLookup` | the lookup loop, step by step, and the Director | `Routing` |
| `Gateway` | requests, POSTs, checker, database, crash and restart around one gateway | `Routing`, `RWMutex`; refines `RouteTable` |
| `RouteTable` | abstract: a table of stored configs replaced only between requests | `Routing` |
| `RoundRobin` | GetNextHealthyEndpoint with concurrent callers and health writes | |
| `HealthCheck` | rounds, probes, SetHealthStatus, rows, restart | |
| `WsProxy` | one WebSocket session | |
| `ServerPool` | the balancer package | |
| `ContainerList` | the container page, its bulk actions and the Docker API behind them | |
| `ContainerDetail` | the detail page: effect, details, polled statistics | |
| `LogStream` | the log: container, handler, EventSource, tabs | |
| `ImageList` | the image page and the image part of the Docker API | |
| `ContainersTable` | the table that no page renders | |
| `EndpointList` | the endpoint page with its form, message and timers | |
| `EndpointHistory` | the history page of a backend and its chart | |
| `Session` | login, logout, guard and header in several tabs | |
| `Preferences` | the settings in localStorage, several tabs | |
| `Toasts` | the toast store and the Toaster | |
| `MCGateway`, `MCHealthCheck`, `MCContainerList` | instances for TLC | |
| `MCProxying` | the composition of `RouteLookup`, `RoundRobin`, `WsProxy` and `ServerPool` | all four |
| `MCConsole` | the composition of the eight modules of the console from `LogStream` on | all eight |
| `GatewayProofs`, `RouteLookupProofs`, `HealthCheckProofs`, `WsProxyProofs`, `ContainerListProofs`, `ContainerDetailProofs` | theorems about the module of that name | |
| `ProxyingProofs` | theorems about `RoundRobin` and about the composition `MCProxying` | `RouteLookupProofs`, `WsProxyProofs` |
| `ConsoleProofs` | theorems about the pages of `MCConsole` and their composition | `MCConsole` |

The components of the console share no state with each other, and neither do the
four loops of `MCProxying`. These two modules therefore run one of them, the
`scene`, in each behaviour and keep the others where they start: the union of
their behaviours, not the product. A module that is only instantiated names what
its constants have to be in `ParametersOk`, which the composition assumes.

How state and actions correspond:

* **Gateway.** One value of `Configs` is one row (one uuid) and has at most one
  POST; a client that retries creates another row, maybe with the same prefix
  (`twin` in the instance). One value of `Requests` is a client that sends one
  request after another. `pc` follows the handler goroutine: `lookup` (RLock
  called, 166), `proxy` (in ReverseProxy or proxyWebSocket, lock held, 190 and
  225), `relock`/`relookup` (332-341), `record` (348). `Abort` is a panic with
  ErrAbortHandler: the deferred RUnlock runs, gin's Recovery ends the request,
  nothing is logged. `post` follows Create: `persist` (155), `publish`
  (162-169), `call` (172, outside the service's mutex), `lock` (51). `Install`
  is 54-60. The checker is `Tick`, `Snapshot`, `RoundEnds`. A POST that fails may
  have stored its row all the same (the connection breaks after the commit).
  `unloaded`, a history variable, is what GetAll did not read when the process started
  (`BootEmpty`: the error of `gateway.service.go` 84-89 is only logged). Which endpoint
  answers and whether there is one (`RouteUnavailable`) is the
  subject of RoundRobin and HealthCheck; here both outcomes are always possible.
* **RouteLookup.** One behaviour is one call; `Visit` takes any unvisited config,
  because Go ranges over maps in any order. The Director runs after the loop, with any
  base path. `Gateway` uses `Lookup` for the same
  loop, and theorem `LookupAlwaysCorrect` says that this is what the loop returns.
* **RoundRobin.** A scan reads one endpoint per step; `SetHealth` interleaves
  freely, since 298 of checkBackend takes no lock. `steady` and `waited` are
  history variables.
* **HealthCheck.** `slot`/`phase` follow one checkBackend goroutine per config
  through GET (275), the write (298), SaveHealthHistory and the comparison with
  the row update (SetHealthStatus). `Target` is the first endpoint with the same
  URL, as the loop at `gateway.service.go` 256 finds it. `Default` is GORM's
  treatment of a zero value with a column default. The config is looked up in
  `runtimeCache` there (246); configs are never removed from the cache, so that
  branch and the next one are not modelled.
* **WsProxy.** `pump[s]` is the goroutine that reads from side s. `writer` is the
  ResponseWriter: the recorder of the access log, as `src/server/cmd/route.go` 100 has
  it, or gin's own, as in the commented line 101. As wired, no session comes about:
  the recorder is no Hijacker, so the handshake is answered 500 (`NotHijackable`), and
  gorilla's dialer refuses the handshake's own headers in `r.Header` (`DialFails`). The
  constants `Writers` and `HeaderAccepted` say which of the two obstacles are there;
  the runs put them aside to see what the relay behind them does. Configs with Protocol `WS` exist
  only as edited rows: Create never sets the field.
* **ServerPool.** One step per atomic operation. The package is not wired into
  the program.
* **ContainerList.** One value of `Bulks` is one click on a toolbar button: `pc`
  follows handleBulk (86-98) from await to await, `todo` is what is left of the
  Set it captured, `Continue` is the loop up to its next await. `job` is the
  stop at the server, which does not end with the request
  (`docker.client.go` 42, 89). `fetch` and `answer` follow one listing from
  `setLoading(true)` to `finally`; `TakeListing` is ContainerList of the daemon,
  whose states the answer keeps while the inspections behind it go on.
  A start posts to `/containers/start/:id` (`docker.apt.ts` 10) and a remove is
  a DELETE without a route: both end up in NoRoute, and some backend may accept
  them (`AnsweredElsewhere`). `Live` is React's rule that setters of an unmounted
  component do nothing. `older`, `outdated`, `excused` and `touched` are history
  variables: they say when the list may disagree with the daemon.
* **ContainerDetail.** `effect` numbers the runs of the effect (59-72), `idOf` is
  the id each run captured, `interval` and `inspect` are the timers and requests
  of all runs. `asker` and `reply` follow one poll. `Measured` is Stats of the
  server, with what JSON makes of a percentage that is not a number.
* **LogStream.** `stream` numbers the runs of the effect, `idOf` is the id of each.
  A line comes in two pieces, and streams, chunks and entries count pieces, because a
  read into the buffer of 1024 bytes may end inside a line. `Copy` is one turn of the
  handler's loop (89-98): a chunk of any pieces there are, of which the EventSource
  keeps what stands before the first line break (`FirstLine`). So the rest of a chunk
  is lost, and a line that two chunks share shows as two entries. A "line" is one of
  the raw stream: the 8-byte frame headers that the daemon sends for a container
  without a terminal are passed on and are part of it. Lines longer than two buffers,
  text that looks like a field of the event stream and characters split between two
  chunks are left out. `handler` goes on when `source` is closed:
  the loop never asks for the context of the request, and only the end of the
  daemon's stream ends it. `body` is the tab on screen, set when the details come.
* **ImageList.** `pc`, `todo`, `called` and `job` follow one click on "Delete", as
  in ContainerList; `images` is a set, since the page keeps the order of the daemon.
  `RowsShown`, `PagerShown` and `DeleteEnabled` say what the user can click.
  `selected` is changed by `ToggleSelect` and `ToggleSelectAll` and by nothing
  else: after a deletion ids that are gone stay selected until the page is left or
  the deletion comes to its end.
* **EndpointList.** The configurations are a `version`: two lists differ when
  something changed in between. The page saves and deletes through a service on
  port 8080 that is not part of this repository; it is taken to change the
  configurations that this server lists. `gets` are the requests of opened forms,
  `owner` the view and form that a call belongs to, `timers` the pending timeouts of
  five seconds. Every late success closes the form that is open then.
* **EndpointHistory.** `Shown` is what the page draws of its four states;
  `checkedAt` is the millisecond that the page reads from a date; two probes may share
  it. `NewestFirst` is the order of the database, whose dates count microseconds and
  differ. `OldestFirst` is the stable sort of the page by milliseconds (77-79), so
  probes of one millisecond stay newest first. `LatencyMs` is the conversion of the
  page; the points carry it, but `Areas` over them has no latency, so the tooltip finds
  none to tell (`TooltipOf`).
* **Session.** A handler is a sequence of storage calls; between two of them
  another tab may run (`pc`). `Landing` is ProtectedRoute, which reads the storage
  when its element is rendered and then only; `MountHeader` is the header, which
  reads it when the layout is mounted. `BackOrForward` reaches paths that no link
  offers.
* **Preferences.** One behaviour looks at one setting, because they do not depend
  on each other. `rendered` is a component between its first render and its first
  effect, in which another tab may choose.
* **Toasts.** `toasts` and `open` are the store, `view` the copy of the Toaster,
  `missed` a dispatch between its render and its subscription. Ids count up and new
  toasts come first, so the store is the set of its ids, and `Newest` is `slice`.

Operators named after a bug (with a comment that starts with "Mutant") are the
mutated forms of a definition. They are part of no specification: they record
for each property a change of the code that would break it. `PROJECT.json` pairs one
with each property. These break a conjunct of a property whose pair breaks another:
`OldestFirstNot` and `ConfigArrivesOk` (`PagesShowTheirOwn`, `NoSilentStaleness`),
`NextPageUnbounded` (`PageRunsOffExplained`), `ClassesSwapped` (`PreferencesKept`),
`NavigateHomeAfterLogout` (`SessionHonest`), `DismissWithoutTimer` (`TransientsGo`).

## 3. Runs

| Run | Module, configuration | Checks | Bounds and why they are enough |
|---|---|---|---|
| `gateway` | MCGateway, `MCGateway.cfg` | `TypeOK`, `LockMatchesThreads`, `StoredFirst`, `MissingExplained`, `LabelDriftExplained`, `TableHeldWhileProxied`, `ImplementsRouteTable` | two clients, a stored config and two POSTs (a deeper and an equal prefix), one crash, failing database: two POSTs are what an overtaking needs, one request on each side of a reload is what a drift needs |
| `gateway_live` | MCGateway, `MCGatewayLive.cfg` | `RequestsAnswered`, `PostsAnswered`, `ChecksRecur` | two clients, two POSTs, the checker; no crash, since a crash ends every wait |
| `acked_is_routed` | MCGateway, `MCGatewayAckedIsRouted.cfg` | violates `AckedIsRouted` | as `gateway`, without crash and database errors |
| `no_match_logged` | MCGateway, `MCGatewayNoMatchIsLogged.cfg` | violates `NoMatchIsLogged` | the same |
| `health` | MCHealthCheck, `MCHealthCheck.cfg` | `TypeOK`, `UnparsedNeverHealthy`, `HistoryComplete`, `RowsMoveOnlyForTwins`, `MemoryConverges` | a config with a duplicated and a malformed URL, any rows at start, a config created later, failing database, one crash |
| `health_rows` | MCHealthCheck, `MCHealthCheckRows.cfg` | violates `RowsFollowMemory` | the same, with a database that answers |
| `proxying` | MCProxying, `MCProxying.cfg` | `TypeOK`, `LookupCorrect`, `TargetKeepsPathsApart`, `NilMissesNobody`, `NobodyStarves`, `SteadyIsPicked`, `RelayKept`, `PoolMissesExplained` | lookup: six configs with empty, nested, equal and disjoint prefixes, all 64 tables, all paths of up to four characters, base paths that are empty and with and without a slash at either end; selection: four endpoints, one unparsed, two callers; session: two messages each way, either writer, a dialer that accepts; balancer: three backends and a counter of two bits, so that it wraps and 4 is no multiple of 3, two callers |
| `session_end` | WsProxy, `WsProxySessionEnd.cfg` | violates `SessionEndsAlone` | gin's writer, a dialer that accepts, one message each way |
| `container_list` | MCContainerList, `MCContainerList.cfg` | `TypeOK`, `ListCurrentAtRest`, `SpinnerHonest`, `SelectionListed` | two interchangeable containers, two bulks, the page opened twice, one change by others: two bulks are what overlapping listings need, two views are what a bulk needs to outlive its page |
| `container_detail` | ContainerDetail, `MCContainerDetail.cfg` | `TypeOK`, `FreshPageIsOwn`, `StatsConverge` | two containers, two runs of the effect (the page is led to another container, or closed and opened again), two polls under way, two changes of what runs |
| `console` | MCConsole, `MCConsole.cfg` | `TypesOK`, `SessionHonest`, `PreferencesKept`, `ImagesCurrentAtRest`, `PageRunsOffExplained`, `NoSilentStaleness`, `PagesShowTheirOwn`, `TransientsGo` | two tabs and two users; two images on pages of one, two deletions, one change by others; two calls of the endpoint page, two forms; two containers or backends with two lines (four pieces) between the former and two probes of each of the latter, two runs of each effect; three toasts over a limit of one; a table of two rows with pages of one and two |
| `no_images_found` | ImageList, `ImageListNoneFound.cfg` | violates `NoneFoundIsTrue` | the images of `console`, in one view |

In `MCConsole`, `Bounds` names what is left out for size: two deletions, or two
calls of the endpoint page, are not combined with opening the page again (one call
that outlives its page is), and the first container or backend visited is always the
same one. Of the containers with a log, that one alone may stop, and they write two
lines between them: a chunk, an entry or a loss needs no more than two lines of one
container, or one of each.

`proxying`, `session_end`, `container_list`, `container_detail`, `console` and
`no_images_found` switch the deadlock check off: a lookup and a session end, and users
leave a page for the last time. All others check it.

What the runs show, beyond that the named properties hold:

* An acknowledged config may be missing from the table (`acked_is_routed`):
  two POSTs build nested lists under the service's mutex, but call ReloadBackends
  after leaving it, and the shorter list can be installed last.
  `MissingExplained`, which is proved, says when else one may be missing: when GetAll
  failed as the process started, whatever was stored before stays out for as long as
  the process lives, and otherwise only behind an older list.
* The path asked of an endpoint stays below its base path, and two requests of a route
  become one at the endpoint only if they differ by the slash that the Director may
  add (`TargetKeepsPathsApart`, proved). When base path and rest both bring a slash,
  both stay.
* The label in the access log is found by a second lookup. It can differ from
  the config that served the request, but only after a reload in between or
  between equal prefixes (`LabelDriftExplained`, proved).
* A request without a backend is never logged (`no_match_logged`): the label
  `NO_MATCH` goes into a column of type uuid.
* The health of an endpoint reaches its row only when another endpoint of the
  config has the same URL (`RowsMoveOnlyForTwins`, `health_rows`): checkBackend
  overwrites the value that SetHealthStatus wants to compare with.
* A WebSocket session that ends would end the process (`session_end`): both pumps
  close the same channel, and the second close panics where nobody recovers. Two other
  faults hide this today, the writer and the header (section 2): the run puts them aside,
  and whoever repairs them meets it.
* The relay keeps the order and, until the handler returns, whatever a listening peer
  has not received is in hand or unread (`RelayKept`, proved). The handler returns only
  behind a peer that left; then both connections are closed, and what was in hand or
  unread for the other peer is lost although that one still listens.
* The container list is right again once all calls are over, except after a
  failed call, an older listing that came last, or a bulk that outlived its page
  (`ListCurrentAtRest`). A stop of a container that needs more than five seconds
  to exit is such a failed call: axios gives up, the list is not fetched again,
  and the container shown as running has stopped.
* The chart of the detail page ends up with the container of the address, in
  whatever order polls answer (`StatsConverge`), because polling repairs it. The
  details are asked for once: on a page that was led from one container to
  another, a late answer for the first stays. That is why `FreshPageIsOwn` speaks
  of pages that were opened afresh.
* The image page can say "No images found." while images match
  (`no_images_found`): a listing that comes after a deletion leaves `page` as it is,
  behind the last one, and with one page left the pager is hidden. A search leads
  back. `PageRunsOffExplained` says that nothing but a listing does this, and for
  the table nothing but a new text.
* A deletion of images that fails half-way leaves the list as it was, though some
  images are gone and the server goes on with the call that timed out:
  `ImagesCurrentAtRest` names these images and no others.
* The two items of a session cannot be torn by the order of any tab's calls so that
  a guard admits half a session, and a login ends inside unless another tab logs out
  meanwhile (`SessionHonest`, proved). A tab does not notice that another logged out
  or in: its page stays, and its header keeps the old name.
* A setting that is chosen while another tab starts can be overwritten by that tab's
  first effect (`PreferencesKept` says that this is the only way).
* The endpoint page tells of a success and lists again, in whatever order lists
  arrive, but the success of a save whose form was closed closes whatever form is
  open then. Its message goes away by itself (`TransientsGo`), also when several
  timers overlap.
* The log loses all but the first line of a chunk and shows a line that two chunks share
  as two entries, but it never shows anything out of order, twice, or in the log of a
  page opened for another container (`PagesShowTheirOwn`).
  The goroutine of a stream ends with its container and not with its reader
  (`TransientsGo`).

Divergences met on the way that are single statements and have no run:
`gateway.core.go` 84 and 88 say the WebSocket path was stripped, and it is not
(`DirectWebSocket`); 98 says a failed upgrade is a 4xx, and behind the recorder
it is a 500 (`NotHijackable`); `gateway.service.go` 147 says a created endpoint is DOWN, and the
column default makes it UP; `gateway.core.go` 397 says nil means that no endpoint
is healthy, and a scan can miss two that take turns (`NilMissesNobody` is the
exact statement); in `container.handler.go`, 93 writes a chunk behind one
`data:` though 92 says a chunk is a message, and a chunk may hold several lines, of
which an EventSource keeps the first, or end inside one; in `EndpointHistory.tsx`,
118 looks for a latency that no area draws (231-253), so no tooltip tells one, and 77-79
leave probes of one millisecond in the order opposite to all others; 123 divides by a memory limit that is zero for a
stopped container, and the answer is 200 without a body; `docker.apt.ts` 10
lacks `api/`, 14 and the edit and delete calls of the endpoint pages have no
route; the buttons Resume, Push and Kill only fetch the list; ContainerStatsChart
multiplies percentages of the server by 100 once more; the "Back" button of the
history page goes to `/backends`, which no route matches, as do four entries of the
menu; `docker.apt.ts` 18 pulls an image with a query parameter where the handler binds
a JSON body; the form of the endpoint page leaves out fields that the server requires;
its own validation is unreachable behind the browser's `required`; no page calls
`toast()`.

## 4. Fairness

* Goroutines that can run do run: weak fairness of each request's, each POST's,
  the checker's steps, one conjunct per process.
  `MCProxying` (of the selection alone) and `MCConsole` state the fairness of their parts, each on the
  variables of its scene.
* Upstreams answer, or the connection to them fails: `Respond` or `Abort` is a
  step of the request. ReverseProxy sets no timeout, so an upstream that hangs
  for ever, or a WebSocket session that never ends, is excluded by this
  assumption; it would block every later reload and, behind it, every request.
* The ticker fires, and a probe ends by its timeout of two seconds.
* The container is restarted: `restart: always` in `src/docker-compose.yml`.
* Callers of GetNextHealthyEndpoint get the mutex in turn (strong fairness of
  `Enter`): a sync.Mutex in starvation mode is handed over in order.
* An interval that is not cleared fires (weak fairness of `Tick`), and of the
  polls some are measured and some answered (strong fairness of `Measure` and
  `StatsOk`): any number of them may fail, but not for ever all.
* The timers of the endpoint page and of the toasts fire, and React renders the
  Toaster and runs its effect.
* The loop of the log handler goes on while there is something to read, and sees the
  end of the stream.
* `ContainerList` and the other modules of the console have safety properties only
  and need no fairness.
* Nothing makes peers leave, servers fail, users act or processes crash, and nothing makes
  clients send but one assumption: `SteadyIsPicked` is about a backend whose callers
  keep coming, which strong fairness of `Enter` says.

## 5. Proofs

All assumptions are those named in the modules: prefixes and paths are sequences
of characters, `NoMatch` is no config, process identities are distinct, indices
are naturals. They are evaluated by every run. Nothing is bounded: any number of
configs, requests, endpoints, callers and crashes, of tabs, users, clicks, views,
containers, images, rows, lines and toasts, and pools, pages and counters of any size
but the ones that make no sense (a pool without backends, a page without rows, a
counter of one value).

* `GatewayProofs`
  * `TypeCorrect`; every later invariant carries `TypeOK`.
  * `LockCorrect`: `LockMatchesThreads` is inductive together with `TypeOK`. It
    has one case per action and one lemma per lock operation.
  * `TableHeld`: `Install` is the only step that changes the table of a live
    process; it needs an empty set of readers, and a proxied request is a reader.
  * `StoredFirstAlways`: `StoredFirst` needs, in addition, that a POST past
    `persist` is stored (otherwise `Publish` could cache a row that is not there).
  * `MissingAlwaysExplained`: the strengthening says that every published list is a
    subset of the cache, that the table is the list of a finished POST or what was
    loaded at boot, that boot's table is below every list of this life, and
    (`LoadedStays`) that what was acknowledged before this life and loaded at its start
    stays in the cache, in the table and in every list of this life.
  * `DriftExplained`: between the two lookups of a request without a reload the
    table is the one its match was chosen from; two longest matches of one path
    have the same length, hence the same prefix.
  * `Refinement`: `Spec => RT!RTSpec` with `stored <- db`, `table <- backends` and
    `serving <- ServedBy`; each action maps to a step of the table or to a stutter,
    and `Install` to `Replace` because of the lock invariant.
* `RouteLookupProofs`: `LookupAlwaysCorrect` from the loop invariant
  `VisitedCorrect` (the best match is a longest match of the part visited);
  `TypeCorrect` and `TargetAlwaysKeepsPathsApart` from `CallInv` (the match is a prefix
  of the path, the target is set after the loop). A match covers the beginning of its
  path and the rest is what the Director strips to (`MatchCoversPath`); what is joined to
  a base path lies below it (`JoinIsBelow`), and joining conflates no two rests but
  those that differ by the slash it may add (`JoinKeepsApart`, by cancelling the base
  path).
* `ProxyingProofs`
  * `TypeCorrect`; `NilNeverMisses` from an invariant on the distance of each endpoint
    from the pointer (an endpoint nearer than the loop counter was not selectable at
    some time of the scan); `RoundRobinFair` from an invariant that bounds the picks an
    endpoint has waited by its distance.
  * `SelectionFair`: every behaviour of the composition is one of `RoundRobin`.
  * `PoolMissesAreExplained` from `PoolInv`. `Ago(b)` is how many steps ago the counter
    stood at backend b. As long as nobody else has moved the counter and its end has
    not upset the order (`Undisturbed`), a backend that was alive all along stood there
    longer ago than the call has steps behind it (`LookedAt`), and no backend is further
    away than the size of the pool. `CounterGoesOn` is the arithmetic: the remainder
    moves on by one, also where the counter wraps if its range is a multiple of the
    pool.
  * `LookupIsCorrect` and `TargetsKeepPathsApart`: `LoopInv` and `CallInv` of
    `RouteLookupProofs`, and `RelayIsKept`: `SessionInv` of `WsProxyProofs`, instantiated
    for the composition.
* `HealthCheckProofs`: `TypeCorrect`, `UnparsedStaysUnhealthy`,
  `HistoryAlwaysComplete` and `RowsOnlyForTwins` from one invariant, `IInv`. Its part
  `Loop` says of each goroutine that the history holds the parsed endpoints behind
  its position (a cardinality, which also bounds the history in `TypeOK`), that it
  probes only parsed endpoints, and that between the write to memory and the call of
  SetHealthStatus memory holds the verdict: so the comparison there can only find a
  difference at another endpoint, with the same URL.
* `WsProxyProofs`: `RelayAlwaysInOrder` and `NothingIsLostInside` from `SessionInv`. Its
  part `RelayInv` says that, until the handler returns and while the receiver listens,
  what a peer sent is what was delivered, what is in hand and what is unread, in this
  order; its part `EndInv` follows the end of a session back to a peer that left:
  before that no pump gives up, so nothing closes the channel that the handler waits
  for.
* `ContainerListProofs`: `TypeCorrect`; `ListAlwaysCurrentAtRest` (below);
  `SpinnerAlwaysHonest` from `BulkAwaits` (a bulk whose listing is under way waits for
  it, so that a bulk failing in a call cannot be the one behind the spinner);
  `SelectionAlwaysListed` from `FirstListingAlone` (while the first listing of a view is
  under way, the view is blank and no bulk was started from it, so that every other
  listing that replaces the list also ends a bulk of this view and clears the
  selection).
* `ContainerDetailProofs`: `TypeCorrect`; `FreshPageIsAlwaysOwn` from `AnswersAreOwn`
  (a poll is answered with the id its effect captured), `EffectIsOwn` and
  `ClosedIsEmpty`.
* `ConsoleProofs`: one inductive invariant per page, a lemma that it holds at the
  start and one that each step keeps it; `EachPageRuns` hands the steps of `MCNext` to
  them.
  * `SessionAlwaysHonest` from `LoginUnderWay`: a handler between its calls knows its
    user, and a login that nobody disturbed has already stored what its next step
    relies on.
  * `ImagesAlwaysCurrentAtRest` (below).
  * `PreferencesAlwaysKept` from `PreferencesRendered`: a tab whose effect is to come
    will write what was chosen, or was passed by the choice.
  * `EndpointsNeverSilentlyStale` from `EndpointsFollow` (the list is as new as the last
    success the page was told of, or one that will be is on its way to this view) and
    `EndpointSpinner`, which says the spinner of a form in terms of the requests that
    carry its number, without the page around it.
  * `PagesAlwaysShowTheirOwn` from three of them. The log (`LogInv`): what the page has
    appended was read from the stream before what is on its way, which is in order,
    apart, and not ahead of what the handler has read. The history (`HistoryInv`): an answer has
    the first n rows of its backend, the newest first. Its stable sort is the
    arrangement that HistoryIsTrue speaks of, oldest first and the newest first within a
    millisecond (`AnswerIsSortedBack`); rows saved meanwhile come behind
    (`HistorySaves`). The toasts (`ToastsInv`): a Toaster that
    has rendered shows the store or has missed a dispatch, and of the store `Newest`
    keeps at most TOAST_LIMIT (`NewestAreFew`).
  * `PagesRunOffOnlyAsExplained`, an action property. `RowOfRank`: the rows that are
    found have all ranks from 0 to their number; `PagesFilled`: pages 1 to TotalPages
    begin before the last row. So a turn, a size or a selection leads to a page that
    has a row, also from a page that the user had been left on.
  * `TypesAlwaysCorrect` puts the types of all pages together.

The lists of containers and of images are current at rest for the same reason. Every
object that the page has not been excused for is followed: either a listing will still
be taken for this view (`ListingToCome`, `ImageToCome`), or the list, or a listing on
its way that will replace it and is not older than it (`Fresh`, `ImagesFresh`), tells
the truth about the object, and behind every one of these that does not comes a later
one that does. This needs that "older" is a strict order on the listings under way
(`AgeIsOrder`, `ImageAges`), that a listing taken by a view of the future does not
exist, and that the bulks under way belong to the view unless it is excused.

What the proofs brought to light about the models: the page number of the containers
table was said to be at most the number of containers, which is false of an empty table
on page 1 (`TypeOK` of `ContainersTable`); a balancer whose counter has one value only
never moves, so the counter is assumed to have at least two; and the order of rows had to
be said by what a stable sort guarantees instead of by one way of doing it.

Every safety invariant and every action property of a passing run is proved, for every
value of the constants. Only model-checked is liveness (`RequestsAnswered`,
`PostsAnswered`, `ChecksRecur`, `SteadyIsPicked`, `MemoryConverges`, `StatsConverge`, `TransientsGo`), which is out of the prover's reach.

## 6. Not modelled

* Read-only handlers (`ListConfigs`, `GetHealthHistory`): no state. `NewGateway`,
  `SetHealthStatus_`, `UpdateHealth`, `GetHealthHistorys` are not called.
* RateLimit and AuthType are stored and never read.
* Data races as torn values: the fields written without a lock are booleans.
* Start of the Docker API, which the console does not reach.
* A stop of the daemon that ends later than ten seconds: it kills the container.
* `IsAlive` and `SetAlive` of the balancer are one step each: they hold the mutex of
  the backend around one field.
* The service on port 8080 that the endpoint page saves to: not in this repository.
* `src/app/src/components/ui` (but for the Toaster) is vendored: widgets whose state
  is that of a library; `AuthContext`, `ThemeContext`, `MainLayout` and `ThemToggle`
  are rendered by nothing.
* `src/server/utils`, `src/server/config`: formatting, logging, reading files, mostly
  unused.

## 7. Plan

Done: the gateway core, its parts, the console, and the theorems of section 5, which
state every safety property of the passing runs. What is left:

1. An abstract specification of health checking (memory as a delayed copy of the
   servers, the history as a log that only grows) and its refinement by `HealthCheck`,
   as `RouteTable` is for the gateway.
2. The safety part of what the liveness properties rest on: that a message of the
   endpoint page has a timer to come, and a closed toast a removal.
