----------------------------- MODULE MCConsole -----------------------------
(***************************************************************************)
(* The parts of the web console that keep a state of their own, each with  *)
(* the storage or the server behind it, except the container pages, which  *)
(* are checked on their own. One of them, the scene, runs in each          *)
(* behaviour; the others stay in their initial state.                      *)
(***************************************************************************)
EXTENDS Session, Sequences

CONSTANTS
  None, Ids, Sections, Absent,
  N, Matching, PageSize, Deletes, MaxViews, MaxOutside,
  Calls, MaxForms,
  Latencies, MaxRows, MaxEffects,
  MaxLines, Past, MaxStreams,
  MaxToasts, TOAST_LIMIT,
  Searches, PageSizes

VARIABLES
  scene,
  key, stored, phase, value, systemDark, rootClass, openSections, chosen, passed, overwritten,
  daemon, outside, mounted, view, images, loading, search, page, selected,
  deletePc, owner, todo, called, job, fetch, answer, older, outdated, excused, orphaned, touched,
  version, listMounted, listView, configs, listLoading, listError, message, timers,
  modal, form, formLoading, isInitialLoad, formError, gets, stage, kind, callOwner,
  listFetch, listAnswer, seen, overtaken,
  rows, historyId, historyEffect, historyMountedAt, historyIdOf, request, rowsAnswer,
  historyData, historyLoading, historyError,
  writers, written, logId, stream, logMountedAt, logIdOf, source, handler, read, wire, logs,
  body,
  count, toasts, open, toastTimeouts, toasterPhase, toasterView, missed,
  tableSearch, currentPage, itemsPerPage, tableSelected

Preferences == INSTANCE Preferences
Images == INSTANCE ImageList WITH pc <- deletePc
Endpoints == INSTANCE EndpointList WITH
  mounted <- listMounted, view <- listView, loading <- listLoading, error <- listError,
  owner <- callOwner, fetch <- listFetch, answer <- listAnswer
History == INSTANCE EndpointHistory WITH
  id <- historyId, effect <- historyEffect, mountedAt <- historyMountedAt,
  idOf <- historyIdOf, answer <- rowsAnswer, loading <- historyLoading, error <- historyError
Log == INSTANCE LogStream WITH
  running <- writers, id <- logId, mountedAt <- logMountedAt, idOf <- logIdOf
Toasts == INSTANCE Toasts WITH phase <- toasterPhase, view <- toasterView
Table == INSTANCE ContainersTable WITH search <- tableSearch, selected <- tableSelected

preferencesVars ==
  <<key, stored, phase, value, systemDark, rootClass, openSections, chosen, passed, overwritten>>
imagesVars ==
  <<daemon, outside, mounted, view, images, loading, search, page, selected, deletePc, owner,
    todo, called, job, fetch, answer, older, outdated, excused, orphaned, touched>>
endpointsVars ==
  <<version, listMounted, listView, configs, listLoading, listError, message, timers,
    modal, form, formLoading, isInitialLoad, formError, gets, stage, kind, callOwner,
    listFetch, listAnswer, seen, overtaken>>
historyVars ==
  <<rows, historyId, historyEffect, historyMountedAt, historyIdOf, request, rowsAnswer,
    historyData, historyLoading, historyError>>
logVars ==
  <<writers, written, logId, stream, logMountedAt, logIdOf, source, handler, read, wire, logs,
    body>>
toastsVars == <<count, toasts, open, toastTimeouts, toasterPhase, toasterView, missed>>
tableVars == <<tableSearch, currentPage, itemsPerPage, tableSelected>>
partVars ==
  <<preferencesVars, imagesVars, endpointsVars, historyVars, logVars, toastsVars, tableVars>>

ASSUME MCAssumption ==
  /\ Images!ParametersOk /\ Endpoints!ParametersOk /\ History!ParametersOk
  /\ Log!ParametersOk /\ Toasts!ParametersOk /\ Table!ParametersOk

Scenes ==
  {"session", "preferences", "images", "endpoints", "history", "log", "toasts", "table"}

\* What may differ from the start differs only in the scene it belongs to.
Quiet ==
  /\ scene # "preferences" => key = "theme" /\ systemDark = FALSE
  /\ scene # "images" => daemon = {}
  /\ scene # "table" => itemsPerPage = 1

MCInit ==
  /\ scene \in Scenes
  /\ Init /\ Preferences!Init /\ Images!Init /\ Endpoints!Init
  /\ History!Init /\ Log!Init /\ Toasts!Init /\ Table!Init
  /\ Quiet

\* Bounds on what the user does: two deletions, or two calls of the endpoint page,
\* only if that page is not opened again; and of the containers and of the
\* configurations, which are alike, the same one is visited first; of the containers
\* that one alone may stop, and they write two lines between them.
First == CHOOSE i \in Ids : TRUE
Bounds ==
  /\ view = 2 => \E d \in Deletes : deletePc[d] = "idle"
  /\ listView = 2 => \E c \in Calls : stage[c] = "idle"
  /\ \A i \in Ids \ {First} : i \in writers /\ written[First] + written[i] <= 2
  /\ {logIdOf[1], historyIdOf[1]} \subseteq {First, None}

MCNext ==
  /\ UNCHANGED scene
  /\ IF scene = "session" THEN Next ELSE UNCHANGED vars
  /\ IF scene = "preferences" THEN Preferences!Next ELSE UNCHANGED preferencesVars
  /\ IF scene = "images" THEN Images!Next ELSE UNCHANGED imagesVars
  /\ IF scene = "endpoints" THEN Endpoints!Next ELSE UNCHANGED endpointsVars
  /\ IF scene = "history" THEN History!Next ELSE UNCHANGED historyVars
  /\ IF scene = "log" THEN Log!Next ELSE UNCHANGED logVars
  /\ IF scene = "toasts" THEN Toasts!Next ELSE UNCHANGED toastsVars
  /\ IF scene = "table" THEN Table!Next ELSE UNCHANGED tableVars
  /\ Bounds'

\* The fairness of each part; only the Toaster has a fair action at its start.
MCFairness ==
  /\ WF_endpointsVars(Endpoints!TimerFires)
  /\ Log!HandlerFairness
  /\ WF_toastsVars(scene = "toasts" /\ Toasts!Render)
  /\ WF_toastsVars(Toasts!Subscribe)
  /\ \A t \in 1..MaxToasts : WF_toastsVars(Toasts!Remove(t)) /\ WF_toastsVars(Toasts!AutoClose(t))

MCSpec == MCInit /\ [][MCNext]_<<scene, vars, partVars>> /\ MCFairness
-----------------------------------------------------------------------------
\* Every variable of every part keeps its type.
TypesOK ==
  /\ scene \in Scenes
  /\ TypeOK /\ Preferences!TypeOK /\ Images!TypeOK /\ Endpoints!TypeOK
  /\ History!TypeOK /\ Log!TypeOK /\ Toasts!TypeOK /\ Table!TypeOK

\* What the user chose for the theme, the font size or the sidebar survives in the
\* storage, and the page shows it once its effects have run (ThemProvider,
\* FontSizeContext, SidebarContext).
PreferencesKept == Preferences!PreferencesKept

\* The list of images at rest is the list of the daemon, except for the named ways
\* in which the page lets go of it (ContainerImage.tsx 31-61).
ImagesCurrentAtRest == Images!ImagesCurrentAtRest

\* A page of the images runs off the end of the list only when a new listing comes
\* in, a page of the table only when the text searched for changes
\* (ContainerImage.tsx 82-86 and 127-142, TableContainer.tsx 63-74 and 200-233).
PageRunsOffExplained == Images!PageRunsOffOnlyByListing /\ Table!LostOnlyBySearch

\* The list of endpoints at rest is current unless the user was told otherwise
\* (endpoint-list.tsx 60-122).
NoSilentStaleness == Endpoints!NoSilentStaleness

\* The chart tells the probes of the server in their order, those within one
\* millisecond turned round; the log shows pieces of lines that were written in
\* theirs; and the Toaster shows the toasts of the store (EndpointHistory.tsx 69-158
\* and 231-253, ContainerDetail.tsx 45-72, container.handler.go 88-93, toaster.tsx).
PagesShowTheirOwn ==
  History!HistoryIsTrue /\ Log!LogsInOrder /\ Toasts!ToasterFollows

\* What is there for a while ends: the message of the endpoint page, a toast that
\* was dismissed, and the goroutine that follows a container that has stopped.
TransientsGo == Endpoints!MessageGoes /\ Toasts!ToastsGo /\ Log!HandlersEnd
=============================================================================
