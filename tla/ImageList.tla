------------------------------ MODULE ImageList ------------------------------
(***************************************************************************)
(* The image page of the console and the image part of the Docker API: the *)
(* filter, the pages, the selection that spans them, deletions that run    *)
(* one call after the other and side by side with others, requests that    *)
(* axios gives up while the server goes on, and a daemon others use too.   *)
(***************************************************************************)
EXTENDS Integers, FiniteSets

CONSTANTS
  N,           \* number of image ids
  Matching,    \* ids whose first tag contains the text searched for
  PageSize,    \* 20 in the code
  Deletes,     \* clicks on "Delete", one each
  MaxViews,    \* bound on how often the page is opened
  MaxOutside,  \* bound on images that others pull or remove
  None         \* no image

Images == 1..N   \* in the order in which the daemon lists them
Views == 1..MaxViews

\* What the constants have to be.
ParametersOk ==
  /\ N \in Nat /\ PageSize \in Nat \ {0} /\ MaxViews \in Nat /\ MaxOutside \in Nat
  /\ Matching \subseteq Images /\ None \notin Images
  /\ Deletes \cap Views = {} /\ 0 \notin Deletes

Fetchers == Deletes \cup Views

VARIABLES
  daemon,      \* the images that exist
  outside,
  mounted, view,
  images,      \* the list
  loading,
  search,      \* a text is searched for
  page,
  selected,
  pc,          \* where handleDelete is: "idle", "call", "over"
  owner,       \* the view of the click
  todo,        \* captured ids it has not called yet
  called,      \* captured ids it has called
  job,         \* the removal that the server carries out for a click
  fetch, answer,
  older,       \* history: listings on their way when a listing was taken
  outdated,    \* history: listings on their way that are older than the list
  excused,     \* history: a listing failed or was overtaken, or the page was
               \* opened again while a deletion ran
  orphaned,    \* history: images of deletions that were given up
  touched      \* history: images that others changed

pageVars == <<mounted, view, images, loading, search, page, selected>>
deleteVars == <<pc, owner, todo, called, job>>
fetchVars == <<fetch, answer, older, outdated>>
worldVars == <<daemon, outside, touched>>
vars == <<pageVars, deleteVars, fetchVars, worldVars, excused, orphaned>>

Init ==
  /\ daemon \in SUBSET Images /\ outside = 0 /\ touched = {}
  /\ mounted = FALSE /\ view = 0
  /\ images = {} /\ loading = FALSE /\ search = FALSE /\ page = 1 /\ selected = {}
  /\ pc = [d \in Deletes |-> "idle"] /\ owner = [d \in Deletes |-> 0]
  /\ todo = [d \in Deletes |-> {}] /\ called = [d \in Deletes |-> {}]
  /\ job = [d \in Deletes |-> None]
  /\ fetch = [f \in Fetchers |-> "idle"] /\ answer = [f \in Fetchers |-> {}]
  /\ older = [f \in Fetchers |-> {}] /\ outdated = {}
  /\ excused = FALSE /\ orphaned = {}
-----------------------------------------------------------------------------
(* What the page shows *)

FilteredImages == IF search THEN images \cap Matching ELSE images
TotalPages == (Cardinality(FilteredImages) + PageSize - 1) \div PageSize
Rank(i) == Cardinality({x \in FilteredImages : x < i})
PaginatedImages ==
  {i \in FilteredImages : (page - 1) * PageSize <= Rank(i) /\ Rank(i) < page * PageSize}

\* The table stands behind "Loading images..."; its rows have checkboxes, and the
\* buttons that only log do nothing.
RowsShown == IF mounted /\ ~loading THEN PaginatedImages ELSE {}
NoneFoundShown == mounted /\ ~loading /\ PaginatedImages = {}

\* The pager is shown for more than one page, also while loading.
PagerShown == mounted /\ TotalPages > 1

\* The toolbar: "Delete" is not disabled while a deletion or a listing runs.
DeleteEnabled == mounted /\ selected # {}

\* Setters of an unmounted component do nothing.
Live(f) == mounted /\ view = IF f \in Deletes THEN owner[f] ELSE f
InFlight(f) == fetch[f] \in {"sent", "listed"}

-----------------------------------------------------------------------------
(* The user *)

Open ==
  /\ ~mounted /\ view < MaxViews
  /\ mounted' = TRUE /\ view' = view + 1 /\ loading' = TRUE
  /\ fetch' = [fetch EXCEPT ![view + 1] = "sent"]
  /\ excused' = \E d \in Deletes : pc[d] = "call" \/ job[d] # None
  /\ UNCHANGED <<images, search, page, selected, answer, older, outdated>>
  /\ UNCHANGED <<deleteVars, worldVars, orphaned>>

Leave ==
  /\ mounted
  /\ mounted' = FALSE /\ images' = {} /\ loading' = FALSE
  /\ search' = FALSE /\ page' = 1 /\ selected' = {}
  /\ UNCHANGED <<view, deleteVars, fetchVars, worldVars, excused, orphaned>>

\* Mutant: the page stays where it is.
SearchFromHere ==
  /\ mounted
  /\ search' = ~search
  /\ UNCHANGED <<mounted, view, images, loading, page, selected>>
  /\ UNCHANGED <<deleteVars, fetchVars, worldVars, excused, orphaned>>

\* The text is typed or cleared.
Search ==
  /\ mounted
  /\ search' = ~search /\ page' = 1
  /\ UNCHANGED <<mounted, view, images, loading, selected>>
  /\ UNCHANGED <<deleteVars, fetchVars, worldVars, excused, orphaned>>

\* Each button is disabled on one page only: the first, and the last. From a page
\* behind the last one the user can go on; N + 1 bounds that.
Turn(step) ==
  /\ PagerShown
  /\ step = -1 => page # 1
  /\ step = 1 => page # TotalPages
  /\ page + step \in 1..(N + 1)
  /\ page' = page + step
  /\ UNCHANGED <<mounted, view, images, loading, search, selected>>
  /\ UNCHANGED <<deleteVars, fetchVars, worldVars, excused, orphaned>>

ToggleSelect(i) ==
  /\ i \in RowsShown
  /\ selected' = IF i \in selected THEN selected \ {i} ELSE selected \cup {i}
  /\ UNCHANGED <<mounted, view, images, loading, search, page>>
  /\ UNCHANGED <<deleteVars, fetchVars, worldVars, excused, orphaned>>

\* The box in the head of the table stands for the rows of this page.
ToggleSelectAll ==
  /\ mounted /\ ~loading
  /\ selected' = IF PaginatedImages \subseteq selected THEN selected \ PaginatedImages
                 ELSE selected \cup PaginatedImages
  /\ UNCHANGED <<mounted, view, images, loading, search, page>>
  /\ UNCHANGED <<deleteVars, fetchVars, worldVars, excused, orphaned>>
-----------------------------------------------------------------------------
(* handleDelete *)

\* Mutant: the list is not fetched again.
ContinueNoFetch(d, ids, done) ==
  /\ called' = [called EXCEPT ![d] = done]
  /\ \/ /\ ids # {}
        /\ pc' = [pc EXCEPT ![d] = "call"]
        /\ \E i \in ids : /\ todo' = [todo EXCEPT ![d] = ids \ {i}]
                         /\ job' = [job EXCEPT ![d] = i]
        /\ UNCHANGED <<fetch, loading, selected>>
     \/ /\ ids = {}
        /\ pc' = [pc EXCEPT ![d] = "over"]
        /\ todo' = [todo EXCEPT ![d] = {}]
        /\ job' = [job EXCEPT ![d] = None]
        /\ selected' = IF mounted /\ view = owner'[d] THEN {} ELSE selected
        /\ UNCHANGED <<fetch, loading>>

\* The next call, or after the last one the listing, which is not awaited, and
\* the end of the selection.
Continue(d, ids, done) ==
  /\ called' = [called EXCEPT ![d] = done]
  /\ \/ /\ ids # {}
        /\ pc' = [pc EXCEPT ![d] = "call"]
        /\ \E i \in ids : /\ todo' = [todo EXCEPT ![d] = ids \ {i}]
                         /\ job' = [job EXCEPT ![d] = i]
        /\ UNCHANGED <<fetch, loading, selected>>
     \/ /\ ids = {}
        /\ pc' = [pc EXCEPT ![d] = "over"]
        /\ todo' = [todo EXCEPT ![d] = {}]
        /\ job' = [job EXCEPT ![d] = None]
        /\ fetch' = [fetch EXCEPT ![d] = "sent"]
        /\ loading' = (loading \/ (mounted /\ view = owner'[d]))
        /\ selected' = IF mounted /\ view = owner'[d] THEN {} ELSE selected

\* A confirmed click, for the selection of this moment, on whatever pages it is.
HandleDelete(d) ==
  /\ DeleteEnabled /\ pc[d] = "idle"
  /\ owner' = [owner EXCEPT ![d] = view]
  /\ Continue(d, selected, {})
  /\ UNCHANGED <<mounted, view, images, search, page>>
  /\ UNCHANGED <<answer, older, outdated, worldVars, excused, orphaned>>

\* catch: logged only. The list is not fetched and the selection stays.
GiveUp(d) ==
  /\ pc' = [pc EXCEPT ![d] = "over"]
  /\ todo' = [todo EXCEPT ![d] = {}]
  /\ called' = [called EXCEPT ![d] = {}]
  /\ orphaned' = orphaned \cup called[d] \cup {job[d]}

\* The call is rejected while the server goes on.
Rejected(d) ==
  /\ pc[d] = "call"
  /\ GiveUp(d)
  /\ UNCHANGED <<owner, job, pageVars, fetchVars, worldVars, excused>>

\* RemoveImage with Force has ended; its context does not end with the request.
Removed(d) ==
  /\ job[d] \in daemon
  /\ daemon' = daemon \ {job[d]}
  /\ IF pc[d] = "call"
     THEN UNCHANGED owner /\ Continue(d, todo[d], called[d] \cup {job[d]})
     ELSE /\ job' = [job EXCEPT ![d] = None]
          /\ UNCHANGED <<pc, owner, todo, called, fetch, loading, selected>>
  /\ UNCHANGED <<mounted, view, images, search, page>>
  /\ UNCHANGED <<answer, older, outdated, outside, touched, excused, orphaned>>

\* The daemon refuses, or the image is gone already: 500.
RemoveFails(d) ==
  /\ job[d] # None
  /\ job' = [job EXCEPT ![d] = None]
  /\ IF pc[d] = "call" THEN GiveUp(d) ELSE UNCHANGED <<pc, todo, called, orphaned>>
  /\ UNCHANGED <<owner, pageVars, fetchVars, worldVars, excused>>
-----------------------------------------------------------------------------
(* fetchImages *)

\* ListImages
TakeListing(f) ==
  /\ fetch[f] = "sent"
  /\ fetch' = [fetch EXCEPT ![f] = "listed"]
  /\ answer' = [answer EXCEPT ![f] = daemon]
  /\ older' = [older EXCEPT ![f] = {g \in Fetchers : fetch[g] = "listed"}]
  /\ UNCHANGED <<outdated, pageVars, deleteVars, worldVars, excused, orphaned>>

Finished(f) ==
  /\ fetch' = [fetch EXCEPT ![f] = "over"]
  /\ answer' = [answer EXCEPT ![f] = {}]
  /\ older' = [g \in Fetchers |-> IF g = f THEN {} ELSE older[g] \ {f}]
  /\ UNCHANGED <<mounted, view, search, page, selected>>
  /\ UNCHANGED <<deleteVars, worldVars, orphaned>>

\* The page number stays, however short the new list is.
FetchOk(f) ==
  /\ fetch[f] = "listed"
  /\ Finished(f)
  /\ IF Live(f)
     THEN /\ images' = answer[f] /\ loading' = FALSE
          /\ outdated' = (outdated \cup older[f]) \ {f}
          /\ excused' = (excused \/ f \in outdated)
     ELSE /\ outdated' = outdated \ {f}
          /\ UNCHANGED <<images, loading, excused>>

FetchFails(f) ==
  /\ InFlight(f)
  /\ Finished(f)
  /\ loading' = (loading /\ ~Live(f))
  /\ excused' = TRUE
  /\ outdated' = outdated \ {f}
  /\ UNCHANGED images

\* Others pull or remove an image, also through the same API.
Change(i) ==
  /\ outside < MaxOutside
  /\ outside' = outside + 1
  /\ daemon' = IF i \in daemon THEN daemon \ {i} ELSE daemon \cup {i}
  /\ touched' = touched \cup {i}
  /\ UNCHANGED <<pageVars, deleteVars, fetchVars, excused, orphaned>>

Next ==
  \/ Open \/ Leave \/ Search \/ ToggleSelectAll
  \/ \E step \in {-1, 1} : Turn(step)
  \/ \E i \in Images : ToggleSelect(i) \/ Change(i)
  \/ \E d \in Deletes : HandleDelete(d) \/ Rejected(d) \/ Removed(d) \/ RemoveFails(d)
  \/ \E f \in Fetchers : TakeListing(f) \/ FetchOk(f) \/ FetchFails(f)

Spec == Init /\ [][Next]_vars
-----------------------------------------------------------------------------
\* Every variable keeps its type.
TypeOK ==
  /\ daemon \subseteq Images /\ outside \in 0..MaxOutside /\ touched \subseteq Images
  /\ mounted \in BOOLEAN /\ view \in 0..MaxViews /\ images \subseteq Images
  /\ {loading, search, excused} \subseteq BOOLEAN
  /\ page \in 1..(N + 1) /\ selected \subseteq Images
  /\ pc \in [Deletes -> {"idle", "call", "over"}] /\ owner \in [Deletes -> 0..MaxViews]
  /\ todo \in [Deletes -> SUBSET Images] /\ called \in [Deletes -> SUBSET Images]
  /\ job \in [Deletes -> Images \cup {None}]
  /\ fetch \in [Fetchers -> {"idle", "sent", "listed", "over"}]
  /\ answer \in [Fetchers -> SUBSET Images]
  /\ older \in [Fetchers -> SUBSET Fetchers] /\ outdated \subseteq Fetchers
  /\ orphaned \subseteq Images

AtRest ==
  /\ \A d \in Deletes : pc[d] # "call"
  /\ \A f \in Fetchers : ~InFlight(f)

\* However deletions and listings overlap, the list agrees with the daemon when
\* all is over, except for the images of a deletion that was given up (nothing
\* fetches the list then) and those that others changed, as long as no listing
\* failed or was overtaken by an older one.
ImagesCurrentAtRest ==
  mounted /\ AtRest /\ ~excused =>
    (images \ daemon) \cup (daemon \ images) \subseteq orphaned \cup touched

Last == IF TotalPages = 0 THEN 1 ELSE TotalPages

\* Whatever the user types, turns and selects, only a new listing makes the page
\* run off the end of the list.
PageRunsOffOnlyByListing ==
  [][page <= Last => page' <= Last' \/ images' # images]_vars

\* ContainerImage.tsx 253, "No images found.": shown when no image matches.
NoneFoundIsTrue == NoneFoundShown => FilteredImages = {}
=============================================================================
