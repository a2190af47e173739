------------------------ MODULE ContainerListProofs ------------------------
(***************************************************************************)
(* The types of the container page, that its spinner is honest, that what  *)
(* is selected is in the list, and that the list at rest is current, for   *)
(* any number of containers, bulks, views and changes from outside.        *)
(***************************************************************************)
EXTENDS ContainerList, TLAPS

\* What the daemon lists is a list.
LEMMA ListingIsList ==
  ASSUME docker \in [Containers -> {"running", "exited", "gone"}]
  PROVE  Listing \in Lists
<1> DEFINE S == {d \in Containers : docker[d] # "gone"}
<1>1. Listing \in [S -> {"running", "exited"}]
  BY DEF Listing
<1>2. S \in SUBSET Containers
  OBVIOUS
<1> QED BY <1>1, <1>2 DEF Lists

LEMMA ListDomain ==
  ASSUME NEW l \in Lists
  PROVE  DOMAIN l \subseteq Containers
BY DEF Lists

LEMMA EmptyIsList == Empty \in Lists
<1>1. Empty \in [{} -> {"running", "exited"}]
  BY DEF Empty
<1> QED BY <1>1 DEF Lists

\* The types that the loop of handleBulk touches.
LoopTypes ==
  /\ loading \in BOOLEAN
  /\ fetch \in [Fetchers -> {"idle", "sent", "listed", "over"}]
  /\ pc \in [Bulks -> {"idle", "call", "list", "done"}]
  /\ calls \in [Bulks -> {"docker", "gateway"}]
  /\ todo \in [Bulks -> SUBSET Containers]
  /\ job \in [Bulks -> Containers \cup {None}]

LEMMA ContinueTypes ==
  ASSUME TypeOK, NEW b \in Bulks, NEW v, NEW ids \in SUBSET Containers,
         NEW api \in {"docker", "gateway"}, Continue(b, v, ids, api)
  PROVE  LoopTypes'
<1>1. b \in Fetchers
  BY DEF Fetchers
<1>2. CASE ids # {}
  BY <1>2 DEF Continue, LoopTypes, TypeOK
<1>3. CASE ids = {}
  BY <1>1, <1>3 DEF Continue, LoopTypes, TypeOK
<1> QED BY <1>2, <1>3

LEMMA BulkFailsTypes ==
  ASSUME TypeOK, NEW b \in Bulks, BulkFails(b)
  PROVE  /\ pc' \in [Bulks -> {"idle", "call", "list", "done"}]
         /\ calls' \in [Bulks -> {"docker", "gateway"}]
         /\ owner' \in [Bulks -> 0..MaxViews]
         /\ todo' \in [Bulks -> SUBSET Containers]
         /\ excused' \in BOOLEAN
BY BoundAssumption DEF BulkFails, TypeOK

LEMMA FinishedTypes ==
  ASSUME TypeOK, NEW f \in Fetchers, Finished(f)
  PROVE  /\ fetch' \in [Fetchers -> {"idle", "sent", "listed", "over"}]
         /\ answer' \in [Fetchers -> Lists]
         /\ older' \in [Fetchers -> SUBSET Fetchers]
         /\ pc' \in [Bulks -> {"idle", "call", "list", "done"}]
         /\ calls' \in [Bulks -> {"docker", "gateway"}]
         /\ owner' \in [Bulks -> 0..MaxViews]
         /\ selected' \subseteq Containers
<1>1. answer' \in [Fetchers -> Lists]
  BY EmptyIsList DEF Finished, TypeOK
<1>2. older' \in [Fetchers -> SUBSET Fetchers]
  BY DEF Finished, TypeOK
<1>3. owner' \in [Bulks -> 0..MaxViews]
  BY BoundAssumption DEF Finished, TypeOK
<1> QED BY <1>1, <1>2, <1>3 DEF Finished, TypeOK

LEMMA TypeStep ==
  ASSUME TypeOK, [Next]_vars
  PROVE  TypeOK'
<1> USE BoundAssumption, BulksAssumption DEF pageVars, bulkVars, fetchVars, worldVars
<1>1. CASE Open
  <2>1. view + 1 \in Fetchers /\ view + 1 \in 0..MaxViews
    BY <1>1 DEF Open, TypeOK, Fetchers, Views
  <2> QED BY <1>1, <2>1, EmptyIsList DEF Open, TypeOK
<1>2. CASE Leave
  BY <1>2, EmptyIsList DEF Leave, TypeOK
<1>3. CASE ToggleSelectAll
  BY <1>3, ListDomain DEF ToggleSelectAll, TableShown, TypeOK
<1>4. ASSUME NEW c \in Containers, ToggleSelect(c) PROVE TypeOK'
  BY <1>4 DEF ToggleSelect, Rows, TableShown, TypeOK
<1>5. ASSUME NEW a \in Actions, Click(a) PROVE TypeOK'
  <2> DEFINE b == CHOOSE x \in Bulks : pc[x] = "idle"
             ids == IF a = "none" THEN {} ELSE selected
             api == IF a = "stop" THEN "docker" ELSE "gateway"
  <2>1. b \in Bulks
    BY <1>5 DEF Click
  <2>2. ids \in SUBSET Containers /\ api \in {"docker", "gateway"}
    BY DEF TypeOK
  <2>3. Continue(b, view, ids, api) /\ owner' = [owner EXCEPT ![b] = view]
    BY <1>5 DEF Click
  <2> HIDE DEF b, ids, api
  <2>4. LoopTypes'
    BY <2>1, <2>2, <2>3, ContinueTypes
  <2>5. owner' \in [Bulks -> 0..MaxViews]
    BY <2>3 DEF TypeOK
  <2> QED BY <1>5, <2>4, <2>5 DEF Click, LoopTypes, TypeOK
<1>6. ASSUME NEW b \in Bulks, AnsweredElsewhere(b) PROVE TypeOK'
  <2>1. LoopTypes'
    BY <1>6, ContinueTypes DEF AnsweredElsewhere, TypeOK
  <2> QED BY <1>6, <2>1 DEF AnsweredElsewhere, LoopTypes, TypeOK
<1>7. ASSUME NEW b \in Bulks, CallRejected(b) PROVE TypeOK'
  BY <1>7, BulkFailsTypes DEF CallRejected, TypeOK
<1>8. ASSUME NEW b \in Bulks, StopEnds(b) PROVE TypeOK'
  <2>1. docker' \in [Containers -> {"running", "exited", "gone"}]
    BY <1>8 DEF StopEnds, TypeOK
  <2>2. LoopTypes'
    <3>1. CASE pc[b] = "call"
      BY <1>8, <3>1, ContinueTypes DEF StopEnds, TypeOK
    <3>2. CASE pc[b] # "call"
      BY <1>8, <3>2 DEF StopEnds, LoopTypes, TypeOK
    <3> QED BY <3>1, <3>2
  <2> QED BY <1>8, <2>1, <2>2 DEF StopEnds, LoopTypes, TypeOK
<1>9. ASSUME NEW b \in Bulks, StopFails(b) PROVE TypeOK'
  BY <1>9, BulkFailsTypes DEF StopFails, TypeOK
<1>10. ASSUME NEW f \in Fetchers, TakeListing(f) PROVE TypeOK'
  BY <1>10, ListingIsList DEF TakeListing, TypeOK
<1>11. ASSUME NEW f \in Fetchers, FetchOk(f) PROVE TypeOK'
  <2>1. containers' \in Lists /\ loading' \in BOOLEAN
    <3>1. answer[f] \in Lists
      BY DEF TypeOK
    <3>2. containers \in Lists /\ loading \in BOOLEAN
      BY DEF TypeOK
    <3> QED BY <1>11, <3>1, <3>2 DEF FetchOk
  <2>2. outdated' \subseteq Fetchers /\ excused' \in BOOLEAN
    <3>1. older[f] \subseteq Fetchers
      BY DEF TypeOK
    <3> QED BY <1>11, <3>1 DEF FetchOk, TypeOK
  <2>3. Finished(f)
    BY <1>11 DEF FetchOk
  <2> QED BY <2>1, <2>2, <2>3, FinishedTypes DEF Finished, TypeOK
<1>12. ASSUME NEW f \in Fetchers, FetchFails(f) PROVE TypeOK'
  BY <1>12, FinishedTypes DEF FetchFails, Finished, TypeOK
<1>13. ASSUME NEW c \in Containers, NEW s \in {"running", "exited", "gone"}, Change(c, s)
       PROVE  TypeOK'
  BY <1>13 DEF Change, TypeOK
<1>14. CASE UNCHANGED vars
  BY <1>14 DEF vars, TypeOK
<1> QED BY <1>1, <1>2, <1>3, <1>4, <1>5, <1>6, <1>7, <1>8, <1>9, <1>10, <1>11, <1>12,
           <1>13, <1>14 DEF Next, BulkStep, FetchStep

LEMMA TypeInit == Init => TypeOK
<1> SUFFICES ASSUME Init PROVE TypeOK
  OBVIOUS
<1>1. docker \in [Containers -> {"running", "exited", "gone"}]
  BY DEF Init
<1>2. answer \in [Fetchers -> Lists] /\ containers \in Lists
  BY EmptyIsList DEF Init
<1>3. older \in [Fetchers -> SUBSET Fetchers] /\ outdated \subseteq Fetchers
  BY DEF Init
<1>4. fetch \in [Fetchers -> {"idle", "sent", "listed", "over"}]
  BY DEF Init
<1>5. /\ pc \in [Bulks -> {"idle", "call", "list", "done"}]
      /\ calls \in [Bulks -> {"docker", "gateway"}]
      /\ todo \in [Bulks -> SUBSET Containers]
      /\ job \in [Bulks -> Containers \cup {None}]
  BY DEF Init
<1>6. owner \in [Bulks -> 0..MaxViews] /\ view \in 0..MaxViews /\ outside \in 0..MaxOutside
  BY BoundAssumption DEF Init
<1>7. /\ touched \subseteq Containers /\ selected \subseteq Containers
      /\ mounted \in BOOLEAN /\ loading \in BOOLEAN /\ excused \in BOOLEAN
  BY DEF Init
<1> QED BY <1>1, <1>2, <1>3, <1>4, <1>5, <1>6, <1>7 DEF TypeOK

\* Every variable of the container page keeps its type: what the list shows, at
\* any time, is the state of containers that existed (ContainerList.tsx 46-56).
THEOREM TypeCorrect == Spec => []TypeOK
BY TypeInit, TypeStep, PTL DEF Spec
-----------------------------------------------------------------------------
\* A listing that a bulk has asked for is what the bulk is waiting for.
BulkAwaits == \A b \in Bulks : InFlight(b) => pc[b] = "list"

SInv == TypeOK /\ BulkAwaits /\ SpinnerHonest

\* The next step of a loop keeps the spinner honest.
LEMMA ContinueSpins ==
  ASSUME SInv, NEW b \in Bulks, pc[b] # "list", NEW v, NEW ids, NEW api,
         Continue(b, v, ids, api), owner'[b] = v,
         owner' = owner \/ owner' = [owner EXCEPT ![b] = v],
         UNCHANGED <<mounted, view>>
  PROVE  BulkAwaits' /\ SpinnerHonest'
<1> USE BulksAssumption DEF SInv
<1>1. b \in Fetchers /\ ~InFlight(b)
  BY DEF Fetchers, BulkAwaits
<1>2. \/ fetch' = fetch /\ (loading' => loading)
      \/ /\ fetch' = [fetch EXCEPT ![b] = "sent"] /\ pc'[b] = "list"
         /\ loading' => loading \/ (mounted /\ view = v)
  <2>1. CASE ids # {}
    BY <2>1 DEF Continue
  <2>2. CASE ids = {}
    BY <2>2 DEF Continue, TypeOK
  <2> QED BY <2>1, <2>2
<1>3. \A x \in Bulks : x # b => pc'[x] = pc[x]
  BY DEF Continue, TypeOK
<1>4. BulkAwaits'
  BY <1>1, <1>2, <1>3 DEF BulkAwaits, InFlight, TypeOK, Fetchers
<1>5. ASSUME NEW f \in Fetchers, InFlight(f), Live(f)
      PROVE  InFlight(f)' /\ Live(f)'
  <2>1. f # b
    BY <1>1, <1>5
  <2>2. InFlight(f)'
    BY <1>2, <1>5, <2>1 DEF InFlight, TypeOK
  <2>3. Live(f)'
    BY <1>5, <2>1 DEF Live, TypeOK
  <2> QED BY <2>2, <2>3
<1>6. CASE loading' => loading
  BY <1>4, <1>5, <1>6 DEF SpinnerHonest
<1>7. CASE loading' /\ ~loading
  <2>1. fetch' = [fetch EXCEPT ![b] = "sent"] /\ mounted /\ view = v
    BY <1>2, <1>7
  <2>2. InFlight(b)' /\ Live(b)'
    BY <1>1, <2>1 DEF InFlight, Live, TypeOK
  <2> QED BY <1>1, <1>4, <2>2 DEF SpinnerHonest
<1> QED BY <1>6, <1>7

\* Where no listing starts or ends and no bulk loses its view, nothing changes.
LEMMA FetchesStay ==
  ASSUME SInv, UNCHANGED <<fetch, pc, owner, mounted, view, loading>>
  PROVE  BulkAwaits' /\ SpinnerHonest'
BY DEF SInv, BulkAwaits, SpinnerHonest, InFlight, Live

\* A bulk that fails during a call was not waiting for a listing.
LEMMA FailureSpins ==
  ASSUME SInv, NEW b \in Bulks, pc[b] = "call", BulkFails(b),
         UNCHANGED <<fetch, mounted, view, loading>>
  PROVE  BulkAwaits' /\ SpinnerHonest'
<1> USE BulksAssumption DEF SInv
<1>1. BulkAwaits'
  BY DEF BulkAwaits, BulkFails, InFlight, TypeOK
<1>2. ASSUME NEW f \in Fetchers, InFlight(f), Live(f)
      PROVE  InFlight(f)' /\ Live(f)'
  <2>1. f # b
    BY <1>2 DEF BulkAwaits
  <2> QED BY <1>2, <2>1 DEF BulkFails, InFlight, Live, TypeOK
<1> QED BY <1>1, <1>2 DEF SpinnerHonest

\* A listing that is over hides nothing any more, and the others go on.
LEMMA OverSpins ==
  ASSUME SInv, NEW f \in Fetchers, InFlight(f), Finished(f),
         loading' => loading /\ ~Live(f)
  PROVE  BulkAwaits' /\ SpinnerHonest'
<1> USE BulksAssumption DEF SInv
<1>1. BulkAwaits'
  <2> SUFFICES ASSUME NEW b \in Bulks, InFlight(b)' PROVE pc'[b] = "list"
    BY DEF BulkAwaits
  <2>1. b # f /\ InFlight(b)
    BY DEF Finished, InFlight, TypeOK, Fetchers
  <2>2. pc'[b] = pc[b]
    BY <2>1 DEF Finished, TypeOK
  <2> QED BY <2>1, <2>2 DEF BulkAwaits
<1>2. ASSUME NEW g \in Fetchers, InFlight(g), Live(g), g # f
      PROVE  InFlight(g)' /\ Live(g)'
  BY <1>2 DEF Finished, InFlight, Live, TypeOK
<1> QED BY <1>1, <1>2 DEF SpinnerHonest

LEMMA SpinnerStep ==
  ASSUME SInv, [Next]_vars
  PROVE  SInv'
<1> TypeOK'
  BY TypeStep DEF SInv
<1> SUFFICES BulkAwaits' /\ SpinnerHonest'
  BY DEF SInv
<1> USE BulksAssumption DEF pageVars, bulkVars, fetchVars, worldVars
<1>1. CASE Open
  <2> USE <1>1 DEF SInv
  <2>1. PICK n \in Views : n = view + 1 /\ n \in Fetchers /\ n \notin Bulks
    BY BoundAssumption DEF Open, TypeOK, Fetchers, Views
  <2>2. BulkAwaits'
    BY <2>1 DEF Open, BulkAwaits, InFlight, TypeOK, Fetchers
  <2>3. InFlight(n)' /\ Live(n)'
    BY <2>1 DEF Open, InFlight, Live, TypeOK
  <2> QED BY <2>1, <2>2, <2>3 DEF SpinnerHonest
<1>2. CASE Leave
  BY <1>2 DEF Leave, SInv, BulkAwaits, SpinnerHonest, InFlight
<1>3. ASSUME \/ ToggleSelectAll \/ \E c \in Containers : ToggleSelect(c)
             \/ \E f \in Fetchers : TakeListing(f)
      PROVE  BulkAwaits' /\ SpinnerHonest'
  <2>1. ASSUME NEW f \in Fetchers, TakeListing(f) PROVE BulkAwaits' /\ SpinnerHonest'
    <3>1. \A g \in Fetchers : InFlight(g)' <=> InFlight(g)
      BY <2>1 DEF TakeListing, InFlight, TypeOK, SInv
    <3>2. pc' = pc /\ loading' = loading /\ \A g \in Fetchers : Live(g)' <=> Live(g)
      BY <2>1 DEF TakeListing, Live
    <3> QED BY <3>1, <3>2 DEF SInv, BulkAwaits, SpinnerHonest, Fetchers
  <2>2. CASE ToggleSelectAll
    BY <2>2, FetchesStay DEF ToggleSelectAll
  <2>3. ASSUME NEW c \in Containers, ToggleSelect(c) PROVE BulkAwaits' /\ SpinnerHonest'
    BY <2>3, FetchesStay DEF ToggleSelect
  <2> QED BY <1>3, <2>1, <2>2, <2>3
<1>4. ASSUME NEW a \in Actions, Click(a) PROVE BulkAwaits' /\ SpinnerHonest'
  <2> DEFINE b == CHOOSE x \in Bulks : pc[x] = "idle"
             ids == IF a = "none" THEN {} ELSE selected
             api == IF a = "stop" THEN "docker" ELSE "gateway"
  <2>1. b \in Bulks /\ pc[b] = "idle"
    BY <1>4 DEF Click
  <2>2. Continue(b, view, ids, api) /\ owner' = [owner EXCEPT ![b] = view]
    BY <1>4 DEF Click
  <2>3. UNCHANGED <<mounted, view>>
    BY <1>4 DEF Click
  <2> HIDE DEF b, ids, api
  <2>4. owner'[b] = view
    BY <2>1, <2>2 DEF SInv, TypeOK
  <2> QED BY <2>1, <2>2, <2>3, <2>4, ContinueSpins
<1>5. ASSUME NEW b \in Bulks, AnsweredElsewhere(b) PROVE BulkAwaits' /\ SpinnerHonest'
  BY <1>5, ContinueSpins DEF AnsweredElsewhere
<1>6. ASSUME NEW b \in Bulks, CallRejected(b) PROVE BulkAwaits' /\ SpinnerHonest'
  BY <1>6, FailureSpins DEF CallRejected
<1>7. ASSUME NEW b \in Bulks, StopEnds(b) PROVE BulkAwaits' /\ SpinnerHonest'
  <2>1. CASE pc[b] = "call"
    BY <1>7, <2>1, ContinueSpins DEF StopEnds
  <2>2. CASE pc[b] # "call"
    BY <1>7, <2>2, FetchesStay DEF StopEnds
  <2> QED BY <2>1, <2>2
<1>8. ASSUME NEW b \in Bulks, StopFails(b) PROVE BulkAwaits' /\ SpinnerHonest'
  <2>1. CASE pc[b] = "call"
    BY <1>8, <2>1, FailureSpins DEF StopFails
  <2>2. CASE pc[b] # "call"
    BY <1>8, <2>2, FetchesStay DEF StopFails
  <2> QED BY <2>1, <2>2
<1>9. ASSUME NEW f \in Fetchers, FetchOk(f) PROVE BulkAwaits' /\ SpinnerHonest'
  <2>1. InFlight(f) /\ Finished(f) /\ (loading' => loading /\ ~Live(f))
    BY <1>9 DEF FetchOk, InFlight
  <2> QED BY <2>1, OverSpins
<1>10. ASSUME NEW f \in Fetchers, FetchFails(f) PROVE BulkAwaits' /\ SpinnerHonest'
  <2>1. InFlight(f) /\ Finished(f) /\ (loading' => loading /\ ~Live(f))
    BY <1>10 DEF FetchFails, SInv, TypeOK
  <2> QED BY <2>1, OverSpins
<1>11. ASSUME NEW c \in Containers, NEW s \in {"running", "exited", "gone"}, Change(c, s)
       PROVE  BulkAwaits' /\ SpinnerHonest'
  BY <1>11, FetchesStay DEF Change
<1>12. CASE UNCHANGED vars
  BY <1>12, FetchesStay DEF vars
<1> QED BY <1>1, <1>2, <1>3, <1>4, <1>5, <1>6, <1>7, <1>8, <1>9, <1>10, <1>11, <1>12
        DEF Next, BulkStep, FetchStep

\* The page says "Loading containers..." only while a listing of this view is
\* under way, whatever other bulks and listings do (ContainerList.tsx 46-56, 200).
THEOREM SpinnerAlwaysHonest == Spec => []SpinnerHonest
<1>1. Init => SInv
  BY TypeInit DEF Init, SInv, BulkAwaits, SpinnerHonest, InFlight, Fetchers
<1>2. SInv => SpinnerHonest
  BY DEF SInv
<1> QED BY <1>1, <1>2, SpinnerStep, PTL DEF Spec
-----------------------------------------------------------------------------
\* While the first listing of a view is under way the view is blank, and no bulk
\* was started from it.
FirstListingAlone ==
  \A w \in Views : w = view /\ InFlight(w) =>
    selected = {} /\ DOMAIN containers = {} /\ \A b \in Bulks : owner[b] # w

\* Bulks come from views that have been opened.
OwnersAreOld == \A b \in Bulks : owner[b] <= view

LInv == TypeOK /\ OwnersAreOld /\ FirstListingAlone /\ SelectionListed

LEMMA EmptyDomain == DOMAIN Empty = {}
BY DEF Empty

\* Steps that start no bulk, listing or view, and select what the list shows.
LEMMA SelectStep ==
  ASSUME LInv, UNCHANGED <<view, fetch, containers>>,
         owner' = owner \/ \E b \in Bulks : owner' = [owner EXCEPT ![b] = 0],
         selected' \subseteq selected \cup DOMAIN containers
  PROVE  OwnersAreOld' /\ FirstListingAlone' /\ SelectionListed'
<1> USE DEF LInv
<1>1. \A b \in Bulks : owner'[b] = owner[b] \/ owner'[b] = 0
  BY DEF TypeOK
<1>2. OwnersAreOld'
  BY <1>1 DEF OwnersAreOld, TypeOK
<1>3. FirstListingAlone'
  BY <1>1 DEF FirstListingAlone, InFlight, Views
<1> QED BY <1>2, <1>3 DEF SelectionListed

\* The next step of a loop starts at most the listing of its own bulk.
LEMMA ContinueStep ==
  ASSUME LInv, NEW b \in Bulks, NEW v, NEW ids, NEW api, Continue(b, v, ids, api),
         UNCHANGED <<view, containers, selected>>,
         \A x \in Bulks : owner'[x] = owner[x] \/ (owner'[x] = view /\ selected # {})
  PROVE  OwnersAreOld' /\ FirstListingAlone' /\ SelectionListed'
<1> USE BulksAssumption DEF LInv
<1>1. \A w \in Views : InFlight(w)' <=> InFlight(w)
  BY DEF Continue, InFlight, TypeOK, Fetchers
<1>2. OwnersAreOld'
  BY BoundAssumption DEF OwnersAreOld, TypeOK
<1>3. FirstListingAlone'
  BY <1>1 DEF FirstListingAlone
<1> QED BY <1>2, <1>3 DEF SelectionListed

\* A listing is over: if it replaces the list, nothing is selected afterwards.
LEMMA OverStep ==
  ASSUME LInv, NEW f \in Fetchers, InFlight(f), Finished(f),
         containers' = containers \/ Live(f)
  PROVE  OwnersAreOld' /\ FirstListingAlone' /\ SelectionListed'
<1> USE BulksAssumption DEF LInv
<1>1. \A b \in Bulks : owner'[b] = owner[b] \/ owner'[b] = 0
  BY DEF Finished, TypeOK
<1>2. OwnersAreOld'
  BY <1>1, BoundAssumption DEF OwnersAreOld, Finished, TypeOK
<1>3. FirstListingAlone'
  <2> SUFFICES ASSUME NEW w \in Views, w = view, InFlight(w)'
               PROVE  /\ selected' = {} /\ DOMAIN containers' = {}
                      /\ \A b \in Bulks : owner'[b] # w
    BY DEF FirstListingAlone, Finished
  <2>1. w # f /\ InFlight(w)
    BY DEF Finished, InFlight, TypeOK, Fetchers
  <2>2. selected = {} /\ DOMAIN containers = {} /\ \A b \in Bulks : owner[b] # w
    BY <2>1 DEF FirstListingAlone
  <2>3. ~Live(f)
    BY <2>1, <2>2 DEF Live, Fetchers
  <2>4. \A b \in Bulks : owner'[b] # w
    BY <1>1, <2>2 DEF Views
  <2> QED BY <2>2, <2>3, <2>4 DEF Finished
<1>4. SelectionListed'
  <2>1. CASE ~Live(f)
    BY <2>1 DEF SelectionListed, Finished
  <2>2. CASE Live(f) /\ f \in Bulks
    BY <2>2 DEF SelectionListed, Finished
  <2>3. CASE Live(f) /\ f \in Views
    <3>1. f = view
      BY <2>3 DEF Live
    <3> QED BY <2>3, <3>1 DEF SelectionListed, FirstListingAlone, Finished
  <2> QED BY <2>1, <2>2, <2>3 DEF Fetchers
<1> QED BY <1>2, <1>3, <1>4

LEMMA SelectionStep ==
  ASSUME LInv, [Next]_vars
  PROVE  OwnersAreOld' /\ FirstListingAlone' /\ SelectionListed'
<1> USE DEF pageVars, bulkVars, fetchVars, worldVars
<1>1. CASE Open
  <2> USE <1>1, EmptyDomain DEF LInv
  <2>1. view \in Nat /\ view' = view + 1
    BY DEF Open, TypeOK
  <2>2. OwnersAreOld'
    BY <2>1, BoundAssumption DEF Open, OwnersAreOld, TypeOK
  <2>3. \A b \in Bulks : owner'[b] # view'
    BY <2>1, BoundAssumption DEF Open, OwnersAreOld, TypeOK
  <2>4. FirstListingAlone' /\ SelectionListed'
    BY <2>3 DEF Open, FirstListingAlone, SelectionListed
  <2> QED BY <2>2, <2>4
<1>2. CASE Leave
  <2> USE <1>2, EmptyDomain DEF LInv
  <2>1. UNCHANGED <<view, fetch, owner>> /\ selected' = {} /\ DOMAIN containers' = {}
    BY DEF Leave
  <2> QED BY <2>1 DEF OwnersAreOld, FirstListingAlone, SelectionListed, InFlight
<1>3. CASE ToggleSelectAll
  BY <1>3, SelectStep DEF ToggleSelectAll, TableShown
<1>4. ASSUME NEW c \in Containers, ToggleSelect(c)
      PROVE  OwnersAreOld' /\ FirstListingAlone' /\ SelectionListed'
  BY <1>4, SelectStep DEF ToggleSelect, Rows, TableShown
<1>5. ASSUME NEW a \in Actions, Click(a)
      PROVE  OwnersAreOld' /\ FirstListingAlone' /\ SelectionListed'
  <2> DEFINE b == CHOOSE x \in Bulks : pc[x] = "idle"
             ids == IF a = "none" THEN {} ELSE selected
             api == IF a = "stop" THEN "docker" ELSE "gateway"
  <2>1. b \in Bulks
    BY <1>5 DEF Click
  <2>2. Continue(b, view, ids, api) /\ owner' = [owner EXCEPT ![b] = view]
    BY <1>5 DEF Click
  <2>3. UNCHANGED <<view, containers, selected>> /\ selected # {}
    BY <1>5 DEF Click, ButtonEnabled
  <2> HIDE DEF b, ids, api
  <2>4. \A x \in Bulks : owner'[x] = owner[x] \/ (owner'[x] = view /\ selected # {})
    BY <2>2, <2>3 DEF LInv, TypeOK
  <2> QED BY <2>1, <2>2, <2>3, <2>4, ContinueStep
<1>6. ASSUME NEW b \in Bulks, AnsweredElsewhere(b)
      PROVE  OwnersAreOld' /\ FirstListingAlone' /\ SelectionListed'
  <2>1. /\ Continue(b, owner[b], todo[b], "gateway")
        /\ UNCHANGED <<view, containers, selected>> /\ owner' = owner
    BY <1>6 DEF AnsweredElsewhere
  <2> QED BY <2>1, ContinueStep
<1>7. ASSUME NEW b \in Bulks, CallRejected(b)
      PROVE  OwnersAreOld' /\ FirstListingAlone' /\ SelectionListed'
  BY <1>7, SelectStep DEF CallRejected, BulkFails
<1>8. ASSUME NEW b \in Bulks, StopEnds(b)
      PROVE  OwnersAreOld' /\ FirstListingAlone' /\ SelectionListed'
  <2>1. CASE pc[b] = "call"
    <3>1. /\ Continue(b, owner[b], todo[b], "docker")
          /\ UNCHANGED <<view, containers, selected>> /\ owner' = owner
      BY <1>8, <2>1 DEF StopEnds
    <3> QED BY <3>1, ContinueStep
  <2>2. CASE pc[b] # "call"
    BY <1>8, <2>2, SelectStep DEF StopEnds
  <2> QED BY <2>1, <2>2
<1>9. ASSUME NEW b \in Bulks, StopFails(b)
      PROVE  OwnersAreOld' /\ FirstListingAlone' /\ SelectionListed'
  <2>1. UNCHANGED <<view, fetch, containers, selected>>
    BY <1>9 DEF StopFails
  <2>2. owner' = owner \/ owner' = [owner EXCEPT ![b] = 0]
    BY <1>9 DEF StopFails, BulkFails
  <2> QED BY <2>1, <2>2, SelectStep
<1>10. ASSUME NEW f \in Fetchers, TakeListing(f)
       PROVE  OwnersAreOld' /\ FirstListingAlone' /\ SelectionListed'
  <2>1. \A w \in Views : InFlight(w)' <=> InFlight(w)
    <3>1. fetch \in [Fetchers -> {"idle", "sent", "listed", "over"}]
      BY DEF LInv, TypeOK
    <3>2. fetch[f] = "sent" /\ fetch' = [fetch EXCEPT ![f] = "listed"]
      BY <1>10 DEF TakeListing
    <3> QED BY <3>1, <3>2 DEF InFlight, Fetchers
  <2>2. UNCHANGED <<view, owner, selected, containers>>
    BY <1>10 DEF TakeListing
  <2> QED BY <2>1, <2>2 DEF LInv, OwnersAreOld, FirstListingAlone, SelectionListed
<1>11. ASSUME NEW f \in Fetchers, FetchOk(f) \/ FetchFails(f)
       PROVE  OwnersAreOld' /\ FirstListingAlone' /\ SelectionListed'
  <2>1. InFlight(f) /\ Finished(f) /\ (containers' = containers \/ Live(f))
    BY <1>11 DEF FetchOk, FetchFails, InFlight
  <2> QED BY <2>1, OverStep
<1>12. CASE \/ \E c \in Containers, s \in {"running", "exited", "gone"} : Change(c, s)
            \/ UNCHANGED vars
  BY <1>12, SelectStep DEF Change, vars
<1> QED BY <1>1, <1>2, <1>3, <1>4, <1>5, <1>6, <1>7, <1>8, <1>9, <1>10, <1>11, <1>12
        DEF Next, BulkStep, FetchStep

\* No listing, however late, leaves an id selected that the list does not show: a
\* bulk calls only what the user sees (ContainerList.tsx 50, 88, 94).
THEOREM SelectionAlwaysListed == Spec => []SelectionListed
<1>1. Init => LInv
  BY TypeInit DEF Init, LInv, OwnersAreOld, FirstListingAlone, SelectionListed,
                  InFlight, Fetchers
<1>2. LInv /\ [Next]_vars => LInv'
  BY TypeStep, SelectionStep DEF LInv
<1>3. LInv => SelectionListed
  BY DEF LInv
<1> QED BY <1>1, <1>2, <1>3, PTL DEF Spec
-----------------------------------------------------------------------------
\* A list tells the state that the daemon knows.
Agrees(l, c) == c \in DOMAIN l /\ l[c] = docker[c]

\* Listings that are on their way from the daemon, and those of them that will
\* replace the list and are not older than it.
Listed == {f \in Fetchers : fetch[f] = "listed"}
Fresh == {f \in Listed : Live(f) /\ f \notin outdated}

\* A listing of this view will be taken later.
ListingToCome ==
  \/ \E b \in Bulks : pc[b] = "call"
  \/ \E f \in Fetchers : fetch[f] = "sent" /\ Live(f)

ViewsToCome == \A w \in Views : w > view => fetch[w] = "idle"

\* "Older" orders the listings on their way, strictly and transitively.
AgeIsOrder ==
  /\ outdated \subseteq Listed
  /\ \A f \in Fetchers : older[f] \subseteq Listed
  /\ \A f, g \in Fetchers : g \in older[f] => f \notin older[g] /\ older[g] \subseteq older[f]

UntouchedExist == \A c \in Containers \ touched : docker[c] # "gone"

OrderInv == ViewsToCome /\ AgeIsOrder /\ UntouchedExist

\* Where the set of listings on their way stays as it is, so does their order.
LEMMA SameListed ==
  ASSUME AgeIsOrder, Listed' = Listed, UNCHANGED <<older, outdated>>
  PROVE  AgeIsOrder'
BY DEF AgeIsOrder

\* The next step of a loop asks for a listing at most.
LEMMA ContinueOrders ==
  ASSUME SInv, OrderInv, NEW b \in Bulks, pc[b] # "list", NEW v, NEW ids, NEW api,
         Continue(b, v, ids, api), UNCHANGED <<view, older, outdated>>
  PROVE  ViewsToCome' /\ AgeIsOrder'
<1> USE BulksAssumption DEF SInv, OrderInv
<1>1. b \in Fetchers /\ fetch[b] # "listed" /\ b \notin Views
  BY DEF Fetchers, BulkAwaits, InFlight
<1>2. fetch' = fetch \/ fetch' = [fetch EXCEPT ![b] = "sent"]
  BY DEF Continue
<1>3. Listed' = Listed
  BY <1>1, <1>2 DEF Listed, TypeOK
<1>4. ViewsToCome'
  BY <1>1, <1>2 DEF ViewsToCome, TypeOK, Fetchers
<1> QED BY <1>3, <1>4, SameListed

\* A listing that is over leaves the order.
LEMMA OverOrders ==
  ASSUME SInv, OrderInv, NEW f \in Fetchers, InFlight(f), Finished(f),
         outdated' \subseteq (outdated \cup older[f]) \ {f}
  PROVE  ViewsToCome' /\ AgeIsOrder'
<1> USE DEF SInv, OrderInv
<1>1. view' = view /\ fetch' = [fetch EXCEPT ![f] = "over"]
  BY DEF Finished
<1>2. Listed' = Listed \ {f}
  BY <1>1 DEF Listed, TypeOK
<1>3. \A g \in Fetchers : older'[g] = IF g = f THEN {} ELSE older[g] \ {f}
  BY DEF Finished
<1>4. ViewsToCome'
  BY <1>1 DEF ViewsToCome, InFlight, TypeOK, Fetchers
<1>5. outdated' \subseteq Listed'
  BY <1>2 DEF AgeIsOrder
<1>6. ASSUME NEW g \in Fetchers PROVE older'[g] \subseteq Listed'
  <2>1. older'[g] \subseteq older[g] \ {f}
    BY <1>3
  <2>2. older[g] \subseteq Listed
    BY DEF AgeIsOrder
  <2> QED BY <1>2, <2>1, <2>2
<1>7. ASSUME NEW g \in Fetchers, NEW h \in Fetchers, h \in older'[g]
      PROVE  g \notin older'[h] /\ older'[h] \subseteq older'[g]
  <2>1. g # f /\ h # f /\ h \in older[g]
    BY <1>3, <1>7
  <2>2. g \notin older[h] /\ older[h] \subseteq older[g]
    BY <2>1 DEF AgeIsOrder
  <2>3. older'[g] = older[g] \ {f} /\ older'[h] = older[h] \ {f}
    BY <1>3, <2>1
  <2> QED BY <2>2, <2>3
<1> QED BY <1>4, <1>5, <1>6, <1>7 DEF AgeIsOrder

LEMMA OrderStep ==
  ASSUME SInv, OrderInv, [Next]_vars
  PROVE  OrderInv'
<1> USE BulksAssumption DEF pageVars, bulkVars, fetchVars, worldVars
<1>1. ASSUME UNCHANGED <<view, fetch, older, outdated, docker, touched>> PROVE OrderInv'
  BY <1>1 DEF OrderInv, ViewsToCome, AgeIsOrder, Listed, UntouchedExist
<1>2. ASSUME UNCHANGED <<docker, touched>>, ViewsToCome', AgeIsOrder' PROVE OrderInv'
  BY <1>2 DEF OrderInv, UntouchedExist
<1>3. CASE Open
  <2>1. PICK n \in Views : n = view + 1 /\ n \in Fetchers
    BY <1>3, BoundAssumption DEF Open, SInv, TypeOK, Fetchers, Views
  <2>2. fetch[n] = "idle"
    BY <2>1, BoundAssumption DEF OrderInv, ViewsToCome, SInv, TypeOK, Views
  <2>3. fetch' = [fetch EXCEPT ![n] = "sent"] /\ view' = n
    BY <1>3, <2>1 DEF Open
  <2>4. Listed' = Listed
    BY <2>2, <2>3 DEF Listed, SInv, TypeOK
  <2>5. ViewsToCome'
    BY <2>1, <2>3, BoundAssumption DEF ViewsToCome, OrderInv, SInv, TypeOK, Views
  <2> QED BY <1>2, <1>3, <2>4, <2>5, SameListed DEF Open, OrderInv
<1>4. CASE \/ Leave \/ ToggleSelectAll \/ \E c \in Containers : ToggleSelect(c)
           \/ UNCHANGED vars
  BY <1>1, <1>4 DEF Leave, ToggleSelectAll, ToggleSelect, vars
<1>5. ASSUME NEW a \in Actions, Click(a) PROVE OrderInv'
  <2> DEFINE b == CHOOSE x \in Bulks : pc[x] = "idle"
             ids == IF a = "none" THEN {} ELSE selected
             api == IF a = "stop" THEN "docker" ELSE "gateway"
  <2>1. b \in Bulks /\ pc[b] = "idle"
    BY <1>5 DEF Click
  <2>2. Continue(b, view, ids, api) /\ UNCHANGED <<view, older, outdated, docker, touched>>
    BY <1>5 DEF Click
  <2> HIDE DEF b, ids, api
  <2> QED BY <1>2, <2>1, <2>2, ContinueOrders
<1>6. ASSUME NEW b \in Bulks, AnsweredElsewhere(b) PROVE OrderInv'
  BY <1>2, <1>6, ContinueOrders DEF AnsweredElsewhere
<1>7. ASSUME NEW b \in Bulks, CallRejected(b) \/ StopFails(b) PROVE OrderInv'
  BY <1>1, <1>7 DEF CallRejected, StopFails
<1>8. ASSUME NEW b \in Bulks, StopEnds(b) PROVE OrderInv'
  <2>1. UNCHANGED <<view, older, outdated>>
    BY <1>8 DEF StopEnds
  <2>2. UntouchedExist'
    BY <1>8 DEF StopEnds, OrderInv, UntouchedExist, SInv, TypeOK
  <2>3. ViewsToCome' /\ AgeIsOrder'
    <3>1. CASE pc[b] = "call"
      BY <1>8, <2>1, <3>1, ContinueOrders DEF StopEnds
    <3>2. CASE pc[b] # "call"
      BY <1>8, <2>1, <3>2 DEF StopEnds, OrderInv, ViewsToCome, AgeIsOrder, Listed
    <3> QED BY <3>1, <3>2
  <2> QED BY <2>2, <2>3 DEF OrderInv
<1>9. ASSUME NEW f \in Fetchers, TakeListing(f) PROVE OrderInv'
  <2>1. fetch[f] = "sent" /\ fetch' = [fetch EXCEPT ![f] = "listed"]
    BY <1>9 DEF TakeListing
  <2>2. older' = [older EXCEPT ![f] = Listed] /\ UNCHANGED <<view, outdated, docker, touched>>
    BY <1>9 DEF TakeListing, Listed
  <2>3. Listed' = Listed \cup {f} /\ f \notin Listed
    BY <2>1 DEF Listed, SInv, TypeOK
  <2>4. ViewsToCome'
    BY <2>1, <2>2 DEF OrderInv, ViewsToCome, SInv, TypeOK
  <2>5. AgeIsOrder'
    BY <2>2, <2>3 DEF OrderInv, AgeIsOrder, SInv, TypeOK
  <2> QED BY <1>2, <2>2, <2>4, <2>5
<1>10. ASSUME NEW f \in Fetchers, FetchOk(f) \/ FetchFails(f) PROVE OrderInv'
  <2>1. /\ InFlight(f) /\ Finished(f)
        /\ outdated' \subseteq (outdated \cup older[f]) \ {f}
    BY <1>10 DEF FetchOk, FetchFails, InFlight
  <2>2. UNCHANGED <<docker, touched>>
    BY <2>1 DEF Finished
  <2> QED BY <1>2, <2>1, <2>2, OverOrders
<1>11. ASSUME NEW c \in Containers, NEW s \in {"running", "exited", "gone"}, Change(c, s)
       PROVE  OrderInv'
  <2>1. UNCHANGED <<view, fetch, older, outdated>>
    BY <1>11 DEF Change
  <2>2. UntouchedExist'
    BY <1>11 DEF Change, OrderInv, UntouchedExist, SInv, TypeOK
  <2> QED BY <2>1, <2>2 DEF OrderInv, ViewsToCome, AgeIsOrder, Listed
<1> QED BY <1>3, <1>4, <1>5, <1>6, <1>7, <1>8, <1>9, <1>10, <1>11
        DEF Next, BulkStep, FetchStep
-----------------------------------------------------------------------------
\* As long as nothing excuses the page: a stop at the server has a bulk that
\* waits for it, and the bulks that run belong to the view.
JobsAwaited == ~excused => \A b \in Bulks : job[b] # None => pc[b] = "call"
BulksOwn == mounted /\ ~excused => \A b \in Bulks : Running(b) => owner[b] = view

\* Every container is right in the list or in a fresh listing, and behind a fresh
\* listing in which it is wrong comes a later one in which it is right.
Followed(c) ==
  /\ Agrees(containers, c) \/ \E f \in Fresh : Agrees(answer[f], c)
  /\ \A g \in Fresh :
       Agrees(answer[g], c) \/ \E f \in Fresh : Agrees(answer[f], c) /\ g \in older[f]

ListFollows ==
  mounted /\ ~excused /\ ~ListingToCome => \A c \in Containers \ touched : Followed(c)

FollowInv == JobsAwaited /\ BulksOwn /\ ListFollows

CInv == SInv /\ LInv /\ OrderInv /\ FollowInv

\* What no part of FollowInv speaks of.
LEMMA FollowStays ==
  ASSUME FollowInv,
         UNCHANGED <<mounted, view, containers, fetch, answer, older, outdated>>,
         UNCHANGED <<pc, job, owner, docker, excused>>, touched \subseteq touched'
  PROVE  FollowInv'
<1>1. JobsAwaited' /\ BulksOwn'
  BY DEF FollowInv, JobsAwaited, BulksOwn, Running
<1>2. (ListingToCome' <=> ListingToCome) /\ Fresh' = Fresh
  BY DEF ListingToCome, Fresh, Listed, Live
<1>3. ASSUME NEW c \in Containers, Followed(c) PROVE Followed(c)'
  BY <1>2, <1>3 DEF Followed, Agrees
<1>4. ListFollows'
  BY <1>2, <1>3 DEF FollowInv, ListFollows
<1> QED BY <1>1, <1>4 DEF FollowInv

\* What fails is excused.
LEMMA ExcusedFollows ==
  ASSUME excused' = TRUE
  PROVE  FollowInv'
BY DEF FollowInv, JobsAwaited, BulksOwn, ListFollows

\* A step of a loop is followed by another or by a listing of this view, so the
\* daemon may have changed.
LEMMA ContinueFollows ==
  ASSUME CInv, NEW b \in Bulks, pc[b] # "list", NEW v, NEW ids, NEW api,
         Continue(b, v, ids, api), owner'[b] = v,
         owner' = owner \/ owner' = [owner EXCEPT ![b] = v],
         UNCHANGED <<mounted, view, excused>>,
         mounted /\ ~excused => v = view
  PROVE  FollowInv'
<1> USE BulksAssumption DEF CInv, SInv, FollowInv
<1>1. b \in Fetchers
  BY DEF Fetchers
<1>2. \A x \in Bulks : x # b => pc'[x] = pc[x] /\ job'[x] = job[x] /\ owner'[x] = owner[x]
  BY DEF Continue, TypeOK
<1>3. \/ pc'[b] = "call"
      \/ pc'[b] = "list" /\ fetch'[b] = "sent" /\ job'[b] = None
  <2>1. CASE ids # {}
    BY <2>1 DEF Continue, TypeOK
  <2>2. CASE ids = {}
    BY <1>1, <2>2 DEF Continue, TypeOK
  <2> QED BY <2>1, <2>2
<1>4. JobsAwaited'
  BY <1>2, <1>3 DEF JobsAwaited
<1>5. BulksOwn'
  BY <1>2 DEF BulksOwn, Running
<1>6. ASSUME mounted', ~excused' PROVE ListingToCome'
  <2>1. CASE pc'[b] = "call"
    BY <2>1 DEF ListingToCome
  <2>2. CASE fetch'[b] = "sent"
    <3>1. Live(b)'
      BY <1>6 DEF Live
    <3> QED BY <1>1, <2>2, <3>1 DEF ListingToCome
  <2> QED BY <1>3, <2>1, <2>2
<1> QED BY <1>4, <1>5, <1>6 DEF ListFollows

\* A listing taken now is right about all that others did not change, and newer
\* than all that are on their way.
LEMMA TakenFollows ==
  ASSUME CInv, NEW f \in Fetchers, TakeListing(f)
  PROVE  FollowInv'
<1> USE DEF CInv, SInv, FollowInv, pageVars, bulkVars, worldVars
<1>1. /\ fetch[f] = "sent" /\ fetch' = [fetch EXCEPT ![f] = "listed"]
      /\ UNCHANGED <<outdated, mounted, view, containers, pc, job, owner, docker, touched, excused>>
  BY DEF TakeListing
<1>2. JobsAwaited' /\ BulksOwn'
  BY <1>1 DEF JobsAwaited, BulksOwn, Running
<1>3. answer'[f] = Listing /\ \A g \in Fetchers : g # f => answer'[g] = answer[g]
  BY DEF TakeListing, TypeOK
<1>4. older'[f] = Listed /\ \A g \in Fetchers : g # f => older'[g] = older[g]
  BY DEF TakeListing, TypeOK, Listed
<1>5. \A g \in Fetchers : Live(g)' <=> Live(g)
  BY <1>1 DEF Live
<1>6. Listed' = Listed \cup {f} /\ f \notin Listed /\ f \notin outdated
  BY <1>1 DEF Listed, TypeOK, OrderInv, AgeIsOrder
<1>7. ASSUME mounted', ~excused', ~ListingToCome', NEW c \in Containers \ touched'
      PROVE  Followed(c)'
  <2>1. CASE Live(f)
    <3>1. docker[c] # "gone"
      BY <1>1, <1>7 DEF OrderInv, UntouchedExist
    <3>2. Agrees(answer[f], c)'
      BY <1>1, <1>3, <3>1 DEF Agrees, Listing
    <3>3. f \in Fresh'
      BY <1>1, <1>5, <1>6, <2>1 DEF Fresh
    <3>4. \A g \in Fresh' : g = f \/ g \in older'[f]
      BY <1>4, <1>6 DEF Fresh
    <3> QED BY <3>2, <3>3, <3>4 DEF Followed
  <2>2. CASE ~Live(f)
    <3>1. ~ListingToCome
      BY <1>1, <1>5, <1>7, <2>2 DEF ListingToCome, TypeOK
    <3>2. Fresh' = Fresh /\ Fresh \subseteq Fetchers /\ f \notin Fresh
      BY <1>1, <1>5, <1>6, <2>2 DEF Fresh, Listed
    <3>3. Followed(c)
      BY <1>1, <1>7, <3>1 DEF ListFollows
    <3>4. /\ Agrees(containers, c)' <=> Agrees(containers, c)
          /\ \A g \in Fresh : /\ Agrees(answer[g], c)' <=> Agrees(answer[g], c)
                              /\ older'[g] = older[g]
      BY <1>1, <1>3, <1>4, <3>2 DEF Agrees
    <3> QED BY <3>2, <3>3, <3>4 DEF Followed
  <2> QED BY <2>1, <2>2
<1> QED BY <1>2, <1>7 DEF ListFollows
\* A listing that arrives takes what it is newer than out of the fresh ones, and
\* what it is wrong about is right in a newer one.
LEMMA ArrivedFollows ==
  ASSUME CInv, NEW f \in Fetchers, FetchOk(f)
  PROVE  FollowInv'
<1> USE BulksAssumption DEF CInv, SInv, OrderInv, FollowInv, worldVars
<1>1. /\ fetch[f] = "listed" /\ fetch' = [fetch EXCEPT ![f] = "over"]
      /\ UNCHANGED <<mounted, view, job, docker, touched>>
  BY DEF FetchOk, Finished
<1>2. f \in Bulks => pc[f] = "list"
  BY <1>1 DEF BulkAwaits, InFlight
<1>3. \A b \in Bulks : b # f => pc'[b] = pc[b] /\ owner'[b] = owner[b]
  BY DEF FetchOk, Finished, TypeOK
<1>4. f \in Bulks => pc'[f] = "done"
  BY DEF FetchOk, Finished, TypeOK
<1>5. excused => excused'
  BY DEF FetchOk
<1>6. JobsAwaited' /\ BulksOwn'
  <2>1. JobsAwaited'
    BY <1>1, <1>2, <1>3, <1>4, <1>5 DEF JobsAwaited
  <2>2. BulksOwn'
    BY <1>1, <1>3, <1>4, <1>5 DEF BulksOwn, Running
  <2> QED BY <2>1, <2>2
<1>7. \A g \in Fetchers : g # f => fetch'[g] = fetch[g] /\ (Live(g)' <=> Live(g))
  BY <1>1, <1>3 DEF Live, TypeOK
<1>8. ListingToCome => ListingToCome'
  <2>1. ASSUME NEW b \in Bulks, pc[b] = "call" PROVE ListingToCome'
    BY <1>2, <1>3, <2>1 DEF ListingToCome
  <2>2. ASSUME NEW g \in Fetchers, fetch[g] = "sent", Live(g) PROVE ListingToCome'
    BY <1>1, <1>7, <2>2 DEF ListingToCome
  <2> QED BY <2>1, <2>2 DEF ListingToCome
<1>9. \A g \in Fetchers : g # f => answer'[g] = answer[g] /\ older'[g] = older[g] \ {f}
  BY DEF FetchOk, Finished, TypeOK
<1>10. Listed' = Listed \ {f}
  BY <1>1 DEF Listed, TypeOK
<1>11. ASSUME mounted', ~excused', ~ListingToCome', NEW c \in Containers \ touched'
       PROVE  Followed(c)'
  <2>1. Followed(c)
    BY <1>1, <1>5, <1>8, <1>11 DEF ListFollows
  <2>2. CASE Live(f)
    <3>1. /\ containers' = answer[f] /\ outdated' = (outdated \cup older[f]) \ {f}
          /\ f \notin outdated
      BY <1>11, <2>2 DEF FetchOk
    <3>2. f \in Fresh
      BY <1>1, <2>2, <3>1 DEF Fresh, Listed
    <3>3. Fresh' = Fresh \ (older[f] \cup {f})
      BY <1>7, <1>10, <3>1 DEF Fresh, Listed
    <3>4. ASSUME NEW g \in Fresh, g = f \/ g \in Fresh', ~Agrees(answer[g], c)
          PROVE  \E h \in Fresh' : Agrees(answer[h], c) /\ g \in older[h]
      <4>1. PICK h \in Fresh : Agrees(answer[h], c) /\ g \in older[h]
        BY <2>1, <3>4 DEF Followed
      <4>2. h \in Fetchers /\ g \in Fetchers
        BY DEF Fresh, Listed
      <4>3. h # f
        BY <3>3, <3>4, <4>1
      <4>4. h \notin older[f]
        BY <3>3, <3>4, <4>1, <4>2 DEF AgeIsOrder
      <4> QED BY <3>3, <4>1, <4>3, <4>4
    <3>5. Agrees(containers, c)' \/ \E h \in Fresh' : Agrees(answer[h], c)'
      <4>1. CASE Agrees(answer[f], c)
        BY <1>1, <3>1, <4>1 DEF Agrees
      <4>2. CASE ~Agrees(answer[f], c)
        <5>1. PICK h \in Fresh' : Agrees(answer[h], c)
          BY <3>2, <3>4, <4>2
        <5>2. answer'[h] = answer[h]
          BY <1>9, <3>3, <5>1 DEF Fresh, Listed
        <5> QED BY <1>1, <5>1, <5>2 DEF Agrees
      <4> QED BY <4>1, <4>2
    <3>6. ASSUME NEW g \in Fresh', ~Agrees(answer[g], c)'
          PROVE  \E h \in Fresh' : Agrees(answer[h], c)' /\ g \in older'[h]
      <4>1. \A x \in Fresh' : x \in Fresh /\ x \in Fetchers /\ x # f
        BY <3>3 DEF Fresh, Listed
      <4>2. ~Agrees(answer[g], c)
        BY <1>1, <1>9, <3>6, <4>1 DEF Agrees
      <4>3. PICK h \in Fresh' : Agrees(answer[h], c) /\ g \in older[h]
        BY <3>4, <4>1, <4>2
      <4> QED BY <1>1, <1>9, <4>1, <4>3 DEF Agrees
    <3> QED BY <3>5, <3>6 DEF Followed
  <2>3. CASE ~Live(f)
    <3>1. containers' = containers /\ outdated' = outdated \ {f}
      BY <2>3 DEF FetchOk
    <3>2. Fresh' = Fresh
      BY <1>7, <1>10, <2>3, <3>1 DEF Fresh, Listed
    <3>3. \A x \in Fresh : x \in Fetchers /\ x # f
      BY <2>3 DEF Fresh, Listed
    <3>4. \A x \in Fresh : /\ Agrees(answer[x], c)' <=> Agrees(answer[x], c)
                          /\ older'[x] = older[x] \ {f}
      BY <1>1, <1>9, <3>3 DEF Agrees
    <3>5. Agrees(containers, c)' <=> Agrees(containers, c)
      BY <1>1, <3>1 DEF Agrees
    <3> QED BY <2>1, <3>2, <3>3, <3>4, <3>5 DEF Followed
  <2> QED BY <2>2, <2>3
<1> QED BY <1>6, <1>11 DEF ListFollows

\* A page that is opened again has a listing of its own to come, and is excused
\* if something of an earlier view goes on.
LEMMA OpenedFollows ==
  ASSUME CInv, Open
  PROVE  FollowInv'
<1> USE BulksAssumption DEF CInv, SInv, FollowInv, bulkVars, worldVars
<1>1. PICK n \in Views : n = view + 1 /\ n \in Fetchers /\ n \notin Bulks
  BY BoundAssumption DEF Open, TypeOK, Fetchers, Views
<1>2. fetch'[n] = "sent" /\ Live(n)'
  BY <1>1 DEF Open, Live, TypeOK
<1>3. ListingToCome'
  BY <1>1, <1>2 DEF ListingToCome
<1>4. ~excused' => \A b \in Bulks : ~Running(b)' /\ job'[b] = None
  BY DEF Open, Running
<1> QED BY <1>3, <1>4 DEF JobsAwaited, BulksOwn, ListFollows

LEMMA FollowStep ==
  ASSUME CInv, [Next]_vars
  PROVE  FollowInv'
<1> USE DEF pageVars, bulkVars, fetchVars, worldVars
<1>1. CASE Open
  BY <1>1, OpenedFollows
<1>2. CASE Leave
  BY <1>2 DEF Leave, CInv, FollowInv, JobsAwaited, BulksOwn, ListFollows
<1>3. CASE ToggleSelectAll \/ (\E c \in Containers : ToggleSelect(c)) \/ UNCHANGED vars
  BY <1>3, FollowStays DEF CInv, ToggleSelectAll, ToggleSelect, vars
<1>4. ASSUME NEW a \in Actions, Click(a) PROVE FollowInv'
  <2> DEFINE b == CHOOSE x \in Bulks : pc[x] = "idle"
             ids == IF a = "none" THEN {} ELSE selected
             api == IF a = "stop" THEN "docker" ELSE "gateway"
  <2>1. b \in Bulks /\ pc[b] = "idle"
    BY <1>4 DEF Click
  <2>2. Continue(b, view, ids, api) /\ owner' = [owner EXCEPT ![b] = view]
    BY <1>4 DEF Click
  <2>3. UNCHANGED <<mounted, view, excused>>
    BY <1>4 DEF Click
  <2> HIDE DEF b, ids, api
  <2>4. owner'[b] = view
    BY <2>1, <2>2 DEF CInv, SInv, TypeOK
  <2> QED BY <2>1, <2>2, <2>3, <2>4, ContinueFollows
<1>5. ASSUME NEW b \in Bulks, pc[b] = "call" PROVE mounted /\ ~excused => owner[b] = view
  BY <1>5 DEF CInv, FollowInv, BulksOwn, Running
<1>6. ASSUME NEW b \in Bulks, AnsweredElsewhere(b) PROVE FollowInv'
  BY <1>5, <1>6, ContinueFollows DEF AnsweredElsewhere
<1>7. ASSUME NEW b \in Bulks, CallRejected(b) PROVE FollowInv'
  BY <1>7, ExcusedFollows DEF CallRejected, BulkFails
<1>8. ASSUME NEW b \in Bulks, StopEnds(b) \/ StopFails(b), pc[b] # "call" PROVE FollowInv'
  <2>1. excused /\ excused' = excused
    BY <1>8 DEF StopEnds, StopFails, CInv, FollowInv, JobsAwaited
  <2> QED BY <2>1 DEF FollowInv, JobsAwaited, BulksOwn, ListFollows
<1>9. ASSUME NEW b \in Bulks, StopEnds(b), pc[b] = "call" PROVE FollowInv'
  BY <1>5, <1>9, ContinueFollows DEF StopEnds
<1>10. ASSUME NEW b \in Bulks, StopFails(b), pc[b] = "call" PROVE FollowInv'
  BY <1>10, ExcusedFollows DEF StopFails, BulkFails
<1>11. ASSUME NEW f \in Fetchers, TakeListing(f) PROVE FollowInv'
  BY <1>11, TakenFollows
<1>12. ASSUME NEW f \in Fetchers, FetchOk(f) PROVE FollowInv'
  BY <1>12, ArrivedFollows
<1>13. ASSUME NEW f \in Fetchers, FetchFails(f) PROVE FollowInv'
  BY <1>13, ExcusedFollows DEF FetchFails
<1>14. ASSUME NEW c \in Containers, NEW s \in {"running", "exited", "gone"}, Change(c, s)
       PROVE  FollowInv'
  <2>1. /\ UNCHANGED <<mounted, view, containers, fetch, answer, older, outdated>>
        /\ UNCHANGED <<pc, job, owner, excused>> /\ touched' = touched \cup {c}
    BY <1>14 DEF Change
  <2>2. \A x \in Containers \ touched' : x \in Containers \ touched /\ docker'[x] = docker[x]
    BY <1>14 DEF Change, CInv, SInv, TypeOK
  <2>3. JobsAwaited' /\ BulksOwn'
    BY <2>1 DEF CInv, FollowInv, JobsAwaited, BulksOwn, Running
  <2>4. (ListingToCome' <=> ListingToCome) /\ Fresh' = Fresh
    BY <2>1 DEF ListingToCome, Fresh, Listed, Live
  <2>5. ASSUME NEW x \in Containers \ touched', Followed(x) PROVE Followed(x)'
    BY <2>1, <2>2, <2>4, <2>5 DEF Followed, Agrees
  <2>6. ListFollows'
    BY <2>1, <2>2, <2>4, <2>5 DEF CInv, FollowInv, ListFollows
  <2> QED BY <2>3, <2>6 DEF FollowInv
<1> QED BY <1>1, <1>2, <1>3, <1>4, <1>6, <1>7, <1>8, <1>9, <1>10, <1>11, <1>12, <1>13, <1>14
        DEF Next, BulkStep, FetchStep

\* However bulks and listings overlap, fail and arrive late: a page that nothing
\* excuses shows the state of every container that others left alone, once all
\* bulks and listings are over (ContainerList.tsx 46-56 and 86-98).
THEOREM ListAlwaysCurrentAtRest == Spec => []ListCurrentAtRest
<1>1. Init => CInv
  <2> SUFFICES ASSUME Init PROVE CInv
    OBVIOUS
  <2>1. SInv
    BY TypeInit DEF Init, SInv, BulkAwaits, SpinnerHonest, InFlight, Fetchers
  <2>2. LInv
    BY TypeInit DEF Init, LInv, OwnersAreOld, FirstListingAlone, SelectionListed,
                    InFlight, Fetchers
  <2>3. OrderInv
    BY DEF Init, OrderInv, ViewsToCome, AgeIsOrder, Listed, UntouchedExist, Fetchers
  <2>4. FollowInv
    BY DEF Init, FollowInv, JobsAwaited, BulksOwn, ListFollows, Running
  <2> QED BY <2>1, <2>2, <2>3, <2>4 DEF CInv
<1>2. CInv /\ [Next]_vars => CInv'
  <2> SUFFICES ASSUME CInv, [Next]_vars PROVE CInv'
    OBVIOUS
  <2>1. SInv'
    BY SpinnerStep DEF CInv
  <2>2. LInv'
    BY TypeStep, SelectionStep DEF CInv, LInv
  <2>3. OrderInv'
    BY OrderStep DEF CInv
  <2> QED BY <2>1, <2>2, <2>3, FollowStep DEF CInv
<1>3. CInv => ListCurrentAtRest
  <2> SUFFICES ASSUME CInv, mounted, AtRest, ~excused, NEW c \in Containers \ touched
               PROVE  Agrees(containers, c)
    BY DEF ListCurrentAtRest, Agrees
  <2>1. ~ListingToCome /\ Fresh = {}
    BY DEF AtRest, ListingToCome, Fresh, Listed, Running, InFlight
  <2> QED BY <2>1 DEF CInv, FollowInv, ListFollows, Followed
<1> QED BY <1>1, <1>2, <1>3, PTL DEF Spec
=============================================================================
