---------------------------- MODULE ConsoleProofs ----------------------------
(***************************************************************************)
(* Theorems about the pages of the web console, for any number of tabs,    *)
(* users, images, clicks, configurations, probes, lines and toasts, and    *)
(* what their composition takes over from them: one inductive invariant    *)
(* per page, in a section each.                                            *)
(***************************************************************************)
EXTENDS MCConsole, Integers, FiniteSetTheorems, WellFoundedInduction, TLAPS

\* In whatever scene, each page takes its own steps or none.
LEMMA EachPageRuns ==
  /\ MCInit => /\ scene \in Scenes /\ Init /\ Preferences!Init /\ Images!Init
               /\ Endpoints!Init /\ History!Init /\ Log!Init /\ Toasts!Init /\ Table!Init
  /\ [MCNext]_<<scene, vars, partVars>> =>
       /\ scene' = scene /\ [Next]_vars
       /\ [Preferences!Next]_preferencesVars /\ [Images!Next]_imagesVars
       /\ [Endpoints!Next]_endpointsVars /\ [History!Next]_historyVars
       /\ [Log!Next]_logVars /\ [Toasts!Next]_toastsVars /\ [Table!Next]_tableVars
BY DEF MCInit, MCNext, partVars

-----------------------------------------------------------------------------
(* Session                                                                  *)

\* A tab between the calls of a login is on the login page, with a user it has
\* found; the item it has set is still there, or it has been disturbed.
LoginUnderWay ==
  \A t \in Tabs :
    /\ pc[t] \in {"setUser", "navigateHome"} => path[t] = "/login" /\ who[t] \in Users
    /\ pc[t] = "setUser" => isLoggedIn \/ t \in disturbed

IInv == TypeOK /\ LoginUnderWay /\ SessionHonest

\* The actions of one tab, one by one.
TabStep(t) ==
  \/ \E p \in Paths : Load(t, p) \/ Navigate(t, p)
  \/ RenderApp(t) \/ Close(t)
  \/ SubmitWrong(t) \/ SetUser(t) \/ NavigateHome(t)
  \/ \E u \in Users : Submit(t, u)
  \/ Logout(t) \/ RemoveUser(t) \/ NavigateLogin(t)

\* Links and the buttons of the browser are navigations.
LEMMA NextIsTabStep == Next => \E t \in Tabs : TabStep(t)
BY DEF Next, TabStep, Follow, BackOrForward

\* A navigation ends on a path that exists, and behind the guard only with a
\* session.
LEMMA LandingChecked ==
  ASSUME NEW p \in Paths
  PROVE  /\ Landing(p) \in Paths
         /\ Guarded(Landing(p)) => isLoggedIn /\ user # Guest
BY PathsAssumption DEF Landing, Guarded, Unguarded, NotFound, Admits

LEMMA InitOk == Init => IInv
BY GuestAssumption, PathsAssumption
DEF Init, IInv, TypeOK, LoginUnderWay, SessionHonest, GuardHonest, HeaderHonest, LoginHonest,
    Guarded, Unguarded, InLayout
-----------------------------------------------------------------------------
(* Types *)

LEMMA TypeStep ==
  ASSUME TypeOK, NEW t \in Tabs, TabStep(t)
  PROVE  TypeOK'
<1> USE DEF TypeOK
<1>1. ASSUME NEW p \in Paths, Load(t, p) PROVE TypeOK'
  BY <1>1, LandingChecked DEF Load, MountHeader, storageVars
<1>2. ASSUME NEW p \in Paths, Navigate(t, p) PROVE TypeOK'
  BY <1>2, LandingChecked DEF Navigate, KeepHeader, MountHeader, storageVars
<1>3. CASE RenderApp(t)
  <2>1. path[t] \in Paths
    BY <1>3 DEF RenderApp, UserMenuOffered, InLayout
  <2> QED
    BY <1>3, <2>1, LandingChecked DEF RenderApp, KeepHeader, MountHeader, storageVars
<1>4. CASE Close(t)
  BY <1>4 DEF Close, storageVars
<1>5. CASE SubmitWrong(t)
  BY <1>5 DEF SubmitWrong, storageVars
<1>6. CASE SetUser(t)
  BY <1>6 DEF SetUser, Others
<1>7. CASE NavigateHome(t)
  BY <1>7, LandingChecked, PathsAssumption DEF NavigateHome, MountHeader, storageVars
<1>8. ASSUME NEW u \in Users, Submit(t, u) PROVE TypeOK'
  BY <1>8 DEF Submit
<1>9. CASE Logout(t)
  BY <1>9 DEF Logout, Others, LoggingIn
<1>10. CASE RemoveUser(t)
  BY <1>10 DEF RemoveUser, Others, LoggingIn
<1>11. CASE NavigateLogin(t)
  BY <1>11, PathsAssumption DEF NavigateLogin, MountHeader, storageVars
<1> QED
  BY <1>1, <1>2, <1>3, <1>4, <1>5, <1>6, <1>7, <1>8, <1>9, <1>10, <1>11 DEF TabStep
-----------------------------------------------------------------------------
(* Logins *)

LEMMA LoginStep ==
  ASSUME TypeOK, LoginUnderWay, LoginHonest, NEW t \in Tabs, TabStep(t)
  PROVE  LoginUnderWay' /\ LoginHonest'
<1> DEFINE Goal == LoginUnderWay /\ LoginHonest
<1> USE DEF TypeOK, LoginUnderWay, LoginHonest
<1>1. ASSUME NEW p \in Paths, Load(t, p) PROVE Goal'
  BY <1>1 DEF Load, storageVars
<1>2. ASSUME NEW p \in Paths, Navigate(t, p) PROVE Goal'
  BY <1>2 DEF Navigate, storageVars
<1>3. CASE RenderApp(t)
  BY <1>3 DEF RenderApp, UserMenuOffered, storageVars
<1>4. CASE Close(t)
  BY <1>4 DEF Close, storageVars
<1>5. CASE SubmitWrong(t)
  BY <1>5 DEF SubmitWrong, storageVars
<1>6. CASE SetUser(t)
  BY <1>6, GuestAssumption DEF SetUser
<1>7. CASE NavigateHome(t)
  BY <1>7 DEF NavigateHome, storageVars
<1>8. ASSUME NEW u \in Users, Submit(t, u) PROVE Goal'
  BY <1>8 DEF Submit, LoginFormOffered
<1>9. CASE Logout(t)
  BY <1>9 DEF Logout, UserMenuOffered, LoggingIn
<1>10. CASE RemoveUser(t)
  BY <1>10 DEF RemoveUser, LoggingIn
<1>11. CASE NavigateLogin(t)
  BY <1>11 DEF NavigateLogin, storageVars
<1> QED
  BY <1>1, <1>2, <1>3, <1>4, <1>5, <1>6, <1>7, <1>8, <1>9, <1>10, <1>11 DEF TabStep
-----------------------------------------------------------------------------
(* The guard *)

\* Two paths of one element are both guarded or both not.
LEMMA ElementsGuarded ==
  ASSUME NEW p, NEW q, Element(p) = Element(q), p # Closed, q # Closed
  PROVE  Guarded(p) <=> Guarded(q)
BY DEF Element, Guarded, Unguarded, NotFound

LEMMA GuardStep ==
  ASSUME TypeOK, LoginUnderWay, GuardHonest, NEW t \in Tabs, TabStep(t)
  PROVE  GuardHonest'
<1> USE DEF TypeOK, GuardHonest
<1>0. ~Guarded("/login") /\ ~Guarded(Closed)
  BY DEF Guarded, Unguarded
<1>1. ASSUME NEW p \in Paths, Load(t, p) PROVE GuardHonest'
  BY <1>1, LandingChecked DEF Load, storageVars
<1>2. ASSUME NEW p \in Paths, Navigate(t, p) PROVE GuardHonest'
  <2>1. CASE Element(p) = Element(path[t])
    BY <1>2, <2>1, ElementsGuarded, PathsAssumption DEF Navigate, storageVars
  <2>2. CASE Element(p) # Element(path[t])
    BY <1>2, <2>2, LandingChecked DEF Navigate, storageVars
  <2> QED
    BY <2>1, <2>2
<1>3. CASE RenderApp(t)
  <2>1. path[t] \in Paths
    BY <1>3 DEF RenderApp, UserMenuOffered, InLayout
  <2> QED
    BY <1>3, <2>1, LandingChecked DEF RenderApp, UserMenuOffered, storageVars
<1>4. CASE Close(t)
  BY <1>0, <1>4 DEF Close, storageVars
<1>5. CASE SubmitWrong(t)
  BY <1>5 DEF SubmitWrong, storageVars
<1>6. CASE SetUser(t)
  BY <1>6, GuestAssumption DEF SetUser, LoginUnderWay
<1>7. CASE NavigateHome(t)
  BY <1>7, LandingChecked, PathsAssumption DEF NavigateHome, storageVars
<1>8. ASSUME NEW u \in Users, Submit(t, u) PROVE GuardHonest'
  BY <1>8 DEF Submit, LoginFormOffered
<1>9. CASE Logout(t)
  BY <1>9 DEF Logout, Others
<1>10. CASE RemoveUser(t)
  BY <1>10 DEF RemoveUser, Others
<1>11. CASE NavigateLogin(t)
  BY <1>0, <1>11 DEF NavigateLogin, storageVars
<1> QED
  BY <1>1, <1>2, <1>3, <1>4, <1>5, <1>6, <1>7, <1>8, <1>9, <1>10, <1>11 DEF TabStep
-----------------------------------------------------------------------------
(* The header *)

LEMMA HeaderStep ==
  ASSUME TypeOK, LoginUnderWay, HeaderHonest, NEW t \in Tabs, TabStep(t)
  PROVE  HeaderHonest'
<1> USE DEF TypeOK, HeaderHonest, InLayout
<1>1. ASSUME NEW p \in Paths, Load(t, p) PROVE HeaderHonest'
  BY <1>1, LandingChecked DEF Load, MountHeader, storageVars
<1>2. ASSUME NEW p \in Paths, Navigate(t, p) PROVE HeaderHonest'
  <2> DEFINE end == IF Element(p) = Element(path[t]) THEN p ELSE Landing(p)
  <2>1. end \in Paths /\ path' = [path EXCEPT ![t] = end] /\ KeepHeader(t, end) /\ user' = user
    BY <1>2, LandingChecked DEF Navigate, storageVars
  <2> QED
    BY <2>1 DEF KeepHeader, MountHeader
<1>3. CASE RenderApp(t)
  <2>1. path[t] \in Paths
    BY <1>3 DEF RenderApp, UserMenuOffered
  <2> QED
    BY <1>3, <2>1, LandingChecked DEF RenderApp, KeepHeader, MountHeader, storageVars
<1>4. CASE Close(t)
  BY <1>4 DEF Close, storageVars
<1>5. CASE SubmitWrong(t)
  BY <1>5 DEF SubmitWrong, storageVars
<1>6. CASE SetUser(t)
  BY <1>6 DEF SetUser, Others, LoginUnderWay
<1>7. CASE NavigateHome(t)
  BY <1>7, LandingChecked, PathsAssumption DEF NavigateHome, MountHeader, storageVars
<1>8. ASSUME NEW u \in Users, Submit(t, u) PROVE HeaderHonest'
  BY <1>8 DEF Submit
<1>9. CASE Logout(t)
  BY <1>9 DEF Logout
<1>10. CASE RemoveUser(t)
  BY <1>10 DEF RemoveUser, Others
<1>11. CASE NavigateLogin(t)
  BY <1>11 DEF NavigateLogin, MountHeader, storageVars
<1> QED
  BY <1>1, <1>2, <1>3, <1>4, <1>5, <1>6, <1>7, <1>8, <1>9, <1>10, <1>11 DEF TabStep
-----------------------------------------------------------------------------
LEMMA Inductive == IInv /\ [Next]_vars => IInv'
<1> SUFFICES ASSUME IInv, [Next]_vars PROVE IInv'
  OBVIOUS
<1>1. CASE UNCHANGED vars
  BY <1>1 DEF vars, storageVars, tabVars, IInv, TypeOK, LoginUnderWay, SessionHonest,
     GuardHonest, HeaderHonest, LoginHonest, InLayout
<1>2. CASE Next
  <2>1. PICK t \in Tabs : TabStep(t)
    BY <1>2, NextIsTabStep
  <2> QED
    BY <2>1, TypeStep, LoginStep, GuardStep, HeaderStep DEF IInv, SessionHonest
<1> QED
  BY <1>1, <1>2

\* The items of the storage, the paths of the tabs and their handlers keep their
\* types (LoginPage.tsx, Header.tsx, ProtectedRoute.tsx).
THEOREM TypeCorrect == Spec => []TypeOK
BY InitOk, Inductive, PTL DEF Spec, IInv

\* However the logins, logouts and navigations of the tabs interleave, a page
\* behind the guard has a session, the header shows the stored user and a login
\* ends inside, except for what another tab did since (ProtectedRoute.tsx 5-12,
\* Header.tsx 52-74, LoginPage.tsx 18-21).
THEOREM SessionAlwaysHonest == Spec => []SessionHonest
BY InitOk, Inductive, PTL DEF Spec, IInv
-----------------------------------------------------------------------------
(* Images                                                                   *)

\* A list is right about an image.
Tells(l, i) == i \in l <=> i \in daemon

\* Listings that are on their way from the daemon, and those of them that will
\* replace the list and are not older than it.
ImagesListed == {f \in Images!Fetchers : fetch[f] = "listed"}
ImagesFresh == {f \in ImagesListed : Images!Live(f) /\ f \notin outdated}

\* A listing of this view will be taken later than the removal of image i.
ImageToCome(i) ==
  \/ \E d \in Deletes : deletePc[d] = "call" /\ i \in called[d]
  \/ \E f \in Images!Fetchers : fetch[f] = "sent" /\ Images!Live(f)

\* The list or a fresh listing is right about i, and behind a fresh listing that is
\* wrong comes a later one that is right.
ImageFollowed(i) ==
  /\ Tells(images, i) \/ \E f \in ImagesFresh : Tells(answer[f], i)
  /\ \A g \in ImagesFresh :
       Tells(answer[g], i) \/ \E f \in ImagesFresh : Tells(answer[f], i) /\ g \in older[f]

\* A deletion lists once it is over, waits for one removal at a time, and what it
\* leaves at the server is orphaned.
ImageJobs ==
  \A d \in Deletes :
    /\ Images!InFlight(d) => deletePc[d] = "over"
    /\ deletePc[d] = "call" => job[d] # None
    /\ job[d] # None /\ deletePc[d] # "call" => job[d] \in orphaned

ImageViews == \A w \in Images!Views : w > view => fetch[w] = "idle"

\* "Older" orders the listings on their way, strictly and transitively.
ImageAges ==
  /\ outdated \subseteq ImagesListed
  /\ \A f \in Images!Fetchers : older[f] \subseteq ImagesListed
  /\ \A f, g \in Images!Fetchers :
       g \in older[f] => f \notin older[g] /\ older[g] \subseteq older[f]

\* As long as nothing excuses the page, the deletions that run belong to the view,
\* and it follows every image that is neither orphaned nor touched by others.
ImageOwners ==
  mounted /\ ~excused => \A d \in Deletes : deletePc[d] = "call" => owner[d] = view
ImageFollows ==
  mounted /\ ~excused =>
    \A i \in Images!Images \ (orphaned \cup touched) : ImageToCome(i) \/ ImageFollowed(i)

ImagesInv ==
  /\ Images!TypeOK /\ ImageJobs /\ ImageViews /\ ImageAges /\ ImageOwners /\ ImageFollows

LEMMA ImageParameters ==
  /\ N \in Nat /\ PageSize \in Nat \ {0} /\ MaxViews \in Nat /\ MaxOutside \in Nat
  /\ Images!Images = 1..N /\ None \notin Images!Images /\ Images!Views = 1..MaxViews
  /\ Images!Fetchers = Deletes \cup Images!Views /\ Deletes \cap Images!Views = {}
BY MCAssumption DEF Images!ParametersOk, Images!Images, Images!Views, Images!Fetchers

\* A loop goes on with one of the ids that are left, or asks for the list.
LEMMA ImageLoop ==
  ASSUME Images!TypeOK, NEW d \in Deletes, NEW ids \in SUBSET Images!Images,
         NEW past \in SUBSET Images!Images, Images!Continue(d, ids, past),
         UNCHANGED <<mounted, view>>
  PROVE  /\ called' = [called EXCEPT ![d] = past] /\ called' \in [Deletes -> SUBSET Images!Images]
         /\ deletePc' \in [Deletes -> {"idle", "call", "over"}]
         /\ todo' \in [Deletes -> SUBSET Images!Images]
         /\ job' \in [Deletes -> Images!Images \cup {None}]
         /\ fetch' \in [Images!Fetchers -> {"idle", "sent", "listed", "over"}]
         /\ loading' \in BOOLEAN /\ selected' \subseteq Images!Images
         /\ \A x \in Deletes : x # d => deletePc'[x] = deletePc[x] /\ job'[x] = job[x]
         /\ \/ ids # {} /\ deletePc'[d] = "call" /\ job'[d] \in ids /\ fetch' = fetch
            \/ /\ ids = {} /\ deletePc'[d] = "over" /\ job'[d] = None
               /\ fetch' = [fetch EXCEPT ![d] = "sent"]
<1> USE DEF Images!TypeOK
<1>1. CASE ids # {}
  <2>1. /\ called' = [called EXCEPT ![d] = past] /\ deletePc' = [deletePc EXCEPT ![d] = "call"]
        /\ UNCHANGED <<fetch, loading, selected>>
    BY <1>1 DEF Images!Continue
  <2>2. PICK i \in ids : todo' = [todo EXCEPT ![d] = ids \ {i}] /\ job' = [job EXCEPT ![d] = i]
    BY <1>1 DEF Images!Continue
  <2> QED BY <1>1, <2>1, <2>2
<1>2. CASE ids = {}
  <2>1. /\ called' = [called EXCEPT ![d] = past] /\ deletePc' = [deletePc EXCEPT ![d] = "over"]
        /\ todo' = [todo EXCEPT ![d] = {}] /\ job' = [job EXCEPT ![d] = None]
        /\ fetch' = [fetch EXCEPT ![d] = "sent"]
        /\ selected' \subseteq selected /\ loading' = (loading \/ (mounted /\ view = owner'[d]))
    BY <1>2 DEF Images!Continue
  <2>2. loading' \in BOOLEAN
    BY <2>1
  <2> QED BY <1>2, <2>1, <2>2, ImageParameters
<1> QED BY <1>1, <1>2

LEMMA ImageTypes ==
  ASSUME Images!TypeOK, ImageJobs, [Images!Next]_imagesVars
  PROVE  Images!TypeOK'
<1> USE ImageParameters
    DEF Images!TypeOK, Images!pageVars, Images!deleteVars, Images!fetchVars, Images!worldVars
<1>1. CASE Images!Open
  <2>1. view + 1 \in Images!Views /\ view + 1 \in Images!Fetchers /\ excused' \in BOOLEAN
    BY <1>1 DEF Images!Open
  <2> QED BY <1>1, <2>1 DEF Images!Open
<1>2. CASE Images!Leave \/ Images!Search \/ UNCHANGED imagesVars
  <2>1. search' \in BOOLEAN
    BY <1>2 DEF Images!Leave, Images!Search, imagesVars
  <2>2. CASE Images!Leave
    <3>1. /\ mounted' = FALSE /\ images' = {} /\ loading' = FALSE /\ page' = 1 /\ selected' = {}
          /\ UNCHANGED <<view, deletePc, owner, todo, called, job, fetch, answer, older, outdated>>
          /\ UNCHANGED <<daemon, outside, touched, excused, orphaned>>
      BY <2>2 DEF Images!Leave
    <3>2. {loading', search', excused'} \subseteq BOOLEAN
      BY <2>1, <3>1
    <3>3. 1 \in 1..(N + 1) /\ FALSE \in BOOLEAN
      OBVIOUS
    <3> QED BY <3>1, <3>2, <3>3
  <2>3. CASE Images!Search
    BY <2>1, <2>3 DEF Images!Search
  <2>4. CASE UNCHANGED imagesVars
    BY <2>4 DEF imagesVars
  <2> QED BY <1>2, <2>2, <2>3, <2>4
<1>3. CASE Images!ToggleSelectAll
  <2>1. Images!PaginatedImages \subseteq images
    BY DEF Images!PaginatedImages, Images!FilteredImages
  <2> HIDE DEF Images!PaginatedImages
  <2> QED BY <1>3, <2>1 DEF Images!ToggleSelectAll
<1>4. ASSUME NEW step \in {-1, 1}, Images!Turn(step) PROVE Images!TypeOK'
  BY <1>4 DEF Images!Turn
<1>5. ASSUME NEW i \in Images!Images, Images!ToggleSelect(i) PROVE Images!TypeOK'
  BY <1>5 DEF Images!ToggleSelect
<1>6. ASSUME NEW i \in Images!Images, Images!Change(i) PROVE Images!TypeOK'
  BY <1>6 DEF Images!Change
<1>7. ASSUME NEW d \in Deletes, Images!HandleDelete(d) PROVE Images!TypeOK'
  <2>1. /\ Images!Continue(d, selected, {}) /\ UNCHANGED <<mounted, view, images, search, page>>
        /\ owner' = [owner EXCEPT ![d] = view]
        /\ UNCHANGED <<answer, older, outdated, daemon, outside, touched, excused, orphaned>>
    BY <1>7 DEF Images!HandleDelete
  <2>2. {} \in SUBSET Images!Images /\ selected \in SUBSET Images!Images
    OBVIOUS
  <2> QED BY <2>1, <2>2, ImageLoop
<1>8. ASSUME NEW d \in Deletes, Images!GiveUp(d), deletePc[d] = "call"
      PROVE  /\ deletePc' \in [Deletes -> {"idle", "call", "over"}]
             /\ {todo', called'} \subseteq [Deletes -> SUBSET Images!Images]
             /\ orphaned' \subseteq Images!Images
  <2>1. job[d] \in Images!Images
    BY <1>8 DEF ImageJobs
  <2> QED BY <1>8, <2>1 DEF Images!GiveUp
<1>9. ASSUME NEW d \in Deletes, Images!Rejected(d) PROVE Images!TypeOK'
  BY <1>8, <1>9 DEF Images!Rejected
<1>10. ASSUME NEW d \in Deletes, Images!RemoveFails(d) PROVE Images!TypeOK'
  <2>1. job' \in [Deletes -> Images!Images \cup {None}]
    BY <1>10 DEF Images!RemoveFails
  <2>2. UNCHANGED <<owner, mounted, view, images, loading, search, page, selected>>
    BY <1>10 DEF Images!RemoveFails
  <2>3. UNCHANGED <<fetch, answer, older, outdated, daemon, outside, touched, excused>>
    BY <1>10 DEF Images!RemoveFails
  <2>4. CASE deletePc[d] = "call"
    BY <1>8, <1>10, <2>1, <2>2, <2>3, <2>4 DEF Images!RemoveFails
  <2>5. CASE deletePc[d] # "call"
    BY <1>10, <2>1, <2>2, <2>3, <2>5 DEF Images!RemoveFails
  <2> QED BY <2>4, <2>5
<1>11. ASSUME NEW d \in Deletes, Images!Removed(d) PROVE Images!TypeOK'
  <2>1. /\ job[d] \in daemon /\ daemon' = daemon \ {job[d]}
        /\ UNCHANGED <<mounted, view, images, search, page>>
        /\ UNCHANGED <<answer, older, outdated, outside, touched, excused, orphaned>>
    BY <1>11 DEF Images!Removed
  <2>2. CASE deletePc[d] = "call"
    <3>1. owner' = owner /\ Images!Continue(d, todo[d], called[d] \cup {job[d]})
      BY <1>11, <2>2 DEF Images!Removed
    <3>2. todo[d] \in SUBSET Images!Images /\ called[d] \cup {job[d]} \in SUBSET Images!Images
      BY <2>1
    <3> HIDE DEF Images!TypeOK
    <3>3. /\ called' \in [Deletes -> SUBSET Images!Images]
          /\ deletePc' \in [Deletes -> {"idle", "call", "over"}]
          /\ todo' \in [Deletes -> SUBSET Images!Images]
          /\ job' \in [Deletes -> Images!Images \cup {None}]
          /\ fetch' \in [Images!Fetchers -> {"idle", "sent", "listed", "over"}]
          /\ loading' \in BOOLEAN /\ selected' \subseteq Images!Images
      BY <2>1, <3>1, <3>2, ImageLoop
    <3> QED BY <2>1, <3>1, <3>3 DEF Images!TypeOK
  <2>3. CASE deletePc[d] # "call"
    <3>1. UNCHANGED <<deletePc, owner, todo, called, fetch, loading, selected>>
          /\ job' = [job EXCEPT ![d] = None]
      BY <1>11, <2>3 DEF Images!Removed
    <3> QED BY <2>1, <3>1
  <2> QED BY <2>2, <2>3
<1>12. ASSUME NEW f \in Images!Fetchers, Images!TakeListing(f) PROVE Images!TypeOK'
  <2>1. {g \in Images!Fetchers : fetch[g] = "listed"} \subseteq Images!Fetchers
    OBVIOUS
  <2> QED BY <1>12, <2>1 DEF Images!TakeListing
<1>13. ASSUME NEW f \in Images!Fetchers, Images!Finished(f)
       PROVE  /\ fetch' \in [Images!Fetchers -> {"idle", "sent", "listed", "over"}]
              /\ answer' \in [Images!Fetchers -> SUBSET Images!Images]
              /\ older' \in [Images!Fetchers -> SUBSET Images!Fetchers]
              /\ UNCHANGED <<mounted, view, search, page, selected>>
              /\ UNCHANGED <<deletePc, owner, todo, called, job>>
              /\ UNCHANGED <<daemon, outside, touched, orphaned>>
  BY <1>13 DEF Images!Finished
<1>14. ASSUME NEW f \in Images!Fetchers, Images!FetchOk(f) PROVE Images!TypeOK'
  <2>1. Images!Finished(f)
    BY <1>14 DEF Images!FetchOk
  <2>2. /\ images' \subseteq Images!Images /\ outdated' \subseteq Images!Fetchers
        /\ {loading', excused'} \subseteq BOOLEAN
    <3>1. CASE Images!Live(f)
      <4>1. images' = answer[f] /\ loading' = FALSE /\ outdated' = (outdated \cup older[f]) \ {f}
            /\ excused' = (excused \/ f \in outdated)
        BY <1>14, <3>1 DEF Images!FetchOk
      <4>2. excused' \in BOOLEAN
        BY <4>1
      <4> QED BY <4>1, <4>2
    <3>2. CASE ~Images!Live(f)
      BY <1>14, <3>2 DEF Images!FetchOk
    <3> QED BY <3>1, <3>2
  <2> QED BY <1>13, <2>1, <2>2
<1>15. ASSUME NEW f \in Images!Fetchers, Images!FetchFails(f) PROVE Images!TypeOK'
  <2>1. Images!Finished(f)
    BY <1>15 DEF Images!FetchFails
  <2>2. /\ images' \subseteq Images!Images /\ outdated' \subseteq Images!Fetchers
        /\ {loading', excused'} \subseteq BOOLEAN
    BY <1>15 DEF Images!FetchFails
  <2> QED BY <1>13, <2>1, <2>2
<1> QED
  BY <1>1, <1>2, <1>3, <1>4, <1>5, <1>6, <1>7, <1>9, <1>10, <1>11, <1>12, <1>14, <1>15
  DEF Images!Next

\* What leaves deletions, listings and the daemon alone and at most closes the page.
LEMMA ImagesStill ==
  ASSUME ImagesInv, UNCHANGED <<view, deletePc, owner, todo, called, job>>,
         UNCHANGED <<fetch, answer, older, outdated, daemon, touched, excused, orphaned>>,
         mounted' = FALSE \/ UNCHANGED <<mounted, images>>
  PROVE  ImageJobs' /\ ImageViews' /\ ImageAges' /\ ImageOwners' /\ ImageFollows'
<1> USE DEF ImagesInv
<1>1. ImageJobs' /\ ImageViews' /\ ImageAges'
  BY DEF ImageJobs, ImageViews, ImageAges, ImagesListed, Images!InFlight
<1>2. CASE mounted' = FALSE
  BY <1>1, <1>2 DEF ImageOwners, ImageFollows
<1>3. CASE UNCHANGED <<mounted, images>>
  <2>1. ImagesFresh' = ImagesFresh /\ \A f : Images!Live(f)' <=> Images!Live(f)
    BY <1>3 DEF ImagesFresh, ImagesListed, Images!Live
  <2>2. \A i : (ImageToCome(i)' <=> ImageToCome(i)) /\ (ImageFollowed(i)' <=> ImageFollowed(i))
    BY <1>3, <2>1 DEF ImageToCome, ImageFollowed, Tells
  <2>3. ImageOwners' /\ ImageFollows'
    BY <1>3, <2>2 DEF ImageOwners, ImageFollows
  <2> QED BY <1>1, <2>3
<1> QED BY <1>2, <1>3

\* The next step of a loop asks for a listing at most.
LEMMA ImageLoopOrders ==
  ASSUME ImagesInv, NEW d \in Deletes, deletePc[d] # "over",
         NEW ids \in SUBSET Images!Images, NEW past \in SUBSET Images!Images,
         Images!Continue(d, ids, past), UNCHANGED <<mounted, view, older, outdated, orphaned>>
  PROVE  ImageJobs' /\ ImageViews' /\ ImageAges'
<1> USE ImageParameters DEF ImagesInv
<1>1. /\ \A x \in Deletes : x # d => deletePc'[x] = deletePc[x] /\ job'[x] = job[x]
      /\ \/ ids # {} /\ deletePc'[d] = "call" /\ job'[d] \in ids /\ fetch' = fetch
         \/ /\ ids = {} /\ deletePc'[d] = "over" /\ job'[d] = None
            /\ fetch' = [fetch EXCEPT ![d] = "sent"]
  BY ImageLoop
<1>2. d \in Images!Fetchers /\ d \notin Images!Views /\ fetch[d] # "listed" /\ ~Images!InFlight(d)
  BY DEF ImageJobs, Images!InFlight
<1>3. \A f \in Images!Fetchers : f # d => fetch'[f] = fetch[f]
  BY <1>1 DEF Images!TypeOK
<1>4. fetch'[d] # "listed"
  BY <1>1, <1>2 DEF Images!TypeOK
<1>5. ImageJobs'
  <2> SUFFICES ASSUME NEW x \in Deletes
               PROVE  /\ Images!InFlight(x)' => deletePc'[x] = "over"
                      /\ deletePc'[x] = "call" => job'[x] # None
                      /\ job'[x] # None /\ deletePc'[x] # "call" => job'[x] \in orphaned'
    BY DEF ImageJobs
  <2>1. CASE x = d
    BY <1>1, <1>2, <2>1 DEF Images!InFlight
  <2>2. CASE x # d
    BY <1>1, <1>3, <2>2 DEF ImageJobs, Images!InFlight
  <2> QED BY <2>1, <2>2
<1>6. ImageViews'
  BY <1>2, <1>3 DEF ImageViews
<1>7. ImagesListed' = ImagesListed
  BY <1>2, <1>3, <1>4 DEF ImagesListed
<1> QED BY <1>5, <1>6, <1>7 DEF ImageAges

\* The loop goes on with what it has called, or a listing of this view comes: an
\* image that this step removed is among the calls.
LEMMA ImageLoopFollows ==
  ASSUME ImagesInv, NEW d \in Deletes, deletePc[d] # "over",
         NEW ids \in SUBSET Images!Images, NEW past \in SUBSET Images!Images,
         Images!Continue(d, ids, past), deletePc[d] = "call" => called[d] \subseteq past,
         owner' = owner \/ owner' = [owner EXCEPT ![d] = view],
         mounted /\ ~excused => owner'[d] = view,
         \A i \in Images!Images : i \notin past => (i \in daemon' <=> i \in daemon),
         UNCHANGED <<mounted, view, images, answer, older, outdated, excused, orphaned, touched>>
  PROVE  ImageOwners' /\ ImageFollows'
<1> USE ImageParameters DEF ImagesInv
<1>1. /\ called' = [called EXCEPT ![d] = past]
      /\ \A x \in Deletes : x # d => deletePc'[x] = deletePc[x] /\ job'[x] = job[x]
      /\ \/ ids # {} /\ deletePc'[d] = "call" /\ job'[d] \in ids /\ fetch' = fetch
         \/ /\ ids = {} /\ deletePc'[d] = "over" /\ job'[d] = None
            /\ fetch' = [fetch EXCEPT ![d] = "sent"]
  BY ImageLoop
<1>2. \A x \in Deletes : x # d => owner'[x] = owner[x] /\ called'[x] = called[x]
  BY <1>1 DEF Images!TypeOK
<1>3. called'[d] = past /\ d \in Images!Fetchers
  BY <1>1 DEF Images!TypeOK
<1>4. ImageOwners'
  BY <1>1, <1>2 DEF ImageOwners
<1>5. ASSUME mounted', ~excused', NEW i \in Images!Images \ (orphaned' \cup touched')
      PROVE  ImageToCome(i)' \/ ImageFollowed(i)'
  <2>1. CASE fetch' = [fetch EXCEPT ![d] = "sent"]
    <3>1. fetch'[d] = "sent" /\ Images!Live(d)'
      BY <1>3, <1>5, <2>1 DEF Images!Live, Images!TypeOK
    <3> QED BY <1>3, <3>1 DEF ImageToCome
  <2>2. CASE fetch' = fetch /\ deletePc'[d] = "call"
    <3>1. CASE i \in past
      BY <1>3, <2>2, <3>1 DEF ImageToCome
    <3>2. CASE i \notin past
      <4>1. \A f \in Images!Fetchers : f # d => (Images!Live(f)' <=> Images!Live(f))
        BY <1>2 DEF Images!Live
      <4>2. fetch[d] \notin {"sent", "listed"}
        BY DEF ImageJobs, Images!InFlight
      <4>3. ImageToCome(i) => ImageToCome(i)'
        <5>1. ASSUME NEW x \in Deletes, deletePc[x] = "call", i \in called[x]
              PROVE  ImageToCome(i)'
          <6>1. x # d
            BY <3>2, <5>1
          <6> QED BY <1>1, <1>2, <5>1, <6>1 DEF ImageToCome
        <5>2. ASSUME NEW f \in Images!Fetchers, fetch[f] = "sent", Images!Live(f)
              PROVE  ImageToCome(i)'
          BY <2>2, <4>1, <4>2, <5>2 DEF ImageToCome
        <5> QED BY <5>1, <5>2 DEF ImageToCome
      <4>4. ImagesFresh' = ImagesFresh
        BY <2>2, <4>1, <4>2 DEF ImagesFresh, ImagesListed
      <4>5. ImageFollowed(i) => ImageFollowed(i)'
        BY <3>2, <4>4 DEF ImageFollowed, Tells
      <4> QED BY <1>5, <4>3, <4>5 DEF ImageFollows
    <3> QED BY <3>1, <3>2
  <2> QED BY <1>1, <2>1, <2>2
<1> QED BY <1>4, <1>5 DEF ImageFollows

\* What a deletion that is given up has called is orphaned.
LEMMA ImageGivenUp ==
  ASSUME ImagesInv, NEW d \in Deletes, deletePc[d] = "call", Images!GiveUp(d),
         job' = job \/ job' = [job EXCEPT ![d] = None],
         UNCHANGED <<owner, mounted, view, images, fetch, answer, older, outdated>>,
         UNCHANGED <<daemon, touched, excused>>
  PROVE  ImageJobs' /\ ImageViews' /\ ImageAges' /\ ImageOwners' /\ ImageFollows'
<1> USE ImageParameters DEF ImagesInv
<1>1. /\ deletePc'[d] = "over" /\ called'[d] = {} /\ orphaned' = orphaned \cup called[d] \cup {job[d]}
      /\ \A x \in Deletes : x # d => deletePc'[x] = deletePc[x] /\ called'[x] = called[x]
  BY DEF Images!GiveUp, Images!TypeOK
<1>2. /\ job'[d] = job[d] \/ job'[d] = None
      /\ \A x \in Deletes : x # d => job'[x] = job[x]
  BY DEF Images!TypeOK
<1>3. ImageJobs'
  BY <1>1, <1>2 DEF ImageJobs, Images!InFlight
<1>4. ImageViews' /\ ImageAges' /\ ImageOwners'
  BY <1>1 DEF ImageViews, ImageAges, ImagesListed, ImageOwners
<1>5. ASSUME mounted', ~excused', NEW i \in Images!Images \ (orphaned' \cup touched')
      PROVE  ImageToCome(i)' \/ ImageFollowed(i)'
  <2>1. ImageToCome(i) \/ ImageFollowed(i)
    BY <1>1, <1>5 DEF ImageFollows
  <2>2. \A f : Images!Live(f)' <=> Images!Live(f)
    BY DEF Images!Live
  <2>3. ImageToCome(i) => ImageToCome(i)'
    <3>1. ASSUME NEW x \in Deletes, deletePc[x] = "call", i \in called[x] PROVE ImageToCome(i)'
      <4>1. x # d
        BY <1>1, <1>5, <3>1
      <4> QED BY <1>1, <3>1, <4>1 DEF ImageToCome
    <3>2. ASSUME NEW f \in Images!Fetchers, fetch[f] = "sent", Images!Live(f) PROVE ImageToCome(i)'
      BY <2>2, <3>2 DEF ImageToCome
    <3> QED BY <3>1, <3>2 DEF ImageToCome
  <2>4. ImagesFresh' = ImagesFresh
    BY <2>2 DEF ImagesFresh, ImagesListed
  <2>5. ImageFollowed(i)' <=> ImageFollowed(i)
    BY <2>4 DEF ImageFollowed, Tells
  <2> QED BY <2>1, <2>3, <2>5
<1> QED BY <1>3, <1>4, <1>5 DEF ImageFollows

\* An orphaned image that goes, or one that others change, is not spoken of.
LEMMA ImageElsewhere ==
  ASSUME ImagesInv, NEW d \in Deletes, deletePc[d] # "call",
         NEW i \in Images!Images, i \in orphaned \/ i \in touched',
         job' = job \/ job' = [job EXCEPT ![d] = None],
         \A x \in Images!Images : x # i => (x \in daemon' <=> x \in daemon),
         touched \subseteq touched',
         UNCHANGED <<mounted, view, images, deletePc, owner, todo, called>>,
         UNCHANGED <<fetch, answer, older, outdated, excused, orphaned>>
  PROVE  ImageJobs' /\ ImageViews' /\ ImageAges' /\ ImageOwners' /\ ImageFollows'
<1> USE DEF ImagesInv
<1>1. job'[d] = job[d] \/ job'[d] = None
  BY DEF Images!TypeOK
<1>2. \A x \in Deletes : x # d => job'[x] = job[x]
  BY DEF Images!TypeOK
<1>3. ImageJobs'
  BY <1>1, <1>2 DEF ImageJobs, Images!InFlight
<1>4. ImageViews' /\ ImageAges' /\ ImageOwners'
  BY DEF ImageViews, ImageAges, ImagesListed, ImageOwners
<1>5. \A f : Images!Live(f)' <=> Images!Live(f)
  BY DEF Images!Live
<1>6. ImagesFresh' = ImagesFresh /\ \A x : ImageToCome(x)' <=> ImageToCome(x)
  BY <1>5 DEF ImagesFresh, ImagesListed, ImageToCome
<1>7. \A x \in Images!Images : x # i => (ImageFollowed(x)' <=> ImageFollowed(x))
  BY <1>6 DEF ImageFollowed, Tells
<1> QED BY <1>3, <1>4, <1>6, <1>7 DEF ImageFollows

\* A listing taken now is right, and newer than all that are on their way.
LEMMA ImagesTaken ==
  ASSUME ImagesInv, NEW f \in Images!Fetchers, Images!TakeListing(f)
  PROVE  ImageJobs' /\ ImageViews' /\ ImageAges' /\ ImageOwners' /\ ImageFollows'
<1> USE DEF ImagesInv
<1>1. /\ fetch[f] = "sent" /\ fetch' = [fetch EXCEPT ![f] = "listed"]
      /\ UNCHANGED <<outdated, mounted, view, images, deletePc, owner, called, job>>
      /\ UNCHANGED <<daemon, touched, excused, orphaned>>
  BY DEF Images!TakeListing, Images!pageVars, Images!deleteVars, Images!worldVars
<1>2. /\ answer'[f] = daemon /\ older'[f] = ImagesListed
      /\ \A g \in Images!Fetchers : g # f => answer'[g] = answer[g] /\ older'[g] = older[g]
  BY DEF Images!TakeListing, Images!TypeOK, ImagesListed
<1>3. \A g \in Images!Fetchers : g # f => fetch'[g] = fetch[g]
  BY <1>1 DEF Images!TypeOK
<1>4. ImagesListed' = ImagesListed \cup {f} /\ f \notin ImagesListed /\ f \notin outdated
  BY <1>1 DEF ImagesListed, Images!TypeOK, ImageAges
<1>5. ImageJobs' /\ ImageViews' /\ ImageOwners'
  <2>1. \A g \in Images!Fetchers : Images!InFlight(g)' <=> Images!InFlight(g)
    BY <1>1 DEF Images!InFlight, Images!TypeOK
  <2>2. ImageJobs'
    BY <1>1, <2>1, ImageParameters DEF ImageJobs
  <2>3. ImageViews'
    BY <1>1, <1>3, ImageParameters DEF ImageViews
  <2> QED BY <1>1, <2>2, <2>3 DEF ImageOwners
<1>6. ImageAges'
  <2>1. outdated' \subseteq ImagesListed'
    BY <1>1, <1>4 DEF ImageAges
  <2>2. \A g \in Images!Fetchers : older'[g] \subseteq ImagesListed'
    BY <1>2, <1>4 DEF ImageAges
  <2>3. ASSUME NEW g \in Images!Fetchers, NEW h \in Images!Fetchers, h \in older'[g]
        PROVE  g \notin older'[h] /\ older'[h] \subseteq older'[g]
    BY <1>2, <1>4, <2>3 DEF ImageAges
  <2> QED BY <2>1, <2>2, <2>3 DEF ImageAges
<1>7. \A g \in Images!Fetchers : Images!Live(g)' <=> Images!Live(g)
  BY <1>1 DEF Images!Live
<1>8. ASSUME mounted', ~excused', NEW i \in Images!Images \ (orphaned' \cup touched'),
             ~ImageToCome(i)'
      PROVE  ImageFollowed(i)'
  <2>1. CASE Images!Live(f)
    <3>1. Tells(answer[f], i)'
      BY <1>1, <1>2 DEF Tells
    <3>2. f \in ImagesFresh'
      BY <1>1, <1>4, <1>7, <2>1 DEF ImagesFresh
    <3>3. \A g \in ImagesFresh' : g = f \/ g \in older'[f]
      BY <1>2, <1>4 DEF ImagesFresh
    <3> QED BY <3>1, <3>2, <3>3 DEF ImageFollowed
  <2>2. CASE ~Images!Live(f)
    <3>1. ~ImageToCome(i)
      BY <1>1, <1>3, <1>7, <1>8, <2>2 DEF ImageToCome
    <3>2. ImagesFresh' = ImagesFresh /\ ImagesFresh \subseteq Images!Fetchers /\ f \notin ImagesFresh
      BY <1>1, <1>4, <1>7, <2>2 DEF ImagesFresh, ImagesListed
    <3>3. ImageFollowed(i)
      BY <1>1, <1>8, <3>1 DEF ImageFollows
    <3>4. /\ Tells(images, i)' <=> Tells(images, i)
          /\ \A g \in ImagesFresh : /\ Tells(answer[g], i)' <=> Tells(answer[g], i)
                                    /\ older'[g] = older[g]
      BY <1>1, <1>2, <3>2 DEF Tells
    <3> QED BY <3>2, <3>3, <3>4 DEF ImageFollowed
  <2> QED BY <2>1, <2>2
<1> QED BY <1>5, <1>6, <1>8 DEF ImageFollows

\* A listing that is over leaves the order.
LEMMA ImageListingOver ==
  ASSUME ImagesInv, NEW f \in Images!Fetchers, Images!InFlight(f), Images!Finished(f),
         outdated' \subseteq (outdated \cup older[f]) \ {f}
  PROVE  ImageJobs' /\ ImageViews' /\ ImageAges'
<1> USE ImageParameters DEF ImagesInv
<1>1. /\ fetch' = [fetch EXCEPT ![f] = "over"]
      /\ UNCHANGED <<view, deletePc, job, orphaned>>
  BY DEF Images!Finished, Images!deleteVars
<1>2. fetch'[f] = "over" /\ \A g \in Images!Fetchers : g # f => fetch'[g] = fetch[g]
  BY <1>1 DEF Images!TypeOK
<1>3. \A g \in Images!Fetchers : older'[g] = IF g = f THEN {} ELSE older[g] \ {f}
  BY DEF Images!Finished
<1>4. ImagesListed' = ImagesListed \ {f}
  BY <1>2 DEF ImagesListed
<1>5. ImageJobs'
  BY <1>1, <1>2 DEF ImageJobs, Images!InFlight
<1>6. ImageViews'
  BY <1>1, <1>2 DEF ImageViews, Images!InFlight
<1>7. outdated' \subseteq ImagesListed'
  BY <1>4 DEF ImageAges
<1>8. ASSUME NEW g \in Images!Fetchers PROVE older'[g] \subseteq ImagesListed'
  <2>1. older'[g] \subseteq older[g] \ {f}
    BY <1>3
  <2>2. older[g] \subseteq ImagesListed
    BY DEF ImageAges
  <2> QED BY <1>4, <2>1, <2>2
<1>9. ASSUME NEW g \in Images!Fetchers, NEW h \in Images!Fetchers, h \in older'[g]
      PROVE  g \notin older'[h] /\ older'[h] \subseteq older'[g]
  <2>1. g # f /\ h # f /\ h \in older[g]
    BY <1>3, <1>9
  <2>2. g \notin older[h] /\ older[h] \subseteq older[g]
    BY <2>1 DEF ImageAges
  <2> QED BY <1>3, <2>1, <2>2
<1> QED BY <1>5, <1>6, <1>7, <1>8, <1>9 DEF ImageAges

\* A listing that arrives takes what it is newer than out of the fresh ones, and
\* what it is wrong about is right in a newer one.
LEMMA ImagesArrived ==
  ASSUME ImagesInv, NEW f \in Images!Fetchers, Images!FetchOk(f)
  PROVE  ImageJobs' /\ ImageViews' /\ ImageAges' /\ ImageOwners' /\ ImageFollows'
<1> USE DEF ImagesInv
<1>1. /\ fetch[f] = "listed" /\ Images!Finished(f)
      /\ fetch' = [fetch EXCEPT ![f] = "over"]
      /\ UNCHANGED <<mounted, view, deletePc, owner, called, job, daemon, touched, orphaned>>
  BY DEF Images!FetchOk, Images!Finished, Images!deleteVars, Images!worldVars
<1>2. /\ \A g \in Images!Fetchers : g # f => /\ fetch'[g] = fetch[g] /\ answer'[g] = answer[g]
                                            /\ older'[g] = older[g] \ {f}
      /\ fetch'[f] = "over"
  BY <1>1 DEF Images!Finished, Images!TypeOK
<1>3. ImagesListed' = ImagesListed \ {f}
  BY <1>2 DEF ImagesListed
<1>4. ImageJobs' /\ ImageViews' /\ ImageAges'
  BY <1>1, ImageListingOver DEF Images!FetchOk, Images!InFlight
<1>5. excused => excused'
  BY DEF Images!FetchOk
<1>6. ImageOwners'
  BY <1>1, <1>5 DEF ImageOwners
<1>7. /\ \A g : Images!Live(g)' <=> Images!Live(g)
      /\ \A i : ImageToCome(i) => ImageToCome(i)'
  <2>1. \A g : Images!Live(g)' <=> Images!Live(g)
    BY <1>1 DEF Images!Live
  <2> QED BY <1>1, <1>2, <2>1 DEF ImageToCome
<1>8. ASSUME mounted', ~excused', NEW i \in Images!Images \ (orphaned' \cup touched'),
             ~ImageToCome(i)'
      PROVE  ImageFollowed(i)'
  <2>1. ImageFollowed(i)
    BY <1>1, <1>5, <1>7, <1>8 DEF ImageFollows
  <2>2. CASE Images!Live(f)
    <3>1. /\ images' = answer[f] /\ outdated' = (outdated \cup older[f]) \ {f}
          /\ f \notin outdated
      BY <1>8, <2>2 DEF Images!FetchOk
    <3>2. f \in ImagesFresh
      BY <1>1, <2>2, <3>1 DEF ImagesFresh, ImagesListed
    <3>3. ImagesFresh' = ImagesFresh \ (older[f] \cup {f})
      BY <1>3, <1>7, <3>1 DEF ImagesFresh, ImagesListed
    <3>4. ASSUME NEW g \in ImagesFresh, g = f \/ g \in ImagesFresh', ~Tells(answer[g], i)
          PROVE  \E h \in ImagesFresh' : Tells(answer[h], i) /\ g \in older[h]
      <4>1. PICK h \in ImagesFresh : Tells(answer[h], i) /\ g \in older[h]
        BY <2>1, <3>4 DEF ImageFollowed
      <4>2. h \in Images!Fetchers /\ g \in Images!Fetchers
        BY DEF ImagesFresh, ImagesListed
      <4>3. h # f
        BY <3>3, <3>4, <4>1
      <4>4. h \notin older[f]
        BY <3>3, <3>4, <4>1, <4>2 DEF ImageAges
      <4> QED BY <3>3, <4>1, <4>3, <4>4
    <3>5. Tells(images, i)' \/ \E h \in ImagesFresh' : Tells(answer[h], i)'
      <4>1. CASE Tells(answer[f], i)
        BY <1>1, <3>1, <4>1 DEF Tells
      <4>2. CASE ~Tells(answer[f], i)
        <5>1. PICK h \in ImagesFresh' : Tells(answer[h], i)
          BY <3>2, <3>4, <4>2
        <5>2. answer'[h] = answer[h]
          BY <1>2, <3>3, <5>1 DEF ImagesFresh, ImagesListed
        <5> QED BY <1>1, <5>1, <5>2 DEF Tells
      <4> QED BY <4>1, <4>2
    <3>6. ASSUME NEW g \in ImagesFresh', ~Tells(answer[g], i)'
          PROVE  \E h \in ImagesFresh' : Tells(answer[h], i)' /\ g \in older'[h]
      <4>1. \A x \in ImagesFresh' : x \in ImagesFresh /\ x \in Images!Fetchers /\ x # f
        BY <3>3 DEF ImagesFresh, ImagesListed
      <4>2. ~Tells(answer[g], i)
        BY <1>1, <1>2, <3>6, <4>1 DEF Tells
      <4>3. PICK h \in ImagesFresh' : Tells(answer[h], i) /\ g \in older[h]
        BY <3>4, <4>1, <4>2
      <4> QED BY <1>1, <1>2, <4>1, <4>3 DEF Tells
    <3> QED BY <3>5, <3>6 DEF ImageFollowed
  <2>3. CASE ~Images!Live(f)
    <3>1. images' = images /\ outdated' = outdated \ {f}
      BY <2>3 DEF Images!FetchOk
    <3>2. ImagesFresh' = ImagesFresh
      BY <1>3, <1>7, <2>3, <3>1 DEF ImagesFresh, ImagesListed
    <3>3. \A x \in ImagesFresh : x \in Images!Fetchers /\ x # f
      BY <2>3 DEF ImagesFresh, ImagesListed
    <3>4. \A x \in ImagesFresh : /\ Tells(answer[x], i)' <=> Tells(answer[x], i)
                                /\ older'[x] = older[x] \ {f}
      BY <1>1, <1>2, <3>3 DEF Tells
    <3>5. Tells(images, i)' <=> Tells(images, i)
      BY <1>1, <3>1 DEF Tells
    <3> QED BY <2>1, <3>2, <3>3, <3>4, <3>5 DEF ImageFollowed
  <2> QED BY <2>2, <2>3
<1> QED BY <1>4, <1>6, <1>8 DEF ImageFollows

\* A page that is opened again has a listing of its own to come.
LEMMA ImagesOpened ==
  ASSUME ImagesInv, Images!Open
  PROVE  ImageJobs' /\ ImageViews' /\ ImageAges' /\ ImageOwners' /\ ImageFollows'
<1> USE ImageParameters DEF ImagesInv
<1>1. PICK n \in Images!Views : n = view + 1 /\ n \in Images!Fetchers /\ n \notin Deletes
  <2>1. view < MaxViews /\ view \in 0..MaxViews
    BY DEF Images!Open, Images!TypeOK
  <2>2. view + 1 \in Images!Views
    BY <2>1
  <2> QED BY <2>2
<1>2. fetch[n] = "idle"
  BY <1>1 DEF ImageViews, Images!TypeOK
<1>3. /\ fetch' = [fetch EXCEPT ![n] = "sent"] /\ view' = n /\ mounted' = TRUE
      /\ excused' = \E d \in Deletes : deletePc[d] = "call" \/ job[d] # None
      /\ UNCHANGED <<deletePc, owner, called, job, older, outdated, orphaned>>
  BY <1>1 DEF Images!Open, Images!deleteVars
<1>4. fetch'[n] = "sent" /\ \A f \in Images!Fetchers : f # n => fetch'[f] = fetch[f]
  BY <1>3 DEF Images!TypeOK
<1>5. ImagesListed' = ImagesListed
  BY <1>2, <1>4 DEF ImagesListed
<1>6. ImageJobs' /\ ImageAges'
  BY <1>1, <1>3, <1>4, <1>5 DEF ImageJobs, ImageAges, Images!InFlight
<1>7. ImageViews'
  BY <1>1, <1>3, <1>4 DEF ImageViews, Images!TypeOK
<1>8. Images!Live(n)'
  BY <1>1, <1>3 DEF Images!Live
<1>9. ImageOwners' /\ ImageFollows'
  BY <1>1, <1>3, <1>4, <1>8 DEF ImageOwners, ImageFollows, ImageToCome
<1> QED BY <1>6, <1>7, <1>9

LEMMA ImagesStep ==
  ASSUME ImagesInv, [Images!Next]_imagesVars
  PROVE  ImagesInv'
<1> DEFINE Goal == ImageJobs' /\ ImageViews' /\ ImageAges' /\ ImageOwners' /\ ImageFollows'
<1> USE ImageParameters
    DEF Images!pageVars, Images!deleteVars, Images!fetchVars, Images!worldVars
<1>0. Images!TypeOK'
  BY ImageTypes DEF ImagesInv
<1>1. ASSUME Images!Open PROVE Goal
  BY <1>1, ImagesOpened
<1>2. ASSUME Images!Leave \/ Images!Search \/ Images!ToggleSelectAll \/ UNCHANGED imagesVars
      PROVE  Goal
  BY <1>2, ImagesStill
  DEF Images!Leave, Images!Search, Images!ToggleSelectAll, imagesVars
<1>3. ASSUME NEW step \in {-1, 1}, Images!Turn(step) PROVE Goal
  BY <1>3, ImagesStill DEF Images!Turn
<1>4. ASSUME NEW i \in Images!Images, Images!ToggleSelect(i) PROVE Goal
  BY <1>4, ImagesStill DEF Images!ToggleSelect
<1>5. ASSUME NEW i \in Images!Images, Images!Change(i) PROVE Goal
  <2>1. /\ touched' = touched \cup {i} /\ \A x \in Images!Images : x # i => (x \in daemon' <=> x \in daemon)
        /\ UNCHANGED <<mounted, view, images, deletePc, owner, todo, called, job>>
        /\ UNCHANGED <<fetch, answer, older, outdated, excused, orphaned>>
    BY <1>5 DEF Images!Change
  <2>2. ImageJobs' /\ ImageViews' /\ ImageAges' /\ ImageOwners'
    BY <2>1 DEF ImagesInv, ImageJobs, Images!InFlight, ImageViews, ImageAges, ImagesListed, ImageOwners
  <2>3. \A f : Images!Live(f)' <=> Images!Live(f)
    BY <2>1 DEF Images!Live
  <2>4. ImagesFresh' = ImagesFresh /\ \A x : ImageToCome(x)' <=> ImageToCome(x)
    BY <2>1, <2>3 DEF ImagesFresh, ImagesListed, ImageToCome
  <2>5. \A x \in Images!Images : x # i => (ImageFollowed(x)' <=> ImageFollowed(x))
    BY <2>1, <2>4 DEF ImageFollowed, Tells
  <2> QED BY <2>1, <2>2, <2>4, <2>5 DEF ImagesInv, ImageFollows
<1>6. ASSUME NEW d \in Deletes, Images!HandleDelete(d) PROVE Goal
  <2>1. /\ deletePc[d] = "idle" /\ owner' = [owner EXCEPT ![d] = view]
        /\ Images!Continue(d, selected, {})
        /\ UNCHANGED <<mounted, view, images, answer, older, outdated, excused, orphaned, touched, daemon>>
    BY <1>6 DEF Images!HandleDelete
  <2>2. owner'[d] = view /\ selected \in SUBSET Images!Images /\ {} \in SUBSET Images!Images
    BY <2>1 DEF ImagesInv, Images!TypeOK
  <2>3. ImageJobs' /\ ImageViews' /\ ImageAges'
    BY <2>1, <2>2, ImageLoopOrders
  <2>4. ImageOwners' /\ ImageFollows'
    BY <2>1, <2>2, ImageLoopFollows
  <2> QED BY <2>3, <2>4
<1>7. ASSUME NEW d \in Deletes, Images!Rejected(d) PROVE Goal
  BY <1>7, ImageGivenUp DEF Images!Rejected
<1>8. ASSUME NEW d \in Deletes, Images!RemoveFails(d), deletePc[d] = "call" PROVE Goal
  BY <1>8, ImageGivenUp DEF Images!RemoveFails
<1>9. ASSUME NEW d \in Deletes, deletePc[d] # "call", job[d] # None
      PROVE  job[d] \in Images!Images /\ job[d] \in orphaned
  BY <1>9 DEF ImagesInv, ImageJobs, Images!TypeOK
<1>10. ASSUME NEW d \in Deletes, Images!RemoveFails(d), deletePc[d] # "call" PROVE Goal
  <2>1. /\ job' = [job EXCEPT ![d] = None] /\ job[d] # None
        /\ UNCHANGED <<mounted, view, images, deletePc, owner, todo, called>>
        /\ UNCHANGED <<fetch, answer, older, outdated, excused, orphaned, daemon, touched>>
    BY <1>10 DEF Images!RemoveFails
  <2> QED BY <1>9, <1>10, <2>1, ImageElsewhere
<1>11. ASSUME NEW d \in Deletes, Images!Removed(d), deletePc[d] # "call" PROVE Goal
  <2>1. /\ job' = [job EXCEPT ![d] = None] /\ job[d] \in daemon /\ daemon' = daemon \ {job[d]}
        /\ UNCHANGED <<mounted, view, images, deletePc, owner, todo, called>>
        /\ UNCHANGED <<fetch, answer, older, outdated, excused, orphaned, touched>>
    BY <1>11 DEF Images!Removed
  <2>2. job[d] # None
    BY <2>1 DEF ImagesInv, Images!TypeOK
  <2> QED BY <1>9, <1>11, <2>1, <2>2, ImageElsewhere
<1>12. ASSUME NEW d \in Deletes, Images!Removed(d), deletePc[d] = "call" PROVE Goal
  <2>1. /\ owner' = owner /\ Images!Continue(d, todo[d], called[d] \cup {job[d]})
        /\ job[d] \in daemon /\ daemon' = daemon \ {job[d]}
        /\ UNCHANGED <<mounted, view, images, answer, older, outdated, excused, orphaned, touched>>
    BY <1>12 DEF Images!Removed
  <2>2. todo[d] \in SUBSET Images!Images /\ called[d] \cup {job[d]} \in SUBSET Images!Images
    BY <2>1 DEF ImagesInv, Images!TypeOK
  <2>3. mounted /\ ~excused => owner'[d] = view
    BY <1>12, <2>1 DEF ImagesInv, ImageOwners
  <2>4. ImageJobs' /\ ImageViews' /\ ImageAges'
    BY <1>12, <2>1, <2>2, ImageLoopOrders
  <2>5. ImageOwners' /\ ImageFollows'
    BY <1>12, <2>1, <2>2, <2>3, ImageLoopFollows
  <2> QED BY <2>4, <2>5
<1>13. ASSUME NEW f \in Images!Fetchers, Images!TakeListing(f) PROVE Goal
  BY <1>13, ImagesTaken
<1>14. ASSUME NEW f \in Images!Fetchers, Images!FetchOk(f) PROVE Goal
  BY <1>14, ImagesArrived
<1>15. ASSUME NEW f \in Images!Fetchers, Images!FetchFails(f) PROVE Goal
  <2>1. ImageJobs' /\ ImageViews' /\ ImageAges'
    BY <1>15, ImageListingOver DEF Images!FetchFails
  <2> QED BY <1>15, <2>1 DEF Images!FetchFails, ImageOwners, ImageFollows
<1>16. Goal
  BY <1>1, <1>2, <1>3, <1>4, <1>5, <1>6, <1>7, <1>8, <1>10, <1>11, <1>12, <1>13, <1>14, <1>15
  DEF Images!Next
<1> QED BY <1>0, <1>16 DEF ImagesInv

LEMMA ImagesStart == Images!Init => ImagesInv
<1> SUFFICES ASSUME Images!Init PROVE ImagesInv
  OBVIOUS
<1> USE ImageParameters DEF Images!Init
<1>1. Images!TypeOK
  <2>1. {loading, search, excused} \subseteq BOOLEAN /\ mounted \in BOOLEAN
    OBVIOUS
  <2>2. page \in 1..(N + 1) /\ view \in 0..MaxViews /\ outside \in 0..MaxOutside
    OBVIOUS
  <2> QED BY <2>1, <2>2 DEF Images!TypeOK
<1>2. ImageJobs /\ ImageViews /\ ImageAges /\ ImageOwners /\ ImageFollows
  BY DEF ImageJobs, ImageViews, ImageAges, ImagesListed, ImageOwners, ImageFollows, Images!InFlight
<1> QED BY <1>1, <1>2 DEF ImagesInv

\* However deletions and listings overlap, fail and arrive late: once all is over,
\* a page that nothing excuses shows the images of the daemon, except for those of
\* deletions that were given up and those that others changed
\* (ContainerImage.tsx 31-61).
THEOREM ImagesAlwaysCurrentAtRest == MCSpec => []ImagesCurrentAtRest
<1>1. ImagesInv => ImagesCurrentAtRest
  <2> SUFFICES ASSUME ImagesInv, mounted, Images!AtRest, ~excused,
                      NEW i \in Images!Images \ (orphaned \cup touched)
               PROVE  Tells(images, i)
    BY DEF ImagesCurrentAtRest, Images!ImagesCurrentAtRest, Tells, ImagesInv, Images!TypeOK
  <2>1. ~ImageToCome(i) /\ ImagesFresh = {}
    BY DEF Images!AtRest, ImageToCome, ImagesFresh, ImagesListed, Images!InFlight
  <2> QED BY <2>1 DEF ImagesInv, ImageFollows, ImageFollowed
<1> QED BY <1>1, EachPageRuns, ImagesStart, ImagesStep, PTL DEF MCSpec

-----------------------------------------------------------------------------
(* Logs                                                                     *)

Chunk == Log!Pieces \X Log!Pieces
Line == Ids \X Log!Streams \X Log!Pieces \X Log!Pieces

LogTyped == Log!TypeOK /\ wire \in [Log!Streams -> Seq(Chunk)] /\ logs \in Seq(Line)

\* A page that is open has a stream of its own; only its EventSource is open.
LogPage ==
  /\ logId = None => logs = << >>
  /\ logId # None => 1 <= logMountedAt /\ logIdOf[stream] = logId
  /\ \A s \in Log!Streams :
       /\ logIdOf[s] # None <=> s <= stream
       /\ source[s] = "open" => s = stream /\ logId # None

\* The handler of a stream reads what is written, in order, and what is on its way
\* to the page are pieces that it has read, in order and apart.
LogReads ==
  \A s \in Log!Streams :
    /\ logIdOf[s] = None => handler[s] = "none"
    /\ handler[s] = "none" => read[s] = 0
    /\ logIdOf[s] # None => read[s] <= 2 * written[logIdOf[s]]
    /\ \A k \in 1..Len(wire[s]) : wire[s][k][1] <= wire[s][k][2] /\ wire[s][k][2] <= read[s]
    /\ \A j, k \in 1..Len(wire[s]) : j < k => wire[s][j][2] < wire[s][k][1]

\* What the page has appended is of its own streams, read before what is on its way.
LogLine(x) ==
  /\ x[2] \in logMountedAt..stream /\ x[1] = logIdOf[x[2]] /\ x[3] <= x[4] /\ x[4] <= read[x[2]]
  /\ \A m \in 1..Len(wire[x[2]]) : x[4] < wire[x[2]][m][1]
LogBefore(x, y) == x[2] < y[2] \/ (x[2] = y[2] /\ x[4] < y[3])
LogKept ==
  /\ \A k \in 1..Len(logs) : LogLine(logs[k])
  /\ \A j, k \in 1..Len(logs) : j < k => LogBefore(logs[j], logs[k])

LogInv == LogTyped /\ LogPage /\ LogReads /\ LogKept

LEMMA LogParameters ==
  /\ None \notin Ids /\ MaxLines \in Nat /\ Past \in Nat /\ MaxStreams \in Nat
  /\ Log!Streams = 1..MaxStreams /\ Log!Pieces = 1..(2 * MaxLines)
BY MCAssumption DEF Log!ParametersOk, Log!Streams, Log!Pieces

\* What leaves the streams and the page alone.
LEMMA LogStill ==
  ASSUME LogInv, UNCHANGED <<logId, stream, logMountedAt, logIdOf, source, handler, read, wire, logs>>,
         written' \in [Ids -> 0..MaxLines], \A i \in Ids : written[i] <= written'[i]
  PROVE  LogPage' /\ LogReads' /\ LogKept'
<1> USE LogParameters DEF LogInv
<1>1. LogPage'
  BY DEF LogPage
<1>2. LogKept'
  BY DEF LogKept, LogLine, LogBefore
<1>3. ASSUME NEW s \in Log!Streams, logIdOf[s] # None PROVE read[s] <= 2 * written'[logIdOf[s]]
  <2>1. logIdOf[s] \in Ids /\ read[s] <= 2 * written[logIdOf[s]]
    BY <1>3 DEF LogReads, LogTyped, Log!TypeOK
  <2>2. read[s] \in Int /\ written[logIdOf[s]] \in Int /\ written'[logIdOf[s]] \in Int
    BY <2>1 DEF LogTyped, Log!TypeOK
  <2> QED BY <2>1, <2>2
<1>4. LogReads'
  BY <1>3 DEF LogReads
<1> QED BY <1>1, <1>2, <1>4

\* The page is opened for a container, or goes on to another one.
LEMMA LogNavigates ==
  ASSUME LogInv, NEW i \in Ids, Log!Navigate(i)
  PROVE  LogInv'
<1> USE LogParameters DEF LogInv
<1>1. /\ stream < MaxStreams /\ stream \in 0..MaxStreams /\ logMountedAt \in 0..stream
      /\ logId' = i /\ stream' = stream + 1
      /\ logMountedAt' = (IF logId = None THEN stream + 1 ELSE logMountedAt)
      /\ logIdOf' = [logIdOf EXCEPT ![stream + 1] = i]
      /\ UNCHANGED <<writers, written, handler, read, wire, logs, body>>
  BY DEF Log!Navigate, LogTyped, Log!TypeOK
<1>2. stream + 1 \in Log!Streams /\ logIdOf[stream + 1] = None
  BY <1>1 DEF LogPage
<1>3. \A s \in Log!Streams : logIdOf'[s] = IF s = stream + 1 THEN i ELSE logIdOf[s]
  BY <1>1 DEF LogTyped, Log!TypeOK
<1>4. /\ source' \in [Log!Streams -> {"none", "open", "closed"}]
      /\ \A s \in Log!Streams : source'[s] = "open" => s = stream + 1
  <2>1. source' = [Log!Cleaned EXCEPT ![stream + 1] = "open"]
    BY DEF Log!Navigate, Log!Opened
  <2>2. \A s \in Log!Streams : Log!Cleaned[s] = "open" => s # stream /\ source[s] = "open"
    BY DEF Log!Cleaned
  <2>3. \A s \in Log!Streams : Log!Cleaned[s] # "open"
    BY <2>2 DEF LogPage
  <2>4. Log!Cleaned \in [Log!Streams -> {"none", "open", "closed"}]
    BY DEF Log!Cleaned, LogTyped, Log!TypeOK
  <2> QED BY <1>2, <2>1, <2>3, <2>4
<1>5. LogTyped'
  <2>1. logIdOf' \in [Log!Streams -> Ids \cup {None}]
    BY <1>1 DEF LogTyped, Log!TypeOK
  <2> QED BY <1>1, <1>4, <2>1 DEF LogTyped, Log!TypeOK
<1>6. LogPage'
  <2>1. logId' # None /\ 1 <= logMountedAt' /\ logIdOf'[stream'] = logId'
    BY <1>1, <1>2, <1>3 DEF LogPage
  <2>2. \A s \in Log!Streams : logIdOf'[s] # None <=> s <= stream'
    BY <1>1, <1>3 DEF LogPage
  <2> QED BY <1>1, <1>4, <2>1, <2>2 DEF LogPage
<1>7. LogReads'
  <2>1. read[stream + 1] = 0 /\ handler[stream + 1] = "none"
    BY <1>2 DEF LogReads
  <2>2. 0 <= 2 * written[i]
    <3>1. written[i] \in 0..MaxLines
      BY DEF LogTyped, Log!TypeOK
    <3> QED BY <3>1
  <2>3. ASSUME NEW t \in Log!Streams
        PROVE  /\ logIdOf'[t] = None => handler[t] = "none"
               /\ logIdOf'[t] # None => read[t] <= 2 * written[logIdOf'[t]]
    <3>1. CASE t = stream + 1
      BY <1>3, <2>1, <2>2, <3>1
    <3>2. CASE t # stream + 1
      BY <1>3, <3>2 DEF LogReads
    <3> QED BY <3>1, <3>2
  <2>4. UNCHANGED <<written, handler, read, wire>>
    BY <1>1
  <2> QED BY <2>3, <2>4 DEF LogReads
<1>8. LogKept'
  <2>1. ASSUME NEW k \in 1..Len(logs) PROVE LogLine(logs[k])'
    <3>1. logId # None
      BY <2>1 DEF LogPage
    <3>2. LogLine(logs[k])
      BY <2>1 DEF LogKept
    <3>3. logs[k][2] \in logMountedAt..stream /\ 1 <= logMountedAt
      BY <3>1, <3>2 DEF LogLine, LogPage
    <3>4. logs[k][2] \in Log!Streams /\ logs[k][2] # stream + 1
      BY <1>1, <3>3
    <3> QED BY <1>1, <1>3, <3>1, <3>2, <3>4 DEF LogLine
  <2> QED BY <1>1, <2>1 DEF LogKept, LogBefore
<1> QED BY <1>5, <1>6, <1>7, <1>8

\* A chunk arrives: the first one on its way, which the page appends unless it has
\* closed the EventSource.
LEMMA LogMessage ==
  ASSUME LogInv, NEW s \in Log!Streams, Log!Message(s)
  PROVE  LogInv'
<1> USE LogParameters DEF LogInv
<1> PICK x : x = <<logIdOf[s], s, Head(wire[s])[1], Head(wire[s])[2]>>
  OBVIOUS
<1>0. x[1] = logIdOf[s] /\ x[2] = s /\ x[3] = Head(wire[s])[1] /\ x[4] = Head(wire[s])[2]
  OBVIOUS
<1>1. /\ wire[s] # << >> /\ wire' = [wire EXCEPT ![s] = Tail(@)]
      /\ logs' = IF source[s] = "open" THEN Append(logs, x) ELSE logs
      /\ UNCHANGED <<writers, written, logId, stream, logMountedAt, logIdOf, source, handler, read, body>>
  BY DEF Log!Message, Log!pageVars
<1>2. /\ wire[s] \in Seq(Chunk) /\ Len(wire[s]) \in Nat /\ Len(wire[s]) >= 1
      /\ Head(wire[s]) = wire[s][1] /\ Head(wire[s]) \in Chunk
      /\ Tail(wire[s]) \in Seq(Chunk) /\ Len(Tail(wire[s])) = Len(wire[s]) - 1
      /\ \A k \in 1..Len(Tail(wire[s])) : Tail(wire[s])[k] = wire[s][k + 1]
  BY <1>1 DEF LogTyped
<1>3. /\ wire' \in [Log!Streams -> Seq(Chunk)] /\ wire'[s] = Tail(wire[s])
      /\ \A t \in Log!Streams : t # s => wire'[t] = wire[t]
      /\ \A k \in 1..Len(wire'[s]) : k + 1 \in 1..Len(wire[s]) /\ wire'[s][k] = wire[s][k + 1]
  <2>1. /\ wire' \in [Log!Streams -> Seq(Chunk)] /\ wire'[s] = Tail(wire[s])
        /\ \A t \in Log!Streams : t # s => wire'[t] = wire[t]
    BY <1>1, <1>2 DEF LogTyped
  <2>2. ASSUME NEW k \in 1..Len(wire'[s])
        PROVE  k + 1 \in 1..Len(wire[s]) /\ wire'[s][k] = wire[s][k + 1]
    <3>1. Len(wire'[s]) = Len(wire[s]) - 1 /\ k \in 1..Len(Tail(wire[s]))
      BY <1>2, <2>1
    <3>2. Len(wire'[s]) \in Int /\ k \in Int /\ 1 <= k /\ k <= Len(wire[s]) - 1
      BY <1>2, <3>1
    <3>3. k + 1 \in 1..Len(wire[s])
      BY <1>2, <3>2
    <3> QED BY <1>2, <2>1, <3>1, <3>3
  <2> QED BY <2>1, <2>2
<1>4. ASSUME source[s] = "open"
      PROVE  /\ s = stream /\ logId # None /\ logIdOf[s] \in Ids /\ x \in Line
             /\ 1 <= logMountedAt /\ logMountedAt <= stream
  <2>1. s = stream /\ logId # None /\ 1 <= logMountedAt /\ logIdOf[s] = logId
    BY <1>4 DEF LogPage
  <2>2. Head(wire[s])[1] \in Log!Pieces /\ Head(wire[s])[2] \in Log!Pieces
    BY <1>2 DEF Chunk
  <2>3. logIdOf[s] \in Ids /\ logMountedAt <= stream
    BY <2>1 DEF LogTyped, Log!TypeOK
  <2>4. x \in Line
    BY <2>2, <2>3 DEF Line
  <2> QED BY <2>1, <2>3, <2>4
<1>5. /\ logs' \in Seq(Line) /\ Len(logs) \in Nat
      /\ \A k \in 1..Len(logs) : logs'[k] = logs[k]
      /\ source[s] # "open" => logs' = logs
      /\ source[s] = "open" => Len(logs') = Len(logs) + 1 /\ logs'[Len(logs) + 1] = x
  <2>1. CASE source[s] = "open"
    <3>1. x \in Line /\ logs \in Seq(Line)
      BY <2>1, <1>4 DEF LogTyped
    <3> QED BY <1>1, <2>1, <3>1
  <2>2. CASE source[s] # "open"
    BY <1>1, <2>2 DEF LogTyped
  <2> QED BY <2>1, <2>2
<1>6. LogTyped'
  <2>1. \A t \in Log!Streams : \A k \in DOMAIN wire'[t] : wire'[t][k] \in Log!Pieces \X Log!Pieces
    BY <1>3 DEF Chunk
  <2>2. \A k \in DOMAIN logs' : logs'[k] \in Ids \X Log!Streams \X Log!Pieces \X Log!Pieces
    BY <1>5 DEF Line
  <2> QED BY <1>1, <1>3, <1>5, <2>1, <2>2 DEF LogTyped, Log!TypeOK
<1>7. LogPage'
  <2>1. logId = None => source[s] # "open"
    BY <1>4
  <2> QED BY <1>1, <1>5, <2>1 DEF LogPage
<1>8. LogReads'
  <2>2. \A k \in 1..Len(wire'[s]) : wire'[s][k][1] <= wire'[s][k][2] /\ wire'[s][k][2] <= read[s]
    BY <1>3 DEF LogReads
  <2>3. \A j, k \in 1..Len(wire'[s]) : j < k => wire'[s][j][2] < wire'[s][k][1]
    <3> SUFFICES ASSUME NEW j \in 1..Len(wire'[s]), NEW k \in 1..Len(wire'[s]), j < k
                 PROVE  wire'[s][j][2] < wire'[s][k][1]
      OBVIOUS
    <3>1. j + 1 < k + 1
      OBVIOUS
    <3> QED BY <1>3, <3>1 DEF LogReads
  <2> QED BY <1>1, <1>3, <2>2, <2>3, SMTT(30) DEF LogReads
<1>9. \A k \in 1..Len(logs) : LogLine(logs[k])'
  <2> SUFFICES ASSUME NEW k \in 1..Len(logs) PROVE LogLine(logs[k])'
    OBVIOUS
  <2>1. LogLine(logs[k]) /\ logs[k] \in Line
    BY DEF LogKept, LogTyped
  <2>2. \A m \in 1..Len(wire'[logs[k][2]]) : logs[k][4] < wire'[logs[k][2]][m][1]
    <3>1. CASE logs[k][2] = s
      BY <1>3, <2>1, <3>1 DEF LogLine
    <3>2. CASE logs[k][2] # s
      BY <1>3, <2>1, <3>2 DEF LogLine, Line
    <3> QED BY <3>1, <3>2
  <2>3. logs'[k] = logs[k]
    BY <1>5
  <2> QED BY <1>1, <2>1, <2>2, <2>3 DEF LogLine
<1>10. ASSUME source[s] = "open" PROVE LogLine(x)' /\ \A k \in 1..Len(logs) : LogBefore(logs[k], x)
  <2>1. /\ Head(wire[s])[1] <= Head(wire[s])[2] /\ Head(wire[s])[2] <= read[s]
        /\ \A m \in 1..Len(wire'[s]) : Head(wire[s])[2] < wire'[s][m][1]
    <3>1. \A m \in 1..Len(wire'[s]) : 1 < m + 1
      OBVIOUS
    <3>2. 1 \in 1..Len(wire[s])
      BY <1>2
    <3> QED BY <1>2, <1>3, <3>1, <3>2 DEF LogReads
  <2>2. LogLine(x)'
    <3>1. x[2] \in logMountedAt'..stream' /\ x[1] = logIdOf'[x[2]] /\ x[3] <= x[4] /\ x[4] <= read'[x[2]]
      <4>1. s \in logMountedAt..stream
        BY <1>4, <1>10 DEF LogTyped, Log!TypeOK
      <4> QED BY <1>0, <1>1, <2>1, <4>1
    <3>2. \A m \in 1..Len(wire'[x[2]]) : x[4] < wire'[x[2]][m][1]
      BY <1>0, <2>1
    <3> QED BY <3>1, <3>2 DEF LogLine
  <2>3. ASSUME NEW k \in 1..Len(logs) PROVE LogBefore(logs[k], x)
    <3>1. LogLine(logs[k]) /\ logs[k] \in Line /\ 1 \in 1..Len(wire[s])
      BY <1>2 DEF LogKept, LogTyped
    <3>2. logs[k][2] \in Int /\ logs[k][2] <= s
      BY <1>4, <1>10, <3>1 DEF LogLine, Line
    <3>3. logs[k][2] = s => logs[k][4] < Head(wire[s])[1]
      BY <1>2, <3>1 DEF LogLine
    <3> QED BY <1>0, <3>2, <3>3 DEF LogBefore
  <2> QED BY <2>2, <2>3
<1>11. LogKept'
  <2>1. CASE source[s] # "open"
    <3>1. logs' = logs
      BY <1>5, <2>1
    <3> QED BY <1>5, <1>9, <3>1 DEF LogKept, LogBefore
  <2>2. CASE source[s] = "open"
    <3>1. Len(logs') = Len(logs) + 1 /\ logs'[Len(logs) + 1] = x
      BY <1>5, <2>2
    <3>2. \A k \in 1..Len(logs') : k \in 1..Len(logs) \/ k = Len(logs) + 1
      BY <1>5, <3>1
    <3>3. ASSUME NEW k \in 1..Len(logs') PROVE LogLine(logs[k])'
      <4>1. CASE k \in 1..Len(logs)
        BY <1>9, <4>1
      <4>2. CASE k = Len(logs) + 1
        <5>1. logs'[k] = x
          BY <3>1, <4>2
        <5> QED BY <1>10, <2>2, <5>1 DEF LogLine
      <4> QED BY <3>2, <4>1, <4>2
    <3>4. ASSUME NEW j \in 1..Len(logs'), NEW k \in 1..Len(logs'), j < k
          PROVE  LogBefore(logs'[j], logs'[k])
      <4>1. j \in 1..Len(logs) /\ logs'[j] = logs[j]
        BY <1>5, <3>1, <3>4
      <4>2. CASE k \in 1..Len(logs)
        BY <1>5, <3>4, <4>1, <4>2 DEF LogKept
      <4>3. CASE k = Len(logs) + 1
        BY <1>10, <2>2, <3>1, <4>1, <4>3
      <4> QED BY <3>2, <4>2, <4>3
    <3> QED BY <3>3, <3>4 DEF LogKept, LogBefore
  <2> QED BY <2>1, <2>2
<1> QED BY <1>6, <1>7, <1>8, <1>11

\* The handler takes a chunk, which is sent behind those that are on their way.
LEMMA LogCopied ==
  ASSUME LogInv, NEW s \in Log!Streams, NEW n \in Log!Pieces, Log!Copy(s, n)
  PROVE  LogInv'
<1> USE LogParameters DEF LogInv
<1> PICK c : c = Log!FirstLine(read[s] + 1, n)
  OBVIOUS
<1>1. /\ handler[s] = "reading" /\ n \in (read[s] + 1)..(2 * written[logIdOf[s]])
      /\ read' = [read EXCEPT ![s] = n]
      /\ wire' = IF source[s] = "open" THEN [wire EXCEPT ![s] = Append(@, c)] ELSE wire
      /\ UNCHANGED <<writers, written, logId, stream, logMountedAt, logIdOf, source, handler, logs, body>>
  BY DEF Log!Copy, Log!pageVars
<1>2. /\ read[s] \in 0..(2 * MaxLines) /\ read[s] + 1 \in Log!Pieces /\ n <= 2 * written[logIdOf[s]]
      /\ read[s] < n /\ written[logIdOf[s]] \in Int
  <2>1. logIdOf[s] \in Ids
    BY <1>1 DEF LogTyped, Log!TypeOK, LogReads
  <2>2. read[s] \in 0..(2 * MaxLines) /\ written[logIdOf[s]] \in 0..MaxLines
    BY <2>1 DEF LogTyped, Log!TypeOK
  <2> QED BY <1>1, <2>2
<1>3. /\ read' \in [Log!Streams -> 0..(2 * MaxLines)] /\ read'[s] = n
      /\ \A t \in Log!Streams : t # s => read'[t] = read[t]
  <2>1. n \in 0..(2 * MaxLines)
    BY <1>2
  <2>2. read \in [Log!Streams -> 0..(2 * MaxLines)]
    BY DEF LogTyped, Log!TypeOK
  <2> QED BY <1>1, <2>1, <2>2
<1>4. /\ wire[s] \in Seq(Chunk) /\ Len(wire[s]) \in Nat
      /\ \A k \in 1..Len(wire[s]) : wire[s][k] \in Chunk
      /\ \A k \in 1..Len(wire[s]) : wire[s][k][1] <= wire[s][k][2] /\ wire[s][k][2] <= read[s]
  BY DEF LogTyped, LogReads
<1>12. c \in Chunk /\ c[1] = read[s] + 1 /\ c[1] <= c[2] /\ c[2] <= n
  <2>0. \A p \in Int : Log!EndOfLine(p) \in Int /\ p <= Log!EndOfLine(p)
    BY DEF Log!EndOfLine
  <2>1. PICK e \in Int : e = Log!EndOfLine(read[s] + 1) /\ read[s] + 1 <= e
    <3>1. read[s] + 1 \in Int
      BY <1>2
    <3> QED BY <2>0, <3>1
  <2>2. c = <<read[s] + 1, IF e < n THEN e ELSE n>>
    BY <2>1 DEF Log!FirstLine
  <2> QED BY <1>2, <2>1, <2>2, SMTT(30) DEF Chunk
<1>5. /\ Append(wire[s], c) \in Seq(Chunk)
      /\ Len(Append(wire[s], c)) = Len(wire[s]) + 1
      /\ Append(wire[s], c)[Len(wire[s]) + 1] = c
      /\ \A k \in 1..Len(wire[s]) : Append(wire[s], c)[k] = wire[s][k]
  BY <1>4, <1>12
<1>6. /\ wire' \in [Log!Streams -> Seq(Chunk)]
      /\ \A t \in Log!Streams : t # s => wire'[t] = wire[t]
      /\ wire'[s] = wire[s] \/ wire'[s] = Append(wire[s], c)
  BY <1>1, <1>5 DEF LogTyped
<1>7. ASSUME NEW k \in 1..Len(wire'[s])
      PROVE  \/ k \in 1..Len(wire[s]) /\ wire'[s][k] = wire[s][k]
             \/ k = Len(wire[s]) + 1 /\ wire'[s][k] = c
  <2>1. CASE wire'[s] = wire[s]
    BY <2>1
  <2>2. CASE wire'[s] = Append(wire[s], c)
    <3>1. k \in Int /\ 1 <= k /\ k <= Len(wire[s]) + 1
      BY <1>4, <1>5, <2>2
    <3>2. Len(wire[s]) \in Int
      BY <1>4
    <3>3. k \in 1..Len(wire[s]) \/ k = Len(wire[s]) + 1
      BY <3>1, <3>2
    <3> QED BY <1>5, <2>2, <3>3
  <2> QED BY <1>6, <2>1, <2>2
<1>8. LogTyped'
  <2>1. \A t \in Log!Streams : \A k \in DOMAIN wire'[t] : wire'[t][k] \in Log!Pieces \X Log!Pieces
    <3>1. wire' \in [Log!Streams -> Seq(Chunk)]
      BY <1>6
    <3> QED BY <3>1 DEF Chunk
  <2>2. Log!TypeOK'
    BY <1>1, <1>3, <2>1 DEF LogTyped, Log!TypeOK
  <2> QED BY <1>1, <1>6, <2>2 DEF LogTyped
<1>9. LogPage'
  BY <1>1 DEF LogPage
<1>10. LogReads'
  <2>1. logIdOf[s] # None /\ handler'[s] # "none"
    BY <1>1 DEF LogReads
  <2>2. ASSUME NEW k \in 1..Len(wire'[s]) PROVE wire'[s][k][1] <= wire'[s][k][2] /\ wire'[s][k][2] <= n
    <3>1. CASE k \in 1..Len(wire[s]) /\ wire'[s][k] = wire[s][k]
      <4>1. wire[s][k][2] \in Int
        BY <1>4, <3>1, SMTT(30) DEF Chunk
      <4>2. wire[s][k][1] <= wire[s][k][2] /\ wire[s][k][2] <= read[s]
        BY <1>4, <3>1
      <4>3. read[s] \in Int /\ n \in Int /\ read[s] < n
        BY <1>2
      <4>4. wire[s][k][2] <= n
        BY <4>1, <4>2, <4>3
      <4> QED BY <3>1, <4>2, <4>4
    <3>2. CASE wire'[s][k] = c
      BY <1>12, <3>2
    <3> QED BY <1>7, <3>1, <3>2
  <2>3. ASSUME NEW j \in 1..Len(wire'[s]), NEW k \in 1..Len(wire'[s]), j < k
        PROVE  wire'[s][j][2] < wire'[s][k][1]
    <3>1. j \in 1..Len(wire[s]) /\ wire'[s][j] = wire[s][j]
      <4>1. k \in 1..Len(wire[s]) \/ k = Len(wire[s]) + 1
        BY <1>7
      <4>2. j # Len(wire[s]) + 1
        BY <1>4, <2>3, <4>1
      <4> QED BY <1>7, <4>2
    <3>2. CASE k \in 1..Len(wire[s]) /\ wire'[s][k] = wire[s][k]
      BY <2>3, <3>1, <3>2 DEF LogReads
    <3>3. CASE wire'[s][k] = c
      <4>1. wire[s][j][2] \in Int /\ wire[s][j][2] <= read[s]
        BY <1>4, <3>1, SMTT(30) DEF Chunk
      <4>2. wire'[s][j][2] = wire[s][j][2] /\ wire'[s][k][1] = read[s] + 1
        BY <1>12, <3>1, <3>3
      <4> QED BY <1>2, <4>1, <4>2, SMTT(30)
    <3> QED BY <1>7, <3>2, <3>3
  <2>4. ASSUME NEW t \in Log!Streams, t # s
        PROVE  /\ \A k \in 1..Len(wire'[t]) : wire'[t][k][1] <= wire'[t][k][2] /\ wire'[t][k][2] <= read'[t]
               /\ \A j, k \in 1..Len(wire'[t]) : j < k => wire'[t][j][2] < wire'[t][k][1]
    BY <1>3, <1>6, <2>4 DEF LogReads
  <2>5. ASSUME NEW t \in Log!Streams
        PROVE  /\ logIdOf'[t] = None => handler'[t] = "none"
               /\ handler'[t] = "none" => read'[t] = 0
               /\ logIdOf'[t] # None => read'[t] <= 2 * written'[logIdOf'[t]]
    BY <1>1, <1>2, <1>3, <2>1 DEF LogReads
  <2> QED BY <1>3, <2>2, <2>3, <2>4, <2>5 DEF LogReads
<1>11. LogKept'
  <2>1. ASSUME NEW k \in 1..Len(logs) PROVE LogLine(logs[k])'
    <3>1. LogLine(logs[k]) /\ logs[k] \in Line
      BY <2>1 DEF LogKept, LogTyped
    <3>2. logs[k][2] \in Log!Streams /\ logs[k][4] \in Int
      BY <3>1 DEF Line
    <3>3. logs[k][4] <= read'[logs[k][2]]
      <4>1. logs[k][4] <= read[logs[k][2]]
        BY <3>1 DEF LogLine
      <4>2. CASE logs[k][2] = s
        BY <1>2, <1>3, <3>2, <4>1, <4>2, SMTT(30)
      <4>3. CASE logs[k][2] # s
        BY <1>3, <3>2, <4>1, <4>3
      <4> QED BY <4>2, <4>3
    <3>4. \A m \in 1..Len(wire'[logs[k][2]]) : logs[k][4] < wire'[logs[k][2]][m][1]
      <4>1. CASE logs[k][2] = s
        <5> SUFFICES ASSUME NEW m \in 1..Len(wire'[s]) PROVE logs[k][4] < wire'[s][m][1]
          BY <4>1
        <5>1. logs[k][4] <= read[s] /\ \A l \in 1..Len(wire[s]) : logs[k][4] < wire[s][l][1]
          BY <3>1, <4>1 DEF LogLine
        <5>2. CASE m \in 1..Len(wire[s]) /\ wire'[s][m] = wire[s][m]
          BY <5>1, <5>2
        <5>3. CASE wire'[s][m] = c
          <6>1. wire'[s][m][1] = read[s] + 1
            BY <1>12, <5>3
          <6>2. read[s] \in Int /\ logs[k][4] \in Int /\ logs[k][4] <= read[s]
            BY <1>2, <3>2, <5>1
          <6>3. logs[k][4] < read[s] + 1
            BY <6>2
          <6> QED BY <6>1, <6>3
        <5> QED BY <1>7, <5>2, <5>3
      <4>2. CASE logs[k][2] # s
        BY <1>6, <3>1, <3>2, <4>2 DEF LogLine
      <4> QED BY <4>1, <4>2
    <3> QED BY <1>1, <3>1, <3>3, <3>4 DEF LogLine
  <2> QED BY <1>1, <2>1 DEF LogKept, LogBefore
<1> QED BY <1>8, <1>9, <1>10, <1>11

\* The handler starts, somewhere in the past of its container.
LEMMA LogStarts ==
  ASSUME LogInv, NEW s \in Log!Streams, Log!Start(s)
  PROVE  LogInv'
<1> USE LogParameters DEF LogInv
<1>1. /\ logIdOf[s] # None /\ handler[s] = "none" /\ read[s] = 0
      /\ handler' \in [Log!Streams -> {"none", "reading", "ended"}] /\ handler'[s] # "none"
      /\ \A t \in Log!Streams : t # s => handler'[t] = handler[t]
      /\ UNCHANGED <<writers, written, logId, stream, logMountedAt, logIdOf, source, wire, logs, body>>
  BY DEF Log!Start, Log!pageVars, LogTyped, Log!TypeOK, LogReads
<1>2. written[logIdOf[s]] \in 0..MaxLines
  BY <1>1 DEF LogTyped, Log!TypeOK
<1>3. /\ read' \in [Log!Streams -> 0..(2 * MaxLines)] /\ read'[s] <= 2 * written[logIdOf[s]]
      /\ \A t \in Log!Streams : t # s => read'[t] = read[t]
  <2>1. CASE read' = read
    BY <1>1, <1>2, <2>1 DEF LogTyped, Log!TypeOK
  <2>2. ASSUME NEW n \in 0..(2 * MaxLines), n <= 2 * written[logIdOf[s]], read' = [read EXCEPT ![s] = n]
        PROVE  /\ read' \in [Log!Streams -> 0..(2 * MaxLines)] /\ read'[s] <= 2 * written[logIdOf[s]]
               /\ \A t \in Log!Streams : t # s => read'[t] = read[t]
    BY <2>2 DEF LogTyped, Log!TypeOK
  <2>3. CASE read' = [read EXCEPT ![s] = IF written[logIdOf[s]] > Past THEN 2 * (written[logIdOf[s]] - Past) ELSE 0]
    <3> PICK n : n = IF written[logIdOf[s]] > Past THEN 2 * (written[logIdOf[s]] - Past) ELSE 0
      OBVIOUS
    <3>1. n \in 0..(2 * MaxLines) /\ n <= 2 * written[logIdOf[s]]
      BY <1>2, SMTT(30)
    <3> QED BY <2>2, <2>3, <3>1
  <2> QED BY <2>1, <2>3 DEF Log!Start
<1>4. ASSUME NEW t \in Log!Streams
      PROVE  read[t] <= read'[t] /\ read[t] \in Int /\ read'[t] \in Int
  <2>1. read[t] \in 0..(2 * MaxLines) /\ read'[t] \in 0..(2 * MaxLines)
    BY <1>3 DEF LogTyped, Log!TypeOK
  <2>2. t = s => read[t] = 0
    BY <1>1
  <2> QED BY <1>3, <2>1, <2>2
<1>5. LogTyped' /\ LogPage'
  <2>1. Log!TypeOK'
    <3>1. \A t \in Log!Streams : \A k \in DOMAIN wire'[t] : wire'[t][k] \in Log!Pieces \X Log!Pieces
      BY <1>1 DEF LogTyped, Chunk
    <3>2. \A k \in DOMAIN logs' : logs'[k] \in Ids \X Log!Streams \X Log!Pieces \X Log!Pieces
      BY <1>1 DEF LogTyped, Line
    <3> QED BY <1>1, <1>3, <3>1, <3>2 DEF LogTyped, Log!TypeOK
  <2> QED BY <1>1, <2>1 DEF LogTyped, LogPage
<1>6. LogReads'
  <2>1. ASSUME NEW t \in Log!Streams, NEW k \in 1..Len(wire[t]) PROVE wire[t][k][1] <= wire[t][k][2] /\ wire[t][k][2] <= read'[t]
    <3>1. wire[t][k][2] \in Int /\ wire[t][k][1] <= wire[t][k][2] /\ wire[t][k][2] <= read[t]
      <4>1. wire[t][k] \in Chunk
        BY DEF LogTyped
      <4> QED BY <4>1 DEF LogReads, Chunk
    <3> QED BY <1>4, <3>1
  <2>2. ASSUME NEW t \in Log!Streams, logIdOf[t] # None PROVE read'[t] <= 2 * written[logIdOf[t]]
    BY <1>3, <2>2 DEF LogReads
  <2>3. ASSUME NEW t \in Log!Streams, handler'[t] = "none" PROVE read'[t] = 0
    BY <1>1, <1>3, <2>3 DEF LogReads
  <2>4. ASSUME NEW t \in Log!Streams, logIdOf[t] = None PROVE handler'[t] = "none"
    BY <1>1, <2>4 DEF LogReads
  <2>5. ASSUME NEW t \in Log!Streams PROVE \A j, k \in 1..Len(wire[t]) : j < k => wire[t][j][2] < wire[t][k][1]
    BY DEF LogReads
  <2>6. wire' = wire /\ logIdOf' = logIdOf /\ written' = written
    BY <1>1
  <2> QED BY <2>1, <2>2, <2>3, <2>4, <2>5, <2>6 DEF LogReads
<1>7. LogKept'
  <2>1. ASSUME NEW k \in 1..Len(logs) PROVE LogLine(logs[k])'
    <3>1. LogLine(logs[k]) /\ logs[k] \in Line
      BY <2>1 DEF LogKept, LogTyped
    <3>2. logs[k][2] \in Log!Streams /\ logs[k][4] \in Int
      BY <3>1 DEF Line
    <3>3. logs[k][4] <= read'[logs[k][2]]
      BY <1>4, <3>1, <3>2 DEF LogLine
    <3> QED BY <1>1, <3>1, <3>3 DEF LogLine
  <2> QED BY <1>1, <2>1 DEF LogKept, LogBefore
<1> QED BY <1>5, <1>6, <1>7

LEMMA LogStep == LogInv /\ [Log!Next]_logVars => LogInv'
<1> SUFFICES ASSUME LogInv, [Log!Next]_logVars PROVE LogInv'
  OBVIOUS
<1> USE LogParameters DEF LogInv
<1>1. ASSUME UNCHANGED <<written, logId, stream, logMountedAt, logIdOf, source, handler, read, wire, logs>>,
             writers' \subseteq Ids, body' \in {"none", "detail", "logs"}
      PROVE  LogInv'
  <2>1. written' \in [Ids -> 0..MaxLines] /\ \A i \in Ids : written[i] <= written'[i]
    BY <1>1 DEF LogTyped, Log!TypeOK
  <2>2. LogTyped'
    BY <1>1 DEF LogTyped, Log!TypeOK
  <2> QED BY <1>1, <2>1, <2>2, LogStill
<1>2. ASSUME NEW i \in Ids, Log!WriteLine(i) PROVE LogInv'
  <2>1. /\ written[i] < MaxLines /\ written' = [written EXCEPT ![i] = @ + 1]
        /\ UNCHANGED <<writers, logId, stream, logMountedAt, logIdOf, source, handler, read, wire, logs, body>>
    BY <1>2 DEF Log!WriteLine, Log!pageVars
  <2>2. written' \in [Ids -> 0..MaxLines] /\ \A j \in Ids : written[j] <= written'[j]
    BY <2>1 DEF LogTyped, Log!TypeOK
  <2>3. LogTyped'
    BY <2>1, <2>2 DEF LogTyped, Log!TypeOK
  <2> QED BY <2>1, <2>2, <2>3, LogStill
<1>3. ASSUME NEW i \in Ids, Log!Exit(i) PROVE LogInv'
  BY <1>1, <1>3 DEF Log!Exit, Log!pageVars, LogTyped, Log!TypeOK
<1>4. ASSUME NEW t \in {"detail", "logs"}, Log!DetailsArrive(t) \/ Log!SelectTab(t) PROVE LogInv'
  BY <1>1, <1>4 DEF Log!DetailsArrive, Log!SelectTab, Log!pageVars, LogTyped, Log!TypeOK
<1>5. ASSUME Log!Close PROVE LogInv'
  <2>1. /\ logId # None /\ logId' = None /\ logMountedAt' = 0 /\ logs' = << >> /\ body' = "none"
        /\ UNCHANGED <<writers, written, stream, logIdOf, handler, read, wire>>
        /\ source' = [s \in Log!Streams |-> IF s = stream THEN "closed" ELSE source[s]]
    BY <1>5 DEF Log!Close, Log!Cleaned
  <2>2. source' \in [Log!Streams -> {"none", "open", "closed"}]
    BY <2>1 DEF LogTyped, Log!TypeOK
  <2>3. \A s \in Log!Streams : source'[s] # "open"
    BY <2>1 DEF LogPage
  <2>4. logs' \in Seq(Line) /\ Len(logs') = 0
    BY <2>1
  <2>5. LogTyped'
    BY <2>1, <2>2, <2>4 DEF LogTyped, Log!TypeOK
  <2>6. LogPage' /\ LogKept'
    BY <2>1, <2>3, <2>4 DEF LogPage, LogKept
  <2>7. LogReads'
    BY <2>1 DEF LogReads
  <2> QED BY <2>5, <2>6, <2>7
<1>6. ASSUME NEW s \in Log!Streams, Log!Error(s) \/ Log!End(s) PROVE LogInv'
  <2>1. /\ UNCHANGED <<writers, written, logId, stream, logMountedAt, logIdOf, read, wire, logs, body>>
        /\ source' = source \/ source' = [source EXCEPT ![s] = "closed"]
        /\ \/ handler' = handler
           \/ handler[s] = "reading" /\ handler' = [handler EXCEPT ![s] = "ended"]
    <3>1. CASE Log!Error(s)
      BY <3>1 DEF Log!Error, Log!pageVars
    <3>2. CASE Log!End(s)
      BY <3>2 DEF Log!End, Log!pageVars
    <3> QED BY <1>6, <3>1, <3>2
  <2>2. /\ source' \in [Log!Streams -> {"none", "open", "closed"}]
        /\ \A t \in Log!Streams : source'[t] = "open" => source[t] = "open"
    BY <2>1 DEF LogTyped, Log!TypeOK
  <2>3. /\ handler' \in [Log!Streams -> {"none", "reading", "ended"}]
        /\ \A t \in Log!Streams : handler'[t] = "none" <=> handler[t] = "none"
    <3>1. handler \in [Log!Streams -> {"none", "reading", "ended"}]
      BY DEF LogTyped, Log!TypeOK
    <3> QED BY <2>1, <3>1
  <2>4. LogTyped' /\ LogPage'
    BY <2>1, <2>2, <2>3 DEF LogTyped, Log!TypeOK, LogPage
  <2>5. LogReads'
    BY <2>1, <2>3 DEF LogReads
  <2> QED BY <2>1, <2>4, <2>5, SMTT(30) DEF LogKept, LogLine, LogBefore
<1>7. CASE UNCHANGED logVars
  BY <1>1, <1>7 DEF logVars, LogTyped, Log!TypeOK
<1> QED
  BY <1>2, <1>3, <1>4, <1>5, <1>6, <1>7, LogNavigates, LogMessage, LogStarts, LogCopied DEF Log!Next

LEMMA LogStart == Log!Init => LogInv
<1> SUFFICES ASSUME Log!Init PROVE LogInv
  OBVIOUS
<1> USE LogParameters DEF Log!Init
<1>1. /\ logs \in Seq(Line) /\ Len(logs) = 0 /\ DOMAIN logs = {}
      /\ wire \in [Log!Streams -> Seq(Chunk)]
      /\ \A s \in Log!Streams : Len(wire[s]) = 0 /\ DOMAIN wire[s] = {}
  OBVIOUS
<1>2. LogTyped
  BY <1>1 DEF LogTyped, Log!TypeOK
<1> QED BY <1>1, <1>2 DEF LogInv, LogPage, LogReads, LogKept

\* What is on screen is of streams that were opened in that order, each read in order.
LEMMA LogTellsInOrder == LogInv => Log!TypeOK /\ Log!LogsInOrder
<1> SUFFICES ASSUME LogInv PROVE Log!LogsInOrder
  BY DEF LogInv, LogTyped
<1> USE LogParameters DEF LogInv
<1>1. CASE body # "logs"
  BY <1>1 DEF Log!LogsInOrder, Log!Lines
<1>2. CASE body = "logs"
  <2>1. Log!Lines = logs /\ DOMAIN logs = 1..Len(logs) /\ Len(logs) \in Nat
    BY <1>2 DEF Log!Lines, LogTyped
  <2>2. ASSUME NEW k \in 1..Len(logs)
        PROVE  /\ logs[k][3] <= logs[k][4] /\ logs[k][4] <= 2 * written[logs[k][1]]
               /\ logMountedAt = stream => logs[k][1] = logId
    <3>1. LogLine(logs[k]) /\ logs[k] \in Line /\ logId # None
      BY <2>2 DEF LogKept, LogTyped, LogPage
    <3>2. logs[k][1] \in Ids /\ logs[k][2] \in Log!Streams /\ logs[k][4] \in Int
      BY <3>1 DEF Line
    <3>3. /\ logs[k][1] = logIdOf[logs[k][2]] /\ logs[k][3] <= logs[k][4]
          /\ logs[k][4] <= read[logs[k][2]] /\ read[logs[k][2]] <= 2 * written[logs[k][1]]
      BY <3>1, <3>2 DEF LogLine, LogReads
    <3>4. read[logs[k][2]] \in Int /\ written[logs[k][1]] \in Int
      BY <3>2 DEF LogTyped, Log!TypeOK
    <3>5. logMountedAt = stream => logs[k][2] = stream
      BY <3>1, <3>2 DEF LogLine, LogTyped, Log!TypeOK
    <3> QED BY <3>1, <3>2, <3>3, <3>4, <3>5, SMTT(30) DEF LogPage
  <2>3. ASSUME NEW k \in 1..Len(logs), NEW j \in 1..(k - 1)
        PROVE  LogBefore(logs[j], logs[k])
    <3>1. j \in 1..Len(logs) /\ j < k
      BY <2>1
    <3> QED BY <3>1 DEF LogKept
  <2> QED BY <2>1, <2>2, <2>3 DEF Log!LogsInOrder, LogBefore
<1> QED BY <1>1, <1>2

-----------------------------------------------------------------------------
(* Preferences                                                              *)

\* A tab whose effect is to come will write what was chosen, or was passed.
PreferencesRendered ==
  chosen # Absent /\ ~overwritten =>
    \A t \in Tabs : phase[t] = "rendered" => t \in passed \/ value[t] = chosen

PreferencesInv ==
  /\ Preferences!TypeOK
  /\ \A t \in Tabs : phase[t] = "off" \/ value[t] \in Preferences!Values(key)
  /\ PreferencesRendered
  /\ Preferences!ChoiceKept /\ Preferences!DarkAsSwitched

\* The defaults are values, and a click makes a value of a value.
LEMMA PreferencesValues ==
  ASSUME key \in Preferences!Keys, systemDark \in BOOLEAN
  PROVE  /\ Preferences!Default(key) \in Preferences!Values(key)
         /\ \A v \in Preferences!Values(key) :
              Preferences!Choices(key, v) \subseteq Preferences!Values(key)
<1>1. Preferences!Default(key) \in Preferences!Values(key)
  <2>1. CASE key = "theme"
    BY <2>1 DEF Preferences!Default, Preferences!Values, Preferences!Flags
  <2>2. CASE key = "isSidebarCollapsed"
    BY <2>2 DEF Preferences!Default, Preferences!Values, Preferences!Flags
  <2>3. CASE key = "fontSize"
    BY <2>3 DEF Preferences!Default, Preferences!Values, Preferences!Flags, Preferences!Largest
  <2>4. CASE key = "profileFontSize"
    BY <2>4 DEF Preferences!Default, Preferences!Values, Preferences!Flags, Preferences!Largest
  <2> QED BY <2>1, <2>2, <2>3, <2>4 DEF Preferences!Keys
<1>2. ASSUME NEW v \in Preferences!Values(key)
      PROVE  Preferences!Choices(key, v) \subseteq Preferences!Values(key)
  <2>1. CASE key \in Preferences!Flags
    <3>1. (~v) \in BOOLEAN
      OBVIOUS
    <3> QED BY <2>1, <3>1 DEF Preferences!Choices, Preferences!Values, Preferences!Toggled
  <2>2. CASE key \notin Preferences!Flags
    BY <2>2 DEF Preferences!Choices, Preferences!Stepped
  <2> QED BY <2>1, <2>2
<1> QED BY <1>1, <1>2

LEMMA PreferencesStep == PreferencesInv /\ [Preferences!Next]_preferencesVars => PreferencesInv'
<1> SUFFICES ASSUME PreferencesInv, [Preferences!Next]_preferencesVars
             PROVE  PreferencesInv'
  OBVIOUS
<1> DEFINE V == Preferences!Values(key)
<1>0. /\ key \in Preferences!Keys /\ stored \in V \cup {Absent} /\ chosen \in V \cup {Absent}
      /\ phase \in [Tabs -> {"off", "rendered", "on"}] /\ value \in [Tabs -> V \cup {Absent}]
      /\ systemDark \in BOOLEAN /\ overwritten \in BOOLEAN
      /\ rootClass \in [Tabs -> SUBSET {"light", "dark"}]
      /\ openSections \in [Tabs -> SUBSET Sections] /\ passed \subseteq Tabs
      /\ \A t \in Tabs : phase[t] = "off" \/ value[t] \in V
      /\ PreferencesRendered /\ Preferences!ChoiceKept /\ Preferences!DarkAsSwitched
  BY DEF PreferencesInv, Preferences!TypeOK
<1>1. Preferences!Default(key) \in V /\ \A v \in V : Preferences!Choices(key, v) \subseteq V
  BY <1>0, PreferencesValues
<1>2. key' = key => V' = V
  BY DEF Preferences!Values, Preferences!Flags, Preferences!Largest
<1> HIDE DEF V
<1>3. ASSUME key' = key, stored' \in V \cup {Absent}, chosen' \in V \cup {Absent},
             phase' \in [Tabs -> {"off", "rendered", "on"}], value' \in [Tabs -> V \cup {Absent}],
             systemDark' \in BOOLEAN, overwritten' \in BOOLEAN,
             rootClass' \in [Tabs -> SUBSET {"light", "dark"}],
             openSections' \in [Tabs -> SUBSET Sections], passed' \subseteq Tabs,
             \A t \in Tabs : phase'[t] = "off" \/ value'[t] \in V,
             PreferencesRendered', Preferences!ChoiceKept', Preferences!DarkAsSwitched'
      PROVE  PreferencesInv'
  <2>1. V' = V /\ key' \in Preferences!Keys
    BY <1>0, <1>2, <1>3
  <2>2. Preferences!TypeOK'
    BY <1>3, <2>1 DEF V, Preferences!TypeOK
  <2> QED BY <1>3, <2>1, <2>2 DEF V, PreferencesInv
<1>4. ASSUME NEW t \in Tabs, Preferences!Render(t) PROVE PreferencesInv'
  <2>1. /\ phase[t] = "off" /\ phase' = [phase EXCEPT ![t] = "rendered"]
        /\ value' = [value EXCEPT ![t] = Preferences!Initial]
        /\ openSections' \in [Tabs -> SUBSET Sections]
        /\ UNCHANGED <<key, stored, systemDark, rootClass, chosen, passed, overwritten>>
    BY <1>0, <1>4 DEF Preferences!Render
  <2>2. Preferences!Initial \in V
    BY <1>0, <1>1 DEF Preferences!Initial
  <2>3. PreferencesRendered'
    <3>1. chosen # Absent /\ ~overwritten => Preferences!Initial = chosen
      BY <1>0 DEF Preferences!Initial, Preferences!ChoiceKept
    <3> QED BY <1>0, <2>1, <3>1 DEF PreferencesRendered
  <2>4. Preferences!ChoiceKept' /\ Preferences!DarkAsSwitched'
    BY <1>0, <2>1 DEF Preferences!ChoiceKept, Preferences!DarkAsSwitched
  <2> QED BY <1>0, <1>3, <2>1, <2>2, <2>3, <2>4
<1>5. ASSUME NEW t \in Tabs, Preferences!Effects(t) PROVE PreferencesInv'
  <2>1. /\ phase[t] = "rendered" /\ phase' = [phase EXCEPT ![t] = "on"] /\ stored' = value[t]
        /\ rootClass' = [rootClass EXCEPT ![t] =
             IF key = "theme" THEN Preferences!Classes(value[t]) ELSE {}]
        /\ overwritten' = (overwritten \/ t \in passed) /\ passed' = passed \ {t}
        /\ UNCHANGED <<key, value, systemDark, openSections, chosen>>
    BY <1>5 DEF Preferences!Effects
  <2>2. value[t] \in V
    BY <1>0, <2>1
  <2>3. overwritten' \in BOOLEAN
    BY <2>1
  <2>4. Preferences!Classes(value[t]) \in SUBSET {"light", "dark"}
    BY DEF Preferences!Classes, Preferences!WithDark, Preferences!SystemClass
  <2>5. rootClass' \in [Tabs -> SUBSET {"light", "dark"}]
    BY <1>0, <2>1, <2>4
  <2>6. PreferencesRendered'
    BY <1>0, <2>1 DEF PreferencesRendered
  <2>7. Preferences!ChoiceKept'
    BY <1>0, <2>1 DEF Preferences!ChoiceKept, PreferencesRendered
  <2>8. Preferences!DarkAsSwitched'
    <3>1. "dark" \in Preferences!Classes(value[t]) <=> value[t]
      BY DEF Preferences!Classes, Preferences!WithDark, Preferences!SystemClass
    <3> QED BY <1>0, <2>1, <3>1 DEF Preferences!DarkAsSwitched
  <2> QED BY <1>0, <1>3, <2>1, <2>2, <2>3, <2>5, <2>6, <2>7, <2>8
<1>6. ASSUME NEW t \in Tabs, Preferences!Choose(t) PROVE PreferencesInv'
  <2>1. PICK v \in Preferences!Choices(key, value[t]) :
          /\ value' = [value EXCEPT ![t] = v] /\ stored' = v /\ chosen' = v
          /\ rootClass' = IF key = "theme"
                          THEN [rootClass EXCEPT ![t] = Preferences!WithDark(@, v)] ELSE rootClass
    BY <1>6 DEF Preferences!Choose
  <2>2. /\ phase[t] = "on" /\ passed' = {q \in Tabs : phase[q] = "rendered"}
        /\ overwritten' = FALSE /\ UNCHANGED <<key, phase, systemDark, openSections>>
    BY <1>6 DEF Preferences!Choose
  <2>3. v \in V
    BY <1>0, <1>1, <2>2
  <2>4. Preferences!WithDark(rootClass[t], v) \in SUBSET {"light", "dark"}
    BY <1>0 DEF Preferences!WithDark
  <2>5. rootClass' \in [Tabs -> SUBSET {"light", "dark"}]
    BY <1>0, <2>1, <2>4
  <2>6. PreferencesRendered' /\ Preferences!ChoiceKept'
    BY <2>1, <2>2 DEF PreferencesRendered, Preferences!ChoiceKept
  <2>7. Preferences!DarkAsSwitched'
    <3>1. "dark" \in Preferences!WithDark(rootClass[t], v) <=> v
      BY DEF Preferences!WithDark
    <3> QED BY <1>0, <2>1, <2>2, <3>1 DEF Preferences!DarkAsSwitched
  <2>8. overwritten' \in BOOLEAN
    BY <2>2
  <2> QED BY <1>0, <1>3, <2>1, <2>2, <2>3, <2>5, <2>6, <2>7, <2>8
<1>7. ASSUME NEW t \in Tabs, Preferences!Unmount(t) PROVE PreferencesInv'
  <2>1. /\ phase' = [phase EXCEPT ![t] = "off"] /\ value' = [value EXCEPT ![t] = Absent]
        /\ rootClass' = [rootClass EXCEPT ![t] = {}]
        /\ openSections' \in [Tabs -> SUBSET Sections]
        /\ UNCHANGED <<key, stored, systemDark, chosen, passed, overwritten>>
    BY <1>0, <1>7 DEF Preferences!Unmount
  <2>2. PreferencesRendered' /\ Preferences!ChoiceKept' /\ Preferences!DarkAsSwitched'
    BY <1>0, <2>1 DEF PreferencesRendered, Preferences!ChoiceKept, Preferences!DarkAsSwitched
  <2> QED BY <1>0, <1>3, <2>1, <2>2
<1>8. ASSUME NEW t \in Tabs, NEW s \in Sections, Preferences!ToggleSection(t, s) PROVE PreferencesInv'
  <2>1. /\ openSections' \in [Tabs -> SUBSET Sections]
        /\ UNCHANGED <<key, stored, phase, value, systemDark, rootClass, chosen, passed, overwritten>>
    BY <1>0, <1>8 DEF Preferences!ToggleSection
  <2>2. PreferencesRendered' /\ Preferences!ChoiceKept' /\ Preferences!DarkAsSwitched'
    BY <1>0, <2>1 DEF PreferencesRendered, Preferences!ChoiceKept, Preferences!DarkAsSwitched
  <2> QED BY <1>0, <1>3, <2>1, <2>2
<1>9. ASSUME systemDark' \in BOOLEAN,
             UNCHANGED <<key, stored, phase, value, rootClass, openSections, chosen, passed, overwritten>>
      PROVE  PreferencesInv'
  <2>1. PreferencesRendered' /\ Preferences!ChoiceKept' /\ Preferences!DarkAsSwitched'
    BY <1>0, <1>9 DEF PreferencesRendered, Preferences!ChoiceKept, Preferences!DarkAsSwitched
  <2> QED BY <1>0, <1>3, <1>9, <2>1
<1>10. CASE Preferences!SystemChanges
  <2>1. systemDark' \in BOOLEAN
    BY <1>10 DEF Preferences!SystemChanges
  <2> QED BY <1>9, <1>10, <2>1 DEF Preferences!SystemChanges
<1>11. CASE UNCHANGED preferencesVars
  BY <1>0, <1>9, <1>11 DEF preferencesVars
<1> QED BY <1>4, <1>5, <1>6, <1>7, <1>8, <1>10, <1>11 DEF Preferences!Next

LEMMA PreferencesStart == Preferences!Init => PreferencesInv
BY DEF Preferences!Init, PreferencesInv, Preferences!TypeOK, PreferencesRendered,
       Preferences!ChoiceKept, Preferences!DarkAsSwitched

\* Whatever tabs come and go: the last choice stays stored unless an effect of a tab
\* that had rendered before it came after it, and a document is dark exactly when
\* its switch says so (ThemProvider, App, FontSizeContext, SidebarContext).
THEOREM PreferencesAlwaysKept == MCSpec => []PreferencesKept
<1>1. PreferencesInv => PreferencesKept
  BY DEF PreferencesInv, PreferencesKept, Preferences!PreferencesKept
<1> QED BY <1>1, EachPageRuns, PreferencesStart, PreferencesStep, PTL DEF MCSpec

-----------------------------------------------------------------------------
(* Endpoints                                                                *)

\* TypeOK of the page, one variable at a time.
EndpointTyped ==
  /\ version \in Nat \ {0} /\ configs \in 0..version /\ seen \in 0..version
  /\ listView \in 0..MaxViews /\ timers \in Nat /\ form \in 0..MaxForms
  /\ listMounted \in BOOLEAN /\ listLoading \in BOOLEAN /\ listError \in BOOLEAN
  /\ message \in BOOLEAN /\ formLoading \in BOOLEAN /\ isInitialLoad \in BOOLEAN
  /\ formError \in BOOLEAN /\ overtaken \in BOOLEAN
  /\ modal \in {"closed", "create", "edit"} /\ gets \subseteq Endpoints!Forms
  /\ stage \in [Calls -> {"idle", "sent", "applied", "over"}]
  /\ kind \in [Calls -> {"save", "delete"}]
  /\ callOwner \in [Calls -> (0..MaxViews) \X (0..MaxForms)]
  /\ listFetch \in [Endpoints!Fetchers -> {"idle", "sent", "listed", "over"}]
  /\ listAnswer \in [Endpoints!Fetchers -> 0..version]

\* A page that is not open has nothing to show; its modal opens over a list.
EndpointPage ==
  /\ ~listMounted => seen = 0 /\ modal = "closed"
  /\ modal # "closed" => listMounted /\ ~listLoading /\ form >= 1

\* A list that will show the last success that the page was told of.
EndpointToCome(f) ==
  Endpoints!Live(f) /\ (listFetch[f] = "sent" \/ (listFetch[f] = "listed" /\ listAnswer[f] >= seen))
EndpointsFollow ==
  listMounted /\ ~listError /\ ~overtaken =>
    configs >= seen \/ \E f \in Endpoints!Fetchers : EndpointToCome(f)

\* A call under way belongs to a form that was opened, a deletion to none; the form
\* that is open has sent one only when it had been loaded.
EndpointUnderWay(c) == stage[c] \in {"sent", "applied"} /\ callOwner[c] = <<listView, form>>
EndpointCalls ==
  \A c \in Calls :
    /\ callOwner[c][2] <= form
    /\ kind[c] = "delete" => stage[c] # "idle" /\ callOwner[c][2] = 0
    /\ modal # "closed" /\ EndpointUnderWay(c) => ~isInitialLoad

\* FormSpinnerHonest, said without the page around the form.
EndpointSpinner ==
  modal # "closed" /\ ~listError =>
    /\ isInitialLoad => formLoading
    /\ formLoading => form \in gets \/ \E c \in Calls : EndpointUnderWay(c)

EndpointsInv ==
  /\ EndpointTyped /\ EndpointPage /\ EndpointsFollow /\ EndpointCalls /\ EndpointSpinner

LEMMA EndpointParameters ==
  /\ Calls \cap Endpoints!Views = {} /\ MaxViews \in Nat /\ MaxForms \in Nat
  /\ Endpoints!Views = 1..MaxViews /\ Endpoints!Forms = 1..MaxForms
  /\ Endpoints!Fetchers = Calls \cup Endpoints!Views
BY MCAssumption DEF Endpoints!ParametersOk, Endpoints!Views, Endpoints!Forms, Endpoints!Fetchers

LEMMA EndpointTypes == Endpoints!TypeOK <=> EndpointTyped
<1>1. /\ {configs, seen} \subseteq 0..version <=> configs \in 0..version /\ seen \in 0..version
      /\ {listMounted, listLoading, listError, message, formLoading, isInitialLoad, formError, overtaken}
           \subseteq BOOLEAN
         <=> /\ listMounted \in BOOLEAN /\ listLoading \in BOOLEAN /\ listError \in BOOLEAN
             /\ message \in BOOLEAN /\ formLoading \in BOOLEAN /\ isInitialLoad \in BOOLEAN
             /\ formError \in BOOLEAN /\ overtaken \in BOOLEAN
  BY Zenon
<1> QED BY <1>1 DEF Endpoints!TypeOK, Endpoints!Stages, EndpointTyped


\* What each step changes keeps its type.
LEMMA EndpointTypeStep == EndpointTyped /\ [Endpoints!Next]_endpointsVars => EndpointTyped'
<1> SUFFICES ASSUME EndpointTyped, [Endpoints!Next]_endpointsVars PROVE EndpointTyped'
  OBVIOUS
<1> USE EndpointParameters DEF EndpointTyped
<1>1. CASE Endpoints!Open
  <2>1. (listMounted' \in BOOLEAN) /\ listView + 1 \in Endpoints!Fetchers
    BY <1>1 DEF Endpoints!Open
  <2> QED BY <1>1, <2>1 DEF Endpoints!Open, Endpoints!formVars, Endpoints!callVars
<1>2. CASE Endpoints!Leave
  <2>1. /\ listMounted' \in BOOLEAN /\ listLoading' \in BOOLEAN /\ listError' \in BOOLEAN
        /\ message' \in BOOLEAN /\ formLoading' \in BOOLEAN /\ isInitialLoad' \in BOOLEAN
        /\ formError' \in BOOLEAN /\ overtaken' \in BOOLEAN
    BY <1>2 DEF Endpoints!Leave
  <2> QED BY <1>2, <2>1 DEF Endpoints!Leave, Endpoints!callVars, Endpoints!fetchVars
<1>3. CASE Endpoints!TimerFires
  <2>1. message' \in BOOLEAN
    BY <1>3 DEF Endpoints!TimerFires
  <2>2. timers' \in Nat
    BY <1>3 DEF Endpoints!TimerFires
  <2> QED
    BY <1>3, <2>1, <2>2 DEF Endpoints!TimerFires, Endpoints!formVars, Endpoints!callVars, Endpoints!fetchVars
<1>4. ASSUME NEW mode \in {"create", "edit"}, Endpoints!NewForm(mode) PROVE EndpointTyped'
  <2>1. /\ formLoading' \in BOOLEAN /\ isInitialLoad' \in BOOLEAN /\ formError' \in BOOLEAN
    BY <1>4 DEF Endpoints!NewForm
  <2>2. form + 1 \in Endpoints!Forms
    BY <1>4 DEF Endpoints!NewForm
  <2>3. gets' \subseteq Endpoints!Forms
    BY <1>4, <2>2 DEF Endpoints!NewForm
  <2> QED
    BY <1>4, <2>1, <2>2, <2>3
    DEF Endpoints!NewForm, Endpoints!pageVars, Endpoints!callVars, Endpoints!fetchVars
<1>5. CASE Endpoints!CloseModal
  <2>1. formLoading' \in BOOLEAN /\ isInitialLoad' \in BOOLEAN /\ formError' \in BOOLEAN
    BY <1>5 DEF Endpoints!CloseModal, Endpoints!FormGone
  <2> QED
    BY <1>5, <2>1
    DEF Endpoints!CloseModal, Endpoints!FormGone, Endpoints!pageVars, Endpoints!callVars, Endpoints!fetchVars
<1>6. ASSUME NEW f \in Endpoints!Fetchers, Endpoints!ListTaken(f) PROVE EndpointTyped'
  <2>1. listAnswer' \in [Endpoints!Fetchers -> 0..version]
    BY <1>6 DEF Endpoints!ListTaken
  <2> QED
    BY <1>6, <2>1 DEF Endpoints!ListTaken, Endpoints!pageVars, Endpoints!formVars, Endpoints!callVars
<1>7. ASSUME NEW f \in Endpoints!Fetchers, Endpoints!ListArrives(f) PROVE EndpointTyped'
  <2>1. configs' \in 0..version
    BY <1>7 DEF Endpoints!ListArrives
  <2>2. listLoading' \in BOOLEAN /\ overtaken' \in BOOLEAN
    BY <1>7 DEF Endpoints!ListArrives
  <2> QED BY <1>7, <2>1, <2>2 DEF Endpoints!ListArrives, Endpoints!formVars, Endpoints!callVars
<1>8. ASSUME NEW f \in Endpoints!Fetchers, Endpoints!ListFails(f) PROVE EndpointTyped'
  <2>1. listLoading' \in BOOLEAN /\ listError' \in BOOLEAN
    BY <1>8 DEF Endpoints!ListFails
  <2> QED BY <1>8, <2>1 DEF Endpoints!ListFails, Endpoints!formVars, Endpoints!callVars
<1>9. ASSUME NEW n \in Endpoints!Forms, NEW ok \in BOOLEAN, Endpoints!ConfigArrives(n, ok)
      PROVE  EndpointTyped'
  <2>1. formLoading' \in BOOLEAN /\ isInitialLoad' \in BOOLEAN /\ formError' \in BOOLEAN
    BY <1>9 DEF Endpoints!ConfigArrives
  <2> QED
    BY <1>9, <2>1
    DEF Endpoints!ConfigArrives, Endpoints!pageVars, Endpoints!callVars, Endpoints!fetchVars
<1>10. ASSUME NEW c \in Calls, Endpoints!Submit(c) PROVE EndpointTyped'
  <2>1. formLoading' \in BOOLEAN /\ formError' \in BOOLEAN
    BY <1>10 DEF Endpoints!Submit
  <2>2. callOwner' \in [Calls -> (0..MaxViews) \X (0..MaxForms)]
    BY <1>10 DEF Endpoints!Submit
  <2> QED BY <1>10, <2>1, <2>2 DEF Endpoints!Submit, Endpoints!pageVars, Endpoints!fetchVars
<1>11. ASSUME NEW c \in Calls, Endpoints!HandleDelete(c) PROVE EndpointTyped'
  <2>1. callOwner' \in [Calls -> (0..MaxViews) \X (0..MaxForms)]
    BY <1>11 DEF Endpoints!HandleDelete
  <2> QED
    BY <1>11, <2>1
    DEF Endpoints!HandleDelete, Endpoints!pageVars, Endpoints!formVars, Endpoints!fetchVars
<1>12. ASSUME NEW c \in Calls, Endpoints!Applied(c) PROVE EndpointTyped'
  <2>1. /\ version' \in Nat \ {0} /\ configs \in 0..version' /\ seen \in 0..version'
        /\ \A k \in 0..version : k \in 0..version'
    BY <1>12 DEF Endpoints!Applied
  <2>2. listAnswer \in [Endpoints!Fetchers -> 0..version']
    BY <2>1
  <2> QED
    BY <1>12, <2>1, <2>2 DEF Endpoints!Applied, Endpoints!pageVars, Endpoints!formVars, Endpoints!fetchVars
<1>13. ASSUME NEW c \in Calls, Endpoints!Succeeded(c) PROVE EndpointTyped'
  <2>1. /\ message' \in BOOLEAN /\ formLoading' \in BOOLEAN /\ isInitialLoad' \in BOOLEAN
        /\ formError' \in BOOLEAN
    BY <1>13 DEF Endpoints!Succeeded, Endpoints!FormGone
  <2>2. timers' \in Nat /\ seen' \in 0..version /\ modal' \in {"closed", "create", "edit"}
    BY <1>13 DEF Endpoints!Succeeded, Endpoints!FormGone
  <2> QED BY <1>13, <2>1, <2>2 DEF Endpoints!Succeeded
<1>14. ASSUME NEW c \in Calls, Endpoints!Failed(c) PROVE EndpointTyped'
  <2>1. listError' \in BOOLEAN /\ formLoading' \in BOOLEAN /\ formError' \in BOOLEAN
    BY <1>14 DEF Endpoints!Failed
  <2> QED BY <1>14, <2>1 DEF Endpoints!Failed, Endpoints!fetchVars
<1>15. CASE UNCHANGED endpointsVars
  BY <1>15 DEF endpointsVars
<1> QED
  BY <1>1, <1>2, <1>3, <1>4, <1>5, <1>6, <1>7, <1>8, <1>9, <1>10, <1>11, <1>12, <1>13, <1>14, <1>15, ZenonT(30)
  DEF Endpoints!Next, Endpoints!OpenCreate, Endpoints!OpenEdit

\* What the list shows, or will show.
LEMMA EndpointFollowStep ==
  EndpointsInv /\ [Endpoints!Next]_endpointsVars => EndpointsFollow'
<1> SUFFICES ASSUME EndpointsInv, [Endpoints!Next]_endpointsVars,
                    listMounted', ~listError', ~overtaken'
             PROVE  configs' >= seen' \/ \E f \in Endpoints!Fetchers : EndpointToCome(f)'
  BY DEF EndpointsFollow
<1> DEFINE Goal == configs' >= seen' \/ \E f \in Endpoints!Fetchers : EndpointToCome(f)'
<1> USE EndpointParameters DEF EndpointsInv
<1>0. EndpointTyped'
  BY EndpointTypeStep
<1>1. ASSUME listMounted, ~listError, ~overtaken, configs' = configs, seen' = seen,
             \A f \in Endpoints!Fetchers : EndpointToCome(f) => EndpointToCome(f)'
      PROVE  Goal
  BY <1>1 DEF EndpointsFollow
<1>2. ASSUME listMounted, ~listError, ~overtaken, UNCHANGED <<configs, seen, listView, listMounted, callOwner>>,
             UNCHANGED <<listFetch, listAnswer>>
      PROVE  Goal
  BY <1>1, <1>2 DEF EndpointToCome, Endpoints!Live, Endpoints!ViewOf
<1>3. CASE Endpoints!Open
  <2>1. seen' = 0 /\ configs' \in Nat
    BY <1>3 DEF Endpoints!Open, EndpointPage, EndpointTyped
  <2> QED BY <2>1
<1>4. CASE Endpoints!Leave
  BY <1>4 DEF Endpoints!Leave
<1>5. CASE Endpoints!TimerFires
  BY <1>2, <1>5
  DEF Endpoints!TimerFires, Endpoints!formVars, Endpoints!callVars, Endpoints!fetchVars
<1>6. ASSUME NEW mode \in {"create", "edit"}, Endpoints!NewForm(mode) PROVE Goal
  BY <1>2, <1>6 DEF Endpoints!NewForm, Endpoints!pageVars, Endpoints!callVars, Endpoints!fetchVars
<1>7. CASE Endpoints!CloseModal
  BY <1>2, <1>7 DEF Endpoints!CloseModal, Endpoints!pageVars, Endpoints!callVars, Endpoints!fetchVars
<1>8. ASSUME NEW f \in Endpoints!Fetchers, Endpoints!ListTaken(f) PROVE Goal
  <2>1. /\ listFetch[f] = "sent" /\ listFetch' = [listFetch EXCEPT ![f] = "listed"]
        /\ listAnswer' = [listAnswer EXCEPT ![f] = version]
        /\ UNCHANGED <<configs, seen, listView, listMounted, listError, overtaken, callOwner>>
    BY <1>8 DEF Endpoints!ListTaken, Endpoints!pageVars, Endpoints!callVars
  <2>2. \A g \in Endpoints!Fetchers : Endpoints!Live(g)' <=> Endpoints!Live(g)
    BY <2>1 DEF Endpoints!Live, Endpoints!ViewOf
  <2>3. version >= seen /\ seen \in Int
    BY DEF EndpointTyped
  <2>4. \A g \in Endpoints!Fetchers : EndpointToCome(g) => EndpointToCome(g)'
    BY <2>1, <2>2, <2>3 DEF EndpointToCome, EndpointTyped
  <2> QED BY <1>1, <2>1, <2>4
<1>9. ASSUME NEW f \in Endpoints!Fetchers, Endpoints!ListArrives(f) PROVE Goal
  <2>1. /\ listFetch[f] = "listed" /\ listFetch' = [listFetch EXCEPT ![f] = "over"]
        /\ UNCHANGED <<seen, listView, listMounted, listError, callOwner, listAnswer>>
        /\ IF Endpoints!Live(f)
           THEN configs' = listAnswer[f] /\ overtaken' = (overtaken \/ listAnswer[f] < configs)
           ELSE UNCHANGED <<configs, overtaken>>
    BY <1>9 DEF Endpoints!ListArrives, Endpoints!callVars
  <2>2. \A g \in Endpoints!Fetchers : Endpoints!Live(g)' <=> Endpoints!Live(g)
    BY <2>1 DEF Endpoints!Live, Endpoints!ViewOf
  <2>3. \A g \in Endpoints!Fetchers : g # f /\ EndpointToCome(g) => EndpointToCome(g)'
    BY <2>1, <2>2 DEF EndpointToCome, EndpointTyped
  <2>4. /\ listAnswer[f] \in Int /\ configs \in Int /\ seen \in Int /\ configs' \in Int
    BY <1>0, <2>1 DEF EndpointTyped
  <2>5. ~overtaken /\ configs' >= configs
    <3>1. CASE Endpoints!Live(f)
      <4>1. ~overtaken /\ ~(listAnswer[f] < configs) /\ configs' = listAnswer[f]
        BY <2>1, <3>1, Zenon
      <4> QED BY <2>4, <4>1
    <3>2. CASE ~Endpoints!Live(f)
      BY <2>1, <2>4, <3>2
    <3> QED BY <3>1, <3>2
  <2>6. CASE configs >= seen
    BY <2>1, <2>4, <2>5, <2>6
  <2>7. CASE configs < seen
    <3>1. PICK g \in Endpoints!Fetchers : EndpointToCome(g)
      BY <2>1, <2>4, <2>5, <2>7 DEF EndpointsFollow
    <3>2. CASE g = f
      BY <2>1, <3>1, <3>2 DEF EndpointToCome
    <3>3. CASE g # f
      BY <2>3, <3>1, <3>3
    <3> QED BY <3>2, <3>3
  <2> QED BY <2>4, <2>6, <2>7
<1>10. ASSUME NEW f \in Endpoints!Fetchers, Endpoints!ListFails(f) PROVE Goal
  <2>1. /\ listFetch' = [listFetch EXCEPT ![f] = "over"] /\ ~Endpoints!Live(f) /\ ~listError
        /\ UNCHANGED <<configs, seen, overtaken, listView, listMounted, callOwner, listAnswer>>
    BY <1>10 DEF Endpoints!ListFails, Endpoints!callVars
  <2>2. \A g \in Endpoints!Fetchers : EndpointToCome(g) => EndpointToCome(g)'
    BY <2>1 DEF EndpointToCome, Endpoints!Live, Endpoints!ViewOf, EndpointTyped
  <2> QED BY <1>1, <2>1, <2>2
<1>11. ASSUME NEW n \in Endpoints!Forms, NEW ok \in BOOLEAN, Endpoints!ConfigArrives(n, ok) PROVE Goal
  BY <1>2, <1>11
  DEF Endpoints!ConfigArrives, Endpoints!pageVars, Endpoints!callVars, Endpoints!fetchVars
<1>12. ASSUME NEW c \in Calls, NEW m, callOwner' = [callOwner EXCEPT ![c] = <<listView, m>>],
              UNCHANGED <<configs, seen, listView, listMounted, listError, overtaken, listFetch, listAnswer>>
       PROVE  Goal
  <2>1. \A g \in Endpoints!Fetchers : Endpoints!Live(g) => Endpoints!Live(g)'
    <3> SUFFICES ASSUME NEW g \in Endpoints!Fetchers, Endpoints!Live(g) PROVE Endpoints!Live(g)'
      OBVIOUS
    <3>1. CASE g = c
      BY <1>12, <3>1 DEF Endpoints!Live, Endpoints!ViewOf, EndpointTyped
    <3>2. CASE g # c
      BY <1>12, <3>2 DEF Endpoints!Live, Endpoints!ViewOf, EndpointTyped
    <3> QED BY <3>1, <3>2
  <2>2. \A g \in Endpoints!Fetchers : EndpointToCome(g) => EndpointToCome(g)'
    BY <1>12, <2>1 DEF EndpointToCome
  <2> QED BY <1>1, <1>12, <2>2
<1>13. ASSUME NEW c \in Calls, Endpoints!Submit(c) \/ Endpoints!HandleDelete(c) PROVE Goal
  <2>1. CASE Endpoints!Submit(c)
    BY <1>12, <2>1 DEF Endpoints!Submit, Endpoints!pageVars, Endpoints!fetchVars
  <2>2. CASE Endpoints!HandleDelete(c)
    BY <1>12, <2>2 DEF Endpoints!HandleDelete, Endpoints!pageVars, Endpoints!fetchVars
  <2> QED BY <1>13, <2>1, <2>2
<1>14. ASSUME NEW c \in Calls, Endpoints!Applied(c) PROVE Goal
  BY <1>2, <1>14 DEF Endpoints!Applied, Endpoints!pageVars, Endpoints!formVars, Endpoints!fetchVars
<1>15. ASSUME NEW c \in Calls, Endpoints!Succeeded(c) PROVE Goal
  <2>1. /\ listFetch' = [listFetch EXCEPT ![c] = "sent"]
        /\ UNCHANGED <<configs, listView, listMounted, listError, overtaken, callOwner, listAnswer>>
        /\ ~Endpoints!Live(c) => seen' = seen
    BY <1>15 DEF Endpoints!Succeeded
  <2>2. \A g \in Endpoints!Fetchers : Endpoints!Live(g)' <=> Endpoints!Live(g)
    BY <2>1 DEF Endpoints!Live, Endpoints!ViewOf
  <2>3. CASE Endpoints!Live(c)
    BY <2>1, <2>2, <2>3 DEF EndpointToCome, EndpointTyped
  <2>4. CASE ~Endpoints!Live(c)
    <3>1. \A g \in Endpoints!Fetchers : EndpointToCome(g) => EndpointToCome(g)'
      BY <2>1, <2>2, <2>4 DEF EndpointToCome, EndpointTyped
    <3> QED BY <1>1, <2>1, <2>4, <3>1
  <2> QED BY <2>3, <2>4
<1>16. ASSUME NEW c \in Calls, Endpoints!Failed(c) PROVE Goal
  <2>1. ~listError
    BY <1>16 DEF Endpoints!Failed
  <2> QED BY <1>2, <1>16, <2>1 DEF Endpoints!Failed, Endpoints!fetchVars
<1>17. CASE UNCHANGED endpointsVars
  BY <1>2, <1>17 DEF endpointsVars
<1> QED
  BY <1>3, <1>4, <1>5, <1>6, <1>7, <1>8, <1>9, <1>10, <1>11, <1>13, <1>14, <1>15, <1>16, <1>17
  DEF Endpoints!Next, Endpoints!OpenCreate, Endpoints!OpenEdit


\* What the page, the form and the calls say of each other.
LEMMA EndpointFormStep ==
  EndpointsInv /\ [Endpoints!Next]_endpointsVars =>
    EndpointPage' /\ EndpointCalls' /\ EndpointSpinner'
<1> SUFFICES ASSUME EndpointsInv, [Endpoints!Next]_endpointsVars
             PROVE  EndpointPage' /\ EndpointCalls' /\ EndpointSpinner'
  OBVIOUS
<1> DEFINE Goal == EndpointPage' /\ EndpointCalls' /\ EndpointSpinner'
<1> USE EndpointParameters DEF EndpointsInv
<1>0. /\ form \in Int /\ listView \in Int /\ seen \in Int
      /\ \A c \in Calls : /\ stage[c] \in {"idle", "sent", "applied", "over"}
                          /\ callOwner[c][1] \in Int /\ callOwner[c][2] \in Int
  BY DEF EndpointTyped
<1> DEFINE Still == UNCHANGED <<form, listView, stage, kind, callOwner>>
\* Nothing moves but the list or the page around the form.
<1>1. ASSUME Still, UNCHANGED <<modal, formLoading, isInitialLoad, gets, listMounted>>,
             listLoading' => listLoading, listError => listError', ~listMounted => seen' = seen
      PROVE  Goal
  <2>1. EndpointPage'
    BY <1>1 DEF EndpointPage
  <2>2. EndpointCalls'
    BY <1>1 DEF EndpointCalls, EndpointUnderWay
  <2>3. EndpointSpinner'
    BY <1>1 DEF EndpointSpinner, EndpointUnderWay
  <2> QED BY <2>1, <2>2, <2>3
\* The modal is closed; calls go on.
<1>2. ASSUME modal' = "closed", form' = form,
             ~listMounted' => seen' = 0,
             \A c \in Calls : /\ callOwner'[c] = callOwner[c] /\ kind'[c] = kind[c]
                              /\ stage'[c] = "idle" => stage[c] = "idle"
      PROVE  Goal
  BY <1>2 DEF EndpointPage, EndpointCalls, EndpointSpinner
<1>3. CASE Endpoints!Open
  BY <1>2, <1>3 DEF Endpoints!Open, Endpoints!formVars, Endpoints!callVars, EndpointPage
<1>4. CASE Endpoints!Leave
  BY <1>2, <1>4 DEF Endpoints!Leave, Endpoints!callVars
<1>5. CASE Endpoints!TimerFires
  BY <1>1, <1>5
  DEF Endpoints!TimerFires, Endpoints!formVars, Endpoints!callVars, Endpoints!fetchVars
<1>6. ASSUME NEW mode \in {"create", "edit"}, Endpoints!PageShown, Endpoints!NewForm(mode) PROVE Goal
  <2>1. /\ form' = form + 1 /\ modal' = mode /\ formLoading' = (mode = "edit")
        /\ isInitialLoad' = (mode = "edit")
        /\ gets' = IF mode = "edit" THEN gets \cup {form + 1} ELSE gets
        /\ UNCHANGED <<listMounted, listView, listLoading, listError, seen, stage, kind, callOwner>>
    BY <1>6 DEF Endpoints!NewForm, Endpoints!pageVars, Endpoints!callVars
  <2>2. EndpointPage'
    BY <1>0, <1>6, <2>1 DEF EndpointPage, Endpoints!PageShown, EndpointTyped
  <2>3. \A c \in Calls : callOwner[c][2] < form'
    BY <1>0, <2>1 DEF EndpointCalls
  <2>4. \A c \in Calls : ~EndpointUnderWay(c)'
    BY <1>0, <2>1, <2>3 DEF EndpointUnderWay
  <2>5. EndpointCalls'
    BY <1>0, <2>1, <2>3, <2>4 DEF EndpointCalls
  <2>6. EndpointSpinner'
    BY <2>1 DEF EndpointSpinner
  <2> QED BY <2>2, <2>5, <2>6
<1>7. CASE Endpoints!CloseModal
  BY <1>2, <1>7
  DEF Endpoints!CloseModal, Endpoints!FormGone, Endpoints!pageVars, Endpoints!callVars, EndpointPage
<1>8. ASSUME NEW f \in Endpoints!Fetchers, Endpoints!ListTaken(f) PROVE Goal
  BY <1>1, <1>8 DEF Endpoints!ListTaken, Endpoints!pageVars, Endpoints!formVars, Endpoints!callVars
<1>9. ASSUME NEW f \in Endpoints!Fetchers, Endpoints!ListArrives(f) PROVE Goal
  BY <1>1, <1>9 DEF Endpoints!ListArrives, Endpoints!formVars, Endpoints!callVars
<1>10. ASSUME NEW f \in Endpoints!Fetchers, Endpoints!ListFails(f) PROVE Goal
  BY <1>1, <1>10 DEF Endpoints!ListFails, Endpoints!formVars, Endpoints!callVars
<1>11. ASSUME NEW n \in Endpoints!Forms, NEW ok \in BOOLEAN, Endpoints!ConfigArrives(n, ok) PROVE Goal
  <2>1. /\ n \in gets /\ gets' = gets \ {n} /\ Still
        /\ UNCHANGED <<modal, seen, listMounted, listLoading, listError>>
        /\ isInitialLoad' => isInitialLoad
        /\ IF Endpoints!FormShown /\ form = n
           THEN formLoading' = FALSE /\ isInitialLoad' = FALSE
           ELSE UNCHANGED <<formLoading, isInitialLoad>>
    BY <1>11 DEF Endpoints!ConfigArrives, Endpoints!pageVars, Endpoints!callVars, Endpoints!fetchVars
  <2>2. EndpointPage' /\ EndpointCalls'
    BY <2>1 DEF EndpointPage, EndpointCalls, EndpointUnderWay
  <2>3. modal # "closed" /\ ~listError => Endpoints!FormShown
    BY DEF EndpointPage, Endpoints!FormShown, Endpoints!PageShown
  <2>4. EndpointSpinner'
    BY <2>1, <2>3 DEF EndpointSpinner, EndpointUnderWay
  <2> QED BY <2>2, <2>4
<1>12. ASSUME NEW c \in Calls, Endpoints!Submit(c) PROVE Goal
  <2>1. /\ stage[c] = "idle" /\ stage' = [stage EXCEPT ![c] = "sent"]
        /\ callOwner' = [callOwner EXCEPT ![c] = <<listView, form>>]
        /\ formLoading' = TRUE /\ ~isInitialLoad
        /\ UNCHANGED <<modal, form, isInitialLoad, gets, kind, seen, listMounted, listView, listLoading, listError>>
    BY <1>12 DEF Endpoints!Submit, Endpoints!FormEnabled, Endpoints!pageVars
  <2>2. EndpointPage'
    BY <2>1 DEF EndpointPage
  <2>3. callOwner'[c] = <<listView, form>> /\ stage'[c] = "sent" /\ kind[c] # "delete"
    BY <2>1 DEF EndpointTyped, EndpointCalls
  <2>4. EndpointCalls'
    <3>1. ASSUME NEW d \in Calls, d # c PROVE callOwner'[d] = callOwner[d] /\ stage'[d] = stage[d]
      BY <2>1, <3>1 DEF EndpointTyped
    <3> QED BY <1>0, <2>1, <2>3, <3>1 DEF EndpointCalls
  <2>5. EndpointSpinner'
    BY <2>1, <2>3 DEF EndpointSpinner, EndpointUnderWay
  <2> QED BY <2>2, <2>4, <2>5
<1>13. ASSUME NEW c \in Calls, Endpoints!HandleDelete(c) PROVE Goal
  <2>1. /\ modal = "closed" /\ stage' = [stage EXCEPT ![c] = "sent"]
        /\ kind' = [kind EXCEPT ![c] = "delete"] /\ callOwner' = [callOwner EXCEPT ![c] = <<listView, 0>>]
        /\ UNCHANGED <<modal, form, seen, listMounted>>
    BY <1>13
    DEF Endpoints!HandleDelete, Endpoints!RowsOffered, Endpoints!pageVars, Endpoints!formVars
  <2>2. callOwner'[c][2] = 0 /\ stage'[c] = "sent" /\ 0 <= form
    BY <2>1 DEF EndpointTyped
  <2>3. ASSUME NEW d \in Calls, d # c
        PROVE  callOwner'[d] = callOwner[d] /\ stage'[d] = stage[d] /\ kind'[d] = kind[d]
    BY <2>1, <2>3 DEF EndpointTyped
  <2>4. EndpointCalls'
    BY <2>1, <2>2, <2>3 DEF EndpointCalls
  <2> QED BY <2>1, <2>4 DEF EndpointPage, EndpointSpinner
<1>14. ASSUME NEW c \in Calls, Endpoints!Applied(c) PROVE Goal
  <2>1. /\ stage[c] = "sent" /\ stage' = [stage EXCEPT ![c] = "applied"]
        /\ UNCHANGED <<modal, form, formLoading, isInitialLoad, gets, kind, callOwner>>
        /\ UNCHANGED <<seen, listMounted, listView, listLoading, listError>>
    BY <1>14 DEF Endpoints!Applied, Endpoints!pageVars, Endpoints!formVars
  <2>2. \A d \in Calls : /\ EndpointUnderWay(d)' <=> EndpointUnderWay(d)
                         /\ stage'[d] = "idle" <=> stage[d] = "idle"
    BY <2>1 DEF EndpointUnderWay, EndpointTyped
  <2> QED BY <2>1, <2>2 DEF EndpointPage, EndpointCalls, EndpointSpinner
\* What a call that is over leaves of the others.
<1>15. ASSUME NEW c \in Calls, stage[c] \in {"sent", "applied"}, stage' = [stage EXCEPT ![c] = "over"],
              UNCHANGED <<form, gets, kind, callOwner, listView>>
       PROVE  /\ \A d \in Calls : EndpointUnderWay(d)' <=> d # c /\ EndpointUnderWay(d)
              /\ \A d \in Calls : stage'[d] = "idle" <=> stage[d] = "idle"
  BY <1>15 DEF EndpointUnderWay, EndpointTyped
<1>16. ASSUME NEW c \in Calls, Endpoints!Succeeded(c) PROVE Goal
  <2>1. /\ stage[c] = "applied" /\ stage' = [stage EXCEPT ![c] = "over"]
        /\ UNCHANGED <<form, gets, kind, callOwner, listMounted, listView, listLoading, listError>>
        /\ ~Endpoints!Live(c) => seen' = seen
        /\ IF Endpoints!Live(c) /\ kind[c] = "save" THEN modal' = "closed"
           ELSE UNCHANGED <<modal, formLoading, isInitialLoad>>
    BY <1>16 DEF Endpoints!Succeeded, Endpoints!FormGone
  <2>2. /\ \A d \in Calls : EndpointUnderWay(d)' <=> d # c /\ EndpointUnderWay(d)
        /\ \A d \in Calls : stage'[d] = "idle" <=> stage[d] = "idle"
    BY <1>15, <2>1
  <2>3. ~listMounted => ~Endpoints!Live(c)
    BY DEF Endpoints!Live
  <2>4. EndpointPage'
    BY <2>1, <2>3 DEF EndpointPage
  <2>5. CASE Endpoints!Live(c) /\ kind[c] = "save"
    BY <2>1, <2>2, <2>4, <2>5 DEF EndpointCalls, EndpointSpinner
  <2>6. CASE ~(Endpoints!Live(c) /\ kind[c] = "save")
    <3>1. modal # "closed" => ~EndpointUnderWay(c)
      <4>1. CASE kind[c] = "save"
        BY <1>0, <2>6, <4>1 DEF EndpointPage, EndpointUnderWay, Endpoints!Live, Endpoints!ViewOf
      <4>2. CASE kind[c] = "delete"
        BY <1>0, <4>2 DEF EndpointPage, EndpointUnderWay, EndpointCalls
      <4> QED BY <4>1, <4>2 DEF EndpointTyped
    <3>2. EndpointCalls'
      BY <2>1, <2>2, <2>6 DEF EndpointCalls
    <3>3. EndpointSpinner'
      BY <2>1, <2>2, <2>6, <3>1 DEF EndpointSpinner
    <3> QED BY <2>4, <3>2, <3>3
  <2> QED BY <2>5, <2>6
<1>17. ASSUME NEW c \in Calls, Endpoints!Failed(c) PROVE Goal
  <2>1. /\ stage[c] \in {"sent", "applied"} /\ stage' = [stage EXCEPT ![c] = "over"]
        /\ UNCHANGED <<modal, form, isInitialLoad, gets, kind, callOwner, listMounted, listView, listLoading, seen>>
        /\ listError => listError'
        /\ IF Endpoints!OwnForm(c) THEN formLoading' = FALSE ELSE UNCHANGED formLoading
    BY <1>17 DEF Endpoints!Failed
  <2>2. /\ \A d \in Calls : EndpointUnderWay(d)' <=> d # c /\ EndpointUnderWay(d)
        /\ \A d \in Calls : stage'[d] = "idle" <=> stage[d] = "idle"
    BY <1>15, <2>1
  <2>3. EndpointPage' /\ EndpointCalls'
    BY <2>1, <2>2 DEF EndpointPage, EndpointCalls
  <2>4. modal # "closed" /\ ~listError => (Endpoints!OwnForm(c) <=> EndpointUnderWay(c))
    BY <2>1
    DEF EndpointPage, EndpointUnderWay, Endpoints!OwnForm, Endpoints!FormShown, Endpoints!PageShown,
        Endpoints!Live, Endpoints!ViewOf, EndpointTyped
  <2>5. EndpointSpinner'
    BY <2>1, <2>2, <2>4 DEF EndpointSpinner, EndpointCalls
  <2> QED BY <2>3, <2>5
<1>18. CASE UNCHANGED endpointsVars
  BY <1>1, <1>18 DEF endpointsVars
<1> QED
  BY <1>3, <1>4, <1>5, <1>6, <1>7, <1>8, <1>9, <1>10, <1>11, <1>12, <1>13, <1>14, <1>16, <1>17, <1>18
  DEF Endpoints!Next, Endpoints!OpenCreate, Endpoints!OpenEdit, Endpoints!RowsOffered

LEMMA EndpointsStep == EndpointsInv /\ [Endpoints!Next]_endpointsVars => EndpointsInv'
BY EndpointTypeStep, EndpointFollowStep, EndpointFormStep DEF EndpointsInv

LEMMA EndpointsStart == Endpoints!Init => EndpointsInv
<1> SUFFICES ASSUME Endpoints!Init PROVE EndpointsInv
  OBVIOUS
<1> USE EndpointParameters DEF Endpoints!Init
<1>1. /\ listMounted \in BOOLEAN /\ listLoading \in BOOLEAN /\ listError \in BOOLEAN
      /\ message \in BOOLEAN /\ formLoading \in BOOLEAN /\ isInitialLoad \in BOOLEAN
      /\ formError \in BOOLEAN /\ overtaken \in BOOLEAN
  OBVIOUS
<1>2. callOwner \in [Calls -> (0..MaxViews) \X (0..MaxForms)]
  OBVIOUS
<1>3. EndpointTyped
  BY <1>1, <1>2 DEF EndpointTyped
<1> QED BY <1>3 DEF EndpointsInv, EndpointPage, EndpointsFollow, EndpointCalls, EndpointSpinner

\* Whatever answers come late or not at all: a list that shows is not older than the
\* last success that the page was told of, unless an older list came in after a newer
\* one, and a form spins only for a request of its own (endpoint-list.tsx 60-122,
\* endpoint-form.tsx).
THEOREM EndpointsNeverSilentlyStale == MCSpec => []NoSilentStaleness
<1>1. EndpointsInv => NoSilentStaleness
  <2> SUFFICES ASSUME EndpointsInv PROVE NoSilentStaleness
    OBVIOUS
  <2> USE EndpointParameters DEF EndpointsInv
  <2>1. Endpoints!ListFollowsSuccess
    BY DEF Endpoints!ListFollowsSuccess, Endpoints!PageShown, Endpoints!ListUnderWay,
           EndpointsFollow, EndpointToCome
  <2>2. Endpoints!FormSpinnerHonest
    <3> SUFFICES ASSUME Endpoints!FormShown
                 PROVE  /\ isInitialLoad => formLoading
                        /\ formLoading => form \in gets \/
                             \E c \in Calls : Endpoints!OwnForm(c) /\ stage[c] \in {"sent", "applied"}
      BY DEF Endpoints!FormSpinnerHonest
    <3>1. modal # "closed" /\ ~listError /\ listMounted
      BY DEF Endpoints!FormShown, Endpoints!PageShown
    <3>2. \A c \in Calls : EndpointUnderWay(c) => Endpoints!OwnForm(c) /\ stage[c] \in {"sent", "applied"}
      BY <3>1 DEF EndpointUnderWay, Endpoints!OwnForm, Endpoints!Live, Endpoints!ViewOf, EndpointTyped
    <3> QED BY <3>1, <3>2 DEF EndpointSpinner
  <2> QED BY <2>1, <2>2 DEF NoSilentStaleness, Endpoints!NoSilentStaleness
<1> QED BY <1>1, EachPageRuns, EndpointsStart, EndpointsStep, PTL DEF MCSpec


-----------------------------------------------------------------------------
(* Toasts                                                                   *)

LEMMA ToastParameters ==
  /\ MaxToasts \in Nat /\ TOAST_LIMIT \in Nat \ {0}
  /\ Toasts!ToastIds = 1..MaxToasts /\ Toasts!All = 0
BY MCAssumption DEF Toasts!ParametersOk, Toasts!ToastIds, Toasts!All

\* An instance has the operators of the modules it extends under names of its own.
LEMMA ToastCardinality == \A S : Toasts!Cardinality(S) = Cardinality(S)
BY DEF Toasts!Cardinality, Cardinality

\* A set of numbers that is not empty has a least one.
LEMMA LeastNumber ==
  ASSUME NEW S \in SUBSET Nat, S # {}
  PROVE  \E m \in S : \A x \in S : m <= x
<1>1. PICK m \in S : \A x \in S : ~(<<x, m>> \in OpToRel(<, Nat))
  BY NatLessThanWellFounded, WFMin
<1>2. ASSUME NEW x \in S PROVE m <= x
  <2>1. ~(x < m)
    BY <1>1 DEF OpToRel
  <2> QED BY <2>1
<1> QED BY <1>2

\* However many toasts there are, the reducer keeps TOAST_LIMIT of them.
LEMMA NewestAreFew ==
  ASSUME NEW S, S \subseteq Nat, IsFiniteSet(S)
  PROVE  /\ Toasts!Newest(S) \subseteq S
         /\ Cardinality(Toasts!Newest(S)) <= TOAST_LIMIT
<1> USE ToastParameters
<1> DEFINE M == Toasts!Newest(S)
<1>1. M \subseteq S
  BY DEF Toasts!Newest
<1>2. CASE M = {}
  <2>1. Cardinality(M) = 0
    BY <1>2, FS_EmptySet
  <2> QED BY <1>1, <2>1
<1>3. CASE M # {}
  <2>1. PICK m \in M : \A x \in M : m <= x
    BY <1>1, <1>3, LeastNumber
  <2> DEFINE A == {u \in S : u > m}
  <2>2. m \in Nat /\ m \notin A
    <3>1. m \in Nat
      BY <1>1, <2>1
    <3>2. ~(m > m)
      BY <3>1
    <3> QED BY <3>1, <3>2
  <2>3. Cardinality(A) < TOAST_LIMIT
    <3>1. m \in {t \in S : Toasts!Cardinality({u \in S : u > t}) < TOAST_LIMIT}
      BY <2>1 DEF Toasts!Newest
    <3>2. Toasts!Cardinality({u \in S : u > m}) < TOAST_LIMIT
      BY <3>1
    <3>3. Toasts!Cardinality(A) = Cardinality(A)
      BY ToastCardinality
    <3> QED BY <3>2, <3>3
  <2>9. IsFiniteSet(A) /\ Cardinality(A) \in Nat
    BY FS_Subset, FS_CardinalityType
  <2>4. IsFiniteSet(A \cup {m}) /\ Cardinality(A \cup {m}) = Cardinality(A) + 1
    <3> HIDE DEF A
    <3> QED BY <2>2, <2>9, FS_AddElement
  <2>5. M \subseteq A \cup {m}
    <3>1. ASSUME NEW x \in M PROVE x \in A \cup {m}
      <4>1. x \in S /\ x \in Nat /\ m <= x
        BY <1>1, <2>1
      <4> QED BY <2>2, <4>1
    <3> QED BY <3>1
  <2>6. IsFiniteSet(M) /\ Cardinality(M) <= Cardinality(A \cup {m})
    BY <2>4, <2>5, FS_Subset
  <2>7. Cardinality(M) \in Nat
    BY <2>6, FS_CardinalityType
  <2>8. Cardinality(M) <= TOAST_LIMIT
    <3> HIDE DEF M, A
    <3> QED BY <2>3, <2>4, <2>6, <2>7, <2>9
  <2> QED BY <1>1, <2>8
<1> QED BY <1>2, <1>3

\* A Toaster that has rendered shows what it read, unless it missed something.
ToastsShown == toasterPhase # "off" => toasterView = <<toasts, open>> \/ missed

ToastsInv == Toasts!TypeOK /\ ToastsShown /\ Toasts!ToasterFollows

\* The Toaster after a dispatch, or one that did not hear of it.
LEMMA ToastsNotified ==
  ASSUME ToastsInv, Toasts!Notify, toasterPhase' = toasterPhase,
         toasts' \subseteq Toasts!ToastIds, open' \subseteq toasts',
         \A t \in toasts' : t \in open' \/ t \in toastTimeouts'
  PROVE  /\ toasterView'[1] \subseteq Toasts!ToastIds /\ toasterView'[2] \subseteq toasterView'[1]
         /\ missed' \in BOOLEAN /\ ToastsShown' /\ Toasts!ToasterFollows'
<1> USE DEF ToastsInv, ToastsShown
<1>1. CASE toasterPhase = "subscribed"
  <2>1. toasterView' = <<toasts', open'>> /\ missed' = FALSE
    BY <1>1 DEF Toasts!Notify
  <2>2. missed' \in BOOLEAN
    BY <2>1
  <2>3. Toasts!ToasterFollows'
    BY <2>1 DEF Toasts!ToasterFollows
  <2> QED BY <2>1, <2>2, <2>3
<1>2. CASE toasterPhase = "rendered"
  <2>1. toasterView' = toasterView /\ missed' = TRUE
    BY <1>2 DEF Toasts!Notify
  <2>2. missed' \in BOOLEAN
    BY <2>1
  <2> QED BY <1>2, <2>1, <2>2 DEF Toasts!ToasterFollows, Toasts!TypeOK
<1>3. CASE toasterPhase = "off"
  <2>1. toasterView' = toasterView /\ missed' = missed
    BY <1>3 DEF Toasts!Notify
  <2>2. missed' \in BOOLEAN
    BY <2>1 DEF Toasts!TypeOK
  <2> QED BY <1>3, <2>1, <2>2 DEF Toasts!ToasterFollows, Toasts!TypeOK
<1> QED BY <1>1, <1>2, <1>3 DEF Toasts!TypeOK

LEMMA ToastsStep == ToastsInv /\ [Toasts!Next]_toastsVars => ToastsInv'
<1> SUFFICES ASSUME ToastsInv, [Toasts!Next]_toastsVars PROVE ToastsInv'
  OBVIOUS
<1> USE ToastParameters DEF ToastsInv
<1>0. /\ count \in 0..MaxToasts /\ toasts \subseteq 1..count /\ open \subseteq toasts
      /\ Cardinality(toasts) <= TOAST_LIMIT /\ toastTimeouts \subseteq Toasts!ToastIds
      /\ toasterPhase \in {"off", "rendered", "subscribed"} /\ missed \in BOOLEAN
      /\ IsFiniteSet(toasts) /\ Cardinality(toasts) \in Nat
  <2>1. IsFiniteSet(1..count) /\ toasts \subseteq 1..count
    BY FS_Interval DEF Toasts!TypeOK
  <2>2. IsFiniteSet(toasts) /\ Cardinality(toasts) \in Nat
    BY <2>1, FS_Subset, FS_CardinalityType
  <2>3. toasterPhase \in {"off", "rendered", "subscribed"} /\ missed \in BOOLEAN
    BY DEF Toasts!TypeOK
  <2>4. /\ count \in 0..MaxToasts /\ toasts \subseteq 1..count /\ open \subseteq toasts
        /\ Cardinality(toasts) <= TOAST_LIMIT /\ toastTimeouts \subseteq Toasts!ToastIds
    BY ToastCardinality DEF Toasts!TypeOK
  <2> QED BY <2>2, <2>3, <2>4
<1>1. ASSUME Toasts!Notify, toasterPhase' = toasterPhase, count' \in 0..MaxToasts,
             toasts' \subseteq 1..count', open' \subseteq toasts', Cardinality(toasts') <= TOAST_LIMIT,
             toastTimeouts' \subseteq Toasts!ToastIds,
             \A t \in toasts' : t \in open' \/ t \in toastTimeouts'
      PROVE  ToastsInv'
  <2>1. toasts' \subseteq Toasts!ToastIds
    BY <1>1
  <2>2. /\ toasterView'[1] \subseteq Toasts!ToastIds /\ toasterView'[2] \subseteq toasterView'[1]
        /\ missed' \in BOOLEAN /\ ToastsShown' /\ Toasts!ToasterFollows'
    BY <1>1, <2>1, ToastsNotified
  <2>3. toasterPhase' \in {"off", "rendered", "subscribed"}
    BY <1>0, <1>1
  <2>4. Toasts!TypeOK'
    <3> HIDE DEF ToastsInv
    <3> QED BY <1>1, <2>2, <2>3, ToastCardinality, Zenon DEF Toasts!TypeOK
  <2> QED BY <2>2, <2>4
<1>2. CASE Toasts!Toast
  <2>1. /\ count < MaxToasts /\ count' = count + 1 /\ toasts' = Toasts!Newest(toasts \cup {count + 1})
        /\ open' = (open \cup {count + 1}) \cap toasts' /\ Toasts!Notify
        /\ UNCHANGED <<toastTimeouts, toasterPhase>>
    BY <1>2 DEF Toasts!Toast
  <2>2. toasts \cup {count + 1} \subseteq Nat /\ IsFiniteSet(toasts \cup {count + 1})
    BY <1>0, FS_AddElement
  <2>3. toasts' \subseteq toasts \cup {count + 1} /\ Cardinality(toasts') <= TOAST_LIMIT
    BY <2>1, <2>2, NewestAreFew
  <2>4. count' \in 0..MaxToasts /\ toasts' \subseteq 1..count'
    <3>1. count' \in 0..MaxToasts /\ count + 1 \in 1..count' /\ \A t \in 1..count : t \in 1..count'
      BY <1>0, <2>1
    <3> QED BY <1>0, <2>3, <3>1
  <2>5. \A t \in toasts' : t \in open' \/ t \in toastTimeouts'
    BY <2>1, <2>3 DEF Toasts!ToasterFollows
  <2> QED BY <1>0, <1>1, <2>1, <2>3, <2>4, <2>5
<1>3. CASE Toasts!Update
  BY <1>0, <1>1, <1>3 DEF Toasts!Update, Toasts!storeVars, Toasts!ToasterFollows
<1>4. ASSUME NEW t \in Toasts!ToastIds \cup {Toasts!All}, Toasts!Dismiss(t) PROVE ToastsInv'
  <2>1. /\ toastTimeouts' = toastTimeouts \cup (IF t = 0 THEN toasts ELSE {t})
        /\ open' = (IF t = 0 THEN {} ELSE open \ {t}) /\ Toasts!Notify
        /\ UNCHANGED <<count, toasts, toasterPhase>>
    BY <1>4 DEF Toasts!Dismiss
  <2>2. toasts \subseteq Toasts!ToastIds
    BY <1>0
  <2>3. toastTimeouts' \subseteq Toasts!ToastIds /\ open' \subseteq toasts'
    BY <1>0, <2>1, <2>2
  <2>4. \A u \in toasts' : u \in open' \/ u \in toastTimeouts'
    BY <2>1 DEF Toasts!ToasterFollows
  <2> QED BY <1>0, <1>1, <2>1, <2>3, <2>4
<1>5. ASSUME NEW t \in Toasts!ToastIds, Toasts!AutoClose(t) PROVE ToastsInv'
  BY <1>4, <1>5 DEF Toasts!AutoClose
<1>6. ASSUME NEW t \in Toasts!ToastIds, Toasts!Remove(t) PROVE ToastsInv'
  <2>1. /\ toastTimeouts' = toastTimeouts \ {t} /\ toasts' = toasts \ {t} /\ open' = open \ {t}
        /\ Toasts!Notify /\ UNCHANGED <<count, toasterPhase>>
    BY <1>6 DEF Toasts!Remove
  <2>2. Cardinality(toasts') <= Cardinality(toasts) /\ Cardinality(toasts') \in Nat
    BY <1>0, <2>1, FS_Subset, FS_CardinalityType
  <2>3. \A u \in toasts' : u \in open' \/ u \in toastTimeouts'
    BY <2>1 DEF Toasts!ToasterFollows
  <2>4. Cardinality(toasts') <= TOAST_LIMIT
    BY <1>0, <2>2
  <2> QED BY <1>0, <1>1, <2>1, <2>3, <2>4
<1>7. CASE Toasts!Render
  <2>1. toasts \subseteq Toasts!ToastIds
    BY <1>0
  <2>2. toasterView' = <<toasts, open>> /\ toasterPhase' = "rendered"
        /\ UNCHANGED <<count, toasts, open, toastTimeouts, missed>>
    BY <1>7 DEF Toasts!Render, Toasts!storeVars
  <2>3. toasterView'[1] \subseteq Toasts!ToastIds /\ toasterView'[2] \subseteq toasterView'[1]
    BY <1>0, <2>1, <2>2
  <2> QED BY <1>0, <2>2, <2>3 DEF Toasts!TypeOK, ToastsShown, Toasts!ToasterFollows
<1>8. CASE Toasts!Subscribe
  BY <1>0, <1>8
  DEF Toasts!Subscribe, Toasts!storeVars, Toasts!TypeOK, ToastsShown, Toasts!ToasterFollows
<1>9. CASE UNCHANGED toastsVars
  BY <1>9 DEF toastsVars, Toasts!TypeOK, ToastsShown, Toasts!ToasterFollows
<1> QED BY <1>2, <1>3, <1>4, <1>5, <1>6, <1>7, <1>8, <1>9 DEF Toasts!Next

LEMMA ToastsStart == Toasts!Init => ToastsInv
<1> SUFFICES ASSUME Toasts!Init PROVE ToastsInv
  OBVIOUS
<1> USE ToastParameters DEF Toasts!Init
<1>1. Cardinality(toasts) <= TOAST_LIMIT
  BY FS_EmptySet
<1>2. missed \in BOOLEAN
  OBVIOUS
<1>3. Toasts!TypeOK
  BY <1>1, <1>2, ToastCardinality DEF Toasts!TypeOK
<1> QED BY <1>3 DEF ToastsInv, ToastsShown, Toasts!ToasterFollows


-----------------------------------------------------------------------------
(* History                                                                  *)

LEMMA HistoryParameters ==
  /\ None \notin Ids /\ Latencies \subseteq Nat /\ MaxRows \in Nat /\ MaxEffects \in Nat
  /\ History!Effects = 1..MaxEffects
BY MCAssumption DEF History!ParametersOk, History!Effects

\* The first n probes of a backend as they are told, and turned round.
Probes(i, n) == {[k \in 1..n |-> rows[i][p[k]]] : p \in History!ToldOrders(i, n)}
ProbesTurned(i, n) == [k \in 1..n |-> rows[i][n + 1 - k]]

\* The milliseconds of the rows of a backend are as far on as there are rows.
HistoryRows ==
  /\ rows \in [Ids -> Seq(History!Row)]
  /\ \A i \in Ids : /\ Len(rows[i]) <= MaxRows
                    /\ \A k \in 1..Len(rows[i]) : rows[i][k].checkedAt <= k
HistoryTyped ==
  /\ HistoryRows
  /\ historyId \in Ids \cup {None} /\ historyEffect \in 0..MaxEffects
  /\ historyMountedAt \in 0..historyEffect
  /\ historyIdOf \in [History!Effects -> Ids \cup {None}]
  /\ request \in [History!Effects -> {"idle", "sent", "answered", "over"}]
  /\ rowsAnswer \in [History!Effects -> History!RowSeqs(History!Row)]
  /\ historyData \in History!RowSeqs(History!Row)
  /\ historyLoading \in BOOLEAN /\ historyError \in BOOLEAN

\* A page that is open has run its effect for the address.
HistoryPage ==
  /\ historyId = None => historyLoading
  /\ historyId # None =>
       /\ 1 <= historyMountedAt /\ historyMountedAt <= historyEffect
       /\ historyIdOf[historyEffect] = historyId
  /\ \A e \in History!Effects : /\ historyIdOf[e] # None <=> e <= historyEffect
                                /\ request[e] # "idle" => e <= historyEffect

\* An answer has the first rows of its backend, the newest first.
HistoryAnswers ==
  \A e \in History!Effects : request[e] = "answered" =>
    \E n \in 0..Len(rows[historyIdOf[e]]) : rowsAnswer[e] = ProbesTurned(historyIdOf[e], n)

\* What is shown are the first rows of a backend that the page was led to.
HistoryShows ==
  historyId # None /\ ~historyLoading /\ ~historyError =>
    \E e \in historyMountedAt..historyEffect :
      \E n \in 0..Len(rows[historyIdOf[e]]) : historyData \in Probes(historyIdOf[e], n)

HistoryInv == HistoryTyped /\ HistoryPage /\ HistoryAnswers /\ HistoryShows

\* First rows have the types of rows.
LEMMA ProbesAreRows ==
  ASSUME HistoryRows, NEW i \in Ids, NEW n \in 0..Len(rows[i])
  PROVE  /\ Probes(i, n) \subseteq History!RowSeqs(History!Row)
         /\ ProbesTurned(i, n) \in History!RowSeqs(History!Row)
<1> USE HistoryParameters
<1>1. rows[i] \in Seq(History!Row) /\ Len(rows[i]) \in Nat /\ Len(rows[i]) <= MaxRows
  BY DEF HistoryRows
<1>2. n \in 0..MaxRows /\ \A k \in 1..n : k \in 1..Len(rows[i]) /\ n + 1 - k \in 1..Len(rows[i])
  BY <1>1
<1>3. ProbesTurned(i, n) \in [1..n -> History!Row]
  BY <1>1, <1>2 DEF ProbesTurned
<1>4. ASSUME NEW p \in History!ToldOrders(i, n)
      PROVE  [k \in 1..n |-> rows[i][p[k]]] \in [1..n -> History!Row]
  <2>1. \A k \in 1..n : p[k] \in 1..Len(rows[i])
    BY <1>1, <1>2 DEF History!ToldOrders, History!Orders
  <2> QED BY <1>1, <2>1
<1>5. Probes(i, n) \subseteq [1..n -> History!Row]
  BY <1>4 DEF Probes
<1> QED BY <1>2, <1>3, <1>5 DEF History!RowSeqs

\* The page sorts an answer back into the first rows, as they are told.
LEMMA AnswerIsSortedBack ==
  ASSUME HistoryRows, NEW i \in Ids, NEW n \in 0..Len(rows[i])
  PROVE  History!OldestFirst(ProbesTurned(i, n)) \subseteq Probes(i, n)
<1> PICK t : t = ProbesTurned(i, n)
  OBVIOUS
<1>1. rows[i] \in Seq(History!Row) /\ Len(rows[i]) \in Nat /\ n \in Nat
  BY DEF HistoryRows
<1>2. \A k \in 1..n : n + 1 - k \in 1..n /\ n + 1 - k \in 1..Len(rows[i]) /\ n + 1 - (n + 1 - k) = k
  BY <1>1
<1>3. Len(t) = n /\ \A k \in 1..n : t[k] = rows[i][n + 1 - k]
  BY <1>1, <1>2 DEF ProbesTurned
<1> SUFFICES ASSUME NEW q \in History!Orders(n),
                    \A j, k \in 1..n : j < k =>
                      \/ t[q[j]].checkedAt < t[q[k]].checkedAt
                      \/ t[q[j]].checkedAt = t[q[k]].checkedAt /\ q[j] < q[k]
             PROVE  [k \in 1..n |-> t[q[k]]] \in Probes(i, n)
  BY <1>3 DEF History!OldestFirst
<1>4. q \in [1..n -> 1..n] /\ \A k \in 1..n : \E j \in 1..n : q[j] = k
  BY DEF History!Orders
<1> PICK p : p = [k \in 1..n |-> n + 1 - q[k]]
  OBVIOUS
<1>5. p \in [1..n -> 1..n] /\ \A k \in 1..n : p[k] = n + 1 - q[k] /\ t[q[k]] = rows[i][p[k]]
  BY <1>1, <1>2, <1>3, <1>4
<1>6. p \in History!Orders(n)
  <2>1. ASSUME NEW k \in 1..n PROVE \E j \in 1..n : p[j] = k
    <3>1. PICK j \in 1..n : q[j] = n + 1 - k
      BY <1>2, <1>4
    <3> QED BY <1>2, <1>5, <3>1
  <2> QED BY <1>5, <2>1 DEF History!Orders
<1>7. ASSUME NEW j \in 1..n, NEW k \in 1..n, j < k
      PROVE  \/ rows[i][p[j]].checkedAt < rows[i][p[k]].checkedAt
             \/ rows[i][p[j]].checkedAt = rows[i][p[k]].checkedAt /\ p[k] < p[j]
  <2>1. q[j] \in Int /\ q[k] \in Int
    BY <1>4
  <2>2. q[j] < q[k] => p[k] < p[j]
    BY <1>1, <1>5, <2>1
  <2>3. t[q[j]].checkedAt = rows[i][p[j]].checkedAt /\ t[q[k]].checkedAt = rows[i][p[k]].checkedAt
    BY <1>5
  <2>4. \/ t[q[j]].checkedAt < t[q[k]].checkedAt
        \/ t[q[j]].checkedAt = t[q[k]].checkedAt /\ q[j] < q[k]
    BY <1>7
  <2> QED BY <2>2, <2>3, <2>4
<1>8. p \in History!ToldOrders(i, n)
  BY <1>6, <1>7 DEF History!ToldOrders
<1>9. [k \in 1..n |-> t[q[k]]] = [k \in 1..n |-> rows[i][p[k]]]
  BY <1>5
<1> QED BY <1>8, <1>9 DEF Probes

\* New rows come behind those that an answer or the page has.
LEMMA HistorySaves ==
  ASSUME HistoryInv, NEW i \in Ids, History!SaveHistory(i)
  PROVE  HistoryInv'
<1> USE HistoryParameters DEF HistoryInv
<1>1. PICK ms \in History!Moments(rows[i]), up \in BOOLEAN, l \in Latencies :
        rows' = [rows EXCEPT ![i] = Append(@, [checkedAt |-> ms, isHealthy |-> up, Latency |-> l])]
  BY DEF History!SaveHistory
<1>2. /\ Len(rows[i]) < MaxRows
      /\ UNCHANGED <<historyId, historyEffect, historyMountedAt, historyIdOf, request, rowsAnswer>>
      /\ UNCHANGED <<historyData, historyLoading, historyError>>
  BY DEF History!SaveHistory, History!pageVars, History!shownVars, History!requestVars
<1> PICK r : r = [checkedAt |-> ms, isHealthy |-> up, Latency |-> l]
  OBVIOUS
<1>3. rows[i] \in Seq(History!Row) /\ Len(rows[i]) \in Nat
  BY DEF HistoryTyped, HistoryRows
<1>4. r \in History!Row /\ r.checkedAt <= Len(rows[i]) + 1
  <2>1. CASE rows[i] = << >>
    <3>1. Len(rows[i]) = 0 /\ ms = 1
      BY <2>1 DEF History!Moments
    <3> QED BY <1>2, <3>1 DEF History!Row
  <2>2. CASE rows[i] # << >>
    <3>1. Len(rows[i]) \in 1..Len(rows[i])
      BY <1>3, <2>2
    <3>2. PICK last : last = rows[i][Len(rows[i])].checkedAt
      OBVIOUS
    <3>6. rows[i][Len(rows[i])] \in History!Row
      BY <1>3, <3>1
    <3>7. last \in 1..MaxRows
      BY <3>2, <3>6 DEF History!Row
    <3>8. last <= Len(rows[i])
      BY <3>1, <3>2 DEF HistoryTyped, HistoryRows
    <3>3. last \in Nat /\ 1 <= last /\ last <= Len(rows[i])
      BY <3>7, <3>8
    <3>4. ms \in {last, last + 1}
      BY <2>2, <3>2 DEF History!Moments
    <3>5. ms \in 1..MaxRows /\ ms <= Len(rows[i]) + 1
      BY <1>2, <1>3, <3>3, <3>4
    <3> QED BY <3>5 DEF History!Row
  <2> QED BY <2>1, <2>2
<1>5. /\ Append(rows[i], r) \in Seq(History!Row) /\ Len(Append(rows[i], r)) = Len(rows[i]) + 1
      /\ \A k \in 1..Len(rows[i]) : Append(rows[i], r)[k] = rows[i][k]
      /\ Append(rows[i], r)[Len(rows[i]) + 1] = r
  BY <1>3, <1>4
<1>6. /\ rows' \in [Ids -> Seq(History!Row)] /\ rows'[i] = Append(rows[i], r)
      /\ \A j \in Ids : j # i => rows'[j] = rows[j]
  BY <1>1, <1>5 DEF HistoryTyped, HistoryRows
<1>7. ASSUME NEW j \in Ids
      PROVE  /\ Len(rows'[j]) <= MaxRows /\ Len(rows[j]) <= Len(rows'[j])
             /\ Len(rows[j]) \in Nat /\ Len(rows'[j]) \in Nat
             /\ \A k \in 1..Len(rows[j]) : rows'[j][k] = rows[j][k]
             /\ \A k \in 1..Len(rows'[j]) : rows'[j][k].checkedAt <= k
  <2>1. CASE j = i
    <3>1. \A k \in 1..Len(rows'[i]) : k \in 1..Len(rows[i]) \/ k = Len(rows[i]) + 1
      BY <1>3, <1>5, <1>6
    <3>2. \A k \in 1..Len(rows'[i]) : rows'[i][k].checkedAt <= k
      BY <1>4, <1>5, <1>6, <3>1 DEF HistoryTyped, HistoryRows
    <3>3. Len(rows'[i]) = Len(rows[i]) + 1 /\ Len(rows[i]) + 1 <= MaxRows
      BY <1>2, <1>3, <1>5, <1>6
    <3>4. \A k \in 1..Len(rows[i]) : rows'[i][k] = rows[i][k]
      BY <1>5, <1>6
    <3> QED BY <1>3, <2>1, <3>2, <3>3, <3>4
  <2>2. CASE j # i
    BY <1>6, <2>2 DEF HistoryTyped, HistoryRows
  <2> QED BY <2>1, <2>2
<1>8. ASSUME NEW j \in Ids, NEW n \in 0..Len(rows[j])
      PROVE  /\ n \in 0..Len(rows'[j]) /\ Probes(j, n)' = Probes(j, n)
             /\ ProbesTurned(j, n)' = ProbesTurned(j, n)
  <2>1. \A k \in 1..n : k \in 1..Len(rows[j]) /\ n + 1 - k \in 1..Len(rows[j])
    BY <1>7
  <2>2. \A k \in 1..n : rows'[j][k] = rows[j][k]
    BY <1>7, <2>1
  <2>3. \A p \in History!Orders(n) : \A k \in 1..n : rows'[j][p[k]] = rows[j][p[k]]
    BY <2>2 DEF History!Orders
  <2>4. History!ToldOrders(j, n)' = History!ToldOrders(j, n)
    <3> DEFINE Told(data, p) == \A a, b \in 1..n : a < b =>
                 \/ data[p[a]].checkedAt < data[p[b]].checkedAt
                 \/ data[p[a]].checkedAt = data[p[b]].checkedAt /\ p[b] < p[a]
    <3>1. \A p \in History!Orders(n) : Told(rows'[j], p) <=> Told(rows[j], p)
      <4> TAKE p \in History!Orders(n)
      <4>1. \A k \in 1..n : rows'[j][p[k]] = rows[j][p[k]]
        BY <2>3
      <4>2. ASSUME NEW a \in 1..n, NEW b \in 1..n
            PROVE  (\/ rows'[j][p[a]].checkedAt < rows'[j][p[b]].checkedAt
                    \/ rows'[j][p[a]].checkedAt = rows'[j][p[b]].checkedAt /\ p[b] < p[a])
                   <=> (\/ rows[j][p[a]].checkedAt < rows[j][p[b]].checkedAt
                        \/ rows[j][p[a]].checkedAt = rows[j][p[b]].checkedAt /\ p[b] < p[a])
        BY <4>1
      <4> QED BY <4>2
    <3>2. History!ToldOrders(j, n) = {p \in History!Orders(n) : Told(rows[j], p)}
      BY DEF History!ToldOrders
    <3>3. History!ToldOrders(j, n)' = {p \in History!Orders(n) : Told(rows'[j], p)}
      BY DEF History!ToldOrders, History!Orders
    <3> HIDE DEF Told
    <3> QED BY <3>1, <3>2, <3>3
  <2>5. \A p \in History!ToldOrders(j, n) :
          [k \in 1..n |-> rows'[j][p[k]]] = [k \in 1..n |-> rows[j][p[k]]]
    BY <2>3 DEF History!ToldOrders
  <2>6. Probes(j, n)' = Probes(j, n)
    BY <2>4, <2>5, SMTT(30) DEF Probes
  <2> QED BY <1>7, <2>1, <2>6 DEF ProbesTurned
<1>9. HistoryTyped' /\ HistoryPage'
  BY <1>2, <1>6, <1>7 DEF HistoryTyped, HistoryRows, HistoryPage
<1>10. HistoryAnswers'
  <2> SUFFICES ASSUME NEW e \in History!Effects, request[e] = "answered"
               PROVE  \E n \in 0..Len(rows'[historyIdOf[e]]) :
                        rowsAnswer[e] = ProbesTurned(historyIdOf[e], n)'
    BY <1>2 DEF HistoryAnswers
  <2>1. historyIdOf[e] \in Ids
    BY DEF HistoryTyped, HistoryPage
  <2>2. PICK n \in 0..Len(rows[historyIdOf[e]]) : rowsAnswer[e] = ProbesTurned(historyIdOf[e], n)
    BY DEF HistoryAnswers
  <2> PICK j \in Ids : j = historyIdOf[e]
    BY <2>1
  <2>3. n \in 0..Len(rows'[j]) /\ ProbesTurned(j, n)' = rowsAnswer[e]
    BY <1>8, <2>2
  <2> QED BY <1>2, <2>3 DEF ProbesTurned
<1>11. HistoryShows'
  <2> SUFFICES ASSUME historyId # None, ~historyLoading, ~historyError
               PROVE  \E e \in historyMountedAt..historyEffect :
                        \E n \in 0..Len(rows'[historyIdOf[e]]) : historyData \in Probes(historyIdOf[e], n)'
    BY <1>2 DEF HistoryShows
  <2>0. PICK e \in historyMountedAt..historyEffect :
          \E n \in 0..Len(rows[historyIdOf[e]]) : historyData \in Probes(historyIdOf[e], n)
    BY DEF HistoryShows
  <2>1. PICK n \in 0..Len(rows[historyIdOf[e]]) : historyData \in Probes(historyIdOf[e], n)
    BY <2>0
  <2>2. historyIdOf[e] \in Ids
    BY DEF HistoryTyped, HistoryPage
  <2> PICK j \in Ids : j = historyIdOf[e]
    BY <2>2
  <2>3. n \in 0..Len(rows'[j]) /\ historyData \in Probes(j, n)'
    BY <1>8, <2>1
  <2>4. Probes(historyIdOf[e], n)' = Probes(j, n)'
    BY <1>2 DEF Probes, History!ToldOrders
  <2> QED BY <2>3, <2>4
<1> QED BY <1>9, <1>10, <1>11


\* The address leads the page on, or opens it.
LEMMA HistoryNavigates ==
  ASSUME HistoryInv, NEW i \in Ids, History!Navigate(i)
  PROVE  HistoryInv'
<1> USE HistoryParameters DEF HistoryInv
<1>1. /\ historyEffect < MaxEffects /\ historyId' = i /\ historyEffect' = historyEffect + 1
      /\ historyMountedAt' = (IF historyId = None THEN historyEffect + 1 ELSE historyMountedAt)
      /\ historyIdOf' = [historyIdOf EXCEPT ![historyEffect + 1] = i]
      /\ request' = [request EXCEPT ![historyEffect + 1] = "sent"]
      /\ UNCHANGED <<rows, historyData, historyLoading, historyError, rowsAnswer>>
  BY DEF History!Navigate, History!shownVars
<1>2. historyEffect + 1 \in History!Effects /\ historyEffect \in Nat
  BY <1>1 DEF HistoryTyped
<1>3. /\ historyIdOf' \in [History!Effects -> Ids \cup {None}]
      /\ request' \in [History!Effects -> {"idle", "sent", "answered", "over"}]
      /\ historyIdOf'[historyEffect + 1] = i /\ request'[historyEffect + 1] = "sent"
      /\ \A e \in History!Effects : e # historyEffect + 1 =>
           historyIdOf'[e] = historyIdOf[e] /\ request'[e] = request[e]
  BY <1>1, <1>2 DEF HistoryTyped
<1>4. historyMountedAt' \in 0..historyEffect' /\ historyEffect' \in 0..MaxEffects
  BY <1>1 DEF HistoryTyped
<1>5. HistoryTyped'
  BY <1>1, <1>3, <1>4 DEF HistoryTyped, HistoryRows
<1>6. HistoryPage'
  <2>1. /\ historyId' # None /\ 1 <= historyMountedAt' /\ historyMountedAt' <= historyEffect'
        /\ historyIdOf'[historyEffect'] = historyId'
    BY <1>1, <1>2, <1>3 DEF HistoryTyped, HistoryPage
  <2>2. ASSUME NEW e \in History!Effects
        PROVE  /\ historyIdOf'[e] # None <=> e <= historyEffect'
               /\ request'[e] # "idle" => e <= historyEffect'
    <3>1. CASE e = historyEffect + 1
      BY <1>1, <1>2, <1>3, <3>1
    <3>2. CASE e # historyEffect + 1
      <4>1. e <= historyEffect' <=> e <= historyEffect
        BY <1>1, <1>2, <3>2
      <4> QED BY <1>3, <3>2, <4>1 DEF HistoryPage
    <3> QED BY <3>1, <3>2
  <2> QED BY <2>1, <2>2 DEF HistoryPage
<1>7. HistoryAnswers'
  <2> SUFFICES ASSUME NEW e \in History!Effects, request'[e] = "answered"
               PROVE  \E n \in 0..Len(rows'[historyIdOf'[e]]) :
                        rowsAnswer'[e] = ProbesTurned(historyIdOf[e], n)'
    BY DEF HistoryAnswers
  <2>1. e # historyEffect + 1 /\ request[e] = "answered" /\ historyIdOf'[e] = historyIdOf[e]
    BY <1>3
  <2>2. PICK n \in 0..Len(rows[historyIdOf[e]]) : rowsAnswer[e] = ProbesTurned(historyIdOf[e], n)
    BY <2>1 DEF HistoryAnswers
  <2> QED BY <1>1, <2>1, <2>2 DEF ProbesTurned
<1>8. HistoryShows'
  <2> SUFFICES ASSUME ~historyLoading, ~historyError
               PROVE  \E e \in historyMountedAt'..historyEffect' :
                        \E n \in 0..Len(rows[historyIdOf'[e]]) : historyData \in Probes(historyIdOf[e], n)'
    BY <1>1 DEF HistoryShows
  <2>1. historyId # None
    BY DEF HistoryPage
  <2>2. PICK e \in historyMountedAt..historyEffect :
          \E n \in 0..Len(rows[historyIdOf[e]]) : historyData \in Probes(historyIdOf[e], n)
    BY <2>1 DEF HistoryShows
  <2>3. PICK n \in 0..Len(rows[historyIdOf[e]]) : historyData \in Probes(historyIdOf[e], n)
    BY <2>2
  <2>4. e \in historyMountedAt'..historyEffect' /\ e \in History!Effects /\ e # historyEffect + 1
    <3>1. historyMountedAt \in Nat /\ 1 <= historyMountedAt /\ historyEffect <= MaxEffects
      BY <2>1 DEF HistoryTyped, HistoryPage
    <3> QED BY <1>1, <1>2, <2>1, <3>1
  <2>5. historyIdOf'[e] = historyIdOf[e]
    BY <1>3, <2>4
  <2>6. \A j, m : Probes(j, m)' = Probes(j, m)
    BY <1>1 DEF Probes, History!ToldOrders
  <2> QED BY <1>1, <2>3, <2>4, <2>5, <2>6
<1> QED BY <1>5, <1>6, <1>7, <1>8

\* A request is over, and what the page shows is as before, or an error, or what
\* the request had asked for.
LEMMA HistoryOver ==
  ASSUME HistoryInv, NEW e \in History!Effects, History!Over(e), request[e] # "idle",
         historyData' \in History!RowSeqs(History!Row),
         historyLoading' \in BOOLEAN, historyError' \in BOOLEAN,
         historyId = None => historyLoading',
         HistoryShows'
  PROVE  HistoryInv'
<1> USE HistoryParameters DEF HistoryInv
<1>1. /\ request' = [request EXCEPT ![e] = "over"] /\ rowsAnswer' = [rowsAnswer EXCEPT ![e] = << >>]
      /\ UNCHANGED <<rows, historyId, historyEffect, historyMountedAt, historyIdOf>>
  BY DEF History!Over, History!pageVars
<1>2. << >> \in History!RowSeqs(History!Row)
  <2>1. << >> \in [1..0 -> History!Row]
    OBVIOUS
  <2> QED BY <2>1 DEF History!RowSeqs
<1>3. HistoryTyped'
  BY <1>1, <1>2 DEF HistoryTyped, HistoryRows
<1>4. HistoryAnswers'
  <2> SUFFICES ASSUME NEW f \in History!Effects, request'[f] = "answered"
               PROVE  \E n \in 0..Len(rows'[historyIdOf'[f]]) :
                        rowsAnswer'[f] = ProbesTurned(historyIdOf[f], n)'
    BY DEF HistoryAnswers
  <2>1. f # e /\ request[f] = "answered" /\ rowsAnswer'[f] = rowsAnswer[f]
    BY <1>1 DEF HistoryTyped
  <2>2. PICK n \in 0..Len(rows[historyIdOf[f]]) : rowsAnswer[f] = ProbesTurned(historyIdOf[f], n)
    BY <2>1 DEF HistoryAnswers
  <2>3. historyIdOf'[f] = historyIdOf[f] /\ rows' = rows
    BY <1>1
  <2>4. ProbesTurned(historyIdOf[f], n)' = ProbesTurned(historyIdOf[f], n)
    BY <2>3 DEF ProbesTurned
  <2> QED BY <2>1, <2>2, <2>3, <2>4
<1>5. HistoryPage'
  <2>1. historyId' = None => historyLoading'
    BY <1>1
  <2>2. ASSUME NEW f \in History!Effects PROVE request'[f] # "idle" => f <= historyEffect'
    BY <1>1 DEF HistoryPage, HistoryTyped
  <2> QED BY <1>1, <2>1, <2>2 DEF HistoryPage
<1> QED BY <1>3, <1>4, <1>5


LEMMA HistoryStep == HistoryInv /\ [History!Next]_historyVars => HistoryInv'
<1> SUFFICES ASSUME HistoryInv, [History!Next]_historyVars PROVE HistoryInv'
  OBVIOUS
<1> USE HistoryParameters DEF HistoryInv
<1>1. ASSUME NEW i \in Ids, History!SaveHistory(i) PROVE HistoryInv'
  BY <1>1, HistorySaves
<1>2. ASSUME NEW i \in Ids, History!Navigate(i) PROVE HistoryInv'
  BY <1>2, HistoryNavigates
<1>3. CASE History!Close
  <2>1. /\ historyId' = None /\ historyMountedAt' = 0 /\ historyData' = << >>
        /\ historyLoading' = TRUE /\ historyError' = FALSE
        /\ UNCHANGED <<rows, historyEffect, historyIdOf, request, rowsAnswer>>
    BY <1>3 DEF History!Close, History!requestVars
  <2>2. << >> \in History!RowSeqs(History!Row)
    <3>1. << >> \in [1..0 -> History!Row]
      OBVIOUS
    <3> QED BY <3>1 DEF History!RowSeqs
  <2>3. historyLoading' \in BOOLEAN /\ historyError' \in BOOLEAN
    BY <2>1
  <2>4. HistoryTyped'
    BY <2>1, <2>2, <2>3 DEF HistoryTyped, HistoryRows
  <2>5. HistoryPage' /\ HistoryShows'
    BY <2>1 DEF HistoryPage, HistoryShows
  <2>6. HistoryAnswers'
    <3>1. \A i, n : ProbesTurned(i, n)' = ProbesTurned(i, n)
      BY <2>1 DEF ProbesTurned
    <3> QED BY <2>1, <3>1 DEF HistoryAnswers
  <2> QED BY <2>4, <2>5, <2>6
<1>4. ASSUME NEW e \in History!Effects, History!Answered(e) PROVE HistoryInv'
  <2>1. /\ request[e] = "sent" /\ request' = [request EXCEPT ![e] = "answered"]
        /\ rowsAnswer' = [rowsAnswer EXCEPT ![e] =
             History!NewestFirst(rows[historyIdOf[e]])]
        /\ UNCHANGED <<rows, historyId, historyEffect, historyMountedAt, historyIdOf>>
        /\ UNCHANGED <<historyData, historyLoading, historyError>>
    BY <1>4 DEF History!Answered, History!pageVars, History!shownVars
  <2>2. historyIdOf[e] \in Ids
    BY <2>1 DEF HistoryTyped, HistoryPage
  <2> PICK i \in Ids : i = historyIdOf[e]
    BY <2>2
  <2>3. Len(rows[i]) \in Nat
    BY DEF HistoryTyped, HistoryRows
  <2>4. History!NewestFirst(rows[i]) = ProbesTurned(i, Len(rows[i]))
    BY DEF History!NewestFirst, ProbesTurned
  <2>5. /\ rowsAnswer'[e] = ProbesTurned(i, Len(rows[i]))
        /\ \A f \in History!Effects : f # e => rowsAnswer'[f] = rowsAnswer[f] /\ request'[f] = request[f]
        /\ request'[e] = "answered"
    BY <2>1, <2>4 DEF HistoryTyped
  <2>6. Len(rows[i]) \in 0..Len(rows[i])
    BY <2>3
  <2>7. HistoryTyped'
    <3>1. ProbesTurned(i, Len(rows[i])) \in History!RowSeqs(History!Row)
      BY <2>6, ProbesAreRows DEF HistoryTyped
    <3>2. rowsAnswer' \in [History!Effects -> History!RowSeqs(History!Row)]
      BY <2>1, <2>4, <3>1 DEF HistoryTyped
    <3> QED BY <2>1, <3>2 DEF HistoryTyped, HistoryRows
  <2>8. HistoryPage'
    <3>1. ASSUME NEW f \in History!Effects PROVE request'[f] # "idle" => f <= historyEffect'
      BY <2>1 DEF HistoryPage, HistoryTyped
    <3> QED BY <2>1, <3>1 DEF HistoryPage
  <2>9. HistoryAnswers'
    <3> SUFFICES ASSUME NEW f \in History!Effects, request'[f] = "answered"
                 PROVE  \E n \in 0..Len(rows'[historyIdOf'[f]]) :
                          rowsAnswer'[f] = ProbesTurned(historyIdOf[f], n)'
      BY DEF HistoryAnswers
    <3>1. \A n : ProbesTurned(historyIdOf[f], n)' = ProbesTurned(historyIdOf[f], n)
      BY <2>1 DEF ProbesTurned
    <3>2. CASE f = e
      BY <2>1, <2>5, <2>6, <3>1, <3>2
    <3>3. CASE f # e
      <4>1. PICK n \in 0..Len(rows[historyIdOf[f]]) : rowsAnswer[f] = ProbesTurned(historyIdOf[f], n)
        BY <2>5, <3>3 DEF HistoryAnswers
      <4> QED BY <2>1, <2>5, <3>1, <3>3, <4>1
    <3> QED BY <3>2, <3>3
  <2>10. HistoryShows'
    <3>1. \A j, n : Probes(j, n)' = Probes(j, n)
      BY <2>1 DEF Probes, History!ToldOrders
    <3> QED BY <2>1, <3>1 DEF HistoryShows
  <2> QED BY <2>7, <2>8, <2>9, <2>10
<1>5. ASSUME NEW e \in History!Effects, History!HistoryArrives(e) PROVE HistoryInv'
  <2>1. /\ request[e] = "answered" /\ History!Over(e) /\ historyError' = historyError
        /\ IF History!Live(e) THEN historyData' \in History!OldestFirst(rowsAnswer[e]) /\ historyLoading' = FALSE
           ELSE UNCHANGED <<historyData, historyLoading>>
    BY <1>5 DEF History!HistoryArrives
  <2>2. historyIdOf[e] \in Ids /\ e <= historyEffect
    BY <2>1 DEF HistoryTyped, HistoryPage
  <2> PICK i \in Ids : i = historyIdOf[e]
    BY <2>2
  <2>3. PICK n \in 0..Len(rows[i]) : rowsAnswer[e] = ProbesTurned(i, n)
    BY <2>1 DEF HistoryAnswers
  <2>4. History!OldestFirst(rowsAnswer[e]) \subseteq Probes(i, n)
    BY <2>3, AnswerIsSortedBack DEF HistoryTyped
  <2>5. UNCHANGED <<rows, historyId, historyEffect, historyMountedAt, historyIdOf>>
    BY <2>1 DEF History!Over, History!pageVars
  <2>6. CASE History!Live(e)
    <3>1. historyData' \in Probes(i, n) /\ historyLoading' = FALSE /\ historyId # None
      BY <2>1, <2>4, <2>6 DEF History!Live
    <3>2. historyData' \in History!RowSeqs(History!Row)
      BY <2>3, <3>1, ProbesAreRows DEF HistoryTyped
    <3>3. e \in historyMountedAt..historyEffect
      BY <2>2, <2>6 DEF HistoryTyped, History!Live
    <3>4. HistoryShows'
      <4>1. Probes(historyIdOf[e], n)' = Probes(i, n)
        BY <2>5 DEF Probes, History!ToldOrders
      <4> QED BY <2>5, <3>1, <3>3, <4>1, <2>3 DEF HistoryShows
    <3>5. historyLoading' \in BOOLEAN /\ historyError' \in BOOLEAN
      BY <2>1, <3>1 DEF HistoryTyped
    <3> QED BY <2>1, <3>1, <3>2, <3>4, <3>5, HistoryOver
  <2>7. CASE ~History!Live(e)
    <3>1. UNCHANGED <<historyData, historyLoading, historyError>>
      BY <2>1, <2>7
    <3>2. HistoryShows'
      BY <2>5, <3>1 DEF HistoryShows, Probes, History!ToldOrders
    <3>3. /\ historyLoading' \in BOOLEAN /\ historyError' \in BOOLEAN
          /\ historyData' \in History!RowSeqs(History!Row)
          /\ historyId = None => historyLoading'
      BY <3>1 DEF HistoryTyped, HistoryPage
    <3> QED BY <2>1, <3>2, <3>3, HistoryOver
  <2> QED BY <2>6, <2>7
<1>6. ASSUME NEW e \in History!Effects, History!HistoryFails(e) PROVE HistoryInv'
  <2>1. /\ request[e] # "idle" /\ History!Over(e) /\ historyData' = historyData
        /\ historyError' = (historyError \/ History!Live(e))
        /\ historyLoading' = (historyLoading /\ ~History!Live(e))
    BY <1>6 DEF History!HistoryFails
  <2>2. UNCHANGED <<rows, historyId, historyEffect, historyMountedAt, historyIdOf>>
    BY <2>1 DEF History!Over, History!pageVars
  <2>3. ~historyLoading' /\ ~historyError' => ~historyLoading /\ ~historyError
    BY <2>1
  <2>4. HistoryShows'
    <3> SUFFICES ASSUME historyId # None, ~historyLoading', ~historyError'
                 PROVE  \E f \in historyMountedAt..historyEffect :
                          \E n \in 0..Len(rows[historyIdOf[f]]) : historyData \in Probes(historyIdOf[f], n)'
      BY <2>1, <2>2 DEF HistoryShows
    <3>1. \A j, m : Probes(j, m)' = Probes(j, m)
      BY <2>2 DEF Probes, History!ToldOrders
    <3> QED BY <2>2, <2>3, <3>1 DEF HistoryShows
  <2>5. historyId = None => historyLoading'
    BY <2>1 DEF HistoryPage, History!Live
  <2>6. historyLoading' \in BOOLEAN
    BY <2>1 DEF HistoryTyped
  <2>7. historyError' \in BOOLEAN
    BY <2>1 DEF HistoryTyped
  <2>8. historyData' \in History!RowSeqs(History!Row)
    BY <2>1 DEF HistoryTyped
  <2> QED BY <2>1, <2>4, <2>5, <2>6, <2>7, <2>8, HistoryOver
<1>7. CASE UNCHANGED historyVars
  <2>1. UNCHANGED <<rows, historyId, historyEffect, historyMountedAt, historyIdOf, request, rowsAnswer>>
        /\ UNCHANGED <<historyData, historyLoading, historyError>>
    BY <1>7 DEF historyVars
  <2>2. HistoryTyped' /\ HistoryPage'
    BY <2>1 DEF HistoryTyped, HistoryRows, HistoryPage
  <2>3. HistoryAnswers' /\ HistoryShows'
    <3>1. \A i, n : Probes(i, n)' = Probes(i, n) /\ ProbesTurned(i, n)' = ProbesTurned(i, n)
      BY <2>1 DEF Probes, ProbesTurned, History!ToldOrders
    <3>2. HistoryAnswers'
      BY <2>1, <3>1 DEF HistoryAnswers
    <3>3. HistoryShows'
      BY <2>1, <3>1 DEF HistoryShows
    <3> QED BY <3>2, <3>3
  <2> QED BY <2>2, <2>3
<1> QED BY <1>1, <1>2, <1>3, <1>4, <1>5, <1>6, <1>7 DEF History!Next

LEMMA HistoryStart == History!Init => HistoryInv
<1> SUFFICES ASSUME History!Init PROVE HistoryInv
  OBVIOUS
<1> USE HistoryParameters DEF History!Init
<1>1. << >> \in History!RowSeqs(History!Row)
  <2>1. << >> \in [1..0 -> History!Row]
    OBVIOUS
  <2> QED BY <2>1 DEF History!RowSeqs
<1>2. historyLoading \in BOOLEAN /\ historyError \in BOOLEAN
  OBVIOUS
<1>3. HistoryRows
  BY DEF HistoryRows
<1>4. HistoryTyped
  BY <1>1, <1>2, <1>3 DEF HistoryTyped
<1> QED BY <1>4 DEF HistoryInv, HistoryPage, HistoryAnswers, HistoryShows


\* What is drawn of the first rows is the truth about them.
LEMMA DrawnIsTrue ==
  ASSUME HistoryRows, NEW i \in Ids, NEW n \in 0..Len(rows[i]), historyData \in Probes(i, n),
         ~historyLoading, ~historyError
  PROVE  /\ \E p \in History!ToldOrders(i, n) :
              [k \in DOMAIN History!Shown.points |-> History!Shown.points[k].status] = History!Truth(i, p)
         /\ History!Shown.what = "none" <=> n = 0
<1>0. PICK p \in History!ToldOrders(i, n) : historyData = [k \in 1..n |-> rows[i][p[k]]]
  BY DEF Probes
<1>1. /\ n \in Nat /\ DOMAIN historyData = 1..n /\ \A k \in 1..n : historyData[k] = rows[i][p[k]]
      /\ DOMAIN p = 1..n
  BY <1>0 DEF History!ToldOrders, History!Orders
<1>2. /\ DOMAIN History!ChartData = 1..n
      /\ \A k \in 1..n : History!ChartData[k] =
           [status |-> IF rows[i][p[k]].isHealthy THEN 1 ELSE -1,
            latency |-> rows[i][p[k]].Latency \div 10000]
      /\ History!ChartData = [k \in 1..n |-> History!ChartData[k]]
  BY <1>1 DEF History!ChartData, History!StatusValue, History!LatencyMs
<1>3. ASSUME NEW k \in 1..n
      PROVE  History!TooltipOf(History!ChartData[k]).status =
               IF rows[i][p[k]].isHealthy THEN "UP" ELSE "DOWN"
  <2>1. CASE rows[i][p[k]].isHealthy
    BY <1>2, <2>1 DEF History!TooltipOf, History!StatusText
  <2>2. CASE ~rows[i][p[k]].isHealthy
    BY <1>2, <2>2 DEF History!TooltipOf, History!StatusText
  <2> QED BY <2>1, <2>2
<1>4. [k \in DOMAIN History!Shown.points |-> History!Shown.points[k].status] = History!Truth(i, p)
  <2>1. History!Shown.points = [k \in 1..n |-> History!TooltipOf(History!ChartData[k])]
    BY <1>2 DEF History!Shown
  <2>2. DOMAIN History!Shown.points = 1..n
    BY <2>1
  <2>3. \A k \in 1..n : History!Shown.points[k].status = IF rows[i][p[k]].isHealthy THEN "UP" ELSE "DOWN"
    BY <1>3, <2>1
  <2> QED BY <1>1, <2>2, <2>3 DEF History!Truth
<1>5. History!ChartData = << >> <=> n = 0
  <2>1. CASE n = 0
    BY <1>1, <1>2, <2>1
  <2>2. CASE n # 0
    <3>1. 1 \in DOMAIN History!ChartData /\ 1 \notin DOMAIN << >>
      BY <1>1, <1>2, <2>2
    <3> QED BY <2>2, <3>1
  <2> QED BY <2>1, <2>2
<1>6. History!Shown.what = "none" <=> History!ChartData = << >>
  <2>1. CASE History!ChartData = << >>
    BY <2>1 DEF History!Shown
  <2>2. CASE History!ChartData # << >>
    BY <2>2 DEF History!Shown
  <2> QED BY <2>1, <2>2
<1> QED BY <1>4, <1>5, <1>6

\* The history page is typed, and its chart tells the truth.
LEMMA HistoryTells == HistoryInv => History!TypeOK /\ History!HistoryIsTrue
<1> SUFFICES ASSUME HistoryInv PROVE History!TypeOK /\ History!HistoryIsTrue
  OBVIOUS
<1> USE HistoryParameters DEF HistoryInv
<1>1. History!TypeOK
  <2>1. ASSUME NEW i \in Ids PROVE rows[i] \in History!RowSeqs(History!Row)
    <3>1. rows[i] \in Seq(History!Row) /\ Len(rows[i]) \in 0..MaxRows
      BY DEF HistoryTyped, HistoryRows
    <3>2. rows[i] \in [1..Len(rows[i]) -> History!Row]
      BY <3>1
    <3> QED BY <3>1, <3>2 DEF History!RowSeqs
  <2>2. {historyLoading, historyError} \subseteq BOOLEAN
    BY DEF HistoryTyped
  <2> QED BY <2>1, <2>2 DEF History!TypeOK, HistoryTyped
<1>2. History!HistoryIsTrue
  <2> SUFFICES ASSUME historyId # None, History!Shown.what \in {"none", "chart"}
               PROVE  \E i \in {historyIdOf[e] : e \in historyMountedAt..historyEffect} :
                        \E n \in 0..Len(rows[i]) :
                          /\ \E p \in History!ToldOrders(i, n) :
                               [k \in DOMAIN History!Shown.points |-> History!Shown.points[k].status]
                                 = History!Truth(i, p)
                          /\ History!Shown.what = "none" <=> n = 0
                          /\ historyMountedAt = historyEffect => i = historyId
    BY DEF History!HistoryIsTrue
  <2>1. ~historyLoading /\ ~historyError
    <3>1. CASE historyLoading
      BY <3>1 DEF History!Shown
    <3>2. CASE ~historyLoading /\ historyError
      BY <3>2 DEF History!Shown
    <3> QED BY <3>1, <3>2
  <2>2. PICK e \in historyMountedAt..historyEffect :
          \E n \in 0..Len(rows[historyIdOf[e]]) : historyData \in Probes(historyIdOf[e], n)
    BY <2>1 DEF HistoryShows
  <2>3. PICK n \in 0..Len(rows[historyIdOf[e]]) : historyData \in Probes(historyIdOf[e], n)
    BY <2>2
  <2>4. e \in History!Effects /\ e <= historyEffect /\ historyMountedAt <= e
    BY DEF HistoryTyped, HistoryPage
  <2>5. historyIdOf[e] \in Ids
    BY <2>4 DEF HistoryTyped, HistoryPage
  <2>6. /\ \E p \in History!ToldOrders(historyIdOf[e], n) :
             [k \in DOMAIN History!Shown.points |-> History!Shown.points[k].status]
               = History!Truth(historyIdOf[e], p)
        /\ History!Shown.what = "none" <=> n = 0
    BY <2>1, <2>3, <2>5, DrawnIsTrue DEF HistoryTyped
  <2>7. historyMountedAt = historyEffect => historyIdOf[e] = historyId
    <3>1. historyMountedAt = historyEffect => e = historyEffect
      BY <2>4 DEF HistoryTyped
    <3> QED BY <3>1 DEF HistoryPage
  <2> QED BY <2>3, <2>6, <2>7
<1> QED BY <1>1, <1>2


-----------------------------------------------------------------------------
(* Table, and the pages of the images                                       *)

LEMMA TableParameters ==
  /\ N \in Nat /\ \A k \in PageSizes : k \in Nat \ {0}
  /\ \A s \in Searches : s \subseteq 1..N
  /\ Table!Containers = 1..N
BY MCAssumption DEF Table!ParametersOk, Table!Containers

LEMMA TableCardinality == \A S : Table!Cardinality(S) = Cardinality(S)
BY DEF Table!Cardinality, Cardinality
LEMMA ImageCardinality == \A S : Images!Cardinality(S) = Cardinality(S)
BY DEF Images!Cardinality, Cardinality

\* Division with a remainder.
LEMMA Divided ==
  ASSUME NEW k \in Nat \ {0}, NEW a \in Nat
  PROVE  \E q \in Int : \E r \in 0..(k - 1) : a \div k = q /\ a = k * q + r
<1> DEFINE q == a \div k  r == a % k
<1>1. q \in Int /\ r \in 0..(k - 1) /\ a = k * q + r
  OBVIOUS
<1>2. a \div k = q
  OBVIOUS
<1> HIDE DEF q, r
<1> QED BY <1>1, <1>2

\* The number of pages that c rows fill, k on each.
LEMMA PagesFilled ==
  ASSUME NEW c \in Nat, NEW k \in Nat \ {0}
  PROVE  /\ (c + k - 1) \div k \in 0..c
         /\ c # 0 => 1 <= (c + k - 1) \div k
         /\ \A q \in 1..((c + k - 1) \div k) : (q - 1) * k < c
<1> DEFINE t == (c + k - 1) \div k
<1>1. PICK r \in 0..(k - 1) : c + k - 1 = k * t + r /\ t \in Int
  <2>1. PICK a \in Nat : a = c + k - 1
    OBVIOUS
  <2>2. \E q \in Int : \E r \in 0..(k - 1) : a \div k = q /\ a = k * q + r
    BY Divided
  <2>3. t = a \div k
    BY <2>1
  <2> HIDE DEF t
  <2> QED BY <2>1, <2>2, <2>3
<1> HIDE DEF t
<1>2. t >= 0
  <2> SUFFICES ASSUME t <= -1 PROVE FALSE
    BY <1>1
  <2>1. k * t <= -k
    BY <1>1
  <2> QED BY <1>1, <2>1
<1>3. t <= c
  <2> SUFFICES ASSUME t >= c + 1 PROVE FALSE
    BY <1>1
  <2>1. k * t >= k * (c + 1) /\ k * (c + 1) = k * c + k /\ k * c >= c
    BY <1>1
  <2> QED BY <1>1, <2>1
<1>4. c # 0 => 1 <= t
  <2> SUFFICES ASSUME c # 0, t = 0 PROVE FALSE
    BY <1>1, <1>2
  <2>1. k * t = 0
    OBVIOUS
  <2> QED BY <1>1, <2>1
<1>5. ASSUME NEW q \in 1..t PROVE (q - 1) * k < c
  <2>1. (q - 1) * k <= k * t - k
    <3>1. q \in Int /\ q <= t
      BY <1>1
    <3>2. (q - 1) * k <= (t - 1) * k
      BY <1>1, <3>1
    <3>3. (t - 1) * k = k * t - k
      BY <1>1
    <3> QED BY <3>2, <3>3
  <2>2. k * t \in Int /\ (q - 1) * k \in Int
    BY <1>1
  <2> QED BY <1>1, <2>1, <2>2
<1> QED BY <1>1, <1>2, <1>3, <1>4, <1>5 DEF t

\* The greatest of some numbers up to n.
LEMMA GreatestNumber ==
  ASSUME NEW n \in Nat, NEW S \in SUBSET (1..n), S # {}
  PROVE  \E m \in S : \A x \in S : x <= m
<1> DEFINE B == {b \in Nat : \A x \in S : x <= b}
<1>1. n \in B /\ B \in SUBSET Nat
  OBVIOUS
<1>2. PICK b \in B : \A x \in B : b <= x
  <2> HIDE DEF B
  <2> QED BY <1>1, LeastNumber
<1>3. b \in Nat /\ \A x \in S : x <= b
  BY <1>2
<1>4. b \in S
  <2> SUFFICES ASSUME b \notin S PROVE FALSE
    OBVIOUS
  <2>1. \A x \in S : x \in Nat /\ 1 <= x /\ x <= b - 1
    BY <1>3
  <2>2. b - 1 \in Nat
    <3>1. PICK x \in S : TRUE
      OBVIOUS
    <3>2. x \in Nat /\ 1 <= x /\ x <= b - 1
      BY <2>1, <3>1
    <3> QED BY <1>3, <3>2
  <2>3. b - 1 \in B
    BY <2>1, <2>2
  <2> QED BY <1>2, <1>3, <2>3
<1> QED BY <1>3, <1>4

\* Ranks are numbered through: they are smaller than the number of rows, and each
\* such number is the rank of a row.
RankIn(S, c) == Cardinality({x \in S : x < c})
LEMMA RankOfRow ==
  ASSUME NEW n \in Nat, NEW S \in SUBSET (1..n), NEW c \in S
  PROVE  /\ RankIn(S, c) \in Nat /\ RankIn(S, c) < Cardinality(S)
         /\ (\A x \in S : x <= c) => RankIn(S, c) = Cardinality(S) - 1
<1> DEFINE A == {x \in S : x < c}
<1>1. IsFiniteSet(S) /\ Cardinality(S) \in Nat
  <2>1. IsFiniteSet(1..n)
    BY FS_Interval
  <2>2. S \subseteq 1..n
    OBVIOUS
  <2> QED BY <2>1, <2>2, FS_Subset, FS_CardinalityType
<1>2. IsFiniteSet(A) /\ Cardinality(A) \in Nat
  BY <1>1, FS_Subset, FS_CardinalityType
<1>3. c \notin A /\ A \cup {c} \subseteq S
  OBVIOUS
<1>4. (\A x \in S : x <= c) => A \cup {c} = S
  <2>1. c \in Int /\ \A x \in S : x \in Int
    OBVIOUS
  <2>2. \A x \in S : x <= c => x < c \/ x = c
    BY <2>1
  <2> QED BY <2>2
<1> HIDE DEF A
<1>5. Cardinality(A \cup {c}) = Cardinality(A) + 1
  BY <1>2, <1>3, FS_AddElement
<1>6. Cardinality(A \cup {c}) <= Cardinality(S)
  BY <1>1, <1>3, FS_Subset
<1>7. RankIn(S, c) = Cardinality(A)
  BY DEF RankIn, A
<1>8. RankIn(S, c) < Cardinality(S)
  BY <1>1, <1>2, <1>5, <1>6, <1>7
<1>9. (\A x \in S : x <= c) => RankIn(S, c) = Cardinality(S) - 1
  BY <1>2, <1>4, <1>5, <1>7
<1> QED BY <1>2, <1>7, <1>8, <1>9

LEMMA RowOfRank ==
  ASSUME NEW n \in Nat, NEW S \in SUBSET (1..n), NEW r \in Nat, r < Cardinality(S)
  PROVE  \E c \in S : RankIn(S, c) = r
<1>1. IsFiniteSet(S) /\ Cardinality(S) \in Nat
  <2>1. IsFiniteSet(1..n)
    BY FS_Interval
  <2>2. S \subseteq 1..n
    OBVIOUS
  <2> QED BY <2>1, <2>2, FS_Subset, FS_CardinalityType
<1>2. S # {}
  BY FS_EmptySet
<1>3. PICK m \in S : \A x \in S : x <= m
  BY <1>2, GreatestNumber
<1> DEFINE B == {c \in S : RankIn(S, c) >= r}
<1>4. m \in B
  <2>1. RankIn(S, m) = Cardinality(S) - 1
    BY <1>3, RankOfRow
  <2> QED BY <1>1, <2>1
<1>5. PICK c \in B : \A x \in B : c <= x
  <2>1. B \in SUBSET Nat
    <3>1. \A x \in S : x \in Nat
      OBVIOUS
    <3> QED BY <3>1
  <2> HIDE DEF B
  <2> QED BY <1>4, <2>1, LeastNumber
<1>6. c \in S /\ RankIn(S, c) \in Nat /\ RankIn(S, c) >= r
  BY <1>5, RankOfRow
<1>7. ~(RankIn(S, c) > r)
  <2> SUFFICES ASSUME RankIn(S, c) > r PROVE FALSE
    OBVIOUS
  <2> DEFINE A == {x \in S : x < c}
  <2>1. A \in SUBSET (1..n) /\ A # {}
    <3>1. RankIn(S, c) # 0
      BY <1>6
    <3>2. Cardinality(A) # 0
      BY <3>1 DEF RankIn
    <3>3. A \subseteq 1..n
      OBVIOUS
    <3> HIDE DEF A
    <3> QED BY <3>2, <3>3, FS_EmptySet
  <2>2. PICK d \in A : \A x \in A : x <= d
    <3> HIDE DEF A
    <3> QED BY <2>1, GreatestNumber
  <2>3. d \in S /\ d < c /\ d \in Nat /\ c \in Nat
    BY <1>6, <2>2
  <2>4. A = {x \in S : x < d} \cup {d}
    <3>1. ASSUME NEW x \in A PROVE x \in {y \in S : y < d} \cup {d}
      <4>1. x \in S /\ x \in Nat /\ x <= d
        BY <2>2
      <4> QED BY <2>3, <4>1
    <3>2. ASSUME NEW x \in S, x < d PROVE x \in A
      <4>1. x \in Nat
        OBVIOUS
      <4> QED BY <2>3, <3>2, <4>1
    <3> QED BY <2>3, <3>1, <3>2
  <2>5. Cardinality(A) = RankIn(S, d) + 1
    <3> DEFINE D == {x \in S : x < d}
    <3>1. IsFiniteSet(D) /\ d \notin D
      BY <1>1, <2>3, FS_Subset
    <3>2. A = D \cup {d} /\ RankIn(S, d) = Cardinality(D)
      BY <2>4 DEF RankIn
    <3> HIDE DEF A, D
    <3> QED BY <3>1, <3>2, FS_AddElement
  <2>6. Cardinality(A) = RankIn(S, c)
    BY DEF RankIn
  <2>7. RankIn(S, d) \in Nat
    BY <2>3, RankOfRow
  <2>8. RankIn(S, d) >= r
    <3> HIDE DEF A
    <3> QED BY <1>6, <2>5, <2>6, <2>7
  <2>9. d \in B
    BY <2>3, <2>8
  <2> QED BY <1>5, <2>3, <2>9
<1> QED BY <1>6, <1>7


\* A page from the first to the last has a row.
LEMMA PageHasRow ==
  ASSUME NEW n \in Nat, NEW S \in SUBSET (1..n), NEW k \in Nat \ {0}, NEW q \in Nat \ {0},
         (q - 1) * k < Cardinality(S)
  PROVE  \E c \in S : (q - 1) * k <= RankIn(S, c) /\ RankIn(S, c) < q * k
<1>1. PICK r \in Nat : r = (q - 1) * k
  BY Z3
<1>2. PICK c \in S : RankIn(S, c) = r
  BY <1>1, RowOfRank
<1>3. q * k = (q - 1) * k + k
  OBVIOUS
<1>4. r < q * k
  BY <1>1, <1>3
<1> QED BY <1>1, <1>2, <1>4

\* A page with a row is not behind the end, nor are those before it.
LEMMA PageOfRow ==
  ASSUME NEW n \in Nat, NEW S \in SUBSET (1..n), NEW k \in Nat \ {0}, NEW q \in Nat \ {0},
         NEW c \in S, q * k <= RankIn(S, c)
  PROVE  (q - 1) * k < Cardinality(S)
<1>1. RankIn(S, c) \in Nat /\ RankIn(S, c) < Cardinality(S)
  BY RankOfRow
<1>2. Cardinality(S) \in Nat
  <2>1. IsFiniteSet(1..n)
    BY FS_Interval
  <2> QED BY <2>1, FS_Subset, FS_CardinalityType
<1>3. PICK m \in Int : m = q * k /\ (q - 1) * k = m - k
  OBVIOUS
<1> QED BY <1>1, <1>2, <1>3

\* What the table shows, in terms of the rows found.
LEMMA TablePages ==
  ASSUME Table!TypeOK
  PROVE  /\ tableSearch \in SUBSET (1..N) /\ itemsPerPage \in Nat \ {0} /\ currentPage \in Nat
         /\ Cardinality(tableSearch) \in Nat /\ Cardinality(tableSearch) <= N
         /\ Table!TotalPages = (Cardinality(tableSearch) + itemsPerPage - 1) \div itemsPerPage
         /\ Table!Paginated = {c \in tableSearch :
              /\ (currentPage - 1) * itemsPerPage <= RankIn(tableSearch, c)
              /\ RankIn(tableSearch, c) < currentPage * itemsPerPage}
<1> USE TableParameters
<1>1. tableSearch \in SUBSET (1..N) /\ itemsPerPage \in Nat \ {0} /\ currentPage \in Nat
  BY DEF Table!TypeOK
<1>2. IsFiniteSet(1..N) /\ Cardinality(1..N) = N
  BY FS_Interval
<1>3. Cardinality(tableSearch) \in Nat /\ Cardinality(tableSearch) <= N
  <2>1. tableSearch \subseteq 1..N
    BY <1>1
  <2>2. IsFiniteSet(tableSearch) /\ Cardinality(tableSearch) <= N
    <3> PICK T : T = 1..N
      OBVIOUS
    <3>1. IsFiniteSet(T) /\ Cardinality(T) = N /\ tableSearch \in SUBSET T
      BY <1>2, <2>1
    <3>2. IsFiniteSet(tableSearch) /\ Cardinality(tableSearch) <= Cardinality(T)
      BY <3>1, FS_Subset, Zenon
    <3> QED BY <3>1, <3>2
  <2> QED BY <2>2, FS_CardinalityType
<1>4. Table!TotalPages = (Cardinality(tableSearch) + itemsPerPage - 1) \div itemsPerPage
  BY TableCardinality, Zenon DEF Table!TotalPages, Table!Filtered
<1>5. \A c : Table!Rank(c) = RankIn(tableSearch, c)
  BY TableCardinality, Zenon DEF Table!Rank, Table!Filtered, RankIn
<1>6. Table!Paginated = {c \in tableSearch :
        /\ (currentPage - 1) * itemsPerPage <= RankIn(tableSearch, c)
        /\ RankIn(tableSearch, c) < currentPage * itemsPerPage}
  BY <1>5, Zenon DEF Table!Paginated, Table!Filtered
<1> QED BY <1>1, <1>3, <1>4, <1>6

LEMMA TableTypeStep == Table!TypeOK /\ [Table!Next]_tableVars => Table!TypeOK'
<1> SUFFICES ASSUME Table!TypeOK, [Table!Next]_tableVars PROVE Table!TypeOK'
  OBVIOUS
<1> USE TableParameters DEF Table!TypeOK
<1>1. ASSUME NEW s \in Searches, Table!Search(s) PROVE Table!TypeOK'
  BY <1>1 DEF Table!Search
<1>2. Table!Paginated \subseteq 1..N
  BY DEF Table!Paginated, Table!Filtered
<1>3. CASE Table!ToggleSelectAll
  BY <1>2, <1>3 DEF Table!ToggleSelectAll
<1>4. ASSUME NEW c \in Table!Containers, Table!ToggleSelect(c) PROVE Table!TypeOK'
  BY <1>4 DEF Table!ToggleSelect
<1>5. CASE Table!PrevPage
  <2>1. /\ currentPage' = (IF currentPage > 1 THEN currentPage - 1 ELSE 1)
        /\ UNCHANGED <<tableSearch, itemsPerPage, tableSelected>>
    BY <1>5 DEF Table!PrevPage
  <2>2. currentPage' \in 0..N \cup {1}
    BY <2>1
  <2> QED BY <2>1, <2>2
<1>6. CASE Table!NextPage
  <2>1. /\ currentPage' = (IF currentPage < Table!TotalPages THEN currentPage + 1 ELSE Table!TotalPages)
        /\ UNCHANGED <<tableSearch, itemsPerPage, tableSelected>>
    BY <1>6 DEF Table!NextPage
  <2>2. Table!TotalPages \in 0..N
    <3>1. Table!TotalPages \in 0..Cardinality(tableSearch)
      BY TablePages, PagesFilled
    <3> QED BY <3>1, TablePages
  <2>3. currentPage' \in 0..N \cup {1}
    BY <2>1, <2>2
  <2> QED BY <2>1, <2>3
<1>7. ASSUME NEW k \in PageSizes, Table!PickSize(k) PROVE Table!TypeOK'
  BY <1>7 DEF Table!PickSize
<1>8. CASE UNCHANGED tableVars
  BY <1>8 DEF tableVars
<1> QED BY <1>1, <1>3, <1>4, <1>5, <1>6, <1>7, <1>8 DEF Table!Next

LEMMA TableStart == Table!Init => Table!TypeOK
BY TableParameters DEF Table!Init, Table!TypeOK

\* Turning pages, picking a size and selecting do not lose the rows found.
LEMMA TableTurns ==
  Table!TypeOK /\ [Table!Next]_tableVars =>
    (Table!Lost' => Table!Lost \/ tableSearch' # tableSearch)
<1> SUFFICES ASSUME Table!TypeOK, [Table!Next]_tableVars, tableSearch' = tableSearch, tableSearch # {},
                    Table!Paginated # {}
             PROVE  Table!Paginated' # {}
  BY DEF Table!Lost, Table!Filtered
<1> USE TableParameters
<1> DEFINE C == Cardinality(tableSearch)
<1>0. Table!TypeOK'
  BY TableTypeStep
<1>1. /\ tableSearch \in SUBSET (1..N) /\ itemsPerPage \in Nat \ {0} /\ currentPage \in Nat
      /\ itemsPerPage' \in Nat \ {0} /\ currentPage' \in Nat
      /\ C \in Nat /\ C # 0
  <2>1. /\ tableSearch \in SUBSET (1..N) /\ itemsPerPage \in Nat \ {0} /\ currentPage \in Nat
        /\ C \in Nat
    BY TablePages
  <2>2. itemsPerPage' \in Nat \ {0} /\ currentPage' \in Nat
    BY <1>0 DEF Table!TypeOK
  <2>3. C # 0
    <3>1. IsFiniteSet(tableSearch)
      <4>1. IsFiniteSet(1..N) /\ tableSearch \subseteq 1..N
        BY <2>1, FS_Interval
      <4> QED BY <4>1, FS_Subset
    <3> QED BY <3>1, FS_EmptySet
  <2> QED BY <2>1, <2>2, <2>3
<1>2. Table!Paginated' = {c \in tableSearch :
        /\ (currentPage' - 1) * itemsPerPage' <= RankIn(tableSearch, c)
        /\ RankIn(tableSearch, c) < currentPage' * itemsPerPage'}
  <2>1. \A c : Table!Rank(c)' = RankIn(tableSearch, c)
    BY TableCardinality, Zenon DEF Table!Rank, Table!Filtered, RankIn
  <2> QED BY <2>1 DEF Table!Paginated, Table!Filtered
<1>3. SUFFICES \/ currentPage' # 0 /\ (currentPage' - 1) * itemsPerPage' < C
               \/ UNCHANGED <<currentPage, itemsPerPage>>
  <2>1. CASE currentPage' # 0 /\ (currentPage' - 1) * itemsPerPage' < C
    BY <1>1, <1>2, <2>1, PageHasRow
  <2>2. CASE UNCHANGED <<currentPage, itemsPerPage>>
    BY <1>2, <2>2, TablePages
  <2> QED BY <1>3, <2>1, <2>2
<1>4. CASE currentPage' = 1
  BY <1>1, <1>4
<1>5. CASE Table!PrevPage /\ currentPage' # 1
  <2>1. currentPage > 1 /\ currentPage' = currentPage - 1 /\ itemsPerPage' = itemsPerPage
    BY <1>5 DEF Table!PrevPage
  <2>2. PICK c \in tableSearch : (currentPage - 1) * itemsPerPage <= RankIn(tableSearch, c)
    BY TablePages
  <2>3. PICK q \in Nat \ {0} : q = currentPage - 1
    BY <1>1, <2>1
  <2>4. (q - 1) * itemsPerPage < C
    BY <1>1, <2>2, <2>3, PageOfRow
  <2> QED BY <2>1, <2>3, <2>4
<1>6. CASE Table!NextPage
  <2> DEFINE t == (C + itemsPerPage - 1) \div itemsPerPage
  <2>1. /\ currentPage' = (IF currentPage < t THEN currentPage + 1 ELSE t)
        /\ itemsPerPage' = itemsPerPage
    BY <1>6, TablePages DEF Table!NextPage
  <2>2. t \in Nat /\ 1 <= t /\ \A q \in 1..t : (q - 1) * itemsPerPage < C
    <3> HIDE DEF C
    <3>1. t \in 0..C /\ (C # 0 => 1 <= t) /\ \A q \in 1..t : (q - 1) * itemsPerPage < C
      BY <1>1, PagesFilled, Zenon
    <3> HIDE DEF t
    <3>2. t \in Nat
      BY <1>1, <3>1
    <3> QED BY <1>1, <3>1, <3>2
  <2> HIDE DEF t
  <2>3. currentPage' \in 1..t
    BY <1>1, <2>1, <2>2
  <2> QED BY <2>1, <2>2, <2>3
<1>7. CASE UNCHANGED <<currentPage, itemsPerPage>>
  BY <1>7
<1> QED
  BY <1>4, <1>5, <1>6, <1>7
  DEF Table!Next, Table!Search, Table!ToggleSelectAll, Table!ToggleSelect, Table!PickSize, tableVars


\* A page of the images that is on the list stays on it until a listing comes in:
\* a search starts from the first page, and a turn is offered up to the last.
LEMMA ImagePagesFilled ==
  \A S \in SUBSET (1..N) : (Images!Cardinality(S) + PageSize - 1) \div PageSize \in Nat
<1> SUFFICES ASSUME NEW S \in SUBSET (1..N)
             PROVE  (Cardinality(S) + PageSize - 1) \div PageSize \in Nat
  BY ImageCardinality, Zenon
<1>1. Cardinality(S) \in Nat
  <2>1. IsFiniteSet(1..N)
    BY FS_Interval, ImageParameters
  <2>2. IsFiniteSet(S)
    BY <2>1, FS_Subset
  <2> QED BY <2>2, FS_CardinalityType
<1>2. PICK c \in Nat : c = Cardinality(S)
  BY <1>1
<1>3. (c + PageSize - 1) \div PageSize \in 0..c
  BY PagesFilled, ImageParameters, Zenon
<1>4. (c + PageSize - 1) \div PageSize \in Nat
  BY <1>3
<1> QED BY <1>2, <1>4

LEMMA ImagePagesKept ==
  Images!TypeOK /\ [Images!Next]_imagesVars =>
    (page <= Images!Last => page' <= Images!Last' \/ images' # images)
<1> SUFFICES ASSUME Images!TypeOK, [Images!Next]_imagesVars, page <= Images!Last, images' = images
             PROVE  page' <= Images!Last'
  OBVIOUS
<1> USE ImageParameters
<1>1. images \subseteq 1..N /\ page \in 1..(N + 1) /\ search \in BOOLEAN
  <2>1. {search} \subseteq BOOLEAN
    BY DEF Images!TypeOK
  <2> QED BY <2>1 DEF Images!TypeOK
<1>2. Images!FilteredImages' \in SUBSET (1..N) /\ Images!FilteredImages \in SUBSET (1..N)
  BY <1>1 DEF Images!FilteredImages
<1>3. Images!TotalPages \in Nat /\ Images!TotalPages' \in Nat
  BY <1>2, ImagePagesFilled, Zenon DEF Images!TotalPages
<1>4. Images!Last' \in Nat /\ 1 <= Images!Last'
  BY <1>3 DEF Images!Last
<1>5. search' = search => Images!TotalPages' = Images!TotalPages /\ Images!Last' = Images!Last
  <2> SUFFICES ASSUME search' = search
               PROVE  Images!TotalPages' = Images!TotalPages /\ Images!Last' = Images!Last
    OBVIOUS
  <2>1. Images!FilteredImages' = Images!FilteredImages
    BY DEF Images!FilteredImages
  <2>2. Images!TotalPages' = Images!TotalPages
    BY <2>1, Zenon DEF Images!TotalPages
  <2> QED BY <2>2 DEF Images!Last
<1>6. CASE page' = 1
  BY <1>4, <1>6
<1>7. CASE page' = page /\ search' = search
  BY <1>5, <1>7
<1>8. ASSUME NEW step \in {-1, 1}, Images!Turn(step) PROVE page' <= Images!Last'
  <2>1. /\ Images!TotalPages > 1 /\ (step = 1 => page # Images!TotalPages)
        /\ page' = page + step /\ search' = search
    BY <1>8 DEF Images!Turn, Images!PagerShown
  <2>2. Images!Last' = Images!TotalPages /\ page <= Images!TotalPages
    BY <1>3, <1>5, <2>1 DEF Images!Last
  <2> QED BY <1>1, <1>3, <2>1, <2>2
<1>9. ASSUME ~(page' = 1), ~(page' = page /\ search' = search)
      PROVE  \E step \in {-1, 1} : Images!Turn(step)
  BY <1>9
  DEF Images!Next, Images!Open, Images!Leave, Images!Search, Images!ToggleSelectAll,
      Images!ToggleSelect, Images!Change, Images!HandleDelete, Images!Rejected, Images!Removed,
      Images!RemoveFails, Images!TakeListing, Images!FetchOk, Images!FetchFails, Images!Finished,
      Images!pageVars, imagesVars
<1> QED BY <1>6, <1>7, <1>8, <1>9

\* Whatever the user types, turns, picks and selects: only a new listing makes a page
\* of the images run off the end of the list, and only another text that is searched
\* for a page of the table (ContainerImage.tsx 82-86 and 127-142, TableContainer.tsx
\* 63-74 and 200-233).
THEOREM PagesRunOffOnlyAsExplained == MCSpec => PageRunsOffExplained
<1>1. ImagesInv /\ [Images!Next]_imagesVars =>
        [page <= Images!Last => page' <= Images!Last' \/ images' # images]_Images!vars
  BY ImagePagesKept DEF ImagesInv
<1>2. Table!TypeOK /\ [Table!Next]_tableVars =>
        [Table!Lost' => Table!Lost \/ tableSearch' # tableSearch]_Table!vars
  BY TableTurns
<1> QED
  BY <1>1, <1>2, EachPageRuns, ImagesStart, ImagesStep, TableStart, TableTypeStep, PTL
  DEF MCSpec, PageRunsOffExplained, Images!PageRunsOffOnlyByListing, Table!LostOnlyBySearch

-----------------------------------------------------------------------------
(* All of them                                                              *)

\* The chart of a backend says UP or DOWN of its probes from the first one on, in
\* their order, except that those within one millisecond stay turned round; the log
\* shows pieces of lines that were written, no piece twice, in the order of the
\* streams and of the pieces; the Toaster shows the toasts of the store, unless it
\* missed some before it subscribed (EndpointHistory.tsx 69-158 and 231-253,
\* ContainerDetail.tsx 45-72, container.handler.go 88-93, toaster.tsx).
THEOREM PagesAlwaysShowTheirOwn == MCSpec => []PagesShowTheirOwn
<1>1. HistoryInv /\ LogInv /\ ToastsInv => PagesShowTheirOwn
  BY HistoryTells, LogTellsInOrder DEF PagesShowTheirOwn, ToastsInv
<1> QED
  BY <1>1, EachPageRuns, HistoryStart, HistoryStep, LogStart, LogStep, ToastsStart, ToastsStep, PTL
  DEF MCSpec

SceneKept == scene \in Scenes

\* Every variable of every page keeps its type.
THEOREM TypesAlwaysCorrect == MCSpec => []TypesOK
<1>1. /\ SceneKept /\ IInv /\ PreferencesInv /\ ImagesInv /\ EndpointsInv
      /\ HistoryInv /\ LogInv /\ ToastsInv /\ Table!TypeOK
      => TypesOK
  BY HistoryTells, LogTellsInOrder, EndpointTypes
  DEF SceneKept, TypesOK, IInv, PreferencesInv, ImagesInv, EndpointsInv, ToastsInv
<1>2. MCSpec => []SceneKept
  <2>1. MCInit => SceneKept
    BY EachPageRuns DEF SceneKept
  <2>2. SceneKept /\ [MCNext]_<<scene, vars, partVars>> => SceneKept'
    BY EachPageRuns DEF SceneKept
  <2> QED BY <2>1, <2>2, PTL DEF MCSpec
<1>3. MCSpec => []IInv
  BY EachPageRuns, InitOk, Inductive, PTL DEF MCSpec
<1>4. MCSpec => []PreferencesInv /\ []ImagesInv
  BY EachPageRuns, PreferencesStart, PreferencesStep, ImagesStart, ImagesStep, PTL DEF MCSpec
<1>5. MCSpec => []EndpointsInv /\ []HistoryInv
  BY EachPageRuns, EndpointsStart, EndpointsStep, HistoryStart, HistoryStep, PTL DEF MCSpec
<1>6. MCSpec => []LogInv /\ []ToastsInv
  BY EachPageRuns, LogStart, LogStep, ToastsStart, ToastsStep, PTL DEF MCSpec
<1>7. MCSpec => []Table!TypeOK
  BY EachPageRuns, TableStart, TableTypeStep, PTL DEF MCSpec
<1> QED BY <1>1, <1>2, <1>3, <1>4, <1>5, <1>6, <1>7, PTL
=============================================================================
