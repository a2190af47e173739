------------------------------- MODULE Session -------------------------------
(***************************************************************************)
(* Login, logout, the guard of the routes and the header, in several tabs  *)
(* of one browser. The tabs share localStorage, whose calls are atomic one *)
(* by one: between two calls of a handler another tab may run. Nothing     *)
(* listens to the "storage" event, so a tab learns of a change only when   *)
(* it renders something that reads the storage.                            *)
(***************************************************************************)
EXTENDS Naturals, FiniteSets

CONSTANTS
  Tabs,
  Users,    \* users.json
  Guest,    \* no "user" in the storage, and what the header shows then
  Paths,    \* paths the user visits
  Closed    \* the path of a tab that is not open

ASSUME GuestAssumption == Guest \notin Users
ASSUME PathsAssumption == {"/", "/login"} \subseteq Paths /\ Closed \notin Paths

VARIABLES
  isLoggedIn,    \* the item "isLoggedIn" of localStorage is "true"
  user,          \* the item "user"
  path,          \* where each tab is
  shownUser,     \* the state "user" of the header of each tab
  error,         \* the login page shows "Invalid email or password"
  pc,            \* the handler that is between two calls, or "idle"
  who,           \* foundUser of that handler
  behindGuard,   \* history: tabs for which another logged out since the guard rendered
  behindHeader,  \* history: tabs for which another wrote "user" since the header mounted
  disturbed      \* history: tabs during whose login another tab removed an item

storageVars == <<isLoggedIn, user>>
tabVars == <<path, shownUser, error, pc, who>>
vars == <<storageVars, tabVars, behindGuard, behindHeader, disturbed>>

Init ==
  /\ isLoggedIn = FALSE /\ user = Guest
  /\ path = [t \in Tabs |-> Closed]
  /\ shownUser = [t \in Tabs |-> Guest]
  /\ error = [t \in Tabs |-> FALSE]
  /\ pc = [t \in Tabs |-> "idle"]
  /\ who = [t \in Tabs |-> Guest]
  /\ behindGuard = {} /\ behindHeader = {} /\ disturbed = {}

\* Whatever no route matches: "404 Page Not Found", inside the layout.
NotFound == "*"

\* The routes outside ProtectedRoute, with the history of a backend among them.
Unguarded == {"/login", "/backends/:id/history", NotFound}

Guarded(p) == p \notin Unguarded \cup {Closed}

\* What a tab renders: the login page alone, or the layout with its header, whose
\* menu offers the logout; "Settings", the bell and the buttons of other identity
\* providers have no handlers.
InLayout(t) == path[t] \notin {"/login", Closed}
LoginFormOffered(t) == pc[t] = "idle" /\ path[t] = "/login"
UserMenuOffered(t) == pc[t] = "idle" /\ InLayout(t)

Others(t) == Tabs \ {t}
LoggingIn == {t \in Tabs : pc[t] \in {"setUser", "navigateHome"}}

\* The element of the route: two containers have the same one.
Element(p) == IF p = "/container/v/:other" THEN "/container/v/:id" ELSE p

\* Mutant: one of the two items is enough.
AdmitsEither == isLoggedIn \/ user # Guest

\* ProtectedRoute shows its children.
Admits == isLoggedIn /\ user # Guest

\* Where a navigation to p ends: the guard replaces it by "/login".
Landing(p) == IF Guarded(p) /\ ~Admits THEN "/login" ELSE p

\* The header is mounted with the layout and reads "user" then and only then.
MountHeader(t, p) ==
  /\ shownUser' = [shownUser EXCEPT ![t] = IF p = "/login" THEN Guest ELSE user]
  /\ behindHeader' = behindHeader \ {t}

KeepHeader(t, p) ==
  IF p = "/login" \/ path[t] \in {"/login", Closed}
  THEN MountHeader(t, p)
  ELSE UNCHANGED <<shownUser, behindHeader>>

\* A tab is opened, reloaded, or given a URL: everything is rendered anew.
Load(t, p) ==
  /\ pc[t] = "idle"
  /\ path' = [path EXCEPT ![t] = Landing(p)]
  /\ MountHeader(t, Landing(p))
  /\ error' = [error EXCEPT ![t] = FALSE]
  /\ behindGuard' = behindGuard \ {t}
  /\ UNCHANGED <<storageVars, pc, who, disturbed>>

\* The router goes to p. The guard is rendered when the element of the route is
\* another one, and not between two containers of one route.
Navigate(t, p) ==
  LET sameElement == Element(p) = Element(path[t])
      end == IF sameElement THEN p ELSE Landing(p)
  IN /\ pc[t] = "idle" /\ path[t] # Closed
     /\ path' = [path EXCEPT ![t] = end]
     /\ KeepHeader(t, end)
     /\ error' = [error EXCEPT ![t] = @ /\ p = "/login"]
     /\ behindGuard' = IF sameElement THEN behindGuard ELSE behindGuard \ {t}
     /\ UNCHANGED <<storageVars, pc, who, disturbed>>

\* The routes of the menu, four of which have no page, and the names in the list of
\* containers, which is shown on "/" and on "/container".
MenuRoutes == {"/", NotFound}
RowRoutes(p) ==
  IF p \in {"/", "/container"} THEN {"/container/v/:id", "/container/v/:other"} ELSE {}

\* A click in the menu or on a row.
Follow(t, p) ==
  /\ InLayout(t) /\ p \in MenuRoutes \cup RowRoutes(path[t])
  /\ Navigate(t, p)

\* The buttons of the browser: to wherever the tab may have been.
BackOrForward(t, p) == Navigate(t, p)

\* toggleDarkMode is state of App: the layout, its routes and the guard render again.
RenderApp(t) ==
  /\ UserMenuOffered(t)
  /\ path' = [path EXCEPT ![t] = Landing(path[t])]
  /\ KeepHeader(t, Landing(path[t]))
  /\ behindGuard' = behindGuard \ {t}
  /\ UNCHANGED <<storageVars, error, pc, who, disturbed>>

Close(t) ==
  /\ pc[t] = "idle" /\ path[t] # Closed
  /\ path' = [path EXCEPT ![t] = Closed]
  /\ shownUser' = [shownUser EXCEPT ![t] = Guest]
  /\ error' = [error EXCEPT ![t] = FALSE]
  /\ behindGuard' = behindGuard \ {t} /\ behindHeader' = behindHeader \ {t}
  /\ UNCHANGED <<storageVars, pc, who, disturbed>>
-----------------------------------------------------------------------------
(* handleLogin. The page is shown to a user who is logged in as well. *)

SubmitWrong(t) ==
  /\ LoginFormOffered(t)
  /\ error' = [error EXCEPT ![t] = TRUE]
  /\ UNCHANGED <<storageVars, path, shownUser, pc, who>>
  /\ UNCHANGED <<behindGuard, behindHeader, disturbed>>

\* localStorage.setItem("isLoggedIn", "true")
Submit(t, u) ==
  /\ LoginFormOffered(t)
  /\ isLoggedIn' = TRUE
  /\ pc' = [pc EXCEPT ![t] = "setUser"]
  /\ who' = [who EXCEPT ![t] = u]
  /\ UNCHANGED <<user, path, shownUser, error, behindGuard, behindHeader, disturbed>>

\* localStorage.setItem("user", ...)
SetUser(t) ==
  /\ pc[t] = "setUser"
  /\ user' = who[t]
  /\ pc' = [pc EXCEPT ![t] = "navigateHome"]
  /\ behindHeader' = behindHeader \cup Others(t)
  /\ UNCHANGED <<isLoggedIn, path, shownUser, error, who, behindGuard, disturbed>>

\* navigate("/"). When the guard sends the tab back, the login page is a new one.
NavigateHome(t) ==
  /\ pc[t] = "navigateHome"
  /\ pc' = [pc EXCEPT ![t] = "idle"]
  /\ who' = [who EXCEPT ![t] = Guest]
  /\ path' = [path EXCEPT ![t] = Landing("/")]
  /\ MountHeader(t, Landing("/"))
  /\ error' = [error EXCEPT ![t] = FALSE]
  /\ behindGuard' = behindGuard \ {t}
  /\ disturbed' = disturbed \ {t}
  /\ UNCHANGED storageVars
-----------------------------------------------------------------------------
(* handleLogout *)

\* localStorage.removeItem("isLoggedIn")
Logout(t) ==
  /\ UserMenuOffered(t)
  /\ isLoggedIn' = FALSE
  /\ pc' = [pc EXCEPT ![t] = "removeUser"]
  /\ behindGuard' = behindGuard \cup Others(t)
  /\ disturbed' = disturbed \cup (LoggingIn \ {t})
  /\ UNCHANGED <<user, path, shownUser, error, who, behindHeader>>

\* localStorage.removeItem("user") and setUser(guest)
RemoveUser(t) ==
  /\ pc[t] = "removeUser"
  /\ user' = Guest
  /\ pc' = [pc EXCEPT ![t] = "navigateLogin"]
  /\ shownUser' = [shownUser EXCEPT ![t] = Guest]
  /\ behindGuard' = behindGuard \cup Others(t)
  /\ behindHeader' = behindHeader \cup Others(t)
  /\ disturbed' = disturbed \cup (LoggingIn \ {t})
  /\ UNCHANGED <<isLoggedIn, path, error, who>>

\* Mutant: navigate("/"), for the guard to send the user to the login.
NavigateHomeAfterLogout(t) ==
  /\ pc[t] = "navigateLogin"
  /\ pc' = [pc EXCEPT ![t] = "idle"]
  /\ path' = [path EXCEPT ![t] = "/"]
  /\ behindGuard' = behindGuard \ {t}
  /\ UNCHANGED <<storageVars, shownUser, error, who, behindHeader, disturbed>>

\* navigate("/login")
NavigateLogin(t) ==
  /\ pc[t] = "navigateLogin"
  /\ pc' = [pc EXCEPT ![t] = "idle"]
  /\ path' = [path EXCEPT ![t] = "/login"]
  /\ MountHeader(t, "/login")
  /\ behindGuard' = behindGuard \ {t}
  /\ UNCHANGED <<storageVars, error, who, disturbed>>

Next ==
  \E t \in Tabs :
    \/ \E p \in Paths : Load(t, p) \/ Follow(t, p) \/ BackOrForward(t, p)
    \/ RenderApp(t) \/ Close(t)
    \/ SubmitWrong(t) \/ SetUser(t) \/ NavigateHome(t)
    \/ \E u \in Users : Submit(t, u)
    \/ Logout(t) \/ RemoveUser(t) \/ NavigateLogin(t)

Spec == Init /\ [][Next]_vars
-----------------------------------------------------------------------------
\* Every variable keeps its type.
TypeOK ==
  /\ isLoggedIn \in BOOLEAN /\ user \in Users \cup {Guest}
  /\ path \in [Tabs -> Paths \cup {Closed}]
  /\ shownUser \in [Tabs -> Users \cup {Guest}]
  /\ error \in [Tabs -> BOOLEAN]
  /\ pc \in [Tabs -> {"idle", "setUser", "navigateHome", "removeUser", "navigateLogin"}]
  /\ who \in [Tabs -> Users \cup {Guest}]
  /\ {behindGuard, behindHeader, disturbed} \subseteq SUBSET Tabs

\* A page behind the guard is on screen without a session only in the tab that
\* is just logging out, or in a tab whose guard has not rendered since another
\* tab logged out: however logins and logouts interleave, no guard lets a torn
\* pair of items through.
GuardHonest ==
  \A t \in Tabs :
    Guarded(path[t]) /\ ~(isLoggedIn /\ user # Guest) =>
      t \in behindGuard \/ pc[t] \in {"removeUser", "navigateLogin"}

\* The header shows the stored user, also after a logout and a login as another
\* user in the same tab, unless another tab wrote or removed "user" since the
\* header was mounted.
HeaderHonest ==
  \A t \in Tabs :
    InLayout(t) => shownUser[t] = user \/ t \in behindHeader

\* A login ends inside unless another tab took an item of a logout away meanwhile.
LoginHonest ==
  \A t \in Tabs :
    pc[t] = "navigateHome" => (isLoggedIn /\ user # Guest) \/ t \in disturbed

\* What the tabs show of the session is true, as far as they can know.
SessionHonest == GuardHonest /\ HeaderHonest /\ LoginHonest
=============================================================================
