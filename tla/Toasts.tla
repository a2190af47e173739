------------------------------- MODULE Toasts -------------------------------
(***************************************************************************)
(* The toasts of the console: a store outside React with a reducer, timers *)
(* that remove what was dismissed, and the Toaster, whose component copies *)
(* the store and subscribes to it in an effect. The callers of toast() are *)
(* any; no page of the console calls it yet.                               *)
(***************************************************************************)
EXTENDS Integers, FiniteSets

CONSTANTS
  MaxToasts,   \* bound on calls of toast()
  TOAST_LIMIT  \* 1 in the code

\* What the constants have to be.
ParametersOk == MaxToasts \in Nat /\ TOAST_LIMIT \in Nat \ {0}

ToastIds == 1..MaxToasts
All == 0   \* dismiss() without an id

VARIABLES
  count,          \* the last id
  toasts,         \* memoryState: ids, which grow, so the order is theirs
  open,           \* toasts that are open
  toastTimeouts,  \* toasts with a timer that will remove them
  phase,          \* the Toaster: "off", "rendered", "subscribed"
  view,           \* the toasts that it shows, and which of them are open
  missed          \* history: a dispatch fell between its render and its effect

storeVars == <<count, toasts, open, toastTimeouts>>
vars == <<storeVars, phase, view, missed>>

Init ==
  /\ count = 0 /\ toasts = {} /\ open = {} /\ toastTimeouts = {}
  /\ phase = "off" /\ view = <<{}, {}>> /\ missed = FALSE

\* The first TOAST_LIMIT of a list with the newest in front.
Newest(ids) == {t \in ids : Cardinality({u \in ids : u > t}) < TOAST_LIMIT}

\* dispatch: every listener gets the new state. The effect subscribes again after
\* each change of the view, in the same flush.
Notify ==
  /\ view' = IF phase = "subscribed" THEN <<toasts', open'>> ELSE view
  /\ missed' = CASE phase = "rendered" -> TRUE
                 [] phase = "subscribed" -> FALSE
                 [] OTHER -> missed

\* ADD_TOAST: the newest push the oldest out, whose timer stays.
Toast ==
  /\ count < MaxToasts
  /\ count' = count + 1
  /\ toasts' = Newest(toasts \cup {count + 1})
  /\ open' = (open \cup {count + 1}) \cap toasts'
  /\ Notify
  /\ UNCHANGED <<toastTimeouts, phase>>

\* UPDATE_TOAST: another title or description; a new state for the listeners.
Update ==
  /\ count > 0
  /\ UNCHANGED <<storeVars, phase>>
  /\ Notify

\* Mutant: the timer is set by the first dismissal of all toasts only.
DismissWithoutTimer(t) ==
  /\ t = All \/ t <= count
  /\ toastTimeouts' = toastTimeouts \cup (IF t = All THEN toasts ELSE {})
  /\ open' = IF t = All THEN {} ELSE open \ {t}
  /\ UNCHANGED <<count, toasts, phase>>
  /\ Notify

\* DISMISS_TOAST of one id, or of all that are there: by the caller, by the cross,
\* or when Radix closes the toast after its time.
Dismiss(t) ==
  /\ t = All \/ t <= count
  /\ toastTimeouts' = toastTimeouts \cup (IF t = All THEN toasts ELSE {t})
  /\ open' = IF t = All THEN {} ELSE open \ {t}
  /\ UNCHANGED <<count, toasts, phase>>
  /\ Notify

\* The time of a toast on screen is over.
AutoClose(t) == t \in open /\ phase = "subscribed" /\ t \in view[1] /\ Dismiss(t)

\* After TOAST_REMOVE_DELAY: REMOVE_TOAST.
Remove(t) ==
  /\ t \in toastTimeouts
  /\ toastTimeouts' = toastTimeouts \ {t}
  /\ toasts' = toasts \ {t}
  /\ open' = open \ {t}
  /\ Notify
  /\ UNCHANGED <<count, phase>>
-----------------------------------------------------------------------------
\* useState(memoryState)
Render ==
  /\ phase = "off"
  /\ phase' = "rendered" /\ view' = <<toasts, open>>
  /\ UNCHANGED <<storeVars, missed>>

\* useEffect: listeners.push(setState)
Subscribe ==
  /\ phase = "rendered"
  /\ phase' = "subscribed"
  /\ UNCHANGED <<storeVars, view, missed>>

Next ==
  \/ Toast \/ Update \/ Render \/ Subscribe
  \/ \E t \in ToastIds : Remove(t) \/ AutoClose(t)
  \/ \E t \in ToastIds \cup {All} : Dismiss(t)

Spec == Init /\ [][Next]_vars

\* Timers fire, and an open toast is closed when its time is over.
TimerFairness ==
  /\ WF_vars(Render) /\ WF_vars(Subscribe)
  /\ \A t \in ToastIds : WF_vars(Remove(t)) /\ WF_vars(AutoClose(t))
-----------------------------------------------------------------------------
\* Every variable keeps its type.
TypeOK ==
  /\ count \in 0..MaxToasts
  /\ toasts \subseteq 1..count /\ Cardinality(toasts) <= TOAST_LIMIT
  /\ open \subseteq toasts
  /\ toastTimeouts \subseteq ToastIds
  /\ phase \in {"off", "rendered", "subscribed"} /\ missed \in BOOLEAN
  /\ view[1] \subseteq ToastIds /\ view[2] \subseteq view[1]

\* Once subscribed, the Toaster shows the store, except until the next dispatch
\* when one fell between its render and its effect. A toast that is not open is
\* about to be removed.
ToasterFollows ==
  /\ phase = "subscribed" => view = <<toasts, open>> \/ missed
  /\ \A t \in toasts : t \in open \/ t \in toastTimeouts

\* A toast that is closed leaves the store.
ToastsGo == \A t \in ToastIds : (t \in toasts /\ t \notin open) ~> t \notin toasts
=============================================================================
