---------------------------- MODULE EndpointList ----------------------------
(***************************************************************************)
(* The endpoint page of the console: the list of configurations, the modal *)
(* with the form that creates or edits one, deletion, the success message  *)
(* and its timers. The list comes from this server. The page saves and     *)
(* deletes through a service on another port, which is not in this         *)
(* repository; it is taken to work on the configurations that are listed.  *)
(***************************************************************************)
EXTENDS Integers, FiniteSets

CONSTANTS
  Calls,     \* saves and deletions, one each
  MaxViews,  \* bound on how often the page is opened
  MaxForms   \* bound on how often the form is opened

Views == 1..MaxViews
Forms == 1..MaxForms

\* What the constants have to be.
ParametersOk == Calls \cap Views = {} /\ MaxViews \in Nat /\ MaxForms \in Nat

\* loadConfigs is called by the effect of a view and after every success.
Fetchers == Calls \cup Views

VARIABLES
  version,    \* how often the configurations have changed, from 1 on
  mounted, view,
  configs,    \* the version that the list shows
  loading, error, message,
  timers,     \* timers of this view that will clear the message
  modal,      \* "closed", "create", "edit"
  form,       \* the number of the form opened last
  formLoading, isInitialLoad, formError,
  gets,       \* forms whose configuration is being fetched
  stage,      \* where each save or deletion is
  kind,       \* "save" or "delete"
  owner,      \* the view it was called in, and the form, 0 for a deletion
  fetch,      \* where each listing is
  answer,     \* the version in the answer
  seen,       \* history: the version at the last success that this view was told of
  overtaken   \* history: an older list replaced a newer one in this view

pageVars == <<mounted, view, configs, loading, error, message, timers>>
formVars == <<modal, form, formLoading, isInitialLoad, formError, gets>>
callVars == <<stage, kind, owner>>
fetchVars == <<fetch, answer>>
vars == <<version, pageVars, formVars, callVars, fetchVars, seen, overtaken>>

Init ==
  /\ version = 1
  /\ mounted = FALSE /\ view = 0 /\ configs = 0
  /\ loading = TRUE /\ error = FALSE /\ message = FALSE /\ timers = 0
  /\ modal = "closed" /\ form = 0
  /\ formLoading = FALSE /\ isInitialLoad = FALSE /\ formError = FALSE /\ gets = {}
  /\ stage = [c \in Calls |-> "idle"] /\ kind = [c \in Calls |-> "save"]
  /\ owner = [c \in Calls |-> <<0, 0>>]
  /\ fetch = [f \in Fetchers |-> "idle"] /\ answer = [f \in Fetchers |-> 0]
  /\ seen = 0 /\ overtaken = FALSE

ViewOf(f) == IF f \in Calls THEN owner[f][1] ELSE f
Live(f) == mounted /\ view = ViewOf(f)

\* "Loading backend configurations..." and then an error stand in place of the
\* page, its message, its table and its modal.
PageShown == mounted /\ ~loading /\ ~error

\* A row per configuration, with Edit, Delete and History; the backdrop of an open
\* modal lies over them.
RowsOffered == PageShown /\ modal = "closed" /\ configs > 0

\* The modal shows its children.
FormShown == PageShown /\ modal # "closed"

\* "Loading form..." stands in place of the fields and the buttons, and the buttons
\* are disabled while a request runs.
FormEnabled == FormShown /\ ~isInitialLoad /\ ~formLoading

\* The form that made the call is still on screen.
OwnForm(c) == Live(c) /\ FormShown /\ form = owner[c][2]
-----------------------------------------------------------------------------
(* The page *)

Open ==
  /\ ~mounted /\ view < MaxViews
  /\ mounted' = TRUE /\ view' = view + 1
  /\ fetch' = [fetch EXCEPT ![view + 1] = "sent"]
  /\ UNCHANGED <<version, configs, loading, error, message, timers, formVars, callVars>>
  /\ UNCHANGED <<answer, seen, overtaken>>

\* Another page, the history of a configuration for one.
Leave ==
  /\ mounted
  /\ mounted' = FALSE /\ configs' = 0
  /\ loading' = TRUE /\ error' = FALSE /\ message' = FALSE /\ timers' = 0
  /\ modal' = "closed"
  /\ formLoading' = FALSE /\ isInitialLoad' = FALSE /\ formError' = FALSE
  /\ seen' = 0 /\ overtaken' = FALSE
  /\ UNCHANGED <<version, view, form, gets, callVars, fetchVars>>

\* loadConfigs: unlike its first call, later ones show no sign of loading.
ListTaken(f) ==
  /\ fetch[f] = "sent"
  /\ fetch' = [fetch EXCEPT ![f] = "listed"]
  /\ answer' = [answer EXCEPT ![f] = version]
  /\ UNCHANGED <<version, pageVars, formVars, callVars, seen, overtaken>>

ListArrives(f) ==
  /\ fetch[f] = "listed"
  /\ fetch' = [fetch EXCEPT ![f] = "over"]
  /\ IF Live(f)
     THEN /\ configs' = answer[f] /\ loading' = FALSE
          /\ overtaken' = (overtaken \/ answer[f] < configs)
     ELSE UNCHANGED <<configs, loading, overtaken>>
  /\ UNCHANGED <<version, mounted, view, error, message, timers>>
  /\ UNCHANGED <<formVars, callVars, answer, seen>>

\* Nothing takes the error away again.
ListFails(f) ==
  /\ fetch[f] \in {"sent", "listed"}
  /\ fetch' = [fetch EXCEPT ![f] = "over"]
  /\ error' = (error \/ Live(f)) /\ loading' = (loading /\ ~Live(f))
  /\ UNCHANGED <<version, mounted, view, configs, message, timers>>
  /\ UNCHANGED <<formVars, callVars, answer, seen, overtaken>>

\* Mutant: the timer is set for the first message only.
TimerFiresLate ==
  /\ timers > 1
  /\ timers' = timers - 1 /\ message' = FALSE
  /\ UNCHANGED <<version, mounted, view, configs, loading, error>>
  /\ UNCHANGED <<formVars, callVars, fetchVars, seen, overtaken>>

\* A timer clears the message, its own or a later one.
TimerFires ==
  /\ timers > 0
  /\ timers' = timers - 1 /\ message' = FALSE
  /\ UNCHANGED <<version, mounted, view, configs, loading, error>>
  /\ UNCHANGED <<formVars, callVars, fetchVars, seen, overtaken>>
-----------------------------------------------------------------------------
(* The modal and the form *)

NewForm(mode) ==
  /\ form < MaxForms
  /\ form' = form + 1 /\ modal' = mode
  /\ formLoading' = (mode = "edit") /\ isInitialLoad' = (mode = "edit")
  /\ formError' = FALSE
  /\ gets' = IF mode = "edit" THEN gets \cup {form + 1} ELSE gets
  /\ UNCHANGED <<version, pageVars, callVars, fetchVars, seen, overtaken>>

OpenCreate == PageShown /\ modal = "closed" /\ NewForm("create")

\* The effect of the form fetches the configuration.
OpenEdit == RowsOffered /\ NewForm("edit")

FormGone ==
  /\ modal' = "closed"
  /\ formLoading' = FALSE /\ isInitialLoad' = FALSE /\ formError' = FALSE

\* The cross and the backdrop, which are not disabled during a request; Cancel is.
CloseModal ==
  /\ FormShown
  /\ FormGone
  /\ UNCHANGED <<version, pageVars, form, gets, callVars, fetchVars, seen, overtaken>>

\* Mutant: isInitialLoad is reset only by a success.
ConfigArrivesOk(n, ok) ==
  /\ n \in gets
  /\ gets' = gets \ {n}
  /\ IF FormShown /\ form = n
     THEN formLoading' = FALSE /\ isInitialLoad' = ~ok /\ formError' = ~ok
     ELSE UNCHANGED <<formLoading, isInitialLoad, formError>>
  /\ UNCHANGED <<version, pageVars, modal, form, callVars, fetchVars, seen, overtaken>>

\* The configuration to edit, or "Failed to load endpoint data." over an empty form.
ConfigArrives(n, ok) ==
  /\ n \in gets
  /\ gets' = gets \ {n}
  /\ IF FormShown /\ form = n
     THEN formLoading' = FALSE /\ isInitialLoad' = FALSE /\ formError' = ~ok
     ELSE UNCHANGED <<formLoading, isInitialLoad, formError>>
  /\ UNCHANGED <<version, pageVars, modal, form, callVars, fetchVars, seen, overtaken>>

\* handleSubmit, with fields that the browser's own checks let through.
Submit(c) ==
  /\ FormEnabled /\ stage[c] = "idle"
  /\ stage' = [stage EXCEPT ![c] = "sent"]
  /\ owner' = [owner EXCEPT ![c] = <<view, form>>]
  /\ formLoading' = TRUE /\ formError' = FALSE
  /\ UNCHANGED <<version, pageVars, modal, form, isInitialLoad, gets, kind>>
  /\ UNCHANGED <<fetchVars, seen, overtaken>>

\* handleDelete, confirmed. The row stays, and so does its button.
HandleDelete(c) ==
  /\ RowsOffered /\ stage[c] = "idle"
  /\ stage' = [stage EXCEPT ![c] = "sent"]
  /\ kind' = [kind EXCEPT ![c] = "delete"]
  /\ owner' = [owner EXCEPT ![c] = <<view, 0>>]
  /\ UNCHANGED <<version, pageVars, formVars, fetchVars, seen, overtaken>>
-----------------------------------------------------------------------------
(* Saves and deletions on their way *)

\* The other service carries it out.
Applied(c) ==
  /\ stage[c] = "sent"
  /\ stage' = [stage EXCEPT ![c] = "applied"]
  /\ version' = version + 1
  /\ UNCHANGED <<pageVars, formVars, kind, owner, fetchVars, seen, overtaken>>

\* Mutant: the list is not loaded again.
SucceededNoReload(c) ==
  /\ stage[c] = "applied"
  /\ stage' = [stage EXCEPT ![c] = "over"]
  /\ IF Live(c)
     THEN message' = TRUE /\ timers' = timers + 1 /\ seen' = version
     ELSE UNCHANGED <<message, timers, seen>>
  /\ IF Live(c) /\ kind[c] = "save"
     THEN FormGone ELSE UNCHANGED <<modal, formLoading, isInitialLoad, formError>>
  /\ UNCHANGED <<version, mounted, view, configs, loading, error, form, gets>>
  /\ UNCHANGED <<kind, owner, fetchVars, overtaken>>

\* handleFormSuccess, or the same in handleDelete. It also runs for a form that was
\* closed meanwhile, and then closes the form that is open now.
Succeeded(c) ==
  /\ stage[c] = "applied"
  /\ stage' = [stage EXCEPT ![c] = "over"]
  /\ fetch' = [fetch EXCEPT ![c] = "sent"]
  /\ IF Live(c)
     THEN message' = TRUE /\ timers' = timers + 1 /\ seen' = version
     ELSE UNCHANGED <<message, timers, seen>>
  /\ IF Live(c) /\ kind[c] = "save"
     THEN FormGone ELSE UNCHANGED <<modal, formLoading, isInitialLoad, formError>>
  /\ UNCHANGED <<version, mounted, view, configs, loading, error, form, gets>>
  /\ UNCHANGED <<kind, owner, answer, overtaken>>

\* The call is refused, or its answer is lost: a save leaves an error in its form, a
\* deletion puts one in place of the page.
Failed(c) ==
  /\ stage[c] \in {"sent", "applied"}
  /\ stage' = [stage EXCEPT ![c] = "over"]
  /\ error' = (error \/ (Live(c) /\ kind[c] = "delete"))
  /\ IF OwnForm(c) THEN formLoading' = FALSE /\ formError' = TRUE
     ELSE UNCHANGED <<formLoading, formError>>
  /\ UNCHANGED <<version, mounted, view, configs, loading, message, timers>>
  /\ UNCHANGED <<modal, form, isInitialLoad, gets, kind, owner, fetchVars, seen, overtaken>>

Next ==
  \/ Open \/ Leave \/ TimerFires \/ OpenCreate \/ OpenEdit \/ CloseModal
  \/ \E f \in Fetchers : ListTaken(f) \/ ListArrives(f) \/ ListFails(f)
  \/ \E n \in Forms, ok \in BOOLEAN : ConfigArrives(n, ok)
  \/ \E c \in Calls : Submit(c) \/ HandleDelete(c) \/ Applied(c) \/ Succeeded(c) \/ Failed(c)

Spec == Init /\ [][Next]_vars
-----------------------------------------------------------------------------
Stages == {"idle", "sent", "applied", "over"}

\* Every variable keeps its type.
TypeOK ==
  /\ version \in Nat \ {0} /\ {configs, seen} \subseteq 0..version
  /\ view \in 0..MaxViews /\ timers \in Nat /\ form \in 0..MaxForms
  /\ {mounted, loading, error, message, formLoading, isInitialLoad, formError, overtaken}
       \subseteq BOOLEAN
  /\ modal \in {"closed", "create", "edit"} /\ gets \subseteq Forms
  /\ stage \in [Calls -> Stages] /\ kind \in [Calls -> {"save", "delete"}]
  /\ owner \in [Calls -> (0..MaxViews) \X (0..MaxForms)]
  /\ fetch \in [Fetchers -> {"idle", "sent", "listed", "over"}]
  /\ answer \in [Fetchers -> 0..version]

ListUnderWay == \E f \in Fetchers : fetch[f] \in {"sent", "listed"} /\ Live(f)

\* The table is never older than the last success that the page was told of once
\* no list is on its way, except when an older answer came in after a newer one:
\* a failure to load shows the error instead.
ListFollowsSuccess == PageShown /\ ~ListUnderWay => configs >= seen \/ overtaken

\* A form says "Saving..." or "Loading form..." only while a request of its own is
\* under way, whatever late answers of closed forms do.
FormSpinnerHonest ==
  FormShown =>
    /\ isInitialLoad => formLoading
    /\ formLoading => form \in gets \/ \E c \in Calls : OwnForm(c) /\ stage[c] \in {"sent", "applied"}

\* Neither the table nor the form tells the user something that is over.
NoSilentStaleness == ListFollowsSuccess /\ FormSpinnerHonest

\* The success message goes away by itself.
MessageGoes == message ~> ~message
=============================================================================
