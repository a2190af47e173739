----------------------------- MODULE Preferences -----------------------------
(***************************************************************************)
(* The settings that the console keeps in localStorage: the theme, the     *)
(* font size, the collapsed sidebar and the font size of the profile page. *)
(* Each is read when its component renders for the first time, and written *)
(* by an effect, first right after that and then at every change. Tabs     *)
(* share the storage; the settings do not depend on each other, so one     *)
(* behaviour looks at one of them.                                         *)
(***************************************************************************)
EXTENDS Integers, FiniteSets

CONSTANTS
  Tabs,
  Sections,   \* sections of the menu
  Absent      \* an item that is not in the storage

Keys == {"theme", "isSidebarCollapsed", "fontSize", "profileFontSize"}

VARIABLES
  key,         \* the setting looked at
  stored,      \* its item
  phase,       \* its component in each tab: "off", "rendered", "on"
  value,       \* the state of that component
  systemDark,  \* prefers-color-scheme
  rootClass,   \* classes of the document in each tab
  openSections,
  chosen,      \* history: what the user chose last, in any tab
  passed,      \* history: tabs that rendered before another tab's choice and
               \* whose effect is still to come
  overwritten  \* history: such an effect came after the last choice

vars == <<key, stored, phase, value, systemDark, rootClass, openSections,
          chosen, passed, overwritten>>

Flags == {"theme", "isSidebarCollapsed"}

\* Both font sizes go in steps of two, the profile's further.
Largest(k) == IF k = "fontSize" THEN 24 ELSE 32
Values(k) == IF k \in Flags THEN BOOLEAN ELSE {n \in 12..Largest(k) : n % 2 = 0}

\* What a component starts from when nothing is stored.
Default(k) == CASE k = "theme" -> systemDark
                [] k = "isSidebarCollapsed" -> FALSE
                [] k = "fontSize" -> 14
                [] k = "profileFontSize" -> 16

Toggled(v) == ~v

\* Mutant: A+ and A- do not stop.
SteppedUnbounded(k, v) == {v + 2, v - 2}

\* A+ and A- stop at their ends; a click there changes no state, and so runs no
\* effect.
Stepped(k, v) == {v + 2, v - 2} \cap Values(k)

\* What one click makes of a value.
Choices(k, v) == IF k \in Flags THEN {Toggled(v)} ELSE Stepped(k, v)

Init ==
  /\ key \in Keys
  /\ stored = Absent /\ chosen = Absent
  /\ phase = [t \in Tabs |-> "off"]
  /\ value = [t \in Tabs |-> Absent]
  /\ systemDark \in BOOLEAN
  /\ rootClass = [t \in Tabs |-> {}]
  /\ openSections = [t \in Tabs |-> {}]
  /\ passed = {} /\ overwritten = FALSE

Initial == IF stored = Absent THEN Default(key) ELSE stored

\* useState: the first render reads the item. All sections of the menu are open.
Render(t) ==
  /\ phase[t] = "off"
  /\ phase' = [phase EXCEPT ![t] = "rendered"]
  /\ value' = [value EXCEPT ![t] = Initial]
  /\ openSections' = [openSections EXCEPT ![t] = IF key = "isSidebarCollapsed" THEN Sections ELSE {}]
  /\ UNCHANGED <<key, stored, systemDark, rootClass, chosen, passed, overwritten>>

SystemClass == IF systemDark THEN {"dark"} ELSE {"light"}

WithDark(classes, v) == IF v THEN classes \cup {"dark"} ELSE classes \ {"dark"}

\* Mutant: the effect of ThemeProvider runs after that of App.
ClassesSwapped(v) == SystemClass

\* The theme of ThemeProvider stays "system", for nothing calls setTheme. Effects
\* of children run first: it puts the class of the system in place of both
\* classes, then App sets or removes "dark".
Classes(v) == WithDark(SystemClass, v)

\* Mutant: the first effect stores the default.
EffectsDefault(t) ==
  /\ phase[t] = "rendered"
  /\ phase' = [phase EXCEPT ![t] = "on"]
  /\ stored' = Default(key)
  /\ rootClass' = [rootClass EXCEPT ![t] = IF key = "theme" THEN Classes(value[t]) ELSE {}]
  /\ overwritten' = (overwritten \/ t \in passed)
  /\ passed' = passed \ {t}
  /\ UNCHANGED <<key, value, systemDark, openSections, chosen>>

\* The effects after the first render write the item back.
Effects(t) ==
  /\ phase[t] = "rendered"
  /\ phase' = [phase EXCEPT ![t] = "on"]
  /\ stored' = value[t]
  /\ rootClass' = [rootClass EXCEPT ![t] = IF key = "theme" THEN Classes(value[t]) ELSE {}]
  /\ overwritten' = (overwritten \/ t \in passed)
  /\ passed' = passed \ {t}
  /\ UNCHANGED <<key, value, systemDark, openSections, chosen>>

\* A click on the setting. A click comes after the effects that are due, and its
\* own effect before anything else.
Choose(t) ==
  /\ phase[t] = "on"
  /\ \E v \in Choices(key, value[t]) :
       /\ value' = [value EXCEPT ![t] = v]
       /\ stored' = v /\ chosen' = v
       /\ rootClass' = IF key = "theme" THEN [rootClass EXCEPT ![t] = WithDark(@, v)]
                       ELSE rootClass
  /\ passed' = {q \in Tabs : phase[q] = "rendered"}
  /\ overwritten' = FALSE
  /\ UNCHANGED <<key, phase, systemDark, openSections>>

\* The tab is closed or, for the profile's setting, another page is shown.
Unmount(t) ==
  /\ phase[t] = "on"
  /\ phase' = [phase EXCEPT ![t] = "off"]
  /\ value' = [value EXCEPT ![t] = Absent]
  /\ rootClass' = [rootClass EXCEPT ![t] = {}]
  /\ openSections' = [openSections EXCEPT ![t] = {}]
  /\ UNCHANGED <<key, stored, systemDark, chosen, passed, overwritten>>

\* The menu is hidden with a collapsed sidebar.
MenuShown(t) == key = "isSidebarCollapsed" /\ phase[t] = "on" /\ ~value[t]

ToggleSection(t, s) ==
  /\ MenuShown(t)
  /\ openSections' = [openSections EXCEPT ![t] = IF s \in @ THEN @ \ {s} ELSE @ \cup {s}]
  /\ UNCHANGED <<key, stored, phase, value, systemDark, rootClass, chosen, passed, overwritten>>

\* The user changes the theme of the system; a tab reads it at its first render.
SystemChanges ==
  /\ key = "theme"
  /\ systemDark' = ~systemDark
  /\ UNCHANGED <<key, stored, phase, value, rootClass, openSections, chosen, passed, overwritten>>

Next ==
  \/ \E t \in Tabs :
       \/ Render(t) \/ Effects(t) \/ Choose(t) \/ Unmount(t)
       \/ \E s \in Sections : ToggleSection(t, s)
  \/ SystemChanges

Spec == Init /\ [][Next]_vars
-----------------------------------------------------------------------------
\* Every variable keeps its type; font sizes stay inside their ends.
TypeOK ==
  /\ key \in Keys
  /\ stored \in Values(key) \cup {Absent} /\ chosen \in Values(key) \cup {Absent}
  /\ phase \in [Tabs -> {"off", "rendered", "on"}]
  /\ value \in [Tabs -> Values(key) \cup {Absent}]
  /\ systemDark \in BOOLEAN /\ overwritten \in BOOLEAN
  /\ rootClass \in [Tabs -> SUBSET {"light", "dark"}]
  /\ openSections \in [Tabs -> SUBSET Sections]
  /\ passed \subseteq Tabs

\* ProfilePage.tsx 53, "stored in localStorage and will persist across page
\* reloads", for all four settings: what the user chose last, in whatever tab,
\* stays stored however tabs come and go with older values, except when a tab
\* that had rendered before the choice had its first effect after it.
ChoiceKept == chosen # Absent => stored = chosen \/ overwritten

\* The document is dark exactly when the switch says so, although two effects
\* write its class and one of them follows the system.
DarkAsSwitched ==
  key = "theme" =>
    \A t \in Tabs : phase[t] = "on" => ("dark" \in rootClass[t] <=> value[t])

\* Both together.
PreferencesKept == ChoiceKept /\ DarkAsSwitched
=============================================================================
