--------------------------- MODULE ContainersTable ---------------------------
(***************************************************************************)
(* TableContainer.tsx, a table over a fixed list of containers that no     *)
(* page uses yet: a filter, pages of a size the user picks, and a          *)
(* selection that spans the pages. The buttons of its toolbar do nothing.  *)
(***************************************************************************)
EXTENDS Integers, FiniteSets

CONSTANTS
  N,          \* number of containers
  Searches,   \* what the texts that the user types find
  PageSizes   \* 5, 10 and 20 in the code

Containers == 1..N   \* in the order of the list

\* What the constants have to be.
ParametersOk ==
  N \in Nat /\ Searches \subseteq SUBSET Containers /\ PageSizes \subseteq Nat \ {0}

VARIABLES search, currentPage, itemsPerPage, selected

vars == <<search, currentPage, itemsPerPage, selected>>

\* No text finds all.
Init ==
  /\ search = Containers
  /\ currentPage = 1 /\ itemsPerPage \in PageSizes /\ selected = {}

\* The text is looked for in the name, the image and the state.
Filtered == search
TotalPages == (Cardinality(Filtered) + itemsPerPage - 1) \div itemsPerPage
Rank(c) == Cardinality({x \in Filtered : x < c})
Paginated ==
  {c \in Filtered :
    (currentPage - 1) * itemsPerPage <= Rank(c) /\ Rank(c) < currentPage * itemsPerPage}

\* The box in the head counts: as many selected as there are rows.
AllChecked == Cardinality(selected) = Cardinality(Paginated) /\ Paginated # {}

\* onChange of the input. The page stays.
Search(s) ==
  /\ search' = s
  /\ UNCHANGED <<currentPage, itemsPerPage, selected>>

\* The rows of this page take the place of the selection.
ToggleSelectAll ==
  /\ selected' = IF AllChecked THEN {} ELSE Paginated
  /\ UNCHANGED <<search, currentPage, itemsPerPage>>

ToggleSelect(c) ==
  /\ c \in Paginated
  /\ selected' = IF c \in selected THEN selected \ {c} ELSE selected \cup {c}
  /\ UNCHANGED <<search, currentPage, itemsPerPage>>

PrevPage ==
  /\ currentPage' = IF currentPage > 1 THEN currentPage - 1 ELSE 1
  /\ UNCHANGED <<search, itemsPerPage, selected>>

\* Mutant: "Next" does not stop at the last page.
NextPageUnbounded ==
  /\ currentPage' = currentPage + 1
  /\ UNCHANGED <<search, itemsPerPage, selected>>

\* "Next" leads to page 0 when nothing matches.
NextPage ==
  /\ currentPage' = IF currentPage < TotalPages THEN currentPage + 1 ELSE TotalPages
  /\ UNCHANGED <<search, itemsPerPage, selected>>

PickSize(n) ==
  /\ itemsPerPage' = n /\ currentPage' = 1
  /\ UNCHANGED <<search, selected>>

Next ==
  \/ \E s \in Searches : Search(s)
  \/ ToggleSelectAll \/ \E c \in Containers : ToggleSelect(c)
  \/ PrevPage \/ NextPage
  \/ \E n \in PageSizes : PickSize(n)

Spec == Init /\ [][Next]_vars
-----------------------------------------------------------------------------
\* Every variable keeps its type.
TypeOK ==
  /\ search \subseteq Containers
  /\ itemsPerPage \in PageSizes /\ currentPage \in 0..N \cup {1}
  /\ selected \subseteq Containers

\* Containers match, but the page shows none of them.
Lost == Paginated = {} /\ Filtered # {}

\* The search does not turn the page, and "Next" goes to page 0 when nothing
\* matches: a table that shows no row although some match was left behind by a
\* change of the text, never by a turn, a size or a selection.
LostOnlyBySearch == [][Lost' => Lost \/ search' # search]_vars
=============================================================================
