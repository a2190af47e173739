---------------------------- MODULE RouteTable ----------------------------
(***************************************************************************)
(* What the gateway promises to its clients, without threads, locks or     *)
(* caches: a table of stored configs that is replaced as a whole, and only *)
(* between requests; every request is served by a config that is a longest *)
(* match in the table, and stays with it until it ends.                    *)
(***************************************************************************)
EXTENDS Routing

CONSTANTS Requests, PathOf, InitialConfigs

VARIABLES
  stored,   \* configs accepted so far; they are never lost
  table,    \* the routing table in force
  serving   \* the config that serves each request, NoMatch for none

rtVars == <<stored, table, serving>>

NobodyServed == \A r \in Requests : serving[r] = NoMatch

RTInit ==
  /\ stored = InitialConfigs
  /\ table = {}
  /\ serving = [r \in Requests |-> NoMatch]

Store(k) ==
  /\ stored' = stored \cup {k}
  /\ UNCHANGED <<table, serving>>

Replace ==
  /\ NobodyServed
  /\ table' \in SUBSET stored
  /\ UNCHANGED <<stored, serving>>

Serve(r) ==
  /\ serving[r] = NoMatch
  /\ \E c \in Lookup(table, PathOf[r]) :
       serving' = [serving EXCEPT ![r] = c]
  /\ UNCHANGED <<stored, table>>

Finish(r) ==
  /\ serving' = [serving EXCEPT ![r] = NoMatch]
  /\ UNCHANGED <<stored, table>>

Restart ==
  /\ table' = {}
  /\ serving' = [r \in Requests |-> NoMatch]
  /\ UNCHANGED stored

RTNext ==
  \/ \E k \in Configs : Store(k)
  \/ Replace
  \/ \E r \in Requests : Serve(r) \/ Finish(r)
  \/ Restart

RTSpec == RTInit /\ [][RTNext]_rtVars
=============================================================================
