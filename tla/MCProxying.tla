----------------------------- MODULE MCProxying -----------------------------
(***************************************************************************)
(* The loops that a proxied request goes through: the lookup of its route  *)
(* and the Director (RouteLookup), the selection inside a backend          *)
(* (RoundRobin), the selection of internal/balancer, which the program     *)
(* does not use (ServerPool), and the relay of a WebSocket session         *)
(* (WsProxy, whose actions NoTarget and Target stand for what the          *)
(* selection returns). They share no state. One of them, the scene, runs   *)
(* in each behaviour; the others stay in their initial state.              *)
(***************************************************************************)
EXTENDS RoundRobin, Sequences

CONSTANTS
  Configs, Char, Prefix, NoMatch, Slash, Paths, BasePaths, WsConfigs,
  MaxMessages, Writers, HeaderAccepted, PoolSize, CounterSize

VARIABLES
  scene,
  table, path, todo, longestMatchLen, matchedConfig, isWebSocket, basePath, targetPath,
  writer, process, handler, status, conn, peer, sent, unread, got, pump, held, done,
  Alive, current, pc, poolI, nextIndex, aliveSince, overtaken, wrapped, cursor

lookupVars ==
  <<table, path, todo, longestMatchLen, matchedConfig, isWebSocket, basePath, targetPath>>
sessionVars ==
  <<writer, process, handler, status, conn, peer, sent, unread, got, pump, held, done>>
poolVars ==
  <<Alive, current, pc, poolI, nextIndex, aliveSince, overtaken, wrapped, cursor>>
partVars == <<lookupVars, sessionVars, poolVars>>

Routes == INSTANCE RouteLookup
Ws == INSTANCE WsProxy
Pool == INSTANCE ServerPool WITH
  N <- PoolSize, Size <- CounterSize, i <- poolI, steady <- aliveSince

ASSUME MCAssumption == Routes!ParametersOk /\ Ws!ParametersOk /\ Pool!ParametersOk

Scenes == {"lookup", "selection", "session", "pool"}

\* What may differ from the start differs only in the scene it belongs to.
Quiet ==
  /\ scene # "lookup" =>
       table = {} /\ path = (CHOOSE p \in Paths : TRUE) /\ ~isWebSocket
  /\ scene # "selection" => \A e \in Index : ~IsHealthy[e]
  /\ scene # "session" => writer = CHOOSE w \in Writers : TRUE
  /\ scene # "pool" => Pool!AliveSet = {}

MCInit ==
  /\ scene \in Scenes
  /\ Init /\ Routes!Init /\ Ws!Init /\ Pool!Init
  /\ Quiet

MCNext ==
  /\ UNCHANGED scene
  /\ IF scene = "lookup" THEN Routes!Next ELSE UNCHANGED lookupVars
  /\ IF scene = "selection" THEN Next ELSE UNCHANGED vars
  /\ IF scene = "session" THEN Ws!Next ELSE UNCHANGED sessionVars
  /\ IF scene = "pool" THEN Pool!Next ELSE UNCHANGED poolVars

\* The fairness of RoundRobin, in its scene.
MCFairness ==
  \A p \in Callers :
    /\ SF_vars(scene = "selection" /\ Enter(p))
    /\ WF_vars(scene = "selection" /\ (Pick(p) \/ Skip(p) \/ GiveUp(p)))

MCSpec == MCInit /\ [][MCNext]_<<scene, vars, partVars>> /\ MCFairness
-----------------------------------------------------------------------------
\* Whatever order the map is ranged in, the loop ends with a longest matching
\* prefix, or with nil exactly when no prefix matches; the match is a config of the
\* table all the time (gateway.core.go 169-184).
LookupCorrect == Routes!TypeOK /\ Routes!LookupCorrect

\* The request to the endpoint stays below its base path, and two requests of one
\* route share a path of the endpoint only if they differ by one slash behind the
\* prefix (gateway.core.go 211-222).
TargetKeepsPathsApart == Routes!TargetKeepsPathsApart

\* Every variable of a session keeps its type, each peer receives what the other
\* sent, in order, nothing is lost inside the relay while the session lasts, and
\* only a peer that leaves ends it (gateway.core.go 119-162).
RelayKept == Ws!TypeOK /\ Ws!RelayInOrder /\ Ws!NothingLostInside

\* A backend of the pool that was alive during the whole call is missed only when
\* another caller moved the shared counter or the counter wrapped, and the index
\* stays inside the pool (loadbalancer.go 24-34).
PoolMissesExplained == Pool!TypeOK /\ Pool!MissesOnlyIfOvertaken
-----------------------------------------------------------------------------
(* Values for model checking: nested prefixes with and without a trailing   *)
(* slash, two configs with the same prefix, the root prefix and the empty   *)
(* one.  Paths are sequences of one-character strings.                      *)

CONSTANTS c1, c2, c3, c4, c5, c6

MCConfigs == {c1, c2, c3, c4, c5, c6}
MCChar == {"/", "a", "b"}

MCPrefix ==
  [c \in MCConfigs |->
     CASE c = c1 -> <<"/">>
       [] c = c2 -> <<"/", "a">>
       [] c = c3 -> <<"/", "a", "/">>
       [] c = c4 -> <<"/", "a">>
       [] c = c5 -> <<"/", "a", "/", "b">>
       [] c = c6 -> <<>>]

\* Every rooted path of at most four characters, and the path of "OPTIONS *".
MCPaths == {<<"/">> \o s : s \in UNION {[1..n -> MCChar] : n \in 0..3}} \cup {<<"a">>}

MCBasePaths == {<<>>, <<"/">>, <<"/", "b">>, <<"/", "b", "/">>}
=============================================================================
