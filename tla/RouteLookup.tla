---------------------------- MODULE RouteLookup ----------------------------
(***************************************************************************)
(* The lookup loop of Gateway.ServeHTTP (repeated in AccessLoggingHandler) *)
(* and the Director that rewrites the path for the chosen endpoint.  One   *)
(* behaviour is one call: it visits the table in an arbitrary order        *)
(* (range over a Go map) and keeps the longest match seen.                 *)
(***************************************************************************)
EXTENDS Routing

CONSTANTS
  Slash,      \* the character "/"
  Paths,      \* the request paths considered
  BasePaths,  \* URLParsed.Path of the chosen endpoint
  WsConfigs   \* configs whose Protocol is "WS"

\* What the constants have to be, those of Routing included.
ParametersOk ==
  /\ Prefix \in [Configs -> Seq(Char)] /\ NoMatch \notin Configs
  /\ Slash \in Char
  /\ Paths \subseteq Seq(Char) /\ BasePaths \subseteq Seq(Char)
  /\ WsConfigs \subseteq Configs

VARIABLES
  table,            \* g.backends, read-locked during the call
  path,             \* r.URL.Path
  todo,             \* configs the range loop has not visited
  longestMatchLen,
  matchedConfig,
  isWebSocket,      \* the Connection and Upgrade headers ask for a WebSocket
  basePath,         \* targetEndpoint.URLParsed.Path
  targetPath        \* path of the request to the endpoint, <<>> before

targetVars == <<basePath, targetPath>>
vars == <<table, path, todo, longestMatchLen, matchedConfig, isWebSocket, targetVars>>

Init ==
  /\ table \in SUBSET Configs
  /\ path \in Paths
  /\ todo = table
  /\ longestMatchLen = 0
  /\ matchedConfig = NoMatch
  /\ isWebSocket \in BOOLEAN
  /\ basePath = <<>> /\ targetPath = <<>>

\* Mutant: the comparison against longestMatchLen is lost: the last match wins.
AnyMatch(c, len) == HasPrefix(path, c) /\ Prefix[c] # <<>>

Improves(c, len) == HasPrefix(path, c) /\ Len(Prefix[c]) > len

Visit(c) ==
  /\ c \in todo
  /\ todo' = todo \ {c}
  /\ IF Improves(c, longestMatchLen)
     THEN longestMatchLen' = Len(Prefix[c]) /\ matchedConfig' = c
     ELSE UNCHANGED <<longestMatchLen, matchedConfig>>
  /\ UNCHANGED <<table, path, isWebSocket, targetVars>>

HasSuffixSlash(s) == s # <<>> /\ s[Len(s)] = Slash
HasPrefixSlash(s) == s # <<>> /\ s[1] = Slash

\* Mutant: strings.TrimLeft, which takes the prefix for a set of characters.
RemainingPathTrimLeft(p, c) ==
  LET cutset == {Prefix[c][i] : i \in DOMAIN Prefix[c]}
      kept   == {i \in DOMAIN p : p[i] \notin cutset}
  IN IF kept = {} THEN <<>>
     ELSE SubSeq(p, CHOOSE i \in kept : \A j \in kept : i <= j, Len(p))

\* strings.TrimPrefix(r.URL.Path, matchedConfig.PathPrefix)
RemainingPath(p, c) == SubSeq(p, Len(Prefix[c]) + 1, Len(p))

NeedsSlash(base, rest) == ~HasSuffixSlash(base) /\ ~HasPrefixSlash(rest)

JoinPath(base, rest) ==
  IF NeedsSlash(base, rest) THEN base \o <<Slash>> \o rest ELSE base \o rest

Upgraded == isWebSocket /\ matchedConfig \in WsConfigs

AtEnd == todo = {} /\ matchedConfig # NoMatch /\ targetPath = <<>>

\* The Director runs once a healthy endpoint (with base path "base") is chosen.
Direct(base) ==
  /\ AtEnd /\ ~Upgraded
  /\ basePath' = base
  /\ targetPath' = JoinPath(base, RemainingPath(path, matchedConfig))
  /\ UNCHANGED <<table, path, todo, longestMatchLen, matchedConfig, isWebSocket>>

\* proxyWebSocket builds its own URL from the endpoint's host and r.URL.Path.
DirectWebSocket ==
  /\ AtEnd /\ Upgraded
  /\ targetPath' = path
  /\ UNCHANGED <<table, path, todo, longestMatchLen, matchedConfig, isWebSocket, basePath>>

Next ==
  \/ \E c \in Configs : Visit(c)
  \/ \E base \in BasePaths : Direct(base)
  \/ DirectWebSocket

Spec == Init /\ [][Next]_vars
-----------------------------------------------------------------------------
\* Every variable keeps its type.
TypeOK ==
  /\ table \subseteq Configs
  /\ path \in Paths
  /\ todo \subseteq table
  /\ longestMatchLen \in Nat
  /\ matchedConfig \in table \cup {NoMatch}
  /\ isWebSocket \in BOOLEAN
  /\ basePath \in Seq(Char) /\ targetPath \in Seq(Char)

\* Whatever order the map is ranged in, the loop ends with a longest matching
\* prefix, or with nil exactly when no prefix matches (gateway.core.go 169-184).
LookupCorrect == todo = {} => matchedConfig \in Lookup(table, path)

\* During the loop the result is already right for the part visited: the
\* inductive form of LookupCorrect.
VisitedCorrect ==
  IF matchedConfig = NoMatch
  THEN Candidates(table \ todo, path) = {} /\ longestMatchLen = 0
  ELSE /\ matchedConfig \in Longest(table \ todo, path)
       /\ longestMatchLen = Len(Prefix[matchedConfig])

\* A path that base contains: the next segment begins where base ends.
Below(base, p) ==
  /\ IsPrefix(base, p)
  /\ HasSuffixSlash(base) \/ HasPrefixSlash(SubSeq(p, Len(base) + 1, Len(p)))

\* The path p with one more slash behind the prefix of c.
WithSlash(p, c) == Prefix[c] \o <<Slash>> \o RemainingPath(p, c)

\* Whatever slashes prefix, path and base path end or begin with, the request to
\* the endpoint stays below its base path, and it tells requests apart: another
\* request of the same route reaches the same path of the endpoint only if the two
\* differ by one slash behind the prefix (gateway.core.go 211-222).
TargetKeepsPathsApart ==
  targetPath # <<>> /\ ~Upgraded =>
    /\ Below(basePath, targetPath)
    /\ \A p \in Paths :
         HasPrefix(p, matchedConfig)
           /\ JoinPath(basePath, RemainingPath(p, matchedConfig)) = targetPath
         => \/ p = path
            \/ p = WithSlash(path, matchedConfig)
            \/ path = WithSlash(p, matchedConfig)
=============================================================================
