------------------------------ MODULE Routing ------------------------------
(***************************************************************************)
(* What a route lookup returns, as a reference definition: the longest     *)
(* non-empty PathPrefix that the request path starts with.  Paths and      *)
(* prefixes are sequences of characters (strings.HasPrefix and len work on *)
(* characters, so "/a" also matches "/ab").                                *)
(***************************************************************************)
EXTENDS Naturals, Sequences, SequencesExt

CONSTANTS
  Configs,   \* identities of BackendConfig rows (uuid)
  Char,      \* the characters of paths
  Prefix,    \* PathPrefix of every config
  NoMatch    \* the nil *BackendConfig, and the label "NO_MATCH"

ASSUME PrefixAssumption == Prefix \in [Configs -> Seq(Char)]
ASSUME NoMatchAssumption == NoMatch \notin Configs

\* strings.HasPrefix(path, config.PathPrefix)
HasPrefix(path, c) == IsPrefix(Prefix[c], path)

\* The loop starts from longestMatchLen = 0 and asks for strictly more, so an
\* empty PathPrefix is never selected.
Candidates(S, path) == {c \in S : HasPrefix(path, c) /\ Prefix[c] # <<>>}

Longest(S, path) ==
  {c \in Candidates(S, path) :
     \A d \in Candidates(S, path) : Len(Prefix[d]) <= Len(Prefix[c])}

\* The results a lookup over the table S may return: Go ranges over the map in
\* any order, so equally long prefixes compete.
Lookup(S, path) ==
  IF Longest(S, path) = {} THEN {NoMatch} ELSE Longest(S, path)
=============================================================================
