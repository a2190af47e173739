------------------------- MODULE RouteLookupProofs -------------------------
(***************************************************************************)
(* The lookup loop computes a longest match, for every table, every path   *)
(* and every order in which Go ranges over the map.                        *)
(***************************************************************************)
EXTENDS RouteLookup, SequenceTheorems, TLAPS

\* A prefix longer than something is not empty.
LEMMA LongerNotEmpty ==
  ASSUME NEW c \in Configs, NEW n \in Nat, Len(Prefix[c]) > n
  PROVE  Prefix[c] # <<>>
BY PrefixAssumption

\* Visiting one more config: if it improves, it becomes the longest match.
LEMMA LongestWhenImproved ==
  ASSUME NEW S \in SUBSET Configs, NEW c \in Configs, NEW n \in Nat,
         HasPrefix(path, c), Len(Prefix[c]) > n,
         \A d \in Candidates(S, path) : Len(Prefix[d]) <= n
  PROVE  c \in Longest(S \cup {c}, path)
<1>1. c \in Candidates(S \cup {c}, path)
  BY LongerNotEmpty DEF Candidates
<1>2. ASSUME NEW d \in Candidates(S \cup {c}, path)
      PROVE  Len(Prefix[d]) <= Len(Prefix[c])
  <2>1. d = c \/ d \in Candidates(S, path)
    BY DEF Candidates
  <2>2. Len(Prefix[c]) \in Nat /\ (d \in Configs => Len(Prefix[d]) \in Nat)
    BY PrefixAssumption
  <2>3. d \in Configs
    BY DEF Candidates
  <2> QED BY <2>1, <2>2, <2>3
<1> QED BY <1>1, <1>2 DEF Longest

\* If it does not, the result so far stays.
LEMMA LongestWhenKept ==
  ASSUME NEW S \in SUBSET Configs, NEW c \in Configs,
         NEW m \in Longest(S, path), ~Improves(c, Len(Prefix[m]))
  PROVE  m \in Longest(S \cup {c}, path)
<1>1. m \in Configs /\ m \in Candidates(S \cup {c}, path)
  BY DEF Longest, Candidates
<1>2. ASSUME NEW d \in Candidates(S \cup {c}, path)
      PROVE  Len(Prefix[d]) <= Len(Prefix[m])
  <2>1. CASE d \in Candidates(S, path)
    BY <2>1 DEF Longest
  <2>2. CASE d \notin Candidates(S, path)
    <3>1. d = c /\ HasPrefix(path, c)
      BY <2>2 DEF Candidates
    <3>2. Len(Prefix[c]) \in Nat /\ Len(Prefix[m]) \in Nat
      BY <1>1, PrefixAssumption
    <3> QED BY <3>1, <3>2 DEF Improves
  <2> QED BY <2>1, <2>2
<1> QED BY <1>1, <1>2 DEF Longest

LoopInv ==
  /\ table \subseteq Configs /\ todo \subseteq table
  /\ matchedConfig \in table \cup {NoMatch}
  /\ longestMatchLen \in Nat
  /\ VisitedCorrect

LEMMA InitLoopInv == Init => LoopInv
BY DEF Init, LoopInv, VisitedCorrect, Candidates

LEMMA NextLoopInv == LoopInv /\ [Next]_vars => LoopInv'
<1> SUFFICES ASSUME LoopInv, [Next]_vars PROVE LoopInv'
  OBVIOUS
<1>1. ASSUME NEW c \in Configs, Visit(c) PROVE LoopInv'
  <2> DEFINE S == table \ todo
  <2>1. /\ c \in todo /\ todo' = todo \ {c} /\ table' = table /\ path' = path
        /\ table' \ todo' = S \cup {c} /\ S \in SUBSET Configs
    BY <1>1 DEF Visit, LoopInv
  <2>2. Len(Prefix[c]) \in Nat
    BY PrefixAssumption
  <2>3. CASE Improves(c, longestMatchLen)
    <3>1. matchedConfig' = c /\ longestMatchLen' = Len(Prefix[c])
      BY <1>1, <2>3 DEF Visit
    <3>2. \A d \in Candidates(S, path) : Len(Prefix[d]) <= longestMatchLen
      BY DEF LoopInv, VisitedCorrect, Longest
    <3>3. c \in Longest(S \cup {c}, path)
      BY <2>1, <2>3, <3>2, LongestWhenImproved DEF Improves, LoopInv
    <3>4. c # NoMatch
      BY NoMatchAssumption
    <3>5. VisitedCorrect'
      BY <2>1, <3>1, <3>3, <3>4 DEF VisitedCorrect, Longest, Candidates, HasPrefix
    <3> QED BY <2>1, <2>2, <3>1, <3>5 DEF LoopInv
  <2>4. CASE ~Improves(c, longestMatchLen)
    <3>1. UNCHANGED <<matchedConfig, longestMatchLen>>
      BY <1>1, <2>4 DEF Visit
    <3>2. CASE matchedConfig = NoMatch
      <4>1. Candidates(S, path) = {} /\ longestMatchLen = 0
        BY <3>2 DEF LoopInv, VisitedCorrect
      <4>2. ~HasPrefix(path, c) \/ Prefix[c] = <<>>
        BY <2>2, <2>4, <4>1, PrefixAssumption DEF Improves
      <4>3. Candidates(S \cup {c}, path) = {}
        BY <4>1, <4>2 DEF Candidates
      <4>4. VisitedCorrect'
        BY <2>1, <3>1, <3>2, <4>1, <4>3 DEF VisitedCorrect, Candidates, HasPrefix
      <4> QED BY <2>1, <3>1, <4>4 DEF LoopInv
    <3>3. CASE matchedConfig # NoMatch
      <4>1. /\ matchedConfig \in Longest(S, path)
            /\ longestMatchLen = Len(Prefix[matchedConfig])
        BY <3>3 DEF LoopInv, VisitedCorrect
      <4>2. matchedConfig \in Longest(S \cup {c}, path)
        BY <2>1, <2>4, <4>1, LongestWhenKept
      <4>3. VisitedCorrect'
        BY <2>1, <3>1, <3>3, <4>1, <4>2 DEF VisitedCorrect, Longest, Candidates, HasPrefix
      <4> QED BY <2>1, <3>1, <4>3 DEF LoopInv
    <3> QED BY <3>2, <3>3
  <2> QED BY <2>3, <2>4
<1>2. ASSUME NEW base \in BasePaths, Direct(base) PROVE LoopInv'
  BY <1>2 DEF Direct, LoopInv, VisitedCorrect, Longest, Candidates, HasPrefix
<1>3. CASE DirectWebSocket \/ UNCHANGED vars
  BY <1>3 DEF DirectWebSocket, vars, LoopInv, VisitedCorrect, Longest, Candidates, HasPrefix
<1> QED BY <1>1, <1>2, <1>3 DEF Next

\* At the end of the loop the part visited is the table.
LEMMA LoopEnds == LoopInv => LookupCorrect
<1> SUFFICES ASSUME LoopInv, todo = {} PROVE matchedConfig \in Lookup(table, path)
  BY DEF LookupCorrect
<1>1. table \ todo = table
  OBVIOUS
<1>2. CASE matchedConfig = NoMatch
  <2>1. Longest(table, path) = {}
    BY <1>1, <1>2 DEF LoopInv, VisitedCorrect, Longest
  <2> QED BY <1>2, <2>1 DEF Lookup
<1>3. CASE matchedConfig # NoMatch
  BY <1>1, <1>3 DEF LoopInv, VisitedCorrect, Lookup
<1> QED BY <1>2, <1>3

\* Whatever the order of the map, the loop returns a longest match or nil.
THEOREM LookupAlwaysCorrect == Spec => []LookupCorrect
BY InitLoopInv, NextLoopInv, LoopEnds, PTL DEF Spec
-----------------------------------------------------------------------------
(* Sequences joined and taken apart                                         *)

\* Behind the first of two joined sequences comes the second.
LEMMA RestOfConcat ==
  ASSUME NEW S, NEW a \in Seq(S), NEW b \in Seq(S)
  PROVE  /\ a \o b \in Seq(S)
         /\ IsPrefix(a, a \o b)
         /\ SubSeq(a \o b, Len(a) + 1, Len(a \o b)) = b
<1>1. /\ Len(a) \in Nat /\ Len(b) \in Nat
      /\ a \o b \in Seq(S) /\ Len(a \o b) = Len(a) + Len(b)
  BY LenProperties, ConcatProperties
<1>2. SubSeq(a \o b, Len(a) + 1, Len(a) + Len(b)) = b
  <2>1. CASE Len(b) = 0
    <3>1. b = <<>>
      BY <2>1, EmptySeq
    <3>2. SubSeq(a \o b, Len(a) + 1, Len(a)) = <<>>
      BY <1>1, SubSeqEmpty
    <3>3. Len(a) + Len(b) = Len(a)
      BY <1>1, <2>1
    <3> QED BY <3>1, <3>2, <3>3
  <2>2. CASE Len(b) # 0
    <3>1. /\ Len(a) + 1 \in (Len(a) + 1)..(Len(a) + Len(b))
          /\ Len(a) + Len(b) \in (Len(a) + 1)..(Len(a) + Len(b))
      BY <1>1, <2>2
    <3>2. SubSeq(a \o b, Len(a) + 1, Len(a) + Len(b))
            = SubSeq(b, (Len(a) + 1) - Len(a), (Len(a) + Len(b)) - Len(a))
      BY <3>1, SubSeqOfConcat2
    <3>3. (Len(a) + 1) - Len(a) = 1 /\ (Len(a) + Len(b)) - Len(a) = Len(b)
      BY <1>1
    <3> QED BY <3>2, <3>3, SubSeqFull
  <2> QED BY <2>1, <2>2
<1>3. IsPrefix(a, a \o b)
  <2>1. SubSeq(a \o b, 1, Len(a)) = SubSeq(a, 1, Len(a))
    <3>1. CASE Len(a) = 0
      BY <3>1, SubSeqEmpty
    <3>2. CASE Len(a) # 0
      <4>1. 1 \in 1..Len(a) /\ Len(a) \in 1..Len(a)
        BY <1>1, <3>2
      <4> QED BY <4>1, SubSeqOfConcat1
    <3> QED BY <3>1, <3>2
  <2> QED BY <1>1, <2>1 DEF IsPrefix
<1> QED BY <1>1, <1>2, <1>3

LEMMA CancelLeft ==
  ASSUME NEW S, NEW a \in Seq(S), NEW b \in Seq(S), NEW c \in Seq(S), a \o b = a \o c
  PROVE  b = c
<1>1. SubSeq(a \o b, Len(a) + 1, Len(a \o b)) = b
  BY RestOfConcat
<1>2. SubSeq(a \o c, Len(a) + 1, Len(a \o c)) = c
  BY RestOfConcat
<1> QED BY <1>1, <1>2
-----------------------------------------------------------------------------
(* The Director                                                             *)

\* A match covers the beginning of a path, and the Director strips just that.
LEMMA MatchCoversPath ==
  ASSUME NEW c \in Configs, NEW p \in Seq(Char), HasPrefix(p, c)
  PROVE  /\ RemainingPath(p, c) \in Seq(Char)
         /\ Prefix[c] \o RemainingPath(p, c) = p
<1> DEFINE n == Len(Prefix[c])
<1>1. Prefix[c] \in Seq(Char) /\ n \in Nat /\ Len(p) \in Nat
  BY PrefixAssumption
<1>2. n <= Len(p) /\ SubSeq(p, 1, n) = Prefix[c]
  BY <1>1, SubSeqFull DEF HasPrefix, IsPrefix
<1>3. SubSeq(p, 1, n) \o SubSeq(p, n + 1, Len(p)) = SubSeq(p, 1, Len(p))
  <2> HIDE DEF n
  <2>1. 1 \in 1..(Len(p) + 1) /\ n \in (1 - 1)..Len(p) /\ Len(p) \in n..Len(p)
    BY <1>1, <1>2
  <2> QED BY <2>1, ConcatAdjacentSubSeq
<1>4. SubSeq(p, n + 1, Len(p)) \in Seq(Char)
  <2>1. \A i \in (n + 1)..Len(p) : p[i] \in Char
    BY <1>1, <1>2
  <2> QED BY <1>1, <2>1, SubSeqProperties
<1> QED BY <1>2, <1>3, <1>4, SubSeqFull DEF RemainingPath

LEMMA SlashBetween ==
  ASSUME ParametersOk, NEW a \in Seq(Char), NEW b \in Seq(Char)
  PROVE  (a \o <<Slash>>) \o b = a \o (<<Slash>> \o b)
<1>1. <<Slash>> \in Seq(Char)
  BY DEF ParametersOk
<1> QED BY <1>1, ConcatAssociative

\* The two forms of a joined path.
LEMMA Joined ==
  ASSUME ParametersOk, NEW base \in Seq(Char), NEW rest \in Seq(Char)
  PROVE  /\ <<Slash>> \o rest \in Seq(Char) /\ HasPrefixSlash(<<Slash>> \o rest)
         /\ NeedsSlash(base, rest) => JoinPath(base, rest) = base \o (<<Slash>> \o rest)
         /\ ~NeedsSlash(base, rest) => JoinPath(base, rest) = base \o rest
<1>1. <<Slash>> \in Seq(Char) /\ Len(<<Slash>>) = 1 /\ Len(rest) \in Nat
  BY DEF ParametersOk
<1>2. <<Slash>> \o rest \in Seq(Char)
  BY <1>1, ConcatProperties
<1>3. (<<Slash>> \o rest)[1] = Slash /\ <<Slash>> \o rest # <<>>
  <2>1. Len(<<Slash>> \o rest) = 1 + Len(rest) /\ 1 \in 1..(1 + Len(rest))
    BY <1>1, ConcatProperties
  <2> QED BY <1>1, <1>2, <2>1, ConcatProperties
<1>4. (base \o <<Slash>>) \o rest = base \o (<<Slash>> \o rest)
  BY SlashBetween
<1> QED BY <1>2, <1>3, <1>4 DEF JoinPath, HasPrefixSlash

\* What is joined to a base path lies below it.
LEMMA JoinIsBelow ==
  ASSUME ParametersOk, NEW base \in Seq(Char), NEW rest \in Seq(Char)
  PROVE  JoinPath(base, rest) \in Seq(Char) /\ Below(base, JoinPath(base, rest))
<1>1. CASE NeedsSlash(base, rest)
  <2> DEFINE r == <<Slash>> \o rest
  <2>1. r \in Seq(Char) /\ HasPrefixSlash(r) /\ JoinPath(base, rest) = base \o r
    BY <1>1, Joined
  <2> HIDE DEF r
  <2> QED BY <2>1, RestOfConcat, ZenonT(30) DEF Below
<1>2. CASE ~NeedsSlash(base, rest)
  <2>1. JoinPath(base, rest) = base \o rest
    BY <1>2, Joined
  <2>2. HasSuffixSlash(base) \/ HasPrefixSlash(rest)
    BY <1>2 DEF NeedsSlash
  <2> QED BY <2>1, <2>2, RestOfConcat, ZenonT(30) DEF Below
<1> QED BY <1>1, <1>2

\* Below one base path, joining conflates no two paths but those that differ by
\* the slash it may add.
LEMMA JoinKeepsApart ==
  ASSUME ParametersOk, NEW base \in Seq(Char), NEW r \in Seq(Char), NEW t \in Seq(Char),
         JoinPath(base, r) = JoinPath(base, t)
  PROVE  r = t \/ r = <<Slash>> \o t \/ t = <<Slash>> \o r
<1> DEFINE rs == IF NeedsSlash(base, r) THEN <<Slash>> \o r ELSE r
           ts == IF NeedsSlash(base, t) THEN <<Slash>> \o t ELSE t
<1>1. /\ rs \in Seq(Char) /\ JoinPath(base, r) = base \o rs
      /\ ts \in Seq(Char) /\ JoinPath(base, t) = base \o ts
  BY Joined
<1>2. rs = ts
  <2> HIDE DEF rs, ts
  <2> QED BY <1>1, CancelLeft
<1>3. CASE NeedsSlash(base, r) /\ NeedsSlash(base, t)
  <2>1. <<Slash>> \in Seq(Char) /\ <<Slash>> \o r = <<Slash>> \o t
    BY <1>2, <1>3 DEF ParametersOk
  <2> QED BY <2>1, CancelLeft
<1> QED BY <1>2, <1>3

\* Behind the loop: the match covers the path, and the target is set last.
CallInv ==
  /\ TypeOK
  /\ path \in Seq(Char)
  /\ matchedConfig # NoMatch => matchedConfig \in Configs /\ HasPrefix(path, matchedConfig)
  /\ targetPath # <<>> => todo = {}
  /\ TargetKeepsPathsApart

LEMMA InitCallInv == ParametersOk /\ Init => CallInv
<1> SUFFICES ASSUME ParametersOk, Init PROVE CallInv
  OBVIOUS
<1>1. path \in Seq(Char) /\ targetPath = <<>> /\ targetPath \in Seq(Char) /\ basePath \in Seq(Char)
  BY DEF Init, ParametersOk
<1> QED BY <1>1 DEF Init, CallInv, TypeOK, TargetKeepsPathsApart

LEMMA VisitCallInv ==
  ASSUME CallInv, NEW c \in Configs, Visit(c)
  PROVE  CallInv'
<1>1. /\ targetPath = <<>> /\ targetPath' = <<>> /\ path' = path /\ basePath' = basePath
      /\ table' = table /\ isWebSocket' = isWebSocket /\ todo' \subseteq table
  BY DEF CallInv, TypeOK, Visit, targetVars
<1>2. Len(Prefix[c]) \in Nat
  BY PrefixAssumption
<1>3. /\ longestMatchLen' \in Nat
      /\ matchedConfig' \in table \cup {NoMatch}
      /\ matchedConfig' # NoMatch => matchedConfig' \in Configs /\ HasPrefix(path, matchedConfig')
  <2>1. CASE Improves(c, longestMatchLen)
    BY <1>2, <2>1 DEF Visit, Improves, CallInv, TypeOK
  <2>2. CASE ~Improves(c, longestMatchLen)
    BY <2>2 DEF Visit, CallInv, TypeOK
  <2> QED BY <2>1, <2>2
<1>4. TypeOK'
  BY <1>1, <1>3 DEF CallInv, TypeOK
<1>5. (matchedConfig # NoMatch => matchedConfig \in Configs /\ HasPrefix(path, matchedConfig))'
  BY <1>1, <1>3 DEF HasPrefix
<1> QED BY <1>1, <1>4, <1>5 DEF CallInv, TargetKeepsPathsApart

LEMMA DirectCallInv ==
  ASSUME ParametersOk, CallInv, NEW base \in BasePaths, Direct(base)
  PROVE  CallInv'
<1> DEFINE c    == matchedConfig
           rest == RemainingPath(path, c)
<1>1. /\ c # NoMatch /\ todo = {} /\ basePath' = base /\ targetPath' = JoinPath(base, rest)
      /\ UNCHANGED <<table, path, todo, longestMatchLen, matchedConfig, isWebSocket>>
  BY DEF Direct, AtEnd
<1>2. c \in Configs /\ rest \in Seq(Char) /\ Prefix[c] \o rest = path /\ Prefix[c] \in Seq(Char)
  BY <1>1, MatchCoversPath, PrefixAssumption DEF CallInv
<1>3. base \in Seq(Char)
  BY DEF ParametersOk
<1>4. targetPath' \in Seq(Char) /\ Below(base, targetPath')
  <2> HIDE DEF rest
  <2> QED BY <1>1, <1>2, <1>3, JoinIsBelow
<1>5. TypeOK'
  BY <1>1, <1>3, <1>4 DEF CallInv, TypeOK
<1>6. ASSUME NEW p \in Paths, HasPrefix(p, c), JoinPath(base, RemainingPath(p, c)) = targetPath'
      PROVE  p = path \/ p = WithSlash(path, c) \/ path = WithSlash(p, c)
  <2> DEFINE r == RemainingPath(p, c)
  <2>1. p \in Seq(Char)
    BY DEF ParametersOk
  <2>2. r \in Seq(Char) /\ Prefix[c] \o r = p
    BY <1>2, <1>6, <2>1, MatchCoversPath
  <2>3. r = rest \/ r = <<Slash>> \o rest \/ rest = <<Slash>> \o r
    <3> HIDE DEF r, rest
    <3> QED BY <1>1, <1>2, <1>3, <1>6, <2>2, JoinKeepsApart DEF r
  <2>4. /\ (Prefix[c] \o <<Slash>>) \o rest = Prefix[c] \o (<<Slash>> \o rest)
        /\ (Prefix[c] \o <<Slash>>) \o r = Prefix[c] \o (<<Slash>> \o r)
    <3>1. Prefix[c] \in Seq(Char) /\ rest \in Seq(Char) /\ r \in Seq(Char)
      BY <1>2, <2>2
    <3> HIDE DEF r, rest, c
    <3> QED BY <3>1, SlashBetween
  <2>5. WithSlash(path, c) = Prefix[c] \o (<<Slash>> \o rest)
        /\ WithSlash(p, c) = Prefix[c] \o (<<Slash>> \o r)
    BY <2>4 DEF WithSlash
  <2> HIDE DEF r, rest
  <2> QED BY <1>2, <2>2, <2>3, <2>5
<1>7. TargetKeepsPathsApart'
  <2> SUFFICES
        /\ Below(basePath', targetPath')
        /\ \A p \in Paths :
             HasPrefix(p, c) /\ JoinPath(basePath', RemainingPath(p, c)) = targetPath'
             => p = path \/ p = WithSlash(path, c) \/ path = WithSlash(p, c)
    BY <1>1 DEF TargetKeepsPathsApart, HasPrefix, RemainingPath, WithSlash, JoinPath,
                NeedsSlash, Below, HasSuffixSlash, HasPrefixSlash
  <2> HIDE DEF c
  <2> QED BY <1>1, <1>4, <1>6
<1>8. (matchedConfig # NoMatch => matchedConfig \in Configs /\ HasPrefix(path, matchedConfig))'
  BY <1>1 DEF CallInv, HasPrefix
<1> QED BY <1>1, <1>5, <1>7, <1>8 DEF CallInv

LEMMA NextCallInv == ParametersOk /\ CallInv /\ [Next]_vars => CallInv'
<1> SUFFICES ASSUME ParametersOk, CallInv, [Next]_vars PROVE CallInv'
  OBVIOUS
<1>1. ASSUME NEW c \in Configs, Visit(c) PROVE CallInv'
  BY <1>1, VisitCallInv
<1>2. ASSUME NEW base \in BasePaths, Direct(base) PROVE CallInv'
  BY <1>2, DirectCallInv
<1>3. CASE DirectWebSocket
  <2>1. /\ targetPath' = path /\ todo = {} /\ Upgraded'
        /\ UNCHANGED <<table, path, todo, longestMatchLen, matchedConfig, isWebSocket, basePath>>
    BY <1>3 DEF DirectWebSocket, AtEnd, Upgraded
  <2> QED BY <2>1 DEF CallInv, TypeOK, TargetKeepsPathsApart, HasPrefix
<1>4. CASE UNCHANGED vars
  <2>1. TargetKeepsPathsApart'
    BY <1>4 DEF vars, targetVars, CallInv, TargetKeepsPathsApart, Upgraded, RemainingPath, WithSlash
  <2> QED BY <1>4, <2>1 DEF vars, targetVars, CallInv, TypeOK, HasPrefix
<1> QED BY <1>1, <1>2, <1>3, <1>4 DEF Next

LEMMA AlwaysCallInv == ASSUME ParametersOk PROVE Spec => []CallInv
BY InitCallInv, NextCallInv, PTL DEF Spec

\* Every variable of a call keeps its type: the match is always a config of the
\* table the loop ranges over, and the target is a path.
THEOREM TypeCorrect == ASSUME ParametersOk PROVE Spec => []TypeOK
BY AlwaysCallInv, PTL DEF CallInv

\* For every set of prefixes, paths and base paths: what the Director asks of an
\* endpoint lies below its base path, and two paths of one route become one path of
\* the endpoint only if they differ by a slash behind the prefix.
THEOREM TargetAlwaysKeepsPathsApart ==
  ASSUME ParametersOk PROVE Spec => []TargetKeepsPathsApart
BY AlwaysCallInv, PTL DEF CallInv
=============================================================================
