------------------------- MODULE HealthCheckProofs -------------------------
(***************************************************************************)
(* Theorems about HealthCheck, for any configs, URLs and rows: duplicated  *)
(* and malformed URLs, failing databases and crashes included.             *)
(***************************************************************************)
EXTENDS HealthCheck, FiniteSetTheorems, WellFoundedInduction, TLAPS

\* The parsed endpoints of c that the round has offered to the history.
Offered(c) ==
  {i \in Slots(c) : /\ Parsed(c, i)
                    /\ i < slot[c] \/ (i = slot[c] /\ phase[c] = "persist")}

\* What holds of the checkBackend goroutine of c at each of its steps.
Loop(c) ==
  /\ phase[c] # "done" => c \in round
  /\ c \in round => /\ slot[c] >= 1
                    /\ history[c] = Cardinality(Offered(c))
                    /\ phase[c] = "done" => slot[c] \notin Slots(c)
  /\ phase[c] \in {"write", "save", "persist"} =>
       slot[c] \in Slots(c) /\ Parsed(c, slot[c])
  /\ phase[c] \in {"save", "persist"} => IsHealthy[c][slot[c]] = verdict[c]

DownIsEmpty == ~up => table = {} /\ round = {}

IInv ==
  /\ TypeOK
  /\ DownIsEmpty
  /\ \A c \in Configs : Loop(c)
  /\ UnparsedNeverHealthy

\* Slots are 1..n for a natural n.
LEMMA SlotsType ==
  ASSUME NEW c \in Configs
  PROVE  /\ Len(EndpointUrl[c]) \in Nat
         /\ IsFiniteSet(Slots(c))
         /\ Cardinality(Slots(c)) = Len(EndpointUrl[c])
<1>1. Len(EndpointUrl[c]) \in Nat
  BY EndpointAssumption
<1> QED BY <1>1, FS_Interval, SMTT(30) DEF Slots

\* A part of the slots has at most as many members as there are slots.
LEMMA PartOfSlots ==
  ASSUME NEW c \in Configs, NEW S \in SUBSET Slots(c)
  PROVE  /\ IsFiniteSet(S)
         /\ Cardinality(S) \in 0..Len(EndpointUrl[c])
<1>1. IsFiniteSet(S) /\ Cardinality(S) <= Len(EndpointUrl[c])
  BY SlotsType, FS_Subset
<1> QED BY <1>1, SlotsType, FS_CardinalityType

\* A set of naturals that is not empty has a least member.
LEMMA LeastExists ==
  ASSUME NEW S \in SUBSET Nat, S # {}
  PROVE  \E j \in S : \A k \in S : j <= k
<1> DEFINE Less == OpToRel(<, Nat)
<1>1. PICK j \in S : \A k \in S : <<k, j>> \notin Less
  <2>1. IsWellFoundedOn(Less, Nat)
    BY NatLessThanWellFounded
  <2> HIDE DEF Less
  <2> QED BY <2>1, WFMin
<1>2. ASSUME NEW k \in S PROVE j <= k
  <2>1. ~(k < j)
    BY <1>1 DEF OpToRel
  <2> QED BY <2>1
<1> QED BY <1>2

\* The first endpoint with a URL exists and has that URL.
LEMMA TargetHasUrl ==
  ASSUME NEW c \in Configs, slot[c] \in Slots(c)
  PROVE  Target(c) \in SameUrl(c, slot[c])
<1> DEFINE S == SameUrl(c, slot[c])
<1>1. S \in SUBSET Nat /\ S # {}
  BY SlotsType DEF SameUrl, Slots
<1>2. \E j \in S : \A k \in S : j <= k
  BY <1>1, LeastExists
<1> QED BY <1>2 DEF Target
-----------------------------------------------------------------------------
LEMMA InitIInv == Init => IInv
<1> SUFFICES ASSUME Init PROVE IInv
  OBVIOUS
<1>1. TypeOK
  <2>1. \A c \in Configs : {rows[c], IsHealthy[c]} \subseteq [Slots(c) -> BOOLEAN]
    BY DEF Init, Constantly
  <2>2. /\ DOMAIN rows = Configs /\ DOMAIN IsHealthy = Configs
        /\ DOMAIN slot = Configs /\ DOMAIN history = Configs
    BY DEF Init, Constantly
  <2>3. \A c \in Configs : slot[c] \in 0..(Len(EndpointUrl[c]) + 1)
                        /\ history[c] \in 0..Len(EndpointUrl[c])
    BY SlotsType DEF Init
  <2>4. /\ up \in BOOLEAN /\ tick \in BOOLEAN
        /\ responsive \in [Parseable -> BOOLEAN]
    BY Zenon DEF Init
  <2>7. crashes \in 0..MaxCrashes
    BY BoundAssumption DEF Init
  <2>5. round \subseteq table /\ table \subseteq stored /\ stored \subseteq Configs
    BY SubsetAssumption DEF Init
  <2>6. /\ phase \in [Configs -> {"get", "write", "save", "persist", "done"}]
        /\ verdict \in [Configs -> BOOLEAN]
    BY DEF Init
  <2> QED BY <2>1, <2>2, <2>3, <2>4, <2>5, <2>6, <2>7 DEF TypeOK
<1>2. DownIsEmpty /\ UnparsedNeverHealthy
  BY DEF Init, DownIsEmpty, UnparsedNeverHealthy
<1>3. \A c \in Configs : Loop(c)
  BY DEF Init, Loop
<1> QED BY <1>1, <1>2, <1>3 DEF IInv

\* A goroutine that no step of another part touches keeps its invariant.
LEMMA LoopKept ==
  ASSUME NEW c \in Configs, Loop(c),
         round' = round, slot'[c] = slot[c], phase'[c] = phase[c],
         verdict'[c] = verdict[c], history'[c] = history[c],
         phase[c] # "done" => IsHealthy'[c] = IsHealthy[c]
  PROVE  Loop(c)'
<1>1. Offered(c)' = Offered(c)
  BY DEF Offered
<1>2. phase[c] \in {"save", "persist"} => IsHealthy'[c][slot'[c]] = verdict'[c]
  BY DEF Loop
<1>3. c \in round' => /\ slot'[c] >= 1
                      /\ history'[c] = Cardinality(Offered(c)')
                      /\ phase'[c] = "done" => slot'[c] \notin Slots(c)
  BY <1>1 DEF Loop
<1>4. phase'[c] \in {"write", "save", "persist"} =>
        slot'[c] \in Slots(c) /\ Parsed(c, slot'[c])
  BY DEF Loop
<1> QED BY <1>2, <1>3, <1>4 DEF Loop

\* The steps outside the loops of checkBackend.
LEMMA FlipInv ==
  ASSUME IInv, NEW u \in Parseable, Flip(u)
  PROVE  IInv'
<1>1. \A c \in Configs : Loop(c)'
  BY LoopKept DEF IInv, Flip, procVars
<1>2. TypeOK'
  BY DEF IInv, TypeOK, Flip, procVars
<1>3. DownIsEmpty' /\ UnparsedNeverHealthy'
  BY DEF IInv, DownIsEmpty, UnparsedNeverHealthy, Flip, procVars
<1> QED BY <1>1, <1>2, <1>3 DEF IInv

LEMMA CreateInv ==
  ASSUME IInv, NEW c \in Configs, Create(c)
  PROVE  IInv'
<1> USE DEF IInv
<1>1. c \notin round /\ c \notin stored /\ up
  BY DEF Create, TypeOK
<1>2. phase[c] = "done"
  BY <1>1 DEF Loop
<1>3. \A d \in Configs : Loop(d)'
  <2> TAKE d \in Configs
  <2>1. phase[d] # "done" => IsHealthy'[d] = IsHealthy[d]
    BY <1>2 DEF Create, TypeOK
  <2> QED BY <2>1, LoopKept DEF Create, procVars
<1>4. TypeOK'
  <2>1. [i \in Slots(c) |-> Default(FALSE)] \in [Slots(c) -> BOOLEAN]
    BY DEF Default
  <2>2. /\ DOMAIN rows' = Configs /\ DOMAIN IsHealthy' = Configs
        /\ \A d \in Configs : {rows'[d], IsHealthy'[d]} \subseteq [Slots(d) -> BOOLEAN]
    BY <2>1 DEF Create, TypeOK
  <2>3. round' \subseteq table' /\ table' \subseteq stored' /\ stored' \subseteq Configs
    BY DEF Create, TypeOK, procVars
  <2> QED BY <2>2, <2>3 DEF Create, TypeOK, procVars
<1>5. UnparsedNeverHealthy'
  <2> SUFFICES ASSUME NEW d \in table', NEW i \in Slots(d), IsHealthy'[d][i]
               PROVE  Parsed(d, i)
    BY DEF UnparsedNeverHealthy
  <2>1. CASE d = c
    BY <2>1 DEF Create, Creatable
  <2>2. CASE d # c
    <3>1. d \in table /\ IsHealthy'[d] = IsHealthy[d]
      BY <2>2 DEF Create, TypeOK
    <3> QED BY <3>1 DEF UnparsedNeverHealthy
  <2> QED BY <2>1, <2>2
<1>6. DownIsEmpty'
  BY <1>1 DEF DownIsEmpty, Create
<1> QED BY <1>3, <1>4, <1>5, <1>6

LEMMA TickInv ==
  ASSUME IInv, TickerFires \/ EndRound
  PROVE  IInv'
<1> USE DEF IInv
<1>1. TypeOK'
  BY DEF TypeOK, TickerFires, EndRound
<1>2. DownIsEmpty' /\ UnparsedNeverHealthy'
  BY DEF DownIsEmpty, UnparsedNeverHealthy, TickerFires, EndRound
<1>3. ASSUME NEW c \in Configs PROVE Loop(c)'
  <2>1. CASE TickerFires
    BY <2>1, LoopKept DEF TickerFires
  <2>2. CASE EndRound
    <3>1. phase[c] = "done" /\ phase'[c] = "done" /\ round' = {}
      BY <2>2 DEF EndRound, Loop
    <3> QED BY <3>1 DEF Loop
  <2> QED BY <2>1, <2>2
<1> QED BY <1>1, <1>2, <1>3

LEMMA StartRoundInv ==
  ASSUME IInv, StartRound
  PROVE  IInv'
<1> USE DEF IInv
<1>1. ASSUME NEW c \in Configs
      PROVE  /\ slot'[c] = IF c \in table THEN 1 ELSE 0
             /\ phase'[c] = IF c \in table THEN "get" ELSE "done"
             /\ history'[c] = 0
  BY DEF StartRound
<1>2. TypeOK'
  <2>1. \A c \in Configs : /\ slot'[c] \in 0..(Len(EndpointUrl[c]) + 1)
                           /\ history'[c] \in 0..Len(EndpointUrl[c])
    BY <1>1, SlotsType
  <2>2. phase' \in [Configs -> {"get", "write", "save", "persist", "done"}]
    BY DEF StartRound
  <2> QED BY <2>1, <2>2 DEF TypeOK, StartRound
<1>3. DownIsEmpty' /\ UnparsedNeverHealthy'
  BY DEF DownIsEmpty, UnparsedNeverHealthy, StartRound
<1>4. ASSUME NEW c \in Configs PROVE Loop(c)'
  <2>1. CASE c \in table
    <3>1. phase'[c] = "get" /\ slot'[c] = 1 /\ history'[c] = 0 /\ round' = table
      BY <1>1, <2>1 DEF StartRound
    <3>2. Offered(c)' = {}
      BY <3>1 DEF Offered, Slots
    <3>3. Cardinality(Offered(c)') = 0
      BY <3>2, FS_EmptySet
    <3> QED BY <2>1, <3>1, <3>3 DEF Loop
  <2>2. CASE c \notin table
    BY <1>1, <2>2 DEF Loop, StartRound
  <2> QED BY <2>1, <2>2
<1> QED BY <1>2, <1>3, <1>4

\* A step of the goroutine of c at one endpoint leaves all other goroutines alone.
LEMMA OthersKept ==
  ASSUME IInv, NEW c \in Configs, CheckStep(c), NEW d \in Configs, d # c
  PROVE  Loop(d)'
<1>1. /\ slot'[d] = slot[d] /\ phase'[d] = phase[d] /\ verdict'[d] = verdict[d]
      /\ history'[d] = history[d] /\ round' = round
  BY DEF CheckStep, Finish, SkipUnparsed, Probe, WriteHealth, SaveHistory,
         PersistHealth, NextSlot, IInv, TypeOK
<1>2. IsHealthy'[d] = IsHealthy[d]
  BY DEF CheckStep, Finish, SkipUnparsed, Probe, WriteHealth, SaveHistory,
         PersistHealth, NextSlot, IInv, TypeOK
<1>3. Loop(d)
  BY DEF IInv
<1> QED BY <1>1, <1>2, <1>3, LoopKept

LEMMA FinishInv ==
  ASSUME IInv, NEW c \in Configs, Finish(c)
  PROVE  IInv'
<1> USE DEF IInv
<1>1. phase'[c] = "done" /\ phase[c] = "get" /\ UNCHANGED <<slot, round, history>>
  BY DEF Finish, TypeOK
<1>2. Offered(c)' = Offered(c)
  BY <1>1 DEF Offered
<1>3. Loop(c)'
  <2>1. c \in round' => /\ slot'[c] >= 1
                        /\ history'[c] = Cardinality(Offered(c)')
                        /\ slot'[c] \notin Slots(c)
    BY <1>1, <1>2 DEF Loop, Finish
  <2> QED BY <1>1, <2>1 DEF Loop
<1>4. TypeOK'
  BY DEF Finish, TypeOK
<1>5. DownIsEmpty' /\ UnparsedNeverHealthy'
  BY DEF Finish, DownIsEmpty, UnparsedNeverHealthy
<1> QED BY <1>3, <1>4, <1>5, OthersKept DEF CheckStep

LEMMA SkipInv ==
  ASSUME IInv, NEW c \in Configs, SkipUnparsed(c)
  PROVE  IInv'
<1> USE DEF IInv
<1>1. /\ phase[c] = "get" /\ phase'[c] = "get" /\ slot'[c] = slot[c] + 1
      /\ slot[c] \in Slots(c) /\ ~Parsed(c, slot[c]) /\ UNCHANGED <<round, history>>
  BY DEF SkipUnparsed, NextSlot, At, TypeOK
<1>2. slot[c] \in Nat /\ Len(EndpointUrl[c]) \in Nat /\ slot[c] <= Len(EndpointUrl[c])
  BY <1>1, SlotsType DEF Slots
<1>3. Offered(c)' = Offered(c)
  <2>1. \A i \in Slots(c) : Parsed(c, i) => (i < slot[c] + 1 <=> i < slot[c])
    BY <1>1, <1>2 DEF Slots
  <2> QED BY <1>1, <2>1 DEF Offered
<1>4. Loop(c)'
  <2>1. c \in round' => slot'[c] >= 1 /\ history'[c] = Cardinality(Offered(c)')
    BY <1>1, <1>2, <1>3 DEF Loop
  <2>2. phase[c] # "done" /\ c \in round'
    BY <1>1 DEF Loop
  <2> QED BY <1>1, <2>1, <2>2 DEF Loop
<1>5. TypeOK'
  <2>1. \A d \in Configs : slot'[d] \in 0..(Len(EndpointUrl[d]) + 1)
    BY <1>2 DEF SkipUnparsed, NextSlot, TypeOK
  <2> QED BY <2>1 DEF SkipUnparsed, NextSlot, TypeOK
<1>6. DownIsEmpty' /\ UnparsedNeverHealthy'
  BY DEF SkipUnparsed, DownIsEmpty, UnparsedNeverHealthy
<1> QED BY <1>4, <1>5, <1>6, OthersKept DEF CheckStep

LEMMA ProbeInv ==
  ASSUME IInv, NEW c \in Configs, Probe(c)
  PROVE  IInv'
<1> USE DEF IInv
<1>1. /\ phase[c] = "get" /\ phase'[c] = "write"
      /\ slot[c] \in Slots(c) /\ Parsed(c, slot[c])
      /\ UNCHANGED <<slot, round, history>>
  BY DEF Probe, At, TypeOK
<1>2. Offered(c)' = Offered(c)
  BY <1>1 DEF Offered
<1>3. Loop(c)'
  <2>1. c \in round' /\ slot'[c] >= 1 /\ history'[c] = Cardinality(Offered(c)')
    BY <1>1, <1>2 DEF Loop
  <2> QED BY <1>1, <2>1 DEF Loop
<1>4. TypeOK'
  <2>1. responsive[EndpointUrl[c][slot[c]]] \in BOOLEAN
    BY <1>1 DEF TypeOK, Parsed
  <2>2. verdict' \in [Configs -> BOOLEAN]
    BY <2>1 DEF Probe, TypeOK
  <2> QED BY <2>2 DEF Probe, TypeOK
<1>5. DownIsEmpty' /\ UnparsedNeverHealthy'
  BY DEF Probe, DownIsEmpty, UnparsedNeverHealthy
<1> QED BY <1>3, <1>4, <1>5, OthersKept DEF CheckStep

LEMMA WriteInv ==
  ASSUME IInv, NEW c \in Configs, WriteHealth(c)
  PROVE  IInv'
<1> USE DEF IInv
<1>1. /\ phase[c] = "write" /\ phase'[c] = "save"
      /\ slot[c] \in Slots(c) /\ Parsed(c, slot[c])
      /\ UNCHANGED <<slot, round, history, verdict, table, up>>
  BY DEF WriteHealth, At, TypeOK, Loop
<1>2. Offered(c)' = Offered(c)
  BY <1>1 DEF Offered
<1>3. /\ IsHealthy'[c][slot[c]] = verdict[c] /\ verdict[c] \in BOOLEAN
      /\ \A d \in Configs : \A i \in Slots(d) :
           d # c \/ i # slot[c] => IsHealthy'[d][i] = IsHealthy[d][i]
      /\ \A d \in Configs : IsHealthy'[d] \in [Slots(d) -> BOOLEAN]
  BY <1>1 DEF WriteHealth, TypeOK
<1>4. Loop(c)'
  <2>1. c \in round' /\ slot'[c] >= 1 /\ history'[c] = Cardinality(Offered(c)')
    BY <1>1, <1>2 DEF Loop
  <2>2. IsHealthy'[c][slot'[c]] = verdict'[c]
    BY <1>1, <1>3
  <2> QED BY <1>1, <2>1, <2>2 DEF Loop
<1>5. TypeOK'
  <2>1. /\ DOMAIN rows' = Configs /\ DOMAIN IsHealthy' = Configs
        /\ \A d \in Configs : {rows'[d], IsHealthy'[d]} \subseteq [Slots(d) -> BOOLEAN]
    BY <1>3 DEF WriteHealth, TypeOK
  <2> QED BY <2>1 DEF WriteHealth, TypeOK
<1>6. UnparsedNeverHealthy'
  <2> SUFFICES ASSUME NEW d \in table, NEW i \in Slots(d), IsHealthy'[d][i]
               PROVE  Parsed(d, i)
    BY <1>1 DEF UnparsedNeverHealthy
  <2>1. d \in Configs
    BY DEF TypeOK
  <2> QED BY <1>1, <1>3, <2>1 DEF UnparsedNeverHealthy
<1>7. DownIsEmpty'
  BY <1>1 DEF DownIsEmpty
<1> QED BY <1>4, <1>5, <1>6, <1>7, OthersKept DEF CheckStep

LEMMA SaveInv ==
  ASSUME IInv, NEW c \in Configs, SaveHistory(c)
  PROVE  IInv'
<1> USE DEF IInv
<1>1. /\ phase[c] = "save" /\ phase'[c] = "persist"
      /\ slot[c] \in Slots(c) /\ Parsed(c, slot[c]) /\ c \in round
      /\ history'[c] = history[c] + 1
      /\ UNCHANGED <<slot, round, verdict, table, up, IsHealthy>>
  BY DEF SaveHistory, At, TypeOK, Loop
<1>2. /\ Offered(c)' = Offered(c) \cup {slot[c]} /\ slot[c] \notin Offered(c)
      /\ Offered(c) \in SUBSET Slots(c) /\ Offered(c)' \in SUBSET Slots(c)
  <2>1. slot[c] \in Nat
    BY <1>1, SlotsType DEF Slots
  <2> QED BY <1>1, <2>1 DEF Offered
<1>3. Cardinality(Offered(c)') = Cardinality(Offered(c)) + 1
  <2>1. IsFiniteSet(Offered(c))
    BY <1>2, PartOfSlots
  <2> QED BY <1>2, <2>1, FS_AddElement
<1>4. history'[c] = Cardinality(Offered(c)') /\ history'[c] \in 0..Len(EndpointUrl[c])
  <2>1. history[c] = Cardinality(Offered(c))
    BY <1>1 DEF Loop
  <2>2. Cardinality(Offered(c)') \in 0..Len(EndpointUrl[c])
    BY <1>2, PartOfSlots
  <2> QED BY <1>1, <1>3, <2>1, <2>2
<1>5. Loop(c)'
  <2>1. slot'[c] >= 1 /\ IsHealthy'[c][slot'[c]] = verdict'[c]
    BY <1>1 DEF Loop
  <2> QED BY <1>1, <1>4, <2>1 DEF Loop
<1>6. TypeOK'
  <2>1. \A d \in Configs : history'[d] \in 0..Len(EndpointUrl[d])
    BY <1>4 DEF SaveHistory, TypeOK
  <2> QED BY <2>1 DEF SaveHistory, TypeOK
<1>7. DownIsEmpty' /\ UnparsedNeverHealthy'
  BY <1>1 DEF DownIsEmpty, UnparsedNeverHealthy
<1> QED BY <1>5, <1>6, <1>7, OthersKept DEF CheckStep

\* What SetHealthStatus changes: at most the first endpoint with the same URL in
\* memory, and rows only when that is another endpoint.
LEMMA PersistEffect ==
  ASSUME IInv, NEW c \in Configs, PersistHealth(c)
  PROVE  /\ Target(c) \in SameUrl(c, slot[c])
         /\ \A d \in Configs : /\ IsHealthy'[d] \in [Slots(d) -> BOOLEAN]
                               /\ rows'[d] \in [Slots(d) -> BOOLEAN]
         /\ \A d \in Configs : \A i \in Slots(d) :
              d # c \/ i # Target(c) => IsHealthy'[d][i] = IsHealthy[d][i]
         /\ \A d \in Configs : \A i \in Slots(d) :
              rows'[d][i] # rows[d][i] =>
                d = c /\ i \in SameUrl(c, Target(c)) /\ Target(c) # slot[c]
         /\ DOMAIN IsHealthy' = Configs /\ DOMAIN rows' = Configs
<1> USE DEF IInv
<1>1. /\ Target(c) \in SameUrl(c, slot[c]) /\ Target(c) \in Slots(c)
      /\ verdict[c] \in BOOLEAN
  BY TargetHasUrl DEF PersistHealth, At, SameUrl, TypeOK
<1>2. IsHealthy[c][slot[c]] = verdict[c]
  BY DEF PersistHealth, At, Loop
<1> DEFINE t == Target(c)
<1> DEFINE new == [i \in Slots(c) |-> IF i \in SameUrl(c, t) THEN verdict[c] ELSE rows[c][i]]
<1>3. new \in [Slots(c) -> BOOLEAN]
  BY <1>1 DEF TypeOK
<1> HIDE DEF t
<1>4. CASE IsHealthy[c][t] = verdict[c]
  <2>1. UNCHANGED <<IsHealthy, rows>>
    BY <1>4 DEF PersistHealth, t
  <2> QED BY <1>1, <2>1 DEF TypeOK
<1>5. CASE IsHealthy[c][t] # verdict[c]
  <2>1. t # slot[c] /\ t \in Slots(c)
    BY <1>1, <1>2, <1>5 DEF t
  <2>2. /\ IsHealthy' = [IsHealthy EXCEPT ![c][t] = verdict[c]]
        /\ rows' = rows \/ rows' = [rows EXCEPT ![c] = new]
    BY <1>5 DEF PersistHealth, t
  <2>3. /\ \A d \in Configs : IsHealthy'[d] \in [Slots(d) -> BOOLEAN]
        /\ \A d \in Configs : \A i \in Slots(d) :
             d # c \/ i # t => IsHealthy'[d][i] = IsHealthy[d][i]
        /\ DOMAIN IsHealthy' = Configs
    BY <1>1, <2>1, <2>2 DEF TypeOK
  <2>4. /\ \A d \in Configs : rows'[d] \in [Slots(d) -> BOOLEAN]
        /\ \A d \in Configs : \A i \in Slots(d) :
             rows'[d][i] # rows[d][i] => d = c /\ i \in SameUrl(c, t)
        /\ DOMAIN rows' = Configs
    <3> HIDE DEF new
    <3>1. \A i \in Slots(c) : i \notin SameUrl(c, t) => new[i] = rows[c][i]
      BY DEF new
    <3> QED BY <1>3, <2>2, <3>1 DEF TypeOK
  <2> QED BY <1>1, <2>1, <2>3, <2>4 DEF t
<1> QED BY <1>4, <1>5

LEMMA PersistInv ==
  ASSUME IInv, NEW c \in Configs, PersistHealth(c)
  PROVE  IInv'
<1> USE DEF IInv
<1>1. /\ phase[c] = "persist" /\ phase'[c] = "get" /\ slot'[c] = slot[c] + 1
      /\ slot[c] \in Slots(c) /\ Parsed(c, slot[c]) /\ c \in round
      /\ UNCHANGED <<round, history, verdict, table, up>>
  BY DEF PersistHealth, NextSlot, At, TypeOK, Loop
<1>2. slot[c] \in Nat /\ Len(EndpointUrl[c]) \in Nat /\ slot[c] <= Len(EndpointUrl[c])
  BY <1>1, SlotsType DEF Slots
<1>3. Offered(c)' = Offered(c)
  <2>1. \A i \in Slots(c) : i < slot[c] + 1 <=> i < slot[c] \/ i = slot[c]
    BY <1>2 DEF Slots
  <2> QED BY <1>1, <2>1 DEF Offered
<1>4. Loop(c)'
  <2>1. slot'[c] >= 1 /\ history'[c] = Cardinality(Offered(c)')
    BY <1>1, <1>2, <1>3 DEF Loop
  <2> QED BY <1>1, <2>1 DEF Loop
<1>5. TypeOK'
  <2>1. \A d \in Configs : slot'[d] \in 0..(Len(EndpointUrl[d]) + 1)
    BY <1>2 DEF PersistHealth, NextSlot, TypeOK
  <2>2. /\ DOMAIN rows' = Configs /\ DOMAIN IsHealthy' = Configs
        /\ \A d \in Configs : {rows'[d], IsHealthy'[d]} \subseteq [Slots(d) -> BOOLEAN]
    BY PersistEffect
  <2>3. DOMAIN slot' = Configs /\ phase' \in [Configs -> {"get", "write", "save", "persist", "done"}]
    BY DEF PersistHealth, NextSlot, TypeOK
  <2> QED BY <2>1, <2>2, <2>3 DEF PersistHealth, TypeOK
<1>6. UnparsedNeverHealthy'
  <2> SUFFICES ASSUME NEW d \in table, NEW i \in Slots(d), IsHealthy'[d][i]
               PROVE  Parsed(d, i)
    BY <1>1 DEF UnparsedNeverHealthy
  <2>1. d \in Configs
    BY DEF TypeOK
  <2>2. CASE d = c /\ i = Target(c)
    BY <1>1, <2>2, PersistEffect DEF SameUrl, Parsed
  <2>3. CASE ~(d = c /\ i = Target(c))
    BY <2>1, <2>3, PersistEffect DEF UnparsedNeverHealthy
  <2> QED BY <2>2, <2>3
<1>7. DownIsEmpty'
  BY <1>1 DEF DownIsEmpty
<1> QED BY <1>4, <1>5, <1>6, <1>7, OthersKept DEF CheckStep

LEMMA CrashInv ==
  ASSUME IInv, Crash
  PROVE  IInv'
<1> USE DEF IInv
<1>1. ASSUME NEW c \in Configs
      PROVE  /\ slot'[c] = 0 /\ phase'[c] = "done" /\ history'[c] = 0
             /\ IsHealthy'[c] \in [Slots(c) -> BOOLEAN]
  BY DEF Crash, Constantly
<1>2. TypeOK'
  <2>1. \A c \in Configs : /\ slot'[c] \in 0..(Len(EndpointUrl[c]) + 1)
                           /\ history'[c] \in 0..Len(EndpointUrl[c])
    BY <1>1, SlotsType
  <2>4. \A c \in Configs : {rows'[c], IsHealthy'[c]} \subseteq [Slots(c) -> BOOLEAN]
    BY <1>1 DEF Crash, TypeOK
  <2>2. /\ DOMAIN rows' = Configs /\ DOMAIN IsHealthy' = Configs
        /\ DOMAIN slot' = Configs /\ DOMAIN history' = Configs
        /\ phase' \in [Configs -> {"get", "write", "save", "persist", "done"}]
        /\ verdict' \in [Configs -> BOOLEAN]
    BY DEF Crash, Constantly, TypeOK
  <2>3. crashes' \in 0..MaxCrashes
    BY BoundAssumption DEF Crash, TypeOK
  <2> QED BY <2>1, <2>2, <2>3, <2>4 DEF Crash, TypeOK
<1>3. \A c \in Configs : Loop(c)'
  BY <1>1 DEF Loop, Crash
<1>4. DownIsEmpty' /\ UnparsedNeverHealthy'
  BY DEF Crash, DownIsEmpty, UnparsedNeverHealthy
<1> QED BY <1>2, <1>3, <1>4

LEMMA BootInv ==
  ASSUME IInv, Boot \/ BootEmpty
  PROVE  IInv'
<1> USE DEF IInv
<1>1. CASE Boot
  <2>1. round = {} /\ round' = {} /\ \A c \in Configs : phase[c] = "done"
    BY <1>1 DEF Boot, procVars, DownIsEmpty, Loop
  <2>2. \A c \in stored : /\ c \in Configs /\ Loaded(c) \in [Slots(c) -> BOOLEAN]
                          /\ \A i \in Slots(c) : Loaded(c)[i] => Parsed(c, i)
    BY DEF Loaded, TypeOK, Parsed
  <2>3. \A c \in Configs : IsHealthy'[c] = IF c \in stored THEN Loaded(c) ELSE IsHealthy[c]
    BY <1>1 DEF Boot
  <2>4. TypeOK'
    <3>1. /\ DOMAIN rows' = Configs /\ DOMAIN IsHealthy' = Configs
          /\ \A c \in Configs : {rows'[c], IsHealthy'[c]} \subseteq [Slots(c) -> BOOLEAN]
      BY <1>1, <2>2, <2>3 DEF Boot, TypeOK
    <3> QED BY <1>1, <2>1, <3>1 DEF Boot, TypeOK, procVars
  <2>5. UnparsedNeverHealthy'
    BY <1>1, <2>2, <2>3 DEF Boot, UnparsedNeverHealthy
  <2>6. \A c \in Configs : Loop(c)'
    BY <1>1, <2>1, LoopKept DEF Boot, procVars
  <2> QED BY <1>1, <2>4, <2>5, <2>6 DEF Boot, DownIsEmpty
<1>2. CASE BootEmpty
  <2>1. \A c \in Configs : Loop(c)'
    BY <1>2, LoopKept DEF BootEmpty, procVars
  <2>2. TypeOK' /\ DownIsEmpty' /\ UnparsedNeverHealthy'
    BY <1>2 DEF BootEmpty, procVars, TypeOK, DownIsEmpty, UnparsedNeverHealthy
  <2> QED BY <2>1, <2>2
<1> QED BY <1>1, <1>2

LEMMA NextIInv == IInv /\ [Next]_vars => IInv'
<1> SUFFICES ASSUME IInv, [Next]_vars PROVE IInv'
  OBVIOUS
<1>1. ASSUME NEW u \in Parseable, Flip(u) PROVE IInv'
  BY <1>1, FlipInv
<1>2. ASSUME NEW c \in Configs, Create(c) PROVE IInv'
  BY <1>2, CreateInv
<1>3. ASSUME NEW c \in Configs, CheckStep(c) PROVE IInv'
  BY <1>3, FinishInv, SkipInv, ProbeInv, WriteInv, SaveInv, PersistInv DEF CheckStep
<1>4. CASE TickerFires \/ EndRound
  BY <1>4, TickInv
<1>5. CASE StartRound
  BY <1>5, StartRoundInv
<1>6. CASE Crash
  BY <1>6, CrashInv
<1>7. CASE Boot \/ BootEmpty
  BY <1>7, BootInv
<1>8. CASE UNCHANGED vars
  <2>1. \A c \in Configs : Loop(c)'
    BY <1>8, LoopKept DEF IInv, vars, procVars
  <2>2. TypeOK' /\ DownIsEmpty' /\ UnparsedNeverHealthy'
    BY <1>8 DEF IInv, vars, procVars, TypeOK, DownIsEmpty, UnparsedNeverHealthy
  <2> QED BY <2>1, <2>2 DEF IInv
<1> QED BY <1>1, <1>2, <1>3, <1>4, <1>5, <1>6, <1>7, <1>8 DEF Next

LEMMA AlwaysIInv == Spec => []IInv
BY InitIInv, NextIInv, PTL DEF Spec
-----------------------------------------------------------------------------
\* Every variable of the checker keeps its type; in particular a round offers at
\* most one history row per endpoint.
THEOREM TypeCorrect == Spec => []TypeOK
BY AlwaysIInv, PTL DEF IInv

\* No endpoint without a parsed URL is ever marked healthy, whatever its row
\* says and however often the process restarts.
THEOREM UnparsedStaysUnhealthy == Spec => []UnparsedNeverHealthy
BY AlwaysIInv, PTL DEF IInv

\* A finished round has offered every parsed endpoint to the history, once.
THEOREM HistoryAlwaysComplete == Spec => []HistoryComplete
<1>1. IInv => HistoryComplete
  <2> SUFFICES ASSUME IInv, NEW c \in round, phase[c] = "done"
               PROVE  history[c] = Cardinality({i \in Slots(c) : Parsed(c, i)})
    BY DEF HistoryComplete
  <2>1. c \in Configs
    BY DEF IInv, TypeOK
  <2>2. /\ history[c] = Cardinality(Offered(c)) /\ slot[c] \notin Slots(c)
        /\ slot[c] >= 1 /\ slot[c] \in Nat
    BY <2>1, SlotsType DEF IInv, Loop, TypeOK
  <2>3. \A i \in Slots(c) : i < slot[c]
    BY <2>1, <2>2, SlotsType DEF Slots
  <2>4. Offered(c) = {i \in Slots(c) : Parsed(c, i)}
    BY <2>3 DEF Offered
  <2> QED BY <2>2, <2>4
<1> QED BY <1>1, AlwaysIInv, PTL

\* Two different members make a finite set larger than one.
LEMMA TwoMembers ==
  ASSUME NEW S, IsFiniteSet(S), NEW a \in S, NEW b \in S, a # b
  PROVE  Cardinality(S) > 1
<1>1. Cardinality(S) \in Nat
  BY FS_CardinalityType
<1>2. Cardinality(S) # 0
  BY FS_EmptySet
<1>3. Cardinality(S) # 1
  BY FS_Singleton
<1> QED BY <1>1, <1>2, <1>3

\* Only an endpoint that shares its URL with another one of its config ever has
\* its row updated by the checker.
THEOREM RowsOnlyForTwins == Spec => RowsMoveOnlyForTwins
<1>1. ASSUME IInv, [Next]_vars, NEW c \in stored, NEW i \in Slots(c),
             rows'[c][i] # rows[c][i]
      PROVE  Cardinality(SameUrl(c, i)) > 1
  <2>1. c \in Configs
    BY <1>1 DEF IInv, TypeOK
  <2>2. \E d \in Configs : PersistHealth(d)
    <3>1. ASSUME NEW d \in Configs, Create(d) PROVE FALSE
      BY <1>1, <2>1, <3>1 DEF Create, IInv, TypeOK
    <3> QED BY <1>1, <3>1 DEF Next, CheckStep, vars, procVars, Flip, TickerFires, StartRound, EndRound,
               Finish, SkipUnparsed, Probe, WriteHealth, SaveHistory, Crash, Boot, BootEmpty
  <2>3. PICK d \in Configs : PersistHealth(d)
    BY <2>2
  <2>4. /\ d = c /\ i \in SameUrl(c, Target(c)) /\ Target(c) # slot[c]
        /\ Target(c) \in SameUrl(c, slot[c])
    BY <1>1, <2>1, <2>3, PersistEffect
  <2>5. slot[c] \in Slots(c)
    BY <2>3, <2>4 DEF PersistHealth, At
  <2>6. Target(c) \in SameUrl(c, i) /\ slot[c] \in SameUrl(c, i)
    BY <2>4, <2>5 DEF SameUrl
  <2>7. IsFiniteSet(SameUrl(c, i))
    BY <2>1, PartOfSlots DEF SameUrl
  <2> QED BY <2>4, <2>6, <2>7, TwoMembers
<1>2. IInv /\ [Next]_vars =>
        [\A c \in stored : \A i \in Slots(c) :
           rows'[c][i] # rows[c][i] => Cardinality(SameUrl(c, i)) > 1]_vars
  BY <1>1
<1> QED BY <1>2, AlwaysIInv, PTL DEF Spec, RowsMoveOnlyForTwins
=============================================================================
