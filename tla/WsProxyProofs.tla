--------------------------- MODULE WsProxyProofs ---------------------------
(***************************************************************************)
(* Theorems about WsProxy: for any number of messages, whatever the peers, *)
(* the pumps and the handler do in whatever order, the relay keeps every   *)
(* message in order, loses none while the session lasts, and a session     *)
(* ends only behind a peer that left.                                      *)
(***************************************************************************)
EXTENDS WsProxy, SequenceTheorems, TLAPS

Message == 1..MaxMessages

\* Until the handler returns, every message is delivered, in hand or unread.
Relayed(s) ==
  peer[Other(s)] = "open" /\ handler # "returned" =>
    sent[s] = got[Other(s)] \o InHand(s) \o unread[s]

PumpsStarted == \E s \in Side : pump[s] # "none"

\* A pump has given up, or the handler has been woken or is done with the pumps.
Ending ==
  \/ done = "closed" \/ handler = "close" \/ process = "crashed"
  \/ \E s \in Side : pump[s] \in {"exit", "ended"}
  \/ handler = "returned" /\ PumpsStarted

\* The connections are closed by the return of the handler and not before, and a
\* session ends only behind a peer that left.
EndInv ==
  /\ handler # "returned" => \A s \in Side : conn[s] # "closed"
  /\ handler = "returned" /\ PumpsStarted => \A s \in Side : conn[s] = "closed"
  /\ Ending => \E s \in Side : peer[s] = "closed"

RelayInv ==
  /\ TypeOK
  /\ \A s \in Side : pump[s] = "write" => held[s] \in Message
  /\ handler \in {"select", "upgrade", "dial"} => \A s \in Side : pump[s] = "none"
  /\ \A s \in Side : Relayed(s)
  /\ RelayInOrder

SessionInv == RelayInv /\ EndInv

LEMMA Sides == \A s \in Side : Other(s) \in Side /\ Other(s) # s /\ Other(Other(s)) = s
BY DEF Side, Other

-----------------------------------------------------------------------------
(* Prefixes of sequences                                                    *)

LEMMA PrefixOfConcat ==
  ASSUME NEW S, NEW a \in Seq(S), NEW b \in Seq(S)
  PROVE  IsPrefix(a, a \o b)
<1>1. Len(a) \in Nat /\ Len(b) \in Nat /\ Len(a \o b) = Len(a) + Len(b)
  BY LenProperties, ConcatProperties
<1>2. SubSeq(a, 1, Len(a)) = SubSeq(a \o b, 1, Len(a))
  <2>1. CASE Len(a) = 0
    BY <2>1, SubSeqEmpty
  <2>2. CASE Len(a) # 0
    <3>1. 1 \in 1..Len(a) /\ Len(a) \in 1..Len(a)
      BY <1>1, <2>2
    <3> QED BY <3>1, SubSeqOfConcat1
  <2> QED BY <2>1, <2>2
<1> QED BY <1>1, <1>2 DEF IsPrefix

LEMMA PrefixGrows ==
  ASSUME NEW S, NEW a \in Seq(S), NEW t \in Seq(S), NEW e \in S, IsPrefix(a, t)
  PROVE  IsPrefix(a, Append(t, e))
<1>1. Len(a) \in Nat /\ Len(t) \in Nat /\ Len(Append(t, e)) = Len(t) + 1
  BY LenProperties, AppendProperties
<1>2. Len(a) <= Len(t) /\ SubSeq(a, 1, Len(a)) = SubSeq(t, 1, Len(a))
  BY DEF IsPrefix
<1>3. SubSeq(Append(t, e), 1, Len(a)) = SubSeq(t, 1, Len(a))
  <2>1. CASE Len(a) = 0
    BY <2>1, SubSeqEmpty
  <2>2. CASE Len(a) # 0
    <3>1. 1 \in 1..Len(t) /\ Len(a) \in 1..Len(t)
      BY <1>1, <1>2, <2>2
    <3>2. Append(t, e) = t \o <<e>> /\ <<e>> \in Seq(S)
      BY AppendIsConcat
    <3> QED BY <3>1, <3>2, SubSeqOfConcat1
  <2> QED BY <2>1, <2>2
<1> QED BY <1>1, <1>2, <1>3 DEF IsPrefix

LEMMA HeadThenTail ==
  ASSUME NEW S, NEW u \in Seq(S), u # <<>>
  PROVE  /\ Head(u) \in S /\ Tail(u) \in Seq(S)
         /\ u = <<Head(u)>> \o Tail(u)
<1>1. Len(u) \in Nat \ {0}
  BY EmptySeq
<1>2. SubSeq(u, 1, Len(u)) = <<u[1]>> \o SubSeq(u, 1 + 1, Len(u))
  <2>1. 1 \in 1..Len(u) /\ Len(u) \in 1..Len(u)
    BY <1>1
  <2> QED BY <2>1, SubSeqRecursiveFirst
<1>3. SubSeq(u, 1, Len(u)) = u /\ Tail(u) = SubSeq(u, 2, Len(u)) /\ 1 + 1 = 2
  BY SubSeqFull, TailIsSubSeq
<1>4. Head(u) = u[1]
  OBVIOUS
<1> QED BY <1>2, <1>3, <1>4, HeadTailProperties
LEMMA Appending ==
  ASSUME NEW q \in Seq(Message), NEW m \in Message
  PROVE  /\ <<m>> \in Seq(Message)
         /\ Append(q, m) \in Seq(Message)
         /\ Append(q, m) = q \o <<m>>
BY AppendProperties, AppendIsConcat

LEMMA Regrouping ==
  ASSUME NEW a \in Seq(Message), NEW b \in Seq(Message), NEW c \in Seq(Message)
  PROVE  (a \o b) \o c = a \o (b \o c)
BY ConcatAssociative
-----------------------------------------------------------------------------
LEMMA InitRelayInv == ParametersOk /\ Init => RelayInv
<1> SUFFICES ASSUME ParametersOk, Init PROVE RelayInv
  OBVIOUS
<1>1. \A s \in Side : /\ sent[s] = <<>> /\ unread[s] = <<>> /\ got[s] = <<>>
                      /\ pump[s] = "none" /\ held[s] = 0
  BY DEF Init
<1>2. TypeOK
  BY <1>1 DEF Init, TypeOK, ParametersOk
<1>3. \A s \in Side : Relayed(s) /\ IsPrefix(got[Other(s)], sent[s])
  <2> TAKE s \in Side
  <2>1. got[Other(s)] = <<>> /\ InHand(s) = <<>> /\ sent[s] = <<>> /\ unread[s] = <<>>
    BY <1>1, Sides DEF InHand
  <2>2. <<>> \o <<>> = <<>> /\ <<>> \in Seq(Message)
    BY ConcatEmptySeq
  <2>3. IsPrefix(<<>>, <<>> \o <<>>)
    BY <2>2, PrefixOfConcat
  <2> QED BY <2>1, <2>2, <2>3 DEF Relayed
<1> QED BY <1>1, <1>2, <1>3 DEF RelayInv, RelayInOrder

\* What a step leaves alone keeps the invariant of the relay from s.
LEMMA RelayedKept ==
  ASSUME NEW s \in Side, Relayed(s),
         sent'[s] = sent[s], unread'[s] = unread[s], got'[Other(s)] = got[Other(s)],
         pump'[s] = pump[s], held'[s] = held[s],
         peer'[Other(s)] = "open" => peer[Other(s)] = "open",
         handler' # "returned" => handler # "returned"
  PROVE  Relayed(s)'
BY DEF Relayed, InHand

\* The handler's steps move no message; Dial starts both pumps.
LEMMA HandlerInv ==
  ASSUME ParametersOk, RelayInv, HandlerStep
  PROVE  RelayInv'
<1> USE DEF RelayInv
<1>1. CASE NoTarget \/ Target \/ BadHandshake \/ NotHijackable \/ Upgrade
           \/ DialFails \/ WakeUp \/ Return
  <2>1. UNCHANGED traffic
    BY <1>1 DEF NoTarget, Target, BadHandshake, NotHijackable, Upgrade, DialFails, WakeUp, Return
  <2>2. \A s \in Side : Relayed(s)'
    <3>1. handler # "returned"
      BY <1>1 DEF NoTarget, Target, BadHandshake, NotHijackable, Upgrade, DialFails, WakeUp,
                  Return, Running
    <3> QED BY <2>1, <3>1, RelayedKept, Sides DEF traffic
  <2>3. /\ handler' \in {"upgrade", "dial", "wait", "close", "returned"}
        /\ handler' \in {"upgrade", "dial"} => handler \in {"select", "upgrade", "dial"}
        /\ process' = process
    BY <1>1 DEF NoTarget, Target, BadHandshake, NotHijackable, Upgrade, DialFails, WakeUp,
                Return, Running
  <2>4. status' \in {0, 101, 400, 500, 503}
    BY <1>1 DEF NoTarget, Target, BadHandshake, NotHijackable, Upgrade, DialFails, WakeUp,
                Return, TypeOK
  <2>5. conn' \in [Side -> {"none", "open", "closed"}]
    <3>1. conn \in [Side -> {"none", "open", "closed"}]
      BY DEF TypeOK
    <3>2. \/ conn' = conn
          \/ conn' = [conn EXCEPT !["client"] = "open"]
          \/ conn' = [conn EXCEPT !["client"] = "closed"]
          \/ conn' = [s \in Side |-> "closed"]
      BY <1>1 DEF NoTarget, Target, BadHandshake, NotHijackable, Upgrade, DialFails, WakeUp, Return
    <3> QED BY <3>1, <3>2
  <2>6. TypeOK'
    BY <2>1, <2>3, <2>4, <2>5 DEF TypeOK, traffic
  <2>7. RelayInOrder'
    BY <2>1 DEF RelayInOrder, traffic
  <2> QED BY <2>1, <2>2, <2>3, <2>6, <2>7 DEF traffic
<1>2. CASE Dial
  <2>1. \A s \in Side : pump[s] = "none" /\ pump'[s] = "read"
    BY <1>2 DEF Dial, Running
  <2>2. \A s \in Side : Relayed(s)'
    BY <1>2, <2>1, Sides DEF Dial, Running, Relayed, InHand
  <2>3. TypeOK'
    <3>1. conn' \in [Side -> {"none", "open", "closed"}]
      BY <1>2 DEF Dial, TypeOK
    <3>2. pump' \in [Side -> {"none", "read", "write", "exit", "ended"}]
      BY <1>2 DEF Dial
    <3> QED BY <1>2, <3>1, <3>2 DEF Dial, TypeOK
  <2>4. RelayInOrder' /\ handler' = "wait"
    BY <1>2 DEF Dial, RelayInOrder
  <2> QED BY <2>1, <2>2, <2>3, <2>4
<1> QED BY <1>1, <1>2 DEF HandlerStep

\* Types of what the relay from s works with.
LEMMA RelayTypes ==
  ASSUME RelayInv, NEW s \in Side
  PROVE  /\ sent[s] \in Seq(Message) /\ unread[s] \in Seq(Message)
         /\ got[Other(s)] \in Seq(Message) /\ Other(s) \in Side
BY Sides DEF RelayInv, TypeOK, Message

LEMMA ReadInv ==
  ASSUME RelayInv, NEW s \in Side, Read(s)
  PROVE  RelayInv'
<1> USE DEF RelayInv
<1>1. /\ unread[s] # <<>> /\ pump[s] = "read" /\ pump'[s] = "write"
      /\ held'[s] = Head(unread[s]) /\ unread'[s] = Tail(unread[s])
      /\ UNCHANGED <<handler, peer, sent, got>>
      /\ \A r \in Side \ {s} : pump'[r] = pump[r] /\ held'[r] = held[r] /\ unread'[r] = unread[r]
  BY DEF Read, Pumping, TypeOK
<1>2. /\ Head(unread[s]) \in Message /\ Tail(unread[s]) \in Seq(Message)
      /\ unread[s] = <<Head(unread[s])>> \o Tail(unread[s])
  BY <1>1, RelayTypes, HeadThenTail
<1>3. Relayed(s)'
  <2> SUFFICES ASSUME peer[Other(s)] = "open", handler # "returned"
               PROVE  sent[s] = got[Other(s)] \o <<held'[s]>> \o unread'[s]
    BY <1>1 DEF Relayed, InHand
  <2>1. sent[s] = got[Other(s)] \o <<>> \o unread[s]
    BY <1>1 DEF Relayed, InHand
  <2>2. got[Other(s)] \o <<>> = got[Other(s)]
    BY RelayTypes, ConcatEmptySeq
  <2>3. got[Other(s)] \o (<<held'[s]>> \o unread'[s])
          = (got[Other(s)] \o <<held'[s]>>) \o unread'[s]
    <3>1. <<held'[s]>> \in Seq(Message) /\ unread'[s] \in Seq(Message)
      BY <1>1, <1>2
    <3>2. got[Other(s)] \in Seq(Message)
      BY RelayTypes
    <3> QED BY <3>1, <3>2, Regrouping
  <2> QED BY <1>1, <1>2, <2>1, <2>2, <2>3
<1>4. \A r \in Side \ {s} : Relayed(r)'
  BY <1>1, RelayedKept, Sides
<1>5. TypeOK'
  <2>1. unread' \in [Side -> Seq(1..MaxMessages)]
    BY <1>2 DEF Read, TypeOK, Message
  <2>2. held' \in [Side -> 0..MaxMessages]
    BY <1>2 DEF Read, TypeOK, Message
  <2> QED BY <2>1, <2>2 DEF Read, TypeOK
<1>6. \A r \in Side : pump'[r] = "write" => held'[r] \in Message
  BY <1>1, <1>2
<1>7. handler' \notin {"select", "upgrade", "dial"}
  BY <1>1
<1>8. RelayInOrder'
  BY <1>1 DEF RelayInOrder
<1> QED BY <1>3, <1>4, <1>5, <1>6, <1>7, <1>8

LEMMA WriteInv ==
  ASSUME SessionInv, NEW s \in Side, Write(s)
  PROVE  RelayInv'
<1> USE DEF RelayInv, SessionInv
<1> DEFINE o == Other(s)
<1>1. /\ pump[s] = "write" /\ pump'[s] = "read"
      /\ UNCHANGED <<handler, peer, sent, unread, held>>
      /\ \A r \in Side \ {s} : pump'[r] = pump[r] /\ Other(r) # o
      /\ \A r \in Side \ {o} : got'[r] = got[r]
  BY Sides DEF Write, Pumping, TypeOK, Side, Other
<1>2. held[s] \in Message /\ o \in Side
  BY <1>1, Sides
<1>0. handler # "returned"
  BY <1>1, <1>2 DEF Write, EndInv, PumpsStarted
<1>3. Relayed(s)' /\ IsPrefix(got'[o], sent[s]) /\ got'[o] \in Seq(Message)
  <2>1. CASE peer[o] = "open"
    <3>1. got'[o] = got[o] \o <<held[s]>> /\ got'[o] \in Seq(Message)
      <4>1. got'[o] = Append(got[o], held[s])
        BY <1>2, <2>1 DEF Write, TypeOK
      <4>2. got[o] \in Seq(Message)
        BY RelayTypes
      <4> HIDE DEF o
      <4> QED BY <1>2, <4>1, <4>2, Appending
    <3>2. sent[s] = got'[o] \o unread[s]
      BY <1>0, <1>1, <2>1, <3>1 DEF Relayed, InHand
    <3>3. got'[o] \o <<>> = got'[o]
      BY <3>1, ConcatEmptySeq
    <3>4. Relayed(s)'
      BY <1>1, <3>2, <3>3 DEF Relayed, InHand
    <3>5. IsPrefix(got'[o], sent[s])
      BY <3>1, <3>2, RelayTypes, PrefixOfConcat
    <3> QED BY <3>1, <3>4, <3>5
  <2>2. CASE peer[o] # "open"
    <3>1. got' = got
      BY <2>2 DEF Write
    <3>2. Relayed(s)'
      BY <1>1, <2>2 DEF Relayed
    <3> QED BY <3>1, <3>2, RelayTypes DEF RelayInOrder
  <2> QED BY <2>1, <2>2
<1>4. \A r \in Side \ {s} : Relayed(r)'
  <2> TAKE r \in Side \ {s}
  <2>1. Other(r) \in Side \ {o}
    BY <1>1, Sides
  <2> QED BY <1>1, <2>1, RelayedKept
<1>5. TypeOK'
  <2>1. got' \in [Side -> Seq(1..MaxMessages)]
    <3>1. got' = got \/ got' = [got EXCEPT ![o] = Append(got[o], held[s])]
      BY DEF Write
    <3>2. Append(got[o], held[s]) \in Seq(Message)
      BY <1>2, RelayTypes, Appending
    <3>3. got \in [Side -> Seq(Message)]
      BY DEF TypeOK, Message
    <3>4. got' \in [Side -> Seq(Message)]
      BY <3>1, <3>2, <3>3
    <3> QED BY <3>4 DEF Message
  <2> QED BY <2>1 DEF Write, TypeOK
<1>6. RelayInOrder'
  <2>1. \A r \in Side \ {s} : Other(r) \in Side \ {o}
    BY <1>1, Sides
  <2> QED BY <1>1, <1>3, <2>1 DEF RelayInOrder
<1>7. /\ \A r \in Side : pump'[r] = "write" => held'[r] \in Message
      /\ handler' \notin {"select", "upgrade", "dial"}
  BY <1>1
<1> QED BY <1>3, <1>4, <1>5, <1>6, <1>7

\* A pump that gives up, and one that signals its end, move no message.
LEMMA ExitInv ==
  ASSUME SessionInv, NEW s \in Side, ReadFails(s) \/ WriteFails(s) \/ CloseDone(s)
  PROVE  RelayInv'
<1> USE DEF RelayInv, SessionInv
<1>1. /\ pump[s] \in {"read", "write", "exit"} /\ pump'[s] \in {"exit", "ended"}
      /\ UNCHANGED <<handler, peer, sent, unread, got, held>>
      /\ \A r \in Side \ {s} : pump'[r] = pump[r]
  BY DEF ReadFails, WriteFails, CloseDone, Pumping, TypeOK
<1>2. Relayed(s)'
  <2> SUFFICES ASSUME peer[Other(s)] = "open", handler # "returned"
               PROVE  InHand(s) = <<>> /\ InHand(s)' = <<>>
    BY <1>1 DEF Relayed
  <2>1. conn[Other(s)] # "closed"
    BY Sides DEF EndInv
  <2>2. ~WriteFails(s)
    BY <2>1 DEF WriteFails
  <2>3. pump[s] # "write"
    BY <2>2 DEF ReadFails, CloseDone, Pumping
  <2> QED BY <1>1, <2>3 DEF InHand
<1>3. \A r \in Side \ {s} : Relayed(r)'
  BY <1>1, RelayedKept, Sides
<1>4. TypeOK'
  <2>1. pump' \in [Side -> {"none", "read", "write", "exit", "ended"}]
    <3>1. pump' = [pump EXCEPT ![s] = "exit"] \/ pump' = [pump EXCEPT ![s] = "ended"]
      BY DEF ReadFails, WriteFails, CloseDone
    <3>2. pump \in [Side -> {"none", "read", "write", "exit", "ended"}]
      BY DEF TypeOK
    <3> QED BY <3>1, <3>2
  <2>2. process' \in {"running", "crashed"} /\ done' \in {"open", "closed"}
    <3>1. /\ process' = process \/ process' = "crashed"
          /\ done' = done \/ done' = "closed"
      BY DEF ReadFails, WriteFails, CloseDone
    <3> QED BY <3>1 DEF TypeOK
  <2>3. UNCHANGED <<writer, handler, status, conn, peer, sent, unread, got, held>>
    BY DEF ReadFails, WriteFails, CloseDone
  <2> QED BY <2>1, <2>2, <2>3 DEF TypeOK
<1>5. RelayInOrder'
  BY <1>1 DEF RelayInOrder
<1>6. /\ \A r \in Side : pump'[r] = "write" => held'[r] \in Message
      /\ handler' \notin {"select", "upgrade", "dial"}
  BY <1>1
<1> QED BY <1>2, <1>3, <1>4, <1>5, <1>6

LEMMA SendInv ==
  ASSUME ParametersOk, RelayInv, NEW s \in Side, Send(s)
  PROVE  RelayInv'
<1> USE DEF RelayInv
<1> DEFINE m == Len(sent[s]) + 1
           g == got[Other(s)]
<1>1. m \in Message
  <2>1. Len(sent[s]) \in Nat /\ Len(sent[s]) < MaxMessages /\ MaxMessages \in Nat
    BY RelayTypes, LenProperties DEF Send, ParametersOk
  <2> QED BY <2>1 DEF Message
<1>2. /\ sent'[s] = Append(sent[s], m) /\ unread'[s] = Append(unread[s], m)
      /\ UNCHANGED <<handler, peer, got, pump, held>>
      /\ \A r \in Side \ {s} : sent'[r] = sent[r] /\ unread'[r] = unread[r]
  BY DEF Send, TypeOK
<1> HIDE DEF m
<1>3. /\ sent'[s] \in Seq(Message) /\ sent'[s] = sent[s] \o <<m>>
      /\ unread'[s] \in Seq(Message) /\ unread'[s] = unread[s] \o <<m>>
  <2>1. sent[s] \in Seq(Message) /\ unread[s] \in Seq(Message)
    BY RelayTypes
  <2>2. /\ Append(sent[s], m) \in Seq(Message) /\ Append(sent[s], m) = sent[s] \o <<m>>
    BY <1>1, <2>1, Appending
  <2>3. /\ Append(unread[s], m) \in Seq(Message) /\ Append(unread[s], m) = unread[s] \o <<m>>
    BY <1>1, <2>1, Appending
  <2> QED BY <1>2, <2>2, <2>3
<1>4. Relayed(s)'
  <2> SUFFICES ASSUME peer[Other(s)] = "open", handler # "returned"
               PROVE  sent'[s] = (g \o InHand(s)) \o unread'[s]
    BY <1>2 DEF Relayed, InHand
  <2>1. sent[s] = (g \o InHand(s)) \o unread[s]
    BY DEF Relayed
  <2>2. g \o InHand(s) \in Seq(Message)
    <3>1. InHand(s) \in Seq(Message)
      BY DEF InHand
    <3> QED BY <3>1, RelayTypes, ConcatProperties
  <2>3. ((g \o InHand(s)) \o unread[s]) \o <<m>> = (g \o InHand(s)) \o (unread[s] \o <<m>>)
    <3>1. <<m>> \in Seq(Message)
      BY <1>1
    <3>2. unread[s] \in Seq(Message)
      BY RelayTypes
    <3> QED BY <2>2, <3>1, <3>2, Regrouping
  <2> QED BY <1>3, <2>1, <2>3
<1>5. \A r \in Side \ {s} : Relayed(r)'
  BY <1>2, RelayedKept, Sides
<1>6. TypeOK'
  <2>1. /\ sent' \in [Side -> Seq(1..MaxMessages)]
        /\ unread' \in [Side -> Seq(1..MaxMessages)]
    <3>1. /\ sent' = [sent EXCEPT ![s] = Append(sent[s], m)]
          /\ unread' = [unread EXCEPT ![s] = Append(unread[s], m)]
      BY DEF Send, m
    <3>2. Append(sent[s], m) \in Seq(Message) /\ Append(unread[s], m) \in Seq(Message)
      BY <1>2, <1>3
    <3>3. sent \in [Side -> Seq(Message)] /\ unread \in [Side -> Seq(Message)]
      BY DEF TypeOK, Message
    <3>4. sent' \in [Side -> Seq(Message)] /\ unread' \in [Side -> Seq(Message)]
      BY <3>1, <3>2, <3>3
    <3> QED BY <3>4 DEF Message
  <2> QED BY <2>1 DEF Send, TypeOK
<1>7. RelayInOrder'
  <2>1. IsPrefix(g, sent'[s])
    BY <1>1, <1>2, RelayTypes, PrefixGrows DEF RelayInOrder
  <2> QED BY <1>2, <2>1 DEF RelayInOrder
<1> QED BY <1>2, <1>4, <1>5, <1>6, <1>7

LEMMA LeaveInv ==
  ASSUME RelayInv, NEW s \in Side, Leave(s)
  PROVE  RelayInv'
<1> USE DEF RelayInv
<1>1. /\ UNCHANGED <<handler, sent, unread, got, pump, held>>
      /\ \A r \in Side : peer'[r] = "open" => peer[r] = "open"
  BY DEF Leave, TypeOK
<1>2. \A r \in Side : Relayed(r)'
  BY <1>1, RelayedKept, Sides
<1>3. TypeOK'
  BY DEF Leave, TypeOK
<1>4. RelayInOrder'
  BY <1>1 DEF RelayInOrder
<1> QED BY <1>1, <1>2, <1>3, <1>4

LEMMA NextRelayInv == ParametersOk /\ SessionInv /\ [Next]_vars => RelayInv'
<1> SUFFICES ASSUME ParametersOk, SessionInv, [Next]_vars PROVE RelayInv'
  OBVIOUS
<1> USE DEF SessionInv
<1>1. CASE HandlerStep
  BY <1>1, HandlerInv
<1>2. ASSUME NEW s \in Side, PumpStep(s) PROVE RelayInv'
  BY <1>2, ReadInv, WriteInv, ExitInv DEF PumpStep
<1>3. ASSUME NEW s \in Side, Send(s) \/ Leave(s) PROVE RelayInv'
  BY <1>3, SendInv, LeaveInv
<1>4. CASE UNCHANGED vars
  <2>1. \A s \in Side : Relayed(s)'
    BY <1>4, RelayedKept, Sides DEF vars, RelayInv
  <2>2. TypeOK' /\ RelayInOrder'
    BY <1>4 DEF vars, RelayInv, TypeOK, RelayInOrder
  <2> QED BY <1>4, <2>1, <2>2 DEF vars, RelayInv
<1> QED BY <1>1, <1>2, <1>3, <1>4 DEF Next

\* A connection is closed by the return only, and a session ends only behind a
\* peer that left.
LEMMA NextEndInv == SessionInv /\ [Next]_vars => EndInv'
<1> SUFFICES ASSUME SessionInv, [Next]_vars PROVE EndInv'
  OBVIOUS
<1> USE DEF SessionInv, EndInv
<1>0. TypeOK
  BY DEF RelayInv
<1>1. CASE NoTarget \/ Target \/ BadHandshake \/ NotHijackable \/ Upgrade \/ DialFails
  <2>1. /\ \A s \in Side : pump[s] = "none"
        /\ handler \in {"select", "upgrade", "dial"} /\ handler' # "close"
        /\ UNCHANGED <<done, process, pump, peer>>
    BY <1>1 DEF NoTarget, Target, BadHandshake, NotHijackable, Upgrade, DialFails, Running,
                RelayInv, traffic
  <2>2. Ending' => Ending
    BY <2>1 DEF Ending, PumpsStarted
  <2>3. handler' # "returned" => conn' \in {conn, [conn EXCEPT !["client"] = "open"]}
    BY <1>1 DEF NoTarget, Target, BadHandshake, NotHijackable, Upgrade, DialFails
  <2>4. ~PumpsStarted'
    BY <2>1 DEF PumpsStarted
  <2> QED BY <1>0, <2>1, <2>2, <2>3, <2>4 DEF TypeOK
<1>2. CASE Dial
  <2>1. /\ handler = "dial" /\ handler' = "wait" /\ UNCHANGED <<done, process, peer>>
        /\ \A s \in Side : pump'[s] = "read"
        /\ conn' = [conn EXCEPT !["backend"] = "open"]
    BY <1>2 DEF Dial, Running
  <2>2. Ending' => Ending
    BY <2>1 DEF Ending, PumpsStarted
  <2> QED BY <1>0, <2>1, <2>2 DEF TypeOK
<1>3. CASE WakeUp \/ Return
  <2>1. Ending
    BY <1>3 DEF WakeUp, Return, Running, Ending
  <2>2. /\ peer' = peer
        /\ handler' # "returned" => handler # "returned" /\ conn' = conn
        /\ handler' = "returned" => \A s \in Side : conn'[s] = "closed"
    BY <1>3 DEF WakeUp, Return, Running, traffic
  <2> QED BY <2>1, <2>2
<1>4. ASSUME NEW s \in Side, ReadFails(s) \/ WriteFails(s) PROVE EndInv'
  <2>1. /\ UNCHANGED <<handler, conn, peer>>
        /\ PumpsStarted
        /\ \E r \in Side : conn[r] = "closed" \/ peer[r] = "closed"
    BY <1>4, Sides DEF ReadFails, WriteFails, Pumping, PumpsStarted
  <2>2. \E r \in Side : peer[r] = "closed"
    BY <2>1 DEF Ending
  <2> QED BY <2>1, <2>2
<1>5. ASSUME NEW s \in Side, CloseDone(s) PROVE EndInv'
  <2>1. Ending /\ PumpsStarted /\ UNCHANGED <<handler, conn, peer>>
    BY <1>5 DEF CloseDone, Pumping, Ending, PumpsStarted
  <2> QED BY <2>1
<1>6. ASSUME NEW s \in Side, Read(s) \/ Write(s) \/ Send(s) PROVE EndInv'
  <2>1. UNCHANGED <<handler, process, conn, peer, done>>
    BY <1>6 DEF Read, Write, Send
  <2>2. \A r \in Side : pump'[r] = pump[r] \/ {pump[r], pump'[r]} = {"read", "write"}
    BY <1>0, <1>6 DEF Read, Write, Send, Pumping, TypeOK
  <2>3. (PumpsStarted' => PumpsStarted) /\ (Ending' => Ending)
    BY <2>1, <2>2 DEF Ending, PumpsStarted
  <2> QED BY <2>1, <2>3
<1>7. ASSUME NEW s \in Side, Leave(s) PROVE EndInv'
  <2>1. UNCHANGED <<handler, conn, pump>> /\ peer'[s] = "closed"
    BY <1>0, <1>7 DEF Leave, TypeOK
  <2> QED BY <2>1 DEF PumpsStarted
<1>8. CASE UNCHANGED vars
  BY <1>8 DEF vars, Ending, PumpsStarted
<1> QED BY <1>1, <1>2, <1>3, <1>4, <1>5, <1>6, <1>7, <1>8 DEF Next, HandlerStep, PumpStep

LEMMA InitSessionInv == ParametersOk /\ Init => SessionInv
<1> SUFFICES ASSUME ParametersOk, Init PROVE EndInv
  BY InitRelayInv DEF SessionInv
<1> QED BY DEF Init, EndInv, Ending, PumpsStarted

LEMMA NextSessionInv == ParametersOk /\ SessionInv /\ [Next]_vars => SessionInv'
BY NextRelayInv, NextEndInv DEF SessionInv

LEMMA SessionInvSuffices == SessionInv => TypeOK /\ RelayInOrder /\ NothingLostInside
<1> SUFFICES ASSUME SessionInv PROVE NothingLostInside
  BY DEF SessionInv, RelayInv
<1>1. \A s \in Side : Relayed(s)
  BY DEF SessionInv, RelayInv
<1>2. Ending => \E s \in Side : peer[s] = "closed"
  BY DEF SessionInv, EndInv
<1> QED BY <1>1, <1>2 DEF Relayed, Ending, PumpsStarted, NothingLostInside
-----------------------------------------------------------------------------
\* Every variable of a session keeps its type.
THEOREM TypeCorrect == ASSUME ParametersOk PROVE Spec => []TypeOK
BY InitSessionInv, NextSessionInv, SessionInvSuffices, PTL DEF Spec

\* Each peer receives a beginning of what the other sent: in order, nothing
\* twice, nothing skipped, before, during and after the end of the session.
THEOREM RelayAlwaysInOrder == ASSUME ParametersOk PROVE Spec => []RelayInOrder
BY InitSessionInv, NextSessionInv, SessionInvSuffices, PTL DEF Spec

\* No message for a peer that listens vanishes inside the relay before the
\* handler returns, and the handler returns, or the process dies, only behind a
\* peer that left.
THEOREM NothingIsLostInside == ASSUME ParametersOk PROVE Spec => []NothingLostInside
BY InitSessionInv, NextSessionInv, SessionInvSuffices, PTL DEF Spec
=============================================================================
