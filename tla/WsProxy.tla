------------------------------ MODULE WsProxy ------------------------------
(***************************************************************************)
(* One WebSocket session through Gateway.proxyWebSocket: the handler, the  *)
(* two pump goroutines it starts, and the peers at both ends.  The route   *)
(* lookup and the read lock around the session belong to Gateway.          *)
(***************************************************************************)
EXTENDS Naturals, Sequences, SequencesExt

CONSTANTS
  MaxMessages,    \* bound on the messages each peer sends
  Writers,        \* ResponseWriters the handler may be given: {"recorder"} as the
                  \* program is wired (route.go 100), {"gin"} with route.go 101
  HeaderAccepted  \* whether the dialer takes the header of the client's handshake
                  \* (gateway.core.go 103); gorilla's dialer refuses it, because it
                  \* names Upgrade, Connection and Sec-Websocket-Key itself

\* What the constants have to be.
ParametersOk ==
  /\ MaxMessages \in Nat
  /\ Writers \in SUBSET {"gin", "recorder"} /\ Writers # {}
  /\ HeaderAccepted \in BOOLEAN

Side == {"client", "backend"}
Other(s) == IF s = "client" THEN "backend" ELSE "client"

VARIABLES
  writer,    \* the ResponseWriter: gin's own ("gin", a http.Hijacker), or the
             \* "recorder" AccessLoggingHandler wraps around it
  process,   \* "running", or "crashed" by an unrecovered panic
  handler,   \* where proxyWebSocket is
  status,    \* HTTP status of the answer to the handshake
  conn,      \* gateway's end of each connection: "none", "open", "closed"
  peer,      \* the far end of each connection: "open", "closed"
  sent,      \* messages each peer has sent
  unread,    \* messages of each peer that no pump has read
  got,       \* messages each peer has received
  pump,      \* the goroutine that reads from each side
  held,      \* the message it has read and not written
  done       \* the channel: "open" or "closed"

vars == <<writer, process, handler, status, conn, peer, sent, unread, got, pump, held, done>>

Init ==
  /\ writer \in Writers
  /\ process = "running" /\ handler = "select" /\ status = 0
  /\ conn = [s \in Side |-> "none"]
  /\ peer = [s \in Side |-> "open"]
  /\ sent = [s \in Side |-> <<>>] /\ unread = [s \in Side |-> <<>>]
  /\ got = [s \in Side |-> <<>>]
  /\ pump = [s \in Side |-> "none"] /\ held = [s \in Side |-> 0]
  /\ done = "open"

Running(at) == process = "running" /\ handler = at
traffic == <<writer, peer, sent, unread, got, pump, held, done>>

\* GetNextHealthyEndpoint returns nil: 503.
NoTarget ==
  /\ Running("select")
  /\ handler' = "returned" /\ status' = 503
  /\ UNCHANGED <<process, conn, traffic>>

Target ==
  /\ Running("select")
  /\ handler' = "upgrade"
  /\ UNCHANGED <<process, status, conn, traffic>>

\* wsUpgrader.Upgrade refuses a malformed handshake with 400.
BadHandshake ==
  /\ Running("upgrade")
  /\ handler' = "returned" /\ status' = 400
  /\ UNCHANGED <<process, conn, traffic>>

\* wsUpgrader.Upgrade answers 500 when it cannot hijack the connection, which
\* is the case of every StatusRecorder: it embeds the ResponseWriter interface.
NotHijackable ==
  /\ Running("upgrade") /\ writer = "recorder"
  /\ handler' = "returned" /\ status' = 500
  /\ UNCHANGED <<process, conn, traffic>>

Upgrade ==
  /\ Running("upgrade") /\ writer = "gin"
  /\ handler' = "dial" /\ status' = 101
  /\ conn' = [conn EXCEPT !["client"] = "open"]
  /\ UNCHANGED <<process, traffic>>

\* Dial fails, which it always does with a header it refuses: a close frame for the
\* client, then the deferred Close.
DialFails ==
  /\ Running("dial")
  /\ handler' = "returned"
  /\ conn' = [conn EXCEPT !["client"] = "closed"]
  /\ UNCHANGED <<process, status, traffic>>

\* Dial succeeds: make(chan struct{}) and the two goroutines.
Dial ==
  /\ Running("dial") /\ HeaderAccepted
  /\ handler' = "wait"
  /\ conn' = [conn EXCEPT !["backend"] = "open"]
  /\ pump' = [s \in Side |-> "read"]
  /\ UNCHANGED <<writer, process, status, peer, sent, unread, got, held, done>>

\* Mutant: the handler does not wait for a pump to end.
WakeUpAtOnce ==
  /\ Running("wait")
  /\ handler' = "close"
  /\ UNCHANGED <<process, status, conn, traffic>>

\* <-done, then WriteControl(CloseMessage) on both connections.
WakeUp ==
  /\ Running("wait") /\ done = "closed"
  /\ handler' = "close"
  /\ UNCHANGED <<process, status, conn, traffic>>

\* proxyWebSocket returns: the deferred Close of both connections.
Return ==
  /\ Running("close")
  /\ handler' = "returned"
  /\ conn' = [s \in Side |-> "closed"]
  /\ UNCHANGED <<process, status, traffic>>
-----------------------------------------------------------------------------
(* proxyData(src, dst), one goroutine per direction, named by its source    *)

Pumping(s, at) == process = "running" /\ pump[s] = at

\* src.ReadMessage returns a message.
Read(s) ==
  /\ Pumping(s, "read") /\ conn[s] = "open" /\ unread[s] # <<>>
  /\ held' = [held EXCEPT ![s] = Head(unread[s])]
  /\ unread' = [unread EXCEPT ![s] = Tail(@)]
  /\ pump' = [pump EXCEPT ![s] = "write"]
  /\ UNCHANGED <<writer, process, handler, status, conn, peer, sent, got, done>>

\* src.ReadMessage fails: the peer has gone, and what it sent last may be gone
\* with it, or the handler closed src.
ReadFails(s) ==
  /\ Pumping(s, "read")
  /\ conn[s] = "closed" \/ peer[s] = "closed"
  /\ pump' = [pump EXCEPT ![s] = "exit"]
  /\ UNCHANGED <<writer, process, handler, status, conn, peer, sent, unread, got, held, done>>

\* dst.WriteMessage: delivered if the far end still reads.
Write(s) ==
  /\ Pumping(s, "write") /\ conn[Other(s)] = "open"
  /\ got' = IF peer[Other(s)] = "open"
            THEN [got EXCEPT ![Other(s)] = Append(@, held[s])] ELSE got
  /\ pump' = [pump EXCEPT ![s] = "read"]
  /\ UNCHANGED <<writer, process, handler, status, conn, peer, sent, unread, held, done>>

\* dst.WriteMessage fails: the far end has gone, or the handler closed dst.
WriteFails(s) ==
  /\ Pumping(s, "write")
  /\ conn[Other(s)] = "closed" \/ peer[Other(s)] = "closed"
  /\ pump' = [pump EXCEPT ![s] = "exit"]
  /\ UNCHANGED <<writer, process, handler, status, conn, peer, sent, unread, got, held, done>>

\* defer close(done): closing a closed channel panics, and a panic in a
\* goroutine without recover ends the process.
CloseDone(s) ==
  /\ Pumping(s, "exit")
  /\ pump' = [pump EXCEPT ![s] = "ended"]
  /\ IF done = "closed" THEN process' = "crashed" /\ UNCHANGED done
                        ELSE done' = "closed" /\ UNCHANGED process
  /\ UNCHANGED <<writer, handler, status, conn, peer, sent, unread, got, held>>
-----------------------------------------------------------------------------
(* The peers                                                                *)

Send(s) ==
  /\ process = "running" /\ conn[s] = "open" /\ peer[s] = "open"
  /\ Len(sent[s]) < MaxMessages
  /\ sent' = [sent EXCEPT ![s] = Append(@, Len(@) + 1)]
  /\ unread' = [unread EXCEPT ![s] = Append(@, Len(sent[s]) + 1)]
  /\ UNCHANGED <<writer, process, handler, status, conn, peer, got, pump, held, done>>

\* A peer closes or is cut off.
Leave(s) ==
  /\ peer[s] = "open" /\ conn[s] # "none"
  /\ peer' = [peer EXCEPT ![s] = "closed"]
  /\ UNCHANGED <<writer, process, handler, status, conn, sent, unread, got, pump, held, done>>

HandlerStep ==
  \/ NoTarget \/ Target \/ BadHandshake \/ NotHijackable \/ Upgrade
  \/ DialFails \/ Dial \/ WakeUp \/ Return

PumpStep(s) == Read(s) \/ ReadFails(s) \/ Write(s) \/ WriteFails(s) \/ CloseDone(s)

Next ==
  \/ HandlerStep
  \/ \E s \in Side : PumpStep(s) \/ Send(s) \/ Leave(s)

Spec == Init /\ [][Next]_vars

-----------------------------------------------------------------------------
\* Every variable keeps its type.
TypeOK ==
  /\ writer \in {"gin", "recorder"}
  /\ process \in {"running", "crashed"}
  /\ handler \in {"select", "upgrade", "dial", "wait", "close", "returned"}
  /\ status \in {0, 101, 400, 500, 503}
  /\ conn \in [Side -> {"none", "open", "closed"}]
  /\ peer \in [Side -> {"open", "closed"}]
  /\ sent \in [Side -> Seq(1..MaxMessages)]
  /\ unread \in [Side -> Seq(1..MaxMessages)]
  /\ got \in [Side -> Seq(1..MaxMessages)]
  /\ pump \in [Side -> {"none", "read", "write", "exit", "ended"}]
  /\ held \in [Side -> 0..MaxMessages]
  /\ done \in {"open", "closed"}

\* Each peer receives what the other sent, in order, nothing twice and nothing
\* skipped, until the session ends.
RelayInOrder == \A s \in Side : IsPrefix(got[Other(s)], sent[s])

\* The message that the pump of s has read and not written.
InHand(s) == IF pump[s] = "write" THEN <<held[s]>> ELSE <<>>

\* Until the handler returns, what a peer that still listens has not received is
\* what the relay holds or has not read: no message vanishes in between.  And the
\* handler gives the connections up, or the process dies, only behind a peer that
\* left; what is held or unread then is lost, also for a peer that still listens.
NothingLostInside ==
  /\ \A s \in Side :
       peer[Other(s)] = "open" /\ handler # "returned" =>
         sent[s] = got[Other(s)] \o InHand(s) \o unread[s]
  /\ (\E s \in Side : pump[s] # "none")
       /\ (handler \in {"close", "returned"} \/ process = "crashed")
     => \E s \in Side : peer[s] = "closed"

\* gateway.core.go 134-136, "Wait for either the client or the backend to close
\* the connection" and "Ensure both connections are closed gracefully": the end
\* of a session is the end of nothing else.
SessionEndsAlone == process = "running"
=============================================================================
