------------------------------ MODULE LogStream ------------------------------
(***************************************************************************)
(* The log of a container, from the daemon through the handler of the      *)
(* Docker API to the page: a handler that copies chunks until the daemon   *)
(* ends the stream, whoever still listens, and an EventSource that is      *)
(* closed when the address names another container. A chunk may end inside *)
(* a line: a line comes in two pieces, and a stream counts pieces. A line  *)
(* is one of the raw stream, with the frame headers in it that the daemon  *)
(* sends for a container without a terminal.                               *)
(***************************************************************************)
EXTENDS Integers, Sequences, FiniteSets

CONSTANTS
  Ids,         \* containers
  MaxLines,    \* bound on the lines that each writes
  Past,        \* lines of the past that a stream begins with (100 in the code)
  MaxStreams,  \* bound on streams
  None         \* no id: another page is shown

\* What the constants have to be.
ParametersOk == None \notin Ids /\ {MaxLines, Past, MaxStreams} \subseteq Nat

Streams == 1..MaxStreams
Pieces == 1..(2 * MaxLines)

VARIABLES
  running,    \* containers that run
  written,    \* how many lines each has written
  id,
  stream,     \* the last stream, one per run of the effect
  mountedAt,  \* the first one since the page was opened
  idOf,       \* the container of each
  source,     \* the EventSource: "none", "open", "closed"
  handler,    \* the goroutine of the server: "none", "reading", "ended"
  read,       \* the last piece that it has read
  wire,       \* what the page makes of the chunks on their way, as pieces from and to
  logs,       \* what it has appended: container, stream and pieces from and to
  body        \* the tab on screen: "detail" or "logs", "none" before the details

pageVars == <<id, stream, mountedAt, idOf>>
vars == <<running, written, pageVars, source, handler, read, wire, logs, body>>

Init ==
  /\ running = Ids /\ written = [i \in Ids |-> 0]
  /\ id = None /\ stream = 0 /\ mountedAt = 0
  /\ idOf = [s \in Streams |-> None]
  /\ source = [s \in Streams |-> "none"] /\ handler = [s \in Streams |-> "none"]
  /\ read = [s \in Streams |-> 0] /\ wire = [s \in Streams |-> << >>]
  /\ logs = << >> /\ body = "none"
-----------------------------------------------------------------------------
(* The container *)

WriteLine(i) ==
  /\ i \in running /\ written[i] < MaxLines
  /\ written' = [written EXCEPT ![i] = @ + 1]
  /\ UNCHANGED <<running, pageVars, source, handler, read, wire, logs, body>>

Exit(i) ==
  /\ i \in running
  /\ running' = running \ {i}
  /\ UNCHANGED <<written, pageVars, source, handler, read, wire, logs, body>>
-----------------------------------------------------------------------------
(* The page *)

\* Mutant: the cleanup forgets to close the EventSource.
CleanedOpen == source

\* Cleanup of the last run of the effect.
Cleaned == [s \in Streams |-> IF s = stream THEN "closed" ELSE source[s]]

\* streamContainerLogs: a stream for every run of the effect.
Opened == [Cleaned EXCEPT ![stream + 1] = "open"]

\* The effect for another container. The lines of the last one stay.
Navigate(i) ==
  /\ i # id /\ stream < MaxStreams
  /\ id' = i /\ stream' = stream + 1
  /\ mountedAt' = IF id = None THEN stream + 1 ELSE mountedAt
  /\ idOf' = [idOf EXCEPT ![stream + 1] = i]
  /\ source' = Opened
  /\ UNCHANGED <<running, written, handler, read, wire, logs, body>>

Close ==
  /\ id # None /\ id' = None /\ mountedAt' = 0
  /\ source' = Cleaned /\ logs' = << >> /\ body' = "none"
  /\ UNCHANGED <<running, written, stream, idOf, handler, read, wire>>

\* The first answer of inspectContainer, into the tab chosen by then.
DetailsArrive(t) ==
  /\ id # None /\ body = "none" /\ body' = t
  /\ UNCHANGED <<running, written, pageVars, source, handler, read, wire, logs>>

SelectTab(t) ==
  /\ body \notin {"none", t} /\ body' = t
  /\ UNCHANGED <<running, written, pageVars, source, handler, read, wire, logs>>

\* The entries on screen. Those that come while the other tab is shown wait.
Lines == IF body = "logs" THEN logs ELSE << >>

\* onmessage: a closed EventSource delivers nothing.
Message(s) ==
  /\ wire[s] # << >>
  /\ wire' = [wire EXCEPT ![s] = Tail(@)]
  /\ logs' = IF source[s] = "open" THEN Append(logs, <<idOf[s], s, Head(wire[s])[1], Head(wire[s])[2]>>) ELSE logs
  /\ UNCHANGED <<running, written, pageVars, source, handler, read, body>>

\* onerror, when the response ends or the connection breaks: not opened again.
Error(s) ==
  /\ source[s] = "open" /\ (handler[s] = "ended" => wire[s] = << >>)
  /\ source' = [source EXCEPT ![s] = "closed"]
  /\ UNCHANGED <<running, written, pageVars, handler, read, wire, logs, body>>
-----------------------------------------------------------------------------
(* ContainerHandler.Logs *)

\* The daemon follows the container, from the last lines of its past on, or
\* refuses.
Start(s) ==
  /\ idOf[s] # None /\ handler[s] = "none"
  /\ \/ /\ handler' = [handler EXCEPT ![s] = "reading"]
        /\ read' = [read EXCEPT ![s] = IF written[idOf[s]] > Past THEN 2 * (written[idOf[s]] - Past) ELSE 0]
     \/ handler' = [handler EXCEPT ![s] = "ended"] /\ UNCHANGED read
  /\ UNCHANGED <<running, written, pageVars, source, wire, logs, body>>

\* The buffer of 1024 bytes takes what there is, or a part of it. The chunk goes
\* behind one "data:": an EventSource keeps what stands before its first line break
\* and takes the rest for unknown fields (which text that looks like a field of the
\* protocol would not be). Writing to a client that is gone fails unnoticed.
EndOfLine(p) == IF p % 2 = 1 THEN p + 1 ELSE p
FirstLine(p, n) == <<p, IF EndOfLine(p) < n THEN EndOfLine(p) ELSE n>>

Copy(s, n) ==
  /\ handler[s] = "reading" /\ n \in (read[s] + 1)..(2 * written[idOf[s]])
  /\ read' = [read EXCEPT ![s] = n]
  /\ wire' = IF source[s] = "open" THEN [wire EXCEPT ![s] = Append(@, FirstLine(read[s] + 1, n))] ELSE wire
  /\ UNCHANGED <<running, written, pageVars, source, handler, logs, body>>

\* io.EOF, once the container has stopped and all is read. Nothing else ends the
\* goroutine: neither its request nor a closed page is looked at.
End(s) ==
  /\ handler[s] = "reading" /\ idOf[s] \notin running /\ read[s] = 2 * written[idOf[s]]
  /\ handler' = [handler EXCEPT ![s] = "ended"]
  /\ UNCHANGED <<running, written, pageVars, source, read, wire, logs, body>>

Next ==
  \/ \E i \in Ids : WriteLine(i) \/ Exit(i) \/ Navigate(i)
  \/ Close \/ \E t \in {"detail", "logs"} : DetailsArrive(t) \/ SelectTab(t)
  \/ \E s \in Streams : Message(s) \/ Error(s) \/ Start(s) \/ End(s)
  \/ \E s \in Streams, n \in Pieces : Copy(s, n)

Spec == Init /\ [][Next]_vars

CopySome(s) == \E n \in Pieces : Copy(s, n)

\* The loop of the handler goes on as long as there is something to read.
HandlerFairness == \A s \in Streams : WF_vars(CopySome(s)) /\ WF_vars(End(s))
-----------------------------------------------------------------------------
\* Every variable keeps its type.
TypeOK ==
  /\ running \subseteq Ids /\ written \in [Ids -> 0..MaxLines]
  /\ id \in Ids \cup {None} /\ stream \in 0..MaxStreams /\ mountedAt \in 0..stream
  /\ idOf \in [Streams -> Ids \cup {None}]
  /\ source \in [Streams -> {"none", "open", "closed"}]
  /\ handler \in [Streams -> {"none", "reading", "ended"}]
  /\ read \in [Streams -> 0..(2 * MaxLines)]
  /\ \A s \in Streams : \A k \in DOMAIN wire[s] : wire[s][k] \in Pieces \X Pieces
  /\ \A k \in DOMAIN logs : logs[k] \in Ids \X Streams \X Pieces \X Pieces
  /\ body \in {"none", "detail", "logs"}

\* The log shows pieces of lines that were written, of one stream after the other
\* and in their order, no piece twice: nothing of an earlier container comes in
\* behind a later one. A page opened for a container shows only what that one wrote.
LogsInOrder ==
  \A k \in DOMAIN Lines :
       /\ Lines[k][3] <= Lines[k][4] /\ Lines[k][4] <= 2 * written[Lines[k][1]]
       /\ mountedAt = stream => Lines[k][1] = id
       /\ \A j \in 1..(k - 1) :
            Lines[j][2] < Lines[k][2] \/ (Lines[j][2] = Lines[k][2] /\ Lines[j][4] < Lines[k][3])

\* The goroutine of a handler ends when its container stops, also without a reader.
HandlersEnd ==
  \A s \in Streams :
    (handler[s] = "reading" /\ idOf[s] \notin running) ~> handler[s] = "ended"
=============================================================================
