---------------------------- MODULE McpTransport ----------------------------
(***************************************************************************)
(* One connection of tako-mcp to an MCP server: the JSON-RPC multiplexing  *)
(* shared by stdio.rs, websocket.rs and grpc.rs.  Concurrent request()     *)
(* calls register under a fresh id, take turns at the writer, and wait; a  *)
(* reader task hands each answer to the call whose id it carries.          *)
(*                                                                         *)
(* Over streamable_http.rs, "http", each call is a POST of its own that is *)
(* answered in place, whatever id the answer carries, and one GET, made    *)
(* once, reads the notifications.                                          *)
(*                                                                         *)
(* A frame is the id of its request, or Junk when it is not JSON.  Methods,*)
(* parameters and notifications are left out: they pass through no table.  *)
(***************************************************************************)
EXTENDS Naturals, Sequences, FiniteSets

CONSTANTS
  Callers,   \* tasks that call request(), one call at a time each
  Closer,    \* the task that calls close()
  Nobody,    \* nobody holds the writer's mutex
  Kinds,     \* the transports considered: "stdio", "ws", "grpc", "http"
  Wire,      \* frames that fit between the writer and the server
  MaxId,     \* a bound: requests made on the connection
  MaxInbox   \* a bound: answers on their way to the reader

ASSUME TransportAssumption ==
  /\ IsFiniteSet(Callers)
  /\ Closer \notin Callers /\ Nobody \notin Callers \cup {Closer}
  /\ Kinds \subseteq {"stdio", "ws", "grpc", "http"}
  /\ Wire \in Nat \ {0} /\ MaxId \in Nat /\ MaxInbox \in Nat

VARIABLES
  kind,     \* which transport it is
  sse,      \* http: sse_started, and how many GETs are under way and being read
  nextId,   \* next_id
  at,       \* at[c]: where in request() caller c is
  id,       \* id[c]: the id of its request
  value,    \* value[c]: the answer it has got: the id that answer carries
  pending,  \* the ids registered
  dropped,  \* the ids whose call was dropped (a record of the past)
  holder,   \* who holds the mutex around the writer
  writer,   \* the writer: "open", or "closed" when the Option is None
  torn,     \* stdio: an unfinished line has been written
  garbled,  \* the ids whose frame was written behind an unfinished line
  wire,     \* frames the server has not read
  asked,    \* ids the server has read and not answered
  inbox,    \* answers on their way to the reader
  server,   \* "up", "mute" when it has closed its output, or "down"
  reader,   \* "running" or "exited"
  closing   \* close(): "open", "busy" or "done"

callVars == <<at, id, value>>
peerVars == <<wire, asked, inbox, server, reader>>
writerVars == <<holder, writer, torn, garbled>>
mcpVars == <<kind, sse, nextId, callVars, pending, dropped, writerVars, peerVars, closing>>

Ids == 1 .. MaxId
None == 0
Junk == 0
Blank == MaxId + 1   \* http: an answer without id, or without any result

TransportInit ==
  /\ kind \in Kinds /\ sse = [started |-> FALSE, opening |-> 0, reading |-> 0]
  /\ nextId = 1 /\ pending = {} /\ dropped = {}
  /\ at = [c \in Callers |-> "idle"]
  /\ id = [c \in Callers |-> None] /\ value = [c \in Callers |-> None]
  /\ holder = Nobody /\ writer = "open" /\ torn = FALSE /\ garbled = {}
  /\ wire = <<>> /\ asked = {} /\ inbox = <<>>
  /\ server = "up" /\ reader = "running" /\ closing = "open"

-----------------------------------------------------------------------------
(* request().                                                              *)

Busy(c) == at[c] # "idle"

Goto(c, s) == at' = [at EXCEPT ![c] = s]

(* request() is over: it returns or its future is dropped. *)
Over(c) ==
  /\ Goto(c, "idle")
  /\ id' = [id EXCEPT ![c] = None]
  /\ value' = [value EXCEPT ![c] = None]


(* A fresh id, registered before anything is sent; a POST needs no entry.  *)
Begin(c) ==
  /\ ~Busy(c) /\ nextId <= MaxId
  /\ id' = [id EXCEPT ![c] = nextId]
  /\ nextId' = nextId + 1
  /\ pending' = IF kind = "http" THEN pending ELSE pending \cup {nextId}
  /\ Goto(c, "queued")
  /\ UNCHANGED <<kind, sse, dropped, value, writerVars, peerVars, closing>>

LockWriter(c) ==
  /\ at[c] = "queued" /\ kind # "http" /\ holder = Nobody /\ writer = "open"
  /\ holder' = c
  /\ Goto(c, "writing")
  /\ UNCHANGED <<kind, sse, nextId, id, value, pending, dropped, writer, torn, garbled, peerVars, closing>>


(* The write failed: stdio returns through `?`, the others unregister.     *)
Failed(c) ==
  IF kind = "stdio" THEN Over(c) ELSE Goto(c, "failing") /\ UNCHANGED <<id, value>>

TransportClosed(c) ==
  /\ at[c] = "queued" /\ holder = Nobody /\ writer = "closed"
  /\ Failed(c)
  /\ UNCHANGED <<kind, sse, nextId, pending, dropped, writerVars, peerVars, closing>>

WriteFails(c) ==
  /\ at[c] = "writing" /\ server = "down"
  /\ holder' = Nobody
  /\ Failed(c)
  /\ UNCHANGED <<kind, sse, nextId, pending, dropped, writer, torn, garbled, peerVars, closing>>


(* The frame of request i leaves; behind an unfinished line it completes   *)
(* that line, and the server cannot parse what it gets.                    *)
Send(i) ==
  /\ server # "down" /\ Len(wire) < Wire
  /\ wire' = Append(wire, IF torn THEN Junk ELSE i)
  /\ garbled' = IF torn THEN garbled \cup {i} ELSE garbled
  /\ torn' = FALSE
  /\ UNCHANGED <<asked, inbox, server, reader>>

Write(c) ==
  /\ at[c] = "writing"
  /\ Send(id[c])
  /\ holder' = Nobody
  /\ Goto(c, "waiting")
  /\ UNCHANGED <<kind, sse, nextId, id, value, pending, dropped, writer, closing>>

(* ws, grpc: the entry of a failed write is removed. *)
Unregister(c) ==
  /\ at[c] = "failing"
  /\ pending' = pending \ {id[c]}
  /\ Over(c)
  /\ UNCHANGED <<kind, sse, nextId, dropped, writerVars, peerVars, closing>>

Answered(c) ==
  /\ at[c] = "waiting" /\ value[c] # None
  /\ Over(c)
  /\ UNCHANGED <<kind, sse, nextId, pending, dropped, writerVars, peerVars, closing>>

Cancel_KeepsLock(c) ==
  /\ Busy(c)
  /\ Over(c)
  /\ UNCHANGED <<kind, sse, nextId, pending, dropped, writerVars, peerVars, closing>>

(* The future of request() is dropped; its entry stays.  A write under way *)
(* is cut off: before or after its frame, or, on stdio, within its line.   *)
Cancel(c) ==
  /\ Busy(c)
  /\ Over(c)
  /\ IF at[c] = "writing"
     THEN /\ holder' = Nobody
          /\ \/ UNCHANGED <<torn, garbled, peerVars>>
             \/ kind # "grpc" /\ Send(id[c])
             \/ kind = "stdio" /\ torn' = TRUE /\ UNCHANGED <<garbled, peerVars>>
     ELSE UNCHANGED <<holder, torn, garbled, peerVars>>
  /\ dropped' = dropped \cup {id[c]}
  /\ UNCHANGED <<kind, sse, nextId, pending, writer, closing>>

(* http: the answer is what the response of the POST says.  The id in it is *)
(* not compared with that of the request, and a body with neither result   *)
(* nor error is the answer null.  A refused connection, an error status, a  *)
(* body that does not parse and the client's timeout are errors.           *)
PostAnswered(c) ==
  /\ kind = "http" /\ at[c] = "queued" /\ server = "up"
  /\ \E i \in Ids \cup {Blank} : value' = [value EXCEPT ![c] = i]
  /\ Goto(c, "waiting")
  /\ UNCHANGED <<kind, sse, nextId, id, pending, dropped, writerVars, peerVars, closing>>

PostFails(c) ==
  /\ kind = "http" /\ at[c] = "queued"
  /\ Over(c)
  /\ UNCHANGED <<kind, sse, nextId, pending, dropped, writerVars, peerVars, closing>>

Call(c) ==
  PostAnswered(c) \/ PostFails(c) \/ LockWriter(c) \/ TransportClosed(c) \/ WriteFails(c) \/ Write(c) \/ Unregister(c)
    \/ Answered(c)

-----------------------------------------------------------------------------
(* The reader task.                                                        *)

Deliver_ToWaiting(i) ==
  value' = [c \in Callers |-> IF id[c] = i /\ at[c] = "waiting" THEN i ELSE value[c]]

(* The entry's oneshot gets the answer; a dropped one loses it. *)
Deliver(i) ==
  value' = [c \in Callers |-> IF id[c] = i THEN i ELSE value[c]]

(* The next answer: its entry is taken out of the table, if there is one.  *)
Read ==
  /\ reader = "running" /\ inbox # <<>>
  /\ inbox' = Tail(inbox)
  /\ pending' = pending \ {Head(inbox)}
  /\ IF Head(inbox) \in pending THEN Deliver(Head(inbox)) ELSE UNCHANGED value
  /\ UNCHANGED <<kind, sse, nextId, dropped, at, id, writerVars, wire, asked, server, reader, closing>>

(* End of file, Close frame or end of stream: nothing else is done. *)
ReaderExits ==
  /\ kind # "http" /\ reader = "running" /\ server # "up" /\ inbox = <<>>
  /\ reader' = "exited"
  /\ UNCHANGED <<kind, sse, nextId, callVars, pending, dropped, writerVars, wire, asked, inbox, server, closing>>

-----------------------------------------------------------------------------
(* close().                                                                *)

(* The writer is taken out under its mutex, which ws holds on to. *)
CloseWriter ==
  /\ kind # "http" /\ closing = "open" /\ holder = Nobody
  /\ writer' = "closed" /\ closing' = "busy"
  /\ holder' = IF kind = "ws" THEN Closer ELSE Nobody
  /\ UNCHANGED <<kind, sse, nextId, callVars, pending, dropped, torn, garbled, peerVars>>

GoDown == server' = "down" /\ wire' = <<>> /\ asked' = {} /\ UNCHANGED reader

(* stdio kills the child; ws sends a Close frame and lets the mutex go;    *)
(* grpc has nothing left to do.                                            *)
CloseRest ==
  /\ closing = "busy" /\ closing' = "done"
  /\ kind = "ws" => server = "down" \/ Len(wire) < Wire
  /\ holder' = IF holder = Closer THEN Nobody ELSE holder
  /\ IF kind = "stdio" THEN GoDown /\ UNCHANGED inbox ELSE UNCHANGED peerVars
  /\ UNCHANGED <<kind, sse, nextId, callVars, pending, dropped, writer, torn, garbled>>

-----------------------------------------------------------------------------
(* http: the task that reads the notifications, and close().               *)

sseVars == <<kind, nextId, callVars, pending, dropped, writerVars, peerVars>>


(* notifications(): the first one starts the reader, for good.             *)
Subscribe ==
  /\ kind = "http" /\ ~sse.started
  /\ sse' = [sse EXCEPT !.started = TRUE, !.opening = @ + 1]
  /\ UNCHANGED <<sseVars, closing>>

SseOpens ==
  /\ sse.opening > 0 /\ server = "up"
  /\ sse' = [sse EXCEPT !.opening = @ - 1, !.reading = @ + 1]
  /\ UNCHANGED <<sseVars, closing>>

(* The GET fails, or what it reads ends or breaks.                         *)
SseEnds ==
  /\ \/ sse.opening > 0 /\ sse' = [sse EXCEPT !.opening = @ - 1]
     \/ sse.reading > 0 /\ sse' = [sse EXCEPT !.reading = @ - 1]
  /\ UNCHANGED <<sseVars, closing>>

(* close() wakes a reader that waits to be woken.  One that is just taking  *)
(* an event, or whose GET is still under way, does not hear of it.         *)
CloseSse ==
  /\ kind = "http" /\ closing = "open" /\ closing' = "done"
  /\ sse' \in {sse, [sse EXCEPT !.reading = 0]}
  /\ UNCHANGED sseVars

Sse == Subscribe \/ SseOpens \/ SseEnds \/ CloseSse

-----------------------------------------------------------------------------
(* The server.                                                             *)

serverVars == <<kind, sse, nextId, callVars, pending, dropped, writerVars, reader, closing>>

ServerReads ==
  /\ server # "down" /\ wire # <<>>
  /\ wire' = Tail(wire)
  /\ asked' = asked \cup ({Head(wire)} \ {Junk})
  /\ UNCHANGED <<serverVars, inbox, server>>

(* It answers in any order. *)
ServerAnswers ==
  /\ server = "up" /\ Len(inbox) < MaxInbox
  /\ \E i \in asked : inbox' = Append(inbox, i) /\ asked' = asked \ {i}
  /\ UNCHANGED <<serverVars, wire, server>>

(* It answers again, or what nobody asked. *)
ServerBabbles ==
  /\ kind # "http" /\ server = "up" /\ Len(inbox) < MaxInbox
  /\ \E i \in Ids : inbox' = Append(inbox, i)
  /\ UNCHANGED <<serverVars, wire, asked, server>>

(* It closes its output, and goes on reading. *)
ServerMutes ==
  /\ server = "up" /\ server' = "mute"
  /\ UNCHANGED <<serverVars, wire, asked, inbox>>

(* It exits or the connection breaks; what it has sent may be lost. *)
ServerStops ==
  /\ server # "down" /\ GoDown
  /\ inbox' \in {inbox, <<>>}
  /\ UNCHANGED <<kind, sse, nextId, callVars, pending, dropped, writerVars, closing>>

Server == ServerReads \/ ServerAnswers \/ ServerBabbles \/ ServerMutes \/ ServerStops

TransportStep ==
  \/ \E c \in Callers : Call(c)
  \/ Read \/ ReaderExits \/ CloseWriter \/ CloseRest \/ Sse \/ Server

TransportNext == TransportStep \/ \E c \in Callers : Begin(c) \/ Cancel(c)

TransportSpec == TransportInit /\ [][TransportNext]_mcpVars

-----------------------------------------------------------------------------
(* Properties.                                                             *)

(* Every variable of the connection has its type. *)
TransportTypeOK ==
  /\ kind \in Kinds /\ sse \in [started : BOOLEAN, opening : 0 .. 2, reading : 0 .. 2] /\ nextId \in 1 .. MaxId + 1
  /\ at \in [Callers -> {"idle", "queued", "writing", "failing", "waiting"}]
  /\ id \in [Callers -> Ids \cup {None}] /\ value \in [Callers -> Ids \cup {None, Blank}]
  /\ pending \subseteq Ids /\ dropped \subseteq Ids /\ garbled \subseteq Ids /\ asked \subseteq Ids
  /\ holder \in Callers \cup {Closer, Nobody} /\ writer \in {"open", "closed"}
  /\ torn \in BOOLEAN
  /\ wire \in Seq(Ids \cup {Junk}) /\ Len(wire) <= Wire
  /\ inbox \in Seq(Ids) /\ Len(inbox) <= MaxInbox
  /\ server \in {"up", "mute", "down"} /\ reader \in {"running", "exited"}
  /\ closing \in {"open", "busy", "done"}

(* A call gets the answer to its own request, whatever the server repeats, *)
(* reorders or makes up, and whatever calls of the same task were dropped: *)
(* no two calls ever share an id.  Over http the code takes the id of the  *)
(* answer on trust, and nothing is claimed of it.                          *)
AnswersMatch ==
  /\ kind # "http" => \A c \in Callers : value[c] \in {None, id[c]}
  /\ \A c, d \in Callers : id[c] = id[d] /\ id[c] # None => c = d

(* No answer is lost: until a call ends it is registered, or it already    *)
(* has its answer, even if that came before the call began to wait for it. *)
NoAnswerLost ==
  \A c \in Callers : Busy(c) /\ kind # "http" => id[c] \in pending \/ value[c] # None

(* No task keeps the writer: who holds its mutex is writing or closing.    *)
WriterHeld ==
  /\ \A c \in Callers : holder = c <=> at[c] = "writing"
  /\ holder = Closer => closing = "busy"

(* What the reader tasks of stdio, ws and grpc deliver: each answer to the *)
(* call that asked for it, and to no other (stdio.rs:81-92).               *)
Delivery == AnswersMatch /\ NoAnswerLost

(* The connection takes no more requests: the server or the writer is gone. *)
Dead == server = "down" \/ writer = "closed"

(* The table holds the calls under way and the dropped ones only: a request *)
(* that fails removes its entry.  Over stdio it does not (stdio.rs:118-129); *)
(* there a request fails only once the connection is dead, and what is left *)
(* behind then is never removed.                                           *)
NothingLeftBehind ==
  \/ kind = "stdio" /\ Dead
  \/ pending \subseteq {id[c] : c \in Callers} \cup dropped
=============================================================================
