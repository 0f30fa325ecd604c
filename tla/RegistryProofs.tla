---------------------------- MODULE RegistryProofs ----------------------------
(***************************************************************************)
(* What holds of ToolRegistry over McpTransport for any number of callers, *)
(* ids, tools and slots, over each transport.  The invariant is that of    *)
(* the connection, Connection, beside that of the registry's lock, Lock.   *)
(***************************************************************************)
EXTENDS ToolRegistry, FiniteSetTheorems, SequenceTheorems, TLAPS

(* The assumptions on the constants. *)
LEMMA Constants ==
  /\ IsFiniteSet(Callers) /\ Closer \notin Callers /\ Nobody \notin Callers \cup {Closer}
  /\ Kinds \subseteq {"stdio", "ws", "grpc", "http"}
  /\ Wire \in Nat \ {0} /\ MaxId \in Nat /\ MaxInbox \in Nat /\ MaxJobs \in Nat
  BY TransportAssumption, RegistryAssumption DEF TransportAssumption, RegistryAssumption

USE Constants

-----------------------------------------------------------------------------
(* The invariant of the connection, in four parts: its calls and their     *)
(* table, the writer, the reader over http, and the server's side.         *)

CallTypes ==
  /\ kind \in Kinds /\ nextId \in 1 .. MaxId + 1
  /\ at \in [Callers -> {"idle", "queued", "writing", "failing", "waiting"}]
  /\ id \in [Callers -> Ids \cup {None}] /\ value \in [Callers -> Ids \cup {None, Blank}]
  /\ pending \subseteq Ids /\ dropped \subseteq Ids

(* An id belongs to one call, for as long as the call lasts, and was given *)
(* out before; so were the ids of the table.                               *)
IdsAreFresh ==
  /\ \A c \in Callers : Busy(c) <=> id[c] # None
  /\ \A c \in Callers : id[c] < nextId
  /\ \A i \in pending : i < nextId
  /\ \A c, d \in Callers : id[c] = id[d] /\ id[c] # None => c = d

(* An answer is the call's own, and takes its entry out of the table; over *)
(* http there is no table, and the answer is whatever the response says.   *)
AnswersTaken ==
  /\ kind # "http" => \A c \in Callers : value[c] \in {None, id[c]}
  /\ \A c \in Callers : value[c] # None => id[c] \notin pending
  /\ kind = "http" => pending = {}

Calls == CallTypes /\ IdsAreFresh /\ AnswersTaken /\ NoAnswerLost /\ NothingLeftBehind

WriterTypes ==
  /\ holder \in Callers \cup {Closer, Nobody} /\ writer \in {"open", "closed"}
  /\ torn \in BOOLEAN /\ garbled \subseteq Ids
  /\ closing \in {"open", "busy", "done"}

Writer == WriterTypes /\ WriterHeld

(* The reader of the notifications is started once. *)
SseOnce ==
  /\ sse \in [started : BOOLEAN, opening : 0 .. 2, reading : 0 .. 2]
  /\ sse.opening + sse.reading <= 1
  /\ ~sse.started => sse.opening = 0 /\ sse.reading = 0

PeerTypes ==
  /\ asked \subseteq Ids
  /\ wire \in Seq(Ids \cup {Junk}) /\ Len(wire) <= Wire
  /\ inbox \in Seq(Ids) /\ Len(inbox) <= MaxInbox
  /\ server \in {"up", "mute", "down"} /\ reader \in {"running", "exited"}

Connection == Calls /\ Writer /\ SseOnce /\ PeerTypes

(* What the connection promises is part of its invariant. *)
LEMMA ConnectionIsSafe ==
  Connection => TransportTypeOK /\ Delivery /\ WriterHeld /\ NothingLeftBehind
  <1> SUFFICES ASSUME Connection PROVE TransportTypeOK /\ Delivery /\ WriterHeld /\ NothingLeftBehind
    OBVIOUS
  <1>1. TransportTypeOK
    BY DEF Connection, Calls, CallTypes, Writer, WriterTypes, SseOnce, PeerTypes, TransportTypeOK
  <1>2. Delivery
    BY DEF Connection, Calls, IdsAreFresh, AnswersTaken, Delivery, AnswersMatch
  <1> QED
    BY <1>1, <1>2 DEF Connection, Calls, Writer

LEMMA ConnectionInit == TransportInit => Connection
  <1> SUFFICES ASSUME TransportInit PROVE Connection
    OBVIOUS
  <1> USE DEF TransportInit, None, Blank, Ids, Junk
  <1>1. CallTypes
    BY DEF CallTypes
  <1>2. IdsAreFresh /\ AnswersTaken /\ NoAnswerLost /\ NothingLeftBehind
    BY DEF IdsAreFresh, AnswersTaken, NoAnswerLost, NothingLeftBehind, Busy
  <1>3. WriterTypes /\ WriterHeld
    BY DEF WriterTypes, WriterHeld
  <1>5. SseOnce
    BY DEF SseOnce
  <1>4. PeerTypes
    <2>1. wire \in Seq(Ids \cup {Junk}) /\ Len(wire) = 0 /\ inbox \in Seq(Ids) /\ Len(inbox) = 0
      BY EmptySeq
    <2> QED
      BY <2>1 DEF PeerTypes
  <1> QED
    BY <1>1, <1>2, <1>3, <1>4, <1>5 DEF Connection, Calls, Writer

-----------------------------------------------------------------------------
(* The steps of the connection. *)

(* A part whose variables stay as they are holds on. *)
LEMMA Untouched ==
  /\ Calls /\ (Dead => Dead') /\ UNCHANGED <<kind, nextId, callVars, pending, dropped>> => Calls'
  /\ Writer /\ UNCHANGED <<at, writerVars, closing>> => Writer'
  /\ SseOnce /\ UNCHANGED sse => SseOnce'
  /\ PeerTypes /\ UNCHANGED peerVars => PeerTypes'
  <1> USE DEF callVars, writerVars, peerVars
  <1>1. Calls /\ (Dead => Dead') /\ UNCHANGED <<kind, nextId, callVars, pending, dropped>> => Calls'
    BY DEF Calls, CallTypes, IdsAreFresh, AnswersTaken, NoAnswerLost, NothingLeftBehind, Busy
  <1>2. Writer /\ UNCHANGED <<at, writerVars, closing>> => Writer'
    BY DEF Writer, WriterTypes, WriterHeld
  <1>3. SseOnce /\ UNCHANGED sse => SseOnce'
    BY DEF SseOnce
  <1>4. PeerTypes /\ UNCHANGED peerVars => PeerTypes'
    BY DEF PeerTypes
  <1> QED
    BY <1>1, <1>2, <1>3, <1>4

(* request() ends, or is dropped, and leaves no entry but a dropped one,   *)
(* unless it fails over stdio on a connection that is dead.                *)
LEMMA OverKeepsCalls ==
  ASSUME Calls, NEW c \in Callers, Busy(c), Over(c), UNCHANGED <<kind, nextId>>, Dead => Dead',
         pending' = pending \/ pending' = pending \ {id[c]},
         dropped' = dropped \/ dropped' = dropped \cup {id[c]},
         ~(kind = "stdio" /\ Dead) => id[c] \in dropped' \/ id[c] \notin pending'
  PROVE  Calls'
  <1> USE DEF Calls, Over, Goto, None
  <1>1. CallTypes'
    BY DEF CallTypes, IdsAreFresh
  <1>2. IdsAreFresh'
    BY DEF CallTypes, IdsAreFresh, Busy
  <1>3. AnswersTaken'
    BY DEF CallTypes, AnswersTaken
  <1>4. NoAnswerLost'
    BY DEF CallTypes, IdsAreFresh, NoAnswerLost, Busy
  <1>5. NothingLeftBehind'
    <2> SUFFICES ASSUME ~(kind = "stdio" /\ Dead), NEW i \in pending', i \notin dropped'
                 PROVE  \E d \in Callers : i = id'[d]
      BY DEF NothingLeftBehind
    <2>1. PICK d \in Callers : i = id[d]
      BY DEF NothingLeftBehind
    <2> QED
      BY <2>1 DEF CallTypes
  <1> QED
    BY <1>1, <1>2, <1>3, <1>4, <1>5

(* request() goes on, perhaps with the answer of its POST.                 *)
LEMMA GotoKeepsCalls ==
  ASSUME Calls, NEW c \in Callers, Busy(c), NEW s \in {"writing", "failing", "waiting"}, Goto(c, s),
         UNCHANGED <<kind, nextId, id, pending, dropped>>, Dead => Dead',
         \/ value' = value
         \/ kind = "http" /\ \E i \in Ids \cup {Blank} : value' = [value EXCEPT ![c] = i]
  PROVE  Calls'
  <1>1. CallTypes' /\ IdsAreFresh'
    BY DEF Calls, Goto, CallTypes, IdsAreFresh, Busy, None
  <1>2. AnswersTaken' /\ NoAnswerLost' /\ NothingLeftBehind'
    BY DEF Calls, Goto, CallTypes, AnswersTaken, NoAnswerLost, NothingLeftBehind, Busy, None
  <1> QED
    BY <1>1, <1>2 DEF Calls

LEMMA BeginKeepsConnection == ASSUME Connection, NEW c \in Callers, Begin(c) PROVE Connection'
  <1> USE DEF Begin, Connection, Goto, None, callVars
  <1>1. CallTypes'
    BY DEF Calls, CallTypes, Ids
  <1>2. IdsAreFresh'
    <2>1. nextId \in Nat \ {0} /\ nextId' = nextId + 1
      BY DEF Calls, CallTypes
    <2>2. \A d \in Callers : /\ id'[d] = IF d = c THEN nextId ELSE id[d]
                             /\ at'[d] = IF d = c THEN "queued" ELSE at[d]
      BY DEF Calls, CallTypes
    <2>3. \A d \in Callers : id[d] \in Nat
      BY DEF Calls, CallTypes, Ids
    <2>4. /\ \A d \in Callers : (at[d] # "idle" <=> id[d] # 0) /\ id[d] < nextId
          /\ \A d, e \in Callers : id[d] = id[e] /\ id[d] # 0 => d = e
      BY DEF Calls, IdsAreFresh, Busy
    <2>5. \A j \in pending' : j < nextId'
      BY <2>1 DEF Calls, CallTypes, IdsAreFresh, Ids
    <2>6. \A d \in Callers : (at'[d] # "idle" <=> id'[d] # 0) /\ id'[d] < nextId'
      BY <2>1, <2>2, <2>3, <2>4
    <2>7. \A d, e \in Callers : id'[d] = id'[e] /\ id'[d] # 0 => d = e
      BY <2>1, <2>2, <2>3, <2>4
    <2> HIDE DEF Begin
    <2> QED
      BY <2>5, <2>6, <2>7 DEF IdsAreFresh, Busy
  <1>3. AnswersTaken'
    BY DEF Calls, CallTypes, IdsAreFresh, AnswersTaken, Busy
  <1>4. NoAnswerLost'
    BY DEF Calls, CallTypes, NoAnswerLost, Busy
  <1>5. NothingLeftBehind'
    <2> SUFFICES ASSUME ~(kind = "stdio" /\ Dead), NEW i \in pending', i \notin dropped
                 PROVE  \E d \in Callers : i = id'[d]
      BY DEF NothingLeftBehind, Dead, writerVars, peerVars
    <2>1. CASE i = nextId
      BY <2>1 DEF Calls, CallTypes
    <2>2. CASE i \in pending
      <3>1. PICK d \in Callers : i = id[d]
        BY <2>2 DEF Calls, NothingLeftBehind
      <3>2. id[d] # None
        BY <2>2, <3>1 DEF Calls, CallTypes, Ids
      <3>3. d # c
        BY <3>2 DEF Calls, IdsAreFresh
      <3> QED
        BY <3>1, <3>3 DEF Calls, CallTypes
    <2> QED
      BY <2>1, <2>2
  <1>6. Writer'
    BY DEF Calls, CallTypes, Writer, WriterTypes, WriterHeld, writerVars, Busy
  <1> QED
    BY <1>1, <1>2, <1>3, <1>4, <1>5, <1>6, Untouched DEF Calls

(* The reader takes the next answer out of the table, and hands it over.   *)
LEMMA ReadKeepsConnection == ASSUME Connection, Read PROVE Connection'
  <1> USE DEF Read, Connection
  <1>1. /\ Head(inbox) \in Ids /\ Tail(inbox) \in Seq(Ids)
        /\ Len(Tail(inbox)) = Len(inbox) - 1
    BY HeadTailProperties DEF PeerTypes
  <1> DEFINE i == Head(inbox)
  <1>2. /\ value' \in [Callers -> Ids \cup {None, Blank}]
        /\ \A c \in Callers : value'[c] = IF id[c] = i /\ i \in pending THEN i ELSE value[c]
    BY <1>1 DEF Deliver, Calls, CallTypes
  <1>3. UNCHANGED <<kind, nextId, at, id, dropped>> /\ pending' = pending \ {i}
    OBVIOUS
  <1> HIDE DEF i
  <1>4. CallTypes' /\ IdsAreFresh'
    BY <1>2, <1>3 DEF Calls, CallTypes, IdsAreFresh, Busy
  <1>5. AnswersTaken'
    BY <1>1, <1>2, <1>3 DEF Calls, CallTypes, AnswersTaken, i
  <1>6. NoAnswerLost'
    BY <1>1, <1>2, <1>3 DEF Calls, CallTypes, IdsAreFresh, NoAnswerLost, Busy, None, Ids, i
  <1>7. NothingLeftBehind'
    BY <1>3 DEF Calls, NothingLeftBehind, Dead, writerVars
  <1>8. PeerTypes'
    BY <1>1 DEF PeerTypes, writerVars
  <1> QED
    BY <1>4, <1>5, <1>6, <1>7, <1>8, Untouched DEF Calls

(* A frame goes into the wire, if there is room for it.                    *)
LEMMA SendTypes ==
  ASSUME PeerTypes, WriterTypes, NEW i \in Ids, Send(i)
  PROVE  PeerTypes' /\ torn' \in BOOLEAN /\ garbled' \subseteq Ids
  <1> DEFINE f == IF torn THEN Junk ELSE i
  <1>1. f \in Ids \cup {Junk}
    OBVIOUS
  <1>2. Append(wire, f) \in Seq(Ids \cup {Junk}) /\ Len(Append(wire, f)) = Len(wire) + 1
    BY <1>1, AppendProperties DEF PeerTypes
  <1>3. Len(wire) \in Nat /\ Len(wire) < Wire
    BY DEF PeerTypes, Send
  <1>4. wire' = Append(wire, f)
    BY DEF Send
  <1> HIDE DEF f
  <1>5. PeerTypes'
    BY <1>2, <1>3, <1>4 DEF PeerTypes, Send
  <1> QED
    BY <1>5 DEF WriterTypes, Send

-----------------------------------------------------------------------------
(* The steps of a call, one by one. *)

LEMMA LockKeepsConnection == ASSUME Connection, NEW c \in Callers, LockWriter(c) PROVE Connection'
  <1> USE DEF LockWriter, Connection
  <1>0. Dead => Dead'
    BY DEF Dead, peerVars
  <1>1. Calls'
    BY <1>0, GotoKeepsCalls DEF Busy
  <1>2. Writer'
    BY DEF Goto, Calls, CallTypes, Writer, WriterTypes, WriterHeld
  <1> QED
    BY <1>1, <1>2, Untouched

(* What becomes of a write that fails: its entry stays until it is removed, *)
(* and over stdio for good, but then the connection is dead.               *)
LEMMA FailedKeepsCalls ==
  ASSUME Calls, NEW c \in Callers, Busy(c), Failed(c), UNCHANGED <<kind, nextId, pending, dropped>>,
         Dead => Dead', kind = "stdio" => Dead
  PROVE  Calls' /\ at' \in [Callers -> {"idle", "queued", "writing", "failing", "waiting"}]
         /\ at'[c] # "writing" /\ \A d \in Callers \ {c} : at'[d] = at[d]
  <1>1. Calls'
    BY OverKeepsCalls, GotoKeepsCalls DEF Failed
  <1> QED
    BY <1>1 DEF Calls, CallTypes, Failed, Over, Goto

LEMMA ClosedKeepsConnection == ASSUME Connection, NEW c \in Callers, TransportClosed(c) PROVE Connection'
  <1> USE DEF TransportClosed, Connection
  <1>0. Dead /\ Dead'
    BY DEF Dead, writerVars, peerVars
  <1>1. Calls' /\ at'[c] # "writing" /\ \A d \in Callers \ {c} : at'[d] = at[d]
    BY <1>0, FailedKeepsCalls DEF Busy
  <1>2. Writer'
    BY <1>1 DEF Calls, CallTypes, Writer, WriterTypes, WriterHeld, writerVars
  <1> QED
    BY <1>1, <1>2, Untouched

LEMMA WriteFailsKeepsConnection == ASSUME Connection, NEW c \in Callers, WriteFails(c) PROVE Connection'
  <1> USE DEF WriteFails, Connection
  <1>0. Dead /\ Dead'
    BY DEF Dead, peerVars
  <1>1. Calls' /\ at'[c] # "writing" /\ \A d \in Callers \ {c} : at'[d] = at[d]
    BY <1>0, FailedKeepsCalls DEF Busy
  <1>2. Writer'
    BY <1>1 DEF Calls, CallTypes, Writer, WriterTypes, WriterHeld
  <1> QED
    BY <1>1, <1>2, Untouched

LEMMA WriteKeepsConnection == ASSUME Connection, NEW c \in Callers, Write(c) PROVE Connection'
  <1> USE DEF Write, Connection
  <1>0. Dead => Dead'
    BY DEF Dead, Send
  <1>1. Calls'
    BY <1>0, GotoKeepsCalls DEF Busy
  <1>2. id[c] \in Ids
    BY DEF Calls, CallTypes, IdsAreFresh, Busy
  <1>3. PeerTypes' /\ torn' \in BOOLEAN /\ garbled' \subseteq Ids
    BY <1>2, SendTypes DEF Writer
  <1>4. Writer'
    BY <1>3 DEF Goto, Calls, CallTypes, Writer, WriterTypes, WriterHeld
  <1> QED
    BY <1>1, <1>3, <1>4, Untouched

(* The call is over and held nothing.                                      *)
LEMMA OverKeepsWriter ==
  ASSUME Calls, Writer, NEW c \in Callers, at[c] # "writing", Over(c), UNCHANGED <<writerVars, closing>>
  PROVE  Writer'
  BY DEF Over, Goto, Calls, CallTypes, Writer, WriterTypes, WriterHeld, writerVars

LEMMA ReturnsKeepConnection ==
  ASSUME Connection, NEW c \in Callers, Unregister(c) \/ Answered(c) \/ PostFails(c)
  PROVE  Connection'
  <1> USE DEF Unregister, Answered, PostFails, Connection
  <1>0. Dead => Dead'
    BY DEF Dead, writerVars, peerVars
  <1>1. Calls'
    <2>1. CASE Unregister(c)
      BY <1>0, <2>1, OverKeepsCalls DEF Busy
    <2>2. CASE Answered(c)
      BY <1>0, <2>2, OverKeepsCalls DEF Busy, Calls, AnswersTaken
    <2>3. CASE PostFails(c)
      BY <1>0, <2>3, OverKeepsCalls DEF Busy, Calls, AnswersTaken
    <2> QED
      BY <2>1, <2>2, <2>3
  <1>2. Writer'
    BY OverKeepsWriter
  <1> QED
    BY <1>1, <1>2, Untouched

LEMMA PostAnsweredKeepsConnection ==
  ASSUME Connection, NEW c \in Callers, PostAnswered(c)
  PROVE  Connection'
  <1> USE DEF PostAnswered, Connection
  <1>0. Dead => Dead'
    BY DEF Dead, writerVars, peerVars
  <1>1. Calls'
    BY <1>0, GotoKeepsCalls DEF Busy
  <1>2. Writer'
    BY DEF Goto, Calls, CallTypes, Writer, WriterTypes, WriterHeld, writerVars
  <1> QED
    BY <1>1, <1>2, Untouched

(* Dropped at any await, a call gives back the writer.                     *)
LEMMA CancelKeepsConnection == ASSUME Connection, NEW c \in Callers, Cancel(c) PROVE Connection'
  <1> USE DEF Cancel, Connection
  <1>0. Dead => Dead'
    BY DEF Dead, Send, peerVars
  <1>1. Calls'
    BY <1>0, OverKeepsCalls
  <1>2. id[c] \in Ids
    BY DEF Calls, CallTypes, IdsAreFresh
  <1>3. CASE at[c] = "writing"
    <2>1. PeerTypes' /\ torn' \in BOOLEAN /\ garbled' \subseteq Ids
      BY <1>2, <1>3, SendTypes, Untouched DEF Writer, WriterTypes
    <2>2. Writer'
      BY <1>3, <2>1 DEF Over, Goto, Calls, CallTypes, Writer, WriterTypes, WriterHeld
    <2> QED
      BY <1>1, <2>1, <2>2, Untouched
  <1>4. CASE at[c] # "writing"
    BY <1>1, <1>4, OverKeepsWriter, Untouched DEF writerVars
  <1> QED
    BY <1>3, <1>4

(* Any step of a call.                                                     *)
LEMMA CallKeepsConnection ==
  ASSUME Connection, NEW c \in Callers, Call(c) \/ Begin(c) \/ Cancel(c)
  PROVE  Connection'
  BY LockKeepsConnection, ClosedKeepsConnection, WriteFailsKeepsConnection, WriteKeepsConnection,
     ReturnsKeepConnection, PostAnsweredKeepsConnection, BeginKeepsConnection, CancelKeepsConnection
  DEF Call

-----------------------------------------------------------------------------
(* The reader, close() and the server. *)

LEMMA CloseKeepsConnection == ASSUME Connection, CloseWriter \/ CloseRest PROVE Connection'
  <1> USE DEF Connection
  <1>0. Dead => Dead'
    BY DEF CloseWriter, CloseRest, GoDown, Dead, peerVars
  <1>1. CASE CloseWriter
    <2>1. Writer'
      BY <1>1 DEF CloseWriter, Writer, WriterTypes, WriterHeld, callVars
    <2> QED
      BY <1>1, <1>0, <2>1, Untouched DEF CloseWriter
  <1>2. CASE CloseRest
    <2>1. Writer'
      BY <1>2 DEF CloseRest, Writer, WriterTypes, WriterHeld, callVars
    <2>2. PeerTypes'
      <3>1. CASE kind = "stdio"
        BY <1>2, <3>1, EmptySeq DEF CloseRest, GoDown, PeerTypes
      <3>2. CASE kind # "stdio"
        BY <1>2, <3>2, Untouched DEF CloseRest
      <3> QED
        BY <3>1, <3>2
    <2> QED
      BY <1>2, <1>0, <2>1, <2>2, Untouched DEF CloseRest
  <1> QED
    BY <1>1, <1>2

LEMMA SseKeepsConnection == ASSUME Connection, Sse PROVE Connection'
  <1> USE DEF Connection
  <1>1. SseOnce'
    <2>1. /\ sse = [started |-> sse.started, opening |-> sse.opening, reading |-> sse.reading]
          /\ sse.started \in BOOLEAN /\ sse.opening \in 0 .. 2 /\ sse.reading \in 0 .. 2
          /\ sse.opening + sse.reading <= 1
          /\ ~sse.started => sse.opening = 0 /\ sse.reading = 0
      BY DEF SseOnce
    <2>2. ASSUME NEW s \in BOOLEAN, NEW o \in Nat, NEW r \in Nat, o + r <= 1, ~s => o = 0 /\ r = 0,
                 sse' = [started |-> s, opening |-> o, reading |-> r]
          PROVE  SseOnce'
      BY <2>2 DEF SseOnce
    <2>3. CASE Subscribe
      <3>1. sse.opening = 0 /\ sse.reading = 0 /\ sse.opening + 1 = 1
        BY <2>1, <2>3 DEF Subscribe
      <3>2. sse' = [started |-> TRUE, opening |-> sse.opening + 1, reading |-> sse.reading]
        BY <2>1, <2>3 DEF Subscribe
      <3>3. sse' = [started |-> TRUE, opening |-> 1, reading |-> 0]
        BY <3>1, <3>2, Zenon
      <3> QED
        BY ONLY <3>3 DEF SseOnce
    <2>4. CASE SseOpens
      <3>1. sse.started = TRUE /\ sse.opening - 1 = 0 /\ sse.reading + 1 = 1
        BY <2>1, <2>4 DEF SseOpens
      <3>2. sse' = [started |-> sse.started, opening |-> sse.opening - 1, reading |-> sse.reading + 1]
        BY <2>1, <2>4 DEF SseOpens
      <3>3. sse' = [started |-> TRUE, opening |-> 0, reading |-> 1]
        BY <3>1, <3>2, Zenon
      <3> QED
        BY ONLY <3>3 DEF SseOnce
    <2>5. CASE SseEnds
      <3>1. CASE sse.opening > 0 /\ sse' = [sse EXCEPT !.opening = @ - 1]
        <4>1. sse' = [started |-> sse.started, opening |-> sse.opening - 1, reading |-> sse.reading]
          BY <2>1, <3>1
        <4> QED
          BY <2>1, <2>2, <3>1, <4>1
      <3>2. CASE sse.reading > 0 /\ sse' = [sse EXCEPT !.reading = @ - 1]
        <4>1. sse' = [started |-> sse.started, opening |-> sse.opening, reading |-> sse.reading - 1]
          BY <2>1, <3>2
        <4> QED
          BY <2>1, <2>2, <3>2, <4>1
      <3> QED
        BY <2>5, <3>1, <3>2 DEF SseEnds
    <2>6. CASE CloseSse
      <3>1. CASE sse' = sse
        BY <3>1 DEF SseOnce
      <3>2. CASE sse' = [sse EXCEPT !.reading = 0]
        <4>1. sse' = [started |-> sse.started, opening |-> sse.opening, reading |-> 0]
          BY <2>1, <3>2
        <4> QED
          BY <2>1, <2>2, <4>1
      <3> QED
        BY <2>6, <3>1, <3>2 DEF CloseSse
    <2> QED
      BY <2>3, <2>4, <2>5, <2>6 DEF Sse
  <1>2. Writer'
    <2>1. at' = at /\ UNCHANGED writerVars
      BY DEF Sse, Subscribe, SseOpens, SseEnds, CloseSse, sseVars, callVars
    <2>2. closing' = closing \/ (closing = "open" /\ closing' = "done")
      BY DEF Sse, Subscribe, SseOpens, SseEnds, CloseSse
    <2> QED
      BY <2>1, <2>2 DEF Writer, WriterTypes, WriterHeld, writerVars
  <1>3. UNCHANGED <<kind, nextId, callVars, pending, dropped, peerVars>>
    BY DEF Sse, Subscribe, SseOpens, SseEnds, CloseSse, sseVars
  <1>4. Dead => Dead'
    BY DEF Sse, Subscribe, SseOpens, SseEnds, CloseSse, sseVars, writerVars, peerVars, Dead
  <1> QED
    BY <1>1, <1>2, <1>3, <1>4, Untouched

LEMMA ServerKeepsConnection == ASSUME Connection, Server \/ ReaderExits PROVE Connection'
  <1> USE DEF Connection
  <1>1. PeerTypes'
    <2>1. CASE ServerReads
      <3>1. /\ Head(wire) \in Ids \cup {Junk} /\ Tail(wire) \in Seq(Ids \cup {Junk})
            /\ Len(Tail(wire)) = Len(wire) - 1 /\ Len(wire) \in Nat
        BY <2>1, HeadTailProperties DEF ServerReads, PeerTypes
      <3> QED
        BY <2>1, <3>1 DEF ServerReads, serverVars, PeerTypes
    <2>2. CASE ServerAnswers \/ ServerBabbles
      <3>1. PICK i \in Ids : inbox' = Append(inbox, i)
        BY <2>2 DEF ServerAnswers, ServerBabbles, PeerTypes
      <3>2. inbox' \in Seq(Ids) /\ Len(inbox') = Len(inbox) + 1 /\ Len(inbox) \in Nat
        BY <3>1, AppendProperties DEF PeerTypes
      <3> QED
        BY <2>2, <3>2 DEF ServerAnswers, ServerBabbles, serverVars, PeerTypes
    <2>3. CASE ServerMutes \/ ReaderExits
      BY <2>3 DEF ServerMutes, ReaderExits, serverVars, PeerTypes
    <2>4. CASE ServerStops
      <3>1. wire' \in Seq(Ids \cup {Junk}) /\ Len(wire') <= Wire
        BY <2>4, EmptySeq DEF ServerStops, GoDown
      <3>2. inbox' \in Seq(Ids) /\ Len(inbox') <= MaxInbox
        <4>1. CASE inbox' = inbox
          BY <4>1 DEF PeerTypes
        <4>2. CASE inbox' = <<>>
          BY <4>2, EmptySeq
        <4> QED
          BY <2>4, <4>1, <4>2 DEF ServerStops
      <3>3. asked' \subseteq Ids /\ server' = "down" /\ reader' = reader
        BY <2>4 DEF ServerStops, GoDown
      <3> QED
        BY <3>1, <3>2, <3>3 DEF PeerTypes
    <2> QED
      BY <2>1, <2>2, <2>3, <2>4 DEF Server
  <1>2. UNCHANGED <<kind, nextId, callVars, pending, dropped, writerVars, closing, sse>>
    BY DEF Server, ServerReads, ServerAnswers, ServerBabbles, ServerMutes, ServerStops, ReaderExits,
           serverVars
  <1>3. Dead => Dead'
    BY <1>2 DEF Server, ServerReads, ServerAnswers, ServerBabbles, ServerMutes, ServerStops, ReaderExits,
                serverVars, writerVars, GoDown, Dead
  <1> QED
    BY <1>1, <1>2, <1>3, Untouched DEF callVars

(* Any step of the connection.                                             *)
LEMMA TransportKeepsConnection == ASSUME Connection, TransportStep PROVE Connection'
  BY CallKeepsConnection, ReadKeepsConnection, CloseKeepsConnection, SseKeepsConnection,
     ServerKeepsConnection
  DEF TransportStep

LEMMA SameConnection == Connection /\ UNCHANGED mcpVars => Connection'
  BY Untouched DEF Connection, mcpVars, callVars, writerVars, peerVars, Dead

-----------------------------------------------------------------------------
(* The queue for the lock: who waits, waits once.                          *)

Places == Callers \X {"read", "write"}

Queued(q, W) ==
  /\ q \in Seq(Places)
  /\ \A i, j \in DOMAIN q : q[i][1] = q[j][1] => i = j
  /\ \A c \in Callers : c \in W <=> \E i \in DOMAIN q : q[i][1] = c

LEMMA QueueJoined ==
  ASSUME NEW q, NEW W, Queued(q, W), NEW c \in Callers, c \notin W, NEW how \in {"read", "write"}
  PROVE  Queued(Append(q, <<c, how>>), W \cup {c})
  <1> DEFINE p == <<c, how>>
             r == Append(q, p)
  <1>1. p \in Places /\ p[1] = c
    BY DEF Places
  <1>2. q \in Seq(Places) /\ DOMAIN q = 1 .. Len(q) /\ Len(q) \in Nat
    BY LenProperties DEF Queued
  <1> HIDE DEF p
  <1>3. /\ r \in Seq(Places) /\ DOMAIN r = 1 .. Len(q) + 1
        /\ r[Len(q) + 1] = p /\ \A i \in 1 .. Len(q) : r[i] = q[i]
    BY <1>1, <1>2, AppendProperties, LenProperties
  <1> HIDE DEF r
  <1>4. \A i \in 1 .. Len(q) : q[i][1] # c
    BY <1>2 DEF Queued
  <1>5. \A i, j \in DOMAIN r : r[i][1] = r[j][1] => i = j
    BY <1>1, <1>2, <1>3, <1>4 DEF Queued
  <1>6. ASSUME NEW d \in Callers PROVE d \in W \cup {c} <=> \E i \in DOMAIN r : r[i][1] = d
    BY <1>1, <1>2, <1>3 DEF Queued
  <1> QED
    BY <1>3, <1>5, <1>6 DEF Queued, r, p

LEMMA QueueServed ==
  ASSUME NEW q, NEW W, Queued(q, W), q # <<>>, NEW c \in Callers, Head(q)[1] = c
  PROVE  Queued(Tail(q), W \ {c})
  <1> DEFINE r == Tail(q)
  <1>1. q \in Seq(Places) /\ DOMAIN q = 1 .. Len(q) /\ Len(q) \in Nat \ {0}
    BY LenProperties, EmptySeq DEF Queued
  <1>2. /\ r \in Seq(Places) /\ DOMAIN r = 1 .. Len(q) - 1
        /\ \A i \in 1 .. Len(q) - 1 : r[i] = q[i + 1]
        /\ q[1][1] = c
    BY <1>1, HeadTailProperties, LenProperties DEF Queued
  <1> HIDE DEF r
  <1>3. \A i \in DOMAIN r : i + 1 \in DOMAIN q /\ r[i][1] = q[i + 1][1]
    BY <1>1, <1>2
  <1>4. \A i, j \in DOMAIN r : r[i][1] = r[j][1] => i = j
    <2> SUFFICES ASSUME NEW i \in DOMAIN r, NEW j \in DOMAIN r, r[i][1] = r[j][1] PROVE i = j
      OBVIOUS
    <2>1. i + 1 = j + 1
      BY <1>3 DEF Queued
    <2> QED
      BY <2>1, <1>2
  <1>5. ASSUME NEW d \in Callers PROVE d \in W \ {c} <=> \E i \in DOMAIN r : r[i][1] = d
    <2>1. ASSUME NEW i \in DOMAIN r, r[i][1] = d PROVE d \in W \ {c}
      <3>1. d \in W
        BY <1>3, <2>1 DEF Queued
      <3>2. d # c
        BY <1>1, <1>2, <1>3, <2>1 DEF Queued
      <3> QED
        BY <3>1, <3>2
    <2>2. ASSUME d \in W \ {c} PROVE \E i \in DOMAIN r : r[i][1] = d
      <3>1. PICK k \in DOMAIN q : q[k][1] = d
        BY <2>2 DEF Queued
      <3>2. k - 1 \in DOMAIN r /\ (k - 1) + 1 = k
        BY <1>1, <1>2, <2>2, <3>1
      <3> QED
        BY <1>3, <3>1, <3>2
    <2> QED
      BY <2>1, <2>2
  <1> QED
    BY <1>2, <1>4, <1>5 DEF Queued, r

(* Who gives up waiting leaves the others in their order. *)
LEMMA QueueLeft ==
  ASSUME NEW W, Queued(queue, W), NEW c \in Callers
  PROVE  Queued(Without(c), W \ {c})
  <1>1. queue \in Seq(Places) /\ DOMAIN queue = 1 .. Len(queue) /\ Len(queue) \in Nat
    BY LenProperties DEF Queued
  <1>2. CASE ~Waits(c)
    BY <1>2 DEF Waits, Without, Queued
  <1>3. CASE Waits(c)
    <2> DEFINE p == Place(c)
               n == Len(queue) - 1
               r == [j \in 1 .. n |-> IF j < p THEN queue[j] ELSE queue[j + 1]]
               Old(j) == IF j < p THEN j ELSE j + 1
    <2>1. p \in DOMAIN queue /\ queue[p][1] = c
      BY <1>3 DEF Waits, Place
    <2> HIDE DEF p
    <2>2. p \in 1 .. Len(queue) /\ n \in Nat /\ Len(queue) = n + 1
      BY <1>1, <2>1
    <2>3. \A j \in 1 .. n : Old(j) \in DOMAIN queue /\ Old(j) # p /\ r[j] = queue[Old(j)]
      BY <1>1, <2>2
    <2>4. \A j, k \in 1 .. n : Old(j) = Old(k) => j = k
      BY <2>2
    <2>5. \A k \in DOMAIN queue : k # p => \E j \in 1 .. n : Old(j) = k
      <3> TAKE k \in DOMAIN queue
      <3>1. CASE k < p
        <4>1. k \in 1 .. n /\ Old(k) = k
          BY <1>1, <2>2, <3>1
        <4> QED
          BY <4>1
      <3>2. CASE k > p
        <4>1. k - 1 \in 1 .. n /\ Old(k - 1) = k
          BY <1>1, <2>2, <3>2
        <4> QED
          BY <4>1
      <3> QED
        BY <1>1, <2>2, <3>1, <3>2
    <2>6. r = Without(c)
      BY <1>3 DEF Without, p
    <2>7. DOMAIN r = 1 .. n
      OBVIOUS
    <2> HIDE DEF n, Old
    <2>8. r \in Seq(Places)
      <3>1. \A j \in 1 .. n : queue[Old(j)] \in Places
        BY <1>1, <2>3, ElementOfSeq
      <3> QED
        BY <2>2, <2>3, <3>1, IsASeq
    <2> HIDE DEF r
    <2>9. \A i, j \in DOMAIN r : r[i][1] = r[j][1] => i = j
      <3> SUFFICES ASSUME NEW i \in DOMAIN r, NEW j \in DOMAIN r, r[i][1] = r[j][1] PROVE i = j
        OBVIOUS
      <3>1. Old(i) = Old(j)
        BY <2>3, <2>7 DEF Queued
      <3> QED
        BY <2>4, <2>7, <3>1
    <2>10. ASSUME NEW d \in Callers PROVE d \in W \ {c} <=> \E i \in DOMAIN r : r[i][1] = d
      <3>1. ASSUME NEW i \in DOMAIN r, r[i][1] = d PROVE d \in W \ {c}
        BY <2>1, <2>3, <2>7, <3>1 DEF Queued
      <3>2. ASSUME d \in W \ {c} PROVE \E i \in DOMAIN r : r[i][1] = d
        <4>1. PICK k \in DOMAIN queue : queue[k][1] = d
          BY <3>2 DEF Queued
        <4>2. PICK j \in 1 .. n : Old(j) = k
          BY <2>1, <2>5, <3>2, <4>1
        <4> QED
          BY <2>3, <2>7, <4>1, <4>2
      <3> QED
        BY <3>1, <3>2
    <2> QED
      BY <2>6, <2>8, <2>9, <2>10 DEF Queued
  <1> QED
    BY <1>2, <1>3

(* There is room for every caller, and no more is needed. *)
LEMMA QueueBounded ==
  ASSUME NEW q, NEW W, Queued(q, W)
  PROVE  Len(q) <= Cardinality(Callers)
  <1> DEFINE f == [i \in 1 .. Len(q) |-> q[i][1]]
  <1>1. q \in Seq(Places) /\ DOMAIN q = 1 .. Len(q) /\ Len(q) \in Nat
    BY LenProperties DEF Queued
  <1>2. \A i \in 1 .. Len(q) : q[i][1] \in Callers
    BY <1>1, ElementOfSeq DEF Places
  <1>3. f \in Injection(1 .. Len(q), Callers)
    BY <1>1, <1>2 DEF Queued, Injection, IsInjective
  <1>4. Cardinality(1 .. Len(q)) <= Cardinality(Callers)
    BY <1>3, FS_Injection, FS_Interval, <1>1
  <1>5. Cardinality(1 .. Len(q)) = Len(q)
    BY <1>1, FS_Interval
  <1> QED
    BY <1>4, <1>5

-----------------------------------------------------------------------------
(* The invariant of the registry's lock: its queue and its readers are     *)
(* exactly the calls that wait for it and that run a tool.                 *)

RegistryTypes ==
  /\ table \in [Tools -> Entries]
  /\ job \in [Callers -> Job] /\ tool \in [Callers -> Tools]
  /\ jobs \in 0 .. MaxJobs

Waiting == {c \in Callers : job[c] \in {"lookup", "insert native", "insert mcp"}}
Running == {c \in Callers : job[c] \in {"native", "call"}}

Lock == RegistryTypes /\ readers = Running /\ Queued(queue, Waiting)

LEMMA LockIsSafe ==
  Lock => /\ LockHeld
          /\ table \in [Tools -> Entries]
          /\ queue \in Seq(Callers \X {"read", "write"}) /\ Len(queue) <= Cardinality(Callers)
          /\ readers \subseteq Callers
          /\ job \in [Callers -> Job] /\ tool \in [Callers -> Tools]
          /\ jobs \in 0 .. MaxJobs
  <1> SUFFICES ASSUME Lock
               PROVE  /\ LockHeld
                      /\ queue \in Seq(Callers \X {"read", "write"}) /\ Len(queue) <= Cardinality(Callers)
                      /\ readers \subseteq Callers
    BY DEF Lock, RegistryTypes
  <1> USE DEF Lock
  <1>1. ASSUME NEW c \in Callers
        PROVE  Cardinality({i \in DOMAIN queue : queue[i][1] = c}) = IF c \in Waiting THEN 1 ELSE 0
    <2>1. CASE c \in Waiting
      <3>1. PICK i \in DOMAIN queue : queue[i][1] = c
        BY <2>1 DEF Queued
      <3>2. {j \in DOMAIN queue : queue[j][1] = c} = {i}
        BY <3>1 DEF Queued
      <3> QED
        BY <2>1, <3>2, FS_Singleton
    <2>2. CASE c \notin Waiting
      <3>1. {j \in DOMAIN queue : queue[j][1] = c} = {}
        BY <2>2 DEF Queued
      <3> QED
        BY <2>2, <3>1, FS_EmptySet
    <2> QED
      BY <2>1, <2>2
  <1>2. LockHeld
    BY <1>1 DEF LockHeld, Waiting, Running
  <1>3. queue \in Seq(Callers \X {"read", "write"}) /\ Len(queue) <= Cardinality(Callers)
    BY QueueBounded DEF Queued, Places
  <1> QED
    BY <1>2, <1>3 DEF Running

LEMMA LockInit == Init => Lock
  <1> SUFFICES ASSUME Init PROVE Lock
    OBVIOUS
  <1>1. RegistryTypes
    BY DEF Init, RegistryTypes, Job
  <1>2. readers = Running /\ Waiting = {}
    BY DEF Init, Running, Waiting
  <1>3. Queued(<<>>, {})
    BY EmptySeq DEF Queued
  <1> QED
    BY <1>1, <1>2, <1>3 DEF Lock, Init

-----------------------------------------------------------------------------
(* The steps of the registry. *)

(* What a call that sets its job to j does to the two sets. *)
LEMMA SetJob ==
  ASSUME Lock, NEW c \in Callers, NEW j \in Job, Set(c, j)
  PROVE  /\ job' \in [Callers -> Job] /\ job'[c] = j
         /\ Waiting' = IF j \in {"lookup", "insert native", "insert mcp"}
                       THEN Waiting \cup {c} ELSE Waiting \ {c}
         /\ Running' = IF j \in {"native", "call"} THEN Running \cup {c} ELSE Running \ {c}
  <1>1. /\ job' \in [Callers -> Job]
        /\ \A d \in Callers : job'[d] = IF d = c THEN j ELSE job[d]
    BY DEF Lock, RegistryTypes, Set
  <1> QED
    BY <1>1 DEF Waiting, Running

(* A call joins the queue, and becomes one that waits. *)
LEMMA JoinKeepsQueue ==
  ASSUME Lock, NEW c \in Callers, job[c] \in {"none", "list"},
         NEW j \in {"lookup", "insert native", "insert mcp"}, Set(c, j),
         NEW how \in {"read", "write"}, Wait(c, how), UNCHANGED readers
  PROVE  Queued(queue', Waiting') /\ readers' = Running'
  <1>1. j \in Job /\ c \notin Waiting /\ c \notin Running
    BY DEF Job, Waiting, Running
  <1>2. Waiting' = Waiting \cup {c} /\ Running' = Running \ {c}
    BY <1>1, SetJob
  <1>3. Queued(queue', Waiting \cup {c})
    BY <1>1, QueueJoined DEF Lock, Wait
  <1> QED
    BY <1>1, <1>2, <1>3 DEF Lock

(* A call is served, and runs or is over. *)
LEMMA ServedKeepsQueue ==
  ASSUME Lock, NEW c \in Callers, NEW how, First(c, how), queue' = Tail(queue),
         NEW j \in {"none", "native", "call"}, Set(c, j),
         readers' = IF j = "none" THEN readers ELSE readers \cup {c}
  PROVE  Queued(queue', Waiting') /\ readers' = Running' /\ c \in Waiting
  <1>1. j \in Job /\ queue # <<>> /\ Head(queue)[1] = c
    <2>1. <<c, how>>[1] = c
      OBVIOUS
    <2>2. queue # <<>> /\ Head(queue) = <<c, how>>
      BY DEF First
    <2> QED
      BY <2>1, <2>2 DEF Job
  <1>2. c \in Waiting
    <2>1. 1 \in DOMAIN queue /\ queue[1][1] = c
      BY <1>1, HeadTailProperties, LenProperties, EmptySeq DEF Lock, Queued
    <2> QED
      BY <2>1 DEF Lock, Queued
  <1>3. c \notin Running
    BY <1>2 DEF Waiting, Running
  <1>4. Waiting' = Waiting \ {c} /\ Running' = IF j = "none" THEN Running \ {c} ELSE Running \cup {c}
    BY <1>1, SetJob
  <1>5. Queued(queue', Waiting \ {c})
    BY <1>1, QueueServed DEF Lock
  <1> QED
    BY <1>2, <1>3, <1>4, <1>5 DEF Lock

(* A call that does not wait ends its part. *)
LEMMA EndKeepsQueue ==
  ASSUME Lock, NEW c \in Callers, c \notin Waiting, NEW j \in {"none", "list"}, Set(c, j),
         UNCHANGED queue, readers' = readers \ {c}
  PROVE  Queued(queue', Waiting') /\ readers' = Running'
  <1>1. j \in Job
    BY DEF Job
  <1>2. Waiting' = Waiting \ {c} /\ Running' = Running \ {c}
    BY <1>1, SetJob
  <1> QED
    BY <1>2 DEF Lock

LEMMA StartTypes ==
  ASSUME RegistryTypes, NEW c \in Callers, NEW t \in Tools, Start(c, t), NEW j \in Job, Set(c, j),
         UNCHANGED table
  PROVE  RegistryTypes'
  <1>1. jobs' \in 0 .. MaxJobs
    BY DEF RegistryTypes, Start
  <1>2. tool' \in [Callers -> Tools] /\ job' \in [Callers -> Job]
    BY DEF RegistryTypes, Start, Set
  <1> QED
    BY <1>1, <1>2 DEF RegistryTypes

LEMMA RegistryKeepsLock ==
  ASSUME Lock, NEW c \in Callers,
         StartInvoke(c) \/ StartRegister(c) \/ StartDiscover(c) \/ Proceed(c) \/ NativeReturns(c)
           \/ DropJob(c)
  PROVE  Lock'
  <1>1. CASE StartInvoke(c) \/ StartRegister(c)
    <2>1. Queued(queue', Waiting') /\ readers' = Running'
      BY <1>1, JoinKeepsQueue DEF StartInvoke, StartRegister, Start
    <2>2. RegistryTypes'
      BY <1>1, StartTypes DEF StartInvoke, StartRegister, Lock, Job
    <2> QED
      BY <2>1, <2>2 DEF Lock
  <1>2. CASE StartDiscover(c)
    <2>1. c \notin Waiting /\ c \notin Running
      BY <1>2 DEF StartDiscover, Start, Waiting, Running
    <2>2. Queued(queue', Waiting') /\ readers' = Running'
      BY <1>2, <2>1, EndKeepsQueue DEF StartDiscover, Lock
    <2>3. RegistryTypes'
      BY <1>2, StartTypes DEF StartDiscover, Lock, Job
    <2> QED
      BY <2>2, <2>3 DEF Lock
  <1>3. CASE LookupFails(c) \/ InvokeNative(c) \/ InvokeMcp(c)
    <2>1. Queued(queue', Waiting') /\ readers' = Running'
      BY <1>3, ServedKeepsQueue DEF LookupFails, InvokeNative, InvokeMcp, GrantRead
    <2>2. RegistryTypes'
      BY <1>3 DEF LookupFails, InvokeNative, InvokeMcp, GrantRead, Set, Lock, RegistryTypes, Job
    <2> QED
      BY <2>1, <2>2 DEF Lock
  <1>4. CASE CallReturns(c) \/ NativeReturns(c)
    <2>1. Queued(queue', Waiting') /\ readers' = Running'
      BY <1>4, EndKeepsQueue DEF CallReturns, NativeReturns, Waiting
    <2>2. RegistryTypes'
      BY <1>4 DEF CallReturns, NativeReturns, Set, Lock, RegistryTypes, Job
    <2> QED
      BY <2>1, <2>2 DEF Lock
  <1>5. CASE ListReturns(c)
    <2>1. c \notin Waiting /\ c \notin Running
      BY <1>5 DEF ListReturns, Waiting, Running
    <2>2. Queued(queue', Waiting') /\ readers' = Running'
      <3>1. CASE Set(c, "none") /\ UNCHANGED queue
        BY <1>5, <2>1, <3>1, EndKeepsQueue DEF ListReturns, Lock
      <3>2. CASE Set(c, "insert mcp") /\ Wait(c, "write")
        BY <1>5, <3>2, JoinKeepsQueue DEF ListReturns
      <3> QED
        BY <1>5, <3>1, <3>2 DEF ListReturns
    <2>3. RegistryTypes'
      BY <1>5 DEF ListReturns, Set, Lock, RegistryTypes, Job
    <2> QED
      BY <2>2, <2>3 DEF Lock
  <1>6. CASE Insert(c)
    <2>1. Queued(queue', Waiting') /\ readers' = Running'
      BY <1>6, ServedKeepsQueue DEF Insert
    <2>2. RegistryTypes'
      BY <1>6 DEF Insert, Set, Lock, RegistryTypes, Job, Entries
    <2> QED
      BY <2>1, <2>2 DEF Lock
  <1>7. CASE DropJob(c)
    <2>1. Queued(queue', Waiting \ {c})
      BY <1>7, QueueLeft DEF DropJob, Lock
    <2>2. Waiting' = Waiting \ {c} /\ Running' = Running \ {c}
      BY <1>7, SetJob DEF DropJob, Job
    <2>3. RegistryTypes'
      BY <1>7 DEF DropJob, Set, Lock, RegistryTypes, Job
    <2> QED
      BY <1>7, <2>1, <2>2, <2>3 DEF DropJob, Lock
  <1> QED
    BY <1>1, <1>2, <1>3, <1>4, <1>5, <1>6, <1>7 DEF Proceed

LEMMA SameLock == Lock /\ UNCHANGED regVars => Lock'
  BY DEF Lock, RegistryTypes, Running, Waiting, regVars

-----------------------------------------------------------------------------
(* The theorems. *)

(* A step of the registry is a step of the connection, or none of it. *)
LEMMA RegistryStepsOver ==
  ASSUME NEW c \in Callers,
         StartInvoke(c) \/ StartRegister(c) \/ StartDiscover(c) \/ Proceed(c) \/ NativeReturns(c)
           \/ DropJob(c)
  PROVE  UNCHANGED mcpVars \/ Begin(c) \/ Cancel(c)
  BY DEF StartInvoke, StartRegister, StartDiscover, Proceed, NativeReturns, DropJob, LookupFails,
         InvokeNative, InvokeMcp, CallReturns, ListReturns, Insert

LEMMA Inductive == Spec => [](Connection /\ Lock)
  <1>1. Init => Connection /\ Lock
    BY ConnectionInit, LockInit DEF Init
  <1>2. Connection /\ Lock /\ [Next]_vars => (Connection /\ Lock)'
    <2> SUFFICES ASSUME Connection, Lock, [Next]_vars PROVE (Connection /\ Lock)'
      OBVIOUS
    <2>1. CASE TransportStep /\ UNCHANGED regVars
      BY <2>1, TransportKeepsConnection, SameLock
    <2>2. CASE UNCHANGED vars
      BY <2>2, SameConnection, SameLock DEF vars
    <2>3. ASSUME NEW c \in Callers,
                 StartInvoke(c) \/ StartRegister(c) \/ StartDiscover(c) \/ Proceed(c)
                   \/ NativeReturns(c) \/ DropJob(c)
          PROVE  (Connection /\ Lock)'
      <3>1. Lock'
        BY <2>3, RegistryKeepsLock
      <3>2. Connection'
        BY <2>3, RegistryStepsOver, SameConnection, CallKeepsConnection
      <3> QED
        BY <3>1, <3>2
    <2> QED
      BY <2>1, <2>2, <2>3 DEF Next
  <1> QED
    BY <1>1, <1>2, PTL DEF Spec

(* Over stdio, ws and grpc each call gets the answer to its own request    *)
(* and loses none, whatever the server repeats or makes up and whichever   *)
(* calls are dropped (stdio.rs:81-92).                                     *)
THEOREM AnswersFindTheirCalls == Spec => []Delivery
  BY Inductive, ConnectionIsSafe, PTL

(* A call of the registry that fails or is dropped at any point leaves no  *)
(* mutex, lock or place in the queue behind (registry.rs:113-131).  What   *)
(* is left in the table of pending requests belongs to dropped calls or,   *)
(* over stdio, to a dead connection (websocket.rs:138-148, stdio.rs:118).  *)
THEOREM CallsLeakNothing == Spec => []NothingLeaks
  <1>1. Connection /\ Lock => NothingLeaks
    BY ConnectionIsSafe, LockIsSafe DEF NothingLeaks, TypeOK
  <1> QED
    BY <1>1, Inductive, PTL

(* While a call runs its tool under the read lock, the entry it runs stays *)
(* as it is (registry.rs:113-131).                                         *)
THEOREM RunningEntryStays == Spec => EntryStable
  <1> DEFINE Stays == \A c \in Callers : job[c] \in {"native", "call"} => table'[tool[c]] = table[tool[c]]
  <1>1. Lock /\ [Next]_vars => [Stays]_vars
    <2> SUFFICES ASSUME Lock, Next, NEW c \in Callers, job[c] \in {"native", "call"}
                 PROVE  table' = table
      OBVIOUS
    <2>1. c \in readers
      BY DEF Lock, Running
    <2>2. CASE TransportStep /\ UNCHANGED regVars
      BY <2>2 DEF regVars
    <2>3. ASSUME NEW d \in Callers,
                 StartInvoke(d) \/ StartRegister(d) \/ StartDiscover(d) \/ Proceed(d)
                   \/ NativeReturns(d) \/ DropJob(d)
          PROVE  table' = table
      BY <2>1, <2>3 DEF StartInvoke, StartRegister, StartDiscover, Proceed, NativeReturns, DropJob,
         LookupFails, InvokeNative, InvokeMcp, CallReturns, ListReturns, Insert, GrantRead
    <2> QED
      BY <2>2, <2>3 DEF Next
  <1> QED
    BY <1>1, Inductive, PTL DEF Spec, EntryStable
=============================================================================
