---------------------------- MODULE StreamDecoder ----------------------------
(* into_chat_stream() of the provider crates: the frames of a vendor's stream    *)
(* become ChatChunks. An answer is some text and some tool calls; a vendor cuts    *)
(* it into frames in its own way, and frames may be spoiled or missing. The         *)
(* consumer is an orchestrator, which stops at the first Error chunk.               *)
EXTENDS Integers, Sequences, FiniteSets, SequencesExt

CONSTANTS
  Vendors,   \* of {"openai", "mistral", "anthropic", "bedrock", "vertex", "ollama",
             \* "sse", "ndjson", "python"}; Azure's format is OpenAI's, "sse" and
             \* "ndjson" are the two of http-generic
  MaxCalls, MaxTexts, \* bounds: tool calls and text pieces of an answer
  None

ASSUME DecoderAssumption ==
  /\ Vendors \subseteq {"openai", "mistral", "anthropic", "bedrock", "vertex", "ollama", "sse", "ndjson", "python"}
  /\ MaxCalls \in Nat /\ MaxTexts \in Nat
  /\ None \notin Nat \union {"Stop", "Length", "ToolCalls", "ContentFilter", "Other", "Error"}

VARIABLES
  vendor, answer, \* whose stream it is, and what its model says
  given,     \* frames sent: texts, per call its pieces, and the last words
  line,      \* "up", or how the connection ended
  tools,     \* tool_call_state: the index of a content block, or tool_call_index
  finish,    \* last_finish
  chunks     \* what was yielded

decoderVars == <<vendor, answer, given, line, tools, finish, chunks>>

Words == {"end", "length", "filter"}
Answers == {a \in [texts : 0 .. MaxTexts, calls : 0 .. MaxCalls, why : Words \union {"calls"}] :
              a.why = "calls" <=> a.calls > 0}

NoTools == [b \in {} |-> 0]
Idle ==
  /\ vendor = None /\ answer = [texts |-> 0, calls |-> 0, why |-> "end"]
  /\ given = [texts |-> 0, calls |-> <<>>, ends |-> FALSE]
  /\ line = "none" /\ tools = NoTools /\ finish = None /\ chunks = <<>>
Opens(v) ==
  /\ vendor' = v /\ answer' \in Answers
  /\ given' = [texts |-> 0, calls |-> [i \in 1 .. answer'.calls |-> 0], ends |-> FALSE]
  /\ line' = "up" /\ tools' = NoTools /\ finish' = None /\ chunks' = <<>>

Text == [kind |-> "text"]
Error == [kind |-> "error"]
CallPiece(i, id, piece) == [kind |-> "call", index |-> i, id |-> id, piece |-> piece]
End(f) == [kind |-> "end", finish |-> f]
Consumed == \E n \in DOMAIN chunks : chunks[n] = Error  \* nobody polls any more
Reading == line = "up" /\ ~Consumed

-----------------------------------------------------------------------------
(* What vendors send. A call comes as its head and its arguments, or at once; in      *)
(* content blocks one after the other, a text before them; Ollama's in the last frame. *)

Whole(v) == v \in {"vertex", "python"}
Pieces(v) == IF v \in {"vertex", "ollama", "python"} THEN 1 ELSE 2
Blocks(v) == v \in {"anthropic", "bedrock"}
Block(i) == IF answer.texts > 0 THEN i ELSE i - 1
Frame(is, i) == [is |-> is, call |-> i]
Frames == {Frame(is, 0) : is \in {"text", "finish", "done", "garbled", "fault", "eof"}}
          \union {Frame("call", i) : i \in 1 .. MaxCalls}

AllSaid ==
  /\ given.texts = answer.texts
  /\ vendor # "ollama" => \A i \in DOMAIN given.calls : given.calls[i] = Pieces(vendor)
CallMayCome(i) ==
  /\ i \in DOMAIN given.calls /\ vendor # "ollama" /\ given.calls[i] < Pieces(vendor)
  /\ Blocks(vendor) => given.texts = answer.texts
  /\ Blocks(vendor) \/ Whole(vendor) => \A j \in 1 .. i - 1 : given.calls[j] = Pieces(vendor)
Sends(f) ==
  CASE f.is = "text" -> given.texts < answer.texts /\ ~given.ends /\ given' = [given EXCEPT !.texts = @ + 1]
    [] f.is = "call" -> ~given.ends /\ CallMayCome(f.call) /\ given' = [given EXCEPT !.calls[f.call] = @ + 1]
    [] f.is = "finish" -> ~given.ends /\ AllSaid /\ given' = [given EXCEPT !.ends = TRUE]
    [] f.is = "done" -> given.ends /\ UNCHANGED given    \* [DONE], or message_stop
    [] OTHER -> UNCHANGED given

-----------------------------------------------------------------------------
(* The decoders. Of a frame a decoder makes its next state, chunks, and perhaps its    *)
(* last chunk: the finish reason of the End that is yielded behind the loop.             *)

Yields(cs) == [tools |-> tools, finish |-> finish, out |-> cs, last |-> None]
Learns(f) == [Yields(<<>>) EXCEPT !.finish = f]
Leaves(f) == [Yields(<<>>) EXCEPT !.last = f]
Breaks == [Yields(<<Error>>) EXCEPT !.finish = "Error", !.last = "Error"]
Nothing == Yields(<<>>)
LastFinish(default) == IF finish = None THEN default ELSE finish
Id(i) == IF given.calls[i] = 0 THEN i ELSE None  \* the head has it
Piece(i, index) == CallPiece(index, Id(i), given.calls[i] + 1)

Reasons == [end |-> "Stop", length |-> "Length", calls |-> "ToolCalls", filter |-> "ContentFilter"]

(* The loop reads on behind a frame that does not parse.                                *)
OpenAi(f) ==
  CASE f.is = "text" -> Yields(<<Text>>)
    [] f.is = "call" -> Yields(<<Piece(f.call, f.call - 1)>>)
    [] f.is = "finish" -> Learns(Reasons[answer.why])
    [] f.is = "garbled" -> Yields(<<Error>>)
    [] f.is = "fault" -> Breaks
    [] f.is \in {"done", "eof"} -> Leaves(LastFinish("Other"))

(* Mistral: OpenAI's frames.                                                            *)
Mistral(f) ==
  CASE f.is = "text" -> Yields(<<Text>>)
    [] f.is = "call" -> Yields(<<Piece(f.call, f.call - 1)>>)
    [] f.is = "finish" -> Learns(Reasons[answer.why])
    [] f.is = "garbled" -> Yields(<<Error>>)
    [] f.is = "fault" -> Breaks
    [] f.is \in {"done", "eof"} -> Leaves(LastFinish("Other"))

(* Anthropic: a call is known by the number of its block, at its start and in its       *)
(* deltas; reasons it has no name for are Other; an error event is a fault.               *)
Anthropic(f) ==
  CASE f.is = "text" -> Yields(<<Text>>)
    [] f.is = "call" -> Yields(<<Piece(f.call, Block(f.call))>>)
    [] f.is = "finish" -> Learns(IF answer.why = "filter" THEN "Other" ELSE Reasons[answer.why])
    [] f.is = "garbled" -> Yields(<<Error>>)
    [] f.is = "fault" -> Breaks
    [] f.is \in {"done", "eof"} -> Leaves(LastFinish("Other"))

(* Bedrock: a call's index is the number of blocks begun before its own. A frame that     *)
(* does not parse is the SDK's error, and so is a fault.                                   *)
Bedrock_ByCount(f) ==  \* mutant: a block that is known gets a new index
  CASE f.is = "call" -> LET n == Cardinality(DOMAIN tools) IN
         [Yields(<<Piece(f.call, n)>>) EXCEPT !.tools = [b \in DOMAIN tools \union {Block(f.call)} |-> n]]
    [] f.is = "text" -> Yields(<<Text>>)
    [] f.is = "finish" -> Learns(Reasons[answer.why])
    [] f.is \in {"garbled", "fault"} -> Breaks
    [] f.is \in {"done", "eof"} -> Leaves(LastFinish("Other"))
Bedrock(f) ==
  CASE f.is = "call" /\ Block(f.call) \in DOMAIN tools -> Yields(<<Piece(f.call, tools[Block(f.call)])>>)
    [] f.is = "call" /\ Block(f.call) \notin DOMAIN tools ->
         LET n == Cardinality(DOMAIN tools) IN
         [Yields(<<Piece(f.call, n)>>) EXCEPT
            !.tools = [b \in DOMAIN tools \union {Block(f.call)} |-> IF b \in DOMAIN tools THEN tools[b] ELSE n]]
    [] f.is = "text" -> Yields(<<Text>>)
    [] f.is = "finish" -> Learns(Reasons[answer.why])
    [] f.is \in {"garbled", "fault"} -> Breaks
    [] f.is \in {"done", "eof"} -> Leaves(LastFinish("Other"))

(* Vertex: calls are counted, and behind calls Stop and Other mean ToolCalls. Its         *)
(* vendor says STOP at the end of calls; a [DONE] is passed over.                           *)
Vertex(f) ==
  CASE f.is = "text" -> Yields(<<Text>>)
    [] f.is = "call" -> LET n == Cardinality(DOMAIN tools) IN
         [Yields(<<Piece(f.call, n)>>) EXCEPT !.tools = [b \in DOMAIN tools \union {n} |-> b]]
    [] f.is = "finish" -> Learns(IF answer.why = "calls" THEN "Stop" ELSE Reasons[answer.why])
    [] f.is = "garbled" -> Yields(<<Error>>)
    [] f.is = "fault" -> Breaks
    [] f.is = "done" -> Nothing
    [] f.is = "eof" -> LET l == LastFinish("Other") IN
                       Leaves(IF tools # NoTools /\ l \in {"Stop", "Other"} THEN "ToolCalls" ELSE l)

(* Ollama: the last frame has the calls, numbered by their place in the message, and     *)
(* ends the loop.                                                                           *)
OllamaReason == IF answer.calls > 0 THEN "ToolCalls" ELSE IF answer.why = "length" THEN "Length" ELSE "Stop"
OllamaCalls == [i \in 1 .. answer.calls |-> CallPiece(IF answer.texts > 0 THEN i ELSE i - 1, i, 1)]
Ollama(f) ==
  CASE f.is = "text" -> Yields(<<Text>>)
    [] f.is = "finish" -> [Yields(OllamaCalls) EXCEPT !.last = OllamaReason]
    [] f.is = "garbled" -> Yields(<<Error>>)
    [] f.is = "fault" -> Breaks
    [] f.is \in {"done", "eof"} -> Leaves(LastFinish("Stop"))

(* http-generic: the texts, and no calls.                                                 *)
GenericSse(f) ==
  CASE f.is = "text" -> Yields(<<Text>>)
    [] f.is = "call" -> Nothing
    [] f.is = "finish" -> Learns(Reasons[answer.why])
    [] f.is = "garbled" -> Yields(<<Error>>)
    [] f.is = "fault" -> Breaks
    [] f.is \in {"done", "eof"} -> Leaves(LastFinish("Other"))

(* The frame with the finish reason is the last.                                            *)
GenericNdjson(f) ==
  CASE f.is = "text" -> Yields(<<Text>>)
    [] f.is = "call" -> Nothing
    [] f.is = "finish" -> Leaves(Reasons[answer.why])
    [] f.is = "garbled" -> Yields(<<Error>>)
    [] f.is = "fault" -> Breaks
    [] f.is \in {"done", "eof"} -> Leaves(LastFinish("Other"))

(* A Python generator yields the chunks itself, the End too. What is no chunk and what      *)
(* it raises is an Err, behind which the stream is over; behind its end nothing comes.        *)
PythonChunks(f) ==
  CASE f.is = "text" -> Yields(<<Text>>)
    [] f.is = "call" -> Yields(<<Piece(f.call, f.call - 1)>>)
    [] f.is = "finish" -> Yields(<<End(Reasons[answer.why])>>)
    [] f.is \in {"garbled", "fault"} -> Yields(<<Error>>)
    [] f.is \in {"done", "eof"} -> Nothing

Decoded(f) ==
  CASE vendor = "openai" -> OpenAi(f)
    [] vendor = "mistral" -> Mistral(f)
    [] vendor = "anthropic" -> Anthropic(f)
    [] vendor = "bedrock" -> Bedrock(f)
    [] vendor = "vertex" -> Vertex(f)
    [] vendor = "ollama" -> Ollama(f)
    [] vendor = "sse" -> GenericSse(f)
    [] vendor = "ndjson" -> GenericNdjson(f)
    [] vendor = "python" -> PythonChunks(f)

Receive(f) ==
  /\ Reading /\ Sends(f)
  /\ LET d == Decoded(f) IN
     /\ tools' = d.tools /\ finish' = d.finish
     /\ chunks' = chunks \o d.out \o (IF d.last = None THEN <<>> ELSE <<End(d.last)>>)
     /\ line' = IF f.is = "fault" \/ d.last = "Error" THEN "broken"
                ELSE IF f.is = "eof" \/ d.last # None THEN IF given'.ends THEN "closed" ELSE "cut"
                ELSE "up"
  /\ UNCHANGED <<vendor, answer>>

Decode == \E f \in Frames : f.is # "garbled" /\ ~(f.is = "done" /\ vendor \in {"vertex", "python"}) /\ Receive(f)
DecoderNext == \E f \in Frames : Receive(f)

-----------------------------------------------------------------------------
(* Properties *)

ChunksOf(k) == {n \in DOMAIN chunks : chunks[n].kind = k}
Over == line \in {"closed", "cut", "broken"}

(* The last chunk of a stream is its only End, however the body ended, and there is none  *)
(* before (tako-core/src/types.rs:250-251). A Python generator answers for that itself.      *)
EndsOnce == vendor # "python" => ChunksOf("end") = IF Over THEN {Len(chunks)} ELSE {}

(* The pieces of one call share an index that is no other call's, the first has its id,    *)
(* and they are in order: what AssembleToolCalls of the orchestrators relies on             *)
(* (anthropic/src/stream.rs:129-160, bedrock/src/stream.rs:34-96).                          *)
Named(n) == chunks[n].id # None
Attributable ==
  \A n \in ChunksOf("call") :
    \E m \in ChunksOf("call") :
      /\ m <= n /\ Named(m) /\ chunks[m].index = chunks[n].index
      /\ \A k \in ChunksOf("call") : k # m /\ chunks[k].index = chunks[n].index =>
            k > m /\ ~Named(k) /\ chunks[k].piece > 1

(* Of an answer that came whole nothing is missing: every call is named once, under        *)
(* indices in the order of the calls, all its pieces and texts are there, and why it ended   *)
(* is told by the same reason whoever said it. http-generic takes no calls.                   *)
Takes(v) == IF v \in {"sse", "ndjson"} THEN 0 ELSE Pieces(v)
WholeAnswer == line = "closed" /\ ~Consumed =>
  /\ Cardinality(ChunksOf("text")) = answer.texts
  /\ Cardinality(ChunksOf("call")) = answer.calls * Takes(vendor)
  /\ \A m, n \in ChunksOf("call") : Named(m) /\ Named(n) /\ chunks[m].id < chunks[n].id =>
                                      chunks[m].index < chunks[n].index
  /\ answer.why # "filter" => Last(chunks).finish = Reasons[answer.why]

(* An answer that was cut off is not passed off as one that ended by itself: by Ollama's      *)
(* decoder it is, by Vertex' if a call had come, and a Python generator that stops short         *)
(* says nothing (openai/src/stream.rs:129-132).                                                   *)
CutShows == line = "cut" /\ vendor \notin {"vertex", "ollama", "python"} => Last(chunks).finish = "Other"

(* The chunks tell the answer as the vendor gave it, and whether it is whole (stream.rs of     *)
(* the providers).                                                                              *)
ChunksFaithful == EndsOnce /\ Attributable /\ WholeAnswer /\ CutShows
=============================================================================
