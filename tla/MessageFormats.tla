--------------------------- MODULE MessageFormats ---------------------------
(* tako-core's messages, and convert.rs of the provider crates: the messages of a  *)
(* request as a vendor is sent them, and a vendor's answer as a message.             *)
(*                                                                                    *)
(* Texts, names, ids and JSON values are atoms; "" is the empty text and "none" what   *)
(* is absent. A string that is put together of texts is the sequence of them, and the  *)
(* output of a tool is known by its call. Image data is base64, with     *)
(* or without a data: prefix.                                                            *)
EXTENDS Integers, Sequences, FiniteSets, SequencesExt

TextPart(t) == [is |-> "text", text |-> t]
CallPart(id, name, args) == [is |-> "call", id |-> id, name |-> name, args |-> args]
ResultPart(id) == [is |-> "result", id |-> id]
ImagePart(mime, data) == [is |-> "image", mime |-> mime, data |-> data]
UrlPart(mime) == [is |-> "url", mime |-> mime]
Message(role, parts) == [role |-> role, parts |-> parts]

(* An id is a vendor's own, counted, or a hash of the name and the arguments.          *)
Issued(name) == <<"id", name, "">>
Counted(n) == <<"ol_call", <<0, n>>, "">>
Hashed(name, args) == <<"vertex_call", name, args>>  \* vertex_tool_call_id()
NoId == <<"none", <<0, 0>>, "">>

(* The elements of a sequence at some of its places, in their order.                   *)
Nth(places, n) == CHOOSE i \in places : Cardinality({j \in places : j <= i}) = n
Taken(s, places) == [n \in 1 .. Cardinality(places) |-> s[Nth(places, n)]]

PartsOf(m, is) == Taken(m.parts, {i \in DOMAIN m.parts : m.parts[i].is = is})
Each(s, Op(_)) == FlattenSeq([n \in DOMAIN s |-> Op(s[n])])  \* filter_map()
Mimes == {"jpeg", "png", "gif", "webp"}

Raw64 == <<"base64">>
DataUrl(data) == <<"data:">> \o data
Bare(data) == <<Last(data)>>  \* strip_data_url_prefix()

-----------------------------------------------------------------------------
(* OpenAI and Azure. A message is one message, with a role, content, tool calls and  *)
(* one tool_call_id. Images of other types are left out.                                *)

OaImage(p) == IF p.mime \in Mimes THEN <<ImagePart(p.mime, DataUrl(Bare(p.data)))>> ELSE <<>>
OaBlocks(m) == Each(m.parts, LAMBDA p :
  CASE p.is = "text" -> <<p>> [] p.is = "image" -> OaImage(p) [] p.is = "url" -> <<UrlPart("none")>>
    [] p.is \in {"call", "result"} -> <<>>)
(* A result takes the place of the content, and of the result before it.               *)
OaMessage(m) ==
  LET results == PartsOf(m, "result")
  IN  [role |-> m.role, calls |-> PartsOf(m, "call"),
       content |-> IF results = <<>> THEN OaBlocks(m) ELSE <<Last(results)>>,
       callId |-> IF results = <<>> THEN NoId ELSE Last(results).id]
OaRequest(ms) == [n \in DOMAIN ms |-> OaMessage(ms[n])]

(* Mistral has a copy of OpenAI's.                                                     *)
MiMessage(m) == OaMessage(m)
MiRequest(ms) == [n \in DOMAIN ms |-> MiMessage(ms[n])]

(* Ollama: images beside the content, which is the texts or the last result; neither  *)
(* calls nor results have ids.                                                            *)
OlMessage(m) ==
  LET results == PartsOf(m, "result")
  IN  [role |-> m.role,
       content |-> IF results = <<>> THEN PartsOf(m, "text") ELSE <<Last(results)>>,
       calls |-> Each(PartsOf(m, "call"), LAMBDA c : <<[name |-> c.name, args |-> c.args]>>),
       images |-> Each(PartsOf(m, "image"), LAMBDA p : <<Bare(p.data)>>)]
OlRequest(ms) == [n \in DOMAIN ms |-> OlMessage(ms[n])]

-----------------------------------------------------------------------------
(* Anthropic and Bedrock: a message is a list of blocks; one without any is left out,  *)
(* and so are empty texts. The system text is apart: Anthropic's is the last one.        *)

Said(m) == Taken(m.parts, {i \in DOMAIN m.parts : m.parts[i].is = "text" /\ m.parts[i].text # ""})
Sides(role) == IF role = "assistant" THEN "assistant" ELSE "user"
Talk(ms) == Taken(ms, {n \in DOMAIN ms : ms[n].role # "system"})
SystemTexts(ms) == SelectSeq(Each(ms, LAMBDA m : IF m.role = "system" THEN <<Said(m)>> ELSE <<>>),
                             LAMBDA t : t # <<>>)

AnImage(p) == IF p.mime \in Mimes THEN <<ImagePart(p.mime, Bare(p.data))>> ELSE <<>>
AnBlocks(m) == Each(m.parts, LAMBDA p :
  CASE p.is = "text" -> (IF p.text = "" THEN <<>> ELSE <<p>>) [] p.is \in {"call", "result"} -> <<p>>
    [] p.is = "image" -> AnImage(p) [] p.is = "url" -> <<UrlPart("none")>>)
AnRequest(ms) ==
  [system |-> IF SystemTexts(ms) = <<>> THEN <<>> ELSE Last(SystemTexts(ms)),
   messages |-> Each(Talk(ms), LAMBDA m :
     IF AnBlocks(m) = <<>> THEN <<>> ELSE <<[role |-> Sides(m.role), content |-> AnBlocks(m)]>>)]

(* The bytes of an image behind the last comma; a URL cannot be sent.                     *)
BrImage(p) == IF p.mime \in Mimes THEN <<ImagePart(p.mime, Bare(p.data))>> ELSE <<>>
BrBlocks(m) == Each(m.parts, LAMBDA p :
  CASE p.is = "text" -> (IF p.text = "" THEN <<>> ELSE <<p>>) [] p.is \in {"call", "result"} -> <<p>>
    [] p.is = "image" -> BrImage(p) [] p.is = "url" -> <<>>)
BrRequest(ms) ==
  [system |-> SystemTexts(ms),
   messages |-> Each(Talk(ms), LAMBDA m :
     IF BrBlocks(m) = <<>> THEN <<>> ELSE <<[role |-> Sides(m.role), content |-> BrBlocks(m)]>>)]

-----------------------------------------------------------------------------
(* Vertex: a result has the name of a call with its id, the last one of the whole      *)
(* conversation, or the id itself. System texts are apart, all of them.                   *)

CallsIn(ms) == Each(ms, LAMBDA m : PartsOf(m, "call"))
VxName_First(ms, id) ==  \* mutant: a call is looked up by its place among the calls of a turn
  LET called == CallsIn(ms) IN IF called = <<>> THEN id ELSE called[1].name
VxName(ms, id) ==
  LET calls == CallsIn(ms)
      called == Taken(calls, {n \in DOMAIN calls : calls[n].id = id})
  IN  IF called = <<>> THEN id ELSE Last(called).name

VxRole(role) == CASE role = "assistant" -> "model" [] role = "tool" -> "function" [] role = "user" -> "user"
VxImage(p) == IF p.mime \in Mimes THEN <<ImagePart(p.mime, Bare(p.data))>> ELSE <<>>
VxContent(m, ms) == [role |-> VxRole(m.role), parts |-> Each(m.parts, LAMBDA p :
  CASE p.is = "text" -> (IF p.text = "" THEN <<>> ELSE <<p>>)
    [] p.is = "call" -> <<[is |-> "functionCall", name |-> p.name, args |-> p.args]>>
    [] p.is = "result" -> <<[is |-> "functionResponse", name |-> VxName(ms, p.id), response |-> p.id]>>
    [] p.is = "image" -> VxImage(p) [] p.is = "url" -> (IF p.mime \in Mimes THEN <<p>> ELSE <<>>))]
VxRequest(ms) ==
  [systemInstruction |-> Each(ms, LAMBDA m : IF m.role = "system" THEN PartsOf(m, "text") ELSE <<>>),
   contents |-> [n \in DOMAIN Talk(ms) |-> VxContent(Talk(ms)[n], ms)]]

-----------------------------------------------------------------------------
(* Answers. Each has parts and a reason; empty texts are left out. Arguments that come  *)
(* as text are {} when there is none, and a string when it is no JSON.                     *)

Answer(parts, finish) == [parts |-> parts, finish |-> finish]
NoAnswer == Answer(<<>>, "Invalid")
Saying(t) == IF t = "" THEN <<>> ELSE <<TextPart(t)>>
JsonArgs(a) == IF a = "" THEN "{}" ELSE IF a = "broken" THEN "string" ELSE a

OaFinish(why) ==
  CASE why = "stop" -> "Stop" [] why = "length" -> "Length" [] why \in {"tool_calls", "function_call"} -> "ToolCalls"
    [] why = "content_filter" -> "ContentFilter" [] OTHER -> "Other"
OaAnswer(r) ==
  IF r.choices = <<>> THEN NoAnswer
  ELSE LET c == r.choices[1]
       IN  Answer(Saying(c.text) \o Each(c.calls, LAMBDA t : <<CallPart(t.id, t.name, JsonArgs(t.args))>>), OaFinish(c.why))

MiFinish(why) == IF why = "model_length" THEN "Length" ELSE OaFinish(why)
MiAnswer(r) ==
  IF r.choices = <<>> THEN NoAnswer
  ELSE LET c == r.choices[1]
       IN  Answer(Saying(c.text) \o Each(c.calls, LAMBDA t : <<CallPart(t.id, t.name, JsonArgs(t.args))>>), MiFinish(c.why))

AnFinish(why) ==
  CASE why \in {"end_turn", "stop_sequence"} -> "Stop" [] why = "max_tokens" -> "Length" [] why = "tool_use" -> "ToolCalls"
    [] OTHER -> "Other"
AnAnswer(r) == Answer(Each(r.content, LAMBDA b : IF b.is = "text" THEN Saying(b.text) ELSE <<b>>), AnFinish(r.why))

BrFinish(why) ==
  CASE why \in {"end_turn", "stop_sequence"} -> "Stop" [] why \in {"max_tokens", "context_exceeded"} -> "Length"
    [] why = "tool_use" -> "ToolCalls" [] why \in {"content_filtered", "guardrail"} -> "ContentFilter"
    [] why \in {"malformed_output", "malformed_tool_use"} -> "Error" [] OTHER -> "Other"
BrAnswer(r) == Answer(Each(r.content, LAMBDA b :
  CASE b.is = "text" -> Saying(b.text) [] b.is = "call" -> <<b>> [] OTHER -> <<>>), BrFinish(r.why))

VxFinish(why) ==
  CASE why = "STOP" -> "Stop" [] why = "MAX_TOKENS" -> "Length"
    [] why \in {"SAFETY", "RECITATION", "BLOCKLIST", "PROHIBITED_CONTENT"} -> "ContentFilter" [] OTHER -> "Other"
VxAnswer(r) ==
  IF r.candidates = <<>> THEN NoAnswer
  ELSE LET c == r.candidates[1]
           called == \E n \in DOMAIN c.parts : c.parts[n].is = "functionCall"
           finish == VxFinish(c.why)
       IN  Answer(Each(c.parts, LAMBDA p : IF p.is = "text" THEN Saying(p.text)
                                           ELSE <<CallPart(Hashed(p.name, p.args), p.name, p.args)>>),
                  IF called /\ finish \in {"Stop", "Other"} THEN "ToolCalls" ELSE finish)

OlAnswer(r) ==
  Answer(Saying(r.text) \o [n \in DOMAIN r.calls |-> CallPart(Counted(n - 1), r.calls[n].name, r.calls[n].args)],
         IF r.calls # <<>> THEN "ToolCalls" ELSE IF r.why = "length" THEN "Length" ELSE "Stop")
=============================================================================
