--------------------------- MODULE Conversations ---------------------------
(* What the vendors are sent when the loop of AgentLoop calls a provider. Of its    *)
(* message list the loop keeps the turns; here each answer is the one of some        *)
(* vendor, as convert.rs of its crate read it, and the whole list goes to any other:  *)
(* a router may change the provider at every step, and providers fall back.            *)
EXTENDS AgentLoop

Vendors == {"openai", "mistral", "anthropic", "bedrock", "vertex", "ollama"}

(* The answer of a vendor in turn i: a text, and calls of tools of different names.    *)
Name(i, n) == <<i, n>>
IssuedCalls(i, k) == [n \in 1 .. k |-> CallPart(Issued(Name(i, n)), Name(i, n), "args")]
Wire(v, i, k, t) ==
  CASE v \in {"openai", "mistral"} -> [choices |-> <<[text |-> t, calls |-> IssuedCalls(i, k), why |-> "tool_calls"]>>]
    [] v \in {"anthropic", "bedrock"} -> [content |-> Saying(t) \o IssuedCalls(i, k), why |-> "tool_use"]
    [] v = "vertex" ->
         [candidates |-> <<[parts |-> Saying(t) \o [n \in 1 .. k |-> [is |-> "functionCall", name |-> Name(i, n), args |-> "args"]],
                            why |-> "STOP"]>>]
    [] v = "ollama" -> [text |-> t, calls |-> [n \in 1 .. k |-> [name |-> Name(i, n), args |-> "args"]], why |-> "stop"]
Read(v, r) ==
  CASE v = "openai" -> OaAnswer(r) [] v = "mistral" -> MiAnswer(r) [] v = "anthropic" -> AnAnswer(r)
    [] v = "bedrock" -> BrAnswer(r) [] v = "vertex" -> VxAnswer(r) [] v = "ollama" -> OlAnswer(r)

(* The message list, with turn i answered by by[i], and its results under the ids of    *)
(* its calls.                                                                             *)
Turns == {i \in DOMAIN msgs : msgs[i].role = "assistant"}
AnswerOf(by, t, i) == Message("assistant", Read(by[i], Wire(by[i], i, Len(Calls(msgs[i])), t)).parts)
Retold(by, t) == [i \in DOMAIN msgs |->
  IF i \in Turns THEN AnswerOf(by, t, i)
  ELSE IF i - 1 \in Turns THEN Returned(PartsOf(AnswerOf(by, t, i - 1), "call")) ELSE msgs[i]]
Told(P(_, _, _)) == pc = "call" =>
  \A by \in [Turns -> Vendors], t \in {"", "said"} : P(by, t, Retold(by, t))

-----------------------------------------------------------------------------
(* Properties *)

(* Anthropic and Bedrock are sent what they accept, whoever gave the answers: the user   *)
(* begins, the sides alternate, and the message after a turn begins with the results of    *)
(* its calls, under their ids, in their order (anthropic/src/convert.rs:180).                *)
BlockIds(m, is) == Ids(Taken(m.content, {n \in DOMAIN m.content : m.content[n].is = is}))
Legal(sent) ==
  /\ sent # <<>> /\ sent[1].role = "user" /\ sent[Len(sent)].role = "user"
  /\ \A n \in DOMAIN sent \ {1} :
       /\ sent[n].role # sent[n - 1].role
       /\ BlockIds(sent[n], "result") = BlockIds(sent[n - 1], "call")
BlocksLegal == Told(LAMBDA by, t, ms : Legal(AnRequest(ms).messages) /\ Legal(BrRequest(ms).messages))

(* Vertex gets every result under the name of the call it answers, though names are not    *)
(* in the results of the list and ids are made up where vendors have none, if Ollama, whose  *)
(* ids begin again in each turn, answered at most once (vertex/src/convert.rs:24, 270).       *)
NamesResolved == Told(LAMBDA by, t, ms :
  Cardinality({i \in Turns : by[i] = "ollama"}) <= 1 =>
    LET sent == VxRequest(ms).contents
        names(m, is) == Each(PartsOf(m, is), LAMBDA p : <<p.name>>)
    IN  \A n \in DOMAIN sent \ {1} : names(sent[n], "functionResponse") = names(sent[n - 1], "functionCall"))

(* A vendor that gets its own answer back gets what it said: the ids it gave, and the        *)
(* names, arguments and text.                                                                 *)
Echoed(v, m, ms) ==
  CASE v = "openai" -> [choices |-> <<[text |-> OaMessage(m).content, calls |-> OaMessage(m).calls, why |-> "tool_calls"]>>]
    [] v = "mistral" -> [choices |-> <<[text |-> MiMessage(m).content, calls |-> MiMessage(m).calls, why |-> "tool_calls"]>>]
    [] v = "anthropic" -> [content |-> AnBlocks(m), why |-> "tool_use"]
    [] v = "bedrock" -> [content |-> BrBlocks(m), why |-> "tool_use"]
    [] v = "vertex" -> [candidates |-> <<[parts |-> VxContent(m, ms).parts, why |-> "STOP"]>>]
    [] v = "ollama" -> [text |-> OlMessage(m).content, calls |-> OlMessage(m).calls, why |-> "stop"]
AsSaid(v, r) ==  \* with the text as the list of its parts
  CASE v \in {"openai", "mistral"} -> [r EXCEPT !.choices[1].text = Saying(@)]
    [] v = "ollama" -> [r EXCEPT !.text = Saying(@)]
    [] OTHER -> r
EchoExact == Told(LAMBDA by, t, ms : \A i \in Turns :
  Echoed(by[i], ms[i], ms) = AsSaid(by[i], Wire(by[i], i, Len(Calls(msgs[i])), t)))

(* Where a message holds one result only, the result of a turn with one call is sent next    *)
(* to its call, under its id (openai/src/convert.rs:211).                                     *)
OneResultDelivered == Told(LAMBDA by, t, ms :
  \A sent \in {OaRequest(ms), MiRequest(ms)}, i \in Turns :
    Len(sent[i].calls) = Len(Calls(msgs[i]))
    /\ (Len(sent[i].calls) = 1 => /\ sent[i + 1].callId = sent[i].calls[1].id
                                  /\ Ids(sent[i + 1].content) = <<sent[i + 1].callId>>))

(* A conversation is told to each vendor as it was: its turns legal, its calls and results     *)
(* named, and what the vendor says to it read back unchanged (convert.rs of the providers).     *)
SentRight == BlocksLegal /\ NamesResolved /\ EchoExact /\ OneResultDelivered

(* Every result of the list is sent (single.rs:304: "append results as a single user-role     *)
(* message containing all ToolResult parts").                                                  *)
ResultsDelivered == Told(LAMBDA by, t, ms :
  \A m \in Range(ms) : Range(Results(m)) \subseteq {x.callId : x \in Range(OaRequest(ms))})
=============================================================================
