------------------------------ MODULE AgentLoop ------------------------------
(* The tool-call loop of tako-orchestrator, which SingleAgent (single.rs),      *)
(* Trinity (trinity.rs) and the rollouts of AbMcts (ab_mcts.rs) each contain     *)
(* twice, in run() and in stream(). One behaviour is one run of one of them.      *)
(*                                                                                *)
(* Each await is a step, at which the caller may drop the run. Texts are           *)
(* counted in deltas, tool calls are ids, and the arguments of a call are the      *)
(* two fragments they are streamed in. Providers are known by their ids.            *)
EXTENDS Routers

CONSTANTS
  Kinds,         \* subset of {"single", "trinity", "rollout"}: what may run
  MaxSteps,      \* max_steps, or max_steps_per_rollout
  Pool,          \* the primary provider and the candidates
  RouterKinds,   \* subset of {"none", "regex", "onnx", "foreign"}
  Streaming,     \* those whose capabilities say supports_streaming
  RoleOrder,     \* Trinity: role names in the order they were added
  RoleProvider,  \* Trinity: the provider of each role
  CallIds,       \* ids of the tool calls of one answer, in their order
  MaxText,       \* a bound: text deltas of one answer
  None

ASSUME LoopAssumption ==
  /\ Kinds \subseteq {"single", "trinity", "rollout"}
  /\ RouterKinds \subseteq {"none", "regex", "onnx", "foreign"}
  /\ MaxSteps \in Nat \ {0} /\ MaxText \in Nat
  /\ Pool \in Seq(Range(Pool)) /\ Pool # <<>> /\ IsInjective(Pool)
  /\ Streaming \subseteq Range(Pool) /\ None \notin Range(Pool)
  /\ RoleProvider \in [Range(RoleOrder) -> Range(Pool)] /\ RoleOrder \in Seq(Range(RoleOrder))
  /\ IsInjective(RoleOrder) /\ IsInjective(CallIds) /\ None \notin Range(CallIds)
  /\ CallIds \in Seq(Range(CallIds))

VARIABLES
  kind, mode,   \* which loop runs, and whether from run() or stream()
  router,       \* its router
  pc,           \* what the loop awaits
  step,         \* the loop variable
  msgs,         \* the message list
  provider,     \* the provider of this step, and Trinity's role
  reply,        \* what the model of this step means to answer
  deltas,       \* tool-call deltas received from its stream
  shown,        \* AssistantText events of this step
  text,         \* text deltas of the assistant message of this step
  asst,         \* its tool calls, as assembled
  cut,          \* the stream of this step ended without an End chunk
  ti,           \* how many calls of asst have a result
  fin,          \* the calls of final_message, or None
  charged, booked, restarts, \* provider calls made, recorded, and failed stream starts
  announced, pending         \* the last StepStart; the ToolCallStart without a result

loopVars == <<kind, mode, router, pc, step, msgs, provider, reply, deltas, shown, text, asst,
              cut, ti, fin, charged, booked, restarts, announced, pending>>

who == <<kind, mode, router>>
talk == <<step, msgs>>
answer == <<reply, deltas, text, asst, cut>>
money == <<charged, booked, restarts>>
view == <<announced, pending>>

Roles == Range(RoleOrder)
Over == {"done", "failed", "dropped"}
Replies == [text : 0 .. MaxText,
            calls : {SubSeq(CallIds, 1, n) : n \in 0 .. Len(CallIds)}]
NoReply == [text |-> 0, calls |-> <<>>]
Providers == Range(Pool)
User(t) == Message("user", <<TextPart(t)>>)

(* One delta of the call at index i: the first carries the id and the name.       *)
Delta(r, i, f) == [index |-> i, id |-> IF f = 1 THEN r.calls[i] ELSE None, args |-> f]
Fragments == 2

(* serde_json::from_str(..).unwrap_or({}): anything but the whole text is {}.      *)
ParsedArgs(fs) == IF fs = [f \in 1 .. Fragments |-> f] THEN "given" ELSE "empty"

AssembleToolCalls_LastArgs(ds) ==  \* mutant: a fragment replaces those before it
  LET calls == {ds[n].index : n \in DOMAIN ds}
      last(i) == ds[CHOOSE n \in DOMAIN ds : ds[n].index = i
                                             /\ \A m \in DOMAIN ds : ds[m].index = i => m <= n]
      first(i) == ds[CHOOSE n \in DOMAIN ds : ds[n].index = i /\ ds[n].id # None]
  IN  [n \in 1 .. Cardinality(calls) |->
         LET i == Nth(calls, n) IN [id |-> first(i).id, args |-> ParsedArgs(<<last(i).args>>)]]

(* Deltas are collected per index, in the order of the indices; a call that never  *)
(* got an id is left out.                                                           *)
AssembleToolCalls(ds) ==
  LET of(i) == {n \in DOMAIN ds : ds[n].index = i}
      named(i) == {n \in of(i) : ds[n].id # None}
      fragments(i) == [k \in 1 .. Cardinality(of(i)) |-> ds[Nth(of(i), k)].args]
      calls == {i \in {ds[n].index : n \in DOMAIN ds} : named(i) # {}}
  IN  [n \in 1 .. Cardinality(calls) |->
         LET i == Nth(calls, n) IN [id |-> ds[Max(named(i))].id, args |-> ParsedArgs(fragments(i))]]

(* A buffered answer has its calls as they are.                                     *)
Whole(r) == [n \in DOMAIN r.calls |-> [id |-> r.calls[n], args |-> "given"]]
Ids(cs) == [n \in DOMAIN cs |-> cs[n].id]
Calls(m) == Ids(PartsOf(m, "call"))
Results(m) == Ids(PartsOf(m, "result"))

LoopInit ==
  /\ kind \in Kinds /\ mode \in {"run", "stream"}
  /\ router \in RouterKinds /\ (kind = "trinity" => router # "none")
  /\ pc = "turn" /\ step = 0 /\ \E t \in Prompts : msgs = <<User(t)>>
  /\ provider = [id |-> None, role |-> None]
  /\ reply = NoReply /\ deltas = <<>> /\ shown = 0 /\ text = 0 /\ asst = <<>>
  /\ cut = FALSE /\ ti = 0 /\ fin = None
  /\ charged = 0 /\ booked = 0 /\ restarts = 0
  /\ announced = -1 /\ pending = None

Fail == pc' = "failed"

-----------------------------------------------------------------------------
(* The provider of a step.                                                           *)

(* SingleAgent: without a router, or a choice, the primary; a router names one of the *)
(* pool, a foreign one perhaps none of it.                                              *)
PickProvider ==
  IF router = "none" \/ Len(Pool) = 1
  THEN provider' = [id |-> Pool[1], role |-> None] /\ pc' = "check"
  ELSE \/ \E p \in Named(router, msgs, Pool) : provider' = [id |-> p, role |-> None] /\ pc' = "check"
       \/ router # "regex" /\ Fail /\ UNCHANGED provider

(* Trinity: the candidates are "role|provider"; a foreign decision may also be a role   *)
(* or a provider. A role wins; of several roles with the provider, the map's order       *)
(* picks one.                                                                             *)
Candidates == [n \in DOMAIN RoleOrder |-> [role |-> RoleOrder[n], id |-> RoleProvider[RoleOrder[n]]]]
Decisions == Named(router, msgs, Candidates)
  \union IF router = "foreign" THEN [role : Roles \union {None}, id : Providers \union {None}] ELSE {}
PickRole(d) ==
  IF d.role \in Roles THEN {d.role} ELSE {r \in Roles : RoleProvider[r] = d.id}

RouteToRole ==
  \E d \in Decisions :
    IF PickRole(d) = {} THEN Fail /\ UNCHANGED provider
    ELSE \E r \in PickRole(d) :
           provider' = [id |-> RoleProvider[r], role |-> r] /\ pc' = "check"

StartStep ==
  /\ pc = "turn" /\ step < MaxSteps
  /\ announced' = IF mode = "stream" /\ kind # "rollout" THEN step ELSE announced
  /\ pc' = IF kind = "rollout" THEN "call" ELSE "route"  \* a rollout is routed once
  /\ reply' = NoReply /\ deltas' = <<>> /\ shown' = 0 /\ text' = 0 /\ asst' = <<>>
  /\ cut' = FALSE /\ ti' = 0
  /\ UNCHANGED <<who, talk, provider, fin, money, pending>>

Route ==
  /\ pc = "route"
  /\ \/ kind = "single" /\ PickProvider
     \/ kind = "trinity" /\ RouteToRole
     \/ kind = "trinity" /\ router # "regex" /\ Fail /\ UNCHANGED provider
  /\ UNCHANGED <<who, talk, answer, shown, ti, fin, money, view>>

PreCheck ==
  /\ pc = "check"
  /\ pc' = "call" \/ Fail
  /\ UNCHANGED <<who, talk, provider, answer, shown, ti, fin, money, view>>

-----------------------------------------------------------------------------
(* The provider call. One that fails may have cost something.                         *)

Streams == mode = "stream" /\ provider.id \in Streaming

(* chat(): for run(), for providers that do not stream, and after a stream that did   *)
(* not start. A streaming caller gets the text as one delta.                           *)
Chat ==
  /\ (pc = "call" /\ ~Streams) \/ pc = "fallback"
  /\ \/ \E r \in Replies :
          /\ reply' = r /\ asst' = Whole(r) /\ text' = r.text
          /\ shown' = IF mode = "stream" /\ r.text > 0 THEN 1 ELSE 0
          /\ pc' = IF kind = "rollout" THEN "push" ELSE "record"
          /\ charged' = charged + 1
     \/ Fail /\ charged' \in {charged, charged + 1} /\ UNCHANGED <<reply, asst, text, shown>>
  /\ UNCHANGED <<who, talk, provider, deltas, cut, ti, fin, booked, restarts, view>>

OpenStream ==
  /\ pc = "call" /\ Streams
  /\ \/ \E r \in Replies : reply' = r /\ pc' = "chunks" /\ charged' = charged + 1
                           /\ UNCHANGED restarts
     \/ /\ pc' = "fallback" /\ charged' \in {charged, charged + 1}
        /\ restarts' = restarts + 1 /\ UNCHANGED reply
  /\ UNCHANGED <<who, talk, provider, deltas, shown, text, asst, cut, ti, fin, booked, view>>

Received(i) == Cardinality({n \in DOMAIN deltas : deltas[n].index = i})

(* The vendor interleaves text and the fragments of the calls as it likes.            *)
TextDelta ==
  /\ pc = "chunks" /\ text < reply.text
  /\ text' = text + 1 /\ shown' = shown + 1
  /\ pc' = "chunks" \/ (kind # "single" /\ Fail)  \* evaluate_streaming() fails
  /\ UNCHANGED <<who, talk, provider, reply, deltas, asst, cut, ti, fin, money, view>>

CallDelta ==
  /\ pc = "chunks"
  /\ \E i \in DOMAIN reply.calls :
       /\ Received(i) < Fragments
       /\ deltas' = Append(deltas, Delta(reply, i, Received(i) + 1))
  /\ UNCHANGED <<who, pc, talk, provider, reply, shown, text, asst, cut, ti, fin, money, view>>

ChunkFails ==
  /\ pc = "chunks" /\ Fail
  /\ UNCHANGED <<who, talk, provider, answer, shown, ti, fin, money, view>>

(* The chunks end after an End, or because the connection was closed before it.       *)
Complete == text = reply.text /\ \A i \in DOMAIN reply.calls : Received(i) = Fragments
StreamEnds ==
  /\ pc = "chunks"
  /\ cut' \in {FALSE, TRUE} /\ (~cut' => Complete)
  /\ asst' = AssembleToolCalls(deltas)
  /\ pc' = IF kind = "rollout" THEN "push" ELSE "record"
  /\ UNCHANGED <<who, talk, provider, reply, deltas, shown, text, ti, fin, money, view>>

Record ==
  /\ pc = "record"
  /\ \/ pc' = (IF kind = "trinity" /\ mode = "stream" THEN "score" ELSE "push")
        /\ booked' = booked + 1
     \/ Fail /\ booked' \in {booked, booked + 1}
  /\ UNCHANGED <<who, talk, provider, answer, shown, ti, fin, charged, restarts, view>>

(* Trinity's stream() scores the text of the turn.                                     *)
Score ==
  /\ pc = "score"
  /\ pc' = "push" \/ Fail
  /\ UNCHANGED <<who, talk, provider, answer, shown, ti, fin, money, view>>

-----------------------------------------------------------------------------
(* The tool calls of an answer.                                                        *)

(* Of an answer the list keeps the calls; its text and their arguments are left out.   *)
Called(cs) == Message("assistant", [n \in DOMAIN cs |-> CallPart(cs[n].id, cs[n].id, "args")])
Returned(cs) == Message("user", [n \in DOMAIN cs |-> ResultPart(cs[n].id)])

Push ==
  /\ pc = "push"
  /\ msgs' = Append(msgs, Called(asst))
  /\ IF asst = <<>> THEN fin' = <<>> /\ pc' = "finish"
     ELSE pc' = "policy" /\ UNCHANGED fin
  /\ UNCHANGED <<who, step, provider, answer, shown, ti, money, view>>

(* Denied, or approval required, or the engine fails: the run ends.                    *)
Policy ==
  /\ pc = "policy"
  /\ \/ /\ pc' = "tool"
        /\ pending' = IF mode = "stream" /\ kind # "rollout" THEN asst[ti + 1].id ELSE None
     \/ Fail /\ UNCHANGED pending
  /\ UNCHANGED <<who, talk, provider, answer, shown, ti, fin, money, announced>>

ToolReturns_IfGood ==  \* mutant: a result that is an error is not shown
  /\ pc = "tool"
  /\ ti' = ti + 1 /\ pending' \in {pending, None}
  /\ pc' = IF ti' < Len(asst) THEN "policy" ELSE "results"
  /\ UNCHANGED <<who, talk, provider, answer, shown, fin, money, announced>>
(* invoke() returns; an error is a result like any other.                              *)
ToolReturns ==
  /\ pc = "tool"
  /\ ti' = ti + 1 /\ pending' = None
  /\ pc' = IF ti' < Len(asst) THEN "policy" ELSE "results"
  /\ UNCHANGED <<who, talk, provider, answer, shown, fin, money, announced>>

PushResults_Forgotten ==  \* mutant: the results are not appended
  /\ pc = "results" /\ step' = step + 1
  /\ IF step + 1 = MaxSteps THEN fin' = Ids(asst) /\ pc' = "finish"
     ELSE pc' = "turn" /\ UNCHANGED fin
  /\ UNCHANGED <<who, msgs, provider, answer, shown, ti, money, view>>
PushResults_PastCap ==  \* mutant: the cap is tested one step late
  /\ pc = "results"
  /\ msgs' = Append(msgs, Returned(asst))
  /\ step' = step + 1
  /\ IF step = MaxSteps THEN fin' = Ids(asst) /\ pc' = "finish"
     ELSE pc' = "turn" /\ UNCHANGED fin
  /\ UNCHANGED <<who, provider, answer, shown, ti, money, view>>
(* All results make one user message. At the cap the answer is final as it is.         *)
PushResults ==
  /\ pc = "results"
  /\ msgs' = Append(msgs, Returned(asst))
  /\ step' = step + 1
  /\ IF step + 1 = MaxSteps THEN fin' = Ids(asst) /\ pc' = "finish"
     ELSE pc' = "turn" /\ UNCHANGED fin
  /\ UNCHANGED <<who, provider, answer, shown, ti, money, view>>

Finish ==
  /\ pc = "finish" /\ kind # "rollout"
  /\ pc' = "done"
  /\ UNCHANGED <<who, talk, provider, answer, shown, ti, fin, money, view>>

Drop ==
  /\ pc \notin Over /\ pc' = "dropped"
  /\ UNCHANGED <<who, talk, provider, answer, shown, ti, fin, money, view>>

-----------------------------------------------------------------------------
(* The functions that contain the loop, and which of its steps each performs.         *)

Is(k, m) == kind = k /\ mode = m
ToolRound == Push \/ Policy \/ ToolReturns \/ PushResults

SingleRun == Is("single", "run")
  /\ (StartStep \/ Route \/ PreCheck \/ Chat \/ Record \/ ToolRound \/ Finish)
SingleStream == Is("single", "stream")
  /\ (StartStep \/ Route \/ PreCheck \/ Chat \/ OpenStream \/ TextDelta \/ CallDelta \/ ChunkFails
      \/ StreamEnds \/ Record \/ ToolRound \/ Finish)
TrinityRun == Is("trinity", "run")
  /\ (StartStep \/ Route \/ PreCheck \/ Chat \/ Record \/ ToolRound \/ Finish)
TrinityStream == Is("trinity", "stream")
  /\ (StartStep \/ Route \/ PreCheck \/ Chat \/ OpenStream \/ TextDelta \/ CallDelta \/ ChunkFails
      \/ StreamEnds \/ Record \/ Score \/ ToolRound \/ Finish)

LoopNext == SingleRun \/ SingleStream \/ TrinityRun \/ TrinityStream
LoopSpec == LoopInit /\ [][LoopNext \/ Drop]_loopVars /\ WF_loopVars(LoopNext)

-----------------------------------------------------------------------------
(* Properties *)

LoopTypeOK ==
  /\ kind \in Kinds /\ mode \in {"run", "stream"}
  /\ pc \in {"turn", "route", "check", "call", "fallback", "chunks", "record", "score", "push",
            "policy", "tool", "results", "finish"} \union Over
  /\ step \in 0 .. MaxSteps
  /\ router \in RouterKinds
  /\ \A i \in DOMAIN msgs : msgs[i].role \in {"user", "assistant"}
  /\ provider \in [id : Providers \union {None}, role : Roles \union {None}]
  /\ text \in 0 .. MaxText /\ shown \in 0 .. MaxText
  /\ ti \in 0 .. Len(asst)
  /\ pending \in Range(CallIds) \union {None} /\ announced >= -1

(* No provider is sent a conversation with open tool calls: every assistant message  *)
(* is followed by one message with the results of its calls, in their order, through *)
(* tool errors and the turns before (single.rs:284-350).                             *)
Answered(ms, from) == \A i \in from .. Len(ms) :
  /\ Calls(ms[i]) # <<>> => i < Len(ms) /\ Results(ms[i + 1]) = Calls(ms[i])
  /\ Results(ms[i]) # <<>> => i > 1 /\ Results(ms[i]) = Calls(ms[i - 1])
  /\ ms[i].role = "assistant" <=> Results(ms[i]) = <<>> /\ i > 1
Sending == pc \in {"call", "fallback", "chunks"}
AnsweredBeforeSent == Sending => Answered(msgs, 1)

(* However a vendor interleaves the fragments of its tool calls, what is assembled   *)
(* from a stream that ended with End is what the model said (single.rs:658-685).     *)
AssemblyExact == pc \in {"record", "score", "push", "policy", "tool", "results"} /\ ~cut =>
                   asst = Whole(reply) /\ text = reply.text

(* A call cut off with its stream is never given the arguments of another call, nor  *)
(* made up: what is invoked was begun by the model, in its order.                    *)
NothingInvented == pc \in {"policy", "tool"} =>
  /\ \A n \in DOMAIN asst : asst[n].id \in Range(reply.calls)
  /\ \A m, n \in DOMAIN asst : m # n => asst[m].id # asst[n].id
  /\ \A n \in DOMAIN asst : asst[n].args = "empty" => cut

(* A consumer of stream() has seen all of an answer's text before a tool runs or the *)
(* stream ends, whichever way the answer came (single.rs:449-514).                   *)
ShownIsSaid == mode = "stream" /\ kind # "rollout"
                 /\ pc \in {"record", "score", "push", "policy", "tool", "results", "finish", "done"} =>
                 shown = text \/ (~cut /\ text > 0 /\ shown = 1)

Answers == Cardinality({i \in DOMAIN msgs : msgs[i].role = "assistant"})

(* Every answer is recorded once, and before its tools run (single.rs:270, 533).     *)
BookedOnce ==
  /\ booked - Answers \in 0 .. 1
  /\ pc \in {"policy", "tool", "results", "finish", "done"} => booked = Answers

(* What was charged and not recorded is the last call, and stream starts that failed *)
(* and were replaced by chat() (single.rs:261, 495).                                 *)
UnrecordedBounded == booked <= charged /\ charged - booked <= restarts + 1

(* What the model said is what is taken over, shown and booked: of every answer, once,  *)
(* through chat(), a stream and a stream that broke off (single.rs:261-300, 495-640).        *)
AnswerTakenOver ==
  LoopTypeOK /\ AssemblyExact /\ NothingInvented /\ ShownIsSaid /\ BookedOnce /\ UnrecordedBounded

(* The stream is one an OrchStream may show: steps in order, calls and results       *)
(* alternating, one end.                                                             *)
Stream == INSTANCE OrchStream WITH
  MaxStep <- MaxSteps, CallId <- Range(CallIds),
  phase <- IF pc = "done" THEN "final" ELSE IF pc = "failed" THEN "error"
           ELSE IF pc = "dropped" THEN "dropped" ELSE "open",
  shownStep <- announced, openCall <- pending
ImplementsStream == Stream!StreamSpec

(* The built-in routers look at the last words of the user, and a run adds none: Trinity   *)
(* stays in the role of its first turn, and a routed SingleAgent with its provider           *)
(* (features.rs:119, trinity.rs:436).  So the model of a step is not chosen by what the steps  *)
(* before it brought, which docs/concepts/orchestrators.md:68 and trinity.rs:3 suggest.       *)
RouteSticks == [][pc = "route" /\ pc' = "check" /\ step > 0 /\ router \in {"regex", "onnx"}
                    => provider' = provider]_loopVars

(* A run ends, if providers, tools and policies answer and streams are finite.       *)
LoopEnds == <>(pc \in Over)

=============================================================================
