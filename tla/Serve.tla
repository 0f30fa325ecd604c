-------------------------------- MODULE Serve --------------------------------
(* One chat completion from the HTTP request to the last frame: the handler of   *)
(* tako-compat/src/routes.rs over SelfCallers nested in each other               *)
(* (tako-orchestrator/src/self_caller.rs) over an orchestrator of which only the  *)
(* promise of OrchStream is known. Everything is polled by one task: an event      *)
(* goes up through all layers at once, and the code behind its `yield` runs, from  *)
(* the outermost layer inwards, when the client asks for more.                      *)
(*                                                                                   *)
(* Layer 1 is the outermost SelfCaller, layer Leaf the orchestrator it all wraps,   *)
(* layer 0 the handler. A text is as long as its deltas are many; scores are         *)
(* multiples of 1/One.                                                               *)
EXTENDS Integers, Sequences

CONSTANTS
  MaxDepth,       \* max_depth of each SelfCaller, the outermost first
  Guard,          \* of each SelfCaller: "rules" or "judge"
  MinConfidence, One,
  MinChars,       \* RuleBasedGuard
  JudgeMinChars, JudgeEveryN, \* LlmJudgeGuard, whose counter all streams share
  MaxText, MaxSteps, CallIds, NoCall, \* of the orchestrator inside
  MaxTools        \* a bound: tool calls on the wire

Layers == DOMAIN MaxDepth
Leaf == Len(MaxDepth) + 1

ASSUME ServeAssumption ==
  /\ MaxDepth \in Seq(Nat) /\ Guard \in [Layers -> {"rules", "judge"}]
  /\ One \in Nat \ {0} /\ MinConfidence \in 0 .. One /\ JudgeEveryN \in Nat \ {0}
  /\ MaxText \in Nat /\ MaxSteps \in Nat

VARIABLES
  body,      \* the request: stream or not, and which kind of orchestrator serves it
  at,        \* what the handler does
  mode,      \* whether the orchestrators run by stream() or by run()
  level, phase, \* which layer has control, and what for
  offset,    \* per layer, the rounds of this call it did not accept
  acc,       \* per layer, the text accumulated in this round
  out,       \* the text of the Final, or output, that is passed up
  said, turn, \* the leaf: deltas of its current run, and of the run's current step
  wire,      \* frames written, by kind
  asked,     \* streaming_call_count, modulo streaming_every_n
  runs,      \* runs and streams of the leaf that were started
  begun,     \* the leaf has shown an event of the stream
  phaseOf, shownStep, openCall \* of the leaf's stream, as OrchStream has them

leafStream == <<phaseOf, shownStep, openCall>>
serveVars == <<body, at, mode, level, phase, offset, acc, out, said, turn, wire, asked, runs, begun, leafStream>>

Inner == INSTANCE OrchStream WITH
  MaxStep <- MaxSteps, CallId <- CallIds, None <- NoCall, phase <- phaseOf

(* The kinds of orchestrators: those that loop over steps (SingleAgent, Trinity), those    *)
(* that put their answer together (Conductor, AbMcts), and an implementation not of this     *)
(* project.                                                                                   *)
Leaves == {"loop", "composed", "foreign"}
Frames == {"text", "tool", "extension", "finish", "error", "done"}
Show(ks) == wire' = [k \in Frames |-> IF k \in ks THEN wire[k] + 1 ELSE wire[k]]

ServeInit ==
  /\ body \in [stream : BOOLEAN, leaf : Leaves]
  /\ at = "auth" /\ mode = "none" /\ level = 0 /\ phase = "idle"
  /\ offset = [l \in Layers |-> 0] /\ acc = [l \in Layers |-> 0]
  /\ out = 0 /\ said = 0 /\ turn = 0 /\ wire = [k \in Frames |-> 0] /\ asked = 0
  /\ runs = 0 /\ begun = FALSE /\ Inner!StreamInit

-----------------------------------------------------------------------------
(* The handler. Without a bearer token, or with one that resolves to nobody: 401.       *)

StartLeaf ==
  /\ level' = Leaf /\ phase' = "leaf" /\ said' = 0 /\ turn' = 0 /\ runs' = runs + 1
  /\ phaseOf' = "open" /\ shownStep' = -1 /\ openCall' = NoCall

Authenticate ==
  /\ at = "auth"
  /\ \/ at' = "401" /\ UNCHANGED <<mode, level, phase, said, turn, runs, leafStream>>
     \/ /\ at' = "serving" /\ mode' = (IF body.stream THEN "stream" ELSE "run")
        /\ StartLeaf
  /\ UNCHANGED <<body, offset, acc, out, wire, asked, begun>>

(* An error that reached the handler. If it is the very first item of a stream the     *)
(* request starts over with run(); otherwise it is the last frame, or the status.       *)
StartOver ==
  /\ mode' = "run" /\ StartLeaf
  /\ offset' = [l \in Layers |-> 0] /\ acc' = [l \in Layers |-> 0]
  /\ UNCHANGED <<at, wire>>

Errs_AlwaysStartsOver ==  \* mutant: not only for the first item
  IF mode = "stream" THEN StartOver
  ELSE /\ IF body.stream THEN Show({"error"}) /\ at' = "closing"
          ELSE UNCHANGED wire /\ at' \in {"403", "402", "500"}
       /\ phase' = "over" /\ phaseOf' = "error"
       /\ UNCHANGED <<mode, level, offset, acc, said, turn, runs, shownStep, openCall>>
Errs_ReadsOn ==  \* mutant: the stream is polled after its error
  IF mode = "stream" /\ ~begun THEN StartOver
  ELSE /\ IF body.stream THEN Show({"error"}) /\ UNCHANGED at
          ELSE UNCHANGED wire /\ at' \in {"403", "402", "500"}
       /\ UNCHANGED <<mode, level, phase, offset, acc, said, turn, runs, leafStream>>

Errs ==
  IF mode = "stream" /\ ~begun THEN StartOver
  ELSE /\ IF body.stream THEN Show({"error"}) /\ at' = "closing"
          ELSE UNCHANGED wire /\ at' \in {"403", "402", "500"}
       /\ phase' = "over" /\ phaseOf' = "error"
       /\ UNCHANGED <<mode, level, offset, acc, said, turn, runs, shownStep, openCall>>

(* The answer that reached the handler: a closing chunk, which after run() comes with   *)
(* the text as one delta.                                                                *)
Answered(text, frames) ==
  /\ phase' = "over" /\ level' = 0
  /\ IF ~body.stream THEN at' = "200" /\ UNCHANGED wire
     ELSE at' = "closing"
          /\ Show(frames \union {"finish"} \union (IF mode = "run" /\ text > 0 THEN {"text"} ELSE {}))

Close_AfterAnswer ==  \* mutant: an error has no [DONE]
  /\ at = "closing" /\ wire.finish > 0 /\ at' = "closed" /\ Show({"done"})
  /\ UNCHANGED <<body, mode, level, phase, offset, acc, out, said, turn, asked, runs, begun, leafStream>>
Close ==
  /\ at = "closing" /\ at' = "closed" /\ Show({"done"})
  /\ UNCHANGED <<body, mode, level, phase, offset, acc, out, said, turn, asked, runs, begun, leafStream>>

(* The client goes away; the stream, or the handler's future, is dropped.                *)
Closed == {"401", "403", "402", "500", "200", "closed", "gone"}
Disconnect ==
  /\ at \notin Closed /\ at' = "gone"
  /\ UNCHANGED <<body, mode, level, phase, offset, acc, out, said, turn, wire, asked, runs, begun, leafStream>>

-----------------------------------------------------------------------------
(* The orchestrator inside.                                                              *)

LeafHas == at = "serving" /\ phase = "leaf"
Streaming == LeafHas /\ mode = "stream"
Handed(text) ==  \* a Final, or an output, to the layer above the leaf
  IF Layers = {} THEN Answered(text, {}) ELSE level' = Leaf - 1 /\ phase' = "scored" /\ UNCHANGED <<at, wire>>

(* run() returns. *)
LeafReturns ==
  /\ LeafHas /\ mode = "run"
  /\ \/ \E n \in 0 .. MaxText : out' = n /\ Handed(n) /\ phaseOf' = "final"
                                /\ UNCHANGED <<mode, offset, acc, said, turn, runs, shownStep, openCall>>
     \/ Errs /\ UNCHANGED out
  /\ UNCHANGED <<body, asked, begun>>

LeafStep ==
  /\ Streaming /\ Inner!StepStart /\ begun' = TRUE /\ turn' = 0
  /\ UNCHANGED <<body, at, mode, level, phase, offset, acc, out, said, wire, asked, runs>>

LeafTool ==
  /\ Streaming /\ begun' = TRUE
  /\ \/ \E id \in CallIds : Inner!ToolCallStart(id) /\ wire.tool < MaxTools /\ Show({"tool", "extension"})
     \/ Inner!ToolCallResult /\ Show({"extension"})
  /\ UNCHANGED <<body, at, mode, level, phase, offset, acc, out, said, turn, asked, runs>>

(* A delta is accumulated, and its guard consulted, by every layer.                       *)
LeafText ==
  /\ Streaming /\ phaseOf = "open" /\ shownStep >= 0 /\ openCall = NoCall /\ said < MaxText
  /\ said' = said + 1 /\ turn' = turn + 1 /\ begun' = TRUE /\ Show({"text"})
  /\ acc' = [l \in Layers |-> acc[l] + 1]
  /\ IF Layers = {} THEN UNCHANGED <<level, phase>> ELSE level' = 1 /\ phase' = "partial"
  /\ UNCHANGED <<body, at, mode, offset, out, asked, runs, leafStream>>

(* The text of the Final is that of the loop's last step, and not of its run; a Conductor's *)
(* is read from what its final_answer says, and an AbMcts's is its best leaf's, so that they *)
(* need not be what was streamed.                                                             *)
LeafFinal ==
  /\ Streaming /\ shownStep >= 0 /\ Inner!Final
  /\ \E n \in IF body.leaf = "loop" THEN {turn} ELSE 0 .. MaxText : out' = n /\ Handed(n)
  /\ begun' = TRUE
  /\ UNCHANGED <<body, mode, offset, acc, said, turn, asked, runs>>

(* It fails, a foreign one perhaps with its first item; the orchestrators of this        *)
(* project show a StepStart first. A foreign one may also end without a Final.            *)
LeafFails ==
  /\ Streaming /\ phaseOf = "open"
  /\ begun \/ body.leaf = "foreign"
  /\ Errs /\ UNCHANGED <<body, out, asked, begun>>

LeafVanishes ==
  /\ Streaming /\ body.leaf = "foreign"
  /\ IF Layers = {}
     THEN /\ at' = "closing" /\ phase' = "over" /\ phaseOf' = "dropped"
          /\ UNCHANGED <<mode, level, offset, acc, said, turn, wire, runs, shownStep, openCall>>
     ELSE Errs  \* "inner stream ended without Final event"
  /\ UNCHANGED <<body, out, asked, begun>>

-----------------------------------------------------------------------------
(* SelfCaller. *)

Nothing == -2
Fault == -1
Good(score) == score >= MinConfidence

(* What a guard says of a partial text: nothing, a score, or an error.                    *)
Partial(l, n) ==
  IF Guard[l] = "rules" THEN IF n < MinChars THEN {Nothing} ELSE {Nothing, One} \* its pattern
  ELSE IF n < JudgeMinChars \/ asked + 1 # JudgeEveryN THEN {Nothing}
       ELSE 0 .. One \union {Fault}
Counts(l, n) == Guard[l] = "judge" /\ n >= JudgeMinChars
FullScores(l, n) ==
  IF Guard[l] = "rules" THEN IF n < MinChars THEN {0} ELSE {0, One} ELSE 0 .. One \union {Fault}

(* A round ends with a Recursion frame; the answer that is accepted goes to the layer     *)
(* above, for which it is the captured Final of its own round.                             *)
RoundEnds == IF mode = "stream" THEN {"extension"} ELSE {}
Accept(l, text) ==
  /\ IF l = 1 THEN Answered(text, RoundEnds)
     ELSE level' = l - 1 /\ phase' = "scored" /\ UNCHANGED at /\ Show(RoundEnds)
  /\ out' = text
  /\ UNCHANGED <<mode, offset, acc, said, turn, runs, begun, leafStream>>

(* After a delta: the guard may be content with the text so far, and then the layer drops *)
(* the stream it reads and makes up the Final itself.                                      *)
JudgePartial ==
  /\ at = "serving" /\ phase = "partial"
  /\ asked' = IF Counts(level, acc[level]) THEN (asked + 1) % JudgeEveryN ELSE asked
  /\ \E v \in Partial(level, acc[level]) :
       IF v = Fault THEN Errs /\ UNCHANGED <<out, begun>>
       ELSE IF Good(v) THEN Accept(level, acc[level])
       ELSE /\ IF level + 1 = Leaf THEN level' = Leaf /\ phase' = "leaf"
               ELSE level' = level + 1 /\ UNCHANGED phase
            /\ UNCHANGED <<at, mode, offset, acc, out, said, turn, wire, runs, begun, leafStream>>
  /\ UNCHANGED body

(* The round goes into the input of the next one, which starts the layers inside anew.      *)
Reject ==
  /\ offset' = [l \in Layers |-> IF l < level THEN offset[l]
                                 ELSE IF l = level THEN offset[l] + 1 ELSE 0]
  /\ acc' = [l \in Layers |-> IF l < level THEN acc[l] ELSE 0]
  /\ StartLeaf
  /\ Show(RoundEnds)
  /\ UNCHANGED <<at, mode, out, begun>>

AtCap == offset[level] >= MaxDepth[level]
JudgeAnswer ==
  /\ at = "serving" /\ phase = "scored"
  /\ \E s \in FullScores(level, out) :
       IF s = Fault THEN Errs /\ UNCHANGED <<out, begun>>
       ELSE IF Good(s) \/ AtCap THEN Accept(level, out)
       ELSE Reject
  /\ UNCHANGED <<body, asked>>

-----------------------------------------------------------------------------
Caller == JudgePartial \/ JudgeAnswer
Progress == Authenticate \/ Close \/ LeafReturns \/ LeafStep \/ LeafTool \/ LeafText \/ LeafFinal
            \/ LeafFails \/ LeafVanishes \/ Caller
ServeSpec == ServeInit /\ [][Progress \/ Disconnect]_serveVars /\ WF_serveVars(Progress)

-----------------------------------------------------------------------------
(* Properties *)

ServeTypeOK ==
  /\ at \in {"auth", "serving", "closing"} \union Closed
  /\ mode \in {"none", "stream", "run"} /\ level \in 0 .. Leaf
  /\ phase \in {"idle", "leaf", "partial", "scored", "over"}
  /\ \A l \in Layers : offset[l] \in 0 .. MaxDepth[l]
  /\ said \in 0 .. MaxText /\ turn \in 0 .. said /\ Inner!StreamTypeOK

(* After the closing chunk or an error frame a client sees [DONE] and nothing else,       *)
(* whichever of the nested streams ended, failed or was dropped (routes.rs:137-187).       *)
WireEnds == [][wire.finish + wire.error > 0 => \A k \in Frames \ {"done"} : wire'[k] = wire[k]]_serveVars

(* A stream that a client reads to its end has one [DONE], and one closing chunk or one    *)
(* error frame, unless a foreign orchestrator ended without a word.                         *)
EndsOnce == at = "closed" =>
  /\ wire.done = 1 /\ wire.finish + wire.error <= 1
  /\ wire.finish + wire.error = 1 \/ phaseOf = "dropped"

(* A response has one end, and it comes last.                                               *)
OneEnd == []EndsOnce /\ WireEnds

(* A request is run a second time only if its stream had shown nothing: nothing of it is    *)
(* on the wire twice, and the orchestrators of this project are never run twice             *)
(* (routes.rs:114-131).                                                                     *)
SecondRunHidden == body.stream /\ mode = "run" =>
  /\ at = "serving" => \A k \in Frames : wire[k] = 0
  /\ body.leaf = "foreign"

(* However the rounds of nested SelfCallers end, the orchestrator inside is started no more  *)
(* than the product of their max_depth + 1 times, for one second run (self_caller.rs:157).   *)
Product[l \in 0 .. Len(MaxDepth)] == IF l = 0 THEN 1 ELSE Product[l - 1] * (MaxDepth[l] + 1)
RunsBounded == runs <= Product[Len(MaxDepth)] + (IF body.stream /\ mode = "run" THEN 1 ELSE 0)

(* Around a loop over steps, the closing chunk comes for an answer that the client has seen:   *)
(* all that was shown if there was one round of one step, and otherwise no more than that, the *)
(* texts of rejected rounds and earlier steps besides it (self_caller.rs:247-300, single.rs:561). *)
AnswerShown == at = "closing" /\ wire.finish = 1 /\ mode = "stream" /\ body.leaf = "loop" =>
  /\ out <= wire.text
  /\ (\A l \in Layers : offset[l] = 0) /\ shownStep <= 0 => out = wire.text

(* The orchestrators inside run as often as they may, and the client of a loop sees the       *)
(* answer of its last round, once (routes.rs:114-131, self_caller.rs:157).                               *)
SeenOnce == ServeTypeOK /\ SecondRunHidden /\ RunsBounded /\ AnswerShown

(* A request ends, if the orchestrator inside does.                                           *)
Ends == <>(at \in Closed)
=============================================================================
