----------------------------- MODULE OrchStream -----------------------------
(* What every orchestrator promises to whoever polls its event stream          *)
(* (OrchEvent of tako-orchestrator/src/types.rs): steps are announced in order, *)
(* tool calls and their results alternate, and the stream ends with exactly one *)
(* Final or with one error, after which it is silent.                           *)
EXTENDS Integers

CONSTANTS MaxStep,   \* a step number no orchestrator exceeds
          CallId,    \* identifiers of tool calls
          None

VARIABLES phase,     \* open; ended by a Final; ended by an error; dropped
          shownStep, \* the step announced last, -1 before the first
          openCall   \* the tool call that was announced and has no result yet

streamVars == <<phase, shownStep, openCall>>

StreamTypeOK ==
  /\ phase \in {"open", "final", "error", "dropped"}
  /\ shownStep \in -1 .. MaxStep - 1
  /\ openCall \in CallId \union {None}

StreamInit == phase = "open" /\ shownStep = -1 /\ openCall = None

StepStart ==
  /\ phase = "open" /\ openCall = None /\ shownStep + 1 < MaxStep
  /\ shownStep' = shownStep + 1
  /\ UNCHANGED <<phase, openCall>>

ToolCallStart(id) ==
  /\ phase = "open" /\ shownStep >= 0 /\ openCall = None
  /\ openCall' = id
  /\ UNCHANGED <<phase, shownStep>>

ToolCallResult ==
  /\ phase = "open" /\ openCall # None
  /\ openCall' = None
  /\ UNCHANGED <<phase, shownStep>>

\* Texts, scores and recursion marks change nothing here: they may appear
\* whenever the stream is open.
Final ==
  /\ phase = "open" /\ openCall = None
  /\ phase' = "final"
  /\ UNCHANGED <<shownStep, openCall>>

Fails == phase = "open" /\ phase' = "error" /\ UNCHANGED <<shownStep, openCall>>

Dropped == phase = "open" /\ phase' = "dropped" /\ UNCHANGED <<shownStep, openCall>>

StreamNext ==
  \/ StepStart \/ ToolCallResult \/ Final \/ Fails \/ Dropped
  \/ \E id \in CallId : ToolCallStart(id)

StreamSpec == StreamInit /\ [][StreamNext]_streamVars

=============================================================================
