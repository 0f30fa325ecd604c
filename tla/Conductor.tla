----------------------------- MODULE Conductor -----------------------------
(***************************************************************************)
(* tako-orchestrator's Conductor (conductor.rs): a coordinator dispatches  *)
(* workers that run concurrently under a semaphore; run() joins them,      *)
(* stream() collects their events from a bounded channel, scores them and  *)
(* forwards them to the consumer.                                          *)
(*                                                                         *)
(* Texts and prompts are abstracted to the shape of the coordinator's      *)
(* answer and to whether a worker's outcome is Ok.  Every provider call is *)
(* estimated at one unit.  Nothing else runs while the coordinator is      *)
(* called, so its pre_check, call and record are one step.                 *)
(***************************************************************************)
EXTENDS Integers, Sequences, FiniteSets

CONSTANTS
  MaxSteps,    \* max_steps (the builder makes it at least 1)
  MaxFanout,   \* max_fanout, the semaphore's permits (at least 1)
  Scored,      \* whether a Verifier is attached
  Cap,         \* the tenant's daily cap; one no run reaches stands for no budget
  Buffer,      \* WORKER_STREAM_BUFFER
  Modes,       \* which of run() and stream() are considered
  Panics,      \* the modes in which a worker's provider may panic
  MaxPlan,     \* a bound: the longest dispatch list
  MaxDeltas    \* a bound: the non-empty deltas a worker streams

ASSUME ConductorAssumption ==
  /\ MaxSteps \in Nat \ {0} /\ MaxFanout \in Nat \ {0} /\ Buffer \in Nat \ {0}
  /\ MaxPlan \in Nat \ {0} /\ MaxDeltas \in Nat /\ Cap \in Nat
  /\ Scored \in BOOLEAN
  /\ Modes \subseteq {"run", "stream"} /\ Panics \subseteq Modes

VARIABLES
  mode,     \* "run" or "stream"
  failFast, \* the builder's fail_fast
  phase,    \* what the orchestrator future / stream is doing
  steps,    \* coordinator answers so far
  plan,     \* the dispatch list: what each worker's provider is
  w,        \* w[b]: where the task of branch b is
  outcome,  \* outcome[b]: what run_one_worker returned
  deltas,   \* deltas[b]: non-empty deltas branch b has produced
  permits,  \* available permits of the semaphore
  chan,     \* the channel: <<"delta" | "done", branch>> in order
  got,      \* the branches whose Done has been received (the filled slots)
  shown,    \* results forwarded so far in this turn's fold
  folded,   \* the outcomes folded by the last turn that folded any
  usd       \* the tenant's recorded spend

workerVars == <<w, outcome, deltas, permits>>
turnVars == <<mode, failFast, steps, plan, folded>>
vars == <<turnVars, phase, workerVars, chan, got, shown, usd>>

Branch == 1 .. MaxPlan
Providers == {"unknown", "chat", "stream"}
Phases == {"turn", "collect", "fold", "final", "error", "dropped"}
Ended == {"final", "error", "dropped"}

(* A worker task: absent; waiting for a permit; holding one; connecting,   *)
(* outside the timeout; in a call bounded by the timeout; blocked on the   *)
(* full channel with a delta; sending Done; over; unwound by a panic.      *)
Calling == {"connecting", "chatting", "streaming", "sending"}
Holding == {"admitted"} \cup Calling
Over == {"absent", "finished", "panicked"}
WorkerState == Holding \cup Over \cup {"queued", "reporting"}

Plans == UNION {[1 .. n -> Providers] : n \in 1 .. MaxPlan}
Dispatched == DOMAIN plan

Init ==
  /\ mode \in Modes /\ failFast \in BOOLEAN
  /\ phase = "turn" /\ steps = 0 /\ plan = <<>>
  /\ w = [b \in Branch |-> "absent"]
  /\ outcome = [b \in Branch |-> "none"]
  /\ deltas = [b \in Branch |-> 0]
  /\ permits = MaxFanout
  /\ chan = <<>> /\ got = {} /\ shown = 0
  /\ folded = <<>> /\ usd = 0

-----------------------------------------------------------------------------
(* The coordinator's turn.                                                 *)

CoordinatorAnswers ==
  /\ phase = "turn" /\ steps < MaxSteps
  /\ usd + 1 <= Cap
  /\ usd' = usd + 1
  /\ steps' = steps + 1

(* The answer does not parse and is fed back, or it dispatches nothing and *)
(* the coordinator is nudged.                                              *)
Retry ==
  /\ CoordinatorAnswers
  /\ folded' = <<>>
  /\ UNCHANGED <<mode, failFast, plan, phase, workerVars, chan, got, shown>>

Halt ==
  /\ CoordinatorAnswers
  /\ phase' = "final" /\ folded' = <<>>
  /\ UNCHANGED <<mode, failFast, plan, workerVars, chan, got, shown>>

(* One task is spawned per entry, none of them started yet; the channel    *)
(* and the slots are new.                                                  *)
Dispatch ==
  /\ CoordinatorAnswers
  /\ plan' \in Plans
  /\ w' = [b \in Branch |-> IF b \in DOMAIN plan' THEN "queued" ELSE "absent"]
  /\ outcome' = [b \in Branch |-> "none"]
  /\ deltas' = [b \in Branch |-> 0]
  /\ chan' = <<>> /\ got' = {} /\ shown' = 0
  /\ phase' = "collect" /\ folded' = <<>>
  /\ UNCHANGED <<mode, failFast, permits>>

(* The pre_check refuses, the provider fails, or record fails. *)
TurnFails ==
  /\ phase = "turn" /\ steps < MaxSteps
  /\ phase' = "error" /\ folded' = <<>>
  /\ UNCHANGED <<mode, failFast, steps, plan, workerVars, chan, got, shown, usd>>

(* The loop ends without a halt: the last answer is the result. *)
StepsUsedUp ==
  /\ phase = "turn" /\ steps = MaxSteps
  /\ phase' = "final" /\ folded' = <<>>
  /\ UNCHANGED <<mode, failFast, steps, plan, workerVars, chan, got, shown, usd>>

Turn == Retry \/ Halt \/ Dispatch \/ TurnFails \/ StepsUsedUp

-----------------------------------------------------------------------------
(* Workers.  They go on when the orchestrator has ended: their handles are *)
(* dropped, which detaches the tasks.                                      *)

orchVars == <<turnVars, phase, got, shown>>

(* The receiver lives from the dispatch to the end of the turn. *)
Listening == phase \in {"collect", "fold"}
Room == Len(chan) < Buffer

(* run_one_worker returns o, and its permit is dropped. *)
Return(b, o) ==
  /\ w' = [w EXCEPT ![b] = IF mode = "stream" THEN "reporting" ELSE "finished"]
  /\ outcome' = [outcome EXCEPT ![b] = o]
  /\ permits' = permits + 1
  /\ UNCHANGED <<deltas, chan, orchVars>>

Goto(b, s) == w' = [w EXCEPT ![b] = s]

(* No such worker: an error without a permit. *)
UnknownWorker(b) ==
  /\ w[b] = "queued" /\ plan[b] = "unknown"
  /\ Goto(b, IF mode = "stream" THEN "reporting" ELSE "finished")
  /\ outcome' = [outcome EXCEPT ![b] = "err"]
  /\ UNCHANGED <<permits, deltas, chan, orchVars, usd>>


Acquire(b) ==
  /\ w[b] = "queued" /\ plan[b] # "unknown"
  /\ permits > 0
  /\ permits' = permits - 1
  /\ Goto(b, "admitted")
  /\ UNCHANGED <<outcome, deltas, chan, orchVars, usd>>

PreCheckPasses_AtCap(b) ==
  /\ w[b] = "admitted" /\ usd <= Cap
  /\ Goto(b, IF mode = "stream" /\ plan[b] = "stream" THEN "connecting" ELSE "chatting")
  /\ UNCHANGED <<outcome, deltas, permits, chan, orchVars, usd>>

PreCheckPasses(b) ==
  /\ w[b] = "admitted" /\ usd + 1 <= Cap
  /\ Goto(b, IF mode = "stream" /\ plan[b] = "stream" THEN "connecting" ELSE "chatting")
  /\ UNCHANGED <<outcome, deltas, permits, chan, orchVars, usd>>

PreCheckFails(b) ==
  /\ w[b] = "admitted" /\ usd + 1 > Cap
  /\ Return(b, "err") /\ UNCHANGED usd

(* provider.stream() answers, or fails and chat() is tried instead. *)
Connected(b) ==
  /\ w[b] = "connecting"
  /\ Goto(b, "streaming") \/ Goto(b, "chatting")
  /\ UNCHANGED <<outcome, deltas, permits, chan, orchVars, usd>>

(* A non-empty delta goes into the channel, waits for room in it, or is    *)
(* lost because nobody listens.                                            *)
Delta(b) ==
  /\ w[b] = "streaming" /\ deltas[b] < MaxDeltas
  /\ deltas' = [deltas EXCEPT ![b] = @ + 1]
  /\ IF Listening /\ Room
     THEN chan' = Append(chan, <<"delta", b>>) /\ UNCHANGED w
     ELSE UNCHANGED chan /\ IF Listening THEN Goto(b, "sending") ELSE UNCHANGED w
  /\ UNCHANGED <<outcome, permits, orchVars, usd>>

Unblocked(b) ==
  /\ w[b] = "sending"
  /\ \/ Listening /\ Room /\ chan' = Append(chan, <<"delta", b>>)
     \/ ~Listening /\ UNCHANGED chan
  /\ Goto(b, "streaming")
  /\ UNCHANGED <<outcome, deltas, permits, orchVars, usd>>

(* The chat's answer, or the stream's End or exhaustion: recorded.  The    *)
(* finish reason decides.                                                  *)
ProviderDone(b) ==
  /\ w[b] \in {"chatting", "streaming"}
  /\ usd' = usd + 1
  /\ Return(b, "ok") \/ Return(b, "err")

(* A provider error, an Error chunk: nothing is recorded. *)
ProviderFails(b) ==
  /\ w[b] \in {"chatting", "streaming"}
  /\ Return(b, "err") /\ UNCHANGED usd

Timeout_KeepsPermit(b) ==
  /\ w[b] \in Calling \ {"connecting"}
  /\ Goto(b, IF mode = "stream" THEN "reporting" ELSE "finished")
  /\ outcome' = [outcome EXCEPT ![b] = "err"]
  /\ UNCHANGED <<deltas, permits, chan, orchVars, usd>>

(* worker_timeout covers the call and the sends inside it. *)
Timeout(b) ==
  /\ w[b] \in Calling \ {"connecting"}
  /\ Return(b, "err") /\ UNCHANGED usd


Report_IfListening(b) ==
  /\ w[b] = "reporting"
  /\ Listening /\ Room /\ chan' = Append(chan, <<"done", b>>)
  /\ Goto(b, "finished")
  /\ UNCHANGED <<outcome, deltas, permits, orchVars, usd>>

(* Done waits for room, outside any timeout. *)
Report(b) ==
  /\ w[b] = "reporting"
  /\ \/ Listening /\ Room /\ chan' = Append(chan, <<"done", b>>)
     \/ ~Listening /\ UNCHANGED chan
  /\ Goto(b, "finished")
  /\ UNCHANGED <<outcome, deltas, permits, orchVars, usd>>

(* The provider panics: the task unwinds, its permit and sender with it.   *)
Panic(b) ==
  /\ mode \in Panics /\ w[b] \in {"connecting", "chatting", "streaming"}
  /\ Goto(b, "panicked")
  /\ permits' = permits + 1
  /\ UNCHANGED <<outcome, deltas, chan, orchVars, usd>>

Work(b) ==
  UnknownWorker(b) \/ Acquire(b) \/ PreCheckPasses(b) \/ PreCheckFails(b)
    \/ Delta(b) \/ Unblocked(b) \/ Timeout(b) \/ Report(b)
Provider(b) == Connected(b) \/ ProviderDone(b) \/ ProviderFails(b) \/ Panic(b)

-----------------------------------------------------------------------------
(* Collecting.  stream() receives from the channel until every branch has  *)
(* reported or no sender is left; run() joins the handles.                 *)

collectVars == <<turnVars, workerVars, shown, usd>>

Receiving == phase = "collect" /\ mode = "stream" /\ got # Dispatched

(* A delta: it is forwarded, or the verifier fails on it. *)
RecvDelta ==
  /\ Receiving /\ chan # <<>>
  /\ Head(chan)[1] = "delta"
  /\ UNCHANGED phase \/ (Scored /\ phase' = "error")
  /\ chan' = Tail(chan)
  /\ UNCHANGED <<collectVars, got>>

(* A Done fills the branch's slot. *)
RecvDone ==
  /\ Receiving /\ chan # <<>>
  /\ Head(chan)[1] = "done"
  /\ got' = got \cup {Head(chan)[2]}
  /\ chan' = Tail(chan)
  /\ UNCHANGED <<collectVars, phase>>

Joined_FirstDone ==
  /\ phase = "collect"
  /\ LET first == IF mode = "run" THEN {b \in Dispatched : w[b] \in Over} ELSE got IN
     first # {} /\ got' = first
  /\ outcome' = [b \in Branch |-> IF w[b] = "panicked" THEN "err" ELSE outcome[b]]
  /\ phase' = "fold"
  /\ UNCHANGED <<turnVars, w, deltas, permits, shown, usd, chan>>

(* Every slot is filled, or the channel is drained and closed; and the     *)
(* dispatcher has awaited every task.                                      *)
Joined ==
  /\ phase = "collect"
  /\ \A b \in Dispatched : w[b] \in Over
  /\ \/ mode = "stream" /\ (got = Dispatched \/ chan = <<>>) /\ UNCHANGED <<got, outcome>>
     \/ /\ mode = "run" /\ got' = Dispatched
        /\ outcome' = [b \in Branch |-> IF w[b] = "panicked" THEN "err" ELSE outcome[b]]
  /\ phase' = "fold"
  /\ UNCHANGED <<turnVars, w, deltas, permits, shown, usd, chan>>

-----------------------------------------------------------------------------
(* Folding: the results in dispatch order, without the slots left empty.   *)

Filled == got \cap Dispatched
Rank(b) == Cardinality({a \in Filled : a <= b})
Results == [i \in 1 .. Cardinality(Filled) |-> CHOOSE b \in Filled : Rank(b) = i]
Outcomes == [i \in 1 .. Len(Results) |-> outcome[Results[i]]]
AllShown == mode = "run" \/ shown = Len(Results)

(* The next result is forwarded as number shown + 1, or the verifier fails *)
(* on it.                                                                  *)
Show ==
  /\ phase = "fold" /\ ~AllShown
  /\ shown' = shown + 1
  /\ UNCHANGED phase \/ (Scored /\ Outcomes[shown + 1] = "ok" /\ phase' = "error")
  /\ UNCHANGED <<turnVars, workerVars, chan, got, usd>>

Fold_NoFailFast ==
  /\ phase = "fold" /\ AllShown
  /\ folded' = Outcomes
  /\ phase' = "turn"
  /\ UNCHANGED <<mode, failFast, steps, plan, workerVars, chan, got, shown, usd>>

(* fail_fast looks at every result; otherwise all go to the coordinator. *)
Fold ==
  /\ phase = "fold" /\ AllShown
  /\ folded' = Outcomes
  /\ phase' = IF failFast /\ \E i \in DOMAIN Outcomes : Outcomes[i] = "err"
              THEN "error" ELSE "turn"
  /\ UNCHANGED <<mode, failFast, steps, plan, workerVars, chan, got, shown, usd>>

(* The caller drops the stream, or the future of run(). *)
Drop ==
  /\ phase \notin Ended
  /\ phase' = "dropped" /\ folded' = <<>>
  /\ UNCHANGED <<mode, failFast, steps, plan, workerVars, chan, got, shown, usd>>

Orchestrate == Turn \/ RecvDelta \/ RecvDone \/ Joined \/ Show \/ Fold

Next == Orchestrate \/ Drop \/ \E b \in Branch : Work(b) \/ Provider(b)

Spec == Init /\ [][Next]_vars

(* tokio runs every task that can run, its timers fire, the coordinator    *)
(* answers or fails, and the consumer polls the stream until it drops it.  *)
CodeFairness == WF_vars(Orchestrate) /\ \A b \in Branch : WF_vars(Work(b))

(* No worker's provider hangs in stream() before its first chunk. *)
ProvidersConnect == \A b \in Branch : WF_vars(Connected(b))

CodeSpec == Spec /\ CodeFairness
FairSpec == CodeSpec /\ ProvidersConnect

-----------------------------------------------------------------------------
(* Properties.                                                             *)

(* Every variable has its type. *)
TypeOK ==
  /\ mode \in {"run", "stream"} /\ phase \in Phases
  /\ failFast \in BOOLEAN /\ steps \in 0 .. MaxSteps
  /\ plan \in Plans \cup {<<>>}
  /\ w \in [Branch -> WorkerState]
  /\ outcome \in [Branch -> {"none", "ok", "err"}]
  /\ deltas \in [Branch -> 0 .. MaxDeltas]
  /\ permits \in 0 .. MaxFanout
  /\ chan \in Seq({"delta", "done"} \X Branch) /\ Len(chan) <= Buffer
  /\ got \subseteq Branch /\ shown \in 0 .. MaxPlan
  /\ folded \in Seq({"none", "ok", "err"}) /\ Len(folded) <= MaxPlan
  /\ usd \in Nat

Holders == {b \in Branch : w[b] \in Holding}

(* Whatever a worker ends with - an answer, an error, a timeout, a panic,  *)
(* the run dropped under it - its permit goes back, once: the semaphore is *)
(* shared by all turns, and a lost permit would narrow every later one.    *)
PermitsConserved == permits + Cardinality(Holders) = MaxFanout

(* Only branches of the current dispatch run, and when the coordinator is  *)
(* asked again nothing does: no worker of an earlier turn is alive then,   *)
(* in both modes and after panics.                                         *)
OthersIdle == \A b \in Branch \ Dispatched : w[b] \in Over

QuietBetweenTurns ==
  /\ OthersIdle
  /\ phase \in {"turn", "fold", "final"} =>
       permits = MaxFanout /\ \A b \in Branch : w[b] \in Over

(* No way out of a turn leaves a worker or loses a permit.                  *)
WorkersContained == PermitsConserved /\ QuietBetweenTurns

(* Concurrent workers pass the same pre_check, so the cap can be overrun,  *)
(* but by no more than max_fanout - 1 calls.                               *)
OvershootBounded == usd <= Cap + MaxFanout - 1

InCall == {b \in Branch : w[b] \in Calling}

(* ... because the calls that have passed it are counted by the permits.   *)
CallsBounded == usd + Cardinality(InCall) <= Cap + MaxFanout - 1

(* In stream(), no event of a worker follows its Done, which it posts at   *)
(* most once, even when a timeout has cut off a send.                      *)
DoneIsLast ==
  phase = "collect" =>
    \A i \in DOMAIN chan :
      LET b == chan[i][2] IN
      /\ b \in Dispatched \ got
      /\ chan[i][1] = "done" =>
           w[b] = "finished" /\ \A j \in DOMAIN chan : j > i => chan[j][2] # b

(* The results folded are those of every dispatched worker, numbered as    *)
(* they were dispatched: ToolCallResult's id and VerifierScore's branch    *)
(* name the worker they are about. Under stream() a worker that panics     *)
(* leaves no result, and the numbers of those behind it slip.              *)
Attributed == phase = "fold" =>
  \/ Results = [i \in 1 .. Len(plan) |-> i]
  \/ mode = "stream" /\ \E b \in 1 .. Len(plan) : w[b] = "panicked"

(* Between the channel and the fold nothing of a worker is lost, doubled or *)
(* taken for another's (conductor.rs:565-598).                              *)
ResultsInPlace == TypeOK /\ DoneIsLast /\ Attributed

(* The workers dispatched whose result is not lost. *)
Kept == {b \in Dispatched : ~(mode = "stream" /\ w[b] = "panicked")}

(* Each run is one of ForkJoin's: what a panic under stream() takes away   *)
(* is all that is ever missing from a fold.                                *)
FJ == INSTANCE ForkJoin WITH
        turn <- steps,
        status <- CASE phase = "turn" -> "coordinating"
                    [] phase \in {"collect", "fold"} -> "waiting"
                    [] OTHER -> phase,
        asked <- IF phase \in {"collect", "fold"} THEN Cardinality(Kept) ELSE 0,
        folded <- folded

ImplementsForkJoin == FJ!FJSpec

(* The run ends, and after it every worker, with all permits back: no      *)
(* worker waits for ever on the semaphore or on the full channel, not even *)
(* when the stream was dropped with the workers blocked on it.             *)
Settles ==
  <>[](phase \in Ended /\ permits = MaxFanout /\ \A b \in Branch : w[b] \in Over)

-----------------------------------------------------------------------------
(* What the repository says and the code does not do.                      *)

(* conductor.rs:8: each worker is independently bounded by worker_timeout. *)
(* The connection to a streaming provider is awaited outside it.           *)
WorkersBounded == \A b \in Branch : (w[b] \in Holding) ~> (w[b] \notin Holding)

(* conductor.rs:9: fail_fast aborts on the first worker error.  A worker   *)
(* that panics under stream() is no error to it.                           *)
FailFastSeesPanics ==
  [][failFast /\ phase = "fold" /\ phase' = "turn" =>
       \A b \in Dispatched : w[b] = "finished" /\ outcome[b] = "ok"]_vars
=============================================================================
