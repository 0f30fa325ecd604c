------------------------------ MODULE ForkJoin ------------------------------
(***************************************************************************)
(* What Conductor::run and Conductor::stream promise, without workers,     *)
(* permits, channels or money: a bounded number of coordinator turns, each *)
(* of which either changes nothing or dispatches some workers and folds    *)
(* exactly one outcome per dispatched worker that was not lost, in         *)
(* dispatch order, into the next turn, all of them at once.                *)
(***************************************************************************)
EXTENDS Naturals, Sequences

CONSTANTS
  MaxSteps,  \* Conductor.max_steps
  MaxPlan    \* a bound: the longest dispatch list

VARIABLES
  failFast, \* Conductor.fail_fast
  turn,    \* coordinator answers so far
  status,  \* what the run is doing
  asked,   \* workers dispatched in this turn and not folded yet
  folded   \* the outcomes the last turn folded, in dispatch order

fjVars == <<failFast, turn, status, asked, folded>>

Outcomes == {"ok", "err"}
Ended == {"final", "error", "dropped"}

FJInit ==
  /\ failFast \in BOOLEAN
  /\ turn = 0 /\ status = "coordinating" /\ asked = 0 /\ folded = <<>>

(* The coordinator's answer dispatches n workers. *)
FJDispatch ==
  /\ status = "coordinating" /\ turn < MaxSteps
  /\ status' = "waiting" /\ turn' = turn + 1 /\ folded' = <<>>
  /\ asked' \in 1 .. MaxPlan

(* A worker is lost, and its outcome with it. *)
FJLose ==
  /\ status = "waiting" /\ asked > 0
  /\ asked' = asked - 1
  /\ UNCHANGED <<turn, status, folded>>

(* All of them have an outcome. *)
FJFold ==
  /\ status = "waiting"
  /\ folded' \in [1 .. asked -> Outcomes]
  /\ status' = IF failFast /\ \E i \in 1 .. asked : folded'[i] = "err"
               THEN "error" ELSE "coordinating"
  /\ asked' = 0
  /\ UNCHANGED turn

(* The answer is malformed or empty: the coordinator is asked again. *)
FJRetry ==
  /\ status = "coordinating" /\ turn < MaxSteps
  /\ turn' = turn + 1 /\ folded' = <<>>
  /\ UNCHANGED <<status, asked>>

(* The coordinator halts, or its turns are used up. *)
FJFinish ==
  /\ status = "coordinating" /\ status' = "final"
  /\ turn' \in {turn, turn + 1} /\ turn' <= MaxSteps
  /\ folded' = <<>> /\ UNCHANGED asked

(* An error or the caller ends the run; what was asked is not folded. *)
FJStop ==
  /\ status \notin Ended /\ status' \in {"error", "dropped"}
  /\ asked' = 0 /\ folded' = <<>>
  /\ UNCHANGED turn

FJNext ==
  /\ FJDispatch \/ FJLose \/ FJFold \/ FJRetry \/ FJFinish \/ FJStop
  /\ UNCHANGED failFast

FJSpec == FJInit /\ [][FJNext]_fjVars
=============================================================================
