-------------------------- MODULE ConductorProofs --------------------------
(***************************************************************************)
(* For any fanout, plan length, channel size and cap, in both modes and    *)
(* with panics: the semaphore's permits are conserved, nothing runs        *)
(* between turns, the cap is overrun by at most max_fanout - 1 calls, the  *)
(* results of a turn are those of its workers in their order, and every    *)
(* run is one of ForkJoin.                                                 *)
(***************************************************************************)
EXTENDS Conductor, FiniteSetTheorems, SequenceTheorems, TLAPS

(* The constants' types that the proof needs. *)
LEMMA Constants == MaxFanout \in Nat \ {0} /\ MaxPlan \in Nat /\ Cap \in Nat
  BY ConductorAssumption DEF ConductorAssumption

USE Constants

(* The parts of TypeOK the proof needs. *)
Types ==
  /\ w \in [Branch -> WorkerState]
  /\ permits \in Nat /\ usd \in Nat

(* The invariant that is inductive. *)
Inv == Types /\ PermitsConserved /\ QuietBetweenTurns /\ CallsBounded

(* What a step of the task of branch b, which leads it to s, may do to the *)
(* state it shares with the others.                                        *)
Effect(b, s) ==
  /\ w' = [w EXCEPT ![b] = s]
  /\ \/ /\ w[b] = "queued" /\ s = "admitted"
        /\ permits > 0 /\ permits' = permits - 1 /\ usd' = usd
     \/ /\ w[b] = "admitted" /\ s \in Calling
        /\ permits' = permits /\ usd' = usd /\ usd + 1 <= Cap
     \/ /\ w[b] \in Calling /\ s \in Calling
        /\ permits' = permits /\ usd' = usd
     \/ /\ w[b] \in Holding /\ s \notin Holding
        /\ permits' = permits + 1
        /\ usd' = usd \/ (w[b] \in Calling /\ usd' = usd + 1)
     \/ /\ w[b] \notin Holding /\ s \notin Holding
        /\ permits' = permits /\ usd' = usd

(* Sets of branches are finite. *)
LEMMA BranchSets ==
  ASSUME NEW P \in SUBSET Branch
  PROVE  IsFiniteSet(P) /\ Cardinality(P) \in Nat
  <1>1. IsFiniteSet(Branch)
    BY FS_Interval DEF Branch
  <1>2. IsFiniteSet(P)
    BY <1>1, FS_Subset
  <1> QED
    BY <1>2, FS_CardinalityType

(* When one task moves, the number of tasks in the states G changes by one *)
(* if it enters or leaves G and not at all if it does neither.             *)
LEMMA OneMoves ==
  ASSUME NEW G, NEW b \in Branch, NEW s,
         w \in [Branch -> WorkerState], w' = [w EXCEPT ![b] = s]
  PROVE  LET S == {c \in Branch : w[c] \in G}
             T == {c \in Branch : w'[c] \in G}
         IN  /\ Cardinality(S) \in Nat /\ Cardinality(T) \in Nat
             /\ (w[b] \in G <=> s \in G) => Cardinality(T) = Cardinality(S)
             /\ w[b] \notin G /\ s \in G => Cardinality(T) = Cardinality(S) + 1
             /\ w[b] \in G /\ s \notin G => Cardinality(T) = Cardinality(S) - 1
  <1> DEFINE S == {c \in Branch : w[c] \in G}
             T == {c \in Branch : w'[c] \in G}
  <1>1. S \in SUBSET Branch /\ T \in SUBSET Branch
    OBVIOUS
  <1>2. b \in S <=> w[b] \in G
    OBVIOUS
  <1>3. (w[b] \in G <=> s \in G) => T = S
    OBVIOUS
  <1>4. s \in G => T = S \cup {b}
    OBVIOUS
  <1>5. s \notin G => T = S \ {b}
    OBVIOUS
  <1> SUFFICES /\ Cardinality(S) \in Nat /\ Cardinality(T) \in Nat
               /\ (w[b] \in G <=> s \in G) => Cardinality(T) = Cardinality(S)
               /\ w[b] \notin G /\ s \in G => Cardinality(T) = Cardinality(S) + 1
               /\ w[b] \in G /\ s \notin G => Cardinality(T) = Cardinality(S) - 1
    OBVIOUS
  <1> HIDE DEF S, T
  <1>6. IsFiniteSet(S) /\ Cardinality(S) \in Nat /\ Cardinality(T) \in Nat
    BY <1>1, BranchSets
  <1>7. b \notin S => Cardinality(S \cup {b}) = Cardinality(S) + 1
    BY <1>6, FS_AddElement
  <1>8. b \in S => Cardinality(S \ {b}) = Cardinality(S) - 1
    BY <1>6, FS_RemoveElement
  <1> QED
    BY <1>2, <1>3, <1>4, <1>5, <1>6, <1>7, <1>8

(* Every action of a worker has such an effect, on a task that runs, and   *)
(* leaves the orchestrator where it is.                                    *)
LEMMA WorkerEffect ==
  ASSUME Types, NEW b \in Branch, Work(b) \/ Provider(b)
  PROVE  /\ phase' = phase /\ plan' = plan
         /\ w[b] \notin Over
         /\ \E s \in WorkerState : Effect(b, s)
  <1> USE DEF Types, Effect, WorkerState, Holding, Calling, Over, orchVars, turnVars, Goto
  <1>1. CASE UnknownWorker(b)
    <2>1. \E s \in {"reporting", "finished"} : w' = [w EXCEPT ![b] = s]
      BY <1>1 DEF UnknownWorker
    <2> QED
      BY <1>1, <2>1 DEF UnknownWorker
  <1>2. CASE Acquire(b)
    BY <1>2 DEF Acquire
  <1>3. CASE PreCheckPasses(b)
    BY <1>3 DEF PreCheckPasses
  <1>4. CASE PreCheckFails(b)
    <2>1. \E s \in {"reporting", "finished"} : w' = [w EXCEPT ![b] = s]
      BY <1>4 DEF PreCheckFails, Return
    <2> QED
      BY <1>4, <2>1 DEF PreCheckFails, Return
  <1>5. CASE Delta(b)
    BY <1>5 DEF Delta
  <1>6. CASE Unblocked(b)
    BY <1>6 DEF Unblocked
  <1>7. CASE Timeout(b)
    <2>1. \E s \in {"reporting", "finished"} : w' = [w EXCEPT ![b] = s]
      BY <1>7 DEF Timeout, Return
    <2> QED
      BY <1>7, <2>1 DEF Timeout, Return
  <1>8. CASE Report(b)
    BY <1>8 DEF Report
  <1>9. CASE Connected(b)
    BY <1>9 DEF Connected
  <1>10. CASE ProviderDone(b)
    BY <1>10 DEF ProviderDone, Return
  <1>11. CASE ProviderFails(b)
    <2>1. \E s \in {"reporting", "finished"} : w' = [w EXCEPT ![b] = s]
      BY <1>11 DEF ProviderFails, Return
    <2> QED
      BY <1>11, <2>1 DEF ProviderFails, Return
  <1>12. CASE Panic(b)
    BY <1>12 DEF Panic
  <1> QED
    BY <1>1, <1>2, <1>3, <1>4, <1>5, <1>6, <1>7, <1>8, <1>9, <1>10, <1>11, <1>12
       DEF Work, Provider

(* With every task over nobody holds a permit or is in a call. *)
LEMMA AllOver ==
  ASSUME \A b \in Branch : w[b] \in Over
  PROVE  Cardinality(Holders) = 0 /\ Cardinality(InCall) = 0
  <1>1. Holders = {} /\ InCall = {}
    BY DEF Holders, InCall, Holding, Calling, Over
  <1> QED
    BY <1>1, FS_EmptySet

(* A worker's step keeps the invariant. *)
LEMMA WorkerStep ==
  ASSUME Inv, NEW b \in Branch, Work(b) \/ Provider(b)
  PROVE  Inv'
  <1>1. /\ phase' = phase /\ plan' = plan
        /\ w[b] \notin Over
        /\ \E s \in WorkerState : Effect(b, s)
    BY WorkerEffect DEF Inv
  <1>2. PICK s \in WorkerState : Effect(b, s)
    BY <1>1
  <1>3. w \in [Branch -> WorkerState] /\ w' = [w EXCEPT ![b] = s] /\ w'[b] = s
    BY <1>2 DEF Inv, Types, Effect
  <1> DEFINE H == Cardinality(Holders)
             C == Cardinality(InCall)
  <1>4. /\ H \in Nat /\ H' \in Nat
        /\ (w[b] \in Holding <=> s \in Holding) => H' = H
        /\ w[b] \notin Holding /\ s \in Holding => H' = H + 1
        /\ w[b] \in Holding /\ s \notin Holding => H' = H - 1
    BY <1>3, OneMoves DEF Holders
  <1>5. /\ C \in Nat /\ C' \in Nat
        /\ (w[b] \in Calling <=> s \in Calling) => C' = C
        /\ w[b] \notin Calling /\ s \in Calling => C' = C + 1
        /\ w[b] \in Calling /\ s \notin Calling => C' = C - 1
    BY <1>3, OneMoves DEF InCall
  <1>6. C' <= H'
    <2>1. (InCall \subseteq Holders)' /\ Holders' \in SUBSET Branch
      BY DEF InCall, Holders, Holding
    <2>2. IsFiniteSet(Holders')
      BY <2>1, BranchSets
    <2> QED
      BY <2>1, <2>2, FS_Subset
  <1>7. permits + H = MaxFanout /\ usd + C <= Cap + MaxFanout - 1
    BY DEF Inv, PermitsConserved, CallsBounded
  <1>8. permits \in Nat /\ usd \in Nat
    BY DEF Inv, Types
  <1> HIDE DEF H, C
  <1>9. Types'
    <2>1. w' \in [Branch -> WorkerState]
      BY <1>3
    <2>2. permits' \in Nat /\ usd' \in Nat
      BY <1>2, <1>8 DEF Effect
    <2> QED
      BY <2>1, <2>2 DEF Types
  <1>10. permits' + H' = MaxFanout
    BY <1>2, <1>4, <1>7, <1>8 DEF Effect, Holding, Calling
  <1>11. usd' + C' <= Cap + MaxFanout - 1
    <2>1. CASE w[b] = "admitted" /\ usd' = usd /\ usd + 1 <= Cap
      <3>1. PICK c \in Nat : c = C'
        BY <1>5
      <3>2. PICK h \in Nat : h = H'
        BY <1>4
      <3>3. PICK p \in Nat : p = permits'
        BY <1>9 DEF Types
      <3>4. c <= h /\ p + h = MaxFanout
        BY <1>6, <1>10, <3>1, <3>2, <3>3
      <3>5. usd + c <= Cap + MaxFanout - 1
        BY <2>1, <3>4, <1>8
      <3> QED
        BY <2>1, <3>1, <3>5
    <2>2. CASE ~(w[b] = "admitted" /\ usd' = usd /\ usd + 1 <= Cap)
      BY <2>2, <1>2, <1>5, <1>7, <1>8 DEF Effect, Holding, Calling
    <2> QED
      BY <2>1, <2>2
  <1>12. QuietBetweenTurns'
    <2>1. OthersIdle'
      BY <1>1, <1>3 DEF Inv, QuietBetweenTurns, OthersIdle, Dispatched
    <2>2. phase \notin {"turn", "fold", "final"}
      BY <1>1 DEF Inv, QuietBetweenTurns
    <2> QED
      BY <1>1, <2>1, <2>2 DEF QuietBetweenTurns
  <1> QED
    BY <1>9, <1>10, <1>11, <1>12 DEF Inv, PermitsConserved, CallsBounded, H, C

-----------------------------------------------------------------------------
(* A step of the orchestrator that leaves the workers and the spend alone. *)
LEMMA WorkersUntouched ==
  ASSUME Inv, UNCHANGED <<w, permits, usd>>, plan' = plan,
         phase' \in {"turn", "fold", "final"} => phase \in {"turn", "fold", "final"}
  PROVE  Inv'
  <1>1. Types' /\ OthersIdle'
    BY DEF Inv, Types, QuietBetweenTurns, OthersIdle, Dispatched
  <1>2. PermitsConserved' /\ CallsBounded'
    BY DEF Inv, PermitsConserved, CallsBounded, Holders, InCall
  <1>3. QuietBetweenTurns'
    BY <1>1 DEF Inv, QuietBetweenTurns
  <1> QED
    BY <1>1, <1>2, <1>3 DEF Inv

(* A coordinator's call is alone, so the cap bounds what it leads to. *)
LEMMA CoordinatorStep ==
  ASSUME Inv, CoordinatorAnswers, permits' = permits,
         \/ w' = w /\ plan' = plan
         \/ /\ phase' = "collect" /\ DOMAIN plan' \subseteq Branch
            /\ w' = [b \in Branch |-> IF b \in DOMAIN plan' THEN "queued" ELSE "absent"]
  PROVE  Inv'
  <1>1. /\ phase = "turn" /\ usd + 1 <= Cap /\ usd' = usd + 1
        /\ permits = MaxFanout /\ \A b \in Branch : w[b] \in Over
    BY DEF CoordinatorAnswers, Inv, QuietBetweenTurns
  <1>2. \A b \in Branch : w'[b] \in Over \cup {"queued"}
    BY <1>1 DEF Over
  <1>3. Types'
    BY <1>1 DEF Inv, Types, WorkerState, Over
  <1>4. (Holders = {} /\ InCall = {})'
    BY <1>2 DEF Holders, InCall, Holding, Calling, Over
  <1>5. (Cardinality(Holders) = 0 /\ Cardinality(InCall) = 0)'
    BY <1>4, FS_EmptySet
  <1>6. PermitsConserved' /\ CallsBounded'
    BY <1>1, <1>3, <1>5 DEF PermitsConserved, CallsBounded, Types
  <1>7. QuietBetweenTurns'
    BY <1>1 DEF Inv, QuietBetweenTurns, OthersIdle, Dispatched, Over
  <1> QED
    BY <1>3, <1>6, <1>7 DEF Inv

(* The fold begins when every dispatched task is over. *)
LEMMA JoinStep ==
  ASSUME Inv, Joined
  PROVE  Inv'
  <1>1. UNCHANGED <<w, permits, usd, plan>> /\ \A b \in Dispatched : w[b] \in Over
    BY DEF Joined, turnVars
  <1>2. \A b \in Branch : w[b] \in Over
    BY <1>1 DEF Inv, QuietBetweenTurns, OthersIdle
  <1>3. Cardinality(Holders) = 0
    BY <1>2, AllOver
  <1>4. permits = MaxFanout
    BY <1>3 DEF Inv, PermitsConserved, Types
  <1>5. Types' /\ OthersIdle'
    BY <1>1 DEF Inv, Types, QuietBetweenTurns, OthersIdle, Dispatched
  <1>6. PermitsConserved' /\ CallsBounded'
    BY <1>1 DEF Inv, PermitsConserved, CallsBounded, Holders, InCall
  <1>7. QuietBetweenTurns'
    BY <1>1, <1>2, <1>4, <1>5 DEF QuietBetweenTurns
  <1> QED
    BY <1>5, <1>6, <1>7 DEF Inv

(* Nothing runs and nothing is spent at first. *)
LEMMA InvInit == Init => Inv
  <1> SUFFICES ASSUME Init PROVE Inv
    OBVIOUS
  <1>1. \A b \in Branch : w[b] \in Over
    BY DEF Init, Over
  <1>2. Cardinality(Holders) = 0 /\ Cardinality(InCall) = 0
    BY <1>1, AllOver
  <1>3. Types
    BY DEF Init, Types, WorkerState, Over
  <1>4. PermitsConserved /\ CallsBounded
    BY <1>2 DEF Init, PermitsConserved, CallsBounded
  <1>5. QuietBetweenTurns
    BY <1>1 DEF Init, QuietBetweenTurns, OthersIdle
  <1> QED
    BY <1>3, <1>4, <1>5 DEF Inv

(* Every step keeps the invariant. *)
LEMMA InvStep == Inv /\ [Next]_vars => Inv'
  <1> SUFFICES ASSUME Inv, [Next]_vars PROVE Inv'
    OBVIOUS
  <1> USE DEF turnVars, workerVars, collectVars
  <1>1. CASE Retry
    BY <1>1, CoordinatorStep DEF Retry
  <1>2. CASE Halt
    BY <1>2, CoordinatorStep DEF Halt
  <1>4. CASE Dispatch
    <2>1. DOMAIN plan' \subseteq Branch
      BY <1>4 DEF Dispatch, Plans, Branch
    <2> QED
      BY <1>4, <2>1, CoordinatorStep DEF Dispatch
  <1>5. CASE TurnFails
    BY <1>5, WorkersUntouched DEF TurnFails
  <1>6. CASE StepsUsedUp
    BY <1>6, WorkersUntouched DEF StepsUsedUp
  <1>7. CASE RecvDelta
    BY <1>7, WorkersUntouched DEF RecvDelta, Receiving
  <1>8. CASE RecvDone
    BY <1>8, WorkersUntouched DEF RecvDone, Receiving
  <1>9. CASE Joined
    BY <1>9, JoinStep
  <1>10. CASE Show
    BY <1>10, WorkersUntouched DEF Show
  <1>11. CASE Fold
    BY <1>11, WorkersUntouched DEF Fold
  <1>12. CASE Drop
    BY <1>12, WorkersUntouched DEF Drop
  <1>13. CASE \E b \in Branch : Work(b) \/ Provider(b)
    BY <1>13, WorkerStep
  <1>14. CASE UNCHANGED vars
    BY <1>14, WorkersUntouched DEF vars
  <1> QED
    BY <1>1, <1>2, <1>4, <1>5, <1>6, <1>7, <1>8, <1>9, <1>10, <1>11, <1>12,
       <1>13, <1>14 DEF Next, Orchestrate, Turn

(* The invariant holds in every state. *)
LEMMA Invariance == Spec => []Inv
  BY InvInit, InvStep, PTL DEF Spec

(* No permit of the semaphore is lost or returned twice, whatever the      *)
(* workers end with, and the coordinator is never asked while one is alive.*)
THEOREM Contained == Spec => []WorkersContained
  <1>1. Inv => WorkersContained
    BY DEF Inv, WorkersContained
  <1> QED
    BY <1>1, Invariance, PTL

(* The recorded spend is below the cap plus max_fanout calls. *)
THEOREM Overshoot == Spec => []OvershootBounded
  <1>1. Inv => OvershootBounded
    <2> SUFFICES ASSUME Inv PROVE OvershootBounded
      OBVIOUS
    <2>1. InCall \in SUBSET Branch
      BY DEF InCall
    <2>2. Cardinality(InCall) \in Nat
      BY <2>1, BranchSets
    <2> QED
      BY <2>2 DEF Inv, Types, CallsBounded, OvershootBounded
  <1> QED
    BY <1>1, Invariance, PTL

-----------------------------------------------------------------------------
(* The results of a turn: one per filled slot.                             *)

(* A number is the rank of exactly one filled slot.                        *)
LEMMA RanksAreNumbers ==
  ASSUME Filled \in SUBSET Branch
  PROVE  /\ Cardinality(Filled) \in Nat
         /\ \A i \in 1 .. Cardinality(Filled) : \E b \in Filled : Rank(b) = i
  <1> DEFINE n == Cardinality(Filled)
             Upto(b) == {a \in Filled : a <= b}
             f == [b \in Filled |-> Cardinality(Upto(b))]
  <1>1. IsFiniteSet(Filled) /\ n \in Nat
    BY BranchSets
  <1>2. ASSUME NEW b \in Filled
        PROVE  IsFiniteSet(Upto(b)) /\ Cardinality(Upto(b)) \in 1 .. n
    <2>1. IsFiniteSet(Upto(b)) /\ Cardinality(Upto(b)) \in Nat /\ Cardinality(Upto(b)) <= n
      BY <1>1, FS_Subset, FS_CardinalityType
    <2>2. Upto(b) # {}
      BY DEF Branch
    <2>3. Cardinality(Upto(b)) # 0
      BY <2>1, <2>2, FS_EmptySet
    <2> QED
      BY <2>1, <2>3, <1>1
  <1>3. ASSUME NEW b \in Filled, NEW c \in Filled, b < c
        PROVE  Cardinality(Upto(b)) # Cardinality(Upto(c))
    <2>1. Filled \subseteq Nat
      BY DEF Branch
    <2>2. \A a \in Filled : a <= b => a <= c
      BY <1>3, <2>1
    <2>3. Upto(b) \subseteq Upto(c)
      BY <2>2
    <2>4. c \in Upto(c) /\ c \notin Upto(b)
      BY <1>3, <2>1
    <2> QED
      BY <1>2, <2>3, <2>4, FS_Subset
  <1>4. f \in Injection(Filled, 1 .. n)
    <2>1. f \in [Filled -> 1 .. n]
      BY <1>2
    <2>2. \A b, c \in Filled : f[b] = f[c] => b = c
      BY <1>3 DEF Branch
    <2> QED
      BY <2>1, <2>2 DEF Injection, IsInjective
  <1>5. IsFiniteSet(1 .. n) /\ Cardinality(1 .. n) = n
    BY <1>1, FS_Interval
  <1>6. f \in Surjection(Filled, 1 .. n)
    BY <1>4, <1>5, FS_Injection
  <1>7. \A i \in 1 .. n : \E b \in Filled : Cardinality(Upto(b)) = i
    BY <1>6 DEF Surjection
  <1> QED
    BY <1>1, <1>7 DEF Rank

(* Every result is that of a filled slot.                                  *)
LEMMA ResultsFilled ==
  ASSUME Filled \in SUBSET Branch
  PROVE  /\ Cardinality(Filled) \in Nat
         /\ DOMAIN Results = 1 .. Cardinality(Filled) /\ Len(Results) = Cardinality(Filled)
         /\ DOMAIN Outcomes = 1 .. Cardinality(Filled)
         /\ \A i \in 1 .. Cardinality(Filled) : Results[i] \in Filled /\ Outcomes[i] = outcome[Results[i]]
  <1>1. Cardinality(Filled) \in Nat
    BY RanksAreNumbers
  <1>2. DOMAIN Results = 1 .. Cardinality(Filled) /\ Len(Results) = Cardinality(Filled)
    BY <1>1 DEF Results
  <1>3. \A i \in 1 .. Cardinality(Filled) : Results[i] \in Filled
    BY RanksAreNumbers DEF Results
  <1> QED
    BY <1>1, <1>2, <1>3 DEF Outcomes

(* With every slot filled the results are numbered as they were dispatched. *)
LEMMA ResultsOfAll ==
  ASSUME Len(plan) \in 0 .. MaxPlan, Filled = 1 .. Len(plan)
  PROVE  Results = [i \in 1 .. Len(plan) |-> i]
  <1>1. ASSUME NEW b \in 1 .. Len(plan) PROVE Rank(b) = b
    <2>1. {a \in Filled : a <= b} = 1 .. b
      BY <1>1
    <2>2. Cardinality(1 .. b) = b
      BY FS_Interval
    <2> QED
      BY <2>1, <2>2 DEF Rank
  <1>2. Cardinality(Filled) = Len(plan)
    <2>1. PICK n \in Nat : n = Len(plan)
      OBVIOUS
    <2>2. Cardinality(1 .. n) = n
      BY FS_Interval
    <2> QED
      BY <2>1, <2>2
  <1>3. \A i \in 1 .. Len(plan) : (CHOOSE b \in Filled : Rank(b) = i) = i
    BY <1>1
  <1> QED
    BY <1>2, <1>3 DEF Results

-----------------------------------------------------------------------------
(* The invariant of the channel and the slots, which Inv underlies.        *)

(* A task that has returned has an outcome; a task of run() has no channel *)
(* to stream or to report into.                                            *)
Tasks ==
  \A b \in Branch :
    /\ w[b] \in {"reporting", "finished"} => outcome[b] # "none"
    /\ mode = "run" => w[b] \notin {"connecting", "streaming", "sending", "reporting"}

(* Every Done is in the channel or in its slot, from when it is sent. *)
Heard ==
  phase = "collect" =>
    /\ shown = 0 /\ folded = <<>>
    /\ \A b \in Dispatched : w[b] # "absent"
    /\ \A b \in got : b \in Dispatched /\ w[b] = "finished"
    /\ mode = "stream" =>
         \A b \in Dispatched : w[b] = "finished" =>
           b \in got \/ \E i \in DOMAIN chan : chan[i] = <<"done", b>>

(* The slots that are filled when the fold begins, of which some are shown. *)
Slots ==
  phase = "fold" =>
    /\ got = Kept /\ \A b \in got : outcome[b] \in {"ok", "err"}
    /\ shown <= Cardinality(Kept) /\ folded = <<>>

Collected == Tasks /\ DoneIsLast /\ Heard /\ Slots

Whole == Inv /\ TypeOK /\ Collected

(* What a step of the task of branch b, which leads it to s, may do to its *)
(* outcome and to the channel.                                             *)
Posts(b, s) ==
  /\ w' = [w EXCEPT ![b] = s] /\ w[b] \notin Over
  /\ UNCHANGED <<mode, failFast, steps, plan, folded, phase, got, shown>>
  /\ \/ /\ s \in Holding /\ w[b] # "reporting" /\ UNCHANGED <<outcome, chan>>
        /\ mode = "run" => s \in {"admitted", "chatting"} \/ w[b] \in {"connecting", "streaming", "sending"}
     \/ /\ s = (IF mode = "stream" THEN "reporting" ELSE "finished") /\ w[b] # "reporting"
        /\ \E o \in {"ok", "err"} : outcome' = [outcome EXCEPT ![b] = o]
        /\ UNCHANGED chan
     \/ /\ w[b] \in {"streaming", "sending"} /\ s = "streaming" /\ UNCHANGED outcome
        /\ Listening /\ Room /\ chan' = Append(chan, <<"delta", b>>)
     \/ /\ w[b] = "reporting" /\ s = "finished" /\ UNCHANGED outcome
        /\ \/ Listening /\ Room /\ chan' = Append(chan, <<"done", b>>)
           \/ ~Listening /\ UNCHANGED chan
     \/ w[b] \in Calling /\ s = "panicked" /\ mode \in Panics /\ UNCHANGED <<outcome, chan>>

LEMMA WorkerPosts ==
  ASSUME TypeOK, NEW b \in Branch, Work(b) \/ Provider(b)
  PROVE  \E s \in WorkerState : Posts(b, s)
  <1> DEFINE end == IF mode = "stream" THEN "reporting" ELSE "finished"
  <1>0. end \in WorkerState
    BY DEF WorkerState, Over
  <1>a. w \in [Branch -> WorkerState]
    BY DEF TypeOK
  <1> USE DEF Posts, WorkerState, Holding, Calling, Over, orchVars, turnVars, Goto
  <1>1. CASE UnknownWorker(b)
    BY <1>0, <1>1 DEF UnknownWorker
  <1>2. CASE Acquire(b)
    BY <1>2, <1>a DEF Acquire
  <1>3. CASE PreCheckPasses(b)
    BY <1>3, <1>a DEF PreCheckPasses
  <1>4. CASE PreCheckFails(b)
    BY <1>0, <1>4 DEF PreCheckFails, Return
  <1>5. CASE Delta(b)
    <2>1. CASE Listening /\ Room
      <3>1. Posts(b, "streaming")
        BY <1>5, <2>1, <1>a DEF Delta
      <3> QED
        BY <3>1
    <2>2. CASE Listening /\ ~Room
      <3>1. Posts(b, "sending")
        BY <1>5, <2>2, <1>a DEF Delta
      <3> QED
        BY <3>1
    <2>3. CASE ~Listening
      <3>1. Posts(b, "streaming")
        BY <1>5, <2>3, <1>a DEF Delta
      <3> QED
        BY <3>1
    <2> QED
      BY <2>1, <2>2, <2>3
  <1>6. CASE Unblocked(b)
    <2>1. Posts(b, "streaming")
      BY <1>6, <1>a DEF Unblocked
    <2> QED
      BY <2>1
  <1>7. CASE Timeout(b)
    BY <1>0, <1>7 DEF Timeout, Return
  <1>8. CASE Report(b)
    <2>1. Posts(b, "finished")
      BY <1>8, <1>a DEF Report
    <2> QED
      BY <2>1
  <1>9. CASE Connected(b)
    BY <1>9, <1>a DEF Connected
  <1>10. CASE ProviderDone(b)
    BY <1>0, <1>10 DEF ProviderDone, Return
  <1>11. CASE ProviderFails(b)
    BY <1>0, <1>11 DEF ProviderFails, Return
  <1>12. CASE Panic(b)
    <2>1. Posts(b, "panicked")
      BY <1>12, <1>a DEF Panic
    <2> QED
      BY <2>1
  <1> QED
    BY <1>1, <1>2, <1>3, <1>4, <1>5, <1>6, <1>7, <1>8, <1>9, <1>10, <1>11, <1>12
       DEF Work, Provider

(* The plan is a list. *)
LEMMA PlanLength ==
  plan \in Plans \cup {<<>>} =>
    /\ Len(plan) \in 0 .. MaxPlan /\ Dispatched = 1 .. Len(plan) /\ Dispatched \subseteq Branch
  <1>1. ASSUME NEW n \in 1 .. MaxPlan, plan \in [1 .. n -> Providers]
        PROVE  Len(plan) = n /\ DOMAIN plan = 1 .. n
    BY <1>1
  <1>2. CASE plan \in Plans
    <2>1. PICK n \in 1 .. MaxPlan : plan \in [1 .. n -> Providers]
      BY <1>2 DEF Plans
    <2>2. Len(plan) = n /\ DOMAIN plan = 1 .. n
      BY <1>1, <2>1
    <2> QED
      BY <2>2 DEF Dispatched, Branch
  <1>3. CASE plan = <<>>
    BY <1>3 DEF Dispatched, Branch
  <1> QED
    BY <1>2, <1>3

(* The channel's messages, in order. *)
Messages == {"delta", "done"} \X Branch

LEMMA ChannelGrows ==
  ASSUME chan \in Seq(Messages), NEW m \in Messages, chan' = Append(chan, m)
  PROVE  /\ chan' \in Seq(Messages) /\ Len(chan) \in Nat /\ Len(chan') = Len(chan) + 1
         /\ DOMAIN chan = 1 .. Len(chan) /\ DOMAIN chan' = 1 .. Len(chan) + 1
         /\ chan'[Len(chan) + 1] = m /\ \A i \in DOMAIN chan : chan'[i] = chan[i]
  BY AppendProperties, LenProperties

LEMMA ChannelShrinks ==
  ASSUME chan \in Seq(Messages), chan # <<>>, chan' = Tail(chan)
  PROVE  /\ chan' \in Seq(Messages) /\ Len(chan) \in Nat /\ Len(chan') = Len(chan) - 1
         /\ DOMAIN chan = 1 .. Len(chan) /\ DOMAIN chan' = 1 .. Len(chan) - 1
         /\ 1 \in DOMAIN chan /\ Head(chan) = chan[1] /\ Head(chan) \in Messages
         /\ \A i \in DOMAIN chan' : i + 1 \in DOMAIN chan /\ chan'[i] = chan[i + 1]
  <1>1. /\ chan' \in Seq(Messages) /\ Len(chan') = Len(chan) - 1
        /\ \A i \in 1 .. Len(Tail(chan)) : Tail(chan)[i] = chan[i + 1]
    BY HeadTailProperties
  <1>2. Len(chan) \in Nat \ {0} /\ DOMAIN chan = 1 .. Len(chan) /\ DOMAIN chan' = 1 .. Len(chan')
    BY <1>1, LenProperties, EmptySeq
  <1>3. Head(chan) = chan[1] /\ Head(chan) \in Messages
    BY HeadTailProperties
  <1> QED
    BY <1>1, <1>2, <1>3

(* The types of a worker's step. *)
LEMMA WorkerTypes ==
  ASSUME TypeOK, Inv', NEW b \in Branch, Work(b) \/ Provider(b)
  PROVE  TypeOK'
  <1>1. PICK s \in WorkerState : Posts(b, s)
    BY WorkerPosts
  <1>2. UNCHANGED <<mode, failFast, steps, plan, folded, phase, got, shown>>
    BY <1>1 DEF Posts
  <1>3. w' \in [Branch -> WorkerState]
    BY <1>1 DEF Posts, TypeOK
  <1>4. outcome' \in [Branch -> {"none", "ok", "err"}]
    BY <1>1 DEF Posts, TypeOK
  <1>5. chan' \in Seq(Messages) /\ Len(chan') <= Buffer
    <2>1. CASE chan' = chan
      BY <2>1 DEF TypeOK, Messages
    <2>2. CASE Room /\ \E k \in {"delta", "done"} : chan' = Append(chan, <<k, b>>)
      <3>1. PICK m \in Messages : chan' = Append(chan, m)
        BY <2>2 DEF Messages
      <3>2. chan' \in Seq(Messages) /\ Len(chan) \in Nat /\ Len(chan') = Len(chan) + 1
        BY <3>1, ChannelGrows DEF TypeOK, Messages
      <3> QED
        BY <2>2, <3>2, ConductorAssumption DEF Room, ConductorAssumption
    <2> QED
      BY <1>1, <2>1, <2>2 DEF Posts
  <1>6. deltas' \in [Branch -> 0 .. MaxDeltas]
    <2>1. CASE Delta(b)
      BY <2>1, ConductorAssumption DEF TypeOK, ConductorAssumption, Delta
    <2>2. CASE UNCHANGED deltas
      BY <2>2 DEF TypeOK
    <2>3. UnknownWorker(b) \/ Acquire(b) \/ PreCheckPasses(b) \/ PreCheckFails(b) => UNCHANGED deltas
      BY DEF UnknownWorker, Acquire, PreCheckPasses, PreCheckFails, Return
    <2>4. Unblocked(b) \/ Timeout(b) \/ Report(b) \/ Provider(b) => UNCHANGED deltas
      BY DEF Unblocked, Timeout, Report, Provider, Connected, ProviderDone, ProviderFails, Panic, Return
    <2> QED
      BY <2>1, <2>2, <2>3, <2>4 DEF Work
  <1>7. permits' \in 0 .. MaxFanout /\ usd' \in Nat
    <2>1. Holders' \in SUBSET Branch
      BY DEF Holders
    <2>2. Cardinality(Holders') \in Nat
      BY <2>1, BranchSets
    <2> QED
      BY <2>2 DEF Inv, Types, PermitsConserved
  <1> QED
    BY <1>2, <1>3, <1>4, <1>5, <1>6, <1>7 DEF TypeOK, Messages

(* A worker's step keeps the channel and the slots in order. *)
LEMMA WorkerCollected ==
  ASSUME Whole, Inv', NEW b \in Branch, Work(b) \/ Provider(b)
  PROVE  Collected'
  <1> USE DEF Whole, Collected
  <1>1. PICK s \in WorkerState : Posts(b, s)
    BY WorkerPosts
  <1>2. UNCHANGED <<mode, plan, phase, got, shown, folded>> /\ w[b] \notin Over /\ b \in Dispatched
    BY <1>1 DEF Posts, Inv, QuietBetweenTurns, OthersIdle
  <1>3. /\ w' = [w EXCEPT ![b] = s] /\ w'[b] = s
        /\ \A c \in Branch : w'[c] = IF c = b THEN s ELSE w[c]
    BY <1>1 DEF Posts, TypeOK
  <1>4. Tasks'
    <2>1. outcome \in [Branch -> {"none", "ok", "err"}]
      BY DEF TypeOK
    <2> QED
      BY <1>1, <1>2, <1>3, <2>1 DEF Tasks, Posts, Holding, Calling, Over
  <1>5. chan \in Seq(Messages) /\ Len(chan) \in Nat /\ DOMAIN chan = 1 .. Len(chan)
    BY LenProperties DEF TypeOK, Messages
  <1>6. CASE chan' = chan
    <2>1. DoneIsLast'
      BY <1>2, <1>3, <1>6 DEF DoneIsLast, Over, Dispatched
    <2>2. Heard'
      <3> SUFFICES ASSUME phase = "collect" PROVE Heard'
        BY <1>2 DEF Heard
      <3>1. s = "finished" => mode # "stream"
        <4>1. <<"done", b>> \in Messages
          BY DEF Messages
        <4>2. chan' # Append(chan, <<"done", b>>)
          <5>1. Len(Append(chan, <<"done", b>>)) = Len(chan) + 1
            BY <1>5, <4>1, AppendProperties
          <5>2. \A n \in Nat : n # n + 1
            OBVIOUS
          <5> QED
            BY <1>5, <1>6, <5>1, <5>2, Zenon
        <4> QED
          BY <1>1, <4>2 DEF Posts, Listening, Holding, Calling
      <3>2. s # "absent"
        BY <1>1 DEF Posts, Holding, Calling
      <3> QED
        BY <1>2, <1>3, <1>6, <3>1, <3>2 DEF Heard, Dispatched, Over
    <2>3. Slots'
      BY <1>2 DEF Slots, Inv, QuietBetweenTurns
    <2> QED
      BY <1>4, <2>1, <2>2, <2>3
  <1>7. CASE chan' # chan
    <2>1. PICK k \in {"delta", "done"} :
            /\ chan' = Append(chan, <<k, b>>) /\ Listening
            /\ k = "done" <=> s = "finished"
      BY <1>1, <1>7 DEF Posts
    <2>2. phase = "collect" /\ phase' = "collect"
      BY <1>2, <2>1 DEF Listening, Inv, QuietBetweenTurns
    <2>3. <<k, b>> \in Messages /\ <<k, b>>[1] = k /\ <<k, b>>[2] = b
      BY DEF Messages
    <2> DEFINE n == Len(chan) + 1
    <2>4. /\ DOMAIN chan' = 1 .. n /\ DOMAIN chan = 1 .. n - 1 /\ n \in Nat
          /\ chan'[n] = <<k, b>> /\ \A i \in DOMAIN chan : chan'[i] = chan[i]
      BY <1>5, <2>1, <2>3, ChannelGrows
    <2> HIDE DEF n
    <2>5. w[b] # "finished"
      BY <1>2 DEF Over
    <2>6. ASSUME NEW i \in DOMAIN chan', NEW c \in Branch, c = chan'[i][2]
          PROVE  /\ c \in Dispatched' \ got'
                 /\ chan'[i][1] = "done" =>
                      w'[c] = "finished" /\ \A j \in DOMAIN chan' : j > i => chan'[j][2] # c
      <3>1. CASE i = n
        BY <1>2, <1>3, <2>1, <2>2, <2>3, <2>4, <2>5, <2>6, <3>1 DEF Heard, Dispatched
      <3>2. CASE i \in DOMAIN chan
        <4>1. c = chan[i][2] /\ chan'[i] = chan[i]
          BY <2>4, <2>6, <3>2
        <4>2. c \in Dispatched \ got
          BY <2>2, <3>2, <4>1 DEF DoneIsLast
        <4>3. ASSUME chan[i][1] = "done"
              PROVE  w[c] = "finished" /\ \A j \in DOMAIN chan : j > i => chan[j][2] # c
          BY <2>2, <3>2, <4>1, <4>3 DEF DoneIsLast
        <4>4. ASSUME chan[i][1] = "done", NEW j \in DOMAIN chan', j > i
              PROVE  w'[c] = "finished" /\ chan'[j][2] # c
          BY <1>3, <2>3, <2>4, <2>5, <4>3, <4>4
        <4>5. chan[i][1] = "done" => w'[c] = "finished"
          BY <1>3, <2>5, <4>3
        <4> QED
          BY <1>2, <4>1, <4>2, <4>4, <4>5 DEF Dispatched
      <3> QED
        BY <2>4, <3>1, <3>2
    <2>7. \A i \in DOMAIN chan' : chan'[i][2] \in Branch
      <3>1. chan' \in Seq(Messages)
        BY <1>5, <2>1, <2>3, ChannelGrows
      <3> QED
        BY <3>1, ElementOfSeq, LenProperties DEF Messages
    <2>8. DoneIsLast'
      BY <2>6, <2>7 DEF DoneIsLast
    <2>9. Heard'
      <3>1. ASSUME NEW c \in Dispatched, w'[c] = "finished", mode = "stream"
            PROVE  c \in got \/ \E i \in DOMAIN chan' : chan'[i] = <<"done", c>>
        <4>1. c \in Branch
          BY PlanLength DEF TypeOK
        <4>2. CASE c = b
          BY <1>3, <2>1, <2>4, <3>1, <4>2
        <4>3. CASE c # b
          <5>1. w[c] = "finished"
            BY <1>3, <3>1, <4>1, <4>3
          <5>2. c \in got \/ \E i \in DOMAIN chan : chan[i] = <<"done", c>>
            BY <2>2, <3>1, <5>1 DEF Heard
          <5> QED
            BY <2>4, <5>2
        <4> QED
          BY <4>2, <4>3
      <3>2. s # "absent"
        BY <1>1 DEF Posts, Holding, Calling
      <3>3. \A c \in Dispatched : w'[c] # "absent"
        BY <1>3, <2>2, <3>2, PlanLength DEF Heard, TypeOK
      <3>4. \A c \in got : c \in Dispatched /\ w'[c] = "finished"
        BY <1>3, <2>2, <2>5, PlanLength DEF Heard, TypeOK
      <3> QED
        BY <1>2, <2>2, <3>1, <3>3, <3>4 DEF Heard, Dispatched
    <2>10. Slots'
      BY <2>2 DEF Slots
    <2> QED
      BY <1>4, <2>8, <2>9, <2>10
  <1> QED
    BY <1>6, <1>7

-----------------------------------------------------------------------------
(* The steps of the orchestrator keep the channel and the slots in order.  *)

(* The slots that are filled are the plan's. *)
LEMMA FilledSlots ==
  ASSUME TypeOK
  PROVE  /\ Filled \in SUBSET Branch /\ Cardinality(Filled) \in 0 .. MaxPlan
  <1>1. Filled \in SUBSET Branch
    BY DEF Filled, TypeOK
  <1>2. Cardinality(Filled) \in Nat
    BY <1>1, BranchSets
  <1>3. IsFiniteSet(Branch) /\ Cardinality(Branch) = MaxPlan
    BY FS_Interval DEF Branch
  <1>4. Cardinality(Filled) <= MaxPlan
    BY <1>1, <1>3, FS_Subset
  <1> QED
    BY <1>1, <1>2, <1>4

(* The coordinator's turn, and an end. *)
LEMMA TurnCollected ==
  ASSUME Whole, Inv', phase' \in Ended \cup {"turn"}, UNCHANGED <<mode, failFast, plan, w, outcome, deltas, permits, chan, got, shown>>,
         steps' \in 0 .. MaxSteps, folded' \in Seq({"none", "ok", "err"}), Len(folded') <= MaxPlan
  PROVE  TypeOK' /\ Collected'
  <1> USE DEF Whole, Collected, Ended
  <1>1. usd' \in Nat
    BY DEF Inv, Types
  <1>2. TypeOK'
    BY <1>1 DEF TypeOK, Phases
  <1>3. Tasks'
    BY DEF Tasks
  <1>4. DoneIsLast' /\ Heard' /\ Slots'
    BY DEF DoneIsLast, Heard, Slots
  <1> QED
    BY <1>2, <1>3, <1>4

LEMMA DispatchCollected == ASSUME Whole, Inv', Dispatch PROVE TypeOK' /\ Collected'
  <1> USE DEF Whole, Collected, Dispatch
  <1>1. plan' \in Plans /\ Dispatched' = 1 .. Len(plan') /\ Dispatched' \subseteq Branch
    <2>1. (plan \in Plans \cup {<<>>} => /\ Len(plan) \in 0 .. MaxPlan /\ Dispatched = 1 .. Len(plan)
             /\ Dispatched \subseteq Branch)'
      BY PlanLength, PTL
    <2> QED
      BY <2>1
  <1>2. /\ w' \in [Branch -> WorkerState] /\ \A b \in Branch : w'[b] \in {"queued", "absent"}
        /\ \A b \in Dispatched' : w'[b] = "queued"
    BY <1>1 DEF WorkerState, Over, Dispatched
  <1>3. chan' \in Seq(Messages) /\ Len(chan') = 0 /\ DOMAIN chan' = {}
    BY EmptySeq
  <1>4. folded' \in Seq({"none", "ok", "err"}) /\ Len(folded') = 0
    BY EmptySeq
  <1>5. usd' \in Nat /\ steps' \in 0 .. MaxSteps
    BY ConductorAssumption DEF Inv, Types, CoordinatorAnswers, TypeOK, ConductorAssumption
  <1>6. outcome' \in [Branch -> {"none", "ok", "err"}] /\ deltas' \in [Branch -> 0 .. MaxDeltas]
    BY ConductorAssumption DEF ConductorAssumption
  <1>7. UNCHANGED <<mode, failFast, permits>> /\ got' = {} /\ shown' = 0 /\ phase' = "collect" /\ folded' = <<>>
    OBVIOUS
  <1>8. TypeOK /\ Buffer \in Nat
    BY ConductorAssumption DEF ConductorAssumption
  <1> HIDE DEF Whole, Collected, Dispatch
  <1>9. TypeOK'
    BY <1>1, <1>2, <1>3, <1>4, <1>5, <1>6, <1>7, <1>8 DEF TypeOK, Phases, Messages
  <1>10. Tasks' /\ DoneIsLast' /\ Heard' /\ Slots'
    BY <1>2, <1>3, <1>7 DEF Tasks, DoneIsLast, Heard, Slots
  <1> QED
    BY <1>9, <1>10 DEF Collected

(* What is received leaves the rest of the channel as it is. *)
LEMMA RecvCollected == ASSUME Whole, RecvDelta \/ RecvDone PROVE TypeOK' /\ Collected'
  <1> USE DEF Whole, Collected
  <1>1. /\ UNCHANGED <<mode, failFast, steps, plan, folded, w, outcome, deltas, permits, shown, usd>>
        /\ phase = "collect" /\ phase' \in {"collect", "error"} /\ mode = "stream"
        /\ chan # <<>> /\ chan' = Tail(chan)
    BY DEF RecvDelta, RecvDone, Receiving, collectVars, turnVars, workerVars
  <1>2. /\ chan' \in Seq(Messages) /\ Len(chan) \in Nat /\ Len(chan') = Len(chan) - 1
        /\ DOMAIN chan = 1 .. Len(chan) /\ DOMAIN chan' = 1 .. Len(chan) - 1
        /\ 1 \in DOMAIN chan /\ Head(chan) = chan[1] /\ Head(chan) \in Messages
        /\ \A i \in DOMAIN chan' : i + 1 \in DOMAIN chan /\ chan'[i] = chan[i + 1]
    BY <1>1, ChannelShrinks DEF TypeOK, Messages
  <1>3. \/ chan[1][1] = "delta" /\ got' = got
        \/ chan[1][1] = "done" /\ got' = got \cup {chan[1][2]}
    BY <1>2 DEF RecvDelta, RecvDone
  <1>4. chan[1][2] \in Branch
    BY <1>2 DEF Messages
  <1>5. TypeOK'
    <2>1. got' \subseteq Branch
      BY <1>3, <1>4 DEF TypeOK
    <2>2. Len(chan') <= Buffer
      BY <1>2, ConductorAssumption DEF TypeOK, ConductorAssumption
    <2> QED
      BY <1>1, <1>2, <2>1, <2>2 DEF TypeOK, Phases, Messages
  <1>6. Tasks' /\ Slots'
    BY <1>1 DEF Tasks, Slots
  <1>7. DoneIsLast'
    <2>1. ASSUME NEW i \in DOMAIN chan', NEW c, c = chan'[i][2]
          PROVE  /\ c \in Dispatched' \ got'
                 /\ chan'[i][1] = "done" =>
                      w'[c] = "finished" /\ \A j \in DOMAIN chan' : j > i => chan'[j][2] # c
      <3>1. i + 1 \in DOMAIN chan /\ chan'[i] = chan[i + 1] /\ i + 1 > 1 /\ c = chan[i + 1][2]
        BY <1>2, <2>1
      <3>2. /\ c \in Dispatched \ got
            /\ chan[i + 1][1] = "done" =>
                 w[c] = "finished" /\ \A j \in DOMAIN chan : j > i + 1 => chan[j][2] # c
        BY <1>1, <3>1 DEF DoneIsLast
      <3>3. chan[1][1] = "done" => c # chan[1][2]
        BY <1>1, <1>2, <3>1 DEF DoneIsLast
      <3>4. c \in Dispatched' \ got'
        BY <1>1, <1>3, <3>2, <3>3 DEF Dispatched
      <3>5. \A j \in DOMAIN chan' : j > i => j + 1 \in DOMAIN chan /\ j + 1 > i + 1 /\ chan'[j] = chan[j + 1]
        BY <1>2
      <3> QED
        BY <1>1, <3>1, <3>2, <3>4, <3>5
    <2> QED
      BY <2>1 DEF DoneIsLast
  <1>8. Heard'
    <2>1. chan[1][1] = "done" => chan[1][2] \in Dispatched /\ w[chan[1][2]] = "finished"
      BY <1>1, <1>2 DEF DoneIsLast
    <2>2. \A b \in got' : b \in Dispatched /\ w[b] = "finished"
      BY <1>1, <1>3, <2>1 DEF Heard
    <2>3. ASSUME NEW b \in Dispatched, w[b] = "finished"
          PROVE  b \in got' \/ \E i \in DOMAIN chan' : chan'[i] = <<"done", b>>
      <3>1. CASE b \in got
        BY <1>3, <3>1
      <3>2. CASE b \notin got
        <4>1. PICK k \in DOMAIN chan : chan[k] = <<"done", b>>
          BY <1>1, <2>3, <3>2 DEF Heard
        <4>2. <<"done", b>>[1] = "done" /\ <<"done", b>>[2] = b
          OBVIOUS
        <4>3. CASE k = 1
          BY <1>3, <4>1, <4>2, <4>3
        <4>4. CASE k # 1
          <5>1. k - 1 \in DOMAIN chan' /\ (k - 1) + 1 = k
            BY <1>2, <4>4
          <5> QED
            BY <1>2, <4>1, <5>1
        <4> QED
          BY <4>3, <4>4
      <3> QED
        BY <3>1, <3>2
    <2> QED
      BY <1>1, <2>2, <2>3 DEF Heard, Dispatched
  <1> QED
    BY <1>5, <1>6, <1>7, <1>8

(* When the fold begins a slot is empty only if its worker panicked. *)
LEMMA JoinedCollected == ASSUME Whole, Joined PROVE TypeOK' /\ Collected'
  <1> USE DEF Whole, Collected
  <1>1. /\ UNCHANGED <<mode, failFast, steps, plan, folded, w, deltas, permits, chan, shown, usd>>
        /\ phase = "collect" /\ phase' = "fold"
        /\ \A b \in Dispatched : w[b] \in {"finished", "panicked"}
    BY DEF Joined, turnVars, Over, Heard
  <1>2. \A b \in Dispatched : b \in Branch
    BY PlanLength DEF TypeOK
  <1>3. got' \subseteq Branch /\ outcome' \in [Branch -> {"none", "ok", "err"}]
    BY <1>2 DEF Joined, TypeOK
  <1>4. TypeOK'
    BY <1>1, <1>3 DEF TypeOK, Phases
  <1>5. \A b \in Branch : outcome[b] # "none" => outcome'[b] # "none"
    BY DEF Joined, TypeOK
  <1>6. Tasks'
    BY <1>1, <1>5 DEF Tasks
  <1>7. got' = Kept
    <2>1. CASE mode = "run"
      BY <2>1 DEF Joined, Kept
    <2>2. CASE mode = "stream" /\ got = Dispatched
      <3>1. \A b \in Dispatched : w[b] = "finished"
        BY <1>1, <2>2 DEF Heard
      <3> QED
        BY <2>2, <3>1 DEF Joined, Kept
    <2>3. CASE mode = "stream" /\ chan = <<>>
      <3>1. DOMAIN chan = {}
        BY <2>3
      <3>2. \A b \in Dispatched : w[b] = "finished" => b \in got
        BY <1>1, <2>3, <3>1 DEF Heard
      <3>3. \A b \in got : b \in Dispatched /\ w[b] = "finished"
        BY <1>1 DEF Heard
      <3> QED
        BY <1>1, <2>3, <3>2, <3>3 DEF Joined, Kept
    <2> QED
      BY <2>1, <2>2, <2>3 DEF Joined
  <1>8. \A b \in got' : outcome'[b] \in {"ok", "err"}
    <2> SUFFICES ASSUME NEW b \in got' PROVE outcome'[b] # "none"
      BY <1>3
    <2>1. b \in Branch /\ w[b] \in {"finished", "panicked"} /\ (w[b] = "finished" \/ mode = "run")
      BY <1>1, <1>2, <1>7 DEF Kept, TypeOK
    <2>2. CASE w[b] = "finished"
      BY <1>5, <2>1, <2>2 DEF Tasks
    <2>3. CASE w[b] = "panicked"
      BY <2>1, <2>3 DEF Joined
    <2> QED
      BY <2>1, <2>2, <2>3
  <1>9. Kept' = Kept
    BY <1>1 DEF Kept, Dispatched
  <1>10. Cardinality(Kept) \in Nat /\ shown = 0 /\ folded = <<>>
    BY <1>1, <1>2, BranchSets DEF Kept, Heard
  <1>11. DoneIsLast' /\ Heard' /\ Slots'
    BY <1>1, <1>7, <1>8, <1>9, <1>10 DEF DoneIsLast, Heard, Slots
  <1> QED
    BY <1>4, <1>6, <1>11

(* What is folded is the outcomes of the workers that are kept. *)
LEMMA FoldedOutcomes ==
  ASSUME Whole, phase = "fold"
  PROVE  /\ Filled = Kept /\ DOMAIN Outcomes = 1 .. Cardinality(Kept) /\ Cardinality(Kept) \in 0 .. MaxPlan
         /\ Outcomes \in [1 .. Cardinality(Kept) -> {"ok", "err"}]
  <1>1. Filled = Kept /\ \A b \in Kept : outcome[b] \in {"ok", "err"}
    BY DEF Whole, Collected, Slots, Filled, Kept
  <1>2. Filled \in SUBSET Branch /\ Cardinality(Filled) \in 0 .. MaxPlan
    BY FilledSlots DEF Whole
  <1>3. \A i \in 1 .. Cardinality(Filled) : Results[i] \in Filled /\ Outcomes[i] = outcome[Results[i]]
    BY <1>2, ResultsFilled
  <1>4. DOMAIN Outcomes = 1 .. Cardinality(Filled)
    BY <1>2, ResultsFilled
  <1>5. Outcomes = [i \in DOMAIN Outcomes |-> Outcomes[i]]
    BY DEF Outcomes
  <1> QED
    BY <1>1, <1>2, <1>3, <1>4, <1>5

LEMMA ShowCollected == ASSUME Whole, Show PROVE TypeOK' /\ Collected'
  <1> USE DEF Whole, Collected
  <1>1. /\ UNCHANGED <<mode, failFast, steps, plan, folded, w, outcome, deltas, permits, chan, got, usd>>
        /\ phase = "fold" /\ phase' \in {"fold", "error"} /\ shown' = shown + 1
    BY DEF Show, turnVars, workerVars
  <1>2. Cardinality(Kept) \in 0 .. MaxPlan /\ Len(Results) = Cardinality(Kept)
    BY <1>1, FoldedOutcomes, FilledSlots, ResultsFilled
  <1>3. shown' <= Cardinality(Kept) /\ shown' \in 0 .. MaxPlan
    BY <1>1, <1>2 DEF Show, AllShown, TypeOK, Slots
  <1>6. TypeOK'
    BY <1>1, <1>3 DEF TypeOK, Phases
  <1>4. Tasks' /\ DoneIsLast' /\ Heard'
    BY <1>1 DEF Tasks, DoneIsLast, Heard
  <1>5. Slots'
    BY <1>1, <1>3 DEF Slots, Kept, Dispatched
  <1> QED
    BY <1>4, <1>5, <1>6

LEMMA FoldCollected == ASSUME Whole, Inv', Fold PROVE TypeOK' /\ Collected'
  <1>1. \A n \in Nat : \A f \in [1 .. n -> {"ok", "err"}] :
          f \in Seq({"none", "ok", "err"}) /\ Len(f) = n
    OBVIOUS
  <1>2. folded' = Outcomes /\ phase = "fold"
    BY DEF Fold
  <1>3. folded' \in Seq({"none", "ok", "err"}) /\ Len(folded') <= MaxPlan
    BY <1>1, <1>2, FoldedOutcomes
  <1> QED
    BY <1>3, TurnCollected DEF Fold, workerVars, Ended, Whole, TypeOK

LEMMA WholeInit == Init => Whole
  <1> SUFFICES ASSUME Init PROVE Whole
    OBVIOUS
  <1>1. Inv
    BY InvInit
  <1>2. TypeOK
    BY EmptySeq, ConductorAssumption DEF Init, TypeOK, Phases, WorkerState, Over, ConductorAssumption
  <1>3. Collected
    BY DEF Init, Collected, Tasks, DoneIsLast, Heard, Slots
  <1> QED
    BY <1>1, <1>2, <1>3 DEF Whole

LEMMA WholeStep == Whole /\ [Next]_vars => Whole'
  <1> SUFFICES ASSUME Whole, [Next]_vars PROVE Whole'
    OBVIOUS
  <1>1. Inv'
    BY InvStep DEF Whole
  <1>2. <<>> \in Seq({"none", "ok", "err"}) /\ Len(<<>>) <= MaxPlan
    BY EmptySeq
  <1>3. steps \in 0 .. MaxSteps /\ (steps < MaxSteps => steps + 1 \in 0 .. MaxSteps)
    BY ConductorAssumption DEF Whole, TypeOK, ConductorAssumption
  <1> SUFFICES TypeOK' /\ Collected'
    BY <1>1 DEF Whole
  <1>4. CASE Retry \/ Halt \/ TurnFails \/ StepsUsedUp \/ Drop
    BY <1>1, <1>2, <1>3, <1>4, TurnCollected DEF Retry, Halt, TurnFails, StepsUsedUp, Drop, CoordinatorAnswers,
       workerVars, Ended
  <1>5. CASE \E b \in Branch : Work(b) \/ Provider(b)
    BY <1>1, <1>5, WorkerTypes, WorkerCollected DEF Whole
  <1>6. CASE UNCHANGED vars
    BY <1>6 DEF Whole, Collected, TypeOK, Tasks, DoneIsLast, Heard, Slots, Kept, Dispatched, vars, turnVars, workerVars
  <1> QED
    BY <1>1, <1>4, <1>5, <1>6, DispatchCollected, RecvCollected, JoinedCollected, ShowCollected, FoldCollected
       DEF Next, Orchestrate, Turn

LEMMA WholeHolds == Spec => []Whole
  BY WholeInit, WholeStep, PTL DEF Spec

(* No event follows a worker's Done, every result is folded under the      *)
(* number of the worker it is from, and none is missing but those of       *)
(* workers that panicked under stream() (conductor.rs:565-598).            *)
THEOREM ResultsKept == Spec => []ResultsInPlace
  <1>1. Whole => ResultsInPlace
    <2> SUFFICES ASSUME Whole PROVE TypeOK /\ DoneIsLast /\ Attributed
      BY DEF ResultsInPlace
    <2>1. CASE phase = "fold" /\ Kept = Dispatched
      <3>1. Len(plan) \in 0 .. MaxPlan /\ Filled = 1 .. Len(plan)
        BY <2>1, PlanLength, FoldedOutcomes DEF Whole, TypeOK
      <3>2. Results = [i \in 1 .. Len(plan) |-> i]
        BY <3>1, ResultsOfAll
      <3> QED
        BY <3>2 DEF Attributed, Whole, Collected
    <2>2. CASE phase = "fold" /\ Kept # Dispatched
      BY <2>2, PlanLength DEF Kept, Attributed, Whole, Collected, TypeOK
    <2> QED
      BY <2>1, <2>2 DEF Attributed, Whole, Collected
  <1> QED
    BY <1>1, WholeHolds, PTL

-----------------------------------------------------------------------------
(* The steps of the abstract specification.                                *)

Status == CASE phase = "turn" -> "coordinating"
            [] phase \in {"collect", "fold"} -> "waiting"
            [] OTHER -> phase
Asked == IF phase \in {"collect", "fold"} THEN Cardinality(Kept) ELSE 0

(* The names of what ForkJoin is instantiated with. *)
LEMMA Mapped ==
  /\ FJ!FJInit <=> /\ failFast \in BOOLEAN /\ steps = 0 /\ Status = "coordinating"
                   /\ Asked = 0 /\ folded = <<>>
  /\ FJ!fjVars = <<failFast, steps, Status, Asked, folded>>
  BY DEF FJ!FJInit, FJ!fjVars, Status, Asked

(* The workers kept can be counted. *)
LEMMA KeptCounted ==
  ASSUME TypeOK
  PROVE  IsFiniteSet(Kept) /\ Cardinality(Kept) \in Nat
  <1>1. Kept \in SUBSET Branch
    BY PlanLength DEF TypeOK, Kept
  <1> QED
    BY <1>1, BranchSets

(* A worker's step is one of no worker, or loses one.                      *)
LEMMA WorkerImplements ==
  ASSUME Whole, NEW b \in Branch, Work(b) \/ Provider(b)
  PROVE  FJ!FJNext \/ UNCHANGED FJ!fjVars
  <1>1. PICK s \in WorkerState : Posts(b, s)
    BY WorkerPosts DEF Whole
  <1>2. UNCHANGED <<mode, failFast, steps, plan, folded, phase>> /\ w[b] \notin Over /\ b \in Dispatched
    BY <1>1 DEF Posts, Whole, Inv, QuietBetweenTurns, OthersIdle
  <1>3. \A c \in Branch : w'[c] = IF c = b THEN s ELSE w[c]
    BY <1>1 DEF Posts, Whole, TypeOK
  <1>4. Dispatched \subseteq Branch
    BY PlanLength DEF Whole, TypeOK
  <1>5. Status' = Status
    BY <1>2 DEF Status
  <1>6. CASE s = "panicked" /\ mode = "stream" /\ phase \in {"collect", "fold"}
    <2>1. b \in Kept
      BY <1>2 DEF Kept, Over
    <2>2. Kept' = Kept \ {b}
      BY <1>2, <1>3, <1>4, <1>6 DEF Kept, Dispatched
    <2>3. IsFiniteSet(Kept) /\ Cardinality(Kept) \in Nat
      BY KeptCounted DEF Whole
    <2>4. Cardinality(Kept') = Cardinality(Kept) - 1
      BY <2>1, <2>2, <2>3, FS_RemoveElement
    <2>5. Cardinality(Kept) # 0
      BY <2>1, <2>3, FS_EmptySet
    <2>6. Status = "waiting" /\ Asked > 0 /\ Asked' = Asked - 1
      BY <1>2, <1>6, <2>3, <2>4, <2>5 DEF Status, Asked
    <2> QED
      BY <1>2, <1>5, <2>6 DEF FJ!FJNext, FJ!FJLose, Status, Asked
  <1>7. CASE ~(s = "panicked" /\ mode = "stream") \/ phase \notin {"collect", "fold"}
    <2>1. ~(s = "panicked" /\ mode = "stream") => Kept' = Kept
      BY <1>2, <1>3, <1>4 DEF Kept, Over, Dispatched
    <2>2. Asked' = Asked
      BY <1>2, <1>7, <2>1 DEF Asked
    <2> QED
      BY <1>2, <1>5, <2>2, Mapped DEF FJ!fjVars, Status, Asked
  <1> QED
    BY <1>6, <1>7

LEMMA DispatchImplements == ASSUME Whole, Whole', Dispatch PROVE FJ!FJNext
  <1>1. /\ phase = "turn" /\ steps < MaxSteps /\ steps' = steps + 1 /\ phase' = "collect"
        /\ folded' = <<>> /\ failFast' = failFast /\ plan' \in Plans
    BY DEF Dispatch, CoordinatorAnswers
  <1>2. PICK n \in 1 .. MaxPlan : plan' \in [1 .. n -> Providers]
    BY <1>1 DEF Plans
  <1>3. Dispatched' = 1 .. n /\ 1 .. n \subseteq Branch
    BY <1>2 DEF Dispatched, Branch
  <1>4. Kept' = 1 .. n
    BY <1>3 DEF Kept, Dispatch, Dispatched
  <1>5. Asked' \in 1 .. MaxPlan
    BY <1>1, <1>4, FS_Interval DEF Asked
  <1>6. Status = "coordinating" /\ Status' = "waiting"
    BY <1>1 DEF Status
  <1> QED
    BY <1>1, <1>5, <1>6 DEF FJ!FJNext, FJ!FJDispatch, Status, Asked

(* The fold of a turn is that of ForkJoin. *)
LEMMA FoldImplements == ASSUME Whole, Fold PROVE FJ!FJNext
  <1>1. /\ phase = "fold" /\ folded' = Outcomes /\ UNCHANGED <<failFast, steps>>
        /\ phase' = IF failFast /\ \E i \in DOMAIN Outcomes : Outcomes[i] = "err" THEN "error" ELSE "turn"
    BY DEF Fold
  <1>2. /\ Asked = Cardinality(Kept) /\ Status = "waiting" /\ Asked' = 0
        /\ Status' = IF failFast /\ \E i \in DOMAIN Outcomes : Outcomes[i] = "err"
                     THEN "error" ELSE "coordinating"
    BY <1>1 DEF Asked, Status
  <1>3. DOMAIN Outcomes = 1 .. Asked /\ folded' \in [1 .. Asked -> {"ok", "err"}]
    BY <1>1, <1>2, FoldedOutcomes
  <1>4. /\ Status = "waiting" /\ folded' \in [1 .. Asked -> {"ok", "err"}]
        /\ Status' = IF failFast /\ \E i \in 1 .. Asked : folded'[i] = "err"
                     THEN "error" ELSE "coordinating"
        /\ Asked' = 0 /\ UNCHANGED <<failFast, steps>>
    BY <1>1, <1>2, <1>3
  <1> QED
    BY <1>4 DEF FJ!FJNext, FJ!FJFold, FJ!Outcomes, Status, Asked

(* Collecting is invisible, unless it fails. *)
LEMMA CollectImplements ==
  ASSUME Whole, RecvDelta \/ RecvDone \/ Joined \/ Show
  PROVE  FJ!FJNext \/ UNCHANGED FJ!fjVars
  <1>1. /\ UNCHANGED <<mode, failFast, steps, plan, folded, w>> /\ folded = <<>>
        /\ phase \in {"collect", "fold"} /\ phase' \in {"collect", "fold", "error"}
    BY DEF RecvDelta, RecvDone, Joined, Show, Receiving, collectVars, turnVars, workerVars,
       Whole, Collected, Heard, Slots
  <1>2. Kept' = Kept
    BY <1>1 DEF Kept, Dispatched
  <1>3. CASE phase' = "error"
    <2>1. Status = "waiting" /\ Status' = "error" /\ Asked' = 0
      BY <1>1, <1>3 DEF Status, Asked
    <2> QED
      BY <1>1, <2>1 DEF FJ!FJNext, FJ!FJStop, FJ!Ended, Status, Asked
  <1>4. CASE phase' # "error"
    <2>1. Status' = Status /\ Asked' = Asked
      BY <1>1, <1>2, <1>4 DEF Status, Asked
    <2> QED
      BY <1>1, <2>1, Mapped DEF FJ!fjVars, Status, Asked
  <1> QED
    BY <1>1, <1>3, <1>4

LEMMA TurnImplements ==
  ASSUME Whole, Retry \/ Halt \/ TurnFails \/ StepsUsedUp \/ Drop
  PROVE  FJ!FJNext
  <1>1. steps \in 0 .. MaxSteps
    BY DEF Whole, TypeOK
  <1>2. phase' \in Ended \cup {"turn"} => Asked' = 0
    BY DEF Asked, Ended
  <1>3. CASE Retry
    <2>1. Status = "coordinating" /\ Status' = "coordinating" /\ Asked = 0 /\ Asked' = 0
      BY <1>3 DEF Retry, CoordinatorAnswers, Status, Asked
    <2> QED
      BY <1>3, <2>1 DEF FJ!FJNext, FJ!FJRetry, Retry, CoordinatorAnswers, Status, Asked
  <1>4. CASE Halt
    <2>1. Status = "coordinating" /\ Status' = "final" /\ Asked = 0 /\ Asked' = 0
      BY <1>4 DEF Halt, CoordinatorAnswers, Status, Asked
    <2>2. steps' = steps + 1 /\ steps' <= MaxSteps
      BY <1>1, <1>4, ConductorAssumption DEF Halt, CoordinatorAnswers, ConductorAssumption
    <2> QED
      BY <1>4, <2>1, <2>2 DEF FJ!FJNext, FJ!FJFinish, Halt, Status, Asked
  <1>5. CASE StepsUsedUp
    <2>1. Status = "coordinating" /\ Status' = "final" /\ Asked = 0 /\ Asked' = 0
      BY <1>5 DEF StepsUsedUp, Status, Asked
    <2>2. steps' = steps /\ steps' <= MaxSteps
      BY <1>1, <1>5 DEF StepsUsedUp
    <2> QED
      BY <1>5, <2>1, <2>2 DEF FJ!FJNext, FJ!FJFinish, StepsUsedUp, Status, Asked
  <1>6. CASE TurnFails \/ Drop
    <2>1. Status \notin {"final", "error", "dropped"} /\ Status' \in {"error", "dropped"} /\ Asked' = 0
      BY <1>6 DEF TurnFails, Drop, Status, Asked, Ended, Whole, TypeOK, Phases
    <2> QED
      BY <1>6, <2>1 DEF FJ!FJNext, FJ!FJStop, FJ!Ended, TurnFails, Drop, Status, Asked
  <1> QED
    BY <1>3, <1>4, <1>5, <1>6

(* Every run is one of ForkJoin's: a bounded number of turns, each of      *)
(* which folds one outcome per dispatched worker that was not lost, in     *)
(* the order of the dispatch, and ends the run if fail_fast asks for it    *)
(* (conductor.rs:263-381).                                                 *)
THEOREM ForksAndJoins == Spec => ImplementsForkJoin
  <1>1. Init => FJ!FJInit
    <2> SUFFICES ASSUME Init PROVE FJ!FJInit
      OBVIOUS
    <2>1. Status = "coordinating" /\ Asked = 0
      BY DEF Init, Status, Asked
    <2> QED
      BY <2>1, Mapped DEF Init
  <1>2. Whole /\ Whole' /\ [Next]_vars => [FJ!FJNext]_(FJ!fjVars)
    <2> SUFFICES ASSUME Whole, Whole', [Next]_vars PROVE FJ!FJNext \/ UNCHANGED FJ!fjVars
      OBVIOUS
    <2>1. CASE UNCHANGED vars
      <3>1. UNCHANGED <<failFast, steps, folded, Status, Asked>>
        BY <2>1 DEF vars, turnVars, workerVars, Status, Asked, Kept, Dispatched
      <3> QED
        BY <3>1 DEF FJ!fjVars, Status, Asked
    <2> QED
      BY <2>1, WorkerImplements, DispatchImplements, FoldImplements, CollectImplements, TurnImplements
         DEF Next, Orchestrate, Turn
  <1> QED
    BY <1>1, <1>2, WholeHolds, PTL DEF Spec, ImplementsForkJoin, FJ!FJSpec
=============================================================================
