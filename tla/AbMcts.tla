------------------------------- MODULE AbMcts -------------------------------
(* AB-MCTS (tako-orchestrator/src/ab_mcts.rs): a tree of answers grown by one   *)
(* rollout per iteration. Rollouts are the loop of AgentLoop, started on the     *)
(* conversation of the node they extend; under stream() they hand their events    *)
(* to the stream over a bounded channel, which the same task drains.              *)
(*                                                                                *)
(* Scores are multiples of 1/One, and NaN, which a verifier may return. Thompson   *)
(* sampling draws from distributions of full support: any child may win. A search  *)
(* that is dropped stops where it is; nothing of it runs on.                        *)
EXTENDS AgentLoop

CONSTANTS
  MaxIterations, BranchingFactor,
  One,         \* the score 1.0
  Confident,   \* min_confidence
  Raw,         \* what the verifier may return, before it is clamped
  NaN,
  EventBuffer  \* ROLLOUT_EVENT_BUFFER

ASSUME SearchAssumption ==
  /\ MaxIterations \in Nat \ {0} /\ BranchingFactor \in Nat \ {0} /\ EventBuffer \in Nat \ {0}
  /\ One \in Nat \ {0} /\ Confident \in 0 .. One
  /\ Raw \subseteq Int \union {NaN} /\ NaN < -1

VARIABLES
  at,        \* what the search awaits
  iteration,
  nodes,     \* the arena: conversation, posterior, children, score of the leaf, steps
  path,      \* from the root to the node that is selected
  best, bestScore,
  sent, seen,  \* events the rollout put into its channel, and how many were yielded
  owed         \* a partial score waits for room in the channel

searchVars == <<at, iteration, nodes, path, best, bestScore, sent, seen, owed>>
vars == <<loopVars, searchVars>>

Current == path[Len(path)]
Plus(x, y) == IF NaN \in {x, y} THEN NaN ELSE x + y
Minus(x, y) == IF NaN \in {x, y} THEN NaN ELSE x - y
Clamp(x) == IF x = NaN THEN NaN ELSE IF x < 0 THEN 0 ELSE IF x > One THEN One ELSE x
Beats(x, y) == NaN \notin {x, y} /\ x > y  \* a comparison with NaN is false

Node(conversation, s, n) ==
  [conv |-> conversation, alpha |-> One, beta |-> One, children |-> <<>>,
   score |-> s, steps |-> n]

Init ==
  /\ LoopInit /\ kind = "rollout"
  /\ at = "begin" /\ iteration = 0 /\ nodes = <<Node(msgs, NaN, 0)>> /\ path = <<1>>
  /\ best = None /\ bestScore = -1
  /\ sent = <<>> /\ seen = 0 /\ owed = FALSE

Stop(how) == at' = how /\ pc' = IF how = "done" THEN pc ELSE how

-----------------------------------------------------------------------------
BeginIteration_FromOne ==  \* mutant: steps are numbered from one
  /\ at = "begin" /\ at' = "select"
  /\ announced' = IF mode = "stream" THEN iteration + 1 ELSE announced
  /\ UNCHANGED <<who, pc, talk, provider, answer, shown, ti, fin, money, pending,
                 iteration, nodes, path, best, bestScore, sent, seen, owed>>
BeginIteration ==
  /\ at = "begin" /\ at' = "select"
  /\ announced' = IF mode = "stream" THEN iteration ELSE announced
  /\ UNCHANGED <<who, pc, talk, provider, answer, shown, ti, fin, money, pending,
                 iteration, nodes, path, best, bestScore, sent, seen, owed>>

(* Selection: down to the child with the best sample, or expand here. A node       *)
(* without children is always expanded, a full one never.                          *)
Descend ==
  /\ at = "select"
  /\ \E c \in Range(nodes[Current].children) : path' = Append(path, c)
  /\ UNCHANGED <<loopVars, at, iteration, nodes, best, bestScore, sent, seen, owed>>

CanExpand ==
  \/ nodes[Current].children = <<>>
  \/ Len(nodes[Current].children) < BranchingFactor

(* The router picks the provider of the whole rollout, or fails, or names nobody.  *)
PickRolloutProvider ==
  \/ \E p \in (IF router = "none" THEN {Pool[1]} ELSE Named(router, nodes[Current].conv, Pool)) :
       provider' = [id |-> p, role |-> None] /\ pc' = "turn" /\ at' = "rollout"
  \/ router \in {"onnx", "foreign"} /\ Stop("failed") /\ UNCHANGED provider

Expand ==
  /\ at = "select" /\ CanExpand
  /\ PickRolloutProvider
  /\ step' = 0 /\ msgs' = nodes[Current].conv /\ fin' = None
  /\ UNCHANGED <<who, answer, shown, ti, money, view, iteration, nodes, path, best, bestScore,
                 sent, seen, owed>>

-----------------------------------------------------------------------------
(* The rollout, and its events. A send waits for room.                              *)

Room == Len(sent) - seen < EventBuffer
Put(e) == Room /\ sent' = Append(sent, e)
Quiet == UNCHANGED <<sent, owed>>
Rolls(step_) ==
  /\ at = "rollout" /\ ~owed /\ step_
  /\ at' = IF pc' = "failed" THEN "rolled" ELSE at
  /\ UNCHANGED <<iteration, nodes, path, best, bestScore, seen>>

(* A delta is sent, then perhaps a score of the text so far.                        *)
SendDelta == Rolls(TextDelta /\ Put("text") /\ owed' \in BOOLEAN /\ (pc' = "failed" => ~owed'))
SendPartial ==
  /\ at = "rollout" /\ owed /\ Put("score") /\ owed' = FALSE
  /\ UNCHANGED <<loopVars, at, iteration, nodes, path, best, bestScore, seen>>
SendFallback ==
  Rolls(/\ pc = "fallback" /\ Chat /\ owed' = owed
        /\ IF text' > 0 /\ pc' # "failed" THEN Put("text") ELSE UNCHANGED sent)

(* rollout_static(): no stream, no events; stream() yields the whole text itself.   *)
RolloutStatic ==
  /\ mode = "run" \/ ~Streams
  /\ Rolls(Quiet /\ (StartStep \/ (pc = "call" /\ Chat) \/ ToolRound))

RolloutStreaming ==
  /\ Streams
  /\ \/ Rolls(Quiet /\ (StartStep \/ OpenStream \/ CallDelta \/ ChunkFails \/ StreamEnds
                        \/ ToolRound))
     \/ SendDelta \/ SendPartial \/ SendFallback

Yield ==
  /\ at = "rollout" /\ seen < Len(sent) /\ seen' = seen + 1
  /\ UNCHANGED <<loopVars, at, iteration, nodes, path, best, bestScore, sent, owed>>

Rolled_Drops ==  \* mutant: what is left in the channel is dropped with it
  /\ \/ at = "rollout" /\ pc = "finish" /\ ~owed /\ at' = "verify" /\ UNCHANGED pc
     \/ at = "rolled" /\ Stop("failed")
  /\ UNCHANGED <<who, talk, provider, answer, shown, ti, fin, money, view,
                 iteration, nodes, path, best, bestScore, sent, seen, owed>>
(* The rollout has returned: what is left in the channel is yielded, then its error *)
(* ends the search.                                                                  *)
Rolled ==
  /\ \/ at = "rollout" /\ pc = "finish" /\ ~owed /\ at' = "verify" /\ UNCHANGED pc
     \/ at = "rolled" /\ Stop("failed")
  /\ seen' = Len(sent)
  /\ UNCHANGED <<who, talk, provider, answer, shown, ti, fin, money, view,
                 iteration, nodes, path, best, bestScore, sent, owed>>

-----------------------------------------------------------------------------
(* Verification, insertion and back-propagation, with the end of the iteration.     *)

LeafOf(s) == Node(Append(nodes[Current].conv, Called(asst)), s, Answers
                  - Cardinality({i \in DOMAIN nodes[Current].conv :
                                   nodes[Current].conv[i].role = "assistant"}))

Backpropagate(tree, p, s) ==
  [n \in DOMAIN tree |->
     IF n \in Range(p)
     THEN [tree[n] EXCEPT !.alpha = Plus(@, s), !.beta = Plus(@, Minus(One, s))]
     ELSE tree[n]]

Insert_AncestorsOnly(s) ==  \* mutant: the leaf's own posterior keeps its prior
  LET leaf == Len(nodes) + 1
      tree == [Append(nodes, LeafOf(s)) EXCEPT ![Current].children = Append(@, leaf)]
  IN  nodes' = Backpropagate(tree, path, s)
Insert(s) ==
  LET leaf == Len(nodes) + 1
      tree == [Append(nodes, LeafOf(s)) EXCEPT ![Current].children = Append(@, leaf)]
  IN  nodes' = Backpropagate(tree, Append(path, leaf), s)

KeepBest(s) ==
  IF Beats(s, bestScore) THEN bestScore' = s /\ best' = Len(nodes) + 1
  ELSE UNCHANGED <<best, bestScore>>

(* The variables of an iteration end with it.                                        *)
Forget ==
  /\ reply' = NoReply /\ deltas' = <<>> /\ shown' = 0 /\ text' = 0 /\ asst' = <<>> /\ cut' = FALSE
  /\ ti' = 0 /\ charged' = 0 /\ restarts' = 0 /\ sent' = <<>> /\ seen' = 0
  /\ step' = 0 /\ msgs' = nodes[1].conv /\ fin' = None /\ provider' = [id |-> None, role |-> None]

Verify ==
  /\ at = "verify"
  /\ \/ \E raw \in Raw :
          /\ Insert(Clamp(raw)) /\ KeepBest(Clamp(raw))
          /\ iteration' = iteration + 1 /\ path' = <<1>>
          /\ at' = IF bestScore' >= Confident \/ iteration' = MaxIterations THEN "choose" ELSE "begin"
          /\ Forget /\ UNCHANGED pc
     \/ Stop("failed") /\ UNCHANGED <<nodes, best, bestScore, iteration, path, answer, shown, ti,
                                      talk, provider, fin, charged, restarts, sent, seen>>
  /\ UNCHANGED <<who, booked, view, owed>>

Choose_NeedsBest ==  \* mutant: no way out without a best leaf
  /\ at = "choose" /\ best # None /\ at' = "done" /\ pc' = "done"
  /\ UNCHANGED <<who, talk, provider, answer, shown, ti, fin, money, view,
                 iteration, nodes, path, best, bestScore, sent, seen, owed>>
(* The best leaf is the output; without one (every score was NaN) the search fails.  *)
Choose ==
  /\ at = "choose"
  /\ IF best = None THEN Stop("failed") ELSE at' = "done" /\ pc' = "done"
  /\ UNCHANGED <<who, talk, provider, answer, shown, ti, fin, money, view,
                 iteration, nodes, path, best, bestScore, sent, seen, owed>>

-----------------------------------------------------------------------------
Search == BeginIteration \/ Descend \/ Expand \/ RolloutStatic \/ RolloutStreaming \/ Rolled \/ Verify \/ Choose
RunSearch == mode = "run" /\ Search
StreamSearch == mode = "stream" /\ (Search \/ Yield)
SearchNext == RunSearch \/ StreamSearch
Spec == Init /\ [][SearchNext]_vars /\ WF_vars(SearchNext)

-----------------------------------------------------------------------------
(* Properties *)

TypeOK ==
  /\ LoopTypeOK
  /\ at \in {"begin", "select", "rollout", "rolled", "verify", "choose"} \union Over
  /\ iteration \in 0 .. MaxIterations /\ Len(nodes) = iteration + 1
  /\ Range(path) \subseteq DOMAIN nodes
  /\ best \in DOMAIN nodes \union {None}
  /\ Len(sent) - seen \in 0 .. EventBuffer

(* The nodes above n, itself included, as the children lists of the tree say; and what  *)
(* the leaves below n were worth, in the order they came.                                *)
Parents == [n \in DOMAIN nodes |-> {m \in DOMAIN nodes : n \in Range(nodes[m].children)}]
Lineage[n \in DOMAIN nodes] == {n} \union UNION {Lineage[m] : m \in Parents[n]}
Below(n) == {m \in DOMAIN nodes \ {1} : n \in Lineage[m]}
Won(below) == [m \in DOMAIN nodes |-> IF m \in below THEN nodes[m].score ELSE 0]
Lost(below) == [m \in DOMAIN nodes |-> IF m \in below THEN Minus(One, nodes[m].score) ELSE 0]
Total(f) == LET T[k \in 0 .. Len(f)] == IF k = 0 THEN 0 ELSE Plus(T[k - 1], f[k]) IN T[Len(f)]

(* Every score went once to its leaf and to each of the leaf's ancestors, and to no     *)
(* other node: a posterior is the prior plus the scores below it (ab_mcts.rs:591-594).  *)
PosteriorsAgree == \A n \in DOMAIN nodes :
  LET below == Below(n)
  IN  /\ nodes[n].alpha = Plus(One, Total(Won(below)))
      /\ nodes[n].beta = Plus(One, Total(Lost(below)))

(* The tree is one: every leaf has one parent, which it extends by one answer, and no   *)
(* node has more children than branching_factor (ab_mcts.rs:451, 579-582).              *)
TreeGrows ==
  /\ \A m \in DOMAIN nodes \ {1} : Cardinality(Parents[m]) = 1
  /\ \A n \in DOMAIN nodes :
       /\ Len(nodes[n].children) <= BranchingFactor
       /\ \A c \in Range(nodes[n].children) :
            c > n /\ Front(nodes[c].conv) = nodes[n].conv

(* The answer is the first of the leaves with the highest score; scores that are not    *)
(* numbers never win (ab_mcts.rs:601-604).                                              *)
Scored == {n \in DOMAIN nodes \ {1} : nodes[n].score # NaN}
BestIsBest ==
  IF Scored = {} THEN best = None
  ELSE /\ best \in Scored /\ bestScore = nodes[best].score
       /\ \A n \in Scored : /\ nodes[n].score <= bestScore
                            /\ nodes[n].score = bestScore => best <= n

(* The tree tells what the rollouts were worth, and the answer is its best                *)
(* (ab_mcts.rs:435-520).                                                                  *)
TreeTells == TypeOK /\ PosteriorsAgree /\ TreeGrows /\ BestIsBest

(* What a rollout says itself it answers: open calls of the conversation it sends can    *)
(* only come from the nodes above, whose rollouts ended at the cap.                      *)
OwnTurnsAnswered == at = "rollout" /\ Sending => Answered(msgs, Len(nodes[Current].conv) + 1)

(* The search does not go on to the verifier, nor end, with a rollout's events unseen     *)
(* (ab_mcts.rs:522-529).                                                                  *)
AllYielded == at \in {"verify", "failed"} => seen = Len(sent)

(* A rollout speaks for itself, and all it says is heard.                                 *)
RolloutsHeard == OwnTurnsAnswered /\ AllYielded

(* The stream of a search is one an OrchStream may show: an iteration is a step.        *)
SearchStream == INSTANCE OrchStream WITH
  MaxStep <- MaxIterations, CallId <- Range(CallIds),
  phase <- IF at = "done" THEN "final" ELSE IF at = "failed" THEN "error"
           ELSE IF at = "dropped" THEN "dropped" ELSE "open",
  shownStep <- announced, openCall <- pending
SearchImplementsStream == SearchStream!StreamSpec

(* A search ends, if its rollouts do.                                                      *)
SearchEnds == <>(at \in Over)

=============================================================================
