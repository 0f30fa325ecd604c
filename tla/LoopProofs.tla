----------------------------- MODULE LoopProofs -----------------------------
(* For any pool, roles, prompts, calls and cap, in run() and in stream(): no      *)
(* provider is sent a conversation with open tool calls, every answer is taken     *)
(* over as the model said it and booked once, the built-in routers stay with their *)
(* first choice, and the event stream is one an OrchStream may show. And of the       *)
(* searches of AbMcts, whose rollouts are the same loop: the tree stays a tree, the     *)
(* answer is its best leaf, and what a rollout says is heard. And of the conversations:    *)
(* whichever vendors answered, each is sent them in a form it accepts and can read.          *)
EXTENDS AbMcts, Conversations, FiniteSetTheorems, SequenceTheorems, WellFoundedInduction, TLAPS

-----------------------------------------------------------------------------
(* Places of a sequence.                                                          *)

(* The place of rank k is there and is the only one, for every k up to the size.   *)
LEMMA Ranks ==
  ASSUME NEW S \in SUBSET Nat, IsFiniteSet(S)
  PROVE  /\ Cardinality(S) \in Nat
         /\ \A k \in 1 .. Cardinality(S) :
              Nth(S, k) \in S /\ Cardinality({j \in S : j <= Nth(S, k)}) = k
         /\ \A i \in S : /\ Cardinality({j \in S : j <= i}) \in 1 .. Cardinality(S)
                         /\ Nth(S, Cardinality({j \in S : j <= i})) = i
  <1> DEFINE n == Cardinality(S)
             Upto(i) == {j \in S : j <= i}
             f == [i \in S |-> Cardinality(Upto(i))]
  <1>1. n \in Nat
    BY FS_CardinalityType
  <1>2. ASSUME NEW i \in S
        PROVE  IsFiniteSet(Upto(i)) /\ Cardinality(Upto(i)) \in 1 .. n
    <2>1. IsFiniteSet(Upto(i)) /\ Cardinality(Upto(i)) \in Nat /\ Cardinality(Upto(i)) <= n
      BY <1>1, FS_Subset, FS_CardinalityType
    <2>2. i \in Upto(i)
      OBVIOUS
    <2>3. Cardinality(Upto(i)) # 0
      BY <2>1, <2>2, FS_EmptySet
    <2> QED
      BY <2>1, <2>3, <1>1
  <1>3. ASSUME NEW i \in S, NEW j \in S, i < j
        PROVE  Cardinality(Upto(i)) # Cardinality(Upto(j))
    <2>0. \A a \in S : a <= i => a <= j
      BY <1>3
    <2>1. Upto(i) \subseteq Upto(j)
      BY <2>0
    <2>2. j \in Upto(j) /\ j \notin Upto(i)
      BY <1>3
    <2> QED
      BY <1>2, <2>1, <2>2, FS_Subset
  <1>4. \A i, j \in S : Cardinality(Upto(i)) = Cardinality(Upto(j)) => i = j
    BY <1>3
  <1>5. f \in Injection(S, 1 .. n)
    <2>1. f \in [S -> 1 .. n]
      BY <1>2
    <2>2. \A i, j \in S : f[i] = f[j] => i = j
      BY <1>4
    <2> QED
      BY <2>1, <2>2 DEF Injection, IsInjective
  <1>6. IsFiniteSet(1 .. n) /\ Cardinality(1 .. n) = n
    BY <1>1, FS_Interval
  <1>7. f \in Surjection(S, 1 .. n)
    BY <1>5, <1>6, FS_Injection
  <1>8. \A k \in 1 .. n : \E i \in S : Cardinality(Upto(i)) = k
    BY <1>7 DEF Surjection
  <1>9. \A k \in 1 .. n : Nth(S, k) \in S /\ Cardinality(Upto(Nth(S, k))) = k
    BY <1>8 DEF Nth
  <1>10. \A i \in S : Nth(S, Cardinality(Upto(i))) = i
    BY <1>2, <1>4, <1>9
  <1> QED
    BY <1>1, <1>2, <1>9, <1>10

LEMMA NthOfAll ==
  ASSUME NEW n \in Nat
  PROVE  /\ IsFiniteSet(1 .. n) /\ Cardinality(1 .. n) = n
         /\ \A k \in 1 .. n : Nth(1 .. n, k) = k
  <1>1. IsFiniteSet(1 .. n) /\ Cardinality(1 .. n) = n
    BY FS_Interval
  <1>2. ASSUME NEW k \in 1 .. n PROVE Nth(1 .. n, k) = k
    <2>1. {j \in 1 .. n : j <= k} = 1 .. k
      OBVIOUS
    <2>2. Cardinality(1 .. k) = k
      BY FS_Interval
    <2>3. PICK S \in SUBSET Nat : S = 1 .. n
      OBVIOUS
    <2>4. Nth(S, Cardinality({j \in S : j <= k})) = k
      BY ONLY <1>1, <2>3, Ranks, k \in 1 .. n
    <2> QED
      BY ONLY <2>1, <2>2, <2>3, <2>4
  <1> QED
    BY <1>1, <1>2

LEMMA TakenAll ==
  ASSUME NEW n \in Nat, NEW s, s = [i \in 1 .. n |-> s[i]]
  PROVE  Taken(s, 1 .. n) = s
  BY NthOfAll DEF Taken

LEMMA TakenNone == \A s : Taken(s, {}) = <<>>
  BY FS_EmptySet DEF Taken

(* A set of numbers that is not empty has a least one, as they are well-founded.   *)
LEMMA FirstOf ==
  ASSUME NEW S \in SUBSET Nat, S # {}
  PROVE  \E n \in S : \A m \in S : n <= m
  <1> DEFINE Less == OpToRel(<, Nat)
  <1>1. IsWellFoundedOn(Less, Nat)
    BY NatLessThanWellFounded
  <1>2. \A a, b \in Nat : a < b => <<a, b>> \in Less
    BY DEF OpToRel
  <1> HIDE DEF Less
  <1>3. PICK n \in S : \A m \in S : ~(<<m, n>> \in Less)
    BY <1>1, WFMin
  <1>4. \A m \in S : ~(m < n)
    BY <1>2, <1>3
  <1>5. \A a, b \in Nat : ~(a < b) => b <= a
    OBVIOUS
  <1> QED
    BY <1>3, <1>4, <1>5

LEMMA LeastOf ==
  ASSUME NEW S \in SUBSET Nat, S # {}
  PROVE  Min(S) \in S
  BY FirstOf DEF Min

-----------------------------------------------------------------------------
(* The messages of the list.                                                      *)

Call == [id : Range(CallIds), args : {"given", "empty"}]
ListItem == {User(t) : t \in Prompts} \cup {Called(cs) : cs \in Seq(Call)}
              \cup {Returned(cs) : cs \in Seq(Call)}

LEMMA CallsOfList ==
  ASSUME NEW cs \in Seq(Call)
  PROVE  /\ Calls(Called(cs)) = Ids(cs) /\ Results(Called(cs)) = <<>>
         /\ Results(Returned(cs)) = Ids(cs) /\ Calls(Returned(cs)) = <<>>
         /\ Called(cs).role = "assistant" /\ Returned(cs).role = "user"
         /\ cs # <<>> => Ids(cs) # <<>>
  <1> DEFINE n == Len(cs)
             p == Called(cs).parts
             q == Returned(cs).parts
  <1>1. n \in Nat /\ DOMAIN cs = 1 .. n
    BY LenProperties
  <1>2. /\ p = [i \in 1 .. n |-> CallPart(cs[i].id, cs[i].id, "args")]
        /\ q = [i \in 1 .. n |-> ResultPart(cs[i].id)]
    BY <1>1 DEF Called, Returned, Message
  <1>3. /\ {i \in DOMAIN p : p[i].is = "call"} = 1 .. n
        /\ {i \in DOMAIN p : p[i].is = "result"} = {}
        /\ {i \in DOMAIN q : q[i].is = "result"} = 1 .. n
        /\ {i \in DOMAIN q : q[i].is = "call"} = {}
    BY <1>2 DEF CallPart, ResultPart
  <1>4. p = [i \in 1 .. n |-> p[i]] /\ q = [i \in 1 .. n |-> q[i]]
    BY <1>2
  <1> HIDE DEF p, q, n
  <1>5. Taken(p, 1 .. n) = p /\ Taken(q, 1 .. n) = q
    BY <1>1, <1>4, TakenAll
  <1>6. /\ Calls(Called(cs)) = Ids(p) /\ Results(Called(cs)) = Ids(<<>>)
        /\ Results(Returned(cs)) = Ids(q) /\ Calls(Returned(cs)) = Ids(<<>>)
    BY <1>3, <1>5, TakenNone DEF Calls, Results, PartsOf, p, q
  <1>7. Ids(p) = Ids(cs) /\ Ids(q) = Ids(cs) /\ Ids(<<>>) = <<>>
    BY <1>1, <1>2 DEF Ids, CallPart, ResultPart
  <1>8. Called(cs).role = "assistant" /\ Returned(cs).role = "user"
    BY DEF Called, Returned, Message
  <1>9. cs # <<>> => Ids(cs) # <<>>
    BY <1>1, EmptySeq DEF Ids, n
  <1> QED
    BY <1>6, <1>7, <1>8, <1>9

LEMMA CallsOfUser ==
  ASSUME NEW t \in Prompts
  PROVE  Calls(User(t)) = <<>> /\ Results(User(t)) = <<>> /\ User(t).role = "user"
  <1> DEFINE p == User(t).parts
  <1>1. p = <<TextPart(t)>>
    BY DEF User, Message
  <1>2. {i \in DOMAIN p : p[i].is = "call"} = {} /\ {i \in DOMAIN p : p[i].is = "result"} = {}
    BY <1>1 DEF TextPart
  <1>3. Calls(User(t)) = Ids(<<>>) /\ Results(User(t)) = Ids(<<>>)
    BY <1>2, TakenNone, Zenon DEF Calls, Results, PartsOf
  <1>4. Ids(<<>>) = <<>>
    BY DEF Ids
  <1> QED
    BY <1>3, <1>4 DEF User, Message

-----------------------------------------------------------------------------
(* The tool calls of an answer.                                                   *)

LEMMA LoopConstants ==
  /\ MaxSteps \in Nat \ {0} /\ MaxText \in Nat /\ None \notin Range(CallIds)
  /\ CallIds \in Seq(Range(CallIds)) /\ IsInjective(CallIds)
  BY LoopAssumption DEF LoopAssumption

(* What a model may mean to call: some calls of different ids.                      *)
LEMMA ReplyCalls ==
  ASSUME NEW r \in Replies
  PROVE  /\ r.text \in 0 .. MaxText
         /\ r.calls \in Seq(Range(CallIds)) /\ Len(r.calls) \in Nat
         /\ DOMAIN r.calls = 1 .. Len(r.calls)
         /\ \A i, j \in DOMAIN r.calls : r.calls[i] = r.calls[j] => i = j
         /\ \A i \in DOMAIN r.calls : r.calls[i] \in Range(CallIds) /\ r.calls[i] # None
  <1>1. PICK n \in 0 .. Len(CallIds) : r.calls = SubSeq(CallIds, 1, n)
    BY DEF Replies
  <1>2. r.text \in 0 .. MaxText
    BY DEF Replies
  <1>3. Len(CallIds) \in Nat /\ n \in Nat /\ n <= Len(CallIds) /\ DOMAIN CallIds = 1 .. Len(CallIds)
    BY LoopConstants, LenProperties
  <1>4. /\ r.calls \in Seq(Range(CallIds)) /\ Len(r.calls) = n
        /\ \A i \in 1 .. n : r.calls[i] = CallIds[i]
    BY <1>1, <1>3, LoopConstants, SubSeqProperties
  <1>5. DOMAIN r.calls = 1 .. n
    BY <1>4, LenProperties
  <1>6. \A i \in 1 .. n : i \in DOMAIN CallIds
    BY <1>3
  <1>7. \A i, j \in DOMAIN r.calls : r.calls[i] = r.calls[j] => i = j
    BY <1>4, <1>5, <1>6, LoopConstants DEF IsInjective
  <1>8. \A i \in DOMAIN r.calls : r.calls[i] \in Range(CallIds) /\ r.calls[i] # None
    BY <1>4, <1>5, <1>6, LoopConstants DEF Range
  <1> QED
    BY <1>2, <1>3, <1>4, <1>5, <1>7, <1>8

(* Of the calls that are taken over each is one of the model's, and one of them.    *)
Meant(cs, r) ==
  /\ cs \in Seq(Call)
  /\ \A n \in DOMAIN cs : cs[n].id \in Range(r.calls)
  /\ \A m, n \in DOMAIN cs : m # n => cs[m].id # cs[n].id

LEMMA WholeMeant ==
  ASSUME NEW r \in Replies
  PROVE  Meant(Whole(r), r) /\ \A n \in DOMAIN Whole(r) : Whole(r)[n].args = "given"
  <1>1. /\ DOMAIN Whole(r) = 1 .. Len(r.calls)
        /\ \A n \in 1 .. Len(r.calls) : Whole(r)[n] = [id |-> r.calls[n], args |-> "given"]
    BY ReplyCalls DEF Whole
  <1>2. Whole(r) \in Seq(Call)
    <2>1. Whole(r) = [n \in 1 .. Len(r.calls) |-> [id |-> r.calls[n], args |-> "given"]]
      BY ReplyCalls DEF Whole
    <2>2. \A n \in 1 .. Len(r.calls) : [id |-> r.calls[n], args |-> "given"] \in Call
      BY ReplyCalls DEF Call
    <2> QED
      BY <2>1, <2>2, ReplyCalls
  <1>3. ASSUME NEW n \in 1 .. Len(r.calls)
        PROVE  Whole(r)[n].id = r.calls[n] /\ Whole(r)[n].args = "given"
    <2>1. Whole(r)[n] = [id |-> r.calls[n], args |-> "given"]
      BY <1>1
    <2> QED
      BY ONLY <2>1
  <1>4. \A n \in DOMAIN Whole(r) : Whole(r)[n].id \in Range(r.calls)
    BY <1>1, <1>3, ReplyCalls DEF Range
  <1>5. \A m, n \in DOMAIN Whole(r) : m # n => Whole(r)[m].id # Whole(r)[n].id
    BY <1>1, <1>3, ReplyCalls
  <1> QED
    BY <1>1, <1>2, <1>3, <1>4, <1>5 DEF Meant

(* The deltas of a stream: each is the next fragment of a call, and its first one    *)
(* has the id.                                                                        *)
PlacesOf(ds, i) == {n \in DOMAIN ds : ds[n].index = i}
Upto(ds, i, n) == Cardinality({m \in PlacesOf(ds, i) : m <= n})
Fragmented(ds, r) ==
  /\ ds \in Seq([index : Nat, id : Range(CallIds) \cup {None}, args : Nat])
  /\ \A n \in DOMAIN ds :
       /\ ds[n].index \in DOMAIN r.calls
       /\ ds[n].args = Upto(ds, ds[n].index, n)
       /\ ds[n].id = IF ds[n].args = 1 THEN r.calls[ds[n].index] ELSE None
Begun(ds, r) == {i \in DOMAIN r.calls : PlacesOf(ds, i) # {}}

LEMMA PlacesFinite ==
  ASSUME NEW r \in Replies, NEW ds, Fragmented(ds, r), NEW i
  PROVE  /\ PlacesOf(ds, i) \in SUBSET Nat /\ IsFiniteSet(PlacesOf(ds, i))
         /\ Cardinality(PlacesOf(ds, i)) \in Nat
  <1>1. DOMAIN ds = 1 .. Len(ds) /\ Len(ds) \in Nat
    BY LenProperties DEF Fragmented
  <1>2. IsFiniteSet(1 .. Len(ds))
    BY <1>1, FS_Interval
  <1>3. PlacesOf(ds, i) \subseteq 1 .. Len(ds)
    BY <1>1 DEF PlacesOf
  <1> QED
    BY <1>2, <1>3, FS_Subset, FS_CardinalityType

(* However the fragments were interleaved, what is assembled of the calls that were   *)
(* begun is their ids, and their arguments if they were received in full.             *)
LEMMA Assembled ==
  ASSUME NEW r \in Replies, NEW ds, Fragmented(ds, r)
  PROVE  AssembleToolCalls(ds) =
           [n \in 1 .. Cardinality(Begun(ds, r)) |->
              [id |-> r.calls[Nth(Begun(ds, r), n)],
               args |-> IF Cardinality(PlacesOf(ds, Nth(Begun(ds, r), n))) = Fragments
                        THEN "given" ELSE "empty"]]
  <1> DEFINE of(i) == {n \in DOMAIN ds : ds[n].index = i}
             named(i) == {n \in of(i) : ds[n].id # None}
             fragments(i) == [k \in 1 .. Cardinality(of(i)) |-> ds[Nth(of(i), k)].args]
             calls == {i \in {ds[n].index : n \in DOMAIN ds} : named(i) # {}}
             first(i) == Nth(PlacesOf(ds, i), 1)
  <1>1. ASSUME NEW i \in Begun(ds, r)
        PROVE  /\ first(i) \in PlacesOf(ds, i) /\ named(i) = {first(i)} /\ i \in DOMAIN r.calls
               /\ ds[first(i)].id = r.calls[i]
    <2> DEFINE S == PlacesOf(ds, i)
    <2>1. /\ S \in SUBSET Nat /\ IsFiniteSet(S) /\ Cardinality(S) \in Nat /\ S # {}
          /\ i \in DOMAIN r.calls
      BY PlacesFinite DEF Begun
    <2>2. 1 \in 1 .. Cardinality(S)
      <3>1. Cardinality(S) # 0
        BY <2>1, FS_EmptySet
      <3> QED
        BY <2>1, <3>1
    <2>3. first(i) \in S /\ Upto(ds, i, first(i)) = 1
      BY <2>1, <2>2, Ranks DEF Upto
    <2>4. \A n \in S : Upto(ds, i, n) = 1 => n = first(i)
      BY <2>1, Ranks DEF Upto
    <2>5. \A n \in S : n \in DOMAIN ds /\ ds[n].index = i
      BY DEF PlacesOf
    <2>6. \A n \in S : ds[n].id = IF Upto(ds, i, n) = 1 THEN r.calls[i] ELSE None
      BY <2>5 DEF Fragmented
    <2>7. r.calls[i] # None
      BY <2>1, ReplyCalls
    <2>8. named(i) = {n \in S : ds[n].id # None}
      BY DEF PlacesOf
    <2> QED
      BY <2>1, <2>3, <2>4, <2>6, <2>7, <2>8
  <1>2. calls = Begun(ds, r)
    <2>1. calls \subseteq Begun(ds, r)
      BY DEF Begun, PlacesOf, Fragmented
    <2>2. \A i \in Begun(ds, r) : i \in {ds[n].index : n \in DOMAIN ds}
      BY <1>1 DEF PlacesOf
    <2>3. \A i \in Begun(ds, r) : named(i) # {}
      BY <1>1
    <2> QED
      BY <2>1, <2>2, <2>3
  <1>3. ASSUME NEW i \in Begun(ds, r)
        PROVE  ds[Max(named(i))].id = r.calls[i]
    <2>1. PICK n \in Nat : n = first(i) /\ named(i) = {n} /\ ds[n].id = r.calls[i]
      BY <1>1, PlacesFinite
    <2>2. Max({n}) = n
      BY DEF Max
    <2> QED
      BY <2>1, <2>2
  <1>4. ASSUME NEW i \in Begun(ds, r)
        PROVE  ParsedArgs(fragments(i)) = IF Cardinality(PlacesOf(ds, i)) = Fragments
                                          THEN "given" ELSE "empty"
    <2> DEFINE S == PlacesOf(ds, i)
               c == Cardinality(S)
    <2>1. S \in SUBSET Nat /\ IsFiniteSet(S) /\ c \in Nat /\ of(i) = S
      BY PlacesFinite DEF PlacesOf
    <2>2. \A k \in 1 .. c : Nth(S, k) \in S /\ Upto(ds, i, Nth(S, k)) = k
      BY <2>1, Ranks DEF Upto
    <2>3. \A n \in S : ds[n].args = Upto(ds, i, n)
      BY DEF Fragmented, PlacesOf
    <2>4. \A k \in 1 .. c : ds[Nth(S, k)].args = k
      BY <2>2, <2>3
    <2>5. fragments(i) = [k \in 1 .. c |-> ds[Nth(S, k)].args]
      BY <2>1
    <2> HIDE DEF c, S
    <2>6. fragments(i) = [k \in 1 .. c |-> k]
      BY <2>4, <2>5
    <2> HIDE DEF fragments
    <2>7. CASE c = Fragments
      BY <2>6, <2>7 DEF ParsedArgs, c, S
    <2>8. CASE c # Fragments
      <3>1. 1 .. c # 1 .. 2
        <4>1. c \in 1 .. c \/ c = 0
          BY <2>1
        <4>2. 2 \in 1 .. 2 /\ (c \in 1 .. 2 /\ 2 \in 1 .. c => c = 2)
          BY <2>1
        <4> QED
          BY <2>1, <2>8, <4>1, <4>2 DEF Fragments
      <3>2. DOMAIN fragments(i) # DOMAIN [f \in 1 .. Fragments |-> f]
        BY <2>6, <3>1 DEF Fragments
      <3> QED
        BY <2>8, <3>2 DEF ParsedArgs, c, S
    <2> QED
      BY <2>7, <2>8 DEF c, S
  <1>5. IsFiniteSet(Begun(ds, r)) /\ Begun(ds, r) \in SUBSET Nat
    <2>1. Begun(ds, r) \subseteq 1 .. Len(r.calls) /\ Len(r.calls) \in Nat
      BY ReplyCalls DEF Begun
    <2>2. IsFiniteSet(1 .. Len(r.calls))
      BY <2>1, FS_Interval
    <2> QED
      BY <2>1, <2>2, FS_Subset
  <1>6. \A n \in 1 .. Cardinality(Begun(ds, r)) : Nth(Begun(ds, r), n) \in Begun(ds, r)
    BY <1>5, Ranks
  <1>7. AssembleToolCalls(ds) =
          [n \in 1 .. Cardinality(calls) |->
             [id |-> ds[Max(named(Nth(calls, n)))].id, args |-> ParsedArgs(fragments(Nth(calls, n)))]]
    BY DEF AssembleToolCalls
  <1> HIDE DEF named, fragments, calls
  <1> QED
    BY <1>2, <1>3, <1>4, <1>6, <1>7

(* What is assembled was begun by the model; with all fragments it is what it said.   *)
LEMMA AssembledMeant ==
  ASSUME NEW r \in Replies, NEW ds, Fragmented(ds, r)
  PROVE  /\ Meant(AssembleToolCalls(ds), r)
         /\ (\A i \in DOMAIN r.calls : Cardinality(PlacesOf(ds, i)) = Fragments) =>
              AssembleToolCalls(ds) = Whole(r)
  <1> DEFINE B == Begun(ds, r)
             c == Cardinality(B)
             cs == AssembleToolCalls(ds)
             Args(i) == IF Cardinality(PlacesOf(ds, i)) = Fragments THEN "given" ELSE "empty"
  <1>1. IsFiniteSet(B) /\ B \in SUBSET Nat /\ c \in Nat
    <2>1. B \subseteq 1 .. Len(r.calls) /\ Len(r.calls) \in Nat
      BY ReplyCalls DEF Begun
    <2>2. IsFiniteSet(1 .. Len(r.calls))
      BY <2>1, FS_Interval
    <2> QED
      BY <2>1, <2>2, FS_Subset, FS_CardinalityType
  <1>2. \A n \in 1 .. c : Nth(B, n) \in B /\ Cardinality({j \in B : j <= Nth(B, n)}) = n
    BY <1>1, Ranks
  <1>3. \A n \in 1 .. c : Nth(B, n) \in DOMAIN r.calls
    BY <1>2 DEF Begun
  <1>4. cs = [n \in 1 .. c |-> [id |-> r.calls[Nth(B, n)], args |-> Args(Nth(B, n))]]
    BY Assembled
  <1>5. \A i \in DOMAIN r.calls : [id |-> r.calls[i], args |-> Args(i)] \in Call
    BY ReplyCalls DEF Call
  <1> HIDE DEF B, c, cs, Args
  <1>6. cs \in Seq(Call)
    BY <1>1, <1>3, <1>4, <1>5
  <1>7. DOMAIN cs = 1 .. c /\ \A n \in 1 .. c : cs[n].id = r.calls[Nth(B, n)]
    BY <1>4
  <1>8. \A n \in DOMAIN cs : cs[n].id \in Range(r.calls)
    BY <1>3, <1>7 DEF Range
  <1>9. \A m, n \in DOMAIN cs : m # n => cs[m].id # cs[n].id
    <2>1. \A m, n \in 1 .. c : Nth(B, m) = Nth(B, n) => m = n
      BY <1>2
    <2> QED
      BY <1>3, <1>7, <2>1, ReplyCalls
  <1>10. ASSUME \A i \in DOMAIN r.calls : Cardinality(PlacesOf(ds, i)) = Fragments
         PROVE  cs = Whole(r)
    <2>1. B = DOMAIN r.calls
      <3>1. ASSUME NEW i \in DOMAIN r.calls PROVE PlacesOf(ds, i) # {}
        BY <1>10, FS_EmptySet DEF Fragments
      <3> QED
        BY <3>1 DEF B, Begun
    <2>2. PICK k \in Nat : k = Len(r.calls) /\ DOMAIN r.calls = 1 .. k
      BY ReplyCalls
    <2>3. c = k /\ \A n \in 1 .. k : Nth(B, n) = n
      BY <2>1, <2>2, NthOfAll DEF c
    <2>4. \A i \in 1 .. k : Args(i) = "given"
      BY <1>10, <2>2 DEF Args
    <2> QED
      BY <1>4, <2>2, <2>3, <2>4 DEF Whole
  <1> QED
    BY <1>6, <1>8, <1>9, <1>10 DEF Meant, cs

(* The next fragment of a call keeps the deltas in order.                              *)
LEMMA NextFragment ==
  ASSUME NEW r \in Replies, NEW ds, Fragmented(ds, r), NEW i \in DOMAIN r.calls
  PROVE  Fragmented(Append(ds, Delta(r, i, Cardinality(PlacesOf(ds, i)) + 1)), r)
  <1> DEFINE c == Cardinality(PlacesOf(ds, i))
             d == Delta(r, i, c + 1)
             es == Append(ds, d)
             l == Len(ds)
             D == [index : Nat, id : Range(CallIds) \cup {None}, args : Nat]
  <1>1. c \in Nat /\ IsFiniteSet(PlacesOf(ds, i))
    BY PlacesFinite
  <1>2. ds \in Seq(D) /\ l \in Nat /\ DOMAIN ds = 1 .. l
    BY LenProperties DEF Fragmented
  <1>3. d \in D /\ d.index = i /\ d.args = c + 1 /\ d.id = IF d.args = 1 THEN r.calls[i] ELSE None
    <2>1. i \in Nat
      BY ReplyCalls
    <2> QED
      BY <1>1, <2>1, ReplyCalls DEF Delta
  <1> HIDE DEF d, c, D
  <1>4. /\ es \in Seq(D) /\ DOMAIN es = 1 .. l + 1
        /\ es[l + 1] = d /\ \A n \in 1 .. l : es[n] = ds[n]
    BY <1>2, <1>3, AppendProperties, LenProperties
  <1> HIDE DEF es, l
  <1>5. PlacesOf(es, i) = PlacesOf(ds, i) \cup {l + 1} /\ l + 1 \notin PlacesOf(ds, i)
    BY <1>2, <1>3, <1>4 DEF PlacesOf
  <1>6. Upto(es, i, l + 1) = c + 1
    <2>1. {m \in PlacesOf(es, i) : m <= l + 1} = PlacesOf(ds, i) \cup {l + 1}
      BY <1>2, <1>4, <1>5 DEF PlacesOf
    <2>2. Cardinality(PlacesOf(ds, i) \cup {l + 1}) = c + 1
      BY <1>1, <1>5, FS_AddElement DEF c
    <2> QED
      BY <2>1, <2>2 DEF Upto
  <1>7. ASSUME NEW n \in 1 .. l PROVE Upto(es, ds[n].index, n) = Upto(ds, ds[n].index, n)
    <2>1. {m \in PlacesOf(es, ds[n].index) : m <= n} = {m \in PlacesOf(ds, ds[n].index) : m <= n}
      BY <1>2, <1>4 DEF PlacesOf
    <2> QED
      BY <2>1 DEF Upto
  <1>8. ASSUME NEW n \in DOMAIN es
        PROVE  /\ es[n].index \in DOMAIN r.calls
               /\ es[n].args = Upto(es, es[n].index, n)
               /\ es[n].id = IF es[n].args = 1 THEN r.calls[es[n].index] ELSE None
    <2>1. CASE n \in 1 .. l
      BY <1>2, <1>4, <1>7, <2>1 DEF Fragmented
    <2>2. CASE n = l + 1
      BY <1>3, <1>4, <1>6, <2>2
    <2> QED
      BY <1>2, <1>4, <2>1, <2>2
  <1> QED
    BY <1>4, <1>8 DEF Fragmented, D, es, d, c

-----------------------------------------------------------------------------
(* The answer of a step.                                                          *)

Before == {"route", "check", "call", "fallback"}
After == {"record", "score", "push", "policy", "tool", "results", "finish", "done"}

(* What is known of the answer: nothing before it, of a stream what was received, and  *)
(* afterwards what the model said, or the beginning of it.                              *)
Heard ==
  /\ reply \in Replies /\ Fragmented(deltas, reply) /\ asst \in Seq(Call)
  /\ text \in 0 .. MaxText /\ shown \in 0 .. MaxText /\ cut \in BOOLEAN
  /\ pc \in Before => deltas = <<>> /\ text = 0 /\ shown = 0 /\ asst = <<>> /\ ti = 0 /\ ~cut
  /\ pc = "chunks" => text <= reply.text /\ shown = text /\ asst = <<>> /\ ti = 0 /\ ~cut
  /\ pc \in After =>
       /\ Meant(asst, reply)
       /\ ~cut => asst = Whole(reply) /\ text = reply.text
       /\ mode = "stream" => shown = text \/ (~cut /\ text > 0 /\ shown = 1)

LEMMA NothingReceived == ASSUME NEW r \in Replies PROVE Fragmented(<<>>, r)
  BY EmptySeq DEF Fragmented

LEMMA NothingSaid == NoReply \in Replies
  <1>1. SubSeq(CallIds, 1, 0) = <<>>
    BY LoopConstants, SubSeqProperties, LenProperties, EmptySeq
  <1>2. 0 \in 0 .. Len(CallIds) /\ 0 \in 0 .. MaxText
    BY LoopConstants, LenProperties
  <1> QED
    BY <1>1, <1>2 DEF NoReply, Replies

LEMMA InitHeard == LoopInit => Heard
  <1> SUFFICES ASSUME LoopInit PROVE Heard
    OBVIOUS
  <1>1. /\ pc = "turn" /\ reply = NoReply /\ deltas = <<>> /\ shown = 0 /\ text = 0
        /\ asst = <<>> /\ ti = 0
    BY DEF LoopInit
  <1>3. cut \in BOOLEAN
    BY Zenon DEF LoopInit
  <1>2. reply \in Replies /\ Fragmented(deltas, reply) /\ asst \in Seq(Call)
    BY <1>1, NothingSaid, NothingReceived, EmptySeq
  <1> QED
    BY ONLY <1>1, <1>2, <1>3, LoopConstants DEF Heard, Before, After

(* A step that leaves the answer alone, and does not go back to before it.              *)
LEMMA SameHeard ==
  ASSUME Heard, UNCHANGED <<mode, answer, shown>>,
         pc' \in Before => pc \in Before /\ ti' = ti,
         pc' = "chunks" => pc = "chunks" /\ ti' = ti,
         pc' \in After => pc \in After
  PROVE  Heard'
  <1>1. UNCHANGED <<mode, reply, deltas, text, asst, cut, shown>>
    BY DEF answer
  <1>2. Fragmented(deltas, reply)' /\ Meant(asst, reply)' = Meant(asst, reply) /\ Whole(reply)' = Whole(reply)
    <2>1. Fragmented(deltas, reply)' = Fragmented(deltas, reply)
      BY ONLY <1>1 DEF Fragmented, Upto, PlacesOf
    <2>2. Meant(asst, reply)' = Meant(asst, reply)
      BY ONLY <1>1 DEF Meant, Call
    <2>3. Whole(reply)' = Whole(reply)
      BY ONLY <1>1 DEF Whole
    <2>4. Fragmented(deltas, reply)
      BY DEF Heard
    <2> QED
      BY <2>1, <2>2, <2>3, <2>4
  <1> QED
    BY <1>1, <1>2 DEF Heard, Before, After

LEMMA StartHeard == ASSUME Heard, StartStep PROVE Heard'
  <1>1. /\ pc' \in {"call", "route"} /\ reply' = NoReply /\ deltas' = <<>> /\ shown' = 0 /\ text' = 0
        /\ asst' = <<>> /\ ti' = 0
    BY DEF StartStep
  <1>3. cut' \in BOOLEAN /\ ~cut'
    BY Zenon DEF StartStep
  <1>2. reply' \in Replies /\ Fragmented(deltas', reply') /\ asst' \in Seq(Call)
    BY <1>1, NothingSaid, NothingReceived, EmptySeq
  <1> QED
    BY ONLY <1>1, <1>2, <1>3, LoopConstants DEF Heard, Before, After

LEMMA ChatHeard == ASSUME Heard, Chat PROVE Heard'
  <1>1. CASE Fail
    BY <1>1 DEF Chat, Heard, Fail, Before, After
  <1>2. ASSUME NEW r \in Replies, reply' = r, asst' = Whole(r), text' = r.text,
               shown' = IF mode = "stream" /\ r.text > 0 THEN 1 ELSE 0,
               pc' \in {"push", "record"}
        PROVE  Heard'
    <2>1. /\ deltas = <<>> /\ shown = 0 /\ ~cut /\ deltas' = deltas /\ cut' = cut /\ mode' = mode
      BY DEF Chat, Heard, Before, who
    <2>2. Fragmented(deltas', reply') /\ Meant(asst', reply')
      BY <1>2, <2>1, NothingReceived, WholeMeant
    <2>3. r.text \in 0 .. MaxText
      BY ReplyCalls
    <2>4. text' \in 0 .. MaxText /\ shown' \in 0 .. MaxText
          /\ (mode = "stream" => shown' = text' \/ (text' > 0 /\ shown' = 1))
      BY <1>2, <2>3, LoopConstants
    <2> QED
      BY <1>2, <2>1, <2>2, <2>4 DEF Heard, Before, After, Meant
  <1> QED
    BY <1>1, <1>2 DEF Chat

LEMMA OpenHeard == ASSUME Heard, OpenStream PROVE Heard'
  <1>1. /\ deltas = <<>> /\ text = 0 /\ shown = 0 /\ asst = <<>> /\ ti = 0 /\ ~cut
        /\ UNCHANGED <<mode, deltas, text, shown, asst, ti, cut>>
    BY DEF OpenStream, Heard, Before, who
  <1>2. reply' \in Replies /\ pc' \in {"chunks", "fallback"}
    BY DEF OpenStream, Heard
  <1>4. 0 \in 0 .. MaxText /\ \A n \in Nat : 0 <= n
    BY LoopConstants
  <1>3. Fragmented(deltas', reply') /\ asst' \in Seq(Call) /\ 0 <= reply'.text
    BY <1>1, <1>2, NothingReceived, ReplyCalls, EmptySeq
  <1>5. reply' \in Replies /\ text' \in 0 .. MaxText /\ shown' \in 0 .. MaxText /\ text' <= reply'.text
    BY <1>1, <1>2, <1>3, <1>4
  <1>6. cut' \in BOOLEAN /\ ~cut'
    BY <1>1, Zenon DEF Heard
  <1> QED
    BY ONLY <1>1, <1>2, <1>3, <1>5, <1>6 DEF Heard, Before, After

LEMMA TextHeard == ASSUME Heard, TextDelta PROVE Heard'
  <1>1. reply.text \in 0 .. MaxText
    BY ReplyCalls DEF Heard
  <1>2. /\ text \in Nat /\ text' = text + 1 /\ shown' = shown + 1 /\ text < reply.text /\ shown = text
        /\ pc' \in {"chunks", "failed"} /\ UNCHANGED <<mode, reply, deltas, asst, cut, ti>>
    BY <1>1, LoopConstants DEF TextDelta, Heard, Fail, who
  <1>3. text' \in 0 .. MaxText /\ shown' = text' /\ text' <= reply.text
    BY ONLY <1>1, <1>2, LoopConstants
  <1>4. Fragmented(deltas', reply')
    BY <1>2 DEF Heard, Fragmented, Upto, PlacesOf
  <1> QED
    BY <1>2, <1>3, <1>4 DEF TextDelta, Heard, Before, After

LEMMA CallHeard == ASSUME Heard, CallDelta PROVE Heard'
  <1>1. PICK i \in DOMAIN reply.calls : deltas' = Append(deltas, Delta(reply, i, Received(i) + 1))
    BY DEF CallDelta
  <1>2. Received(i) = Cardinality(PlacesOf(deltas, i))
    BY DEF Received, PlacesOf
  <1>3. Fragmented(deltas', reply)
    BY <1>1, <1>2, NextFragment DEF Heard
  <1>4. UNCHANGED <<mode, pc, reply, asst, cut, ti, text, shown>> /\ pc = "chunks"
    BY DEF CallDelta, who
  <1> QED
    BY <1>3, <1>4 DEF Heard, Before, After

LEMMA EndsHeard == ASSUME Heard, StreamEnds PROVE Heard'
  <1>1. /\ cut' \in {FALSE, TRUE} /\ (~cut' => Complete) /\ asst' = AssembleToolCalls(deltas)
        /\ pc' \in {"push", "record"} /\ UNCHANGED <<mode, reply, deltas, text, shown>> /\ shown = text
    BY DEF StreamEnds, Heard, who
  <1>2. /\ Meant(AssembleToolCalls(deltas), reply)
        /\ Complete => AssembleToolCalls(deltas) = Whole(reply) /\ text = reply.text
    BY AssembledMeant DEF Heard, Complete, Received, PlacesOf
  <1>3. Meant(asst', reply') /\ (~cut' => asst' = Whole(reply') /\ text' = reply'.text)
    BY <1>1, <1>2
  <1>4. Fragmented(deltas', reply') /\ asst' \in Seq(Call)
    BY <1>1, <1>3 DEF Heard, Meant
  <1> QED
    BY <1>1, <1>3, <1>4 DEF Heard, Before, After

(* The steps of the functions that contain the loop.                                    *)
LEMMA Performed ==
  ASSUME LoopNext
  PROVE  /\ kind # "rollout"
         /\ \/ StartStep \/ Route \/ PreCheck \/ Chat \/ OpenStream \/ TextDelta \/ CallDelta
            \/ ChunkFails \/ StreamEnds \/ Record \/ Score \/ Push \/ Policy \/ ToolReturns
            \/ PushResults \/ Finish
  BY DEF LoopNext, SingleRun, SingleStream, TrinityRun, TrinityStream, Is, ToolRound

LEMMA NextHeard == ASSUME Heard, LoopNext \/ Drop PROVE Heard'
  <1> USE DEF Before, After, Fail, who
  <1>1. CASE Route
    BY <1>1, SameHeard DEF Route, PickProvider, RouteToRole
  <1>2. CASE PreCheck \/ ChunkFails \/ Record \/ Score \/ Finish \/ Drop
    BY <1>2, SameHeard DEF PreCheck, ChunkFails, Record, Score, Finish, Drop, Over
  <1>3. CASE Push \/ Policy \/ ToolReturns \/ PushResults
    BY <1>3, SameHeard DEF Push, Policy, ToolReturns, PushResults
  <1> QED
    BY <1>1, <1>2, <1>3, Performed, StartHeard, ChatHeard, OpenHeard, TextHeard, CallHeard, EndsHeard

-----------------------------------------------------------------------------
(* The steps, the tool calls, the money and the provider.                         *)

Paused == {"turn", "finish"} \cup Over

(* A step is announced before it is taken, and only while there are steps left.        *)
Turned ==
  /\ kind \in Kinds /\ mode \in {"run", "stream"} /\ router \in RouterKinds
  /\ pc \in {"turn", "route", "check", "call", "fallback", "chunks", "record", "score", "push",
            "policy", "tool", "results", "finish"} \cup Over
  /\ step \in 0 .. MaxSteps /\ (pc \notin {"finish"} \cup Over => step < MaxSteps)
  /\ announced \in Int /\ announced >= -1
  /\ mode = "run" => announced = -1
  /\ mode = "stream" => (pc = "turn" => announced = step - 1) /\ (pc \notin Paused => announced = step)

(* The tool call that is shown as open is the one that runs.                            *)
Invoked ==
  /\ ti \in 0 .. Len(asst) /\ (pc \in {"policy", "tool"} => ti < Len(asst))
  /\ pc \in {"record", "score", "push"} => ti = 0
  /\ pending \in Range(CallIds) \cup {None}
  /\ pc \notin {"tool", "failed", "dropped"} => pending = None
  /\ pc = "tool" => pending = IF mode = "stream" THEN asst[ti + 1].id ELSE None

(* What was charged and is not recorded yet.                                            *)
Paid ==
  /\ charged \in Nat /\ booked \in Nat /\ restarts \in Nat
  /\ booked <= charged /\ charged - booked <= restarts + 1
  /\ pc \in {"chunks", "record"} => booked < charged
  /\ pc \notin {"chunks", "record", "failed", "dropped"} => charged - booked <= restarts

LEMMA InitRest == LoopInit => Turned /\ Invoked /\ Paid
  BY LoopConstants DEF LoopInit, Turned, Invoked, Paid, Over, Paused

LEMMA NextTurned == ASSUME Turned, LoopNext \/ Drop PROVE Turned'
  <1> USE LoopConstants DEF Turned, Paused, Over, Fail, who, talk, view
  <1>0. CASE Drop
    BY <1>0 DEF Drop
  <1> SUFFICES ASSUME kind # "rollout", LoopNext PROVE Turned'
    BY <1>0, Performed
  <1>1. CASE StartStep \/ Finish
    BY <1>1 DEF StartStep, Finish
  <1>2. CASE Route
    BY <1>2 DEF Route, PickProvider, RouteToRole
  <1>3. CASE PreCheck \/ Chat \/ OpenStream
    BY <1>3 DEF PreCheck, Chat, OpenStream
  <1>4. CASE TextDelta \/ CallDelta \/ ChunkFails \/ StreamEnds \/ Record \/ Score
    BY <1>4 DEF TextDelta, CallDelta, ChunkFails, StreamEnds, Record, Score
  <1>5. CASE Push \/ Policy \/ ToolReturns
    BY <1>5 DEF Push, Policy, ToolReturns
  <1>6. CASE PushResults
    BY <1>6 DEF PushResults
  <1> QED
    BY <1>1, <1>2, <1>3, <1>4, <1>5, <1>6, Performed

LEMMA NextPaid == ASSUME Paid, LoopNext \/ Drop PROVE Paid'
  <1> USE DEF Paid, Over, Fail, money
  <1>0. CASE Drop
    BY <1>0 DEF Drop
  <1> SUFFICES ASSUME kind # "rollout", LoopNext PROVE Paid'
    BY <1>0, Performed
  <1>1. CASE StartStep \/ Finish
    BY <1>1 DEF StartStep, Finish
  <1>2. CASE Route
    BY <1>2 DEF Route, PickProvider, RouteToRole
  <1>3. CASE PreCheck \/ OpenStream
    BY <1>3 DEF PreCheck, OpenStream
  <1>4. CASE Chat
    BY <1>4 DEF Chat
  <1>5. CASE TextDelta \/ CallDelta \/ ChunkFails \/ StreamEnds
    BY <1>5 DEF TextDelta, CallDelta, ChunkFails, StreamEnds
  <1>6. CASE Record \/ Score
    BY <1>6 DEF Record, Score
  <1>7. CASE Push \/ Policy \/ ToolReturns \/ PushResults
    BY <1>7 DEF Push, Policy, ToolReturns, PushResults
  <1> QED
    BY <1>1, <1>2, <1>3, <1>4, <1>5, <1>6, <1>7, Performed

LEMMA NextInvoked == ASSUME Heard, Invoked, LoopNext \/ Drop, Heard' PROVE Invoked'
  <1> USE DEF Invoked, Fail, who, view
  <1>0. CASE Drop
    BY <1>0 DEF Drop, answer
  <1> SUFFICES ASSUME kind # "rollout", LoopNext PROVE Invoked'
    BY <1>0, Performed
  <1>1. asst \in Seq(Call) /\ Len(asst) \in Nat /\ asst' \in Seq(Call) /\ Len(asst') \in Nat
    BY LenProperties DEF Heard
  <1>2. \A i \in 1 .. Len(asst) : asst[i].id \in Range(CallIds)
    <2>1. \A i \in 1 .. Len(asst) : asst[i] \in Call
      BY <1>1, ElementOfSeq
    <2>2. \A c \in Call : c.id \in Range(CallIds)
      BY DEF Call
    <2> QED
      BY <2>1, <2>2
  <1>3. CASE StartStep
    BY <1>1, <1>3 DEF StartStep
  <1>4. CASE Route
    BY <1>4 DEF Route, PickProvider, RouteToRole, answer
  <1>5. CASE PreCheck \/ ChunkFails \/ Record \/ Score \/ Finish
    BY <1>5 DEF PreCheck, ChunkFails, Record, Score, Finish, answer
  <1>6. CASE Chat
    <2>1. ti = 0
      BY <1>6 DEF Chat, Heard, Before
    <2> QED
      BY <1>1, <1>6, <2>1 DEF Chat
  <1>7. CASE OpenStream \/ TextDelta \/ CallDelta
    BY <1>7 DEF OpenStream, TextDelta, CallDelta
  <1>8. CASE StreamEnds
    <2>1. ti = 0
      BY <1>8 DEF StreamEnds, Heard
    <2> QED
      BY <1>1, <1>8, <2>1 DEF StreamEnds
  <1>9. CASE Push
    <2>1. asst # <<>> => 0 < Len(asst)
      BY <1>1, EmptySeq
    <2> QED
      BY <1>9, <2>1 DEF Push, answer
  <1>10. CASE Policy
    <2>1. ti + 1 \in 1 .. Len(asst)
      BY <1>1, <1>10 DEF Policy
    <2> QED
      BY <1>2, <1>10, <2>1 DEF Policy, answer
  <1>11. CASE ToolReturns
    BY <1>1, <1>11 DEF ToolReturns, answer
  <1>12. CASE PushResults
    BY <1>12 DEF PushResults, answer
  <1> QED
    BY <1>3, <1>4, <1>5, <1>6, <1>7, <1>8, <1>9, <1>10, <1>11, <1>12, Performed

-----------------------------------------------------------------------------
(* The message list.                                                              *)

(* The user speaks once, at the beginning.                                              *)
SpokenOnce(ms) ==
  /\ ms \in Seq(ListItem) /\ Len(ms) >= 1
  /\ \E t \in Prompts : ms[1] = User(t)
  /\ \A i \in 2 .. Len(ms) : Said(ms[i]) = <<>>

LEMMA SaidOfList ==
  /\ \A cs \in Seq(Call) : Said(Called(cs)) = <<>> /\ Said(Returned(cs)) = <<>>
  /\ \A t \in Prompts : Said(User(t)) # <<>> /\ Said(User(t))[1].text = t
  <1>1. ASSUME NEW cs \in Seq(Call) PROVE Said(Called(cs)) = <<>> /\ Said(Returned(cs)) = <<>>
    <2> DEFINE p == Called(cs).parts
               q == Returned(cs).parts
    <2>1. /\ {i \in DOMAIN p : p[i].is = "text" /\ p[i].text # ""} = {}
          /\ {i \in DOMAIN q : q[i].is = "text" /\ q[i].text # ""} = {}
      BY DEF Called, Returned, Message, CallPart, ResultPart
    <2> QED
      BY <2>1, TakenNone, Zenon DEF Said
  <1>2. ASSUME NEW t \in Prompts PROVE Said(User(t)) # <<>> /\ Said(User(t))[1].text = t
    <2> DEFINE p == User(t).parts
    <2>1. p = <<TextPart(t)>> /\ p = [i \in 1 .. 1 |-> p[i]]
      BY DEF User, Message
    <2> HIDE DEF p
    <2>2. {i \in DOMAIN p : p[i].is = "text" /\ p[i].text # ""} = 1 .. 1
      <3>0. t # ""
        BY RouterAssumption, Zenon DEF RouterAssumption
      <3>1. DOMAIN p = 1 .. 1 /\ p[1].is = "text" /\ p[1].text = t /\ t # ""
        BY ONLY <2>1, <3>0 DEF TextPart
      <3>2. \A i \in 1 .. 1 : i = 1
        OBVIOUS
      <3> QED
        BY <3>1, <3>2
    <2>3. Taken(p, 1 .. 1) = p
      BY <2>1, TakenAll
    <2>4. Said(User(t)) = p
      BY <2>2, <2>3, Zenon DEF Said, p
    <2> QED
      BY <2>1, <2>4 DEF TextPart
  <1> QED
    BY <1>1, <1>2

LEMMA LastText ==
  ASSUME NEW ms, SpokenOnce(ms)
  PROVE  \E t \in Prompts : ms[1] = User(t) /\ LastUserText(ms) = t
  <1>1. PICK t \in Prompts : ms[1] = User(t)
    BY DEF SpokenOnce
  <1> DEFINE spoken == {n \in DOMAIN ms : ms[n].role = "user" /\ Said(ms[n]) # <<>>}
  <1>2. DOMAIN ms = 1 .. Len(ms) /\ Len(ms) \in Nat
    BY LenProperties DEF SpokenOnce
  <1>3. ms[1].role = "user" /\ Said(ms[1]) # <<>> /\ Said(ms[1])[1].text = t
    BY <1>1, SaidOfList, CallsOfUser
  <1>4. \A n \in DOMAIN ms : n = 1 \/ n \in 2 .. Len(ms)
    BY <1>2
  <1>5. spoken = {1}
    BY <1>2, <1>3, <1>4 DEF SpokenOnce
  <1>6. Max({1}) = 1
    BY DEF Max
  <1>7. LastUserText(ms) = Said(ms[1])[1].text
    BY <1>5, <1>6 DEF LastUserText
  <1> QED
    BY <1>1, <1>3, <1>7

(* A list that is longer by an answer or its results.                                   *)
LEMMA Extended ==
  ASSUME NEW ms \in Seq(ListItem), NEW cs \in Seq(Call), NEW m \in {Called(cs), Returned(cs)}
  PROVE  /\ Len(ms) \in Nat /\ Append(ms, m) \in Seq(ListItem)
         /\ Len(Append(ms, m)) = Len(ms) + 1 /\ Append(ms, m)[Len(ms) + 1] = m
         /\ \A i \in 1 .. Len(ms) : Append(ms, m)[i] = ms[i]
  <1>1. m \in ListItem
    BY DEF ListItem
  <1> QED
    BY <1>1, AppendProperties, LenProperties

LEMMA Longer ==
  ASSUME NEW ms, SpokenOnce(ms), NEW cs \in Seq(Call), NEW m \in {Called(cs), Returned(cs)}
  PROVE  /\ SpokenOnce(Append(ms, m)) /\ Append(ms, m)[1] = ms[1]
         /\ Len(Append(ms, m)) = Len(ms) + 1 /\ Append(ms, m)[Len(ms) + 1] = m
         /\ \A i \in 1 .. Len(ms) : Append(ms, m)[i] = ms[i]
  <1>1. m \in ListItem /\ Said(m) = <<>>
    BY SaidOfList DEF ListItem
  <1>2. ms \in Seq(ListItem) /\ Len(ms) \in Nat /\ Len(ms) >= 1
    BY LenProperties DEF SpokenOnce
  <1> DEFINE ns == Append(ms, m)
  <1>3. /\ ns \in Seq(ListItem) /\ Len(ns) = Len(ms) + 1 /\ ns[Len(ms) + 1] = m
        /\ \A i \in 1 .. Len(ms) : ns[i] = ms[i]
    BY <1>1, <1>2, AppendProperties
  <1> HIDE DEF ns
  <1>4. ns[1] = ms[1]
    BY <1>2, <1>3
  <1>5. ASSUME NEW i \in 2 .. Len(ns) PROVE Said(ns[i]) = <<>>
    <2>1. CASE i = Len(ms) + 1
      BY <1>1, <1>3, <2>1
    <2>2. CASE i # Len(ms) + 1
      <3>1. i \in 2 .. Len(ms) /\ i \in 1 .. Len(ms)
        BY <1>2, <1>3, <2>2
      <3> QED
        BY <1>3, <3>1 DEF SpokenOnce
    <2> QED
      BY <2>1, <2>2
  <1>6. SpokenOnce(ns)
    BY <1>2, <1>3, <1>4, <1>5 DEF SpokenOnce
  <1> QED
    BY <1>3, <1>4, <1>6 DEF ns

(* An answer with calls and the message with their results leave no call open, from     *)
(* wherever one looks.                                                                    *)
LEMMA Settles ==
  ASSUME NEW ms \in Seq(ListItem), Len(ms) >= 1, NEW from \in Nat \ {0}, Answered(ms, from),
         NEW cs \in Seq(Call), cs # <<>>
  PROVE  Answered(Append(Append(ms, Called(cs)), Returned(cs)), from)
  <1> DEFINE l == Len(ms)
             ns == Append(Append(ms, Called(cs)), Returned(cs))
  <1>1. l \in Nat /\ l >= 1
    BY LenProperties
  <1>2. /\ Len(ns) = l + 2 /\ ns[l + 1] = Called(cs) /\ ns[l + 2] = Returned(cs)
        /\ \A i \in 1 .. l : ns[i] = ms[i]
    <2> DEFINE ks == Append(ms, Called(cs))
    <2>1. /\ ks \in Seq(ListItem) /\ Len(ks) = l + 1 /\ ks[l + 1] = Called(cs)
          /\ \A i \in 1 .. l : ks[i] = ms[i]
      BY Extended
    <2> HIDE DEF ks
    <2>2. /\ Len(Append(ks, Returned(cs))) = l + 2 /\ Append(ks, Returned(cs))[l + 2] = Returned(cs)
          /\ \A i \in 1 .. l + 1 : Append(ks, Returned(cs))[i] = ks[i]
      <3>1. /\ Len(Append(ks, Returned(cs))) = Len(ks) + 1
            /\ Append(ks, Returned(cs))[Len(ks) + 1] = Returned(cs)
            /\ \A i \in 1 .. Len(ks) : Append(ks, Returned(cs))[i] = ks[i]
        BY <2>1, Extended
      <3>2. Len(ks) + 1 = l + 2
        BY <1>1, <2>1
      <3> QED
        BY <2>1, <3>1, <3>2
    <2> QED
      BY <1>1, <2>1, <2>2 DEF ks
  <1> HIDE DEF ns, l
  <1>3. /\ Calls(ns[l + 1]) = Ids(cs) /\ Results(ns[l + 1]) = <<>> /\ ns[l + 1].role = "assistant"
        /\ Calls(ns[l + 2]) = <<>> /\ Results(ns[l + 2]) = Ids(cs) /\ ns[l + 2].role = "user"
        /\ Ids(cs) # <<>>
    BY <1>2, CallsOfList
  <1>4. ASSUME NEW i \in from .. l
        PROVE  /\ Calls(ns[i]) # <<>> => i < Len(ns) /\ Results(ns[i + 1]) = Calls(ns[i])
               /\ Results(ns[i]) # <<>> => i > 1 /\ Results(ns[i]) = Calls(ns[i - 1])
               /\ ns[i].role = "assistant" <=> Results(ns[i]) = <<>> /\ i > 1
    <2>1. /\ Calls(ms[i]) # <<>> => i < l /\ Results(ms[i + 1]) = Calls(ms[i])
          /\ Results(ms[i]) # <<>> => i > 1 /\ Results(ms[i]) = Calls(ms[i - 1])
          /\ ms[i].role = "assistant" <=> Results(ms[i]) = <<>> /\ i > 1
      BY DEF Answered, l
    <2>2. /\ ns[i] = ms[i] /\ (i < l => ns[i + 1] = ms[i + 1]) /\ (i > 1 => ns[i - 1] = ms[i - 1])
          /\ (i < l => i < Len(ns))
      BY <1>1, <1>2
    <2> QED
      BY <2>1, <2>2
  <1>5. \A i \in from .. Len(ns) : i \in from .. l \/ i = l + 1 \/ i = l + 2
    BY <1>1, <1>2
  <1>6. /\ l + 1 < Len(ns) /\ l + 2 > 1 /\ l + 1 > 1 /\ (l + 1) + 1 = l + 2 /\ (l + 2) - 1 = l + 1
    BY <1>1, <1>2
  <1> QED
    BY <1>3, <1>4, <1>5, <1>6 DEF Answered, ns

Closed(ms) == SpokenOnce(ms) /\ Answered(ms, 1)

(* Calls are open between an answer and its results, and at no other time.              *)
Listed ==
  /\ SpokenOnce(msgs)
  /\ pc \in {"turn", "route", "check", "call", "fallback", "chunks", "record", "score", "push"} =>
       Closed(msgs)
  /\ pc \in {"policy", "tool", "results"} =>
       asst # <<>> /\ \E ms \in Seq(ListItem) : Closed(ms) /\ msgs = Append(ms, Called(asst))

LEMMA InitListed == LoopInit => Listed
  <1> SUFFICES ASSUME LoopInit PROVE Listed
    OBVIOUS
  <1>1. PICK t \in Prompts : msgs = <<User(t)>>
    BY DEF LoopInit
  <1>2. msgs \in Seq(ListItem) /\ Len(msgs) = 1 /\ msgs[1] = User(t)
    BY <1>1 DEF ListItem
  <1>3. SpokenOnce(msgs)
    BY <1>2 DEF SpokenOnce
  <1>4. Answered(msgs, 1)
    BY <1>2, CallsOfUser DEF Answered
  <1> QED
    BY <1>3, <1>4 DEF Listed, Closed, LoopInit

LEMMA NextListed == ASSUME Heard, Listed, LoopNext \/ Drop PROVE Listed'
  <1> USE DEF Listed, Fail, who, talk
  <1>1. CASE Drop
    BY <1>1 DEF Drop
  <1>2. CASE StartStep \/ PreCheck \/ Chat \/ OpenStream \/ TextDelta \/ CallDelta \/ ChunkFails
             \/ StreamEnds \/ Record \/ Score \/ Finish
    BY <1>2 DEF StartStep, PreCheck, Chat, OpenStream, TextDelta, CallDelta, ChunkFails, StreamEnds,
                Record, Score, Finish
  <1>3. CASE Route
    BY <1>3 DEF Route, PickProvider, RouteToRole
  <1>4. CASE Push
    <2>1. /\ asst \in Seq(Call) /\ Closed(msgs) /\ msgs \in Seq(ListItem)
          /\ msgs' = Append(msgs, Called(asst)) /\ asst' = asst
          /\ pc' = "finish" \/ (pc' = "policy" /\ asst # <<>>)
      BY <1>4 DEF Push, Heard, answer, SpokenOnce
    <2>2. SpokenOnce(msgs')
      BY <2>1, Longer DEF Closed
    <2> QED
      BY <2>1, <2>2
  <1>5. CASE Policy \/ ToolReturns
    BY <1>5 DEF Policy, ToolReturns, answer
  <1>6. CASE PushResults
    <2>1. PICK ms \in Seq(ListItem) : Closed(ms) /\ msgs = Append(ms, Called(asst))
      BY <1>6 DEF PushResults
    <2>2. /\ asst \in Seq(Call) /\ asst # <<>> /\ msgs' = Append(msgs, Returned(asst))
          /\ pc' \in {"finish", "turn"}
      BY <1>6 DEF PushResults, Heard
    <2>3. SpokenOnce(msgs')
      BY <2>2, Longer
    <2>4. Answered(msgs', 1)
      BY <2>1, <2>2, Settles DEF Closed, SpokenOnce
    <2> QED
      BY <2>2, <2>3, <2>4 DEF Closed
  <1> QED
    BY <1>1, <1>2, <1>3, <1>4, <1>5, <1>6, Performed

-----------------------------------------------------------------------------
(* What is recorded.                                                              *)

Spoken(ms) == {i \in DOMAIN ms : ms[i].role = "assistant"}

LEMMA OneMore ==
  ASSUME NEW ms, SpokenOnce(ms), NEW cs \in Seq(Call)
  PROVE  /\ Cardinality(Spoken(ms)) \in Nat
         /\ Cardinality(Spoken(Append(ms, Called(cs)))) = Cardinality(Spoken(ms)) + 1
         /\ Cardinality(Spoken(Append(ms, Returned(cs)))) = Cardinality(Spoken(ms))
  <1> DEFINE l == Len(ms)
             S == Spoken(ms)
  <1>1. l \in Nat /\ DOMAIN ms = 1 .. l /\ ms \in Seq(ListItem)
    BY LenProperties DEF SpokenOnce
  <1>2. IsFiniteSet(S) /\ Cardinality(S) \in Nat /\ l + 1 \notin S
    <2>1. IsFiniteSet(1 .. l) /\ S \subseteq 1 .. l
      BY <1>1, FS_Interval DEF Spoken
    <2> QED
      BY <1>1, <2>1, FS_Subset, FS_CardinalityType
  <1>3. ASSUME NEW m \in {Called(cs), Returned(cs)}
        PROVE  Spoken(Append(ms, m)) = S \cup {i \in {l + 1} : m.role = "assistant"}
    <2> DEFINE ns == Append(ms, m)
    <2>1. /\ ns \in Seq(ListItem) /\ Len(ns) = l + 1 /\ ns[l + 1] = m
          /\ \A i \in 1 .. l : ns[i] = ms[i]
      BY Longer DEF SpokenOnce
    <2>2. DOMAIN ns = 1 .. l + 1
      BY <2>1, LenProperties
    <2> HIDE DEF ns, l
    <2>3. \A i : i \in 1 .. l + 1 <=> i \in 1 .. l \/ i = l + 1
      BY <1>1
    <2>4. \A i : i \in Spoken(ns) <=> (i \in 1 .. l /\ ms[i].role = "assistant")
                                        \/ (i = l + 1 /\ m.role = "assistant")
      BY <2>1, <2>2, <2>3 DEF Spoken
    <2>5. \A i : i \in S <=> i \in 1 .. l /\ ms[i].role = "assistant"
      BY <1>1 DEF Spoken
    <2> QED
      BY <2>4, <2>5 DEF ns
  <1>4. Called(cs).role = "assistant" /\ Returned(cs).role # "assistant"
    BY CallsOfList
  <1> HIDE DEF S, l
  <1>5. Spoken(Append(ms, Called(cs))) = S \cup {l + 1} /\ Spoken(Append(ms, Returned(cs))) = S
    BY <1>3, <1>4
  <1>6. Cardinality(S \cup {l + 1}) = Cardinality(S) + 1
    BY <1>2, FS_AddElement
  <1> QED
    BY <1>2, <1>5, <1>6 DEF S

(* An answer is recorded before it is pushed.                                           *)
Recorded ==
  /\ booked \in Nat /\ Answers \in Nat
  /\ pc \notin {"score", "push", "failed", "dropped"} => booked = Answers
  /\ pc \in {"score", "push"} => booked = Answers + 1
  /\ pc \in {"failed", "dropped"} => booked - Answers \in 0 .. 1

LEMMA InitRecorded == LoopInit => Recorded
  <1> SUFFICES ASSUME LoopInit PROVE Recorded
    OBVIOUS
  <1>1. PICK t \in Prompts : msgs = <<User(t)>>
    BY DEF LoopInit
  <1>2. \A i \in DOMAIN msgs : msgs[i] = User(t)
    BY <1>1
  <1>3. {i \in DOMAIN msgs : msgs[i].role = "assistant"} = {}
    BY <1>2, CallsOfUser
  <1>4. Answers = 0
    BY <1>3, FS_EmptySet DEF Answers
  <1> QED
    BY <1>4 DEF Recorded, LoopInit

LEMMA NextRecorded == ASSUME Heard, Listed, Recorded, LoopNext \/ Drop PROVE Recorded'
  <1> USE DEF Recorded, Fail, who, talk, money
  <1>0. msgs' = msgs => Answers' = Answers
    BY DEF Answers
  <1>a. Answers = Cardinality(Spoken(msgs)) /\ Answers' = Cardinality(Spoken(msgs'))
    BY DEF Answers, Spoken
  <1>1. CASE Drop
    BY <1>0, <1>1 DEF Drop, Over
  <1> SUFFICES ASSUME kind # "rollout", LoopNext PROVE Recorded'
    BY <1>1, Performed
  <1>2. CASE StartStep \/ PreCheck \/ OpenStream \/ Finish
    BY <1>0, <1>2 DEF StartStep, PreCheck, OpenStream, Finish
  <1>3. CASE Chat
    BY <1>0, <1>3 DEF Chat
  <1>9. CASE StreamEnds \/ TextDelta \/ CallDelta \/ ChunkFails
    <2>1. /\ pc = "chunks" /\ pc' \in {"chunks", "record", "failed"} /\ UNCHANGED <<msgs, booked>>
      BY <1>9 DEF StreamEnds, TextDelta, CallDelta, ChunkFails
    <2> QED
      BY <1>0, <2>1
  <1>4. CASE Route
    BY <1>0, <1>4 DEF Route, PickProvider, RouteToRole
  <1>5. CASE Record \/ Score
    BY <1>0, <1>5 DEF Record, Score
  <1>6. CASE Policy \/ ToolReturns
    BY <1>0, <1>6 DEF Policy, ToolReturns
  <1>7. CASE Push
    <2>1. msgs' = Append(msgs, Called(asst)) /\ asst \in Seq(Call) /\ SpokenOnce(msgs)
      BY <1>7 DEF Push, Heard, Listed
    <2>2. Answers' = Answers + 1
      BY <1>a, <2>1, OneMore
    <2> QED
      BY <1>7, <2>2 DEF Push
  <1>8. CASE PushResults
    <2>1. msgs' = Append(msgs, Returned(asst)) /\ asst \in Seq(Call) /\ SpokenOnce(msgs)
      BY <1>8 DEF PushResults, Heard, Listed
    <2>2. Answers' = Answers
      BY <1>a, <2>1, OneMore
    <2> QED
      BY <1>8, <2>2 DEF PushResults
  <1> QED
    BY <1>2, <1>3, <1>4, <1>5, <1>6, <1>7, <1>8, <1>9, Performed

-----------------------------------------------------------------------------
(* The provider of a step.                                                        *)

LEMMA Texts ==
  /\ \A t \in Prompts : t \in DOMAIN Logits /\ Logits[t] \in Seq(Int)
  /\ NoNumber \in Int
  BY RouterAssumption, Zenon DEF RouterAssumption

(* A built-in router names one of the candidates, if there are any.                     *)
LEMMA RoutesIn ==
  ASSUME NEW ms, SpokenOnce(ms), NEW cs, NEW n \in Nat \ {0}, DOMAIN cs = 1 .. n, Len(cs) = n
  PROVE  /\ \E k \in 1 .. n : RegexRoute(ms, cs) = cs[k]
         /\ \E k \in 1 .. n : OnnxRoute(ms, cs) = cs[k]
  <1>1. ASSUME NEW a \in Nat \ {0} PROVE Min({a, n}) \in 1 .. n
    <2>1. Min({a, n}) \in {a, n}
      BY LeastOf
    <2>2. Min({a, n}) <= n
      <3>1. \E x \in {a, n} : \A y \in {a, n} : x <= y
        OBVIOUS
      <3> QED
        BY <3>1 DEF Min
    <2> QED
      BY <2>1, <2>2
  <1>2. \E k \in 1 .. n : RegexRoute(ms, cs) = cs[k]
    <2>1. FirstRule(Featurise(LastUserText(ms))) \in Nat \ {0}
      BY DEF FirstRule
    <2> QED
      BY <1>1, <2>1 DEF RegexRoute
  <1>3. \E k \in 1 .. n : OnnxRoute(ms, cs) = cs[k]
    <2> DEFINE logits == Logits[LastUserText(ms)]
               l == Len(logits)
               known == {i \in 1 .. Min({Len(cs), l}) : logits[i] # NoNumber}
               greatest == {i \in known : \A j \in known : logits[i] >= logits[j]}
    <2>1. l \in Nat
      <3>1. logits \in Seq(Int)
        BY LastText, Texts
      <3> QED
        BY <3>1, LenProperties
    <2>2. 1 .. Min({n, l}) \subseteq 1 .. n
      <3>1. \E x \in {n, l} : \A y \in {n, l} : x <= y
        BY <2>1
      <3>2. Min({n, l}) \in {n, l} /\ Min({n, l}) <= n
        BY <3>1 DEF Min
      <3> QED
        BY <2>1, <3>2
    <2>3. greatest \in SUBSET (1 .. n)
      BY <2>2
    <2>4. OnnxRoute(ms, cs) = cs[IF greatest = {} THEN 1 ELSE Min(greatest)]
      BY DEF OnnxRoute
    <2> HIDE DEF greatest
    <2>5. greatest # {} => Min(greatest) \in greatest
      BY <2>3, LeastOf
    <2>6. (IF greatest = {} THEN 1 ELSE Min(greatest)) \in 1 .. n
      <3>1. greatest # {} => Min(greatest) \in 1 .. n
        BY <2>3, <2>5
      <3>2. 1 \in 1 .. n
        OBVIOUS
      <3> QED
        BY <3>1, <3>2
    <2> QED
      BY <2>4, <2>6
  <1> QED
    BY <1>2, <1>3

(* What a built-in router makes the provider of every step.                             *)
BuiltIn == {"regex", "onnx"}
TheRoute(ms, cs) == IF router = "regex" THEN RegexRoute(ms, cs) ELSE OnnxRoute(ms, cs)
TheProvider(ms) ==
  IF kind = "trinity"
  THEN LET r == TheRoute(ms, Candidates).role IN [id |-> RoleProvider[r], role |-> r]
  ELSE [id |-> IF Len(Pool) = 1 THEN Pool[1] ELSE TheRoute(ms, Pool), role |-> None]

Routed ==
  /\ provider \in [id : Providers \cup {None}, role : Roles \cup {None}]
  /\ router \in BuiltIn /\ pc \notin Over /\ (step > 0 \/ pc \notin {"turn", "route"}) =>
       provider = TheProvider(msgs)

LEMMA InitRouted == LoopInit => Routed
  BY DEF LoopInit, Routed

LEMMA NamedBuiltIn ==
  ASSUME router \in BuiltIn, NEW ms, NEW cs
  PROVE  Named(router, ms, cs) = {TheRoute(ms, cs)}
  BY DEF Named, TheRoute, BuiltIn

(* Wherever a step is routed the provider is one there is, and the one of the router.   *)
LEMMA RouteRight ==
  ASSUME Turned, Listed, Routed, Route
  PROVE  /\ provider' \in [id : Providers \cup {None}, role : Roles \cup {None}]
         /\ router \in BuiltIn /\ pc' = "check" => provider' = TheProvider(msgs)
  <1>1. SpokenOnce(msgs)
    BY DEF Listed
  <1>2. /\ Pool \in Seq(Providers) /\ Len(Pool) \in Nat \ {0} /\ DOMAIN Pool = 1 .. Len(Pool)
        /\ \A k \in 1 .. Len(Pool) : Pool[k] \in Providers
    BY LoopAssumption, LenProperties, EmptySeq, ElementOfSeq DEF LoopAssumption, Providers
  <1>3. /\ RoleProvider \in [Roles -> Providers] /\ Len(RoleOrder) \in Nat
        /\ DOMAIN RoleOrder = 1 .. Len(RoleOrder)
        /\ \A k \in 1 .. Len(RoleOrder) : RoleOrder[k] \in Roles
    BY LoopAssumption, LenProperties, ElementOfSeq DEF LoopAssumption, Providers, Roles
  <1>4. CASE UNCHANGED provider /\ pc' # "check"
    BY <1>4 DEF Routed
  <1>5. ASSUME kind = "single", PickProvider, pc' = "check"
        PROVE  /\ provider' \in [id : Providers \cup {None}, role : Roles \cup {None}]
               /\ router \in BuiltIn => provider' = TheProvider(msgs)
    <2>1. CASE router = "none" \/ Len(Pool) = 1
      BY <1>2, <1>5, <2>1 DEF PickProvider, TheProvider, BuiltIn
    <2>2. CASE ~(router = "none" \/ Len(Pool) = 1)
      <3>1. PICK p \in Named(router, msgs, Pool) : provider' = [id |-> p, role |-> None]
        BY <1>5, <2>2 DEF PickProvider, Fail
      <3>2. CASE router \in BuiltIn
        <4>1. p = TheRoute(msgs, Pool)
          BY <3>1, <3>2, NamedBuiltIn
        <4>2. p \in Providers
          BY <1>1, <1>2, <4>1, RoutesIn DEF TheRoute
        <4> QED
          BY <1>5, <2>2, <3>1, <4>1, <4>2 DEF TheProvider
      <3>3. CASE router = "foreign"
        <4>1. p \in Providers
          BY <3>1, <3>3 DEF Named, Providers
        <4> QED
          BY <3>1, <3>3, <4>1 DEF BuiltIn
      <3>4. router \in BuiltIn \/ router = "foreign"
        BY <2>2, LoopAssumption DEF Turned, LoopAssumption, BuiltIn
      <3> QED
        BY <3>2, <3>3, <3>4
    <2> QED
      BY <2>1, <2>2
  <1>6. ASSUME kind = "trinity", RouteToRole, pc' = "check"
        PROVE  /\ provider' \in [id : Providers \cup {None}, role : Roles \cup {None}]
               /\ router \in BuiltIn => provider' = TheProvider(msgs)
    <2>1. PICK d \in Decisions : \E r \in PickRole(d) :
            provider' = [id |-> RoleProvider[r], role |-> r]
      BY <1>6 DEF RouteToRole, Fail
    <2>2. PICK r \in PickRole(d) : provider' = [id |-> RoleProvider[r], role |-> r]
      BY <2>1
    <2>3. r \in Roles
      BY DEF PickRole
    <2>4. ASSUME router \in BuiltIn PROVE d = TheRoute(msgs, Candidates) /\ r = d.role
      <3>1. d = TheRoute(msgs, Candidates)
        BY <2>4, NamedBuiltIn DEF Decisions, BuiltIn
      <3>2. Len(RoleOrder) # 0
        BY <1>3, <2>3 DEF Roles, Range
      <3>3. /\ DOMAIN Candidates = 1 .. Len(RoleOrder) /\ Len(Candidates) = Len(RoleOrder)
            /\ \A k \in 1 .. Len(RoleOrder) : Candidates[k].role = RoleOrder[k]
        BY <1>3 DEF Candidates
      <3>4. \E k \in 1 .. Len(RoleOrder) : d = Candidates[k]
        <4>1. PICK n \in Nat \ {0} : n = Len(RoleOrder)
          BY <1>3, <3>2
        <4>2. PICK cs : cs = Candidates
          OBVIOUS
        <4>3. DOMAIN cs = 1 .. n /\ Len(cs) = n
          BY <3>3, <4>1, <4>2
        <4>4. (\E k \in 1 .. n : RegexRoute(msgs, cs) = cs[k]) /\ \E k \in 1 .. n : OnnxRoute(msgs, cs) = cs[k]
          BY <1>1, <4>3, RoutesIn
        <4>5. d = TheRoute(msgs, cs)
          BY <3>1, <4>2
        <4>6. \E k \in 1 .. n : d = cs[k]
          BY <4>4, <4>5 DEF TheRoute
        <4> QED
          BY <4>1, <4>2, <4>6
      <3>5. d.role \in Roles
        BY <1>3, <3>3, <3>4
      <3> QED
        BY <3>1, <3>5 DEF PickRole
    <2> QED
      BY <1>3, <1>6, <2>2, <2>3, <2>4 DEF TheProvider
  <1>7. pc' = "check" => (kind = "single" /\ PickProvider) \/ (kind = "trinity" /\ RouteToRole)
    BY DEF Route, Fail
  <1>8. pc' # "check" => UNCHANGED provider
    BY DEF Route, PickProvider, RouteToRole, Fail
  <1> QED
    BY <1>4, <1>5, <1>6, <1>7, <1>8

(* The list grows by messages the routers do not look at.                               *)
LEMMA SameRoute ==
  ASSUME SpokenOnce(msgs), SpokenOnce(msgs'), msgs'[1] = msgs[1], UNCHANGED <<kind, router>>
  PROVE  TheProvider(msgs)' = TheProvider(msgs)
  <1>1. LastUserText(msgs') = LastUserText(msgs)
    <2>1. PICK t \in Prompts : msgs[1] = User(t) /\ LastUserText(msgs) = t
      BY LastText
    <2>2. PICK u \in Prompts : msgs'[1] = User(u) /\ LastUserText(msgs') = u
      BY LastText
    <2>3. t = u
      <3>1. User(t) = User(u)
        BY <2>1, <2>2
      <3>2. Said(User(t))[1].text = t /\ Said(User(u))[1].text = u
        BY SaidOfList
      <3> QED
        BY <3>1, <3>2
    <2> QED
      BY <2>1, <2>2, <2>3
  <1>2. ASSUME NEW cs
        PROVE  RegexRoute(msgs', cs) = RegexRoute(msgs, cs) /\ OnnxRoute(msgs', cs) = OnnxRoute(msgs, cs)
    BY <1>1, Zenon DEF RegexRoute, OnnxRoute
  <1> QED
    BY <1>2 DEF TheProvider, TheRoute, Candidates

LEMMA NextRouted ==
  ASSUME Heard, Turned, Listed, Routed, LoopNext \/ Drop, Listed' PROVE Routed'
  <1> USE DEF Fail, who, talk, Over
  <1>0. UNCHANGED <<kind, router>>
    BY Performed
    DEF Drop, StartStep, Route, PreCheck, Chat, OpenStream, TextDelta, CallDelta, ChunkFails,
        StreamEnds, Record, Score, Push, Policy, ToolReturns, PushResults, Finish
  <1>1. msgs' = msgs => TheProvider(msgs)' = TheProvider(msgs)
    BY <1>0 DEF TheProvider, TheRoute, Candidates
  <1>2. CASE Drop
    BY <1>2 DEF Drop, Routed
  <1> SUFFICES ASSUME kind # "rollout", LoopNext PROVE Routed'
    BY <1>2, Performed
  <1>3. CASE StartStep
    <2>1. UNCHANGED <<provider, step, msgs, router>> /\ pc = "turn" /\ pc' = "route"
      BY <1>3 DEF StartStep
    <2> QED
      BY <1>1, <2>1 DEF Routed
  <1>4. CASE Route
    <2>1. UNCHANGED <<step, msgs>> /\ pc' \in {"check", "failed"}
      BY <1>4 DEF Route, PickProvider, RouteToRole
    <2> QED
      BY <1>0, <1>1, <1>4, <2>1, RouteRight DEF Routed
  <1>5. ASSUME UNCHANGED <<provider, step, msgs>>, pc \notin {"turn", "route"} \cup Over
        PROVE  Routed'
    BY <1>0, <1>1, <1>5 DEF Routed
  <1>6. CASE PreCheck \/ Chat \/ OpenStream \/ TextDelta \/ CallDelta \/ ChunkFails \/ StreamEnds
             \/ Record \/ Score \/ Policy \/ ToolReturns \/ Finish
    <2>1. UNCHANGED <<provider, step, msgs>> /\ pc \notin {"turn", "route"} \cup Over
      BY <1>6 DEF PreCheck, Chat, OpenStream, TextDelta, CallDelta, ChunkFails, StreamEnds, Record,
                  Score, Policy, ToolReturns, Finish
    <2> QED
      BY <1>5, <2>1
  <1>7. CASE Push \/ PushResults
    <2>1. pc \notin {"turn", "route"} \cup Over /\ UNCHANGED provider
      BY <1>7 DEF Push, PushResults
    <2>2. SpokenOnce(msgs) /\ SpokenOnce(msgs')
      BY DEF Listed
    <2>3. asst \in Seq(Call)
      BY DEF Heard
    <2>4. ASSUME msgs' = Append(msgs, Called(asst)) PROVE msgs'[1] = msgs[1]
      BY <2>2, <2>3, <2>4, Longer
    <2>5. ASSUME msgs' = Append(msgs, Returned(asst)) PROVE msgs'[1] = msgs[1]
      BY <2>2, <2>3, <2>5, Longer
    <2>6. msgs' = Append(msgs, Called(asst)) \/ msgs' = Append(msgs, Returned(asst))
      BY <1>7 DEF Push, PushResults
    <2>7. msgs'[1] = msgs[1]
      BY <2>4, <2>5, <2>6
    <2>8. TheProvider(msgs)' = TheProvider(msgs)
      BY <1>0, <2>2, <2>7, SameRoute
    <2> QED
      BY <1>0, <2>1, <2>8 DEF Routed
  <1> QED
    BY <1>3, <1>4, <1>6, <1>7, Performed

-----------------------------------------------------------------------------
(* The event stream, step by step.                                                *)

LEMMA InitStream == LoopInit => Stream!StreamInit
  BY DEF LoopInit, Stream!StreamInit

LEMMA NextStream ==
  ASSUME Turned, Invoked, Heard, LoopNext \/ Drop
  PROVE  [Stream!StreamNext]_(Stream!streamVars)
  <1> USE DEF Fail, Over, view, who
  <1> DEFINE Ph == IF pc = "done" THEN "final" ELSE IF pc = "failed" THEN "error"
                   ELSE IF pc = "dropped" THEN "dropped" ELSE "open"
  <1>1. ASSUME Ph' = Ph, UNCHANGED <<announced, pending>>
        PROVE  UNCHANGED Stream!streamVars
    BY <1>1 DEF Stream!streamVars
  <1>2. ASSUME Ph = "open", Ph' = "error", UNCHANGED <<announced, pending>>
        PROVE  Stream!StreamNext
    BY <1>2 DEF Stream!StreamNext, Stream!Fails
  <1>3. CASE Drop
    <2>1. Ph = "open" /\ Ph' = "dropped" /\ UNCHANGED <<announced, pending>>
      BY <1>3 DEF Drop
    <2> QED
      BY <2>1 DEF Stream!StreamNext, Stream!Dropped
  <1> SUFFICES ASSUME kind # "rollout", LoopNext PROVE [Stream!StreamNext]_(Stream!streamVars)
    BY <1>3, Performed
  <1>4. CASE StartStep
    <2>1. Ph = "open" /\ Ph' = "open" /\ pending' = pending /\ pending = None
      BY <1>4 DEF StartStep, Invoked
    <2>2. CASE mode = "stream"
      <3>1. announced' = announced + 1 /\ announced + 1 < MaxSteps
        BY <1>4, <2>2, LoopConstants DEF StartStep, Turned
      <3> QED
        BY <2>1, <3>1 DEF Stream!StreamNext, Stream!StepStart
    <2>3. CASE mode # "stream"
      BY <1>1, <1>4, <2>1, <2>3 DEF StartStep
    <2> QED
      BY <2>2, <2>3
  <1>5. CASE Route \/ PreCheck \/ Chat \/ OpenStream \/ TextDelta \/ CallDelta \/ ChunkFails
             \/ StreamEnds \/ Record \/ Score \/ Push \/ PushResults
    <2>1. /\ Ph = "open" /\ Ph' \in {"open", "error"} /\ UNCHANGED <<announced, pending>>
      BY <1>5 DEF Route, PickProvider, RouteToRole, PreCheck, Chat, OpenStream, TextDelta, CallDelta,
                  ChunkFails, StreamEnds, Record, Score, Push, PushResults
    <2> QED
      BY <1>1, <1>2, <2>1
  <1>6. CASE Policy
    <2>1. Ph = "open" /\ pending = None /\ announced' = announced
      BY <1>6 DEF Policy, Invoked
    <2>2. CASE Ph' = "error" /\ UNCHANGED pending
      BY <1>2, <2>1, <2>2
    <2>3. CASE pc' = "tool" /\ mode = "stream"
      <3>1. Ph' = "open" /\ pending' = asst[ti + 1].id
        BY <1>6, <2>3 DEF Policy
      <3>2. asst \in Seq(Call) /\ Len(asst) \in Nat
        BY LenProperties DEF Heard
      <3>3. ti + 1 \in 1 .. Len(asst)
        BY <1>6, <3>2 DEF Policy, Invoked
      <3>4. asst[ti + 1] \in Call
        BY <3>2, <3>3, ElementOfSeq
      <3>5. asst[ti + 1].id \in Range(CallIds)
        BY <3>4 DEF Call
      <3>6. announced >= 0
        BY <1>6, <2>3 DEF Policy, Turned, Paused
      <3> QED
        BY <2>1, <3>1, <3>5, <3>6 DEF Stream!StreamNext, Stream!ToolCallStart
    <2>4. CASE pc' = "tool" /\ mode # "stream"
      BY <1>1, <1>6, <2>1, <2>4 DEF Policy
    <2> QED
      BY <1>6, <2>2, <2>3, <2>4 DEF Policy
  <1>7. CASE ToolReturns
    <2>1. Ph = "open" /\ Ph' = "open" /\ announced' = announced /\ pending' = None
      BY <1>7 DEF ToolReturns
    <2>2. CASE pending = None
      BY <1>1, <2>1, <2>2
    <2>3. CASE pending # None
      BY <2>1, <2>3 DEF Stream!StreamNext, Stream!ToolCallResult
    <2> QED
      BY <2>2, <2>3
  <1>8. CASE Finish
    <2>1. Ph = "open" /\ Ph' = "final" /\ UNCHANGED <<announced, pending>> /\ pending = None
      BY <1>8 DEF Finish, Invoked
    <2> QED
      BY <2>1 DEF Stream!StreamNext, Stream!Final
  <1> QED
    BY <1>4, <1>5, <1>6, <1>7, <1>8, Performed

-----------------------------------------------------------------------------
(* The theorems.                                                                  *)

LoopInv == Heard /\ Turned /\ Invoked /\ Paid /\ Listed /\ Recorded /\ Routed

LEMMA InitInv == LoopInit => LoopInv
  BY InitHeard, InitRest, InitListed, InitRecorded, InitRouted DEF LoopInv

LEMMA NextInv == ASSUME LoopInv, [LoopNext \/ Drop]_loopVars PROVE LoopInv'
  <1>1. CASE LoopNext \/ Drop
    <2>1. Heard' /\ Turned' /\ Paid'
      BY <1>1, NextHeard, NextTurned, NextPaid DEF LoopInv
    <2>2. Invoked' /\ Listed' /\ Recorded'
      BY <1>1, <2>1, NextInvoked, NextListed, NextRecorded DEF LoopInv
    <2>3. Routed'
      BY <1>1, <2>2, NextRouted DEF LoopInv
    <2> QED
      BY <2>1, <2>2, <2>3 DEF LoopInv
  <1>2. CASE UNCHANGED loopVars
    <2> USE <1>2 DEF loopVars
    <2>1. Heard' = Heard
      BY DEF Heard
    <2>2. Turned' = Turned
      BY DEF Turned
    <2>3. Invoked' = Invoked
      BY DEF Invoked
    <2>4. Paid' = Paid
      BY DEF Paid
    <2>5. Listed' = Listed
      BY DEF Listed
    <2>6. Recorded' = Recorded
      BY DEF Recorded, Answers
    <2>7. Routed' = Routed
      BY DEF Routed, TheProvider, TheRoute, Candidates
    <2> QED
      BY <2>1, <2>2, <2>3, <2>4, <2>5, <2>6, <2>7 DEF LoopInv
  <1> QED
    BY <1>1, <1>2

LEMMA Lasting == LoopSpec => []LoopInv
  <1>1. LoopInit => LoopInv
    BY InitInv
  <1>2. LoopInv /\ [LoopNext \/ Drop]_loopVars => LoopInv'
    BY NextInv
  <1> QED
    BY <1>1, <1>2, PTL DEF LoopSpec

(* Whenever a provider is called, each assistant message before is followed by one   *)
(* message with the results of its calls in their order: the loop neither sends an     *)
(* open call nor a result nobody asked for, at any length of the run (single.rs:284-350). *)
THEOREM AnsweredBeforeSending == LoopSpec => []AnsweredBeforeSent
  <1>1. LoopInv => AnsweredBeforeSent
    BY DEF LoopInv, Listed, Closed, AnsweredBeforeSent, Sending
  <1> QED
    BY <1>1, Lasting, PTL

LEMMA RolesOfList == ASSUME NEW m \in ListItem PROVE m.role \in {"user", "assistant"}
  BY CallsOfList, CallsOfUser DEF ListItem

LEMMA TypesRight == ASSUME LoopInv PROVE LoopTypeOK
  <1>1. \A i \in DOMAIN msgs : msgs[i].role \in {"user", "assistant"}
    <2>1. msgs \in Seq(ListItem)
      BY DEF LoopInv, Listed, SpokenOnce
    <2>2. \A i \in DOMAIN msgs : msgs[i] \in ListItem
      BY <2>1, ElementOfSeq, LenProperties
    <2> QED
      BY <2>2, RolesOfList
  <1>2. provider \in [id : Providers \union {None}, role : Roles \union {None}]
    BY DEF LoopInv, Routed
  <1>3. text \in 0 .. MaxText /\ shown \in 0 .. MaxText
    BY DEF LoopInv, Heard
  <1>4. ti \in 0 .. Len(asst) /\ pending \in Range(CallIds) \union {None}
    BY DEF LoopInv, Invoked
  <1> QED
    BY <1>1, <1>2, <1>3, <1>4 DEF LoopInv, Turned, LoopTypeOK

(* What a vendor meant is what the loop takes over: calls assembled from fragments in  *)
(* any interleaving, nothing invoked that was not begun, all text shown before a tool    *)
(* runs, each answer booked once and before its tools (single.rs:261-300, 495-685).      *)
THEOREM AnswersTakenOver == LoopSpec => []AnswerTakenOver
  <1> SUFFICES ASSUME LoopInv PROVE AnswerTakenOver
    BY Lasting, PTL
  <1>1. AssemblyExact
    BY DEF LoopInv, Heard, AssemblyExact, After
  <1>2. NothingInvented
    <2> SUFFICES ASSUME pc \in {"policy", "tool"} PROVE NothingInvented
      BY DEF NothingInvented
    <2>1. Meant(asst, reply) /\ (~cut => asst = Whole(reply)) /\ reply \in Replies
      BY DEF LoopInv, Heard, After
    <2> QED
      BY <2>1, WholeMeant DEF NothingInvented, Meant
  <1>3. ShownIsSaid
    BY DEF LoopInv, Heard, ShownIsSaid, After
  <1>4. BookedOnce
    BY DEF LoopInv, Recorded, BookedOnce
  <1>5. UnrecordedBounded
    BY DEF LoopInv, Paid, UnrecordedBounded
  <1> QED
    BY <1>1, <1>2, <1>3, <1>4, <1>5, TypesRight DEF AnswerTakenOver

(* With a built-in router a run keeps its first provider, and Trinity its first role:  *)
(* the routers read the last words of the user, and no message the loop appends has any *)
(* (features.rs:119, trinity.rs:436).                                                     *)
THEOREM RoutesStick == LoopSpec => RouteSticks
  <1> DEFINE Stays == pc = "route" /\ pc' = "check" /\ step > 0 /\ router \in {"regex", "onnx"}
                        => provider' = provider
  <1>1. ASSUME LoopInv, LoopNext \/ Drop PROVE Stays
    <2> SUFFICES ASSUME pc = "route", pc' = "check", step > 0, router \in {"regex", "onnx"}
                 PROVE  provider' = provider
      OBVIOUS
    <2>1. Route
      BY <1>1, Performed
      DEF Drop, Fail, StartStep, PreCheck, Chat, OpenStream, TextDelta, CallDelta, ChunkFails,
          StreamEnds, Record, Score, Push, Policy, ToolReturns, PushResults, Finish
    <2>2. provider' = TheProvider(msgs)
      BY <1>1, <2>1, RouteRight DEF LoopInv, BuiltIn
    <2>3. provider = TheProvider(msgs)
      BY <1>1 DEF LoopInv, Routed, BuiltIn, Over
    <2> QED
      BY <2>2, <2>3
  <1>2. LoopInv /\ [LoopNext \/ Drop]_loopVars => [Stays]_loopVars
    BY <1>1
  <1> QED
    BY <1>2, Lasting, PTL DEF LoopSpec, RouteSticks

(* Every run shows its consumer a stream of OrchEvents as types.rs promises it: steps in *)
(* order below the cap, a result for each call before the next one, one end and nothing   *)
(* after it.                                                                              *)
THEOREM StreamsRight == LoopSpec => ImplementsStream
  <1>1. LoopInv /\ [LoopNext \/ Drop]_loopVars => [Stream!StreamNext]_(Stream!streamVars)
    <2>1. ASSUME LoopInv, LoopNext \/ Drop PROVE [Stream!StreamNext]_(Stream!streamVars)
      BY <2>1, NextStream DEF LoopInv
    <2>2. ASSUME UNCHANGED loopVars PROVE UNCHANGED Stream!streamVars
      BY <2>2 DEF loopVars, Stream!streamVars
    <2> QED
      BY <2>1, <2>2
  <1> QED
    BY <1>1, InitStream, Lasting, PTL DEF LoopSpec, ImplementsStream, Stream!StreamSpec

-----------------------------------------------------------------------------
(* The search of AbMcts: what each of its steps does.                             *)

LoopStep == StartStep \/ Chat \/ OpenStream \/ TextDelta \/ CallDelta \/ ChunkFails \/ StreamEnds
              \/ Push \/ Policy \/ ToolReturns \/ PushResults
Roll ==
  /\ at = "rollout" /\ LoopStep
  /\ at' = IF pc' = "failed" THEN "rolled" ELSE at
  /\ sent' = sent \/ (Room /\ sent' = Append(sent, "text"))
  /\ UNCHANGED <<iteration, nodes, path, best, bestScore, seen>>

LEMMA Searched ==
  ASSUME SearchNext
  PROVE  BeginIteration \/ Descend \/ Expand \/ Roll \/ SendPartial \/ Yield \/ Rolled \/ Verify \/ Choose
  <1>1. CASE RolloutStatic
    BY <1>1 DEF RolloutStatic, Rolls, Quiet, Roll, LoopStep, ToolRound
  <1>2. CASE RolloutStreaming
    <2>1. CASE Rolls(Quiet /\ (StartStep \/ OpenStream \/ CallDelta \/ ChunkFails \/ StreamEnds \/ ToolRound))
      BY <2>1 DEF Rolls, Quiet, Roll, LoopStep, ToolRound
    <2>2. CASE SendDelta
      BY <2>2 DEF SendDelta, Rolls, Put, Roll, LoopStep
    <2>3. CASE SendFallback
      BY <2>3 DEF SendFallback, Rolls, Put, Roll, LoopStep
    <2> QED
      BY <1>2, <2>1, <2>2, <2>3 DEF RolloutStreaming
  <1> QED
    BY <1>1, <1>2 DEF SearchNext, RunSearch, StreamSearch, Search

(* A step of the loop a rollout takes.                                            *)
LEMMA StepHeard == ASSUME Heard, LoopStep PROVE Heard'
  <1> USE DEF Before, After, Fail, who
  <1>1. CASE ChunkFails
    BY <1>1, SameHeard DEF ChunkFails
  <1>2. CASE Push \/ Policy \/ ToolReturns \/ PushResults
    BY <1>2, SameHeard DEF Push, Policy, ToolReturns, PushResults
  <1> QED
    BY <1>1, <1>2, StartHeard, ChatHeard, OpenHeard, TextHeard, CallHeard, EndsHeard DEF LoopStep

-----------------------------------------------------------------------------
(* Where a search and its rollout are.                                            *)

Rolling == {"turn", "call", "fallback", "chunks", "push", "policy", "tool", "results"}
Iterating == {"select", "rollout", "rolled", "verify"}

Searching ==
  /\ kind = "rollout" /\ kind \in Kinds /\ mode \in {"run", "stream"} /\ router \in RouterKinds
  /\ at \in {"begin", "select", "rollout", "rolled", "verify", "choose", "done", "failed"}
  /\ at \in {"begin", "select"} => pc \in {"turn", "finish"}
  /\ at = "rollout" => pc \in Rolling \cup {"finish"}
  /\ at = "rolled" => pc = "failed"
  /\ at \in {"verify", "choose"} => pc = "finish"
  /\ at \in Over => pc = at

(* An iteration is announced before it runs, and its rollout shows no tool calls.   *)
Iterated ==
  /\ iteration \in 0 .. MaxIterations /\ (at \in {"begin"} \cup Iterating => iteration < MaxIterations)
  /\ announced \in Int /\ announced >= -1 /\ pending = None
  /\ mode = "run" => announced = -1
  /\ mode = "stream" => /\ at = "begin" => announced = iteration - 1
                        /\ at \in Iterating => announced = iteration

(* The steps and the calls of a rollout, and the events in its channel.             *)
Event == {"text", "score"}
Fits(q, n) == q \in Seq(Event) /\ n \in Nat /\ n <= Len(q) /\ Len(q) - n <= EventBuffer
Metered ==
  /\ step \in 0 .. MaxSteps /\ (at = "rollout" /\ pc \notin {"turn", "finish"} => step < MaxSteps)
  /\ ti \in 0 .. Len(asst) /\ (pc \in {"policy", "tool"} => ti < Len(asst)) /\ (pc = "push" => ti = 0)
  /\ Fits(sent, seen)
  /\ at \notin {"rollout", "rolled"} => seen = Len(sent)

LEMMA SearchConstants ==
  /\ MaxIterations \in Nat \ {0} /\ BranchingFactor \in Nat \ {0} /\ EventBuffer \in Nat \ {0}
  /\ One \in Nat \ {0} /\ NaN < -1 /\ \A r \in Raw : r \in Int \cup {NaN}
  BY SearchAssumption DEF SearchAssumption

LEMMA InitSearching == Init => Searching /\ Iterated /\ Metered /\ Heard
  <1> SUFFICES ASSUME Init PROVE Searching /\ Iterated /\ Metered /\ Heard
    OBVIOUS
  <1>1. Heard
    BY InitHeard DEF Init
  <1>2. Searching /\ Iterated
    BY SearchConstants DEF Init, LoopInit, Searching, Iterated, Iterating, Over
  <1>3. Metered
    BY SearchConstants, LoopConstants DEF Init, LoopInit, Metered, Fits
  <1> QED
    BY <1>1, <1>2, <1>3

LEMMA NextSearching == ASSUME Searching, SearchNext PROVE Searching'
  <1> USE DEF Searching, Rolling, Over, Fail, who
  <1>1. CASE BeginIteration \/ Descend \/ SendPartial \/ Yield
    BY <1>1 DEF BeginIteration, Descend, SendPartial, Yield, loopVars
  <1>2. CASE Expand
    BY <1>2 DEF Expand, PickRolloutProvider, Stop
  <1>3. CASE Roll
    <2> USE <1>3 DEF Roll
    <2>1. CASE StartStep \/ OpenStream \/ TextDelta \/ CallDelta \/ ChunkFails \/ StreamEnds
      BY <2>1 DEF StartStep, OpenStream, TextDelta, CallDelta, ChunkFails, StreamEnds
    <2>2. CASE Chat
      BY <2>2 DEF Chat
    <2>3. CASE Push \/ Policy \/ ToolReturns \/ PushResults
      BY <2>3 DEF Push, Policy, ToolReturns, PushResults
    <2> QED
      BY <2>1, <2>2, <2>3 DEF LoopStep
  <1>4. CASE Rolled
    BY <1>4 DEF Rolled, Stop
  <1>5. CASE Verify
    <2>1. UNCHANGED <<kind, mode, router>> /\ at = "verify"
      BY <1>5 DEF Verify
    <2>2. (at' \in {"choose", "begin"} /\ pc' = pc) \/ (at' = "failed" /\ pc' = "failed")
      BY <1>5 DEF Verify, Stop
    <2> QED
      BY <2>1, <2>2
  <1>6. CASE Choose
    BY <1>6 DEF Choose, Stop
  <1> QED
    BY <1>1, <1>2, <1>3, <1>4, <1>5, <1>6, Searched

LEMMA NextIterated == ASSUME Searching, Iterated, SearchNext PROVE Iterated'
  <1> USE DEF Searching, Iterated, Iterating, Over, view, who
  <1>1. CASE BeginIteration
    BY <1>1, SearchConstants DEF BeginIteration
  <1>2. CASE Descend \/ SendPartial \/ Yield
    BY <1>2 DEF Descend, SendPartial, Yield, loopVars
  <1>3. CASE Expand
    BY <1>3 DEF Expand, PickRolloutProvider, Stop
  <1>4. CASE Roll
    <2> USE <1>4 DEF Roll
    <2>1. UNCHANGED <<announced, mode>> /\ pending' = None
      BY DEF LoopStep, StartStep, Chat, OpenStream, TextDelta, CallDelta, ChunkFails, StreamEnds,
             Push, Policy, ToolReturns, PushResults
    <2> QED
      BY <2>1
  <1>5. CASE Rolled \/ Choose
    BY <1>5 DEF Rolled, Choose, Stop
  <1>6. CASE Verify
    <2>1. UNCHANGED <<mode, announced, pending>> /\ at = "verify"
      BY <1>6 DEF Verify
    <2>2. CASE at' = "failed" /\ iteration' = iteration
      BY <2>1, <2>2
    <2>3. CASE iteration' = iteration + 1 /\ at' \in {"begin", "choose"} /\ (at' = "begin" => iteration' # MaxIterations)
      BY <2>1, <2>3, SearchConstants
    <2> QED
      BY <1>6, <2>2, <2>3 DEF Verify, Stop
  <1> QED
    BY <1>1, <1>2, <1>3, <1>4, <1>5, <1>6, Searched

LEMMA NextSaid == ASSUME Searching, Heard, SearchNext PROVE Heard'
  <1> USE DEF who
  <1>1. CASE BeginIteration \/ Descend \/ SendPartial \/ Yield
    BY <1>1, SameHeard DEF BeginIteration, Descend, SendPartial, Yield, loopVars, answer, Before, After
  <1>2. CASE Expand
    BY <1>2, SameHeard DEF Expand, PickRolloutProvider, Stop, Before, After
  <1>3. CASE Roll
    BY <1>3, StepHeard DEF Roll
  <1>4. CASE Rolled \/ Choose
    BY <1>4, SameHeard DEF Rolled, Choose, Stop, Before, After, Searching
  <1>5. CASE Verify
    <2>1. CASE Stop("failed") /\ UNCHANGED <<answer, shown, ti>>
      BY <1>5, <2>1, SameHeard DEF Verify, Stop, Before, After
    <2>2. CASE Forget /\ UNCHANGED pc
      <3>1. pc' = "finish" /\ mode' = mode
        BY <1>5, <2>2 DEF Verify, Searching
      <3>2. /\ reply' = NoReply /\ deltas' = <<>> /\ asst' = <<>> /\ text' = 0 /\ shown' = 0
            /\ cut' \in BOOLEAN
        BY <2>2 DEF Forget
      <3>3. NoReply.text = 0 /\ Whole(NoReply) = <<>> /\ NoReply \in Replies
        BY NothingSaid DEF NoReply, Whole
      <3>4. Meant(<<>>, NoReply)
        BY <3>3, WholeMeant
      <3>5. Fragmented(deltas', reply') /\ Meant(asst', reply') /\ asst' = Whole(reply') /\ text' = reply'.text
        BY <3>2, <3>3, <3>4, NothingReceived
      <3>6. reply' \in Replies /\ asst' \in Seq(Call)
        BY <3>2, <3>3, EmptySeq
      <3> QED
        BY ONLY <3>1, <3>2, <3>5, <3>6, LoopConstants DEF Heard, Before, After
    <2> QED
      BY <1>5, <2>1, <2>2 DEF Verify
  <1> QED
    BY <1>1, <1>2, <1>3, <1>4, <1>5, Searched

LEMMA OneEvent ==
  ASSUME NEW q, NEW n, Fits(q, n)
  PROVE  /\ Fits(<<>>, 0) /\ Fits(q, Len(q)) /\ (n < Len(q) => Fits(q, n + 1))
         /\ \A e \in Event : Len(q) - n < EventBuffer => Fits(Append(q, e), n)
  <1>1. Len(q) \in Nat /\ n \in Nat /\ n <= Len(q) /\ EventBuffer \in Nat /\ q \in Seq(Event)
    BY SearchConstants, LenProperties DEF Fits
  <1>2. ASSUME NEW e \in Event, Len(q) - n < EventBuffer PROVE Fits(Append(q, e), n)
    <2>1. Append(q, e) \in Seq(Event) /\ Len(Append(q, e)) = Len(q) + 1
      BY <1>1, AppendProperties
    <2> QED
      BY <1>1, <1>2, <2>1 DEF Fits
  <1>3. Fits(<<>>, 0) /\ Fits(q, Len(q)) /\ (n < Len(q) => Fits(q, n + 1))
    BY <1>1 DEF Fits
  <1> QED
    BY <1>2, <1>3

LEMMA NextMetered == ASSUME Searching, Heard, Metered, Heard', SearchNext PROVE Metered'
  <1> USE DEF Metered, who, talk, Fail
  <1>0. /\ asst \in Seq(Call) /\ Len(asst) \in Nat /\ asst' \in Seq(Call) /\ Len(asst') \in Nat
    BY LenProperties DEF Heard
  <1>1. CASE BeginIteration \/ Descend
    BY <1>1 DEF BeginIteration, Descend, loopVars, answer
  <1>2. CASE SendPartial \/ Yield
    <2>1. UNCHANGED <<step, ti, asst, pc>> /\ at = "rollout" /\ at' = "rollout"
      BY <1>2 DEF SendPartial, Yield, loopVars
    <2>2. \/ sent' = sent /\ seen < Len(sent) /\ seen' = seen + 1
          \/ sent' = Append(sent, "score") /\ Len(sent) - seen < EventBuffer /\ seen' = seen
      BY <1>2 DEF SendPartial, Yield, Put, Room
    <2>3. Fits(sent', seen')
      BY <2>2, OneEvent DEF Event
    <2> QED
      BY <2>1, <2>3
  <1>3. CASE Expand
    BY <1>3, LoopConstants DEF Expand, PickRolloutProvider, Stop, answer
  <1>4. CASE Roll
    <2>1. Fits(sent', seen') /\ at' \in {"rollout", "rolled"} /\ at = "rollout"
      <3>1. /\ seen' = seen /\ at = "rollout" /\ at' \in {"rollout", "rolled"}
            /\ sent' = sent \/ (sent' = Append(sent, "text") /\ Len(sent) - seen < EventBuffer)
        BY <1>4 DEF Roll, Room
      <3> QED
        BY <3>1, OneEvent DEF Event
    <2> SUFFICES /\ step' \in 0 .. MaxSteps /\ (pc' \notin {"turn", "finish", "failed"} => step' < MaxSteps)
                 /\ ti' \in 0 .. Len(asst') /\ (pc' \in {"policy", "tool"} => ti' < Len(asst'))
                 /\ (pc' = "push" => ti' = 0)
      BY <1>4, <2>1 DEF Roll
    <2>2. CASE StartStep
      BY <1>0, <1>4, <2>2 DEF StartStep, Roll
    <2>3. CASE Chat
      BY <1>0, <1>4, <2>3 DEF Chat, Roll, Heard, Before, Searching
    <2>4. CASE OpenStream \/ TextDelta \/ CallDelta \/ ChunkFails
      BY <1>4, <2>4 DEF OpenStream, TextDelta, CallDelta, ChunkFails, Roll, answer
    <2>5. CASE StreamEnds
      BY <1>0, <1>4, <2>5 DEF StreamEnds, Roll, Heard, Searching
    <2>6. CASE Push
      <3>1. asst # <<>> => 0 < Len(asst)
        BY <1>0, EmptySeq
      <3> QED
        BY <1>0, <1>4, <2>6, <3>1 DEF Push, Roll, answer
    <2>7. CASE Policy \/ ToolReturns
      BY <1>0, <1>4, <2>7 DEF Policy, ToolReturns, Roll, answer
    <2>8. CASE PushResults
      BY <1>0, <1>4, <2>8, LoopConstants DEF PushResults, Roll, answer
    <2> QED
      BY <1>4, <2>2, <2>3, <2>4, <2>5, <2>6, <2>7, <2>8 DEF Roll, LoopStep
  <1>5. CASE Rolled \/ Choose
    BY <1>0, <1>5, OneEvent DEF Rolled, Choose, Stop, Searching, answer
  <1>6. CASE Verify
    <2>1. CASE Forget /\ UNCHANGED pc
      <3>1. Fits(sent', seen') /\ seen' = Len(sent')
        BY <2>1, OneEvent DEF Forget
      <3> QED
        BY <1>6, <2>1, <3>1, LoopConstants DEF Verify, Forget, Searching
    <2>2. CASE Stop("failed") /\ UNCHANGED <<step, ti, answer, sent, seen>>
      BY <1>6, <2>2 DEF Verify, Stop, answer
    <2> QED
      BY <1>6, <2>1, <2>2 DEF Verify
  <1> QED
    BY <1>1, <1>2, <1>3, <1>4, <1>5, <1>6, Searched

-----------------------------------------------------------------------------
(* The tree.                                                                      *)

Number == Int \cup {NaN}
TreeNode == [conv : Seq(ListItem), alpha : Number, beta : Number, children : Seq(Nat),
             score : Number, steps : Int]
Places == 1 .. Len(nodes)

(* Nodes are lists that begin with the user; a child comes after its parent and extends *)
(* it by one answer; every node but the root is a child of one node.                      *)
Grown ==
  /\ nodes \in Seq(TreeNode) /\ Len(nodes) = iteration + 1
  /\ \A n \in Places :
       /\ SpokenOnce(nodes[n].conv)
       /\ Len(nodes[n].children) <= BranchingFactor
       /\ \A c \in Range(nodes[n].children) : c \in n + 1 .. Len(nodes) /\ Front(nodes[c].conv) = nodes[n].conv
  /\ \A m \in Places \ {1} : \E n \in Places : Parents[m] = {n}

(* The path leads through the tree, to a node that has room while it is extended.       *)
Walked ==
  /\ path \in Seq(Nat) /\ path # <<>> /\ \A i \in 1 .. Len(path) : path[i] \in Places
  /\ at \in {"rollout", "rolled", "verify"} => Len(nodes[Current].children) < BranchingFactor

(* The best leaf is the first of the best.                                               *)
Leading ==
  /\ bestScore \in Int /\ bestScore >= -1 /\ (Scored = {} => bestScore = -1)
  /\ \A n \in Scored : nodes[n].score \in 0 .. One
  /\ BestIsBest

LEMMA SumsAre == \A x, y \in Number : Plus(x, y) \in Number /\ Minus(x, y) \in Number
  BY DEF Plus, Minus, Number

LEMMA Clamped == ASSUME NEW r \in Raw PROVE Clamp(r) \in Number /\ (Clamp(r) # NaN => Clamp(r) \in 0 .. One)
  BY SearchConstants DEF Clamp, Number

LEMMA AnyCurrent == ASSUME Grown, Walked PROVE Current \in Places /\ Len(nodes) \in Nat /\ nodes[Current] \in TreeNode
  <1>1. Len(path) \in Nat /\ Len(path) >= 1 /\ Len(nodes) \in Nat
    BY LenProperties, EmptySeq DEF Walked, Grown
  <1>2. Current \in Places
    BY <1>1 DEF Current, Walked
  <1> QED
    BY <1>1, <1>2, ElementOfSeq DEF Grown, Places

LEMMA Shorter ==
  ASSUME NEW ms, SpokenOnce(ms), NEW cs \in Seq(Call)
  PROVE  Front(Append(ms, Called(cs))) = ms
  <1> DEFINE ns == Append(ms, Called(cs))
             n == Len(ms)
  <1>1. n \in Nat /\ ms \in Seq(ListItem) /\ DOMAIN ms = 1 .. n
    BY LenProperties DEF SpokenOnce
  <1>2. ns \in Seq(ListItem) /\ Len(ns) = n + 1 /\ \A i \in 1 .. n : ns[i] = ms[i]
    BY Longer DEF SpokenOnce
  <1> HIDE DEF ns, n
  <1>3. Front(ns) = SubSeq(ns, 1, n)
    BY <1>1, <1>2 DEF Front
  <1>4. \A i \in 1 .. n : ns[i] \in ListItem
    BY <1>1, <1>2, ElementOfSeq DEF n
  <1>5. /\ SubSeq(ns, 1, n) \in Seq(ListItem) /\ Len(SubSeq(ns, 1, n)) = n
        /\ \A i \in 1 .. n : SubSeq(ns, 1, n)[i] = ns[i]
    BY <1>1, <1>4, SubSeqProperties
  <1>6. Front(ns) \in Seq(ListItem) /\ Len(Front(ns)) = Len(ms) /\ \A i \in 1 .. Len(ms) : Front(ns)[i] = ms[i]
    BY <1>2, <1>3, <1>5 DEF n
  <1> QED
    BY <1>1, <1>6, SeqEqual DEF ns

LEMMA LeafRight ==
  ASSUME Grown, Walked, SpokenOnce(msgs), asst \in Seq(Call), NEW s \in Number
  PROVE  /\ LeafOf(s) \in TreeNode /\ LeafOf(s).score = s /\ LeafOf(s).children = <<>>
         /\ LeafOf(s).conv = Append(nodes[Current].conv, Called(asst))
         /\ SpokenOnce(LeafOf(s).conv) /\ Front(LeafOf(s).conv) = nodes[Current].conv
  <1> DEFINE base == nodes[Current].conv
             conv == Append(base, Called(asst))
             n == Answers - Cardinality(Spoken(base))
  <1>1. SpokenOnce(base)
    BY AnyCurrent DEF Grown
  <1>2. Cardinality(Spoken(base)) \in Nat /\ Cardinality(Spoken(msgs)) \in Nat
    BY <1>1, OneMore
  <1>3. n \in Int
    BY <1>2 DEF Answers, Spoken
  <1>4. LeafOf(s) = [conv |-> conv, alpha |-> One, beta |-> One, children |-> <<>>, score |-> s, steps |-> n]
    BY DEF LeafOf, Node, Spoken
  <1>5. SpokenOnce(conv)
    BY <1>1, Longer
  <1>6. conv \in Seq(ListItem) /\ One \in Number /\ <<>> \in Seq(Nat)
    BY <1>5, SearchConstants, EmptySeq DEF SpokenOnce, Number
  <1>7. Front(conv) = base
    BY <1>1, Shorter
  <1> HIDE DEF conv, base, n
  <1>8. /\ LeafOf(s) \in TreeNode /\ LeafOf(s).score = s /\ LeafOf(s).children = <<>>
        /\ LeafOf(s).conv = conv
    BY <1>3, <1>4, <1>6 DEF TreeNode
  <1> QED
    BY <1>5, <1>7, <1>8 DEF conv, base

LEMMA RangeLonger ==
  ASSUME NEW s \in Seq(Nat), NEW e \in Nat
  PROVE  /\ Append(s, e) \in Seq(Nat) /\ Len(Append(s, e)) = Len(s) + 1 /\ Len(s) \in Nat
         /\ Range(Append(s, e)) = Range(s) \cup {e}
  <1> DEFINE t == Append(s, e)
  <1>1. Len(s) \in Nat /\ DOMAIN s = 1 .. Len(s)
    BY LenProperties
  <1>2. /\ t \in Seq(Nat) /\ Len(t) = Len(s) + 1 /\ t[Len(s) + 1] = e
        /\ \A i \in 1 .. Len(s) : t[i] = s[i]
    BY AppendProperties
  <1>3. DOMAIN t = 1 .. Len(s) + 1
    BY <1>2, LenProperties
  <1> HIDE DEF t
  <1>4. \A i : i \in 1 .. Len(s) + 1 <=> i \in 1 .. Len(s) \/ i = Len(s) + 1
    BY <1>1
  <1>5. Range(t) = Range(s) \cup {e}
    BY <1>1, <1>2, <1>3, <1>4 DEF Range
  <1> QED
    BY <1>1, <1>2, <1>5 DEF t

(* The leaf is the last node and the last child of the node that was extended; the     *)
(* nodes on the path and the leaf gain its score; scores and conversations stay.          *)
LEMMA Inserted ==
  ASSUME Grown, Walked, SpokenOnce(msgs), asst \in Seq(Call), NEW s \in Number, Insert(s)
  PROVE  /\ nodes' \in Seq(TreeNode) /\ Len(nodes') = Len(nodes) + 1
         /\ \A n \in Places :
              /\ nodes'[n].conv = nodes[n].conv /\ nodes'[n].score = nodes[n].score
              /\ n # Current => nodes'[n].children = nodes[n].children
              /\ nodes'[n].alpha = IF n \in Range(path) THEN Plus(nodes[n].alpha, s) ELSE nodes[n].alpha
              /\ nodes'[n].beta = IF n \in Range(path) THEN Plus(nodes[n].beta, Minus(One, s)) ELSE nodes[n].beta
         /\ nodes'[Current].children = Append(nodes[Current].children, Len(nodes) + 1)
         /\ nodes'[Len(nodes) + 1].score = s /\ nodes'[Len(nodes) + 1].children = <<>>
         /\ nodes'[Len(nodes) + 1].conv = LeafOf(s).conv
         /\ nodes'[Len(nodes) + 1].alpha = Plus(One, s) /\ nodes'[Len(nodes) + 1].beta = Plus(One, Minus(One, s))
  <1> DEFINE l == Len(nodes)
             c == Current
             longer == Append(nodes, LeafOf(s))
             more == Append(nodes[c].children, l + 1)
             tree == [longer EXCEPT ![c].children = more]
             p == Append(path, l + 1)
  <1>1. c \in 1 .. l /\ l \in Nat /\ nodes[c] \in TreeNode
    BY AnyCurrent DEF Places
  <1>2. /\ longer \in Seq(TreeNode) /\ Len(longer) = l + 1 /\ longer[l + 1] = LeafOf(s)
        /\ \A n \in 1 .. l : longer[n] = nodes[n]
    BY LeafRight, AppendProperties DEF Grown
  <1>3. DOMAIN longer = 1 .. l + 1 /\ longer \in [1 .. l + 1 -> TreeNode]
    BY <1>1, <1>2, LenProperties
  <1>4. nodes' = Backpropagate([longer EXCEPT ![c].children = Append(@, l + 1)], p, s)
    BY DEF Insert
  <1>5. [longer EXCEPT ![c].children = Append(@, l + 1)] = tree
    <2>1. longer[c] = nodes[c]
      BY <1>1, <1>2
    <2> HIDE DEF longer, c, l
    <2> QED
      BY <2>1
  <1>6. more \in Seq(Nat)
    BY <1>1, AppendProperties DEF TreeNode
  <1>7. Range(p) = Range(path) \cup {l + 1} /\ l + 1 \notin Range(path)
    <2>1. path \in Seq(Nat) /\ l + 1 \in Nat /\ \A i \in 1 .. Len(path) : path[i] \in 1 .. l
      BY <1>1 DEF Walked, Places
    <2>2. DOMAIN path = 1 .. Len(path)
      BY <2>1, LenProperties
    <2>3. \A i \in DOMAIN path : path[i] # l + 1
      BY <1>1, <2>1, <2>2
    <2> QED
      BY <2>1, <2>3, RangeLonger DEF Range
  <1> HIDE DEF longer, c, l, more, p
  <1>8. /\ tree \in [1 .. l + 1 -> TreeNode]
        /\ \A n \in 1 .. l + 1 : /\ tree[n].conv = longer[n].conv /\ tree[n].score = longer[n].score
                                 /\ tree[n].alpha = longer[n].alpha /\ tree[n].beta = longer[n].beta
                                 /\ tree[n].children = IF n = c THEN more ELSE longer[n].children
    BY <1>1, <1>3, <1>6 DEF TreeNode
  <1> HIDE DEF tree
  <1>9. DOMAIN tree = 1 .. l + 1
    BY <1>8
  <1>10. nodes' = [n \in 1 .. l + 1 |->
                    IF n \in Range(p)
                    THEN [tree[n] EXCEPT !.alpha = Plus(@, s), !.beta = Plus(@, Minus(One, s))]
                    ELSE tree[n]]
    BY <1>4, <1>5, <1>9 DEF Backpropagate
  <1>11. ASSUME NEW n \in 1 .. l + 1
        PROVE  /\ nodes'[n] \in TreeNode /\ nodes'[n].conv = tree[n].conv
               /\ nodes'[n].score = tree[n].score /\ nodes'[n].children = tree[n].children
               /\ nodes'[n].alpha = IF n \in Range(p) THEN Plus(tree[n].alpha, s) ELSE tree[n].alpha
               /\ nodes'[n].beta = IF n \in Range(p) THEN Plus(tree[n].beta, Minus(One, s)) ELSE tree[n].beta
    <2>1. tree[n] \in TreeNode
      BY <1>8
    <2>2. Plus(tree[n].alpha, s) \in Number /\ Plus(tree[n].beta, Minus(One, s)) \in Number
      <3>1. tree[n].alpha \in Number /\ tree[n].beta \in Number
        BY <2>1 DEF TreeNode
      <3>2. One \in Number
        BY SearchConstants DEF Number
      <3> QED
        BY <3>1, <3>2, SumsAre
    <2>3. CASE n \in Range(p)
      <3>1. nodes'[n] = [tree[n] EXCEPT !.alpha = Plus(tree[n].alpha, s), !.beta = Plus(tree[n].beta, Minus(One, s))]
        BY <1>10, <2>3
      <3> QED
        BY <2>1, <2>2, <2>3, <3>1 DEF TreeNode
    <2>4. CASE n \notin Range(p)
      BY <1>10, <2>1, <2>4
    <2> QED
      BY <2>3, <2>4
  <1>12. nodes' \in Seq(TreeNode) /\ Len(nodes') = l + 1
    <2>1. DOMAIN nodes' = 1 .. l + 1 /\ \A n \in 1 .. l + 1 : nodes'[n] \in TreeNode
      BY <1>10, <1>11
    <2>2. nodes' = [n \in 1 .. l + 1 |-> nodes'[n]]
      BY <1>10
    <2> QED
      BY <1>1, <2>1, <2>2
  <1>13. \A n \in 1 .. l : n \in 1 .. l + 1 /\ n # l + 1
    BY <1>1
  <1>14. c # l + 1 /\ l + 1 \in 1 .. l + 1
    BY <1>1
  <1>15. LeafOf(s).children = <<>> /\ LeafOf(s).score = s /\ LeafOf(s).alpha = One /\ LeafOf(s).beta = One
    BY LeafRight DEF LeafOf, Node
  <1>16. ASSUME NEW n \in 1 .. l
         PROVE  /\ nodes'[n].conv = nodes[n].conv /\ nodes'[n].score = nodes[n].score
                /\ n # c => nodes'[n].children = nodes[n].children
                /\ nodes'[n].alpha = IF n \in Range(path) THEN Plus(nodes[n].alpha, s) ELSE nodes[n].alpha
                /\ nodes'[n].beta = IF n \in Range(path) THEN Plus(nodes[n].beta, Minus(One, s)) ELSE nodes[n].beta
    <2>1. n \in 1 .. l + 1 /\ n # l + 1 /\ longer[n] = nodes[n]
      BY <1>2, <1>13
    <2>2. n \in Range(p) <=> n \in Range(path)
      BY <1>7, <2>1
    <2> QED
      BY <1>8, <1>11, <2>1, <2>2
  <1>17. /\ nodes'[l + 1].alpha = Plus(One, s) /\ nodes'[l + 1].beta = Plus(One, Minus(One, s))
         /\ nodes'[l + 1].score = s /\ nodes'[l + 1].children = <<>> /\ nodes'[l + 1].conv = LeafOf(s).conv
    BY <1>2, <1>8, <1>11, <1>14, <1>15, <1>7
  <1>18. nodes'[c].children = Append(nodes[c].children, l + 1)
    BY <1>1, <1>8, <1>11, <1>13 DEF more
  <1> QED
    BY <1>12, <1>16, <1>17, <1>18 DEF Places, c, l

LEMMA ManyNodes ==
  ASSUME Grown
  PROVE  /\ DOMAIN nodes = Places /\ Len(nodes) \in Nat /\ \A n \in Places : nodes[n] \in TreeNode
         /\ \A m \in Places : Parents[m] = {n \in Places : m \in Range(nodes[n].children)}
  <1>1. DOMAIN nodes = Places /\ Len(nodes) \in Nat
    BY LenProperties DEF Grown, Places
  <1>2. \A n \in Places : nodes[n] \in TreeNode
    BY ElementOfSeq DEF Grown, Places
  <1> QED
    BY <1>1, <1>2 DEF Parents

LEMMA GrownFurther ==
  ASSUME Grown, Walked, Iterated, SpokenOnce(msgs), asst \in Seq(Call), at = "verify",
         NEW s \in Number, Insert(s), iteration' = iteration + 1
  PROVE  Grown'
  <1> DEFINE l == Len(nodes)
             c == Current
             Kids(n) == Range(nodes[n].children)
             Leaves == 1 .. l + 1
  <1>1. /\ c \in Places /\ l \in Nat /\ l >= 1 /\ l = iteration + 1 /\ \A n \in Places : nodes[n] \in TreeNode
        /\ \A m \in Places : Parents[m] = {n \in Places : m \in Kids(n)}
    BY AnyCurrent, ManyNodes DEF Grown, Iterated
  <1>2. /\ nodes' \in Seq(TreeNode) /\ Len(nodes') = l + 1
        /\ \A n \in Places : /\ nodes'[n].conv = nodes[n].conv
                             /\ n # c => nodes'[n].children = nodes[n].children
        /\ nodes'[c].children = Append(nodes[c].children, l + 1)
        /\ nodes'[l + 1].children = <<>> /\ nodes'[l + 1].conv = LeafOf(s).conv
    BY Inserted
  <1>3. DOMAIN nodes' = Leaves /\ Places' = Leaves
    BY <1>2, LenProperties DEF Places
  <1>4. Places = 1 .. l /\ Places \subseteq Leaves /\ l + 1 \in Leaves /\ l + 1 \notin Places
        /\ \A n \in Leaves : n \in Places \/ n = l + 1
    BY <1>1 DEF Places
  <1>5. nodes[c].children \in Seq(Nat) /\ Len(nodes[c].children) < BranchingFactor
    BY <1>1 DEF TreeNode, Walked
  <1>6. /\ Len(nodes'[c].children) = Len(nodes[c].children) + 1 /\ Len(nodes[c].children) \in Nat
        /\ Range(nodes'[c].children) = Kids(c) \cup {l + 1}
    BY <1>1, <1>2, <1>5, RangeLonger
  <1>7. Range(nodes'[l + 1].children) = {} /\ Len(nodes'[l + 1].children) = 0
    BY <1>2 DEF Range
  <1>8. /\ SpokenOnce(LeafOf(s).conv) /\ Front(LeafOf(s).conv) = nodes[c].conv
    BY LeafRight
  <1>9. /\ \A n \in Places : SpokenOnce(nodes[n].conv) /\ Len(nodes[n].children) <= BranchingFactor
        /\ \A n \in Places : \A k \in Kids(n) : k \in n + 1 .. l /\ Front(nodes[k].conv) = nodes[n].conv
        /\ \A m \in Places \ {1} : \E n \in Places : Parents[m] = {n}
    BY DEF Grown
  <1> HIDE DEF c, l
  <1>10. ASSUME NEW n \in Leaves
         PROVE  SpokenOnce(nodes'[n].conv) /\ Len(nodes'[n].children) <= BranchingFactor
    <2>1. CASE n = l + 1
      BY <1>2, <1>7, <1>8, <2>1, SearchConstants
    <2>2. CASE n = c
      BY <1>1, <1>2, <1>5, <1>6, <1>9, <2>2, SearchConstants
    <2>3. CASE n \in Places /\ n # c
      BY <1>2, <1>9, <2>3
    <2> QED
      BY <1>4, <2>1, <2>2, <2>3
  <1>11. ASSUME NEW n \in Leaves, NEW k \in Range(nodes'[n].children)
         PROVE  k \in n + 1 .. l + 1 /\ Front(nodes'[k].conv) = nodes'[n].conv
    <2>1. n \in Places
      BY <1>4, <1>7
    <2>2. CASE k \in Kids(n)
      <3>1. k \in n + 1 .. l /\ Front(nodes[k].conv) = nodes[n].conv
        BY <1>9, <2>1, <2>2
      <3>2. k \in Places /\ k \in n + 1 .. l + 1
        BY <1>1, <1>4, <2>1, <3>1
      <3> QED
        BY <1>2, <2>1, <3>1, <3>2
    <2>3. CASE k \notin Kids(n)
      <3>1. n # c => Range(nodes'[n].children) = Kids(n)
        BY <1>2, <2>1
      <3>2. n = c /\ k = l + 1
        BY <1>6, <2>3, <3>1
      <3>3. l + 1 \in c + 1 .. l + 1
        BY <1>1, <1>4
      <3> QED
        BY <1>1, <1>2, <1>8, <3>2, <3>3
    <2> QED
      BY <2>2, <2>3
  <1>12. ASSUME NEW m \in Leaves \ {1}
         PROVE  \E n \in Leaves : {k \in Leaves : m \in Range(nodes'[k].children)} = {n}
    <2>1. CASE m = l + 1
      <3>1. \A k \in Places : l + 1 \notin Kids(k)
        BY <1>1, <1>9
      <3>2. c \in Leaves /\ m \in Range(nodes'[c].children)
        BY <1>1, <1>4, <1>6, <2>1
      <3>3. ASSUME NEW k \in Leaves, m \in Range(nodes'[k].children)
            PROVE  k = c
        <4>1. k \in Places
          BY <1>4, <1>7, <3>3
        <4>2. k # c => Range(nodes'[k].children) = Kids(k)
          BY <1>2, <4>1
        <4>3. l + 1 \notin Kids(k)
          BY <3>1, <4>1
        <4> QED
          BY <2>1, <3>3, <4>2, <4>3
      <3>4. {k \in Leaves : m \in Range(nodes'[k].children)} = {c}
        BY ONLY <3>2, <3>3
      <3> QED
        BY <1>1, <1>4, <3>4
    <2>2. CASE m # l + 1
      <3>1. m \in Places \ {1}
        BY <1>4, <2>2
      <3>2. PICK n \in Places : Parents[m] = {n}
        BY <1>9, <3>1
      <3>3. {k \in Places : m \in Kids(k)} = {n}
        BY <1>1, <3>1, <3>2
      <3>4. \A k \in Places : m \in Range(nodes'[k].children) <=> m \in Kids(k)
        BY <1>2, <1>6, <2>2
      <3>5. m \notin Range(nodes'[l + 1].children)
        BY <1>7
      <3>6. {k \in Leaves : m \in Range(nodes'[k].children)} = {n}
        BY <1>4, <3>3, <3>4, <3>5
      <3> QED
        BY <1>4, <3>6
    <2> QED
      BY <2>1, <2>2
  <1>13. Parents' = [m \in Leaves |-> {n \in Leaves : m \in Range(nodes'[n].children)}]
    BY <1>3 DEF Parents
  <1>14. \A m \in Leaves \ {1} : \E n \in Leaves : Parents'[m] = {n}
    BY <1>12, <1>13
  <1>15. Len(nodes') = l + 1 /\ l + 1 = iteration' + 1
    BY <1>1, <1>2
  <1> QED
    BY <1>2, <1>3, <1>10, <1>11, <1>14, <1>15 DEF Grown

LEMMA LedFurther ==
  ASSUME Grown, Walked, Iterated, Leading, SpokenOnce(msgs), asst \in Seq(Call),
         NEW s \in Number, s # NaN => s \in 0 .. One, Insert(s), KeepBest(s)
  PROVE  Leading'
  <1> DEFINE l == Len(nodes)
  <1>1. l \in Nat /\ l >= 1 /\ DOMAIN nodes = 1 .. l
    BY ManyNodes DEF Grown, Iterated, Places
  <1>2. /\ nodes' \in Seq(TreeNode) /\ Len(nodes') = l + 1 /\ nodes'[l + 1].score = s
        /\ \A n \in 1 .. l : nodes'[n].score = nodes[n].score
    BY Inserted DEF Places
  <1>3. DOMAIN nodes' = 1 .. l + 1
    BY <1>2, LenProperties
  <1>4. \A n \in Scored : n \in 1 .. l /\ nodes'[n].score = nodes[n].score
    BY <1>1, <1>2 DEF Scored
  <1>5. Scored' = Scored \cup {n \in {l + 1} : s # NaN}
    <2>1. \A n : n \in 1 .. l + 1 /\ n # 1 <=> (n \in 1 .. l /\ n # 1) \/ n = l + 1
      BY <1>1
    <2>2. \A n : n \in Scored' <=> n \in 1 .. l + 1 /\ n # 1 /\ nodes'[n].score # NaN
      BY <1>3 DEF Scored
    <2>3. \A n : n \in Scored <=> n \in 1 .. l /\ n # 1 /\ nodes[n].score # NaN
      BY <1>1 DEF Scored
    <2> QED
      BY <1>2, <2>1, <2>2, <2>3
  <1>6. /\ bestScore \in Int /\ bestScore >= -1 /\ (Scored = {} => bestScore = -1) /\ bestScore # NaN
        /\ \A n \in Scored : nodes[n].score \in 0 .. One
    BY SearchConstants DEF Leading
  <1>7. Scored # {} => /\ best \in Scored /\ bestScore = nodes[best].score
                       /\ \A n \in Scored : nodes[n].score <= bestScore /\ (nodes[n].score = bestScore => best <= n)
    BY DEF Leading, BestIsBest
  <1>8. Scored = {} => best = None
    BY DEF Leading, BestIsBest
  <1>9. CASE s = NaN
    <2>1. Scored' = Scored /\ UNCHANGED <<best, bestScore>>
      BY <1>5, <1>9 DEF KeepBest, Beats
    <2> QED
      BY <1>4, <1>6, <1>7, <1>8, <2>1 DEF Leading, BestIsBest
  <1>10. CASE s # NaN /\ s > bestScore
    <2>1. Scored' = Scored \cup {l + 1} /\ best' = l + 1 /\ bestScore' = s /\ s \in 0 .. One
      BY <1>5, <1>6, <1>10 DEF KeepBest, Beats
    <2>2. \A n \in Scored : nodes'[n].score \in 0 .. One /\ nodes'[n].score < s
      BY <1>4, <1>6, <1>7, <1>10, <2>1, SearchConstants
    <2>3. \A n \in Scored' : /\ nodes'[n].score \in 0 .. One /\ nodes'[n].score <= s
                             /\ nodes'[n].score = s => l + 1 <= n
      BY <1>1, <1>2, <2>1, <2>2, SearchConstants
    <2>4. Scored' # {} /\ best' \in Scored' /\ bestScore' = nodes'[best'].score /\ bestScore' \in Int /\ bestScore' >= -1
      BY <1>2, <2>1, SearchConstants
    <2> QED
      BY <2>1, <2>3, <2>4 DEF Leading, BestIsBest
  <1>11. CASE s # NaN /\ ~(s > bestScore)
    <2>1. Scored' = Scored \cup {l + 1} /\ UNCHANGED <<best, bestScore>> /\ s \in 0 .. One
      BY <1>5, <1>6, <1>11 DEF KeepBest, Beats
    <2>2. s <= bestScore /\ Scored # {}
      BY <1>6, <1>11, <2>1, SearchConstants
    <2>3. \A n \in Scored' : /\ nodes'[n].score \in 0 .. One /\ nodes'[n].score <= bestScore
                             /\ nodes'[n].score = bestScore => best <= n
      <3>1. ASSUME NEW n \in Scored
            PROVE  /\ nodes'[n].score \in 0 .. One /\ nodes'[n].score <= bestScore
                   /\ nodes'[n].score = bestScore => best <= n
        BY <1>4, <1>6, <1>7, <2>2
      <3>2. nodes'[l + 1].score \in 0 .. One /\ nodes'[l + 1].score <= bestScore
        BY <1>2, <2>1, <2>2
      <3>3. best <= l + 1
        BY <1>1, <1>4, <1>7, <2>2
      <3> QED
        BY <2>1, <3>1, <3>2, <3>3
    <2>4. best' \in Scored' /\ bestScore' = nodes'[best'].score /\ bestScore' \in Int /\ bestScore' >= -1
      BY <1>4, <1>6, <1>7, <2>1, <2>2
    <2> QED
      BY <2>1, <2>2, <2>3, <2>4 DEF Leading, BestIsBest
  <1> QED
    BY <1>9, <1>10, <1>11

LEMMA NextTree ==
  ASSUME Searching, Iterated, Heard, Grown, Walked, Leading, SpokenOnce(msgs), SearchNext
  PROVE  Grown' /\ Walked' /\ Leading'
  <1>1. ASSUME UNCHANGED <<nodes, iteration>> PROVE Grown' = Grown
    <2>1. Parents' = Parents /\ Places' = Places
      BY <1>1 DEF Parents, Places
    <2> QED
      BY <1>1, <2>1 DEF Grown
  <1>2. ASSUME UNCHANGED <<nodes, best, bestScore>> PROVE Leading' = Leading
    BY <1>2 DEF Leading, BestIsBest, Scored
  <1>3. ASSUME UNCHANGED <<nodes, path>>,
               at' \in {"rollout", "rolled", "verify"} => at \in {"rollout", "rolled", "verify"}
        PROVE  Walked'
    BY <1>3 DEF Walked, Places, Current
  <1>4. CASE BeginIteration \/ SendPartial \/ Yield \/ Choose \/ Roll \/ Rolled
    <2>1. /\ UNCHANGED <<nodes, iteration, best, bestScore, path>>
          /\ at' \in {"rollout", "rolled", "verify"} => at \in {"rollout", "rolled", "verify"}
      BY <1>4 DEF BeginIteration, SendPartial, Yield, Choose, Roll, Rolled, Stop
    <2> QED
      BY <1>1, <1>2, <1>3, <2>1
  <1>5. CASE Descend
    <2>1. PICK c \in Range(nodes[Current].children) : path' = Append(path, c)
      BY <1>5 DEF Descend
    <2>2. c \in Current + 1 .. Len(nodes) /\ Current \in Nat /\ Len(nodes) \in Nat /\ Current >= 1
      <3>1. Current \in Places /\ Len(nodes) \in Nat
        BY AnyCurrent
      <3>2. PICK n \in Places : n = Current
        BY <3>1
      <3>3. c \in Range(nodes[n].children)
        BY <2>1, <3>2
      <3>4. c \in n + 1 .. Len(nodes)
        BY <3>3 DEF Grown
      <3> QED
        BY ONLY <3>1, <3>2, <3>4 DEF Places
    <2>3. c \in Places /\ c \in Nat
      BY <2>2 DEF Places
    <2>4. /\ path \in Seq(Nat) /\ Len(path) \in Nat /\ \A i \in 1 .. Len(path) : path[i] \in Places
      BY LenProperties DEF Walked
    <2>5. /\ path' \in Seq(Nat) /\ path' # <<>> /\ Len(path') = Len(path) + 1
          /\ path'[Len(path) + 1] = c /\ \A i \in 1 .. Len(path) : path'[i] = path[i]
      BY <2>1, <2>3, <2>4, AppendProperties
    <2>6. \A i \in 1 .. Len(path') : path'[i] \in Places
      BY <2>3, <2>4, <2>5
    <2>7. UNCHANGED <<nodes, iteration, best, bestScore>> /\ at' = "select"
      BY <1>5 DEF Descend
    <2> QED
      BY <1>1, <1>2, <2>5, <2>6, <2>7 DEF Walked, Places
  <1>6. CASE Expand
    <2>1. UNCHANGED <<nodes, iteration, best, bestScore, path>> /\ CanExpand
      BY <1>6 DEF Expand
    <2>2. Len(nodes[Current].children) < BranchingFactor
      BY <2>1, SearchConstants DEF CanExpand
    <2>3. Walked'
      BY <2>1, <2>2 DEF Walked, Places, Current
    <2> QED
      BY <1>1, <1>2, <2>1, <2>3
  <1>7. CASE Verify
    <2>1. CASE Stop("failed") /\ UNCHANGED <<nodes, best, bestScore, iteration, path>>
      BY <1>1, <1>2, <1>3, <2>1 DEF Stop
    <2>2. ASSUME NEW raw \in Raw, Insert(Clamp(raw)), KeepBest(Clamp(raw)), iteration' = iteration + 1,
                 path' = << 1 >>, at' \in {"choose", "begin"}
          PROVE  Grown' /\ Walked' /\ Leading'
      <3>1. at = "verify"
        BY <1>7 DEF Verify
      <3>2. PICK s \in Number : s = Clamp(raw) /\ (s # NaN => s \in 0 .. One)
        BY Clamped
      <3>3. Insert(s) /\ KeepBest(s)
        BY <2>2, <3>2
      <3>4. asst \in Seq(Call)
        BY DEF Heard
      <3>5. Grown'
        BY <2>2, <3>1, <3>3, <3>4, GrownFurther
      <3>6. Leading'
        BY <3>2, <3>3, <3>4, LedFurther
      <3>7. Len(nodes') \in Nat /\ Len(nodes') >= 1
        BY <2>2, <3>5 DEF Grown, Iterated
      <3>8. Walked'
        BY <2>2, <3>7 DEF Walked, Places
      <3> QED
        BY <3>5, <3>6, <3>8
    <2>3. \/ Stop("failed") /\ UNCHANGED <<nodes, best, bestScore, iteration, path>>
          \/ \E raw \in Raw : /\ Insert(Clamp(raw)) /\ KeepBest(Clamp(raw)) /\ iteration' = iteration + 1
                              /\ path' = <<1>> /\ at' \in {"choose", "begin"}
      BY <1>7 DEF Verify
    <2> QED
      BY <2>1, <2>2, <2>3
  <1> QED
    BY <1>4, <1>5, <1>6, <1>7, Searched

-----------------------------------------------------------------------------
(* What the posteriors add up to. Scores are added place by place, from the first. *)
Weight == Nat \cup {NaN}

LEMMA WeightsAdd ==
  /\ \A x, y \in Weight : Plus(x, y) \in Weight
  /\ \A x \in Weight : Plus(x, 0) = x /\ Plus(0, x) = x
  /\ \A x, y, z \in Weight : Plus(x, Plus(y, z)) = Plus(Plus(x, y), z)
  /\ One \in Weight /\ 0 \in Weight
  /\ \A x \in 0 .. One \cup {NaN} : x \in Weight /\ Minus(One, x) \in Weight
  <1> USE SearchConstants DEF Weight, Plus, Minus
  <1>1. \A x, y \in Weight : Plus(x, y) \in Weight
    OBVIOUS
  <1>2. \A x \in Weight : Plus(x, 0) = x /\ Plus(0, x) = x
    OBVIOUS
  <1>3. \A x, y, z \in Weight : Plus(x, Plus(y, z)) = Plus(Plus(x, y), z)
    OBVIOUS
  <1>4. One \in Weight /\ 0 \in Weight /\ \A x \in 0 .. One \cup {NaN} : x \in Weight /\ Minus(One, x) \in Weight
    OBVIOUS
  <1> QED
    BY <1>1, <1>2, <1>3, <1>4

Added(T, f, n) ==
  /\ T \in [0 .. n -> Weight] /\ T[0] = 0
  /\ \A k \in 1 .. n : T[k] = Plus(T[k - 1], f[k])

LEMMA AddedFurther ==
  ASSUME NEW n \in Nat, n # 0, NEW f, f[n] \in Weight, NEW U, Added(U, f, n - 1)
  PROVE  \E T : Added(T, f, n)
  <1>1. /\ n - 1 \in Nat /\ n - 1 \in 0 .. n - 1 /\ n \in 0 .. n /\ 0 \in 0 .. n /\ 0 \in 0 .. n - 1
    OBVIOUS
  <1>2. PICK v \in Weight : v = Plus(U[n - 1], f[n])
    BY <1>1, WeightsAdd DEF Added
  <1>3. PICK T : T = [k \in 0 .. n |-> IF k = n THEN v ELSE U[k]]
    OBVIOUS
  <1>4. \A k \in 0 .. n : k # n => k \in 0 .. n - 1 /\ T[k] = U[k] /\ U[k] \in Weight
    BY <1>3 DEF Added
  <1>5. T \in [0 .. n -> Weight] /\ T[n] = v
    BY <1>1, <1>3, <1>4
  <1>6. T[0] = 0
    BY <1>1, <1>4 DEF Added
  <1>7. ASSUME NEW k \in 1 .. n PROVE T[k] = Plus(T[k - 1], f[k])
    <2>1. k \in 0 .. n /\ k - 1 \in 0 .. n /\ k - 1 # n
      OBVIOUS
    <2>2. T[k - 1] = U[k - 1]
      BY <1>4, <2>1
    <2>3. CASE k = n
      BY <1>2, <1>5, <2>2, <2>3
    <2>4. CASE k # n
      <3>1. k \in 1 .. n - 1
        BY <2>4
      <3> QED
        BY <1>4, <2>1, <2>2, <2>4, <3>1 DEF Added
    <2> QED
      BY <2>3, <2>4
  <1> QED
    BY <1>5, <1>6, <1>7 DEF Added

LEMMA AddedExists ==
  ASSUME NEW n \in Nat, NEW f, \A k \in 1 .. n : f[k] \in Weight
  PROVE  \E T : Added(T, f, n)
  <1> DEFINE S == {k \in 0 .. n : ~\E T : Added(T, f, k)}
  <1> SUFFICES ASSUME S # {} PROVE FALSE
    OBVIOUS
  <1>1. S \in SUBSET Nat
    OBVIOUS
  <1>2. PICK k \in S : \A m \in S : k <= m
    BY <1>1, FirstOf
  <1>3. k \in Nat /\ k <= n /\ ~\E T : Added(T, f, k)
    BY <1>2
  <1>4. k # 0
    <2>1. PICK T : T = [i \in 0 .. 0 |-> 0]
      OBVIOUS
    <2>2. Added(T, f, 0)
      BY <2>1, WeightsAdd DEF Added
    <2> QED
      BY <1>3, <2>2
  <1>5. k - 1 \in 0 .. n /\ ~(k <= k - 1) /\ k \in 1 .. n
    BY <1>3, <1>4
  <1>6. k - 1 \notin S
    BY <1>2, <1>5
  <1>7. PICK U : Added(U, f, k - 1)
    BY <1>5, <1>6
  <1> QED
    BY <1>3, <1>4, <1>5, <1>7, AddedFurther

(* Two tables of the same numbers agree.                                            *)
LEMMA AddedOnce ==
  ASSUME NEW n \in Nat, NEW m \in Nat, n <= m, NEW f, NEW g, \A k \in 1 .. n : f[k] = g[k],
         NEW T, NEW U, Added(T, f, n), Added(U, g, m)
  PROVE  \A k \in 0 .. n : T[k] = U[k]
  <1> DEFINE S == {k \in 0 .. n : T[k] # U[k]}
  <1> SUFFICES ASSUME S # {} PROVE FALSE
    OBVIOUS
  <1>1. S \in SUBSET Nat
    OBVIOUS
  <1>2. PICK k \in S : \A i \in S : k <= i
    BY <1>1, FirstOf
  <1>3. k \in 0 .. n /\ T[k] # U[k]
    BY <1>2
  <1>4. k # 0
    BY <1>3 DEF Added
  <1>5. k - 1 \in 0 .. n /\ ~(k <= k - 1) /\ k \in 1 .. n /\ k \in 1 .. m
    BY <1>3, <1>4
  <1>6. T[k - 1] = U[k - 1]
    BY <1>2, <1>5
  <1>7. T[k] = Plus(T[k - 1], f[k]) /\ U[k] = Plus(U[k - 1], g[k]) /\ f[k] = g[k]
    BY <1>5 DEF Added
  <1> QED
    BY <1>3, <1>6, <1>7

Weights(f, n) == f = [k \in 1 .. n |-> f[k]] /\ \A k \in 1 .. n : f[k] \in Weight

LEMMA TotalIs ==
  ASSUME NEW n \in Nat, NEW f, Weights(f, n)
  PROVE  \E T : Added(T, f, n) /\ Total(f) = T[n]
  <1>1. PICK T : Added(T, f, n)
    BY AddedExists DEF Weights
  <1>2. Len(f) = n
    BY DEF Weights
  <1> DEFINE Right(U) == U = [k \in 0 .. Len(f) |-> IF k = 0 THEN 0 ELSE Plus(U[k - 1], f[k])]
             V == CHOOSE U : Right(U)
  <1>3. Right(T)
    <2>1. \A k \in 0 .. n : T[k] = IF k = 0 THEN 0 ELSE Plus(T[k - 1], f[k])
      <3> TAKE k \in 0 .. n
      <3>1. k # 0 => k \in 1 .. n
        OBVIOUS
      <3> QED
        BY <1>1, <3>1 DEF Added
    <2>2. T = [k \in 0 .. n |-> T[k]]
      BY <1>1 DEF Added
    <2> QED
      BY <1>2, <2>1, <2>2
  <1>4. Right(V)
    BY <1>3
  <1>5. Total(f) = V[Len(f)]
    BY DEF Total
  <1>6. \A k \in 0 .. n : V[k] = T[k]
    <2> DEFINE S == {k \in 0 .. n : V[k] # T[k]}
    <2> SUFFICES ASSUME S # {} PROVE FALSE
      OBVIOUS
    <2>1. S \in SUBSET Nat
      OBVIOUS
    <2>2. PICK k \in S : \A i \in S : k <= i
      BY <2>1, FirstOf
    <2>3. k \in 0 .. n /\ V[k] # T[k]
      BY <2>2
    <2>4. V[k] = (IF k = 0 THEN 0 ELSE Plus(V[k - 1], f[k])) /\ T[k] = (IF k = 0 THEN 0 ELSE Plus(T[k - 1], f[k]))
      <3> HIDE DEF V
      <3> QED
        BY <1>2, <1>3, <1>4, <2>3
    <2>5. k # 0
      BY <2>3, <2>4
    <2>6. k - 1 \in 0 .. n /\ ~(k <= k - 1)
      BY <2>3, <2>5
    <2>7. V[k - 1] = T[k - 1]
      BY <2>2, <2>6
    <2> QED
      BY <2>3, <2>4, <2>7
  <1> HIDE DEF V
  <1> QED
    BY <1>1, <1>2, <1>5, <1>6

LEMMA TotalWeighs ==
  ASSUME NEW n \in Nat, NEW f, Weights(f, n)
  PROVE  Total(f) \in Weight
  BY TotalIs DEF Added

LEMMA TotalLonger ==
  ASSUME NEW n \in Nat, NEW f, Weights(f, n), NEW g, Weights(g, n + 1), \A k \in 1 .. n : g[k] = f[k]
  PROVE  Total(g) = Plus(Total(f), g[n + 1])
  <1>1. PICK T : Added(T, f, n) /\ Total(f) = T[n]
    BY TotalIs
  <1>2. n + 1 \in Nat /\ n <= n + 1 /\ n + 1 \in 1 .. n + 1 /\ n \in 0 .. n /\ (n + 1) - 1 = n
    OBVIOUS
  <1>3. PICK U : Added(U, g, n + 1) /\ Total(g) = U[n + 1]
    BY <1>2, TotalIs
  <1>4. \A k \in 0 .. n : T[k] = U[k]
    BY <1>1, <1>2, <1>3, AddedOnce
  <1>5. U[n + 1] = Plus(U[n], g[n + 1])
    BY <1>2, <1>3 DEF Added
  <1> QED
    BY <1>1, <1>2, <1>3, <1>4, <1>5

LEMMA TotalNothing ==
  ASSUME NEW n \in Nat, NEW f, Weights(f, n), \A k \in 1 .. n : f[k] = 0
  PROVE  Total(f) = 0
  <1>1. PICK T : Added(T, f, n) /\ Total(f) = T[n]
    BY TotalIs
  <1>2. PICK U : U = [k \in 0 .. n |-> 0]
    OBVIOUS
  <1>3. Added(U, f, n)
    BY <1>2, WeightsAdd DEF Added
  <1>4. \A k \in 0 .. n : T[k] = U[k]
    BY <1>1, <1>3, AddedOnce
  <1> QED
    BY <1>1, <1>2, <1>4

-----------------------------------------------------------------------------
(* The nodes above a node.                                                        *)

Early(P, n) == \A m \in 1 .. n : P[m] \subseteq 1 .. m - 1
Traced(L, P, n) == L = [m \in 1 .. n |-> {m} \cup UNION {L[k] : k \in P[m]}]

LEMMA TracedFurther ==
  ASSUME NEW n \in Nat, n # 0, NEW P, Early(P, n), NEW K, Traced(K, P, n - 1)
  PROVE  \E L : Traced(L, P, n)
  <1>1. n \in 1 .. n /\ n - 1 \in Nat
    OBVIOUS
  <1>2. PICK v : v = {n} \cup UNION {K[k] : k \in P[n]}
    OBVIOUS
  <1>3. PICK L : L = [m \in 1 .. n |-> IF m = n THEN v ELSE K[m]]
    OBVIOUS
  <1>4. \A m \in 1 .. n : m # n => m \in 1 .. n - 1 /\ L[m] = K[m]
    BY <1>3
  <1>5. ASSUME NEW m \in 1 .. n PROVE L[m] = {m} \cup UNION {L[k] : k \in P[m]}
    <2>1. P[m] \subseteq 1 .. m - 1
      BY DEF Early
    <2>2. \A k \in P[m] : k \in 1 .. n /\ k # n
      BY <2>1
    <2>3. {L[k] : k \in P[m]} = {K[k] : k \in P[m]}
      BY <1>4, <2>2
    <2>4. CASE m = n
      BY <1>2, <1>3, <2>3, <2>4
    <2>5. CASE m # n
      <3>1. K[m] = {m} \cup UNION {K[k] : k \in P[m]}
        BY <1>4, <2>5 DEF Traced
      <3> QED
        BY <1>4, <2>3, <2>5, <3>1
    <2> QED
      BY <2>4, <2>5
  <1> DEFINE Line(m) == {m} \cup UNION {L[k] : k \in P[m]}
  <1>6. \A m \in 1 .. n : L[m] = Line(m)
    BY <1>5
  <1>7. L = [m \in 1 .. n |-> L[m]]
    BY <1>3
  <1> HIDE DEF Line
  <1>8. L = [m \in 1 .. n |-> Line(m)]
    BY <1>6, <1>7
  <1> QED
    BY <1>8 DEF Traced, Line

LEMMA TracedExists ==
  ASSUME NEW n \in Nat, NEW P, Early(P, n)
  PROVE  \E L : Traced(L, P, n)
  <1> DEFINE S == {k \in 0 .. n : ~\E L : Traced(L, P, k)}
  <1> SUFFICES ASSUME S # {} PROVE FALSE
    OBVIOUS
  <1>1. S \in SUBSET Nat
    OBVIOUS
  <1>2. PICK k \in S : \A m \in S : k <= m
    BY <1>1, FirstOf
  <1>3. k \in Nat /\ k <= n /\ ~\E L : Traced(L, P, k)
    BY <1>2
  <1>4. k # 0
    <2>1. PICK L : L = [m \in 1 .. 0 |-> {}]
      OBVIOUS
    <2>2. L = [m \in 1 .. 0 |-> {m} \cup UNION {L[i] : i \in P[m]}]
      BY <2>1
    <2> QED
      BY <1>3, <2>2 DEF Traced
  <1>5. k - 1 \in 0 .. n /\ ~(k <= k - 1) /\ \A m \in 1 .. k : m \in 1 .. n
    BY <1>3, <1>4
  <1>6. k - 1 \notin S
    BY <1>2, <1>5
  <1>7. PICK K : Traced(K, P, k - 1)
    BY <1>5, <1>6
  <1>8. Early(P, k)
    BY <1>5 DEF Early
  <1> QED
    BY <1>3, <1>4, <1>7, <1>8, TracedFurther

(* A longer table begins with the shorter one, and a node is not below a later one. *)
LEMMA TracedOnce ==
  ASSUME NEW n \in Nat, NEW m \in Nat, n <= m, NEW P, NEW Q, Early(P, n), \A k \in 1 .. n : P[k] = Q[k],
         NEW L, NEW K, Traced(L, P, n), Traced(K, Q, m)
  PROVE  \A k \in 1 .. n : L[k] = K[k] /\ L[k] \subseteq 1 .. k
  <1> DEFINE S == {k \in 1 .. n : ~(L[k] = K[k] /\ L[k] \subseteq 1 .. k)}
  <1> SUFFICES ASSUME S # {} PROVE FALSE
    OBVIOUS
  <1>1. S \in SUBSET Nat
    OBVIOUS
  <1>2. PICK k \in S : \A i \in S : k <= i
    BY <1>1, FirstOf
  <1>3. k \in 1 .. n /\ k \in 1 .. m /\ ~(L[k] = K[k] /\ L[k] \subseteq 1 .. k)
    BY <1>2
  <1>4. L[k] = {k} \cup UNION {L[i] : i \in P[k]} /\ K[k] = {k} \cup UNION {K[i] : i \in Q[k]} /\ P[k] = Q[k]
    BY <1>3 DEF Traced
  <1>5. ASSUME NEW i \in P[k] PROVE L[i] = K[i] /\ L[i] \subseteq 1 .. k
    <2>1. i \in 1 .. k - 1
      BY <1>3 DEF Early
    <2>2. i \in 1 .. n /\ ~(k <= i)
      BY <1>3, <2>1
    <2>3. L[i] = K[i] /\ L[i] \subseteq 1 .. i
      BY <1>2, <2>2
    <2>4. \A j \in 1 .. i : j \in 1 .. k
      BY <1>3, <2>1
    <2> QED
      BY <2>3, <2>4
  <1>6. {L[i] : i \in P[k]} = {K[i] : i \in P[k]}
    BY <1>5
  <1>7. L[k] = K[k]
    BY <1>4, <1>6
  <1>8. k \in 1 .. k
    BY <1>3
  <1>9. L[k] \subseteq 1 .. k
    BY <1>4, <1>5, <1>8
  <1> QED
    BY <1>3, <1>7, <1>9

LEMMA ParentsEarly == ASSUME Grown PROVE Early(Parents, Len(nodes))
  <1>1. /\ Len(nodes) \in Nat /\ Places = 1 .. Len(nodes)
        /\ \A m \in Places : Parents[m] = {n \in Places : m \in Range(nodes[n].children)}
    BY ManyNodes DEF Places
  <1>2. \A n \in Places : \A c \in Range(nodes[n].children) : c \in n + 1 .. Len(nodes)
    BY DEF Grown
  <1>3. ASSUME NEW m \in Places, NEW n \in Parents[m] PROVE n \in 1 .. m - 1
    <2>1. n \in Places /\ m \in n + 1 .. Len(nodes)
      BY <1>1, <1>2
    <2> QED
      BY <1>1, <2>1
  <1> QED
    BY <1>1, <1>3 DEF Early

LEMMA LineageTraced == Grown /\ iteration \in Nat => Traced(Lineage, Parents, Len(nodes)) /\ Parents[1] = {}
  <1> SUFFICES ASSUME Grown, iteration \in Nat PROVE Traced(Lineage, Parents, Len(nodes)) /\ Parents[1] = {}
    OBVIOUS
  <1>1. Len(nodes) \in Nat /\ Len(nodes) >= 1 /\ DOMAIN nodes = 1 .. Len(nodes)
    BY ManyNodes DEF Places, Grown
  <1>2. PICK L : Traced(L, Parents, Len(nodes))
    BY <1>1, ParentsEarly, TracedExists
  <1>3. L = [n \in DOMAIN nodes |-> {n} \union UNION {L[m] : m \in Parents[n]}]
    BY <1>1, <1>2 DEF Traced
  <1>4. Lineage = [n \in DOMAIN nodes |-> {n} \union UNION {Lineage[m] : m \in Parents[n]}]
    BY <1>3 DEF Lineage
  <1>5. Parents[1] \subseteq 1 .. 1 - 1 /\ 1 .. 1 - 1 = {}
    BY <1>1, ParentsEarly DEF Early
  <1> QED
    BY <1>1, <1>4, <1>5 DEF Traced

(* The path leads from the root to the node that is selected, and the posteriors are what *)
(* the leaves below were worth.                                                            *)
Weighed ==
  /\ Range(path) = Lineage[Current]
  /\ \A n \in Places \ {1} : nodes[n].score \in 0 .. One \cup {NaN}
  /\ PosteriorsAgree

(* The leaf is below the nodes on its path, and nothing else has moved.                   *)
LEMMA LineageLonger ==
  ASSUME Grown, Walked, Iterated, SpokenOnce(msgs), asst \in Seq(Call), NEW s \in Number, Insert(s),
         Grown', iteration' = iteration + 1
  PROVE  /\ \A m \in Places : Lineage'[m] = Lineage[m] /\ Lineage[m] \subseteq 1 .. m
         /\ Lineage'[Len(nodes) + 1] = {Len(nodes) + 1} \cup Lineage[Current]
  <1> DEFINE l == Len(nodes)
             c == Current
             Kids(n) == Range(nodes[n].children)
             Leaves == 1 .. l + 1
  <1>1. /\ c \in Places /\ l \in Nat /\ Places = 1 .. l /\ \A n \in Places : nodes[n] \in TreeNode
        /\ \A m \in Places : Parents[m] = {n \in Places : m \in Kids(n)}
    BY AnyCurrent, ManyNodes DEF Places
  <1>2. /\ nodes' \in Seq(TreeNode) /\ Len(nodes') = l + 1
        /\ \A n \in Places : n # c => nodes'[n].children = nodes[n].children
        /\ nodes'[c].children = Append(nodes[c].children, l + 1)
        /\ nodes'[l + 1].children = <<>>
    BY Inserted
  <1>3. DOMAIN nodes' = Leaves
    BY <1>2, LenProperties
  <1>4. Places \subseteq Leaves /\ l + 1 \in Leaves /\ l + 1 \notin Places /\ \A n \in Leaves : n \in Places \/ n = l + 1
    BY <1>1
  <1>5. Range(nodes'[c].children) = Kids(c) \cup {l + 1}
    <2>1. nodes[c].children \in Seq(Nat) /\ l + 1 \in Nat
      BY <1>1 DEF TreeNode
    <2> QED
      BY <1>2, <2>1, RangeLonger
  <1>6. Range(nodes'[l + 1].children) = {}
    BY <1>2 DEF Range
  <1>7. \A n \in Places : l + 1 \notin Kids(n)
    BY <1>1 DEF Grown
  <1>8. \A m \in Leaves : Parents'[m] = {n \in Leaves : m \in Range(nodes'[n].children)}
    BY <1>3 DEF Parents
  <1> HIDE DEF c, l
  <1>9. ASSUME NEW m \in Places PROVE Parents'[m] = Parents[m]
    <2>1. \A n \in Places : m \in Range(nodes'[n].children) <=> m \in Kids(n)
      BY <1>2, <1>4, <1>5
    <2>2. {n \in Leaves : m \in Range(nodes'[n].children)} = {n \in Places : m \in Kids(n)}
      BY <1>4, <1>6, <2>1
    <2> QED
      BY <1>1, <1>4, <1>8, <2>2
  <1>10. Parents'[l + 1] = {c}
    <2>1. \A n \in Leaves : l + 1 \in Range(nodes'[n].children) <=> n = c
      BY <1>1, <1>2, <1>4, <1>5, <1>6, <1>7
    <2> QED
      BY <1>1, <1>4, <1>8, <2>1
  <1>11. iteration \in Nat /\ iteration' \in Nat
    BY DEF Iterated
  <1>12. Traced(Lineage, Parents, l)
    BY <1>11, LineageTraced DEF l
  <1>13. Traced(Lineage', Parents', Len(nodes'))
    <2>1. (Grown /\ iteration \in Nat)' => Traced(Lineage, Parents, Len(nodes))'
      BY LineageTraced, PTL
    <2> QED
      BY <1>11, <2>1 DEF Traced
  <1>14. Early(Parents, l)
    BY ParentsEarly DEF l
  <1>15. \A m \in 1 .. l : Lineage[m] = Lineage'[m] /\ Lineage[m] \subseteq 1 .. m
    <2>1. PICK L, P, K, Q : L = Lineage /\ P = Parents /\ K = Lineage' /\ Q = Parents'
      OBVIOUS
    <2>2. Early(P, l) /\ Traced(L, P, l) /\ Traced(K, Q, l + 1) /\ \A k \in 1 .. l : P[k] = Q[k]
      BY <1>1, <1>2, <1>9, <1>12, <1>13, <1>14, <2>1
    <2>3. l \in Nat /\ l + 1 \in Nat /\ l <= l + 1
      BY <1>1
    <2>4. \A k \in 1 .. l : L[k] = K[k] /\ L[k] \subseteq 1 .. k
      BY <2>2, <2>3, TracedOnce
    <2> QED
      BY <2>1, <2>4
  <1>16. Lineage'[l + 1] = {l + 1} \cup UNION {Lineage'[k] : k \in Parents'[l + 1]}
    BY <1>2, <1>4, <1>13 DEF Traced
  <1>17. Lineage'[l + 1] = {l + 1} \cup Lineage'[c]
    BY <1>10, <1>16
  <1> QED
    BY <1>1, <1>15, <1>17 DEF c, l

(* One more number in a row of them.                                                      *)
LEMMA WonLonger ==
  ASSUME NEW l \in Nat, NEW f, Weights(f, l), NEW w \in Weight, NEW g,
         g = [m \in 1 .. l + 1 |-> IF m = l + 1 THEN w ELSE f[m]]
  PROVE  Weights(g, l + 1) /\ Total(g) = Plus(Total(f), w)
  <1>1. l + 1 \in 1 .. l + 1 /\ \A m \in 1 .. l : m \in 1 .. l + 1 /\ m # l + 1
    OBVIOUS
  <1>2. g[l + 1] = w /\ \A m \in 1 .. l : g[m] = f[m]
    BY <1>1
  <1>3. \A m \in 1 .. l + 1 : m # l + 1 => m \in 1 .. l
    OBVIOUS
  <1>4. \A m \in 1 .. l + 1 : g[m] \in Weight
    BY <1>2, <1>3 DEF Weights
  <1>5. g = [m \in 1 .. l + 1 |-> g[m]]
    OBVIOUS
  <1>6. Weights(g, l + 1)
    BY <1>4, <1>5 DEF Weights
  <1> QED
    BY <1>2, <1>6, TotalLonger

(* What a leaf adds to the sums of a node: its score below the node, nothing elsewhere.     *)
LEMMA Gained ==
  ASSUME NEW l \in Nat, NEW f, Weights(f, l), NEW w \in Weight, NEW In \in BOOLEAN, NEW a, a = Plus(One, Total(f)),
         NEW b, b = IF In THEN Plus(a, w) ELSE a,
         NEW g, g = [m \in 1 .. l + 1 |-> IF m = l + 1 THEN IF In THEN w ELSE 0 ELSE f[m]]
  PROVE  b = Plus(One, Total(g))
  <1>1. PICK v \in Weight : v = IF In THEN w ELSE 0
    BY WeightsAdd
  <1>2. g = [m \in 1 .. l + 1 |-> IF m = l + 1 THEN v ELSE f[m]]
    BY <1>1
  <1>3. Total(g) = Plus(Total(f), v)
    BY <1>2, WonLonger
  <1>4. Total(f) \in Weight
    BY TotalWeighs
  <1>5. Plus(One, Total(g)) = Plus(a, v)
    BY <1>3, <1>4, WeightsAdd
  <1>6. a \in Weight
    BY <1>4, WeightsAdd
  <1> QED
    BY <1>1, <1>5, <1>6, WeightsAdd


(* What the nodes below n were worth are weights.                                          *)
LEMMA RowsWeigh ==
  ASSUME Grown, Weighed, NEW n
  PROVE  Weights(Won(Below(n)), Len(nodes)) /\ Weights(Lost(Below(n)), Len(nodes))
  <1>1. DOMAIN nodes = 1 .. Len(nodes) /\ Places = 1 .. Len(nodes)
    BY ManyNodes DEF Places
  <1>2. \A m \in 1 .. Len(nodes) : m # 1 => nodes[m].score \in Weight /\ Minus(One, nodes[m].score) \in Weight
    BY <1>1, WeightsAdd DEF Weighed
  <1>3. \A m \in 1 .. Len(nodes) : Won(Below(n))[m] \in Weight /\ Lost(Below(n))[m] \in Weight
    BY <1>1, <1>2, WeightsAdd DEF Won, Lost, Below
  <1>4. Won(Below(n)) = [m \in 1 .. Len(nodes) |-> Won(Below(n))[m]] /\ Lost(Below(n)) = [m \in 1 .. Len(nodes) |-> Lost(Below(n))[m]]
    BY <1>1 DEF Won, Lost, Below
  <1> QED
    BY <1>3, <1>4 DEF Weights

LEMMA WeighedFurther ==
  ASSUME Grown, Walked, Iterated, Weighed, SpokenOnce(msgs), asst \in Seq(Call),
         NEW s \in 0 .. One \cup {NaN}, Insert(s), Grown', iteration' = iteration + 1, path' = << 1 >>
  PROVE  Weighed'
  <1> DEFINE l == Len(nodes)
  <1>1. l \in Nat /\ l >= 1 /\ DOMAIN nodes = 1 .. l /\ Places = 1 .. l
    BY ManyNodes DEF Places, Grown, Iterated
  <1>2. s \in Number /\ s \in Weight /\ Minus(One, s) \in Weight
    BY WeightsAdd DEF Number
  <1>3. /\ nodes' \in Seq(TreeNode) /\ Len(nodes') = l + 1
        /\ \A n \in 1 .. l :
             /\ nodes'[n].score = nodes[n].score
             /\ nodes'[n].alpha = IF n \in Range(path) THEN Plus(nodes[n].alpha, s) ELSE nodes[n].alpha
             /\ nodes'[n].beta = IF n \in Range(path) THEN Plus(nodes[n].beta, Minus(One, s)) ELSE nodes[n].beta
        /\ nodes'[l + 1].score = s
        /\ nodes'[l + 1].alpha = Plus(One, s) /\ nodes'[l + 1].beta = Plus(One, Minus(One, s))
    BY <1>1, <1>2, Inserted
  <1>4. DOMAIN nodes' = 1 .. l + 1 /\ Places' = 1 .. l + 1
    BY <1>3, LenProperties DEF Places
  <1>5. /\ \A m \in 1 .. l : Lineage'[m] = Lineage[m] /\ Lineage[m] \subseteq 1 .. m
        /\ Lineage'[l + 1] = {l + 1} \cup Range(path)
    BY <1>1, <1>2, LineageLonger DEF Weighed
  <1>6. /\ l + 1 \in 1 .. l + 1 /\ l + 1 # 1 /\ \A m \in 1 .. l : m \in 1 .. l + 1 /\ m # l + 1
        /\ \A m \in 1 .. l + 1 : m # l + 1 => m \in 1 .. l
    BY <1>1
  <1>7. ASSUME NEW n PROVE Weights(Won(Below(n)), l) /\ Weights(Lost(Below(n)), l)
    BY RowsWeigh
  <1> HIDE DEF l
  <1>8. Range(path') = Lineage'[Current']
    <2>1. Range(path') = {1} /\ Current' = 1
      BY DEF Range, Current
    <2>2. iteration \in Nat /\ 1 \in 1 .. l
      BY <1>1 DEF Iterated
    <2>3. Lineage[1] = {1}
      BY <2>2, LineageTraced DEF Traced, l
    <2> QED
      BY <1>5, <2>1, <2>2, <2>3
  <1>9. \A n \in Places' \ {1} : nodes'[n].score \in 0 .. One \cup {NaN}
    BY <1>1, <1>3, <1>4, <1>6 DEF Weighed
  <1>10. ASSUME NEW n \in 1 .. l
         PROVE  nodes'[n].alpha = Plus(One, Total(Won(Below(n))')) /\ nodes'[n].beta = Plus(One, Total(Lost(Below(n))'))
    <2>1. n \in Lineage'[l + 1] <=> n \in Range(path)
      BY <1>5, <1>6
    <2>2. PICK In \in BOOLEAN : In <=> n \in Range(path)
      OBVIOUS
    <2>3. nodes[n].alpha = Plus(One, Total(Won(Below(n)))) /\ nodes[n].beta = Plus(One, Total(Lost(Below(n))))
      BY <1>1 DEF Weighed, PosteriorsAgree
    <2>4. Won(Below(n))' = [m \in 1 .. l + 1 |-> IF m = l + 1 THEN IF In THEN s ELSE 0 ELSE Won(Below(n))[m]]
      <3>1. ASSUME NEW m \in 1 .. l + 1
            PROVE  (IF m # 1 /\ n \in Lineage'[m] THEN nodes'[m].score ELSE 0)
                     = IF m = l + 1 THEN IF In THEN s ELSE 0 ELSE Won(Below(n))[m]
        <4>1. CASE m = l + 1
          BY <1>3, <1>6, <2>1, <2>2, <4>1
        <4>2. CASE m # l + 1
          <5>1. m \in 1 .. l /\ nodes'[m].score = nodes[m].score /\ Lineage'[m] = Lineage[m]
            BY <1>3, <1>5, <1>6, <4>2
          <5> QED
            BY <1>1, <4>2, <5>1 DEF Won, Below
        <4> QED
          BY <4>1, <4>2
      <3> QED
        BY <1>4, <3>1 DEF Won, Below
    <2>5. Lost(Below(n))' = [m \in 1 .. l + 1 |-> IF m = l + 1 THEN IF In THEN Minus(One, s) ELSE 0 ELSE Lost(Below(n))[m]]
      <3>1. ASSUME NEW m \in 1 .. l + 1
            PROVE  (IF m # 1 /\ n \in Lineage'[m] THEN Minus(One, nodes'[m].score) ELSE 0)
                     = IF m = l + 1 THEN IF In THEN Minus(One, s) ELSE 0 ELSE Lost(Below(n))[m]
        <4>1. CASE m = l + 1
          BY <1>3, <1>6, <2>1, <2>2, <4>1
        <4>2. CASE m # l + 1
          <5>1. m \in 1 .. l /\ nodes'[m].score = nodes[m].score /\ Lineage'[m] = Lineage[m]
            BY <1>3, <1>5, <1>6, <4>2
          <5> QED
            BY <1>1, <4>2, <5>1 DEF Lost, Below
        <4> QED
          BY <4>1, <4>2
      <3> QED
        BY <1>4, <3>1 DEF Lost, Below
    <2>6. nodes'[n].alpha = IF In THEN Plus(nodes[n].alpha, s) ELSE nodes[n].alpha
      BY <1>3, <2>2
    <2>7. nodes'[n].beta = IF In THEN Plus(nodes[n].beta, Minus(One, s)) ELSE nodes[n].beta
      BY <1>3, <2>2
    <2>8. nodes'[n].alpha = Plus(One, Total(Won(Below(n))'))
      <3>1. PICK f, g, a, b : /\ f = Won(Below(n)) /\ g = Won(Below(n))'
                              /\ a = nodes[n].alpha /\ b = nodes'[n].alpha
        OBVIOUS
      <3>2. /\ Weights(f, l) /\ a = Plus(One, Total(f)) /\ b = IF In THEN Plus(a, s) ELSE a
            /\ g = [m \in 1 .. l + 1 |-> IF m = l + 1 THEN IF In THEN s ELSE 0 ELSE f[m]]
        BY ONLY <1>7, <2>3, <2>4, <2>6, <3>1
      <3>3. b = Plus(One, Total(g))
        BY ONLY <1>1, <1>2, <3>2, Gained
      <3> QED
        BY <3>1, <3>3
    <2>9. nodes'[n].beta = Plus(One, Total(Lost(Below(n))'))
      <3>1. PICK w \in Weight : w = Minus(One, s)
        BY <1>2
      <3>2. Lost(Below(n))' = [m \in 1 .. l + 1 |-> IF m = l + 1 THEN IF In THEN w ELSE 0 ELSE Lost(Below(n))[m]]
        BY <2>5, <3>1
      <3>3. nodes'[n].beta = IF In THEN Plus(nodes[n].beta, w) ELSE nodes[n].beta
        BY <2>7, <3>1
      <3> QED
        <4>1. PICK f, g, a, b : /\ f = Lost(Below(n)) /\ g = Lost(Below(n))'
                                /\ a = nodes[n].beta /\ b = nodes'[n].beta
          OBVIOUS
        <4>2. /\ Weights(f, l) /\ a = Plus(One, Total(f)) /\ b = IF In THEN Plus(a, w) ELSE a
              /\ g = [m \in 1 .. l + 1 |-> IF m = l + 1 THEN IF In THEN w ELSE 0 ELSE f[m]]
          BY ONLY <1>7, <2>3, <3>2, <3>3, <4>1
        <4>3. b = Plus(One, Total(g))
          BY ONLY <1>1, <3>1, <4>2, Gained
        <4> QED
          BY <4>1, <4>3
    <2> QED
      BY <2>8, <2>9
  <1>11. PICK k : k = l + 1
    OBVIOUS
  <1>12. nodes'[k].alpha = Plus(One, Total(Won(Below(k))')) /\ nodes'[k].beta = Plus(One, Total(Lost(Below(k))'))
    <2>1. PICK f : f = [m \in 1 .. l |-> 0]
      OBVIOUS
    <2>2. Weights(f, l) /\ Total(f) = 0
      <3>1. f = [m \in 1 .. l |-> f[m]] /\ \A m \in 1 .. l : f[m] = 0
        BY <2>1
      <3>2. Weights(f, l)
        BY <3>1, WeightsAdd DEF Weights
      <3> QED
        BY <1>1, <3>1, <3>2, TotalNothing
    <2>3. \A m \in 1 .. l : k \notin Lineage'[m]
      BY <1>1, <1>5, <1>11
    <2>4. k \in Lineage'[l + 1]
      BY <1>5, <1>11
    <2>5. \A m \in 1 .. l + 1 : (m # 1 /\ k \in Lineage'[m]) <=> m = l + 1
      BY <1>6, <2>3, <2>4
    <2>6. Won(Below(k))' = [m \in 1 .. l + 1 |-> IF m = l + 1 THEN s ELSE f[m]]
      <3>1. \A m \in 1 .. l + 1 :
              (IF m # 1 /\ k \in Lineage'[m] THEN nodes'[m].score ELSE 0) = IF m = l + 1 THEN s ELSE f[m]
        BY <1>3, <1>6, <2>1, <2>5
      <3> QED
        BY <1>4, <3>1 DEF Won, Below
    <2>7. Lost(Below(k))' = [m \in 1 .. l + 1 |-> IF m = l + 1 THEN Minus(One, s) ELSE f[m]]
      <3>1. \A m \in 1 .. l + 1 :
              (IF m # 1 /\ k \in Lineage'[m] THEN Minus(One, nodes'[m].score) ELSE 0)
                = IF m = l + 1 THEN Minus(One, s) ELSE f[m]
        BY <1>3, <1>6, <2>1, <2>5
      <3> QED
        BY <1>4, <3>1 DEF Lost, Below
    <2>8. Total(Won(Below(k))') = s
      <3>1. Total(Won(Below(k))') = Plus(0, s)
        BY ONLY <1>1, <1>2, <2>2, <2>6, WonLonger
      <3> QED
        BY <1>2, <3>1, WeightsAdd
    <2>9. Total(Lost(Below(k))') = Minus(One, s)
      <3>1. PICK w \in Weight : w = Minus(One, s)
        BY <1>2
      <3>2. Lost(Below(k))' = [m \in 1 .. l + 1 |-> IF m = l + 1 THEN w ELSE f[m]]
        BY <2>7, <3>1
      <3>3. Total(Lost(Below(k))') = Plus(0, w)
        BY ONLY <1>1, <2>2, <3>2, WonLonger
      <3> QED
        BY <3>1, <3>3, WeightsAdd
    <2> QED
      BY <1>3, <1>11, <2>8, <2>9
  <1>13. ASSUME NEW n \in DOMAIN nodes'
         PROVE  nodes'[n].alpha = Plus(One, Total(Won(Below(n))')) /\ nodes'[n].beta = Plus(One, Total(Lost(Below(n))'))
    <2>1. CASE n = k
      BY <1>12, <2>1
    <2>2. CASE n # k
      BY <1>4, <1>6, <1>10, <1>11, <2>2
    <2> QED
      BY <2>1, <2>2
  <1>14. PosteriorsAgree'
    <2>1. PosteriorsAgree' <=> \A n \in DOMAIN nodes' : /\ nodes'[n].alpha = Plus(One, Total(Won(Below(n))'))
                                                        /\ nodes'[n].beta = Plus(One, Total(Lost(Below(n))'))
      BY DEF PosteriorsAgree
    <2> QED
      BY <1>13, <2>1
  <1> QED
    BY <1>8, <1>9, <1>14 DEF Weighed


LEMMA NextWeighed ==
  ASSUME Searching, Iterated, Heard, Grown, Walked, Weighed, SpokenOnce(msgs), SearchNext, Grown'
  PROVE  Weighed'
  <1>1. ASSUME UNCHANGED nodes
        PROVE  /\ Lineage' = Lineage /\ Places' = Places
               /\ \A n \in Places \ {1} : nodes'[n].score \in 0 .. One \cup {NaN}
               /\ PosteriorsAgree'
    <2>1. Parents' = Parents
      BY <1>1 DEF Parents
    <2>2. Lineage' = Lineage
      BY <1>1, <2>1 DEF Lineage
    <2>3. PosteriorsAgree' = PosteriorsAgree
      BY <1>1, <2>2 DEF PosteriorsAgree, Won, Lost, Below
    <2> QED
      BY <1>1, <2>2, <2>3 DEF Weighed, Places
  <1>2. ASSUME UNCHANGED <<nodes, path>> PROVE Weighed'
    BY <1>1, <1>2 DEF Weighed, Current
  <1>3. CASE BeginIteration \/ SendPartial \/ Yield \/ Choose \/ Roll \/ Rolled \/ Expand
    BY <1>2, <1>3 DEF BeginIteration, SendPartial, Yield, Choose, Roll, Rolled, Expand
  <1>4. CASE Descend
    <2>1. UNCHANGED nodes
      BY <1>4 DEF Descend
    <2>2. PICK c \in Range(nodes[Current].children) : path' = Append(path, c)
      BY <1>4 DEF Descend
    <2>3. PICK n \in Places : n = Current
      BY AnyCurrent
    <2>4. /\ Places = 1 .. Len(nodes) /\ Len(nodes) \in Nat /\ path \in Seq(Nat)
          /\ \A m \in Places : Parents[m] = {i \in Places : m \in Range(nodes[i].children)}
      BY ManyNodes DEF Places, Walked
    <2>5. c \in n + 1 .. Len(nodes)
      BY <2>2, <2>3 DEF Grown
    <2>6. c \in Places /\ c # 1 /\ c \in Nat
      BY <2>3, <2>4, <2>5
    <2>7. Parents[c] = {n}
      <3>1. \E i \in Places : Parents[c] = {i}
        BY <2>6 DEF Grown
      <3>2. n \in Parents[c]
        BY <2>2, <2>3, <2>4, <2>6
      <3> QED
        BY <3>1, <3>2
    <2>8. Lineage[c] = {c} \cup Lineage[n]
      <3>1. Traced(Lineage, Parents, Len(nodes))
        BY LineageTraced DEF Iterated
      <3>2. Lineage[c] = {c} \cup UNION {Lineage[i] : i \in Parents[c]}
        BY <2>4, <2>6, <3>1 DEF Traced
      <3> QED
        BY <2>7, <3>2
    <2>9. Range(path') = Range(path) \cup {c} /\ Current' = c
      <3>1. Append(path, c)[Len(path) + 1] = c /\ Len(Append(path, c)) = Len(path) + 1
        BY <2>4, <2>6, AppendProperties
      <3> QED
        BY <2>2, <2>4, <2>6, <3>1, RangeLonger DEF Current
    <2>10. Range(path') = Lineage'[Current']
      BY <1>1, <2>1, <2>3, <2>8, <2>9 DEF Weighed
    <2> QED
      BY <1>1, <2>1, <2>10 DEF Weighed
  <1>5. CASE Verify
    <2>1. CASE UNCHANGED <<nodes, path>>
      BY <1>2, <2>1
    <2>2. ASSUME NEW raw \in Raw, Insert(Clamp(raw)), iteration' = iteration + 1, path' = << 1 >>
          PROVE  Weighed'
      <3>1. PICK s \in 0 .. One \cup {NaN} : s = Clamp(raw)
        BY Clamped
      <3>2. Insert(s) /\ asst \in Seq(Call)
        BY <2>2, <3>1 DEF Heard
      <3> QED
        BY <2>2, <3>2, WeighedFurther
    <2>3. \/ UNCHANGED <<nodes, path>>
          \/ \E raw \in Raw : Insert(Clamp(raw)) /\ iteration' = iteration + 1 /\ path' = <<1>>
      BY <1>5 DEF Verify
    <2> QED
      BY <2>1, <2>2, <2>3
  <1> QED
    BY <1>3, <1>4, <1>5, Searched

-----------------------------------------------------------------------------
(* What a rollout says.                                                           *)

(* A list that has grown from the node, with no open calls of its own.              *)
Since(ms) ==
  /\ SpokenOnce(ms) /\ Len(ms) >= Len(nodes[Current].conv)
  /\ Answered(ms, Len(nodes[Current].conv) + 1)

Talking ==
  /\ SpokenOnce(msgs)
  /\ provider \in [id : Providers \cup {None}, role : Roles \cup {None}]
  /\ at = "rollout" =>
       /\ pc \in {"turn", "call", "fallback", "chunks", "push"} => Since(msgs)
       /\ pc \in {"policy", "tool", "results"} =>
            asst # <<>> /\ \E ms \in Seq(ListItem) : Since(ms) /\ msgs = Append(ms, Called(asst))

LEMMA SinceSame ==
  ASSUME UNCHANGED <<nodes, path>>, NEW ms
  PROVE  Since(ms)' = Since(ms)
  BY DEF Since, Current

(* The router names one of the pool for a rollout.                                  *)
LEMMA RolloutRouted ==
  ASSUME Searching, Grown, Walked, Expand, at' = "rollout"
  PROVE  provider' \in [id : Providers \cup {None}, role : Roles \cup {None}]
  <1>1. /\ DOMAIN Pool = 1 .. Len(Pool) /\ Len(Pool) \in Nat \ {0}
        /\ \A k \in 1 .. Len(Pool) : Pool[k] \in Providers
    BY LoopAssumption, LenProperties, EmptySeq, ElementOfSeq DEF LoopAssumption, Providers
  <1>2. PICK p \in (IF router = "none" THEN {Pool[1]} ELSE Named(router, nodes[Current].conv, Pool)) :
          provider' = [id |-> p, role |-> None]
    BY DEF Expand, PickRolloutProvider, Stop
  <1>3. SpokenOnce(nodes[Current].conv)
    BY AnyCurrent DEF Grown
  <1>4. CASE router = "none"
    BY <1>1, <1>2, <1>4
  <1>5. CASE router \in BuiltIn
    <2>1. p = TheRoute(nodes[Current].conv, Pool)
      BY <1>2, <1>5, NamedBuiltIn DEF BuiltIn
    <2>2. /\ \E k \in 1 .. Len(Pool) : RegexRoute(nodes[Current].conv, Pool) = Pool[k]
          /\ \E k \in 1 .. Len(Pool) : OnnxRoute(nodes[Current].conv, Pool) = Pool[k]
      BY <1>1, <1>3, RoutesIn
    <2>3. p \in Providers
      BY <1>1, <2>1, <2>2 DEF TheRoute
    <2> QED
      BY <1>2, <2>3
  <1>6. CASE router = "foreign"
    BY <1>2, <1>6 DEF Named, Providers
  <1>7. router = "none" \/ router \in BuiltIn \/ router = "foreign"
    BY LoopAssumption DEF Searching, LoopAssumption, BuiltIn
  <1> QED
    BY <1>4, <1>5, <1>6, <1>7

LEMMA NextTalking ==
  ASSUME Searching, Heard, Grown, Walked, Talking, SearchNext PROVE Talking'
  <1> DEFINE base == nodes[Current].conv
  <1>0. SpokenOnce(base) /\ Len(base) \in Nat
    BY AnyCurrent, LenProperties DEF Grown, SpokenOnce
  <1>1. ASSUME UNCHANGED <<msgs, provider, nodes, path, asst, pc>>, at' = "rollout" => at = "rollout"
        PROVE  Talking'
    BY <1>1, SinceSame DEF Talking
  <1>2. ASSUME UNCHANGED <<msgs, provider>>, at' # "rollout" PROVE Talking'
    BY <1>2 DEF Talking
  <1>3. CASE BeginIteration \/ Descend \/ SendPartial \/ Yield
    <2>1. CASE BeginIteration \/ Descend
      BY <1>2, <2>1 DEF BeginIteration, Descend, loopVars, talk
    <2>2. CASE SendPartial \/ Yield
      BY <1>1, <2>2 DEF SendPartial, Yield, loopVars
    <2> QED
      BY <1>3, <2>1, <2>2
  <1>4. CASE Expand
    <2>1. msgs' = base /\ UNCHANGED <<nodes, path>>
      BY <1>4 DEF Expand
    <2>2. CASE at' = "rollout"
      <3>1. provider' \in [id : Providers \cup {None}, role : Roles \cup {None}] /\ pc' = "turn"
        BY <1>4, <2>2, RolloutRouted DEF Expand, PickRolloutProvider, Stop
      <3>2. Since(base)
        BY <1>0 DEF Since, Answered
      <3>3. Since(msgs)'
        BY <2>1, <3>2 DEF Since, Current
      <3> QED
        BY <1>0, <2>1, <3>1, <3>3 DEF Talking
    <2>3. CASE at' # "rollout"
      BY <1>0, <1>4, <2>1, <2>3 DEF Talking, Expand, PickRolloutProvider, Stop
    <2> QED
      BY <2>2, <2>3
  <1>5. CASE Roll
    <2>0. at = "rollout" /\ UNCHANGED <<nodes, path>>
      BY <1>5 DEF Roll
    <2>a. ASSUME NEW ms PROVE Since(ms)' = Since(ms)
      BY <2>0, SinceSame
    <2>1. CASE StartStep \/ Chat \/ OpenStream \/ TextDelta \/ CallDelta \/ ChunkFails \/ StreamEnds
      <3>1. /\ UNCHANGED <<msgs, provider>> /\ pc \in {"turn", "call", "fallback", "chunks"}
            /\ pc' \notin {"policy", "tool", "results"}
        BY <2>1 DEF StartStep, Chat, OpenStream, TextDelta, CallDelta, ChunkFails, StreamEnds, talk, Fail,
                    Searching
      <3> QED
        BY <2>0, <2>a, <3>1 DEF Talking
    <2>2. CASE Push
      <3>1. /\ msgs' = Append(msgs, Called(asst)) /\ asst \in Seq(Call) /\ UNCHANGED <<asst, provider>>
            /\ (pc' = "policy" /\ asst # <<>>) \/ pc' = "finish"
            /\ Since(msgs) /\ msgs \in Seq(ListItem)
        BY <2>0, <2>2 DEF Push, Heard, Talking, SpokenOnce, answer
      <3>2. SpokenOnce(msgs')
        BY <3>1, Longer DEF Talking
      <3> QED
        BY <2>a, <3>1, <3>2 DEF Talking
    <2>3. CASE Policy \/ ToolReturns
      <3>1. /\ UNCHANGED <<msgs, provider, asst>> /\ pc \in {"policy", "tool"}
            /\ pc' \in {"policy", "tool", "results", "failed"}
        BY <2>3 DEF Policy, ToolReturns, talk, Fail, answer
      <3> QED
        BY <2>0, <2>a, <3>1 DEF Talking
    <2>4. CASE PushResults
      <3>1. /\ msgs' = Append(msgs, Returned(asst)) /\ asst \in Seq(Call) /\ asst # <<>>
            /\ UNCHANGED provider /\ pc' \in {"finish", "turn"} /\ pc = "results"
        BY <2>0, <2>4 DEF PushResults, Heard, Talking
      <3>2. PICK ms \in Seq(ListItem) : Since(ms) /\ msgs = Append(ms, Called(asst))
        BY <2>0, <3>1 DEF Talking
      <3>3. SpokenOnce(msgs')
        BY <3>1, Longer DEF Talking
      <3>4. Answered(msgs', Len(base) + 1)
        <4>1. PICK from \in Nat \ {0} : from = Len(base) + 1
          BY <1>0
        <4>2. Answered(ms, from) /\ Len(ms) >= 1
          BY <3>2, <4>1 DEF Since, SpokenOnce
        <4> QED
          BY <3>1, <3>2, <4>1, <4>2, Settles
      <3>5. Len(msgs') >= Len(base)
        <4>1. Len(msgs) = Len(ms) + 1 /\ Len(msgs') = Len(msgs) + 1
          BY <3>1, <3>2, Longer DEF Talking, Since
        <4>2. Len(ms) \in Nat /\ Len(ms) >= Len(base)
          BY <3>2, LenProperties DEF Since
        <4> QED
          BY <1>0, <4>1, <4>2
      <3>6. Since(msgs)'
        BY <2>0, <3>3, <3>4, <3>5 DEF Since, Current
      <3> QED
        BY <3>1, <3>3, <3>6 DEF Talking
    <2> QED
      BY <1>5, <2>1, <2>2, <2>3, <2>4 DEF Roll, LoopStep
  <1>6. CASE Rolled \/ Choose
    BY <1>2, <1>6 DEF Rolled, Choose, Stop, talk
  <1>7. CASE Verify
    <2>1. CASE Stop("failed") /\ UNCHANGED <<talk, provider>>
      BY <1>2, <2>1 DEF Stop, talk
    <2>2. CASE Forget /\ at' \in {"choose", "begin"}
      <3>1. msgs' = nodes[1].conv /\ provider' = [id |-> None, role |-> None]
        BY <2>2 DEF Forget
      <3>2. SpokenOnce(nodes[1].conv)
        <4>1. 1 \in Places
          BY AnyCurrent DEF Places
        <4> QED
          BY <4>1 DEF Grown
      <3> QED
        BY <2>2, <3>1, <3>2 DEF Talking
    <2> QED
      BY <1>7, <2>1, <2>2 DEF Verify
  <1> QED
    BY <1>3, <1>4, <1>5, <1>6, <1>7, Searched

-----------------------------------------------------------------------------
(* The theorems about the search.                                                 *)

SearchInv ==
  Searching /\ Iterated /\ Metered /\ Heard /\ Grown /\ Walked /\ Leading /\ Weighed /\ Talking

LEMMA InitTree == Init => Grown /\ Walked /\ Leading /\ Talking
  <1> SUFFICES ASSUME Init PROVE Grown /\ Walked /\ Leading /\ Talking
    OBVIOUS
  <1>1. /\ SpokenOnce(msgs) /\ Closed(msgs) /\ nodes = <<Node(msgs, NaN, 0)>> /\ path = <<1>> /\ iteration = 0
        /\ best = None /\ bestScore = -1 /\ at = "begin" /\ provider = [id |-> None, role |-> None]
    BY InitListed DEF Init, LoopInit, Listed
  <1>2. Node(msgs, NaN, 0) \in TreeNode
    BY <1>1, SearchConstants, EmptySeq DEF Node, TreeNode, SpokenOnce, Number
  <1>3. /\ nodes \in Seq(TreeNode) /\ Len(nodes) = 1 /\ DOMAIN nodes = {1} /\ Places = {1}
        /\ nodes[1].conv = msgs /\ nodes[1].children = <<>>
    BY <1>1, <1>2 DEF Node, Places
  <1>4. Range(nodes[1].children) = {} /\ Len(nodes[1].children) = 0
    BY <1>3 DEF Range
  <1>5. Grown
    BY <1>1, <1>3, <1>4, SearchConstants DEF Grown
  <1>6. Walked
    BY <1>1, <1>3 DEF Walked
  <1>7. Scored = {}
    BY <1>3 DEF Scored
  <1>8. Leading
    BY <1>1, <1>7 DEF Leading, BestIsBest
  <1>9. Talking
    BY <1>1 DEF Talking
  <1> QED
    BY <1>5, <1>6, <1>8, <1>9

LEMMA InitWeighed == Init => Weighed
  <1> SUFFICES ASSUME Init PROVE Weighed
    OBVIOUS
  <1>1. Grown /\ iteration \in Nat
    BY InitTree DEF Init
  <1>2. /\ nodes = <<Node(msgs, NaN, 0)>> /\ path = <<1>>
        /\ Len(nodes) = 1 /\ DOMAIN nodes = 1 .. 1 /\ nodes[1].alpha = One /\ nodes[1].beta = One
    BY DEF Init, Node
  <1>3. Lineage[1] = {1}
    <2>1. Traced(Lineage, Parents, 1) /\ Parents[1] = {}
      BY <1>1, <1>2, LineageTraced
    <2> QED
      BY <2>1 DEF Traced
  <1>4. Range(path) = {1} /\ Current = 1 /\ Places = {1}
    BY <1>2 DEF Range, Current, Places
  <1>5. PICK f : f = [m \in 1 .. 1 |-> 0]
    OBVIOUS
  <1>6. Won(Below(1)) = f /\ Lost(Below(1)) = f
    BY <1>2, <1>5 DEF Won, Lost, Below
  <1>7. Total(f) = 0
    <2>1. f = [m \in 1 .. 1 |-> f[m]] /\ \A m \in 1 .. 1 : f[m] = 0
      BY <1>5
    <2>2. Weights(f, 1)
      BY <2>1, WeightsAdd DEF Weights
    <2> QED
      BY <2>1, <2>2, TotalNothing
  <1>8. PosteriorsAgree
    BY <1>2, <1>6, <1>7, WeightsAdd DEF PosteriorsAgree
  <1> QED
    BY <1>3, <1>4, <1>8 DEF Weighed

LEMMA SearchLasting == Spec => []SearchInv
  <1>1. Init => SearchInv
    BY InitSearching, InitTree, InitWeighed DEF SearchInv
  <1>2. ASSUME SearchInv, SearchNext PROVE SearchInv'
    <2>1. Searching' /\ Iterated' /\ Heard'
      BY <1>2, NextSearching, NextIterated, NextSaid DEF SearchInv
    <2>2. Metered'
      BY <1>2, <2>1, NextMetered DEF SearchInv
    <2>3. Grown' /\ Walked' /\ Leading'
      BY <1>2, NextTree DEF SearchInv, Talking
    <2>4. Talking'
      BY <1>2, NextTalking DEF SearchInv
    <2>5. Weighed'
      BY <1>2, <2>3, NextWeighed DEF SearchInv, Talking
    <2> QED
      BY <2>1, <2>2, <2>3, <2>4, <2>5 DEF SearchInv
  <1>3. ASSUME SearchInv, UNCHANGED vars PROVE SearchInv'
    <2> USE <1>3 DEF vars, loopVars, searchVars
    <2>1. Searching' = Searching /\ Iterated' = Iterated /\ Metered' = Metered
      BY DEF Searching, Iterated, Metered, Fits
    <2>2. Heard' = Heard
      BY DEF Heard
    <2>3. Parents' = Parents /\ Places' = Places /\ Scored' = Scored
      BY DEF Parents, Places, Scored
    <2>4. Grown' = Grown
      BY <2>3 DEF Grown
    <2>5. Walked' = Walked /\ Leading' = Leading
      BY <2>3 DEF Walked, Current, Leading, BestIsBest
    <2>6. Talking' = Talking
      BY DEF Talking, Since, Current
    <2>7. Lineage' = Lineage
      BY <2>3 DEF Lineage
    <2>8. PosteriorsAgree' = PosteriorsAgree
      BY <2>7 DEF PosteriorsAgree, Won, Lost, Below
    <2>9. Weighed' = Weighed
      BY <2>3, <2>7, <2>8 DEF Weighed, Current
    <2> QED
      BY <2>1, <2>2, <2>4, <2>5, <2>6, <2>9 DEF SearchInv
  <1>4. SearchInv /\ [SearchNext]_vars => SearchInv'
    BY <1>2, <1>3
  <1> QED
    BY <1>1, <1>4, PTL DEF Spec

(* Whatever the verifier returns and wherever the samples lead, the tree stays one tree of  *)
(* at most branching_factor children a node, each of which extends its parent by one        *)
(* answer; every score went once to its leaf and to each of the leaf's ancestors; and the    *)
(* answer is the first of the best leaves (ab_mcts.rs:435-520, 579-604).                      *)
THEOREM SearchTreeTells == Spec => []TreeTells
  <1> SUFFICES ASSUME SearchInv PROVE TreeTells
    BY SearchLasting, PTL
  <1>1. /\ DOMAIN nodes = Places /\ Len(nodes) \in Nat /\ Len(nodes) >= 1
        /\ \A n \in Places : nodes[n] \in TreeNode
    BY ManyNodes DEF SearchInv, Grown, Iterated
  <1>2. TreeGrows
    <2>1. ASSUME NEW m \in DOMAIN nodes \ {1} PROVE Cardinality(Parents[m]) = 1
      <3>1. PICK n \in Places : Parents[m] = {n}
        BY <1>1 DEF SearchInv, Grown
      <3> QED
        BY <3>1, FS_Singleton
    <2>2. ASSUME NEW n \in DOMAIN nodes
          PROVE  /\ Len(nodes[n].children) <= BranchingFactor
                 /\ \A c \in Range(nodes[n].children) : c > n /\ Front(nodes[c].conv) = nodes[n].conv
      <3>1. /\ Len(nodes[n].children) <= BranchingFactor
            /\ \A c \in Range(nodes[n].children) : c \in n + 1 .. Len(nodes) /\ Front(nodes[c].conv) = nodes[n].conv
        BY <1>1 DEF SearchInv, Grown
      <3>2. n \in Nat
        BY <1>1 DEF Places
      <3> QED
        BY <1>1, <3>1, <3>2
    <2> QED
      BY <2>1, <2>2 DEF TreeGrows
  <1>3. BestIsBest
    BY DEF SearchInv, Leading
  <1>4. best \in DOMAIN nodes \union {None}
    BY <1>3 DEF BestIsBest, Scored
  <1>5. Range(path) \subseteq DOMAIN nodes
    <2>1. DOMAIN path = 1 .. Len(path)
      BY LenProperties DEF SearchInv, Walked
    <2> QED
      BY <1>1, <2>1 DEF SearchInv, Walked, Range
  <1>6. Len(sent) - seen \in 0 .. EventBuffer
    <2>1. Len(sent) \in Nat
      BY LenProperties DEF SearchInv, Metered, Fits
    <2> QED
      BY <2>1, SearchConstants DEF SearchInv, Metered, Fits
  <1>7. LoopTypeOK
    <2>1. \A i \in DOMAIN msgs : msgs[i].role \in {"user", "assistant"}
      <3>1. msgs \in Seq(ListItem)
        BY DEF SearchInv, Talking, SpokenOnce
      <3>2. \A i \in DOMAIN msgs : msgs[i] \in ListItem
        BY <3>1, ElementOfSeq, LenProperties
      <3> QED
        BY <3>2, RolesOfList
    <2>2. /\ pc \in {"turn", "route", "check", "call", "fallback", "chunks", "record", "score", "push",
                    "policy", "tool", "results", "finish"} \union Over
          /\ kind \in Kinds /\ mode \in {"run", "stream"} /\ router \in RouterKinds
      BY DEF SearchInv, Searching, Rolling, Over
    <2>3. step \in 0 .. MaxSteps /\ ti \in 0 .. Len(asst)
      BY DEF SearchInv, Metered
    <2>4. text \in 0 .. MaxText /\ shown \in 0 .. MaxText
      BY DEF SearchInv, Heard
    <2>5. pending \in Range(CallIds) \union {None} /\ announced >= -1
      BY DEF SearchInv, Iterated
    <2>6. provider \in [id : Providers \union {None}, role : Roles \union {None}]
      BY DEF SearchInv, Talking
    <2> QED
      BY <2>1, <2>2, <2>3, <2>4, <2>5, <2>6 DEF LoopTypeOK
  <1>8. at \in {"begin", "select", "rollout", "rolled", "verify", "choose"} \union Over
    BY DEF SearchInv, Searching, Over
  <1>9. iteration \in 0 .. MaxIterations /\ Len(nodes) = iteration + 1
    BY DEF SearchInv, Iterated, Grown
  <1> QED
    BY <1>2, <1>3, <1>4, <1>5, <1>6, <1>7, <1>8, <1>9 DEF TypeOK, TreeTells, SearchInv, Weighed

(* A rollout that starts from a conversation with open calls, of a node whose rollout     *)
(* ended at the cap, adds none of its own; and the search neither goes on to the verifier   *)
(* nor ends before a rollout's last event is out of the channel (ab_mcts.rs:510-529,           *)
(* 812-1195).                                                                               *)
THEOREM RolloutsAreHeard == Spec => []RolloutsHeard
  <1> SUFFICES ASSUME SearchInv PROVE RolloutsHeard
    BY SearchLasting, PTL
  <1>1. OwnTurnsAnswered
    BY DEF SearchInv, Talking, Since, OwnTurnsAnswered, Sending
  <1>2. AllYielded
    BY DEF SearchInv, Metered, AllYielded
  <1> QED
    BY <1>1, <1>2 DEF RolloutsHeard

LEMMA NextSearchStream ==
  ASSUME Searching, Iterated, SearchNext
  PROVE  [SearchStream!StreamNext]_(SearchStream!streamVars)
  <1> USE DEF Over, view, who
  <1> DEFINE Ph == IF at = "done" THEN "final" ELSE IF at = "failed" THEN "error"
                   ELSE IF at = "dropped" THEN "dropped" ELSE "open"
  <1>1. ASSUME Ph' = Ph, UNCHANGED <<announced, pending>>
        PROVE  UNCHANGED SearchStream!streamVars
    BY <1>1 DEF SearchStream!streamVars
  <1>2. ASSUME Ph = "open", Ph' = "error", UNCHANGED <<announced, pending>>
        PROVE  SearchStream!StreamNext
    BY <1>2 DEF SearchStream!StreamNext, SearchStream!Fails
  <1>3. CASE BeginIteration
    <2>1. Ph = "open" /\ Ph' = "open" /\ pending' = pending /\ pending = None
      BY <1>3 DEF BeginIteration, Iterated
    <2>2. CASE mode = "stream"
      <3>1. announced' = announced + 1 /\ announced + 1 < MaxIterations
        BY <1>3, <2>2, SearchConstants DEF BeginIteration, Iterated
      <3> QED
        BY <2>1, <3>1 DEF SearchStream!StreamNext, SearchStream!StepStart
    <2>3. CASE mode # "stream"
      BY <1>1, <1>3, <2>1, <2>3 DEF BeginIteration
    <2> QED
      BY <2>2, <2>3
  <1>4. CASE Descend \/ SendPartial \/ Yield
    <2>1. Ph = "open" /\ Ph' = "open" /\ UNCHANGED <<announced, pending>>
      BY <1>4 DEF Descend, SendPartial, Yield, loopVars
    <2> QED
      BY <1>1, <2>1
  <1>5. CASE Expand \/ Rolled
    <2>1. Ph = "open" /\ Ph' \in {"open", "error"} /\ UNCHANGED <<announced, pending>>
      BY <1>5 DEF Expand, PickRolloutProvider, Rolled, Stop
    <2> QED
      BY <1>1, <1>2, <2>1
  <1>6. CASE Roll
    <2>1. UNCHANGED announced /\ pending' = None /\ pending = None
      BY <1>6 DEF Roll, LoopStep, StartStep, Chat, OpenStream, TextDelta, CallDelta, ChunkFails,
                  StreamEnds, Push, Policy, ToolReturns, PushResults, Searching, Iterated
    <2>2. Ph = "open" /\ Ph' = "open"
      BY <1>6 DEF Roll
    <2> QED
      BY <1>1, <2>1, <2>2
  <1>7. CASE Verify
    <2>1. at = "verify" /\ at' \in {"begin", "choose", "failed"} /\ UNCHANGED <<announced, pending>>
      BY <1>7 DEF Verify, Stop
    <2> QED
      BY <1>1, <1>2, <2>1
  <1>8. CASE Choose
    <2>1. at = "choose" /\ at' \in {"done", "failed"} /\ UNCHANGED <<announced, pending>> /\ pending = None
      BY <1>8 DEF Choose, Stop, Iterated
    <2> QED
      BY <1>2, <2>1 DEF SearchStream!StreamNext, SearchStream!Final
  <1> QED
    BY <1>3, <1>4, <1>5, <1>6, <1>7, <1>8, Searched

(* A search shows its consumer a stream of OrchEvents as well: iterations in order as       *)
(* steps, one end, and nothing after it (ab_mcts.rs:387-635, types.rs).                      *)
THEOREM SearchStreamsRight == Spec => SearchImplementsStream
  <1>1. Init => SearchStream!StreamInit
    BY DEF Init, LoopInit, SearchStream!StreamInit
  <1>2. SearchInv /\ [SearchNext]_vars => [SearchStream!StreamNext]_(SearchStream!streamVars)
    <2>1. ASSUME SearchInv, SearchNext PROVE [SearchStream!StreamNext]_(SearchStream!streamVars)
      BY <2>1, NextSearchStream DEF SearchInv
    <2>2. ASSUME UNCHANGED vars PROVE UNCHANGED SearchStream!streamVars
      BY <2>2 DEF vars, loopVars, searchVars, SearchStream!streamVars
    <2> QED
      BY <2>1, <2>2
  <1> QED
    BY <1>1, <1>2, SearchLasting, PTL DEF Spec, SearchImplementsStream, SearchStream!StreamSpec

-----------------------------------------------------------------------------
(* Conversations, as the vendors are sent them.                                             *)

(* Flattening. Any function that follows the recursion is the one FlattenSeq chooses.     *)
Flattens(G, s) ==
  /\ G = [n \in 1 .. Len(s) |-> G[n]]
  /\ \A n \in 1 .. Len(s) : G[n] = IF n = 1 THEN s[n] ELSE G[n - 1] \o s[n]
LEMMA FlattenIs ==
  ASSUME NEW s, Len(s) \in Nat \ {0}, NEW G, Flattens(G, s)
  PROVE  FlattenSeq(s) = G[Len(s)]
  <1> DEFINE N == Len(s)
             Right(U) == U = [i \in 1 .. N |-> IF i = 1 THEN s[i] ELSE U[i - 1] \o s[i]]
             V == CHOOSE U : Right(U)
  <1>1. Right(G)
    BY DEF Flattens
  <1>2. Right(V)
    BY <1>1
  <1>3. FlattenSeq(s) = V[N]
    BY DEF FlattenSeq
  <1> HIDE DEF V
  <1>4. \A i \in 1 .. N : V[i] = IF i = 1 THEN s[i] ELSE V[i - 1] \o s[i]
    BY <1>2
  <1> HIDE DEF Right
  <1>5. \A i \in 1 .. N : V[i] = G[i]
    <2> DEFINE S == {i \in 1 .. N : V[i] # G[i]}
    <2> SUFFICES ASSUME S # {} PROVE FALSE
      OBVIOUS
    <2>1. PICK i \in S : \A j \in S : i <= j
      <3>1. S \in SUBSET Nat
        OBVIOUS
      <3> QED
        BY <3>1, FirstOf
    <2>2. i \in 1 .. N /\ V[i] # G[i]
      OBVIOUS
    <2>3. /\ V[i] = (IF i = 1 THEN s[i] ELSE V[i - 1] \o s[i])
          /\ G[i] = (IF i = 1 THEN s[i] ELSE G[i - 1] \o s[i])
      BY <2>2, <1>4 DEF Flattens
    <2>4. i # 1
      BY <2>2, <2>3
    <2>5. i - 1 \in 1 .. N /\ ~(i <= i - 1)
      BY <2>2, <2>4
    <2>6. V[i - 1] = G[i - 1]
      BY <2>1, <2>5
    <2> QED
      BY <2>2, <2>3, <2>4, <2>6
  <1>6. N \in 1 .. N
    OBVIOUS
  <1> QED
    BY <1>3, <1>5, <1>6

LEMMA FlattenNone == \A s : Len(s) = 0 => FlattenSeq(s) = s
  BY DEF FlattenSeq

(* Pieces of one element each give these; of one such piece and then empty ones it is left. *)
LEMMA FlattenOnes ==
  ASSUME NEW N \in Nat, NEW x, NEW s, s = [n \in 1 .. N |-> <<x[n]>>]
  PROVE  FlattenSeq(s) = [n \in 1 .. N |-> x[n]]
  <1>1. Len(s) = N
    BY LenProperties
  <1>2. CASE N = 0
    <2>1. FlattenSeq(s) = s
      BY <1>1, <1>2, FlattenNone
    <2>2. s = [n \in 1 .. N |-> x[n]]
      BY <1>2
    <2> QED
      BY <2>1, <2>2
  <1>3. CASE N # 0
    <2> DEFINE G == [n \in 1 .. N |-> [m \in 1 .. n |-> x[m]]]
               T == {x[n] : n \in 1 .. N}
    <2>1. ASSUME NEW n \in 1 .. N PROVE G[n] = IF n = 1 THEN s[n] ELSE G[n - 1] \o s[n]
      <3>1. s[n] = <<x[n]>> /\ G[n] = [m \in 1 .. n |-> x[m]]
        OBVIOUS
      <3>2. CASE n = 1
        BY <3>1, <3>2
      <3>3. CASE n # 1
        <4> DEFINE u == [m \in 1 .. (n - 1) |-> x[m]]
        <4>1. n - 1 \in 1 .. N /\ G[n - 1] = u
          BY <3>3
        <4>2. u \in Seq(T) /\ Len(u) = n - 1
          BY <3>3
        <4>3. x[n] \in T
          OBVIOUS
        <4>4. u \o <<x[n]>> = Append(u, x[n])
          BY <4>2, <4>3
        <4>5. Append(u, x[n]) = [m \in 1 .. n |-> IF m = n THEN x[n] ELSE u[m]]
          BY <4>2
        <4>6. \A m \in 1 .. n : (IF m = n THEN x[n] ELSE u[m]) = x[m]
          OBVIOUS
        <4> QED
          BY <3>1, <3>3, <4>1, <4>4, <4>5, <4>6
      <3> QED
        BY <3>2, <3>3
    <2>2. Flattens(G, s)
      <3>1. G = [n \in 1 .. N |-> G[n]]
        OBVIOUS
      <3> HIDE DEF G
      <3> QED
        BY <1>1, <2>1, <3>1 DEF Flattens
    <2>3. FlattenSeq(s) = G[N]
      BY <1>1, <1>3, <2>2, FlattenIs
    <2>4. G[N] = [m \in 1 .. N |-> x[m]]
      BY <1>3
    <2> HIDE DEF G
    <2> QED
      BY <2>3, <2>4
  <1> QED
    BY <1>2, <1>3

LEMMA FlattenFirst ==
  ASSUME NEW N \in Nat \ {0}, NEW x, NEW s, s = [n \in 1 .. N |-> IF n = 1 THEN x ELSE <<>>],
         x = <<>> \/ \E y : x = <<y>>
  PROVE  FlattenSeq(s) = x
  <1>1. Len(s) = N
    BY LenProperties
  <1> DEFINE G == [n \in 1 .. N |-> x]
  <1>2. ASSUME NEW n \in 1 .. N PROVE G[n] = IF n = 1 THEN s[n] ELSE G[n - 1] \o s[n]
    <2>1. x \o <<>> = x
      <3>1. CASE x = <<>>
        BY <3>1
      <3>2. ASSUME NEW y, x = <<y>> PROVE x \o <<>> = x
        <4>1. x \in Seq({y})
          BY <3>2
        <4> QED
          BY <4>1, ConcatEmptySeq
      <3> QED
        BY <3>1, <3>2
    <2>2. n # 1 => n - 1 \in 1 .. N
      OBVIOUS
    <2> QED
      BY <2>1, <2>2
  <1>3. Flattens(G, s)
    <2>1. G = [n \in 1 .. N |-> G[n]]
      OBVIOUS
    <2> HIDE DEF G
    <2> QED
      BY <1>1, <1>2, <2>1 DEF Flattens
  <1>4. FlattenSeq(s) = G[N]
    BY <1>1, <1>3, FlattenIs
  <1> QED
    BY <1>4

(* Of any pieces all elements are there, and no others.                                     *)
Joins(G, s, X, n) ==
  /\ G = [i \in 1 .. n |-> G[i]]
  /\ \A i \in 1 .. n : G[i] = (IF i = 1 THEN s[i] ELSE G[i - 1] \o s[i]) /\ G[i] \in Seq(X)
  /\ \A i \in 1 .. n : \A j \in 1 .. i : Range(s[j]) \subseteq Range(G[i])
LEMMA JoinsFurther ==
  ASSUME NEW X, NEW s, NEW n \in Nat, s[n + 1] \in Seq(X), NEW G, Joins(G, s, X, n)
  PROVE  \E H : Joins(H, s, X, n + 1)
  <1> DEFINE g == IF n = 0 THEN s[1] ELSE G[n] \o s[n + 1]
             H == [i \in 1 .. n + 1 |-> IF i = n + 1 THEN g ELSE G[i]]
  <1>1. \A i \in 1 .. n : H[i] = G[i]
    OBVIOUS
  <1>2. H[n + 1] = g
    OBVIOUS
  <1>3. g \in Seq(X) /\ Range(s[n + 1]) \subseteq Range(g) /\ (n # 0 => Range(G[n]) \subseteq Range(g))
    <2>1. CASE n = 0
      BY <2>1
    <2>2. CASE n # 0
      <3>0. n \in 1 .. n
        BY <2>2
      <3>1. n \in 1 .. n /\ G[n] \in Seq(X)
        BY <3>0 DEF Joins
      <3>2. PICK a, b \in Seq(X) : a = G[n] /\ b = s[n + 1]
        BY <3>1
      <3>3. g = a \o b
        BY <2>2, <3>2
      <3>4. a \o b \in Seq(X) /\ Range(a) \subseteq Range(a \o b) /\ Range(b) \subseteq Range(a \o b)
        <4>1. /\ a \o b \in Seq(X) /\ Len(a \o b) = Len(a) + Len(b)
              /\ \A i \in 1 .. Len(a) : (a \o b)[i] = a[i]
              /\ \A i \in 1 .. Len(b) : (a \o b)[Len(a) + i] = b[i]
          BY ConcatProperties
        <4>2. ASSUME NEW y \in Range(a) PROVE y \in Range(a \o b)
          <5>1. PICK i \in 1 .. Len(a) : y = a[i]
            BY DEF Range
          <5>2. i \in DOMAIN (a \o b)
            BY <4>1
          <5> QED
            BY <4>1, <5>1, <5>2 DEF Range
        <4>3. ASSUME NEW y \in Range(b) PROVE y \in Range(a \o b)
          <5>1. PICK i \in 1 .. Len(b) : y = b[i]
            BY DEF Range
          <5>2. Len(a) + i \in DOMAIN (a \o b)
            BY <4>1
          <5> QED
            BY <4>1, <5>1, <5>2 DEF Range
        <4> QED
          BY <4>1, <4>2, <4>3
      <3> QED
        BY <3>2, <3>3, <3>4
    <2> QED
      BY <2>1, <2>2
  <1> HIDE DEF g
  <1>4. H = [i \in 1 .. n + 1 |-> H[i]]
    OBVIOUS
  <1> HIDE DEF H
  <1>5. ASSUME NEW i \in 1 .. n + 1
        PROVE  H[i] = (IF i = 1 THEN s[i] ELSE H[i - 1] \o s[i]) /\ H[i] \in Seq(X)
    <2>1. CASE i = n + 1
      BY <2>1, <1>1, <1>2, <1>3 DEF g
    <2>2. CASE i # n + 1
      <3>1. i \in 1 .. n /\ (i # 1 => i - 1 \in 1 .. n)
        BY <2>2
      <3> QED
        BY <3>1, <1>1 DEF Joins
    <2> QED
      BY <2>1, <2>2
  <1>6. ASSUME NEW i \in 1 .. n + 1, NEW j \in 1 .. i PROVE Range(s[j]) \subseteq Range(H[i])
    <2>1. CASE i # n + 1
      <3>1. i \in 1 .. n
        BY <2>1
      <3> QED
        BY <3>1, <1>1 DEF Joins
    <2>2. CASE i = n + 1 /\ j = n + 1
      BY <2>2, <1>2, <1>3
    <2>3. CASE i = n + 1 /\ j # n + 1
      <3>1. j \in 1 .. n /\ n \in 1 .. n
        BY <2>3
      <3>2. Range(s[j]) \subseteq Range(G[n])
        BY <3>1 DEF Joins
      <3> QED
        BY <2>3, <3>1, <3>2, <1>2, <1>3
    <2> QED
      BY <2>1, <2>2, <2>3
  <1>7. Joins(H, s, X, n + 1)
    BY <1>4, <1>5, <1>6 DEF Joins
  <1> QED
    BY <1>7

LEMMA JoinsAll ==
  ASSUME NEW X, NEW s, NEW N \in Nat, \A n \in 1 .. N : s[n] \in Seq(X)
  PROVE  \E G : Joins(G, s, X, N)
  <1> DEFINE S == {n \in 0 .. N : ~\E G : Joins(G, s, X, n)}
  <1> SUFFICES ASSUME S # {} PROVE FALSE
    OBVIOUS
  <1>1. PICK n \in S : \A m \in S : n <= m
    <2>1. S \in SUBSET Nat
      OBVIOUS
    <2> QED
      BY <2>1, FirstOf
  <1>2. n \in 0 .. N /\ ~\E G : Joins(G, s, X, n)
    OBVIOUS
  <1>3. n # 0
    <2>1. Joins([i \in 1 .. 0 |-> 0], s, X, 0)
      BY DEF Joins
    <2> QED
      BY <1>2, <2>1
  <1>4. PICK m \in Nat : n = m + 1
    BY <1>2, <1>3
  <1>5. m \in 0 .. N /\ ~(n <= m) /\ m + 1 \in 1 .. N
    BY <1>2, <1>4
  <1>6. PICK G : Joins(G, s, X, m)
    BY <1>1, <1>5
  <1>7. \E H : Joins(H, s, X, m + 1)
    BY <1>5, <1>6, JoinsFurther
  <1> QED
    BY <1>2, <1>4, <1>7

LEMMA Flattened ==
  ASSUME NEW X, NEW s, NEW N \in Nat \ {0}, s = [n \in 1 .. N |-> s[n]], \A n \in 1 .. N : s[n] \in Seq(X)
  PROVE  FlattenSeq(s) \in Seq(X) /\ \A n \in 1 .. N : Range(s[n]) \subseteq Range(FlattenSeq(s))
  <1>1. Len(s) = N
    BY LenProperties
  <1>2. PICK G : Joins(G, s, X, N)
    BY JoinsAll
  <1>3. Flattens(G, s)
    BY <1>1, <1>2 DEF Joins, Flattens
  <1>4. FlattenSeq(s) = G[N]
    BY <1>1, <1>3, FlattenIs
  <1>5. N \in 1 .. N
    OBVIOUS
  <1> QED
    BY <1>2, <1>4, <1>5 DEF Joins

-----------------------------------------------------------------------------
(* What a vendor answers, as it is read: a text or none, and then the calls.               *)

(* The elements at places in a row.                                                         *)
LEMMA TakenFrom ==
  ASSUME NEW a \in Nat, NEW k \in Nat, NEW s
  PROVE  Taken(s, a + 1 .. a + k) = [n \in 1 .. k |-> s[a + n]]
  <1> DEFINE S == a + 1 .. a + k
  <1>1. S \in SUBSET Nat /\ IsFiniteSet(S) /\ Cardinality(S) = k
    BY FS_Interval
  <1>2. ASSUME NEW n \in 1 .. k PROVE Nth(S, n) = a + n
    <2>1. a + n \in S
      OBVIOUS
    <2>2. {j \in S : j <= a + n} = a + 1 .. a + n
      OBVIOUS
    <2>3. Cardinality(a + 1 .. a + n) = n
      BY FS_Interval
    <2> HIDE DEF S
    <2>4. Nth(S, Cardinality({j \in S : j <= a + n})) = a + n
      BY <1>1, <2>1, Ranks
    <2> QED
      BY <2>2, <2>3, <2>4
  <1> HIDE DEF S
  <1> QED
    BY <1>1, <1>2 DEF Taken, S

LEMMA TakenFirst == ASSUME NEW k \in Nat, NEW s PROVE Taken(s, 1 .. k) = [n \in 1 .. k |-> s[n]]
  <1>1. PICK a : a = 0
    OBVIOUS
  <1>2. a \in Nat /\ a + 1 .. a + k = 1 .. k /\ \A n \in 1 .. k : a + n = n
    BY <1>1
  <1>3. Taken(s, a + 1 .. a + k) = [n \in 1 .. k |-> s[a + n]]
    BY ONLY <1>2, k \in Nat, TakenFrom
  <1> QED
    BY ONLY <1>2, <1>3
LEMMA TakenSecond == ASSUME NEW k \in Nat, NEW s PROVE Taken(s, 2 .. k + 1) = [n \in 1 .. k |-> s[n + 1]]
  <1>1. PICK a : a = 1
    OBVIOUS
  <1>2. a \in Nat /\ a + 1 .. a + k = 2 .. k + 1 /\ \A n \in 1 .. k : a + n = n + 1
    BY <1>1
  <1>3. Taken(s, a + 1 .. a + k) = [n \in 1 .. k |-> s[a + n]]
    BY ONLY <1>2, k \in Nat, TakenFrom
  <1> QED
    BY ONLY <1>2, <1>3

Utterances == {"", "said"}
IdOf(v, i, n) ==
  IF v = "vertex" THEN Hashed(Name(i, n), "args") ELSE IF v = "ollama" THEN Counted(n - 1) ELSE Issued(Name(i, n))
CallOf(v, i, n) == CallPart(IdOf(v, i, n), Name(i, n), "args")
CallsOf(v, i, k) == [n \in 1 .. k |-> CallOf(v, i, n)]
(* Parts that are a text if anything was said, and then these calls.                       *)
SpeaksOf(q, t, C, k) ==
  \/ t = "" /\ q = [n \in 1 .. k |-> C[n]]
  \/ t = "said" /\ q = [n \in 1 .. k + 1 |-> IF n = 1 THEN TextPart(t) ELSE C[n - 1]]

(* An answer is put together so (Saying).                                                   *)
LEMMA SayingIs ==
  ASSUME NEW t \in Utterances, NEW k \in Nat, NEW C, C = [n \in 1 .. k |-> C[n]]
  PROVE  SpeaksOf(Saying(t) \o C, t, C, k)
  <1>1. C \in Seq({C[n] : n \in 1 .. k} \cup {TextPart(t)}) /\ Len(C) = k
    OBVIOUS
  <1>2. CASE t = ""
    <2>1. Saying(t) = <<>>
      BY <1>2 DEF Saying
    <2>2. <<>> \o C = C
      BY <1>1, ConcatEmptySeq
    <2> QED
      BY <1>2, <2>1, <2>2 DEF SpeaksOf
  <1>3. CASE t = "said"
    <2>1. Saying(t) = <<TextPart(t)>>
      BY <1>3 DEF Saying
    <2>2. <<TextPart(t)>> \in Seq({C[n] : n \in 1 .. k} \cup {TextPart(t)}) /\ Len(<<TextPart(t)>>) = 1
      OBVIOUS
    <2>3. <<TextPart(t)>> \o C = [n \in 1 .. k + 1 |-> IF n = 1 THEN TextPart(t) ELSE C[n - 1]]
      BY <1>1, <2>2
    <2> QED
      BY <1>3, <2>1, <2>3 DEF SpeaksOf
  <1> QED
    BY <1>2, <1>3 DEF Utterances

(* Parts that are kept one by one.                                                         *)
LEMMA SpeaksAs ==
  ASSUME NEW t \in Utterances, NEW k \in Nat, NEW C, NEW D, NEW q, SpeaksOf(q, t, C, k), NEW s,
         DOMAIN s = DOMAIN q, s = [n \in DOMAIN q |-> s[n]],
         \A n \in DOMAIN q : q[n] = TextPart("said") => s[n] = <<TextPart("said")>>,
         \A n \in 1 .. k : \A m \in DOMAIN q : q[m] = C[n] => s[m] = <<D[n]>>
  PROVE  SpeaksOf(FlattenSeq(s), t, D, k)
  <1>1. CASE t = ""
    <2>1. q = [n \in 1 .. k |-> C[n]]
      BY <1>1 DEF SpeaksOf
    <2>2. s = [n \in 1 .. k |-> <<D[n]>>]
      BY <2>1
    <2>3. FlattenSeq(s) = [n \in 1 .. k |-> D[n]]
      BY ONLY k \in Nat, <2>2, FlattenOnes
    <2> QED
      BY <1>1, <2>3 DEF SpeaksOf
  <1>2. CASE t = "said"
    <2>1. q = [n \in 1 .. k + 1 |-> IF n = 1 THEN TextPart(t) ELSE C[n - 1]]
      BY <1>2 DEF SpeaksOf
    <2>2. PICK x : x = [n \in 1 .. k + 1 |-> IF n = 1 THEN TextPart(t) ELSE D[n - 1]]
      OBVIOUS
    <2>3. ASSUME NEW n \in 1 .. k + 1 PROVE s[n] = <<x[n]>>
      <3>1. CASE n = 1
        <4>1. n \in DOMAIN q /\ q[n] = TextPart("said")
          BY <1>2, <2>1, <3>1
        <4> QED
          BY <1>2, <2>2, <3>1, <4>1
      <3>2. CASE n # 1
        <4>1. n \in DOMAIN q /\ n - 1 \in 1 .. k /\ q[n] = C[n - 1]
          BY <2>1, <3>2
        <4> QED
          BY <2>2, <3>2, <4>1
      <3> QED
        BY <3>1, <3>2
    <2>4. s = [n \in 1 .. k + 1 |-> <<x[n]>>]
      <3>1. DOMAIN s = 1 .. k + 1
        BY <2>1
      <3> QED
        BY <2>3, <3>1
    <2>5. k + 1 \in Nat
      OBVIOUS
    <2>6. FlattenSeq(s) = [n \in 1 .. k + 1 |-> x[n]]
      BY ONLY <2>4, <2>5, FlattenOnes
    <2>7. FlattenSeq(s) = [n \in 1 .. k + 1 |-> IF n = 1 THEN TextPart(t) ELSE D[n - 1]]
      BY <2>2, <2>6
    <2> QED
      BY <1>2, <2>7 DEF SpeaksOf
  <1> QED
    BY <1>1, <1>2 DEF Utterances

(* There is one such list of parts.                                                         *)
LEMMA SpeaksOnce ==
  ASSUME NEW t \in Utterances, NEW k \in Nat, NEW C, NEW q, SpeaksOf(q, t, C, k), NEW r, SpeaksOf(r, t, C, k)
  PROVE  q = r
  <1>1. CASE t = ""
    BY <1>1 DEF SpeaksOf
  <1>2. CASE t = "said"
    BY <1>2 DEF SpeaksOf
  <1> QED
    BY <1>1, <1>2 DEF Utterances

(* The calls can be taken out again, and there is nothing else but the text.                *)
Apart(q, t, C, k, w) ==
  /\ Taken(q, {n \in DOMAIN q : q[n].is = w}) = [n \in 1 .. k |-> C[n]]
  /\ Taken(q, {n \in DOMAIN q : q[n].is = "text"}) = Saying(t)
  /\ \A u : u \notin {"text", w} => Taken(q, {n \in DOMAIN q : q[n].is = u}) = <<>>
LEMMA SpeaksTaken ==
  ASSUME NEW t \in Utterances, NEW k \in Nat, NEW C, NEW q, SpeaksOf(q, t, C, k),
         NEW w, w # "text", \A n \in 1 .. k : C[n].is = w
  PROVE  Apart(q, t, C, k, w)
  <1>1. CASE t = ""
    <2>1. q = [n \in 1 .. k |-> C[n]]
      BY <1>1 DEF SpeaksOf
    <2>2. \A n \in 1 .. k : n \in DOMAIN q /\ q[n].is = w
      BY <2>1
    <2>3. {n \in DOMAIN q : q[n].is = w} = 1 .. k
      BY <2>1, <2>2
    <2>4. Taken(q, 1 .. k) = [n \in 1 .. k |-> q[n]]
      BY TakenFirst
    <2>5. [n \in 1 .. k |-> q[n]] = [n \in 1 .. k |-> C[n]]
      BY <2>1
    <2>6. \A u : u # w => {n \in DOMAIN q : q[n].is = u} = {}
      BY <2>1, <2>2
    <2>7. Saying(t) = <<>>
      BY <1>1 DEF Saying
    <2>8. Taken(q, {n \in DOMAIN q : q[n].is = w}) = [n \in 1 .. k |-> C[n]]
      BY ONLY <2>3, <2>4, <2>5
    <2>9. ASSUME NEW u, u # w PROVE Taken(q, {n \in DOMAIN q : q[n].is = u}) = <<>>
      BY ONLY u # w, <2>6, TakenNone
    <2>10. Taken(q, {n \in DOMAIN q : q[n].is = "text"}) = <<>>
      BY <2>9
    <2> QED
      BY <2>7, <2>8, <2>9, <2>10 DEF Apart
  <1>2. CASE t = "said"
    <2>1. q = [n \in 1 .. k + 1 |-> IF n = 1 THEN TextPart(t) ELSE C[n - 1]]
      BY <1>2 DEF SpeaksOf
    <2>2. DOMAIN q = 1 .. k + 1 /\ q[1] = TextPart(t) /\ q[1].is = "text"
      BY <2>1 DEF TextPart
    <2>3. \A n \in 2 .. k + 1 : q[n] = C[n - 1] /\ q[n].is = w
      BY <2>1
    <2>4. {n \in DOMAIN q : q[n].is = w} = 2 .. k + 1
      BY <2>2, <2>3
    <2>5. Taken(q, 2 .. k + 1) = [n \in 1 .. k |-> q[n + 1]]
      BY TakenSecond
    <2>6. [n \in 1 .. k |-> q[n + 1]] = [n \in 1 .. k |-> C[n]]
      BY <2>3
    <2>7. {n \in DOMAIN q : q[n].is = "text"} = 1 .. 1
      BY <2>2, <2>3
    <2>8. Taken(q, 1 .. 1) = [n \in 1 .. 1 |-> q[n]]
      BY ONLY 1 \in Nat, TakenFirst
    <2>9. [n \in 1 .. 1 |-> q[n]] = <<TextPart(t)>>
      BY <2>2
    <2>10. Saying(t) = <<TextPart(t)>>
      BY <1>2 DEF Saying
    <2>11. \A u : u \notin {"text", w} => {n \in DOMAIN q : q[n].is = u} = {}
      BY <2>2, <2>3
    <2>12. Taken(q, {n \in DOMAIN q : q[n].is = w}) = [n \in 1 .. k |-> C[n]]
      BY ONLY <2>4, <2>5, <2>6
    <2>13. Taken(q, {n \in DOMAIN q : q[n].is = "text"}) = Saying(t)
      BY ONLY <2>7, <2>8, <2>9, <2>10
    <2>14. ASSUME NEW u, u \notin {"text", w} PROVE Taken(q, {n \in DOMAIN q : q[n].is = u}) = <<>>
      BY ONLY u \notin {"text", w}, <2>11, TakenNone
    <2> QED
      BY <2>12, <2>13, <2>14 DEF Apart
  <1> QED
    BY <1>1, <1>2 DEF Utterances

(* The calls of an answer, as the message list has them.                                    *)
LEMMA CallsAre ==
  \A v, i, k : /\ CallsOf(v, i, k) = [n \in 1 .. k |-> CallsOf(v, i, k)[n]]
               /\ \A n \in 1 .. k : /\ CallsOf(v, i, k)[n] = CallOf(v, i, n)
                                    /\ CallOf(v, i, n).is = "call" /\ CallOf(v, i, n).id = IdOf(v, i, n)
                                    /\ CallOf(v, i, n).name = Name(i, n) /\ CallOf(v, i, n).args = "args"
  BY DEF CallsOf, CallOf, CallPart

LEMMA CallIs ==
  \A v, i, n : /\ CallOf(v, i, n).is = "call" /\ CallOf(v, i, n).id = IdOf(v, i, n)
               /\ CallOf(v, i, n).name = Name(i, n) /\ CallOf(v, i, n).args = "args"
  BY DEF CallOf, CallPart

LEMMA IssuedAre ==
  \A v, i, k : v \notin {"vertex", "ollama"} => IssuedCalls(i, k) = CallsOf(v, i, k)
  BY DEF IssuedCalls, CallsOf, CallOf, IdOf

(* Every vendor's answer is read as the text and its calls, in their order.                 *)
LEMMA OaReads ==
  ASSUME NEW i, NEW k \in Nat, NEW t \in Utterances, NEW v \in {"openai", "mistral"}
  PROVE  SpeaksOf(Read(v, Wire(v, i, k, t)).parts, t, CallsOf(v, i, k), k)
  <1>1. PICK C : C = CallsOf(v, i, k)
    OBVIOUS
  <1>2. PICK r : r = Wire(v, i, k, t)
    OBVIOUS
  <1>3. r = [choices |-> <<[text |-> t, calls |-> C, why |-> "tool_calls"]>>]
    BY <1>1, <1>2, IssuedAre DEF Wire
  <1>4. r.choices # <<>> /\ r.choices[1].text = t /\ r.choices[1].calls = C
    BY <1>3
  <1>5. C = [n \in 1 .. k |-> C[n]] /\ DOMAIN C = 1 .. k
    BY <1>1, CallsAre
  <1>6. ASSUME NEW n \in 1 .. k PROVE CallPart(C[n].id, C[n].name, JsonArgs(C[n].args)) = C[n]
    <2>1. PICK c : c = C[n]
      OBVIOUS
    <2>2. c = [is |-> "call", id |-> IdOf(v, i, n), name |-> Name(i, n), args |-> "args"]
      BY <1>1, <2>1 DEF CallsOf, CallOf, CallPart
    <2>3. CallPart(c.id, c.name, JsonArgs(c.args)) = c
      BY <2>2 DEF JsonArgs, CallPart
    <2> QED
      BY <2>1, <2>3
  <1>7. [n \in DOMAIN C |-> <<CallPart(C[n].id, C[n].name, JsonArgs(C[n].args))>>] = [n \in 1 .. k |-> <<C[n]>>]
    BY <1>5, <1>6
  <1>8. FlattenSeq([n \in 1 .. k |-> <<C[n]>>]) = [n \in 1 .. k |-> C[n]]
    BY ONLY k \in Nat, FlattenOnes
  <1>9. Each(C, LAMBDA x : <<CallPart(x.id, x.name, JsonArgs(x.args))>>) = C
    BY <1>5, <1>7, <1>8 DEF Each
  <1>10. Read(v, r).parts = Saying(t) \o C
    BY <1>4, <1>9 DEF Read, OaAnswer, MiAnswer, Answer
  <1>11. SpeaksOf(Saying(t) \o C, t, C, k)
    BY <1>5, SayingIs
  <1> QED
    BY <1>1, <1>2, <1>10, <1>11

LEMMA SaidIs ==
  /\ TextPart("said").is = "text" /\ TextPart("said").text = "said" /\ Saying("said") = <<TextPart("said")>>
  BY DEF TextPart, Saying

LEMMA BlocksRead ==
  ASSUME NEW i, NEW k \in Nat, NEW t \in Utterances, NEW v \in {"anthropic", "bedrock"}
  PROVE  SpeaksOf(Read(v, Wire(v, i, k, t)).parts, t, CallsOf(v, i, k), k)
  <1>1. PICK C : C = CallsOf(v, i, k)
    OBVIOUS
  <1>2. PICK r : r = Wire(v, i, k, t)
    OBVIOUS
  <1>3. r.content = Saying(t) \o C
    BY <1>1, <1>2, IssuedAre DEF Wire
  <1>4. PICK q : q = r.content
    OBVIOUS
  <1>5. C = [n \in 1 .. k |-> C[n]] /\ \A n \in 1 .. k : C[n].is = "call"
    BY <1>1, CallsAre
  <1>6. SpeaksOf(q, t, C, k)
    BY <1>3, <1>4, <1>5, SayingIs
  <1>7. CASE v = "anthropic"
    <2>1. PICK s : s = [n \in DOMAIN q |-> IF q[n].is = "text" THEN Saying(q[n].text) ELSE <<q[n]>>]
      OBVIOUS
    <2>2. DOMAIN s = DOMAIN q /\ s = [n \in DOMAIN q |-> s[n]]
      BY <2>1
    <2>3. \A n \in DOMAIN q : q[n] = TextPart("said") => s[n] = <<TextPart("said")>>
      BY <2>1, SaidIs
    <2>4. \A n \in 1 .. k : \A m \in DOMAIN q : q[m] = C[n] => s[m] = <<C[n]>>
      BY <1>5, <2>1
    <2>5. SpeaksOf(FlattenSeq(s), t, C, k)
      BY ONLY t \in Utterances, k \in Nat, <1>6, <2>2, <2>3, <2>4, SpeaksAs
    <2>6. Read(v, r).parts = FlattenSeq(s)
      BY <1>4, <1>7, <2>1 DEF Read, AnAnswer, Answer, Each
    <2> QED
      BY <1>1, <1>2, <2>5, <2>6
  <1>8. CASE v = "bedrock"
    <2>1. PICK s : s = [n \in DOMAIN q |-> CASE q[n].is = "text" -> Saying(q[n].text) [] q[n].is = "call" -> <<q[n]>> [] OTHER -> <<>>]
      OBVIOUS
    <2>2. DOMAIN s = DOMAIN q /\ s = [n \in DOMAIN q |-> s[n]]
      BY <2>1
    <2>3. \A n \in DOMAIN q : q[n] = TextPart("said") => s[n] = <<TextPart("said")>>
      BY <2>1, SaidIs
    <2>4. \A n \in 1 .. k : \A m \in DOMAIN q : q[m] = C[n] => s[m] = <<C[n]>>
      BY <1>5, <2>1
    <2>5. SpeaksOf(FlattenSeq(s), t, C, k)
      BY ONLY t \in Utterances, k \in Nat, <1>6, <2>2, <2>3, <2>4, SpeaksAs
    <2>6. Read(v, r).parts = FlattenSeq(s)
      BY <1>4, <1>8, <2>1 DEF Read, BrAnswer, Answer, Each
    <2> QED
      BY <1>1, <1>2, <2>5, <2>6
  <1> QED
    BY <1>7, <1>8

FunctionCalls(i, k) == [n \in 1 .. k |-> [is |-> "functionCall", name |-> Name(i, n), args |-> "args"]]
LEMMA VxReads ==
  ASSUME NEW i, NEW k \in Nat, NEW t \in Utterances
  PROVE  SpeaksOf(Read("vertex", Wire("vertex", i, k, t)).parts, t, CallsOf("vertex", i, k), k)
  <1>1. PICK D : D = CallsOf("vertex", i, k)
    OBVIOUS
  <1>2. PICK C : C = FunctionCalls(i, k)
    OBVIOUS
  <1>3. PICK r : r = Wire("vertex", i, k, t)
    OBVIOUS
  <1>4. r.candidates # <<>> /\ r.candidates[1].parts = Saying(t) \o C
    BY <1>2, <1>3 DEF Wire, FunctionCalls
  <1>5. PICK q : q = r.candidates[1].parts
    OBVIOUS
  <1>6. C = [n \in 1 .. k |-> C[n]]
    BY <1>2 DEF FunctionCalls
  <1>7. SpeaksOf(q, t, C, k)
    BY <1>4, <1>5, <1>6, SayingIs
  <1>8. PICK s : s = [n \in DOMAIN q |-> IF q[n].is = "text" THEN Saying(q[n].text)
                                         ELSE <<CallPart(Hashed(q[n].name, q[n].args), q[n].name, q[n].args)>>]
    OBVIOUS
  <1>9. DOMAIN s = DOMAIN q /\ s = [n \in DOMAIN q |-> s[n]]
    BY <1>8
  <1>10. \A n \in DOMAIN q : q[n] = TextPart("said") => s[n] = <<TextPart("said")>>
    BY <1>8, SaidIs
  <1>11. ASSUME NEW n \in 1 .. k, NEW m \in DOMAIN q, q[m] = C[n] PROVE s[m] = <<D[n]>>
    <2>1. C[n].is # "text" /\ C[n].name = Name(i, n) /\ C[n].args = "args"
      BY <1>2 DEF FunctionCalls
    <2>2. D[n] = CallPart(Hashed(Name(i, n), "args"), Name(i, n), "args")
      BY <1>1 DEF CallsOf, CallOf, IdOf
    <2> QED
      BY <1>8, <1>11, <2>1, <2>2
  <1>12. SpeaksOf(FlattenSeq(s), t, D, k)
    BY ONLY t \in Utterances, k \in Nat, <1>7, <1>9, <1>10, <1>11, SpeaksAs
  <1>13. Read("vertex", r).parts = FlattenSeq(s)
    BY <1>4, <1>5, <1>8 DEF Read, VxAnswer, Answer, Each
  <1> QED
    BY <1>1, <1>3, <1>12, <1>13

LEMMA OlReads ==
  ASSUME NEW i, NEW k \in Nat, NEW t \in Utterances
  PROVE  SpeaksOf(Read("ollama", Wire("ollama", i, k, t)).parts, t, CallsOf("ollama", i, k), k)
  <1>1. PICK C : C = CallsOf("ollama", i, k)
    OBVIOUS
  <1>2. PICK r : r = Wire("ollama", i, k, t)
    OBVIOUS
  <1>3. PICK q : q = [n \in 1 .. k |-> [name |-> Name(i, n), args |-> "args"]]
    OBVIOUS
  <1>4. r.text = t /\ r.calls = q
    BY <1>2, <1>3 DEF Wire
  <1>5. ASSUME NEW n \in 1 .. k PROVE CallPart(Counted(n - 1), q[n].name, q[n].args) = C[n]
    BY <1>1, <1>3 DEF CallsOf, CallOf, IdOf
  <1>6. C = [n \in 1 .. k |-> C[n]]
    BY <1>1, CallsAre
  <1>7. [n \in DOMAIN q |-> CallPart(Counted(n - 1), q[n].name, q[n].args)] = C
    <2>1. DOMAIN q = 1 .. k
      BY <1>3
    <2> QED
      BY <1>5, <1>6, <2>1
  <1>8. Read("ollama", r).parts = Saying(t) \o C
    BY <1>4, <1>7 DEF Read, OlAnswer, Answer
  <1>9. SpeaksOf(Saying(t) \o C, t, C, k)
    BY <1>6, SayingIs
  <1> QED
    BY <1>1, <1>2, <1>8, <1>9

LEMMA ReadIs ==
  ASSUME NEW i, NEW k \in Nat, NEW t \in Utterances, NEW v \in Vendors
  PROVE  SpeaksOf(Read(v, Wire(v, i, k, t)).parts, t, CallsOf(v, i, k), k)
  BY OaReads, BlocksRead, VxReads, OlReads DEF Vendors

(* The conversation as it is sent, with the turns at T, of which turn i has K[i] calls, at least one. *)
Shape(N, T, K) ==
  /\ N \in Nat \ {0} /\ T \subseteq 1 .. N /\ 1 \notin T /\ N \notin T
  /\ \A i \in 2 .. N : i \in T <=> i - 1 \notin T
  /\ \A i \in T : K[i] \in Nat \ {0}
ResultsOf(v, i, k) == [n \in 1 .. k |-> ResultPart(IdOf(v, i, n))]
TellsAs(ms, N, T, K, by, t) ==
  /\ Shape(N, T, K) /\ t \in Utterances
  /\ ms = [i \in 1 .. N |-> ms[i]]
  /\ \E p : p # "" /\ ms[1] = User(p)
  /\ \A i \in T : /\ by[i] \in Vendors
                  /\ ms[i].role = "assistant"
                  /\ SpeaksOf(ms[i].parts, t, CallsOf(by[i], i, K[i]), K[i])
                  /\ ms[i + 1] = Message("user", ResultsOf(by[i], i, K[i]))

(* A message is the first one, a turn, or the one after a turn.                             *)
LEMMA OneOfThree ==
  ASSUME NEW N, NEW T, NEW K, Shape(N, T, K), NEW i \in 1 .. N
  PROVE  i = 1 \/ (i # 1 /\ i \in T) \/ \E j \in T : i = j + 1 /\ i \notin T
  <1>1. N \in Nat /\ (i # 1 => i \in 2 .. N /\ i = (i - 1) + 1)
    BY DEF Shape
  <1> QED
    BY <1>1 DEF Shape

LEMMA TurnBefore ==
  ASSUME NEW N, NEW T, NEW K, Shape(N, T, K), NEW i \in T
  PROVE  i \in 1 .. N /\ i + 1 \in 1 .. N /\ i + 1 \notin T /\ i # 1 /\ i \in Nat /\ K[i] \in Nat \ {0}
  <1>1. N \in Nat /\ i \in 1 .. N /\ i # N /\ i # 1
    BY DEF Shape
  <1>2. i + 1 \in 2 .. N /\ (i + 1) - 1 = i
    BY <1>1
  <1> QED
    BY <1>1, <1>2 DEF Shape

(* The parts of a turn, of its results and of the user, by kind.                            *)
LEMMA SpokenParts ==
  ASSUME NEW t \in Utterances, NEW k \in Nat, NEW v, NEW i, NEW m, SpeaksOf(m.parts, t, CallsOf(v, i, k), k)
  PROVE  /\ PartsOf(m, "call") = CallsOf(v, i, k)
         /\ PartsOf(m, "result") = <<>>
         /\ PartsOf(m, "text") = Saying(t)
  <1>1. PICK q, C : q = m.parts /\ C = CallsOf(v, i, k)
    OBVIOUS
  <1>2. k \in Nat /\ t \in Utterances /\ SpeaksOf(q, t, C, k)
    BY <1>1
  <1>3. C = [n \in 1 .. k |-> C[n]] /\ \A n \in 1 .. k : C[n].is = "call"
    BY ONLY <1>1, CallsAre
  <1>4. PICK w : w = "call"
    OBVIOUS
  <1>5. Apart(q, t, C, k, w)
    <2>1. w # "text" /\ \A n \in 1 .. k : C[n].is = w
      BY <1>3, <1>4
    <2> QED
      BY ONLY <1>2, <2>1, SpeaksTaken
  <1>6. \A u : PartsOf(m, u) = Taken(q, {n \in DOMAIN q : q[n].is = u})
    BY <1>1 DEF PartsOf
  <1>7. PartsOf(m, "result") = <<>>
    BY <1>4, <1>5, <1>6 DEF Apart
  <1>8. PartsOf(m, "call") = C
    BY <1>3, <1>4, <1>5, <1>6 DEF Apart
  <1>9. PartsOf(m, "text") = Saying(t)
    BY <1>5, <1>6 DEF Apart
  <1> QED
    BY <1>1, <1>7, <1>8, <1>9

LEMMA TurnParts ==
  ASSUME NEW N, NEW T, NEW K, NEW by, NEW t, NEW ms, TellsAs(ms, N, T, K, by, t), NEW i \in T
  PROVE  /\ PartsOf(ms[i], "call") = CallsOf(by[i], i, K[i])
         /\ PartsOf(ms[i], "result") = <<>>
         /\ PartsOf(ms[i], "text") = Saying(t)
  <1>1. t \in Utterances /\ K[i] \in Nat /\ SpeaksOf(ms[i].parts, t, CallsOf(by[i], i, K[i]), K[i])
    BY TurnBefore DEF TellsAs
  <1> QED
    BY ONLY <1>1, SpokenParts

LEMMA ReplyParts ==
  ASSUME NEW v, NEW i, NEW k \in Nat, NEW m, m = Message("user", ResultsOf(v, i, k))
  PROVE  /\ PartsOf(m, "result") = ResultsOf(v, i, k)
         /\ PartsOf(m, "call") = <<>>
  <1>1. PICK q : q = ResultsOf(v, i, k)
    OBVIOUS
  <1>2. m.parts = q
    BY <1>1 DEF Message
  <1>3. q = [n \in 1 .. k |-> q[n]] /\ DOMAIN q = 1 .. k /\ \A n \in 1 .. k : q[n].is = "result"
    BY <1>1 DEF ResultsOf, ResultPart
  <1>4. {n \in DOMAIN q : q[n].is = "result"} = 1 .. k
    BY <1>3
  <1>5. {n \in DOMAIN q : q[n].is = "call"} = {}
    BY <1>3
  <1>6. Taken(q, 1 .. k) = q
    BY <1>3, TakenAll
  <1> QED
    BY <1>1, <1>2, <1>4, <1>5, <1>6, TakenNone DEF PartsOf

LEMMA UserParts ==
  ASSUME NEW p, NEW m, m = User(p)
  PROVE  PartsOf(m, "result") = <<>> /\ PartsOf(m, "call") = <<>>
  <1>1. PICK q : q = <<TextPart(p)>>
    OBVIOUS
  <1>2. m.parts = q
    BY <1>1 DEF User, Message
  <1>3. DOMAIN q = 1 .. 1 /\ q[1].is = "text"
    BY <1>1 DEF TextPart
  <1>4. {n \in DOMAIN q : q[n].is = "result"} = {} /\ {n \in DOMAIN q : q[n].is = "call"} = {}
    BY <1>3
  <1> QED
    BY <1>2, <1>4, TakenNone DEF PartsOf

IdsOf(v, i, k) == [n \in 1 .. k |-> IdOf(v, i, n)]
LEMMA IdsAre ==
  ASSUME NEW v, NEW i, NEW k \in Nat
  PROVE  Ids(CallsOf(v, i, k)) = IdsOf(v, i, k) /\ Ids(ResultsOf(v, i, k)) = IdsOf(v, i, k)
  BY DEF Ids, CallsOf, CallOf, CallPart, ResultsOf, ResultPart, IdsOf

(* Results follow their calls, and the sides alternate.                                     *)
LEMMA MatchedIds ==
  ASSUME NEW N, NEW T, NEW K, NEW by, NEW t, NEW ms, TellsAs(ms, N, T, K, by, t), NEW i \in 2 .. N
  PROVE  Results(ms[i]) = Calls(ms[i - 1]) /\ (ms[i].role = "assistant" <=> ms[i - 1].role # "assistant")
  <1>0. Shape(N, T, K)
    BY DEF TellsAs
  <1>a. N \in Nat
    BY <1>0 DEF Shape
  <1>1. Shape(N, T, K) /\ i \in 1 .. N /\ i - 1 \in 1 .. N /\ i - 1 \in Int /\ N \in Nat
    BY <1>0, <1>a
  <1>2. ASSUME NEW j \in 1 .. N, j \notin T PROVE Calls(ms[j]) = <<>> /\ ms[j].role = "user"
    <2>1. CASE j = 1
      <3>1. PICK p : ms[1] = User(p)
        BY DEF TellsAs
      <3>2. PartsOf(ms[1], "call") = <<>>
        BY <3>1, UserParts
      <3> QED
        BY <2>1, <3>1, <3>2 DEF Calls, Ids, User, Message
    <2>2. ASSUME NEW l \in T, j = l + 1 PROVE Calls(ms[j]) = <<>> /\ ms[j].role = "user"
      <3>1. ms[j] = Message("user", ResultsOf(by[l], l, K[l])) /\ K[l] \in Nat
        BY <1>1, <2>2, TurnBefore DEF TellsAs
      <3>2. PartsOf(ms[j], "call") = <<>>
        BY <3>1, ReplyParts
      <3> QED
        BY <3>1, <3>2 DEF Calls, Ids, Message
    <2> QED
      BY <1>1, <1>2, <2>1, <2>2, OneOfThree
  <1>3. CASE i \in T
    <2>1. i - 1 \notin T
      BY <1>1, <1>3 DEF Shape
    <2>2. PartsOf(ms[i], "result") = <<>>
      BY <1>3, TurnParts
    <2>4. ms[i].role = "assistant"
      BY <1>3 DEF TellsAs
    <2>3. Calls(ms[i - 1]) = <<>> /\ ms[i - 1].role = "user"
      BY <1>1, <1>2, <2>1
    <2> QED
      BY <2>2, <2>3, <2>4 DEF Results, Ids
  <1>4. CASE i \notin T
    <2>1. PICK l \in T : i = l + 1
      BY <1>1, <1>4, OneOfThree
    <2>2. i - 1 = l /\ K[l] \in Nat
      BY <1>1, <2>1, TurnBefore
    <2>3. ms[i] = Message("user", ResultsOf(by[l], l, K[l])) /\ ms[l].role = "assistant"
      BY <2>1 DEF TellsAs
    <2>4. PartsOf(ms[i], "result") = ResultsOf(by[l], l, K[l])
      BY <2>2, <2>3, ReplyParts
    <2>5. PartsOf(ms[l], "call") = CallsOf(by[l], l, K[l])
      BY TurnParts
    <2>6. Results(ms[i]) = Calls(ms[l])
      BY <2>2, <2>4, <2>5, IdsAre DEF Results, Calls
    <2>7. ms[i].role = "user"
      BY <2>3 DEF Message
    <2> QED
      BY <2>2, <2>3, <2>6, <2>7
  <1> QED
    BY <1>3, <1>4

(* Blocks that go out as they are.                                                        *)
Plain(x) == x.is \in {"call", "result"} \/ (x.is = "text" /\ x.text # "")
Plainly(q, L) == q = [n \in 1 .. L |-> q[n]] /\ \A n \in 1 .. L : Plain(q[n])
LEMMA Kept ==
  ASSUME NEW L \in Nat, NEW q, Plainly(q, L), NEW m, m.parts = q
  PROVE  AnBlocks(m) = q /\ BrBlocks(m) = q
  <1>1. DOMAIN q = 1 .. L /\ q = [n \in 1 .. L |-> q[n]]
    BY DEF Plainly
  <1>2. FlattenSeq([n \in 1 .. L |-> <<q[n]>>]) = q
    BY ONLY L \in Nat, <1>1, FlattenOnes
  <1>3. AnBlocks(m) = q
    <2> DEFINE s == [n \in DOMAIN q |->
          CASE q[n].is = "text" -> (IF q[n].text = "" THEN <<>> ELSE <<q[n]>>) [] q[n].is \in {"call", "result"} -> <<q[n]>>
            [] q[n].is = "image" -> AnImage(q[n]) [] q[n].is = "url" -> <<UrlPart("none")>>]
    <2>1. \A n \in 1 .. L : s[n] = <<q[n]>>
      BY <1>1 DEF Plainly, Plain
    <2>2. s = [n \in 1 .. L |-> <<q[n]>>]
      BY <1>1, <2>1
    <2>3. AnBlocks(m) = FlattenSeq(s)
      BY DEF AnBlocks, Each
    <2> HIDE DEF s
    <2> QED
      BY <1>2, <2>2, <2>3
  <1>4. BrBlocks(m) = q
    <2> DEFINE s == [n \in DOMAIN q |->
          CASE q[n].is = "text" -> (IF q[n].text = "" THEN <<>> ELSE <<q[n]>>) [] q[n].is \in {"call", "result"} -> <<q[n]>>
            [] q[n].is = "image" -> BrImage(q[n]) [] q[n].is = "url" -> <<>>]
    <2>1. \A n \in 1 .. L : s[n] = <<q[n]>>
      BY <1>1 DEF Plainly, Plain
    <2>2. s = [n \in 1 .. L |-> <<q[n]>>]
      BY <1>1, <2>1
    <2>3. BrBlocks(m) = FlattenSeq(s)
      BY DEF BrBlocks, Each
    <2> HIDE DEF s
    <2> QED
      BY <1>2, <2>2, <2>3
  <1> QED
    BY <1>3, <1>4

(* All messages of a conversation are of such blocks, and have some.                        *)
LEMMA SpeaksPlainly ==
  ASSUME NEW t \in Utterances, NEW k \in Nat \ {0}, NEW v, NEW i, NEW q, SpeaksOf(q, t, CallsOf(v, i, k), k)
  PROVE  \E L \in Nat \ {0} : Plainly(q, L)
  <1>1. PICK C : C = CallsOf(v, i, k)
    OBVIOUS
  <1>2. \A n \in 1 .. k : Plain(C[n])
    <2>1. \A n \in 1 .. k : C[n].is = "call"
      BY ONLY <1>1, CallsAre
    <2> QED
      BY <2>1 DEF Plain
  <1>3. SpeaksOf(q, t, C, k)
    BY <1>1
  <1>4. CASE t = ""
    <2>1. q = [n \in 1 .. k |-> C[n]]
      BY <1>3, <1>4 DEF SpeaksOf
    <2> QED
      BY <1>2, <2>1 DEF Plainly
  <1>5. CASE t = "said"
    <2>1. q = [n \in 1 .. k + 1 |-> IF n = 1 THEN TextPart(t) ELSE C[n - 1]]
      BY <1>3, <1>5 DEF SpeaksOf
    <2>2. Plain(TextPart(t))
      BY <1>5 DEF Plain, TextPart
    <2>3. \A n \in 1 .. k + 1 : Plain(q[n])
      <3>1. ASSUME NEW n \in 1 .. k + 1 PROVE Plain(q[n])
        <4>1. n # 1 => n - 1 \in 1 .. k
          OBVIOUS
        <4>2. q[n] = IF n = 1 THEN TextPart(t) ELSE C[n - 1]
          BY <2>1
        <4> QED
          BY <1>2, <2>2, <4>1, <4>2
      <3> QED
        BY <3>1
    <2>4. q = [n \in 1 .. k + 1 |-> q[n]]
      BY <2>1
    <2>5. k + 1 \in Nat \ {0}
      OBVIOUS
    <2> QED
      BY ONLY <2>3, <2>4, <2>5 DEF Plainly
  <1> QED
    BY <1>4, <1>5 DEF Utterances

LEMMA ToldPlainly ==
  ASSUME NEW N, NEW T, NEW K, NEW by, NEW t, NEW ms, TellsAs(ms, N, T, K, by, t), NEW i \in 1 .. N
  PROVE  (\E L \in Nat \ {0} : Plainly(ms[i].parts, L)) /\ ms[i].role \in {"user", "assistant"}
  <1>1. Shape(N, T, K) /\ t \in Utterances
    BY DEF TellsAs
  <1>2. CASE i = 1
    <2>1. PICK p : p # "" /\ ms[1] = User(p)
      BY DEF TellsAs
    <2>2. ms[1].role = "user" /\ ms[1].parts = <<TextPart(p)>>
      <3>1. PICK x : x = <<TextPart(p)>>
        OBVIOUS
      <3>2. ms[1] = [role |-> "user", parts |-> x]
        BY <2>1, <3>1 DEF User, Message
      <3> QED
        BY <3>1, <3>2
    <2>3. Plain(TextPart(p))
      BY <2>1 DEF Plain, TextPart
    <2>4. Plainly(<<TextPart(p)>>, 1)
      BY <2>3 DEF Plainly
    <2> QED
      BY <1>2, <2>2, <2>4
  <1>3. CASE i \in T
    <2>1. SpeaksOf(ms[i].parts, t, CallsOf(by[i], i, K[i]), K[i]) /\ ms[i].role = "assistant"
      BY <1>3 DEF TellsAs
    <2>2. K[i] \in Nat \ {0}
      BY <1>1, <1>3 DEF Shape
    <2>3. \E L \in Nat \ {0} : Plainly(ms[i].parts, L)
      BY <1>1, <2>1, <2>2, SpeaksPlainly
    <2> QED
      BY <2>1, <2>3
  <1>4. ASSUME NEW l \in T, i = l + 1 PROVE (\E L \in Nat \ {0} : Plainly(ms[i].parts, L)) /\ ms[i].role = "user"
    <2>1. ms[i] = Message("user", ResultsOf(by[l], l, K[l]))
      BY <1>4 DEF TellsAs
    <2>2. K[l] \in Nat \ {0}
      BY <1>1 DEF Shape
    <2>3. Plainly(ResultsOf(by[l], l, K[l]), K[l])
      BY DEF Plainly, Plain, ResultsOf, ResultPart
    <2> QED
      BY <2>1, <2>2, <2>3 DEF Message
  <1> QED
    BY <1>1, <1>2, <1>3, <1>4, OneOfThree

(* So both vendors get the messages one by one.                                             *)
Blocks(ms, N) == [n \in 1 .. N |-> [role |-> Sides(ms[n].role), content |-> ms[n].parts]]
LEMMA AllTalk ==
  ASSUME NEW N, NEW T, NEW K, NEW by, NEW t, NEW ms, TellsAs(ms, N, T, K, by, t)
  PROVE  N \in Nat \ {0} /\ DOMAIN ms = 1 .. N /\ Talk(ms) = ms
  <1>1. N \in Nat \ {0} /\ ms = [i \in 1 .. N |-> ms[i]]
    BY DEF TellsAs, Shape
  <1>2. DOMAIN ms = 1 .. N
    BY <1>1
  <1>3. \A i \in 1 .. N : ms[i].role # "system"
    BY ToldPlainly
  <1>4. {n \in DOMAIN ms : ms[n].role # "system"} = 1 .. N
    BY <1>2, <1>3
  <1>5. Taken(ms, 1 .. N) = ms
    BY <1>1, TakenAll
  <1> QED
    BY <1>1, <1>2, <1>4, <1>5 DEF Talk

LEMMA BlocksSent ==
  ASSUME NEW N, NEW T, NEW K, NEW by, NEW t, NEW ms, TellsAs(ms, N, T, K, by, t)
  PROVE  AnRequest(ms).messages = Blocks(ms, N) /\ BrRequest(ms).messages = Blocks(ms, N)
  <1>1. N \in Nat \ {0} /\ DOMAIN ms = 1 .. N /\ Talk(ms) = ms
    BY AllTalk
  <1>2. ASSUME NEW n \in 1 .. N
        PROVE  AnBlocks(ms[n]) = ms[n].parts /\ BrBlocks(ms[n]) = ms[n].parts /\ ms[n].parts # <<>>
    <2>1. PICK L \in Nat \ {0} : Plainly(ms[n].parts, L)
      BY ToldPlainly
    <2>2. PICK q, m : q = ms[n].parts /\ m = ms[n]
      OBVIOUS
    <2>3. AnBlocks(m) = q /\ BrBlocks(m) = q
      BY <2>1, <2>2, Kept
    <2>4. q # <<>>
      BY <2>1, <2>2 DEF Plainly
    <2> QED
      BY <2>2, <2>3, <2>4
  <1>3. PICK x : x = Blocks(ms, N)
    OBVIOUS
  <1>4. x = [n \in 1 .. N |-> x[n]] /\ \A n \in 1 .. N : x[n] = [role |-> Sides(ms[n].role), content |-> ms[n].parts]
    BY <1>3 DEF Blocks
  <1>5. FlattenSeq([n \in 1 .. N |-> <<x[n]>>]) = x
    BY ONLY <1>1, <1>4, FlattenOnes
  <1>6. AnRequest(ms).messages = x
    <2> DEFINE s == [n \in DOMAIN ms |-> IF AnBlocks(ms[n]) = <<>> THEN <<>> ELSE <<[role |-> Sides(ms[n].role), content |-> AnBlocks(ms[n])]>>]
    <2>1. s = [n \in 1 .. N |-> <<x[n]>>]
      BY <1>1, <1>2, <1>4
    <2>2. AnRequest(ms).messages = FlattenSeq(s)
      BY <1>1 DEF AnRequest, Each
    <2> HIDE DEF s
    <2> QED
      BY <1>5, <2>1, <2>2
  <1>7. BrRequest(ms).messages = x
    <2> DEFINE s == [n \in DOMAIN ms |-> IF BrBlocks(ms[n]) = <<>> THEN <<>> ELSE <<[role |-> Sides(ms[n].role), content |-> BrBlocks(ms[n])]>>]
    <2>1. s = [n \in 1 .. N |-> <<x[n]>>]
      BY <1>1, <1>2, <1>4
    <2>2. BrRequest(ms).messages = FlattenSeq(s)
      BY <1>1 DEF BrRequest, Each
    <2> HIDE DEF s
    <2> QED
      BY <1>5, <2>1, <2>2
  <1> QED
    BY <1>3, <1>6, <1>7

LEMMA BlocksAreLegal ==
  ASSUME NEW N, NEW T, NEW K, NEW by, NEW t, NEW ms, TellsAs(ms, N, T, K, by, t)
  PROVE  Legal(AnRequest(ms).messages) /\ Legal(BrRequest(ms).messages)
  <1>1. PICK out : out = Blocks(ms, N)
    OBVIOUS
  <1>2. AnRequest(ms).messages = out /\ BrRequest(ms).messages = out
    BY <1>1, BlocksSent
  <1>3. Shape(N, T, K) /\ N \in Nat \ {0}
    BY DEF TellsAs, Shape
  <1>4. DOMAIN out = 1 .. N /\ out = [n \in 1 .. N |-> out[n]]
        /\ \A n \in 1 .. N : out[n].role = Sides(ms[n].role) /\ out[n].content = ms[n].parts
    BY <1>1 DEF Blocks
  <1>5. Len(out) = N
    BY <1>3, <1>4, LenProperties
  <1>6. \A n \in 1 .. N : n \notin T => ms[n].role = "user"
    <2>1. ASSUME NEW n \in 1 .. N, n \notin T PROVE ms[n].role = "user"
      <3>1. CASE n = 1
        <4>1. PICK p : ms[1] = User(p)
          BY DEF TellsAs
        <4> QED
          BY <3>1, <4>1 DEF User, Message
      <3>2. ASSUME NEW l \in T, n = l + 1 PROVE ms[n].role = "user"
        <4>1. ms[l + 1] = Message("user", ResultsOf(by[l], l, K[l]))
          BY DEF TellsAs
        <4> QED
          BY <3>2, <4>1 DEF Message
      <3> QED
        BY <1>3, <2>1, <3>1, <3>2, OneOfThree
    <2> QED
      BY <2>1
  <1>7. out[1].role = "user" /\ out[N].role = "user"
    BY <1>3, <1>4, <1>6 DEF Shape, Sides
  <1>8. ASSUME NEW n \in DOMAIN out \ {1}
        PROVE  /\ out[n].role # out[n - 1].role
               /\ BlockIds(out[n], "result") = BlockIds(out[n - 1], "call")
    <2>1. n \in 2 .. N /\ n \in 1 .. N /\ n - 1 \in 1 .. N
      BY <1>3, <1>4
    <2>2. Results(ms[n]) = Calls(ms[n - 1]) /\ (ms[n].role = "assistant" <=> ms[n - 1].role # "assistant")
      BY <2>1, MatchedIds
    <2>3. BlockIds(out[n], "result") = Results(ms[n])
      BY <1>4, <2>1 DEF BlockIds, Results, PartsOf
    <2>4. BlockIds(out[n - 1], "call") = Calls(ms[n - 1])
      BY <1>4, <2>1 DEF BlockIds, Calls, PartsOf
    <2>5. out[n].role # out[n - 1].role
      BY <1>4, <2>1, <2>2 DEF Sides
    <2> QED
      BY <2>2, <2>3, <2>4, <2>5
  <1>9. out # <<>>
    BY <1>3, <1>4
  <1>10. Legal(out)
    BY <1>5, <1>7, <1>8, <1>9 DEF Legal
  <1> QED
    BY <1>2, <1>10

(* Vertex looks names up by id, among all calls of the conversation.                        *)
AllCalls(T, K, by) == UNION {{CallOf(by[i], i, n) : n \in 1 .. K[i]} : i \in T}
LEMMA CallsFound ==
  ASSUME NEW N, NEW T, NEW K, NEW by, NEW t, NEW ms, TellsAs(ms, N, T, K, by, t)
  PROVE  /\ CallsIn(ms) \in Seq(AllCalls(T, K, by))
         /\ \A i \in T : \A n \in 1 .. K[i] : CallOf(by[i], i, n) \in Range(CallsIn(ms))
  <1>0. N \in Nat \ {0} /\ DOMAIN ms = 1 .. N
    BY AllTalk
  <1>1. Shape(N, T, K) /\ N \in Nat \ {0} /\ DOMAIN ms = 1 .. N
    BY <1>0 DEF TellsAs
  <1>2. PICK X : X = AllCalls(T, K, by)
    OBVIOUS
  <1>3. PICK s : s = [n \in 1 .. N |-> PartsOf(ms[n], "call")]
    OBVIOUS
  <1>4. CallsIn(ms) = FlattenSeq(s)
    BY <1>1, <1>3 DEF CallsIn, Each
  <1>5. ASSUME NEW i \in T
        PROVE  i \in 1 .. N /\ s[i] = CallsOf(by[i], i, K[i]) /\ s[i] \in Seq(X)
               /\ \A n \in 1 .. K[i] : CallOf(by[i], i, n) \in Range(s[i])
    <2>1. i \in 1 .. N /\ K[i] \in Nat
      BY <1>1, TurnBefore
    <2>2. s[i] = CallsOf(by[i], i, K[i])
      BY <1>3, <2>1, TurnParts
    <2>3. \A n \in 1 .. K[i] : CallOf(by[i], i, n) \in X
      BY <1>2 DEF AllCalls
    <2>4. s[i] \in Seq(X)
      BY <2>1, <2>2, <2>3 DEF CallsOf
    <2>5. \A n \in 1 .. K[i] : CallOf(by[i], i, n) \in Range(s[i])
      BY <2>2 DEF CallsOf, Range
    <2> QED
      BY <2>1, <2>2, <2>4, <2>5
  <1>6. ASSUME NEW n \in 1 .. N PROVE s[n] \in Seq(X)
    <2>1. CASE n \in T
      BY <1>5, <2>1
    <2>2. CASE n = 1
      <3>1. PICK p : ms[1] = User(p)
        BY DEF TellsAs
      <3>2. PartsOf(ms[1], "call") = <<>>
        BY <3>1, UserParts
      <3>3. s[n] = <<>>
        BY <1>3, <2>2, <3>2
      <3> QED
        BY ONLY <3>3
    <2>3. ASSUME NEW l \in T, n = l + 1 PROVE s[n] \in Seq(X)
      <3>1. ms[l + 1] = Message("user", ResultsOf(by[l], l, K[l])) /\ K[l] \in Nat
        BY <1>1, TurnBefore DEF TellsAs
      <3>2. PartsOf(ms[n], "call") = <<>>
        BY <2>3, <3>1, ReplyParts
      <3>3. s[n] = <<>>
        BY <1>3, <3>2
      <3> QED
        BY ONLY <3>3
    <2> QED
      BY <1>1, <2>1, <2>2, <2>3, OneOfThree
  <1>7. s = [n \in 1 .. N |-> s[n]]
    BY <1>3
  <1>8. FlattenSeq(s) \in Seq(X) /\ \A n \in 1 .. N : Range(s[n]) \subseteq Range(FlattenSeq(s))
    BY ONLY <1>1, <1>6, <1>7, Flattened
  <1> QED
    BY <1>2, <1>4, <1>5, <1>8

(* Equal ids are ids of calls of the same name, if Ollama counts in one turn at most.       *)
LEMMA IdsName ==
  ASSUME NEW T, NEW by, \A i \in T : by[i] \in Vendors,
         \A i, j \in T : by[i] = "ollama" /\ by[j] = "ollama" => i = j,
         NEW i \in T, NEW j \in T, NEW n \in Nat, NEW m \in Nat, IdOf(by[i], i, n) = IdOf(by[j], j, m)
  PROVE  Name(i, n) = Name(j, m)
  <1>1. PICK v : v = by[i]
    OBVIOUS
  <1>2. PICK w : w = by[j]
    OBVIOUS
  <1>3. IdOf(v, i, n) = IdOf(w, j, m)
    BY <1>1, <1>2
  <1>4. CASE v = "ollama" /\ w = "ollama"
    <2>1. i = j
      BY <1>1, <1>2, <1>4
    <2>2. Counted(n - 1) = Counted(m - 1)
      BY <1>3, <1>4 DEF IdOf
    <2>3. n - 1 = m - 1
      BY <2>2 DEF Counted
    <2>4. n = m
      BY <2>3
    <2> QED
      BY <2>1, <2>4
  <1>5. CASE v # "ollama" /\ w # "ollama"
    BY <1>3, <1>5 DEF IdOf, Hashed, Issued
  <1>6. CASE v # "ollama" /\ w = "ollama"
    BY <1>3, <1>6 DEF IdOf, Hashed, Issued, Counted
  <1>7. CASE v = "ollama" /\ w # "ollama"
    BY <1>3, <1>7 DEF IdOf, Hashed, Issued, Counted
  <1> QED
    BY <1>4, <1>5, <1>6, <1>7

LEMMA NameFound ==
  ASSUME NEW N, NEW T, NEW K, NEW by, NEW t, NEW ms, TellsAs(ms, N, T, K, by, t),
         \A i, j \in T : by[i] = "ollama" /\ by[j] = "ollama" => i = j,
         NEW i \in T, NEW n \in 1 .. K[i]
  PROVE  VxName(ms, IdOf(by[i], i, n)) = Name(i, n)
  <1>1. Shape(N, T, K) /\ \A j \in T : by[j] \in Vendors /\ K[j] \in Nat \ {0}
    BY DEF TellsAs, Shape
  <1>2. PICK calls, id, X : calls = CallsIn(ms) /\ id = IdOf(by[i], i, n) /\ X = AllCalls(T, K, by)
    OBVIOUS
  <1>3. calls \in Seq(X) /\ CallOf(by[i], i, n) \in Range(calls)
    BY <1>2, CallsFound
  <1>4. PICK S : S = {m \in DOMAIN calls : calls[m].id = id}
    OBVIOUS
  <1>5. S \in SUBSET Nat /\ IsFiniteSet(S)
    <2>1. S \subseteq 1 .. Len(calls) /\ Len(calls) \in Nat
      BY <1>3, <1>4
    <2>2. IsFiniteSet(1 .. Len(calls))
      BY <2>1, FS_Interval
    <2>3. IsFiniteSet(S)
      BY ONLY <2>1, <2>2, FS_Subset
    <2> QED
      BY <2>1, <2>3
  <1>6. S # {}
    <2>1. PICK m \in DOMAIN calls : calls[m] = CallOf(by[i], i, n)
      BY <1>3 DEF Range
    <2>2. calls[m].id = id
      BY ONLY <1>2, <2>1, CallIs
    <2> QED
      BY <1>4, <2>1, <2>2
  <1>7. Cardinality(S) \in Nat \ {0}
    BY <1>5, <1>6, FS_CardinalityType, FS_EmptySet
  <1>8. PICK c : c = Cardinality(S)
    OBVIOUS
  <1>9. PICK called : called = Taken(calls, S)
    OBVIOUS
  <1>10. called = [m \in 1 .. c |-> calls[Nth(S, m)]]
    BY <1>8, <1>9 DEF Taken
  <1>11. Len(called) = c /\ c \in 1 .. c
    <2>1. c \in Nat \ {0}
      BY <1>7, <1>8
    <2> QED
      BY <1>10, <2>1, LenProperties
  <1>12. Last(called) = calls[Nth(S, c)] /\ called # <<>>
    BY <1>10, <1>11 DEF Last
  <1>13. Nth(S, c) \in S
    BY <1>5, <1>8, <1>11, Ranks
  <1>14. PICK m \in S : m = Nth(S, c)
    BY <1>13
  <1>15. calls[m] \in X /\ calls[m].id = id
    BY <1>3, <1>4
  <1>a. PICK j \in T : \E k \in 1 .. K[j] : calls[m] = CallOf(by[j], j, k)
    BY <1>2, <1>15 DEF AllCalls
  <1>16. PICK k \in 1 .. K[j] : calls[m] = CallOf(by[j], j, k)
    BY <1>a
  <1>17. calls[m].name = Name(j, k) /\ IdOf(by[j], j, k) = IdOf(by[i], i, n)
    BY ONLY <1>2, <1>15, <1>16, CallIs
  <1>18. n \in Nat /\ k \in Nat
    BY <1>1
  <1>19. Name(i, n) = Name(j, k)
    BY <1>1, <1>17, <1>18, IdsName
  <1>20. VxName(ms, id) = Last(called).name
    BY <1>2, <1>4, <1>9, <1>12 DEF VxName
  <1> QED
    BY <1>2, <1>12, <1>14, <1>17, <1>19, <1>20

(* The part that a part becomes.                                                            *)
VxPart(ms, x) ==
  CASE x.is = "text" -> (IF x.text = "" THEN <<>> ELSE <<x>>)
    [] x.is = "call" -> <<[is |-> "functionCall", name |-> x.name, args |-> x.args]>>
    [] x.is = "result" -> <<[is |-> "functionResponse", name |-> VxName(ms, x.id), response |-> x.id]>>
    [] x.is = "image" -> VxImage(x) [] x.is = "url" -> (IF x.mime \in Mimes THEN <<x>> ELSE <<>>)
LEMMA VxPartIs ==
  ASSUME NEW ms, NEW x
  PROVE  /\ x.is = "text" /\ x.text # "" => VxPart(ms, x) = <<x>>
         /\ x.is = "call" => VxPart(ms, x) = <<[is |-> "functionCall", name |-> x.name, args |-> x.args]>>
         /\ x.is = "result" =>
              VxPart(ms, x) = <<[is |-> "functionResponse", name |-> VxName(ms, x.id), response |-> x.id]>>
  BY DEF VxPart
LEMMA VxPartsAre ==
  ASSUME NEW ms, NEW m, NEW q, m.parts = q
  PROVE  VxContent(m, ms).parts = FlattenSeq([n \in DOMAIN q |-> VxPart(ms, q[n])])
  <1>1. PICK e : e = FlattenSeq([n \in DOMAIN m.parts |-> VxPart(ms, m.parts[n])])
    OBVIOUS
  <1>2. VxContent(m, ms) = [role |-> VxRole(m.role), parts |-> e]
    BY ONLY <1>1 DEF VxContent, Each, VxPart
  <1> QED
    BY <1>1, <1>2

(* What Vertex is sent of a turn, and of its results.                                       *)
LEMMA VxTurn ==
  ASSUME NEW N, NEW T, NEW K, NEW by, NEW t, NEW ms, TellsAs(ms, N, T, K, by, t), NEW i \in T
  PROVE  SpeaksOf(VxContent(ms[i], ms).parts, t, FunctionCalls(i, K[i]), K[i])
  <1>1. t \in Utterances /\ K[i] \in Nat
    BY TurnBefore DEF TellsAs
  <1>2. PICK k, q, C, D : k = K[i] /\ q = ms[i].parts /\ C = CallsOf(by[i], i, K[i]) /\ D = FunctionCalls(i, K[i])
    OBVIOUS
  <1>3. k \in Nat /\ SpeaksOf(q, t, C, k)
    BY <1>1, <1>2 DEF TellsAs
  <1>4. PICK s : s = [n \in DOMAIN q |-> VxPart(ms, q[n])]
    OBVIOUS
  <1>5. VxContent(ms[i], ms).parts = FlattenSeq(s)
    BY <1>2, <1>4, VxPartsAre
  <1>6. DOMAIN s = DOMAIN q /\ s = [n \in DOMAIN q |-> s[n]]
    BY <1>4
  <1>7. ASSUME NEW n \in DOMAIN q, q[n] = TextPart("said") PROVE s[n] = <<TextPart("said")>>
    BY <1>4, <1>7, SaidIs, VxPartIs
  <1>8. ASSUME NEW n \in 1 .. k, NEW m \in DOMAIN q, q[m] = C[n] PROVE s[m] = <<D[n]>>
    <2>1. C[n] = CallOf(by[i], i, n)
      BY <1>2 DEF CallsOf
    <2>2. q[m].is = "call" /\ q[m].name = Name(i, n) /\ q[m].args = "args"
      BY ONLY <1>8, <2>1, CallIs
    <2>3. D[n] = [is |-> "functionCall", name |-> Name(i, n), args |-> "args"]
      BY <1>2 DEF FunctionCalls
    <2>4. s[m] = VxPart(ms, q[m])
      BY <1>4
    <2>5. VxPart(ms, q[m]) = <<[is |-> "functionCall", name |-> q[m].name, args |-> q[m].args]>>
      BY ONLY <2>2, VxPartIs
    <2> QED
      BY <2>2, <2>3, <2>4, <2>5
  <1>9. SpeaksOf(FlattenSeq(s), t, D, k)
    BY ONLY <1>1, <1>3, <1>6, <1>7, <1>8, SpeaksAs
  <1> QED
    BY <1>2, <1>5, <1>9

Responses(ms, v, i, k) ==
  [n \in 1 .. k |-> [is |-> "functionResponse", name |-> VxName(ms, IdOf(v, i, n)), response |-> IdOf(v, i, n)]]
LEMMA VxReply ==
  ASSUME NEW v, NEW i, NEW k \in Nat, NEW ms, NEW m, m = Message("user", ResultsOf(v, i, k))
  PROVE  VxContent(m, ms).parts = Responses(ms, v, i, k)
  <1>1. PICK q, x : q = ResultsOf(v, i, k) /\ x = Responses(ms, v, i, k)
    OBVIOUS
  <1>2. m.parts = q
    BY <1>1 DEF Message
  <1>3. DOMAIN q = 1 .. k /\ \A n \in 1 .. k : q[n].is = "result" /\ q[n].id = IdOf(v, i, n)
    BY <1>1 DEF ResultsOf, ResultPart
  <1>4. x = [n \in 1 .. k |-> x[n]]
        /\ \A n \in 1 .. k : x[n] = [is |-> "functionResponse", name |-> VxName(ms, IdOf(v, i, n)), response |-> IdOf(v, i, n)]
    BY <1>1 DEF Responses
  <1>5. PICK s : s = [n \in DOMAIN q |-> VxPart(ms, q[n])]
    OBVIOUS
  <1>6. VxContent(m, ms).parts = FlattenSeq(s)
    BY <1>2, <1>5, VxPartsAre
  <1>7. ASSUME NEW n \in 1 .. k PROVE s[n] = <<x[n]>>
    <2>1. s[n] = VxPart(ms, q[n])
      BY <1>3, <1>5
    <2>2. VxPart(ms, q[n]) = <<[is |-> "functionResponse", name |-> VxName(ms, q[n].id), response |-> q[n].id]>>
      BY ONLY <1>3, n \in 1 .. k, VxPartIs
    <2> QED
      BY <1>3, <1>4, <2>1, <2>2
  <1>8. s = [n \in 1 .. k |-> <<x[n]>>]
    BY <1>3, <1>5, <1>7
  <1>9. FlattenSeq(s) = x
    BY ONLY k \in Nat, <1>4, <1>8, FlattenOnes
  <1> QED
    BY <1>1, <1>6, <1>9

LEMMA VxUser ==
  ASSUME NEW p, p # "", NEW ms, NEW m, m = User(p)
  PROVE  VxContent(m, ms).parts = <<TextPart(p)>>
  <1>1. PICK x : x = TextPart(p)
    OBVIOUS
  <1>2. x.is = "text" /\ x.text # ""
    BY <1>1 DEF TextPart
  <1>3. PICK q : q = <<x>>
    OBVIOUS
  <1>4. m.parts = q
    BY <1>1, <1>3 DEF User, Message
  <1>5. DOMAIN q = 1 .. 1 /\ q[1] = x
    BY ONLY <1>3
  <1>6. VxContent(m, ms).parts = FlattenSeq([n \in DOMAIN q |-> VxPart(ms, q[n])])
    BY ONLY <1>4, VxPartsAre
  <1>7. VxPart(ms, x) = <<x>>
    BY ONLY <1>2, VxPartIs
  <1>8. [n \in DOMAIN q |-> VxPart(ms, q[n])] = [n \in 1 .. 1 |-> <<q[n]>>]
    <2>1. \A n \in 1 .. 1 : q[n] = x
      BY ONLY <1>5
    <2>2. \A n \in 1 .. 1 : VxPart(ms, q[n]) = <<q[n]>>
      BY ONLY <1>7, <2>1
    <2> QED
      BY ONLY <1>5, <2>2
  <1>9. FlattenSeq([n \in 1 .. 1 |-> <<q[n]>>]) = [n \in 1 .. 1 |-> q[n]]
    BY ONLY 1 \in Nat, FlattenOnes
  <1>10. [n \in 1 .. 1 |-> q[n]] = <<x>>
    BY ONLY <1>5
  <1> QED
    BY ONLY <1>1, <1>6, <1>8, <1>9, <1>10

(* The names in a list of parts.                                                            *)
NamesIn(m, is) == Each(PartsOf(m, is), LAMBDA p : <<p.name>>)
LEMMA NamesAre ==
  ASSUME NEW k \in Nat, NEW C, C = [n \in 1 .. k |-> C[n]], NEW m, NEW is, PartsOf(m, is) = C
  PROVE  NamesIn(m, is) = [n \in 1 .. k |-> C[n].name]
  <1>1. PICK x : x = [n \in 1 .. k |-> C[n].name]
    OBVIOUS
  <1>2. PICK s : s = [n \in DOMAIN C |-> <<C[n].name>>]
    OBVIOUS
  <1>3. NamesIn(m, is) = FlattenSeq(s)
    BY <1>2 DEF NamesIn, Each
  <1>4. s = [n \in 1 .. k |-> <<x[n]>>]
    BY <1>1, <1>2
  <1>5. FlattenSeq(s) = [n \in 1 .. k |-> x[n]]
    BY ONLY k \in Nat, <1>4, FlattenOnes
  <1> QED
    BY <1>1, <1>3, <1>5

CalledNames(i, k) == [n \in 1 .. k |-> Name(i, n)]

LEMMA VxNames ==
  ASSUME NEW N, NEW T, NEW K, NEW by, NEW t, NEW ms, TellsAs(ms, N, T, K, by, t),
         \A i, j \in T : by[i] = "ollama" /\ by[j] = "ollama" => i = j,
         NEW i \in T
  PROVE  /\ NamesIn(VxContent(ms[i], ms), "functionCall") = CalledNames(i, K[i])
         /\ NamesIn(VxContent(ms[i + 1], ms), "functionResponse") = CalledNames(i, K[i])
  <1>1. K[i] \in Nat \ {0} /\ t \in Utterances
    BY TurnBefore DEF TellsAs
  <1>2. PICK k : k = K[i]
    OBVIOUS
  <1>3. NamesIn(VxContent(ms[i], ms), "functionCall") = CalledNames(i, k)
    <2>1. PICK m, D, w : m = VxContent(ms[i], ms) /\ D = FunctionCalls(i, k) /\ w = "functionCall"
      OBVIOUS
    <2>2. D = [n \in 1 .. k |-> D[n]] /\ \A n \in 1 .. k : D[n].is = w /\ D[n].name = Name(i, n)
      BY <2>1 DEF FunctionCalls
    <2>3. PICK q : q = m.parts
      OBVIOUS
    <2>4. k \in Nat /\ w # "text" /\ \A n \in 1 .. k : D[n].is = w
      BY <1>1, <1>2, <2>1, <2>2
    <2>5. SpeaksOf(q, t, D, k)
      BY <1>2, <2>1, <2>3, VxTurn
    <2>6. Apart(q, t, D, k, w)
      BY ONLY <1>1, <2>4, <2>5, SpeaksTaken
    <2>7. PartsOf(m, w) = D
      BY <2>2, <2>3, <2>6 DEF Apart, PartsOf
    <2>8. NamesIn(m, w) = [n \in 1 .. k |-> D[n].name]
      BY ONLY <2>2, <2>4, <2>7, NamesAre
    <2> QED
      BY <2>1, <2>2, <2>8 DEF CalledNames
  <1>4. NamesIn(VxContent(ms[i + 1], ms), "functionResponse") = CalledNames(i, k)
    <2>1. PICK m, D : m = VxContent(ms[i + 1], ms) /\ D = Responses(ms, by[i], i, k)
      OBVIOUS
    <2>2. PICK w : w = "functionResponse"
      OBVIOUS
    <2>3. ms[i + 1] = Message("user", ResultsOf(by[i], i, k))
      BY <1>2 DEF TellsAs
    <2>4. k \in Nat
      BY <1>1, <1>2
    <2>5. m.parts = D
      BY <2>1, <2>3, <2>4, VxReply
    <2>6. D = [n \in 1 .. k |-> D[n]] /\ DOMAIN D = 1 .. k
          /\ \A n \in 1 .. k : D[n].is = w /\ D[n].name = VxName(ms, IdOf(by[i], i, n))
      BY <2>1, <2>2 DEF Responses
    <2>7. \A n \in 1 .. k : D[n].name = Name(i, n)
      BY <1>2, <2>6, NameFound
    <2>8. {n \in DOMAIN D : D[n].is = w} = 1 .. k
      BY <2>6
    <2>9. Taken(D, 1 .. k) = D
      BY ONLY <2>4, <2>6, TakenAll
    <2>10. PartsOf(m, w) = D
      BY <2>5, <2>8, <2>9 DEF PartsOf
    <2>11. NamesIn(m, w) = [n \in 1 .. k |-> D[n].name]
      BY ONLY <2>4, <2>6, <2>10, NamesAre
    <2> QED
      BY <2>1, <2>2, <2>7, <2>11 DEF CalledNames
  <1> QED
    BY <1>2, <1>3, <1>4

(* No other message has such parts.                                                         *)
LEMMA VxOthers ==
  ASSUME NEW N, NEW T, NEW K, NEW by, NEW t, NEW ms, TellsAs(ms, N, T, K, by, t), NEW i \in 1 .. N
  PROVE  /\ i \in T => NamesIn(VxContent(ms[i], ms), "functionResponse") = <<>>
         /\ i \notin T => NamesIn(VxContent(ms[i], ms), "functionCall") = <<>>
  <1>1. Shape(N, T, K) /\ t \in Utterances
    BY DEF TellsAs
  <1>2. ASSUME NEW m, NEW w, PartsOf(m, w) = <<>> PROVE NamesIn(m, w) = <<>>
    <2>1. Len(<<>>) = 0 /\ DOMAIN <<>> = {}
      OBVIOUS
    <2>2. NamesIn(m, w) = FlattenSeq([n \in {} |-> <<(<<>>)[n].name>>])
      BY <1>2, <2>1 DEF NamesIn, Each
    <2>3. PICK s : s = [n \in {} |-> <<(<<>>)[n].name>>]
      OBVIOUS
    <2>4. s = <<>>
      BY <2>3
    <2> QED
      BY <2>1, <2>2, <2>3, <2>4, FlattenNone
  <1>3. CASE i \in T
    <2>1. PICK q, D, k, w : q = VxContent(ms[i], ms).parts /\ D = FunctionCalls(i, k) /\ k = K[i] /\ w = "functionCall"
      OBVIOUS
    <2>2. k \in Nat /\ w # "text" /\ \A n \in 1 .. k : D[n].is = w
      BY <1>1, <1>3, <2>1 DEF FunctionCalls, Shape
    <2>3. SpeaksOf(q, t, D, k)
      BY <1>3, <2>1, VxTurn
    <2>4. Apart(q, t, D, k, w)
      BY ONLY <1>1, <2>2, <2>3, SpeaksTaken
    <2>5. Taken(q, {n \in DOMAIN q : q[n].is = "functionResponse"}) = <<>>
      BY <2>1, <2>4 DEF Apart
    <2>6. PartsOf(VxContent(ms[i], ms), "functionResponse") = <<>>
      BY <2>1, <2>5 DEF PartsOf
    <2> QED
      BY <1>2, <1>3, <2>6
  <1>4. ASSUME i = 1 PROVE NamesIn(VxContent(ms[i], ms), "functionCall") = <<>>
    <2>1. PICK p : p # "" /\ ms[1] = User(p)
      BY DEF TellsAs
    <2>2. PICK q : q = <<TextPart(p)>>
      OBVIOUS
    <2>3. VxContent(ms[i], ms).parts = q
      BY <1>4, <2>1, <2>2, VxUser
    <2>4. {n \in DOMAIN q : q[n].is = "functionCall"} = {}
      BY <2>2 DEF TextPart
    <2>5. PartsOf(VxContent(ms[i], ms), "functionCall") = <<>>
      BY <2>3, <2>4, TakenNone DEF PartsOf
    <2> QED
      BY <1>2, <2>5
  <1>5. ASSUME NEW l \in T, i = l + 1 PROVE NamesIn(VxContent(ms[i], ms), "functionCall") = <<>>
    <2>1. PICK q : q = Responses(ms, by[l], l, K[l])
      OBVIOUS
    <2>2. ms[i] = Message("user", ResultsOf(by[l], l, K[l])) /\ K[l] \in Nat
      BY <1>1, <1>5 DEF TellsAs, Shape
    <2>3. VxContent(ms[i], ms).parts = q
      BY <2>1, <2>2, VxReply
    <2>4. {n \in DOMAIN q : q[n].is = "functionCall"} = {}
      BY <2>1 DEF Responses
    <2>5. PartsOf(VxContent(ms[i], ms), "functionCall") = <<>>
      BY <2>3, <2>4, TakenNone DEF PartsOf
    <2> QED
      BY <1>2, <2>5
  <1> QED
    BY <1>1, <1>3, <1>4, <1>5, OneOfThree

(* So the responses of each content are named as the calls before it.                       *)
LEMMA NamesAreResolved ==
  ASSUME NEW N, NEW T, NEW K, NEW by, NEW t, NEW ms, TellsAs(ms, N, T, K, by, t),
         \A i, j \in T : by[i] = "ollama" /\ by[j] = "ollama" => i = j,
         NEW out, out = VxRequest(ms).contents, NEW i \in DOMAIN out \ {1}
  PROVE  NamesIn(out[i], "functionResponse") = NamesIn(out[i - 1], "functionCall")
  <1>1. N \in Nat \ {0} /\ DOMAIN ms = 1 .. N /\ Talk(ms) = ms
    BY AllTalk
  <1>2. Shape(N, T, K)
    BY DEF TellsAs
  <1>3. out = [n \in 1 .. N |-> VxContent(ms[n], ms)]
    BY <1>1 DEF VxRequest
  <1>4. i \in 2 .. N /\ i \in 1 .. N /\ i - 1 \in 1 .. N /\ i = (i - 1) + 1
    BY <1>1, <1>3
  <1>5. out[i] = VxContent(ms[i], ms) /\ out[i - 1] = VxContent(ms[i - 1], ms)
    BY <1>3, <1>4
  <1>6. CASE i \in T
    <2>1. i - 1 \notin T
      BY <1>2, <1>4, <1>6 DEF Shape
    <2>2. NamesIn(VxContent(ms[i], ms), "functionResponse") = <<>>
      BY <1>4, <1>6, VxOthers
    <2>3. NamesIn(VxContent(ms[i - 1], ms), "functionCall") = <<>>
      BY <1>4, <2>1, VxOthers
    <2> QED
      BY <1>5, <2>2, <2>3
  <1>7. CASE i \notin T
    <2>1. PICK l \in T : l = i - 1
      BY <1>2, <1>4, <1>7 DEF Shape
    <2>2. i = l + 1
      BY <1>4, <2>1
    <2>3. NamesIn(VxContent(ms[l], ms), "functionCall") = NamesIn(VxContent(ms[l + 1], ms), "functionResponse")
      BY VxNames
    <2> QED
      BY <1>5, <2>1, <2>2, <2>3
  <1> QED
    BY <1>6, <1>7

(* What goes back to the vendor that said it.                                               *)
LEMMA OaContent ==
  ASSUME NEW t \in Utterances, NEW k \in Nat \ {0}, NEW v, NEW i, NEW m, SpeaksOf(m.parts, t, CallsOf(v, i, k), k)
  PROVE  OaBlocks(m) = Saying(t)
  <1>1. PICK q, C : q = m.parts /\ C = CallsOf(v, i, k)
    OBVIOUS
  <1>2. \A n \in 1 .. k : C[n].is = "call"
    BY ONLY <1>1, CallsAre
  <1>3. SpeaksOf(q, t, C, k)
    BY <1>1
  <1> DEFINE Block(p) == CASE p.is = "text" -> <<p>> [] p.is = "image" -> OaImage(p) [] p.is = "url" -> <<UrlPart("none")>>
                           [] p.is \in {"call", "result"} -> <<>>
  <1>4. OaBlocks(m) = FlattenSeq([n \in DOMAIN q |-> Block(q[n])])
    BY <1>1 DEF OaBlocks, Each
  <1>5. \A p : (p.is = "text" => Block(p) = <<p>>) /\ (p.is = "call" => Block(p) = <<>>)
    OBVIOUS
  <1> HIDE DEF Block
  <1>6. CASE t = ""
    <2>1. q = [n \in 1 .. k |-> C[n]]
      BY <1>3, <1>6 DEF SpeaksOf
    <2>2. PICK s : s = [n \in 1 .. k |-> IF n = 1 THEN <<>> ELSE <<>>]
      OBVIOUS
    <2>3. [n \in DOMAIN q |-> Block(q[n])] = s
      BY <1>2, <1>5, <2>1, <2>2
    <2>4. FlattenSeq(s) = <<>>
      BY ONLY k \in Nat \ {0}, <2>2, FlattenFirst
    <2>5. Saying(t) = <<>>
      BY <1>6 DEF Saying
    <2> QED
      BY <1>4, <2>3, <2>4, <2>5
  <1>7. CASE t = "said"
    <2>1. q = [n \in 1 .. k + 1 |-> IF n = 1 THEN TextPart(t) ELSE C[n - 1]]
      BY <1>3, <1>7 DEF SpeaksOf
    <2>2. PICK y : y = TextPart(t)
      OBVIOUS
    <2>3. PICK x : x = <<y>>
      OBVIOUS
    <2>4. PICK s : s = [n \in 1 .. k + 1 |-> IF n = 1 THEN x ELSE <<>>]
      OBVIOUS
    <2>5. y.is = "text"
      BY <2>2 DEF TextPart
    <2>6. Block(y) = x
      BY <1>5, <2>3, <2>5
    <2>7. ASSUME NEW n \in 1 .. k + 1 PROVE Block(q[n]) = s[n]
      <3>1. CASE n = 1
        <4>1. q[n] = y /\ s[n] = x
          BY <2>1, <2>2, <2>4, <3>1
        <4> QED
          BY <2>6, <4>1
      <3>2. CASE n # 1
        <4>1. n - 1 \in 1 .. k /\ q[n] = C[n - 1] /\ s[n] = <<>>
          BY <2>1, <2>4, <3>2
        <4> QED
          BY <1>2, <1>5, <4>1
      <3> QED
        BY <3>1, <3>2
    <2>8. [n \in DOMAIN q |-> Block(q[n])] = s
      <3>1. DOMAIN q = 1 .. k + 1
        BY <2>1
      <3> QED
        BY <2>4, <2>7, <3>1
    <2>9. FlattenSeq(s) = x
      <3>1. k + 1 \in Nat \ {0} /\ \E z : x = <<z>>
        BY <2>3
      <3> QED
        BY ONLY <2>4, <3>1, FlattenFirst
    <2>10. Saying(t) = x
      BY <1>7, <2>2, <2>3 DEF Saying
    <2> QED
      BY <1>4, <2>8, <2>9, <2>10
  <1> QED
    BY <1>6, <1>7 DEF Utterances

LEMMA OaTurn ==
  ASSUME NEW N, NEW T, NEW K, NEW by, NEW t, NEW ms, TellsAs(ms, N, T, K, by, t), NEW i \in T
  PROVE  /\ OaMessage(ms[i]).calls = CallsOf(by[i], i, K[i])
         /\ OaMessage(ms[i]).content = Saying(t)
  <1>1. PartsOf(ms[i], "call") = CallsOf(by[i], i, K[i]) /\ PartsOf(ms[i], "result") = <<>>
    BY TurnParts
  <1>2. K[i] \in Nat \ {0} /\ t \in Utterances /\ SpeaksOf(ms[i].parts, t, CallsOf(by[i], i, K[i]), K[i])
    BY TurnBefore DEF TellsAs
  <1>3. OaBlocks(ms[i]) = Saying(t)
    BY ONLY <1>2, OaContent
  <1> QED
    BY <1>1, <1>3 DEF OaMessage

LEMMA OaReply ==
  ASSUME NEW v, NEW i, NEW m, m = Message("user", ResultsOf(v, i, 1))
  PROVE  OaMessage(m).callId = IdOf(v, i, 1) /\ Ids(OaMessage(m).content) = <<IdOf(v, i, 1)>>
  <1>1. PartsOf(m, "result") = ResultsOf(v, i, 1)
    BY ONLY 1 \in Nat, m = Message("user", ResultsOf(v, i, 1)), ReplyParts
  <1>2. PICK x : x = ResultPart(IdOf(v, i, 1))
    OBVIOUS
  <1>3. ResultsOf(v, i, 1) = <<x>>
    BY <1>2 DEF ResultsOf
  <1>4. <<x>> # <<>> /\ Last(<<x>>) = x
    BY DEF Last
  <1>5. OaMessage(m).callId = x.id /\ OaMessage(m).content = <<x>>
    BY <1>1, <1>3, <1>4 DEF OaMessage
  <1>6. x.id = IdOf(v, i, 1)
    BY <1>2 DEF ResultPart
  <1>7. Ids(<<x>>) = <<x.id>>
    BY DEF Ids
  <1> QED
    BY <1>5, <1>6, <1>7

(* Where one result fits in a message, it is the one that was asked for.                    *)
LEMMA OneDelivered ==
  ASSUME NEW N, NEW T, NEW K, NEW by, NEW t, NEW ms, TellsAs(ms, N, T, K, by, t), NEW i \in T
  PROVE  /\ OaRequest(ms)[i] = OaMessage(ms[i]) /\ OaRequest(ms)[i + 1] = OaMessage(ms[i + 1])
         /\ Len(OaMessage(ms[i]).calls) = K[i]
         /\ K[i] = 1 => /\ OaMessage(ms[i + 1]).callId = OaMessage(ms[i]).calls[1].id
                        /\ Ids(OaMessage(ms[i + 1]).content) = <<OaMessage(ms[i + 1]).callId>>
  <1>1. i \in 1 .. N /\ i + 1 \in 1 .. N /\ K[i] \in Nat
    BY TurnBefore DEF TellsAs
  <1>2. OaRequest(ms)[i] = OaMessage(ms[i]) /\ OaRequest(ms)[i + 1] = OaMessage(ms[i + 1])
    BY <1>1, AllTalk DEF OaRequest
  <1>3. PICK v, k : v = by[i] /\ k = K[i]
    OBVIOUS
  <1>4. OaMessage(ms[i]).calls = CallsOf(v, i, k)
    BY <1>3, OaTurn
  <1>5. Len(CallsOf(v, i, k)) = k
    <2>1. k \in Nat /\ CallsOf(v, i, k) = [n \in 1 .. k |-> CallsOf(v, i, k)[n]]
      BY <1>1, <1>3, CallsAre
    <2> QED
      BY ONLY <2>1, LenProperties
  <1>6. ASSUME k = 1
        PROVE  /\ OaMessage(ms[i + 1]).callId = OaMessage(ms[i]).calls[1].id
               /\ Ids(OaMessage(ms[i + 1]).content) = <<OaMessage(ms[i + 1]).callId>>
    <2>1. ms[i + 1] = Message("user", ResultsOf(v, i, 1))
      BY <1>3, <1>6 DEF TellsAs
    <2>2. OaMessage(ms[i + 1]).callId = IdOf(v, i, 1) /\ Ids(OaMessage(ms[i + 1]).content) = <<IdOf(v, i, 1)>>
      BY ONLY <2>1, OaReply
    <2>3. CallsOf(v, i, 1)[1] = CallOf(v, i, 1)
      BY DEF CallsOf
    <2>4. CallsOf(v, i, 1)[1].id = IdOf(v, i, 1)
      BY <2>3, CallIs
    <2> QED
      BY <1>4, <1>6, <2>2, <2>4
  <1> QED
    BY <1>2, <1>3, <1>4, <1>5, <1>6

(* Vendor by vendor: what is sent of a turn is what its answer was.                         *)
LEMMA OaEchoes ==
  ASSUME NEW v \in {"openai", "mistral"}, NEW i, NEW k, NEW t, NEW m, NEW ms,
         OaMessage(m).calls = CallsOf(v, i, k), OaMessage(m).content = Saying(t)
  PROVE  Echoed(v, m, ms) = AsSaid(v, Wire(v, i, k, t))
  <1>1. PICK C : C = IssuedCalls(i, k)
    OBVIOUS
  <1>2. OaMessage(m).calls = C
    BY <1>1, IssuedAre
  <1>3. PICK S : S = Saying(t)
    OBVIOUS
  <1>4. Echoed(v, m, ms) = [choices |-> <<[text |-> S, calls |-> C, why |-> "tool_calls"]>>]
    BY <1>2, <1>3 DEF Echoed, MiMessage
  <1>5. PICK r : r = [choices |-> <<[text |-> t, calls |-> C, why |-> "tool_calls"]>>]
    OBVIOUS
  <1>6. Wire(v, i, k, t) = r
    BY <1>1, <1>5 DEF Wire
  <1>7. AsSaid(v, r) = [r EXCEPT !.choices[1].text = Saying(@)]
    BY DEF AsSaid
  <1>8. PICK c, d : c = [text |-> t, calls |-> C, why |-> "tool_calls"] /\ d = [text |-> S, calls |-> C, why |-> "tool_calls"]
    OBVIOUS
  <1>9. [c EXCEPT !.text = S] = d
    BY ONLY <1>8
  <1>10. PICK cs : cs = <<c>>
    OBVIOUS
  <1>11. r = [choices |-> cs] /\ r.choices = cs /\ cs[1] = c /\ cs[1].text = t
    BY ONLY <1>5, <1>8, <1>10
  <1>12. [cs EXCEPT ![1].text = S] = <<d>>
    BY ONLY <1>9, <1>10
  <1>13. [r EXCEPT !.choices[1].text = S] = [choices |-> <<d>>]
    BY ONLY <1>11, <1>12
  <1>14. [r EXCEPT !.choices[1].text = Saying(@)] = [r EXCEPT !.choices[1].text = S]
    BY ONLY <1>3, <1>11
  <1> QED
    BY <1>4, <1>6, <1>7, <1>8, <1>13, <1>14

LEMMA BlocksEcho ==
  ASSUME NEW v \in {"anthropic", "bedrock"}, NEW i, NEW k \in Nat \ {0}, NEW t \in Utterances, NEW m, NEW ms,
         SpeaksOf(m.parts, t, CallsOf(v, i, k), k)
  PROVE  Echoed(v, m, ms) = AsSaid(v, Wire(v, i, k, t))
  <1>1. PICK L \in Nat \ {0} : Plainly(m.parts, L)
    BY SpeaksPlainly
  <1>2. AnBlocks(m) = m.parts /\ BrBlocks(m) = m.parts
    BY <1>1, Kept
  <1>3. PICK C : C = IssuedCalls(i, k)
    OBVIOUS
  <1>4. C = CallsOf(v, i, k)
    BY <1>3, IssuedAre
  <1>5. C = [n \in 1 .. k |-> C[n]]
    BY ONLY <1>4, CallsAre
  <1>6. SpeaksOf(Saying(t) \o C, t, C, k)
    BY <1>5, SayingIs
  <1>7. SpeaksOf(m.parts, t, C, k)
    BY <1>4
  <1>8. m.parts = Saying(t) \o C
    BY <1>6, <1>7, SpeaksOnce
  <1>9. Wire(v, i, k, t) = [content |-> Saying(t) \o C, why |-> "tool_use"]
    BY <1>3 DEF Wire
  <1>10. AsSaid(v, Wire(v, i, k, t)) = Wire(v, i, k, t)
    BY DEF AsSaid
  <1>11. Echoed(v, m, ms) = [content |-> m.parts, why |-> "tool_use"]
    BY <1>2 DEF Echoed
  <1> QED
    BY <1>8, <1>9, <1>10, <1>11

LEMMA VxEchoes ==
  ASSUME NEW i, NEW k \in Nat, NEW t \in Utterances, NEW m, NEW ms,
         SpeaksOf(VxContent(m, ms).parts, t, FunctionCalls(i, k), k)
  PROVE  Echoed("vertex", m, ms) = AsSaid("vertex", Wire("vertex", i, k, t))
  <1>1. PICK C : C = FunctionCalls(i, k)
    OBVIOUS
  <1>2. C = [n \in 1 .. k |-> C[n]]
    BY <1>1 DEF FunctionCalls
  <1>3. SpeaksOf(Saying(t) \o C, t, C, k)
    BY <1>2, SayingIs
  <1>4. SpeaksOf(VxContent(m, ms).parts, t, C, k)
    BY <1>1
  <1>5. VxContent(m, ms).parts = Saying(t) \o C
    BY <1>3, <1>4, SpeaksOnce
  <1>6. Wire("vertex", i, k, t) = [candidates |-> <<[parts |-> Saying(t) \o C, why |-> "STOP"]>>]
    BY <1>1 DEF Wire, FunctionCalls
  <1>7. AsSaid("vertex", Wire("vertex", i, k, t)) = Wire("vertex", i, k, t)
    BY DEF AsSaid
  <1>8. Echoed("vertex", m, ms) = [candidates |-> <<[parts |-> VxContent(m, ms).parts, why |-> "STOP"]>>]
    BY DEF Echoed
  <1> QED
    BY <1>5, <1>6, <1>7, <1>8

LEMMA OlEchoes ==
  ASSUME NEW i, NEW k \in Nat, NEW t \in Utterances, NEW m, NEW ms,
         PartsOf(m, "call") = CallsOf("ollama", i, k), PartsOf(m, "result") = <<>>, PartsOf(m, "text") = Saying(t)
  PROVE  Echoed("ollama", m, ms) = AsSaid("ollama", Wire("ollama", i, k, t))
  <1>1. PICK x : x = [n \in 1 .. k |-> [name |-> Name(i, n), args |-> "args"]]
    OBVIOUS
  <1>2. PICK C : C = CallsOf("ollama", i, k)
    OBVIOUS
  <1>3. DOMAIN C = 1 .. k /\ \A n \in 1 .. k : C[n].name = Name(i, n) /\ C[n].args = "args"
    <2>1. DOMAIN C = 1 .. k
      BY <1>2 DEF CallsOf
    <2>2. \A n \in 1 .. k : C[n] = CallOf("ollama", i, n)
      BY <1>2 DEF CallsOf
    <2> QED
      BY ONLY <2>1, <2>2, CallIs
  <1>4. OlMessage(m).calls = FlattenSeq([n \in DOMAIN C |-> <<[name |-> C[n].name, args |-> C[n].args]>>])
    BY <1>2 DEF OlMessage, Each
  <1>5. \A n \in 1 .. k : x[n] = [name |-> Name(i, n), args |-> "args"]
    BY <1>1
  <1>6. [n \in DOMAIN C |-> <<[name |-> C[n].name, args |-> C[n].args]>>] = [n \in 1 .. k |-> <<x[n]>>]
    BY <1>3, <1>5
  <1>7. FlattenSeq([n \in 1 .. k |-> <<x[n]>>]) = [n \in 1 .. k |-> x[n]]
    BY ONLY k \in Nat, FlattenOnes
  <1>8. OlMessage(m).calls = x
    BY <1>1, <1>4, <1>6, <1>7
  <1>9. PICK S : S = Saying(t)
    OBVIOUS
  <1>10. OlMessage(m).content = S
    BY <1>9 DEF OlMessage
  <1>11. Echoed("ollama", m, ms) = [text |-> S, calls |-> x, why |-> "stop"]
    BY <1>8, <1>10 DEF Echoed
  <1>12. PICK r : r = [text |-> t, calls |-> x, why |-> "stop"]
    OBVIOUS
  <1>13. Wire("ollama", i, k, t) = r
    BY <1>1, <1>12 DEF Wire
  <1>14. AsSaid("ollama", r) = [r EXCEPT !.text = Saying(@)]
    BY DEF AsSaid
  <1>15. [r EXCEPT !.text = Saying(@)] = [text |-> S, calls |-> x, why |-> "stop"]
    BY ONLY <1>9, <1>12
  <1> QED
    BY <1>11, <1>13, <1>14, <1>15

LEMMA Echoes ==
  ASSUME NEW N, NEW T, NEW K, NEW by, NEW t, NEW ms, TellsAs(ms, N, T, K, by, t), NEW i \in T
  PROVE  Echoed(by[i], ms[i], ms) = AsSaid(by[i], Wire(by[i], i, K[i], t))
  <1>1. PICK v, k, m : v = by[i] /\ k = K[i] /\ m = ms[i]
    OBVIOUS
  <1>2. v \in Vendors /\ k \in Nat \ {0} /\ t \in Utterances /\ SpeaksOf(m.parts, t, CallsOf(v, i, k), k)
    BY <1>1, TurnBefore DEF TellsAs
  <1>3. CASE v \in {"openai", "mistral"}
    <2>1. OaMessage(m).calls = CallsOf(v, i, k) /\ OaMessage(m).content = Saying(t)
      BY <1>1, OaTurn
    <2>2. Echoed(v, m, ms) = AsSaid(v, Wire(v, i, k, t))
      BY ONLY <1>3, <2>1, OaEchoes
    <2> QED
      BY <1>1, <2>2
  <1>4. CASE v \in {"anthropic", "bedrock"}
    <2>1. Echoed(v, m, ms) = AsSaid(v, Wire(v, i, k, t))
      BY ONLY <1>2, <1>4, BlocksEcho
    <2> QED
      BY <1>1, <2>1
  <1>5. CASE v = "vertex"
    <2>1. SpeaksOf(VxContent(m, ms).parts, t, FunctionCalls(i, k), k)
      BY <1>1, VxTurn
    <2>2. Echoed("vertex", m, ms) = AsSaid("vertex", Wire("vertex", i, k, t))
      BY ONLY <1>2, <2>1, VxEchoes
    <2> QED
      BY <1>1, <1>5, <2>2
  <1>6. CASE v = "ollama"
    <2>1. PartsOf(m, "call") = CallsOf("ollama", i, k) /\ PartsOf(m, "result") = <<>> /\ PartsOf(m, "text") = Saying(t)
      BY ONLY <1>2, <1>6, SpokenParts
    <2>2. Echoed("ollama", m, ms) = AsSaid("ollama", Wire("ollama", i, k, t))
      BY ONLY <1>2, <2>1, OlEchoes
    <2> QED
      BY <1>1, <1>6, <2>2
  <1> QED
    BY <1>2, <1>3, <1>4, <1>5, <1>6 DEF Vendors

(* An answer that stays in the list has calls: one without any ends the run.                *)
Filled ==
  pc \notin {"finish"} \cup Over =>
    \A i \in 1 .. Len(msgs) : msgs[i].role = "assistant" => Calls(msgs[i]) # <<>>

LEMMA InitFilled == LoopInit => Filled
  <1> SUFFICES ASSUME LoopInit PROVE Filled
    OBVIOUS
  <1>1. PICK t \in Prompts : msgs = <<User(t)>>
    BY DEF LoopInit
  <1>2. Len(msgs) = 1 /\ msgs[1].role = "user"
    BY <1>1 DEF User, Message
  <1> QED
    BY <1>2 DEF Filled

LEMMA NextFilled == ASSUME Heard, Listed, Filled, LoopNext \/ Drop PROVE Filled'
  <1> USE DEF Filled, Fail, who, talk
  <1>1. CASE Drop
    BY <1>1 DEF Drop, Over
  <1>2. CASE StartStep \/ PreCheck \/ Chat \/ OpenStream \/ TextDelta \/ CallDelta \/ ChunkFails
             \/ StreamEnds \/ Record \/ Score \/ Policy \/ ToolReturns \/ Finish
    <2>1. msgs' = msgs /\ (pc' \in {"finish"} \cup Over \/ pc \notin {"finish"} \cup Over)
      BY <1>2 DEF StartStep, PreCheck, Chat, OpenStream, TextDelta, CallDelta, ChunkFails, StreamEnds,
                  Record, Score, Policy, ToolReturns, Finish, Over
    <2> QED
      BY <2>1
  <1>3. CASE Route
    BY <1>3 DEF Route, PickProvider, RouteToRole, Over
  <1>4. CASE Push
    <2>1. /\ asst \in Seq(Call) /\ SpokenOnce(msgs) /\ msgs' = Append(msgs, Called(asst))
          /\ pc' = "finish" \/ asst # <<>>
      BY <1>4 DEF Push, Heard, Listed
    <2>2. /\ Len(msgs') = Len(msgs) + 1 /\ msgs'[Len(msgs) + 1] = Called(asst)
          /\ \A i \in 1 .. Len(msgs) : msgs'[i] = msgs[i]
      BY <2>1, Longer
    <2>3. asst # <<>> => Calls(Called(asst)) # <<>>
      BY <2>1, CallsOfList
    <2>4. Len(msgs) \in Nat /\ pc \notin {"finish"} \cup Over
      BY <1>4, <2>1, LenProperties DEF Push, SpokenOnce, Over
    <2> QED
      BY <2>1, <2>2, <2>3, <2>4
  <1>5. CASE PushResults
    <2>1. /\ asst \in Seq(Call) /\ SpokenOnce(msgs) /\ msgs' = Append(msgs, Returned(asst))
      BY <1>5 DEF PushResults, Heard, Listed
    <2>2. /\ Len(msgs') = Len(msgs) + 1 /\ msgs'[Len(msgs) + 1] = Returned(asst)
          /\ \A i \in 1 .. Len(msgs) : msgs'[i] = msgs[i]
      BY <2>1, Longer
    <2>3. Returned(asst).role = "user"
      BY <2>1, CallsOfList
    <2>4. Len(msgs) \in Nat /\ pc \notin {"finish"} \cup Over
      BY <1>5, <2>1, LenProperties DEF PushResults, SpokenOnce, Over
    <2> QED
      BY <2>1, <2>2, <2>3, <2>4
  <1> QED
    BY <1>1, <1>2, <1>3, <1>4, <1>5, Performed

LEMMA AlwaysFilled == LoopSpec => []Filled
  <1>1. LoopInit => Filled
    BY InitFilled
  <1>2. LoopInv /\ Filled /\ [LoopNext \/ Drop]_loopVars => Filled'
    <2>1. ASSUME LoopInv, Filled, UNCHANGED loopVars PROVE Filled'
      BY <2>1 DEF Filled, loopVars
    <2> QED
      BY <2>1, NextFilled DEF LoopInv
  <1> QED
    BY <1>1, <1>2, Lasting, PTL DEF LoopSpec

(* So the list alternates, and any way to tell it does.                                     *)
Sizes == [i \in Turns |-> Len(Calls(msgs[i]))]
LEMMA Shapely ==
  ASSUME Closed(msgs), Filled, pc = "call"
  PROVE  Shape(Len(msgs), Turns, Sizes) /\ DOMAIN msgs = 1 .. Len(msgs)
  <1>1. msgs \in Seq(ListItem) /\ Len(msgs) \in Nat \ {0} /\ DOMAIN msgs = 1 .. Len(msgs)
    BY LenProperties DEF Closed, SpokenOnce
  <1>2. PICK N : N = Len(msgs)
    OBVIOUS
  <1>3. Turns \subseteq 1 .. N /\ \A i \in 1 .. N : i \in Turns <=> msgs[i].role = "assistant"
    BY <1>1, <1>2 DEF Turns
  <1>4. \A i \in 1 .. N : msgs[i] \in ListItem
    BY <1>1, <1>2
  <1>5. \A i \in 1 .. N : i \in Turns => Calls(msgs[i]) # <<>>
    BY <1>2, <1>3 DEF Filled, Over
  <1>6. \A m \in ListItem : m.role # "assistant" => Calls(m) = <<>>
    BY CallsOfList, CallsOfUser DEF ListItem
  <1>7. \A i \in 1 .. N : /\ Calls(msgs[i]) # <<>> => i < N /\ Results(msgs[i + 1]) = Calls(msgs[i])
                          /\ Results(msgs[i]) # <<>> => i > 1 /\ Results(msgs[i]) = Calls(msgs[i - 1])
                          /\ i \in Turns <=> Results(msgs[i]) = <<>> /\ i > 1
    BY <1>2, <1>3 DEF Closed, Answered
  <1>8. 1 \notin Turns /\ N \notin Turns
    BY <1>1, <1>2, <1>5, <1>7
  <1>9. ASSUME NEW i \in 2 .. N PROVE i \in Turns <=> i - 1 \notin Turns
    <2>1. i \in 1 .. N /\ i - 1 \in 1 .. N /\ i > 1 /\ (i - 1) + 1 = i
      BY <1>1, <1>2
    <2>2. ASSUME i \in Turns, i - 1 \in Turns PROVE FALSE
      BY <1>5, <1>7, <2>1, <2>2
    <2>3. ASSUME i \notin Turns, i - 1 \notin Turns PROVE FALSE
      <3>1. Results(msgs[i]) # <<>> /\ Results(msgs[i]) = Calls(msgs[i - 1])
        BY <1>7, <2>1, <2>3
      <3>2. msgs[i - 1] \in ListItem /\ msgs[i - 1].role # "assistant"
        BY <1>3, <1>4, <2>1, <2>3
      <3> QED
        BY <1>6, <3>1, <3>2
    <2> QED
      BY <2>2, <2>3
  <1>10. ASSUME NEW i \in Turns PROVE Sizes[i] \in Nat \ {0}
    <2>1. i \in 1 .. N /\ Calls(msgs[i]) # <<>> /\ msgs[i] \in ListItem
      BY <1>3, <1>4, <1>5
    <2>2. PICK c : c = Calls(msgs[i])
      OBVIOUS
    <2>3. PICK cs \in Seq(Call) : msgs[i] = Called(cs)
      <3>1. \A m \in ListItem : m.role = "assistant" => \E cs \in Seq(Call) : m = Called(cs)
        BY CallsOfList, CallsOfUser DEF ListItem
      <3> QED
        BY <1>3, <2>1, <3>1
    <2>4. c = Ids(cs)
      BY <2>2, <2>3, CallsOfList
    <2>5. c \in Seq({cs[n].id : n \in DOMAIN cs})
      BY <2>4 DEF Ids
    <2>6. Len(c) \in Nat \ {0}
      BY <2>1, <2>2, <2>5, EmptySeq, LenProperties
    <2> QED
      BY <2>2, <2>6 DEF Sizes
  <1> QED
    BY <1>1, <1>2, <1>3, <1>8, <1>9, <1>10 DEF Shape

(* As AgentLoop's list, retold with the answers of any vendors, does.                       *)
LEMMA Tells ==
  ASSUME Closed(msgs), Filled, pc = "call", NEW by \in [Turns -> Vendors], NEW t \in Utterances
  PROVE  TellsAs(Retold(by, t), Len(msgs), Turns, Sizes, by, t)
  <1>1. PICK N, T, K, ms : N = Len(msgs) /\ T = Turns /\ K = Sizes /\ ms = Retold(by, t)
    OBVIOUS
  <1>2. Shape(N, T, K) /\ DOMAIN msgs = 1 .. N
    BY <1>1, Shapely
  <1>3. ms = [i \in 1 .. N |-> IF i \in T THEN AnswerOf(by, t, i)
                               ELSE IF i - 1 \in T THEN Returned(PartsOf(AnswerOf(by, t, i - 1), "call")) ELSE msgs[i]]
    BY <1>1, <1>2 DEF Retold
  <1>4. ms = [i \in 1 .. N |-> ms[i]]
    BY <1>3
  <1>5. \E p : p # "" /\ ms[1] = User(p)
    <2>1. PICK p \in Prompts : msgs[1] = User(p)
      BY DEF Closed, SpokenOnce
    <2>2. p # ""
      BY RouterAssumption, Zenon DEF RouterAssumption
    <2>3. 1 \in 1 .. N /\ 1 \notin T /\ 1 - 1 \notin T
      BY <1>2 DEF Shape
    <2> QED
      BY <1>3, <2>1, <2>2, <2>3
  <1>6. ASSUME NEW i \in T
        PROVE  /\ by[i] \in Vendors
               /\ ms[i].role = "assistant"
               /\ SpeaksOf(ms[i].parts, t, CallsOf(by[i], i, K[i]), K[i])
               /\ ms[i + 1] = Message("user", ResultsOf(by[i], i, K[i]))
    <2>1. /\ i \in 1 .. N /\ i + 1 \in 1 .. N /\ i + 1 \notin T /\ i \in Nat /\ K[i] \in Nat \ {0}
      BY <1>2, TurnBefore
    <2>2. PICK v, k : v = by[i] /\ k = K[i]
      OBVIOUS
    <2>3. v \in Vendors /\ k \in Nat /\ k = Len(Calls(msgs[i]))
      BY <1>1, <2>1, <2>2 DEF Sizes
    <2>4. PICK m : m = AnswerOf(by, t, i)
      OBVIOUS
    <2>5. m = Message("assistant", Read(v, Wire(v, i, k, t)).parts)
      BY <2>2, <2>3, <2>4 DEF AnswerOf
    <2>6. m.role = "assistant" /\ m.parts = Read(v, Wire(v, i, k, t)).parts
      BY <2>5 DEF Message
    <2>7. SpeaksOf(m.parts, t, CallsOf(v, i, k), k)
      BY <2>3, <2>6, ReadIs
    <2>8. PartsOf(m, "call") = CallsOf(v, i, k)
      BY ONLY t \in Utterances, <2>3, <2>7, SpokenParts
    <2>9. Returned(CallsOf(v, i, k)) = Message("user", ResultsOf(v, i, k))
      BY DEF Returned, CallsOf, CallOf, CallPart, ResultsOf
    <2>10. ms[i] = m
      BY <1>3, <2>1, <2>4
    <2>11. (i + 1) - 1 = i
      BY <2>1
    <2>12. ms[i + 1] = Returned(PartsOf(m, "call"))
      BY <1>3, <2>1, <2>4, <2>11
    <2> QED
      BY <2>2, <2>3, <2>6, <2>7, <2>8, <2>9, <2>10, <2>12
  <1>7. TellsAs(ms, N, T, K, by, t)
    BY <1>2, <1>4, <1>5, <1>6 DEF TellsAs
  <1> QED
    BY <1>1, <1>7

(* Sets of one element at most.                                                             *)
LEMMA OneAtMost ==
  ASSUME NEW N \in Nat, NEW T, T \subseteq 1 .. N, NEW by, Cardinality({i \in T : by[i] = "ollama"}) <= 1
  PROVE  \A i, j \in T : by[i] = "ollama" /\ by[j] = "ollama" => i = j
  <1>1. PICK S : S = {i \in T : by[i] = "ollama"}
    OBVIOUS
  <1>0. IsFiniteSet(1 .. N)
    BY FS_Interval
  <1>2. S \subseteq 1 .. N /\ IsFiniteSet(1 .. N)
    BY <1>1, <1>0
  <1>3. S \in SUBSET Nat
    BY <1>2
  <1>4. IsFiniteSet(S)
    BY ONLY <1>2, FS_Subset
  <1>5. Cardinality(S) <= 1 /\ Cardinality(S) \in Nat
    BY <1>1, <1>4, FS_CardinalityType
  <1>6. \A i \in S : /\ Cardinality({j \in S : j <= i}) \in 1 .. Cardinality(S)
                     /\ Nth(S, Cardinality({j \in S : j <= i})) = i
    BY ONLY <1>3, <1>4, Ranks
  <1>7. ASSUME NEW i \in S PROVE Nth(S, 1) = i
    <2>1. PICK c : c = Cardinality({j \in S : j <= i})
      OBVIOUS
    <2>2. c \in 1 .. Cardinality(S) /\ Nth(S, c) = i
      BY <1>6, <2>1
    <2>3. c = 1
      BY <1>5, <2>2
    <2> QED
      BY <2>2, <2>3
  <1> QED
    BY <1>1, <1>7

(* Whatever vendors answered so far, the next is told the conversation as it was.           *)
LEMMA AllTold ==
  ASSUME Closed(msgs), Filled, pc = "call"
  PROVE  SentRight
  <1>1. ASSUME NEW by \in [Turns -> Vendors], NEW t \in Utterances PROVE TellsAs(Retold(by, t), Len(msgs), Turns, Sizes, by, t)
    BY <1>1, Tells
  <1>2. BlocksLegal
    <2>1. ASSUME NEW by \in [Turns -> Vendors], NEW t \in Utterances
          PROVE  Legal(AnRequest(Retold(by, t)).messages) /\ Legal(BrRequest(Retold(by, t)).messages)
      BY <1>1, BlocksAreLegal
    <2> QED
      BY <2>1 DEF BlocksLegal, Told, Utterances
  <1>3. NamesResolved
    <2>1. ASSUME NEW by \in [Turns -> Vendors], NEW t \in Utterances, Cardinality({i \in Turns : by[i] = "ollama"}) <= 1,
                 NEW out, out = VxRequest(Retold(by, t)).contents, NEW n \in DOMAIN out \ {1}
          PROVE  NamesIn(out[n], "functionResponse") = NamesIn(out[n - 1], "functionCall")
      <3>1. PICK N, T, K, ms : N = Len(msgs) /\ T = Turns /\ K = Sizes /\ ms = Retold(by, t)
        OBVIOUS
      <3>2. TellsAs(ms, N, T, K, by, t)
        BY <1>1, <3>1
      <3>3. N \in Nat /\ T \subseteq 1 .. N
        BY <3>2 DEF TellsAs, Shape
      <3>4. \A i, j \in T : by[i] = "ollama" /\ by[j] = "ollama" => i = j
        BY <2>1, <3>1, <3>3, OneAtMost
      <3>5. out = VxRequest(ms).contents
        BY <2>1, <3>1
      <3> QED
        BY ONLY <3>2, <3>4, <3>5, n \in DOMAIN out \ {1}, NamesAreResolved
    <2> QED
      BY <2>1 DEF NamesResolved, Told, Utterances, NamesIn
  <1>4. EchoExact
    <2>1. ASSUME NEW by \in [Turns -> Vendors], NEW t \in Utterances, NEW i \in Turns
          PROVE  Echoed(by[i], Retold(by, t)[i], Retold(by, t)) = AsSaid(by[i], Wire(by[i], i, Len(Calls(msgs[i])), t))
      <3>1. Sizes[i] = Len(Calls(msgs[i]))
        BY DEF Sizes
      <3>2. Echoed(by[i], Retold(by, t)[i], Retold(by, t)) = AsSaid(by[i], Wire(by[i], i, Sizes[i], t))
        BY <1>1, Echoes
      <3> QED
        BY <3>1, <3>2
    <2> QED
      BY <2>1 DEF EchoExact, Told, Utterances
  <1>5. OneResultDelivered
    <2>1. ASSUME NEW by \in [Turns -> Vendors], NEW t \in Utterances, NEW out \in {OaRequest(Retold(by, t)), MiRequest(Retold(by, t))},
                 NEW i \in Turns
          PROVE  /\ Len(out[i].calls) = Len(Calls(msgs[i]))
                 /\ Len(out[i].calls) = 1 => /\ out[i + 1].callId = out[i].calls[1].id
                                             /\ Ids(out[i + 1].content) = <<out[i + 1].callId>>
      <3>1. Sizes[i] = Len(Calls(msgs[i]))
        BY DEF Sizes
      <3>2. out = OaRequest(Retold(by, t))
        BY DEF MiRequest, MiMessage, OaRequest
      <3>3. PICK ms, k : ms = Retold(by, t) /\ k = Sizes[i]
        OBVIOUS
      <3>4. /\ out[i] = OaMessage(ms[i]) /\ out[i + 1] = OaMessage(ms[i + 1])
            /\ Len(OaMessage(ms[i]).calls) = k
            /\ k = 1 => /\ OaMessage(ms[i + 1]).callId = OaMessage(ms[i]).calls[1].id
                        /\ Ids(OaMessage(ms[i + 1]).content) = <<OaMessage(ms[i + 1]).callId>>
        BY <1>1, <3>2, <3>3, OneDelivered
      <3> QED
        BY <3>1, <3>3, <3>4
    <2> QED
      BY <2>1 DEF OneResultDelivered, Told, Utterances
  <1> QED
    BY <1>2, <1>3, <1>4, <1>5 DEF SentRight

(* Whenever a provider is called, and whichever vendors gave the answers so far, what     *)
(* each vendor is sent alternates between the sides and has the results of every call     *)
(* in their order, Vertex finds the name of each, a vendor gets back what it said, and    *)
(* a single result is sent under its id: convert.rs of the providers loses and mixes up   *)
(* nothing of any conversation the loop can hold, of any length (openai/src/convert.rs,   *)
(* anthropic/src/convert.rs, vertex/src/convert.rs:24).                                   *)
THEOREM ConversationsAreTold == LoopSpec => []SentRight
  <1>1. LoopInv /\ Filled => SentRight
    <2>1. ASSUME LoopInv, Filled, pc = "call" PROVE SentRight
      BY <2>1, AllTold DEF LoopInv, Listed
    <2>2. ASSUME pc # "call" PROVE SentRight
      BY <2>2 DEF SentRight, BlocksLegal, NamesResolved, EchoExact, OneResultDelivered, Told
    <2> QED
      BY <2>1, <2>2
  <1> QED
    BY <1>1, Lasting, AlwaysFilled, PTL
=============================================================================
